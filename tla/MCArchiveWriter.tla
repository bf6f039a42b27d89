-------------------------- MODULE MCArchiveWriter --------------------------
EXTENDS ArchiveWriter, TLC

\* Sequential, solid (where the concurrency is ignored) and concurrent writers.
MCOptions == {[solid |-> FALSE, concurrency |-> 1],
              [solid |-> TRUE,  concurrency |-> 2],
              [solid |-> FALSE, concurrency |-> 2]}

\* The concurrent mode alone.
MCConcurrent == {[solid |-> FALSE, concurrency |-> 2]}

\* The files are interchangeable.
Symmetry == Permutations(Jobs \ Dirs)
=============================================================================
