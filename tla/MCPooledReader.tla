--------------------------- MODULE MCPooledReader ---------------------------
EXTENDS PooledReader, TLC

CONSTANTS f1, f2, f3, f4

\* A folder of 4 bytes whose header claims 6: f2 is entered at its start and left
\* in its middle, f3 ends past the folder's last byte and f4 begins past it.
MCOffset == f1 :> 0 @@ f2 :> 1 @@ f3 :> 3 @@ f4 :> 5
MCSize   == f1 :> 1 @@ f2 :> 2 @@ f3 :> 2 @@ f4 :> 1

\* A well-formed folder of two files.
MCTwoOffset == f1 :> 0 @@ f2 :> 1
MCTwoSize   == f1 :> 1 @@ f2 :> 2

Symmetry == Permutations(Handles) \cup Permutations(Rcs)
=============================================================================
