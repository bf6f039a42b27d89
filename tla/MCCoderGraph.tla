---------------------------- MODULE MCCoderGraph ----------------------------
(* Small folders for CoderGraph, built as readFolder builds them.          *)
EXTENDS CoderGraph, FiniteSetsExt, SequencesExt

CONSTANTS d1, d2, d3, r1, r2

MCReaders == {r1, r2}
MCDecoders == {d1, d2, d3}

Total(coders, field) == FoldLeft(LAMBDA n, c : n + c[field], 0, coders)

\* The folder readFolder returns for the coders and what follows them.
Folder(coders, pairs, packedList, n) ==
    [coder |-> coders,
     first |-> [i \in 1 .. Len(coders) + 1 |-> Total(SubSeq(coders, 1, i - 1), "in")],
     out |-> Total(coders, "out"), bindPair |-> pairs, packed |-> packedList,
     streams |-> n, size |-> [i \in 1 .. Len(coders) |-> 10 * i]]

\* The packed list of readFolder: the inputs without a bind pair when there is
\* one packed stream, or else any list.
PackedLists(coders, pairs, indexes) ==
    LET streams == Total(coders, "in") - Len(pairs) IN
    IF streams = 1
    THEN {SetToSortSeq({j \in 0 .. Total(coders, "in") - 1 :
                           \A k \in 1 .. Len(pairs) : pairs[k].in # j}, <)}
    ELSE [1 .. streams -> indexes]

\* All folders of the coders with bind pairs and packed indexes in 0 .. n - 1.
FoldersOf(coders, n) ==
    UNION {{Folder(coders, pairs, packed, Total(coders, "in") - Len(pairs) + 1) :
               packed \in PackedLists(coders, pairs, 0 .. n - 1)} :
           pairs \in [1 .. Total(coders, "out") - 1 ->
                        [in : 0 .. n - 1, out : 0 .. Len(coders)]]}

C(method, ins, outs) == [method |-> method, in |-> ins, out |-> outs]
Filter == C("filter", 1, 1)
Bcj2 == C("bcj2", 2, 1)

\* The shapes: every way to connect two or three coders.
Shapes ==
    FoldersOf(<<Filter, Filter, Filter>>, 3) \cup FoldersOf(<<Filter, Bcj2>>, 4)
    \cup FoldersOf(<<Bcj2, Filter>>, 3) \cup FoldersOf(<<Filter, Filter, Bcj2>>, 4)
    \cup FoldersOf(<<C("filter", 2, 2)>>, 2)

\* The chain of coders, each reading the one before it.
Chain(coders) ==
    Folder(coders, [k \in 1 .. Len(coders) - 1 |-> [in |-> k, out |-> k - 1]], <<0>>, 1)

\* bcj2 over two pooled decoders.
Fork(a, b) ==
    Folder(<<C(a, 1, 1), C(b, 1, 1), Bcj2>>,
           <<[in |-> 2, out |-> 0], [in |-> 3, out |-> 1]>>, <<0, 1>>, 2)

MCFolders ==
    Shapes
    \cup {Chain(<<C(a, 1, 1), C(b, 1, 1), C(c, 1, 1)>>) :
             a \in Methods, b \in {"pooled", "lzma", "copy", "ppmd"}, c \in {"filter", "pooled", "ppmd"}}
    \cup {Fork(a, b) : a, b \in {"pooled", "lzma", "ppmd"}}
=============================================================================
