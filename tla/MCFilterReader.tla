--------------------------- MODULE MCFilterReader ---------------------------
(* Small streams for FilterReader.                                         *)
EXTENDS FilterReader

\* Instructions of each aligned kind, the branches near the ends of their
\* range included, and one that only looks like a branch.
MCWords ==
    [arm   |-> {PutLittle(v) : v \in {14 * 4096, 14 * 4096 + 4095, 4660}},
     arm64 |-> {PutLittle(v) : v \in {18 * 2048 + 2047, 32768 + 5, 32768 + 248 + 24576,
                                      32768 + 1800 + 3, 32768 + 1032, 4660}},
     ppc   |-> {PutBig(v) : v \in {16385, 32765, 16386, 4660}},
     sparc |-> {PutBig(v) : v \in {16384, 17407, 32767, 31744, 20480}}]

\* What may follow the last whole word.
MCTails == {<<>>, <<14, 14, 14>>}

MCStreams ==
    [k \in Kinds |->
        CASE k \in Aligned -> {a \o b \o t : a, b \in MCWords[k], t \in MCTails}
          [] k = "bcj" -> {s \in [1 .. 6 -> {0, 12, 15}] : s[1] = 12 \/ s[2] = 12}
          [] k = "delta" -> [1 .. 4 -> {0, 15, 5}] \cup {<<1, 2, 3, 4, 5, 6, 7>>}
          [] k = "aes" -> {<<>>, <<1>>, <<1, 2, 3>>, <<9, 9, 9, 9>>, <<15, 0, 15, 7, 2>>}
          [] k = "bcj2" -> {<<12, 1, 2, 3, 4, 12, 0, 0, 0, 15>>, <<7, 8, 5, 5, 5, 13, 1>>,
                            <<1, 2, 3, 4, 5, 6>>, <<12, 12, 12, 12, 12, 12, 7, 9, 1, 1, 1, 7>>,
                            <<13, 1, 1, 1, 7, 8, 2, 2, 2, 2>>}]
=============================================================================
