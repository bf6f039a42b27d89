---------------------------- MODULE MCReadCloser ----------------------------
(***************************************************************************)
(* Three families of scenarios: every reader of up to seven cells, for the *)
(* search; volumes of every split, with gaps; every archive of up to three *)
(* members with the names of MCNames, for the fs.FS view.                  *)
(***************************************************************************)
EXTENDS ReadCloser

MCSignature == <<7, 8>>
MCGoodHeader == 1

Archive3 == <<7, 8, 1>>
A == 3
B == 4

Scenario(volumes, multi, members) ==
    [volumes |-> volumes, multi |-> multi, members |-> members]

Contents == UNION { [1 .. n -> {1, 7, 8}] : n \in 0 .. 7 }
Searches == { Scenario(<<c>>, FALSE, <<>>) : c \in Contents }

\* A stub of two cells and an archive, cut into volumes; one may be missing.
Stub == <<8, 7>> \o Archive3
Cuts == { <<SubSeq(Stub, 1, i), SubSeq(Stub, i + 1, j), SubSeq(Stub, j + 1, 5)>> :
            i \in 0 .. 2, j \in 2 .. 5 }
Splits == { Scenario([ v \in present |-> cut[v] ], multi, <<>>) :
                cut \in Cuts, present \in SUBSET (1 .. 3), multi \in BOOLEAN }

Member(name, empty) == [name |-> name, empty |-> empty]
MCNames ==
    { Member(RawName(FALSE, <<A>>, "/", ""), FALSE),
      Member(RawName(FALSE, <<A>>, "/", "/"), TRUE),
      Member(RawName(TRUE, <<A, B>>, "/", "/"), TRUE),
      Member(RawName(FALSE, <<A, B>>, "/", "\\"), FALSE),
      Member(RawName(FALSE, <<A, B, A>>, "/", ""), FALSE),
      Member(RawName(FALSE, <<A, A>>, "\\", ""), FALSE),
      Member(RawName(FALSE, <<A, B, DotDot>>, "/", ""), FALSE),
      Member(RawName(FALSE, <<Dash, B>>, "/", ""), TRUE),
      Member(RawName(FALSE, <<DotDot, B>>, "/", ""), FALSE),
      Member(RawName(FALSE, <<DotDot, DotDot>>, "/", ""), FALSE),
      Member(RawName(FALSE, <<A, DotDot>>, "/", "/"), TRUE),
      Member(RawName(TRUE, <<DotDot>>, "/", ""), FALSE),
      Member(RawName(FALSE, <<Dot, B, Dot, A>>, "/", ""), FALSE) }
Lists == { Scenario(<<Archive3>>, FALSE, m) : m \in UNION { [1 .. n -> MCNames] : n \in 1 .. 3 } }

MCScenarios == UNION {Searches, Splits, Lists}

MCQueries == { Root, <<A>>, <<B>>, <<A, B>>, <<A, B, A>>, <<Dash>>, <<Dash, B>>, <<B, A>>,
               <<DotDot>>, <<A, Dot>> }
MCCounts == {0, 1, 2}
=============================================================================
