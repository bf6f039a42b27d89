------------------------------ MODULE FileList ------------------------------
(***************************************************************************)
(* The fs.FS view of an archive (reader.go): the file list initFileList    *)
(* makes of the members' names, its order, and the binary searches of      *)
(* openLookup and openReadDir.                                             *)
(*                                                                         *)
(* A path is the sequence of its elements.  An element is a number; the    *)
(* order of the numbers is the order of the strings: Dash stands for an    *)
(* element that sorts before ".", everything above DotDot for the others.  *)
(* The elements are taken to be one character long (".." apart), so the    *)
(* order of two paths as strings is the lexicographic order of their       *)
(* elements: the separator is only ever compared with a separator or with  *)
(* the end of the other string.                                            *)
(***************************************************************************)
EXTENDS Integers, Sequences, SequencesExt, FiniteSets

Dash == 0
Dot == 1
DotDot == 2

\* The path ".", which split also returns for the directory of a top-level name.
Root == <<Dot>>

(***************************************************************************)
(* A member: its raw name as stored in the archive and whether it has      *)
(* data.  Raw names keep what toValidName removes: a leading separator,    *)
(* "." and ".." elements, whether the separator in front of the last       *)
(* element (sep) and the one at the end, if any, are backslashes.          *)
(***************************************************************************)
RawName(rooted, elems, sep, end) ==
    [rooted |-> rooted, elems |-> elems, sep |-> sep, end |-> end]
RawNames == [rooted : BOOLEAN, elems : Seq(Nat), sep : STRING, end : STRING]
Members == [name : RawNames, empty : BOOLEAN]

\* path.Clean of one more element e, behind the cleaned elements acc.
CleanStep(acc, e, rooted) ==
    CASE e = Dot -> acc
      [] e = DotDot /\ acc # <<>> /\ Last(acc) # DotDot -> Front(acc)
      [] e = DotDot /\ acc = <<>> /\ rooted -> acc
      [] OTHER -> Append(acc, e)

\* path.Clean, as a sequence of elements (<<>> for "/" and for ".").
CleanElems(raw) ==
    LET clean[n \in 0 .. Len(raw.elems)] ==
            IF n = 0 THEN <<>> ELSE CleanStep(clean[n - 1], raw.elems[n], raw.rooted)
    IN  clean[Len(raw.elems)]

\* Mutant: leading "../" are kept.
toValidNameKept(raw) ==
    LET clean == CleanElems(raw)
    IN  IF clean = <<>> /\ ~raw.rooted THEN Root ELSE clean

\* Leading "../" are cut off; a lone ".." has no slash behind it and stays.
toValidName(raw) ==
    LET clean == CleanElems(raw)
        ups   == { i \in 0 .. (Len(clean) - 1) : \A j \in 1 .. i : clean[j] = DotDot }
        cut   == CHOOSE i \in ups : \A j \in ups : j <= i
    IN  CASE clean # <<>> -> SubSeq(clean, cut + 1, Len(clean))
          [] clean = <<>> /\ raw.rooted -> <<>>
          [] clean = <<>> /\ ~raw.rooted -> Root

\* Whether an entry is a directory is read off the raw name.
isDirName(raw) == raw.end = "/"

\* Stands for an element with a backslash in it, which no valid name has.
Backslashed == -1

(***************************************************************************)
(* path.Base of the raw name of a file that the list has: what follows the *)
(* last slash, backslashes included.                                       *)
(***************************************************************************)
Base(raw) ==
    CASE raw.end = "\\" -> Backslashed
      [] raw.end # "\\" /\ raw.elems = <<>> -> Dot
      [] OTHER -> IF raw.sep = "\\" /\ (raw.rooted \/ Len(raw.elems) > 1)
                  THEN Backslashed ELSE Last(raw.elems)

split(name) ==
    [dir  |-> IF Len(name) = 1 THEN Root ELSE Front(name),
     elem |-> Last(name)]

StringLess(x, y) ==
    \E i \in 1 .. Len(y) :
        /\ \A j \in 1 .. (i - 1) : j <= Len(x) /\ x[j] = y[j]
        /\ i > Len(x) \/ x[i] < y[i]

\* Mutant: names are ordered as strings, not by directory first.
fileEntryLessByName(x, y) == StringLess(x, y)

fileEntryLess(x, y) ==
    LET sx == split(x)
        sy == split(y)
    IN  \/ StringLess(sx.dir, sy.dir)
        \/ sx.dir = sy.dir /\ sx.elem < sy.elem

\* sort.Slice: the elements of S in the order of less, a set of pairs.
InOrder(S, less) ==
    [ i \in 1 .. Cardinality(S) |->
        CHOOSE x \in S : Cardinality({ y \in S : <<y, x>> \in less }) = i - 1 ]

\* Mutant: only the immediate parent is implied.
ParentsNearest(name) == { SubSeq(name, 1, Len(name) - 1) } \ {<<>>}

\* What path.Dir gives on the way up to ".": the proper prefixes.
Parents(name) == { SubSeq(name, 1, n) : n \in 1 .. (Len(name) - 1) }

Entry(name, file, isDir, isDup) ==
    [name |-> name, file |-> file, isDir |-> isDir, isDup |-> isDup]

NoMember == 0

\* One more member: a second one of a name marks the first.
MemberStep(list, name, i, isDir) ==
    LET known == { k \in DOMAIN list : list[k].name = name }
    IN  CASE name = <<>> -> list
          [] name # <<>> /\ known # {} ->
                [ k \in DOMAIN list |-> [list[k] EXCEPT !.isDup = @ \/ k \in known] ]
          [] OTHER -> Append(list, Entry(name, i, isDir, FALSE))

\* The members' entries in archive order.
MemberEntries(members) ==
    LET list[n \in 0 .. Len(members)] ==
            IF n = 0 THEN <<>>
            ELSE MemberStep(list[n - 1], toValidName(members[n].name), n,
                            isDirName(members[n].name))
    IN  list[Len(members)]

(***************************************************************************)
(* initFileList: the members' entries, a directory for every parent that   *)
(* has none (a file of that name is marked a duplicate instead), sorted.   *)
(***************************************************************************)
WithParents(own) ==
    LET dirs    == UNION { Parents(e.name) : e \in ToSet(own) }
        marked  == { [e EXCEPT !.isDup = @ \/ (~e.isDir /\ e.name \in dirs)] : e \in ToSet(own) }
        implied == { Entry(d, NoMember, TRUE, FALSE) : d \in dirs \ { e.name : e \in ToSet(own) } }
        all     == marked \cup implied
    IN  InOrder(all, { p \in all \X all : fileEntryLess(p[1].name, p[2].name) })

NewFileList(members) == WithParents(MemberEntries(members))

\* One round of the bisection: the half of the window lo .. hi to go on with.
Halve(w, P) ==
    LET h == (w.lo + w.hi) \div 2
    IN  IF w.lo >= w.hi THEN w
        ELSE IF h \in P THEN [lo |-> w.lo, hi |-> h] ELSE [lo |-> h + 1, hi |-> w.hi]

\* sort.Search on the 0-based indexes below n, which finds the smallest index of
\* P only if P is closed upwards.  The window is empty after n rounds at the most.
Search(n, P) ==
    LET window[t \in 0 .. n] ==
            IF t = 0 THEN [lo |-> 0, hi |-> n] ELSE Halve(window[t - 1], P)
    IN  window[n].lo

\* The entry of openLookup, as a set of at most one.
openLookup(list, name) ==
    LET at == split(name)
        i  == Search(Len(list),
                     { k \in 0 .. (Len(list) - 1) :
                        LET s == split(list[k + 1].name)
                        IN  StringLess(at.dir, s.dir) \/ (s.dir = at.dir /\ s.elem >= at.elem) })
    IN  IF name = Root THEN { Entry(Root, NoMember, TRUE, FALSE) }
        ELSE { list[k] : k \in { k \in DOMAIN list : k = i + 1 /\ list[k].name = name } }

openReadDir(list, dir) ==
    LET Dir(k) == split(list[k + 1].name).dir
        all    == 0 .. (Len(list) - 1)
        i      == Search(Len(list), { k \in all : ~StringLess(Dir(k), dir) })
        j      == Search(Len(list), { k \in all : StringLess(dir, Dir(k)) })
    IN  SubSeq(list, i + 1, j)

\* fs.ValidPath.
ValidPath(name) ==
    \/ name = Root
    \/ name # <<>> /\ \A i \in DOMAIN name : name[i] \notin {Dot, DotDot}

\* path.Join of a directory and the name of one of its entries.
Join(dir, elem) ==
    LET clean == CleanStep(IF dir = Root THEN <<>> ELSE dir, elem, FALSE)
    IN  IF clean = <<>> THEN Root ELSE clean
=============================================================================
