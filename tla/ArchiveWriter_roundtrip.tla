---------------------- MODULE ArchiveWriter_roundtrip ----------------------
(***************************************************************************)
(* RoundTrip of ArchiveWriter: what is written is read back, in every mode *)
(* and for every value of the constants.                                   *)
(***************************************************************************)
EXTENDS ArchiveWriter_proofs, FiniteSetTheorems

-----------------------------------------------------------------------------
(* Running totals, and the parts of a concatenation.                       *)

\* The recursion of the running totals.
LEMMA TotalsAre ==
    ASSUME NEW s \in Seq(Nat)
    PROVE  /\ \A k \in 0 .. Len(s) : PrefixSum(s, k) \in Nat
           /\ PrefixSum(s, 0) = 0
           /\ \A k \in 1 .. Len(s) : PrefixSum(s, k) = PrefixSum(s, k - 1) + s[k]
<1> DEFINE N == Len(s)
           step == [v \in Nat \X (1 .. N) |-> v[1] + s[v[2]]]
           Is(f) == f = [k \in 0 .. N |-> IF k = 0 THEN 0 ELSE f[k - 1] + s[k]]
<1>1. N \in Nat /\ \A k \in 1 .. N : s[k] \in Nat
  BY LenProperties, ElementOfSeq
<1>2. step \in [Nat \X (1 .. N) -> Nat]
  BY <1>1
<1>3. \A v \in Nat, k \in 1 .. N : step[<<v, k>>] = v + s[k]
  OBVIOUS
<1> HIDE DEF step, N
<1>4. PICK f : Recurs(f, N, Nat, 0, step)
  BY <1>1, <1>2, RecursionExists
<1>5. /\ f \in [0 .. N -> Nat] /\ f[0] = 0
      /\ \A k \in 1 .. N : f[k] = f[k - 1] + s[k]
  <2>1. /\ f \in [0 .. N -> Nat] /\ f[0] = 0
        /\ \A k \in 1 .. N : f[k] = step[<<f[k - 1], k>>]
    BY <1>4 DEF Recurs
  <2>2. \A k \in 1 .. N : f[k - 1] \in Nat
    BY <1>1, <2>1
  <2> QED BY <1>3, <2>1, <2>2
<1>6. Is(f)
  <2>1. \A k \in 0 .. N : f[k] = IF k = 0 THEN 0 ELSE f[k - 1] + s[k]
    BY <1>1, <1>5
  <2> QED BY <1>5, <2>1
<1>7. Is(CHOOSE g : Is(g))
  BY <1>6
<1>8. PICK t : t = Totals(s) /\ Is(t)
  <2>1. Totals(s) = CHOOSE g : Is(g)
    BY DEF Totals, N
  <2> QED BY <1>7, <2>1
<1>9. t[0] = 0 /\ \A k \in 1 .. N : t[k] = t[k - 1] + s[k]
  BY <1>1, <1>8
<1>10. \A k \in 0 .. N : t[k] \in Nat
  <2> DEFINE G == {k \in 0 .. N : t[k] \in Nat}
  <2>1. 0 \in G
    BY <1>1, <1>9
  <2>2. ASSUME NEW k \in 1 .. N, k - 1 \in G PROVE k \in G
    BY <1>1, <1>9, <2>2
  <2> HIDE DEF G
  <2>3. \A k \in 0 .. N : k \in G
    BY <1>1, <2>1, <2>2, Induct
  <2> QED BY <2>3 DEF G
<1> QED BY <1>8, <1>9, <1>10 DEF PrefixSum, N

\* The k-th of the sequences s is part of f, from behind the first q[k - 1] elements.
HasPart(f, s, q, k) ==
    /\ q[k] <= Len(f)
    /\ q[k] = q[k - 1] + Len(s[k])
    /\ \A x \in 1 .. Len(s[k]) : f[q[k - 1] + x] = s[k][x]

\* What follows keeps the parts.
LEMMA PartStays ==
    ASSUME NEW S, NEW f \in Seq(S), NEW t \in Seq(S), NEW s, NEW q, NEW k,
           q[k] \in Nat, q[k - 1] \in Nat, Len(s[k]) \in Nat, HasPart(f, s, q, k)
    PROVE  HasPart(f \o t, s, q, k)
<1>1. /\ Len(f) \in Nat /\ Len(t) \in Nat /\ Len(f \o t) = Len(f) + Len(t)
      /\ \A i \in 1 .. Len(f) : (f \o t)[i] = f[i]
  BY InBack, LenProperties
<1>2. PICK a, b, l \in Nat, u \in Nat, c \in Nat, d \in Nat :
          a = q[k] /\ b = q[k - 1] /\ c = a /\ d = b /\ u = Len(s[k]) /\ l = Len(f)
  BY <1>1
<1>3. c <= l /\ c = d + u
  BY <1>2 DEF HasPart
<1>4. ASSUME NEW x \in 1 .. u PROVE (f \o t)[d + x] = s[k][x]
  <2>1. d + x \in 1 .. l
    BY <1>3
  <2>2. (f \o t)[d + x] = f[d + x]
    BY <1>1, <1>2, <2>1
  <2>3. f[d + x] = s[k][x]
    BY <1>2 DEF HasPart
  <2> QED BY <2>2, <2>3
<1>5. c <= Len(f \o t)
  BY <1>1, <1>2, <1>3
<1> QED BY <1>2, <1>3, <1>4, <1>5 DEF HasPart

\* The second of two parts.
LEMMA SecondPart ==
    ASSUME NEW S, NEW s \in Seq(S), NEW t \in Seq(S)
    PROVE  /\ s \o t \in Seq(S) /\ Len(s \o t) = Len(s) + Len(t)
           /\ \A x \in 1 .. Len(t) : (s \o t)[Len(s) + x] = t[x]
<1>1. Len(s) \in Nat /\ Len(t) \in Nat
  BY LenProperties
<1>2. s \o t \in Seq(S) /\ Len(s \o t) = Len(s) + Len(t)
  BY ConcatProperties
<1>3. ASSUME NEW x \in 1 .. Len(t)
      PROVE  (s \o t)[Len(s) + x] = t[x]
  <2>1. PICK i : i = Len(s) + x /\ i \in 1 .. Len(s) + Len(t) /\ ~(i <= Len(s)) /\ i - Len(s) = x
    BY <1>1
  <2>2. (s \o t)[i] = t[i - Len(s)]
    BY <2>1, ConcatProperties
  <2> QED BY <2>1, <2>2
<1> QED BY <1>2, <1>3

\* A concatenation is as long as its parts together, and has each behind those
\* before it.
LEMMA FlattenParts ==
    ASSUME NEW S, NEW s \in Seq(Seq(S)), NEW w \in Seq(Nat), Len(w) = Len(s),
           \A k \in 1 .. Len(s) : w[k] = Len(s[k])
    PROVE  /\ Len(FlattenSeq(s)) = PrefixSum(w, Len(s))
           /\ \A k \in 1 .. Len(s) : HasPart(FlattenSeq(s), s, Totals(w), k)
<1> DEFINE N == Len(s)
<1>1. N \in Nat /\ \A k \in 1 .. N : s[k] \in Seq(S) /\ Len(s[k]) \in Nat
  BY LenProperties, ElementOfSeq
<1>2. PICK q : /\ q = Totals(w) /\ q[0] = 0
               /\ \A k \in 0 .. N : q[k] \in Nat
               /\ \A k \in 1 .. N : q[k] = q[k - 1] + Len(s[k])
  BY TotalsAre DEF PrefixSum
<1>3. CASE N = 0
  <2>1. Len(FlattenSeq(s)) = 0
    BY <1>3, FlattenEmpty
  <2> QED BY <1>2, <1>3, <2>1 DEF PrefixSum
<1>4. CASE N # 0
  <2>1. PICK f : Flattens(f, s) /\ FlattenSeq(s) = f[N]
    BY <1>1, <1>4, FlattenDef
  <2>2. \A i \in 1 .. N : f[i] = IF i = 1 THEN s[i] ELSE f[i - 1] \o s[i]
    BY <2>1, FlattensValues
  <2> DEFINE Good(i) == /\ f[i] \in Seq(S) /\ Len(f[i]) = q[i]
                        /\ \A k \in 1 .. i : HasPart(f[i], s, q, k)
             G == {i \in 0 .. N : i = 0 \/ Good(i)}
  <2>3. 0 \in G
    BY <1>1
  <2>4. ASSUME NEW i \in 1 .. N, i - 1 \in G PROVE i \in G
    <3>1. /\ s[i] \in Seq(S) /\ Len(s[i]) \in Nat /\ i \in Nat
          /\ q[i] = q[i - 1] + Len(s[i]) /\ q[i] \in Nat /\ q[i - 1] \in Nat
      BY <1>1, <1>2
    <3>2. CASE i = 1
      <4>1. f[1] = s[1] /\ q[1] = Len(s[1]) /\ q[1 - 1] = 0
        BY <1>1, <1>2, <2>2, <3>2
      <4>2. HasPart(f[1], s, q, 1)
        BY <3>1, <3>2, <4>1 DEF HasPart
      <4>3. Good(1)
        BY <3>1, <3>2, <4>1, <4>2
      <4> QED BY <3>2, <4>3
    <3>3. CASE i # 1
      <4>1. f[i] = f[i - 1] \o s[i]
        BY <2>2, <3>3
      <4>2. Good(i - 1)
        BY <2>4, <3>3, <3>1
      <4>3. PICK e \in Seq(S) : e = f[i - 1] /\ Len(e) = q[i - 1] /\ f[i] = e \o s[i]
        BY <4>1, <4>2
      <4>4. /\ f[i] \in Seq(S) /\ Len(f[i]) = q[i]
            /\ \A x \in 1 .. Len(s[i]) : f[i][q[i - 1] + x] = s[i][x]
        <5>1. PICK u : u = s[i] /\ u \in Seq(S)
          BY <3>1
        <5>2. /\ e \o u \in Seq(S) /\ Len(e \o u) = Len(e) + Len(u)
              /\ \A x \in 1 .. Len(u) : (e \o u)[Len(e) + x] = u[x]
          BY ONLY e \in Seq(S), <5>1, SecondPart
        <5> QED BY <3>1, <4>3, <5>1, <5>2
      <4>5. HasPart(f[i], s, q, i)
        BY <3>1, <4>4 DEF HasPart
      <4>6. ASSUME NEW k \in 1 .. i - 1 PROVE HasPart(f[i], s, q, k)
        <5>1. k \in 1 .. N /\ k - 1 \in 0 .. N /\ k \in 0 .. N
          BY <3>1
        <5>2. q[k] \in Nat /\ q[k - 1] \in Nat /\ Len(s[k]) \in Nat
          BY <1>1, <1>2, <5>1
        <5>3. HasPart(e, s, q, k)
          BY <4>2, <4>3
        <5> QED BY <3>1, <4>3, <5>2, <5>3, PartStays
      <4>7. \A k \in 1 .. i : k = i \/ k \in 1 .. i - 1
        BY <3>1
      <4> HIDE DEF HasPart
      <4>8. Good(i)
        BY <4>4, <4>5, <4>6, <4>7
      <4> QED BY <4>8
    <3> QED BY <3>2, <3>3
  <2> HIDE DEF G
  <2>5. \A i \in 0 .. N : i \in G
    BY <1>1, <2>3, <2>4, Induct
  <2>6. Good(N)
    BY <1>1, <1>4, <2>5 DEF G
  <2> QED BY <1>2, <2>1, <2>6 DEF PrefixSum
<1> QED BY <1>3, <1>4

\* Part, of a sequence that has u behind its first from elements.
LEMMA PartOf ==
    ASSUME NEW S, NEW t \in Seq(S), NEW u \in Seq(S), NEW from \in Nat,
           from + Len(u) <= Len(t), \A x \in 1 .. Len(u) : t[from + x] = u[x]
    PROVE  Part(t, from, Len(u)) = u
<1>1. Len(t) \in Nat /\ Len(u) \in Nat
  BY LenProperties
<1>2. PICK n \in Nat, m \in Nat, to \in Nat : n = Len(t) /\ m = Len(u) /\ to = from + m
  BY <1>1
<1>3. Min({to, n}) = to
  <2>1. \A x \in {to, n} : (\A y \in {to, n} : x <= y) => x = to
    BY <1>2
  <2>2. \E x \in {to, n} : \A y \in {to, n} : x <= y
    BY <1>2
  <2> QED BY <2>1, <2>2 DEF Min
<1>4. Part(t, from, m) = SubSeq(t, from + 1, from + m)
  BY <1>2, <1>3 DEF Part
<1>5. PICK p \in Seq(S) : /\ p = SubSeq(t, from + 1, from + m) /\ Len(p) = m
                          /\ \A i \in 1 .. m : p[i] = t[from + i]
  BY <1>2, PartIs
<1>6. p = u
  BY <1>2, <1>5, SeqEqual
<1> QED BY <1>2, <1>4, <1>5, <1>6

\* Flattening one sequence more, which may be the first.
LEMMA FlattenNext ==
    ASSUME NEW S, NEW s \in Seq(Seq(S)), NEW u \in Seq(S), NEW t, NEW n \in Nat, n = Len(s),
           Len(t) = n + 1, t[n + 1] = u, \A i \in 1 .. n : t[i] = s[i]
    PROVE  FlattenSeq(t) = FlattenSeq(s) \o u
<1>1. CASE n = 0
  <2>1. Len(t) = 1 /\ t[1] = u
    BY <1>1
  <2>2. FlattenSeq(t) = u
    BY <2>1, FlattenOne
  <2>3. FlattenSeq(s) = s /\ s = <<>>
    BY <1>1, FlattenEmpty, EmptySeq
  <2>4. <<>> \o u = u
    BY ConcatEmptySeq
  <2> QED BY <2>2, <2>3, <2>4
<1>2. CASE n # 0
  BY <1>2, FlattenMore
<1> QED BY <1>1, <1>2

\* Concatenation is associative.
LEMMA Regroup ==
    ASSUME NEW S, NEW f \in Seq(S), NEW a \in Seq(S), NEW u \in Seq(S)
    PROVE  f \o (a \o u) = (f \o a) \o u
OBVIOUS

\* t is s, with u at the end of its last sequence.
LongerLast(s, t, n, u) ==
    /\ n \in Nat /\ n # 0 /\ Len(s) = n /\ Len(t) = n
    /\ t[n] = s[n] \o u
    /\ \A i \in 1 .. n - 1 : t[i] = s[i]

\* Flattening with more at the end of the last sequence.
LEMMA FlattenLast ==
    ASSUME NEW S, NEW s \in Seq(Seq(S)), NEW u \in Seq(S), NEW t, NEW n, LongerLast(s, t, n, u)
    PROVE  FlattenSeq(t) = FlattenSeq(s) \o u
<1> USE DEF LongerLast
<1> DEFINE h == [i \in 1 .. n - 1 |-> s[i]]
<1>1. \A i \in 1 .. n : s[i] \in Seq(S)
  BY ElementOfSeq
<1>2. PICK m \in Nat : m = n - 1 /\ n = m + 1
  OBVIOUS
<1>3. /\ h \in Seq(Seq(S)) /\ Len(h) = m
      /\ \A i \in 1 .. m : h[i] = s[i] /\ h[i] = t[i]
  BY <1>1, <1>2
<1> HIDE DEF h
<1>4. PICK a \in Seq(S), f \in Seq(S) : a = s[n] /\ f = FlattenSeq(h)
  BY <1>1, <1>3, FlattenType
<1>5. FlattenSeq(s) = f \o a
  <2>1. s[m + 1] = a /\ Len(s) = m + 1 /\ \A i \in 1 .. m : s[i] = h[i]
    BY <1>2, <1>3, <1>4
  <2>2. m \in Nat /\ m = Len(h) /\ h \in Seq(Seq(S)) /\ a \in Seq(S)
    BY <1>3
  <2>3. FlattenSeq(s) = FlattenSeq(h) \o a
    BY ONLY <2>1, <2>2, FlattenNext
  <2> QED BY <1>4, <2>3
<1>6. a \o u \in Seq(S)
  BY ConcatProperties
<1>7. FlattenSeq(t) = f \o (a \o u)
  <2>1. PICK v \in Seq(S) : v = a \o u
    BY <1>6
  <2>2. t[m + 1] = v /\ Len(t) = m + 1 /\ \A i \in 1 .. m : t[i] = h[i]
    BY <1>2, <1>3, <1>4, <2>1
  <2>3. m \in Nat /\ m = Len(h) /\ h \in Seq(Seq(S)) /\ v \in Seq(S)
    BY <1>3
  <2>4. FlattenSeq(t) = FlattenSeq(h) \o v
    BY ONLY <2>2, <2>3, FlattenNext
  <2> QED BY <1>4, <2>1, <2>4
<1>8. f \o (a \o u) = (f \o a) \o u
  BY ONLY f \in Seq(S), a \in Seq(S), u \in Seq(S), Regroup
<1> QED BY <1>5, <1>7, <1>8

\* n times x.
LEMMA CopiesType ==
    ASSUME NEW S, NEW x \in S, NEW n \in Nat
    PROVE  /\ Copies(n, x) \in Seq(S) /\ Len(Copies(n, x)) = n
           /\ \A i \in 1 .. n : Copies(n, x)[i] = x
BY DEF Copies

\* And k times more.
LEMMA MoreCopies ==
    ASSUME NEW S, NEW x \in S, NEW n \in Nat, NEW k \in Nat
    PROVE  Copies(n + k, x) = Copies(n, x) \o Copies(k, x)
<1>1. PICK a \in Seq(S), b \in Seq(S), c \in Seq(S), m \in Nat :
         /\ a = Copies(n, x) /\ b = Copies(k, x) /\ c = Copies(m, x) /\ m = n + k
         /\ Len(a) = n /\ Len(b) = k /\ Len(c) = m
         /\ \A i \in 1 .. n : a[i] = x
         /\ \A i \in 1 .. k : b[i] = x
         /\ \A i \in 1 .. m : c[i] = x
  <2>1. PICK m \in Nat : m = n + k
    OBVIOUS
  <2> QED BY <2>1, CopiesType
<1>2. a \o b \in Seq(S) /\ Len(a \o b) = m
  BY <1>1, ConcatProperties
<1>3. ASSUME NEW i \in 1 .. m PROVE (a \o b)[i] = x
  <2>1. (a \o b)[i] = IF i <= n THEN a[i] ELSE b[i - n]
    BY <1>1, ConcatProperties
  <2>2. i <= n => i \in 1 .. n
    OBVIOUS
  <2>3. ~(i <= n) => i - n \in 1 .. k
    BY <1>1
  <2> QED BY <1>1, <2>1, <2>2, <2>3
<1>4. c = a \o b
  BY <1>1, <1>2, <1>3, SeqEqual
<1> QED BY <1>1, <1>4

-----------------------------------------------------------------------------
(* The books: which file is in which folder, and what the folder has of it. *)

\* The jobs CreateHeader was called for.
Created == {j \in Jobs : pc[j] # "none"}

\* w.files lists the files created, each once; a file not created has no units.
Listed ==
    /\ IsFiniteSet(Created) /\ Len(files) = Cardinality(Created)
    /\ \A j \in Jobs : pc[j] # "none" <=> \E p \in 1 .. Len(files) : files[p] = j
    /\ \A j \in Jobs : pc[j] = "none" => written[j] = 0

\* A created file has a folder unless it is a directory or its setup failed.
Placed ==
    /\ \A j \in Jobs : fold[j] = 0 => j \in Dirs \/ pc[j] \in {"none", "error"}
    /\ \A j \in Dirs : fold[j] = 0
    /\ opt.solid => Len(folders) <= 1

\* The files of a folder are files of that folder, each once, and one only unless the
\* archive is solid.
FilesOfFolder ==
    \A k \in 1 .. Len(folders) :
        LET fs == folders[k].files
        IN  /\ Len(fs) # 0
            /\ ~opt.solid => Len(fs) = 1
            /\ \A i \in 1 .. Len(fs) : fold[fs[i]] = k
            /\ \A i, m \in 1 .. Len(fs) : fs[i] = fs[m] => i = m

\* An open file is the last of its folder.
LastIsOpen ==
    \A j \in Jobs : fold[j] # 0 /\ (pc[j] = "open" \/ ~opt.solid) =>
        folders[fold[j]].files[Len(folders[fold[j]].files)] = j

\* None of the first p files was left without its folder.
AllFolded(p) == \A q \in 1 .. p : files[q] \notin Dirs => fold[files[q]] # 0

\* How many files have a stream in some folder, and the n-th of them.
Streams == IF ~opt.solid THEN Len(folders)
           ELSE IF Len(folders) = 0 THEN 0 ELSE Len(folders[1].files)
StreamAt(n) == IF opt.solid THEN folders[1].files[n] ELSE folders[n].files[1]

\* Up to the first file without its folder, the n-th file with a stream in w.files is
\* the n-th in the folders.
Numbered ==
    /\ \A p \in 1 .. Len(files) :
          files[p] \notin Dirs /\ AllFolded(p) =>
              /\ StreamNumber(files, p) \in 1 .. Streams
              /\ StreamAt(StreamNumber(files, p)) = files[p]
    /\ AllFolded(Len(files)) => StreamNumber(files, Len(files)) = Streams

\* What the files of folder k were given, one file after the other, is its content.
Parts(fs, w) == [i \in 1 .. Len(fs) |-> Copies(w[fs[i]], fs[i])]

\* Every folder holds that.
Content == \A k \in 1 .. Len(folders) : folders[k].data = FlattenSeq(Parts(folders[k].files, written))

Books == /\ Listed /\ Placed /\ FilesOfFolder /\ LastIsOpen
         /\ Numbered /\ Content

\* The folders hold the same files and units, and none is opened again.
SameFiles(fs, gs) ==
    /\ Len(gs) = Len(fs)
    /\ \A k \in 1 .. Len(fs) : /\ gs[k].files = fs[k].files /\ gs[k].data = fs[k].data
                               /\ fs[k].closed => gs[k].closed

\* Steps that add no file and no unit.
LEMMA BooksStay ==
    ASSUME TypeOK, Books, UNCHANGED <<opt, files, fold, written>>, SameFiles(folders, folders'),
           \A j \in Jobs : /\ pc'[j] = "none" <=> pc[j] = "none"
                           /\ pc'[j] = "open" => pc[j] = "open"
                           /\ pc[j] = "error" => pc'[j] = "error"
    PROVE  Books'
<1>1. /\ Len(folders') = Len(folders) /\ Len(folders) \in Nat
      /\ \A k \in 1 .. Len(folders) : /\ folders'[k].files = folders[k].files
                                      /\ folders'[k].data = folders[k].data
  BY FolderTypes DEF SameFiles
<1>2. Listed'
  BY DEF Books, Listed, Created
<1>3. Placed'
  BY <1>1 DEF Books, Placed
<1>4. FilesOfFolder'
  BY <1>1 DEF Books, FilesOfFolder
<1>5. LastIsOpen'
  <2>1. \A j \in Jobs : fold[j] \in 0 .. Len(folders)
    BY DEF TypeOK
  <2> QED BY <1>1, <2>1 DEF Books, LastIsOpen
<1>6. Numbered'
  <2>1. Streams' = Streams
    BY <1>1 DEF Streams
  <2>2. ASSUME NEW n \in 1 .. Streams PROVE StreamAt(n)' = StreamAt(n)
    BY <1>1, <2>2 DEF Streams, StreamAt
  <2>3. ASSUME NEW p PROVE AllFolded(p)' <=> AllFolded(p)
    BY DEF AllFolded
  <2> QED BY <2>1, <2>2, <2>3 DEF Books, Numbered
<1>7. Content'
  BY <1>1 DEF Books, Content
<1> QED BY <1>2, <1>3, <1>4, <1>5, <1>6, <1>7 DEF Books

\* How many of the first p files have a stream.
LEMMA StreamNumbers ==
    ASSUME NEW fs
    PROVE  /\ StreamNumber(fs, 0) = 0
           /\ \A p \in Nat : StreamNumber(fs, p) \in 0 .. p
           /\ \A p \in Nat : StreamNumber(fs, p + 1)
                = StreamNumber(fs, p) + IF fs[p + 1] \in Dirs THEN 0 ELSE 1
<1> DEFINE S(p) == {q \in 1 .. p : fs[q] \notin Dirs}
<1>1. ASSUME NEW p \in Nat
      PROVE  IsFiniteSet(S(p)) /\ Cardinality(S(p)) \in 0 .. p
  <2>1. IsFiniteSet(1 .. p) /\ Cardinality(1 .. p) = p
    BY FS_Interval
  <2>2. S(p) \in SUBSET (1 .. p)
    OBVIOUS
  <2>3. IsFiniteSet(S(p)) /\ Cardinality(S(p)) <= p
    BY <2>1, <2>2, FS_Subset
  <2>4. Cardinality(S(p)) \in Nat
    BY <2>3, FS_CardinalityType
  <2> QED BY <2>3, <2>4
<1>2. Cardinality(S(0)) = 0
  <2>1. S(0) = {}
    OBVIOUS
  <2> QED BY <2>1, FS_EmptySet
<1>3. ASSUME NEW p \in Nat
      PROVE  Cardinality(S(p + 1)) = Cardinality(S(p)) + IF fs[p + 1] \in Dirs THEN 0 ELSE 1
  <2>1. CASE fs[p + 1] \in Dirs
    <3>1. S(p + 1) = S(p)
      BY <2>1
    <3> QED BY <1>1, <2>1, <3>1
  <2>2. CASE fs[p + 1] \notin Dirs
    <3>1. S(p + 1) = S(p) \cup {p + 1} /\ p + 1 \notin S(p)
      BY <2>2
    <3> QED BY <1>1, <2>2, <3>1, FS_AddElement
  <2> QED BY <2>1, <2>2
<1> QED BY <1>1, <1>2, <1>3 DEF StreamNumber

\* It depends on these files only.
LEMMA StreamNumberOf ==
    ASSUME NEW fs, NEW gs, NEW p \in Nat, \A q \in 1 .. p : fs[q] = gs[q]
    PROVE  StreamNumber(fs, p) = StreamNumber(gs, p)
<1>1. {q \in 1 .. p : fs[q] \notin Dirs} = {q \in 1 .. p : gs[q] \notin Dirs}
  OBVIOUS
<1> QED BY <1>1 DEF StreamNumber

\* The list of files after one more.
LEMMA FilesMore ==
    ASSUME TypeOK, NEW j \in Jobs, files' = Append(files, j), NEW n, n = Len(files)
    PROVE  /\ n \in Nat /\ Len(files') = n + 1 /\ files'[n + 1] = j
           /\ \A p \in 1 .. n : files'[p] = files[p]
           /\ \A p \in 1 .. n + 1 : p \in 1 .. n \/ p = n + 1
           /\ \A p \in 0 .. n : StreamNumber(files', p) = StreamNumber(files, p)
           /\ StreamNumber(files', n + 1) = StreamNumber(files, n) + IF j \in Dirs THEN 0 ELSE 1
<1>1. /\ n \in Nat /\ Len(files') = n + 1 /\ files'[n + 1] = j
      /\ \A p \in 1 .. n : files'[p] = files[p]
  BY LenProperties, AppendProperties DEF TypeOK
<1>2. \A p \in 1 .. n + 1 : p \in 1 .. n \/ p = n + 1
  BY <1>1
<1>3. \A p \in 0 .. n : StreamNumber(files', p) = StreamNumber(files, p)
  <2>1. ASSUME NEW p \in 0 .. n PROVE StreamNumber(files', p) = StreamNumber(files, p)
    <3>1. p \in Nat /\ \A q \in 1 .. p : files'[q] = files[q]
      BY <1>1
    <3> QED BY <3>1, StreamNumberOf
  <2> QED BY <2>1
<1>4. StreamNumber(files', n + 1) = StreamNumber(files, n) + IF j \in Dirs THEN 0 ELSE 1
  <2>1. StreamNumber(files', n + 1) = StreamNumber(files', n) + IF j \in Dirs THEN 0 ELSE 1
    BY <1>1, StreamNumbers
  <2> QED BY <1>1, <1>3, <2>1
<1> QED BY <1>1, <1>2, <1>3, <1>4

\* A file created is listed behind the others.
LEMMA ListedMore ==
    ASSUME TypeOK, Listed, NEW j \in Jobs, pc[j] = "none", files' = Append(files, j),
           pc'[j] # "none", \A i \in Jobs : i # j => (pc'[i] = "none" <=> pc[i] = "none"),
           written' = written
    PROVE  Listed'
<1> DEFINE n == Len(files)
<1>1. /\ n \in Nat /\ Len(files') = n + 1 /\ files'[n + 1] = j
      /\ \A p \in 1 .. n : files'[p] = files[p]
      /\ \A p \in 1 .. n + 1 : p \in 1 .. n \/ p = n + 1
  BY FilesMore
<1>2. Created' = Created \cup {j} /\ j \notin Created
  BY DEF Created
<1>3. IsFiniteSet(Created') /\ Len(files') = Cardinality(Created')
  BY <1>1, <1>2, FS_AddElement DEF Listed
<1>4. ASSUME NEW i \in Jobs
      PROVE  pc'[i] # "none" <=> \E p \in 1 .. n + 1 : files'[p] = i
  BY <1>1 DEF Listed
<1>5. \A i \in Jobs : pc'[i] = "none" => written'[i] = 0
  BY DEF Listed
<1> QED BY <1>1, <1>3, <1>4, <1>5 DEF Listed

\* The number of files with a stream is one.
LEMMA StreamsType ==
    ASSUME TypeOK
    PROVE  Streams \in Nat
<1>1. /\ Len(folders) \in Nat
      /\ \A k \in 1 .. Len(folders) : folders[k] \in Recs
  BY FolderTypes
<1>2. ASSUME Len(folders) # 0 PROVE Len(folders[1].files) \in Nat
  <2>1. folders[1].files \in Seq(Jobs)
    BY <1>1, <1>2 DEF Recs
  <2> QED BY <2>1, LenProperties
<1> QED BY <1>1, <1>2 DEF Streams

\* Steps that add a file without a folder: a directory, or one whose setup failed.
LEMMA BooksWithout ==
    ASSUME TypeOK, Books, Folded, NEW j \in Jobs, pc[j] = "none", files' = Append(files, j),
           UNCHANGED <<opt, fold, written>>, SameFiles(folders, folders'),
           pc'[j] \in {"open", "error"}, j \notin Dirs => pc'[j] = "error",
           \A i \in Jobs : i # j => /\ pc'[i] = "none" <=> pc[i] = "none"
                                    /\ pc'[i] = "open" => pc[i] = "open"
                                    /\ pc[i] = "error" => pc'[i] = "error"
    PROVE  Books'
<1>1. /\ Len(folders') = Len(folders) /\ Len(folders) \in Nat
      /\ \A k \in 1 .. Len(folders) : /\ folders'[k].files = folders[k].files
                                      /\ folders'[k].data = folders[k].data
  BY FolderTypes DEF SameFiles
<1>2. fold[j] = 0
  BY DEF Folded
<1>3. PICK n \in Nat : n = Len(files) /\ Len(files') = n + 1
  BY FilesMore
<1>4. /\ files'[n + 1] = j
      /\ \A p \in 1 .. n : files'[p] = files[p]
      /\ \A p \in 1 .. n + 1 : p \in 1 .. n \/ p = n + 1
      /\ \A p \in 0 .. n : StreamNumber(files', p) = StreamNumber(files, p)
      /\ StreamNumber(files', n + 1) = StreamNumber(files, n) + IF j \in Dirs THEN 0 ELSE 1
  BY <1>3, FilesMore
<1>5. Listed'
  BY ListedMore DEF Books
<1>6. Placed'
  BY <1>1, <1>2 DEF Books, Placed
<1>7. FilesOfFolder'
  BY <1>1 DEF Books, FilesOfFolder
<1>8. LastIsOpen'
  <2>1. \A i \in Jobs : fold[i] \in 0 .. Len(folders)
    BY DEF TypeOK
  <2> QED BY <1>1, <1>2, <2>1 DEF Books, LastIsOpen
<1>9. Numbered'
  <2>1. Streams' = Streams
    BY <1>1 DEF Streams
  <2>2. ASSUME NEW k \in 1 .. Streams PROVE StreamAt(k)' = StreamAt(k)
    BY <1>1, <2>2 DEF Streams, StreamAt
  <2>3. ASSUME NEW p \in 0 .. n PROVE AllFolded(p)' <=> AllFolded(p)
    <3>1. \A q \in 1 .. p : q \in 1 .. n
      OBVIOUS
    <3>2. \A q \in 1 .. p : files'[q] = files[q]
      BY <1>4, <3>1
    <3> QED BY <3>2 DEF AllFolded
  <2>4. AllFolded(n + 1)' => j \in Dirs /\ AllFolded(n)'
    <3>1. n + 1 \in 1 .. n + 1 /\ \A q \in 1 .. n : q \in 1 .. n + 1
      OBVIOUS
    <3> QED BY <1>2, <1>4, <3>1 DEF AllFolded
  <2>5. ASSUME NEW p \in 1 .. n + 1, files'[p] \notin Dirs, AllFolded(p)'
        PROVE  /\ StreamNumber(files', p) \in 1 .. Streams
               /\ StreamAt(StreamNumber(files, p))' = files'[p]
    <3>1. p \in 1 .. n
      BY <1>4, <2>4, <2>5
    <3>2. PICK s : s = StreamNumber(files', p) /\ s = StreamNumber(files, p)
      BY <1>4, <3>1
    <3>3. s \in 1 .. Streams /\ StreamAt(s) = files[p]
      BY <1>3, <1>4, <2>3, <2>5, <3>1, <3>2 DEF Books, Numbered
    <3>4. StreamAt(s)' = StreamAt(s)
      BY <2>2, <3>3
    <3> QED BY <1>4, <3>1, <3>2, <3>3, <3>4
  <2>6. AllFolded(n + 1)' => StreamNumber(files', n + 1) = Streams
    <3>1. SUFFICES ASSUME AllFolded(n + 1)' PROVE StreamNumber(files', n + 1) = Streams
      OBVIOUS
    <3>2. StreamNumber(files, n) = Streams
      BY <1>3, <2>3, <2>4, <3>1 DEF Books, Numbered
    <3>3. Streams \in Nat
      BY StreamsType
    <3> QED BY <1>4, <2>4, <3>1, <3>2, <3>3
  <2> QED BY <1>3, <2>1, <2>5, <2>6 DEF Numbered
<1>10. Content'
  BY <1>1 DEF Books, Content
<1> QED BY <1>5, <1>6, <1>7, <1>8, <1>9, <1>10 DEF Books

\* A file with a folder takes the next number.
LEMMA NumberedMore ==
    ASSUME TypeOK, Listed, Numbered, NEW j \in Jobs \ Dirs, pc[j] = "none",
           files' = Append(files, j), NEW x, x # 0, fold' = [fold EXCEPT ![j] = x],
           NEW m, m = Streams, Streams' = m + 1,
           \A s \in 1 .. m : StreamAt(s)' = StreamAt(s), StreamAt(m + 1)' = j
    PROVE  Numbered'
<1>1. PICK n \in Nat : n = Len(files) /\ Len(files') = n + 1
  BY FilesMore
<1>2. /\ files'[n + 1] = j
      /\ \A p \in 1 .. n : files'[p] = files[p]
      /\ \A p \in 1 .. n + 1 : p \in 1 .. n \/ p = n + 1
      /\ \A p \in 0 .. n : StreamNumber(files', p) = StreamNumber(files, p)
      /\ StreamNumber(files', n + 1) = StreamNumber(files, n) + 1
  BY <1>1, FilesMore
<1>3. m \in Nat
  BY StreamsType
<1>4. \A p \in 1 .. n : files[p] \in Jobs /\ files[p] # j
  <2>1. \A p \in 1 .. n : files[p] \in Jobs
    BY <1>1, ElementOfSeq DEF TypeOK
  <2> QED BY <1>1, <2>1 DEF Listed
<1>5. ASSUME NEW p \in 0 .. n PROVE AllFolded(p)' <=> AllFolded(p)
  <2>1. \A q \in 1 .. p : q \in 1 .. n
    OBVIOUS
  <2>2. \A q \in 1 .. p : files'[q] = files[q] /\ fold'[files[q]] = fold[files[q]]
    <3>1. \A i \in Jobs : i # j => fold'[i] = fold[i]
      BY DEF TypeOK
    <3> QED BY <1>2, <1>4, <2>1, <3>1
  <2> QED BY ONLY <2>2 DEF AllFolded
<1>6. AllFolded(n + 1)' => AllFolded(n)
  <2>1. \A q \in 1 .. n : q \in 1 .. n + 1
    OBVIOUS
  <2>2. AllFolded(n + 1)' => AllFolded(n)'
    BY <2>1 DEF AllFolded
  <2> QED BY <1>5, <2>2
<1>7. ASSUME AllFolded(n + 1)'
      PROVE  StreamNumber(files', n + 1) = m + 1
  <2>1. StreamNumber(files, n) = m
    BY <1>1, <1>6, <1>7 DEF Numbered
  <2> QED BY <1>2, <2>1
<1>8. ASSUME NEW p \in 1 .. n + 1, files'[p] \notin Dirs, AllFolded(p)',
             NEW s, s = StreamNumber(files', p)
      PROVE  s \in 1 .. m + 1 /\ StreamAt(s)' = files'[p]
  <2>1. CASE p = n + 1
    <3>1. AllFolded(n + 1)'
      BY <1>8, <2>1 DEF AllFolded
    <3>2. s = m + 1
      BY <1>7, <1>8, <2>1, <3>1
    <3>3. m + 1 \in 1 .. m + 1
      BY <1>3
    <3>4. files'[p] = j
      BY <1>2, <2>1
    <3> QED BY <3>2, <3>3, <3>4
  <2>2. CASE p \in 1 .. n
    <3>1. p \in 0 .. n
      BY <2>2
    <3>2. s = StreamNumber(files, p) /\ AllFolded(p) /\ files'[p] = files[p]
      BY <1>2, <1>5, <1>8, <2>2, <3>1
    <3>3. s \in 1 .. m /\ StreamAt(s) = files[p]
      BY <1>1, <1>8, <2>2, <3>2 DEF Numbered
    <3>4. s \in 1 .. m + 1
      BY <1>3, <3>3
    <3> QED BY <3>2, <3>3, <3>4
  <2> QED BY <1>2, <2>1, <2>2
<1>9. \A p \in 1 .. n + 1 : files'[p] \notin Dirs /\ AllFolded(p)' =>
         /\ StreamNumber(files', p) \in 1 .. m + 1
         /\ \A s : s = StreamNumber(files', p) => StreamAt(s)' = files'[p]
  BY <1>8
<1> QED BY <1>1, <1>7, <1>9 DEF Numbered

\* What nothing was written of, after the parts written.
LEMMA NoCopies ==
    ASSUME NEW x
    PROVE  Copies(0, x) = <<>>
BY DEF Copies

\* Steps that add a file with a folder of its own.
LEMMA BooksNewFolder ==
    ASSUME TypeOK, Books, Folded, NEW j \in Jobs \ Dirs, pc[j] = "none",
           files' = Append(files, j), NEW m, m = Len(folders), fold' = [fold EXCEPT ![j] = m + 1],
           opt' = opt, written' = written, opt.solid => m = 0,
           Len(folders') = m + 1, folders'[m + 1].files = <<j>>, folders'[m + 1].data = <<>>,
           \A k \in 1 .. m : folders'[k].files = folders[k].files /\ folders'[k].data = folders[k].data,
           pc'[j] = "open",
           \A i \in Jobs : i # j => /\ pc'[i] = "none" <=> pc[i] = "none"
                                    /\ pc'[i] = "open" => pc[i] = "open"
                                    /\ pc[i] = "error" => pc'[i] = "error"
    PROVE  Books'
<1>1. m \in Nat /\ m + 1 # 0 /\ \A k \in 1 .. m + 1 : k \in 1 .. m \/ k = m + 1
  BY FolderTypes
<1>2. /\ fold[j] = 0 /\ fold'[j] = m + 1
      /\ \A i \in Jobs : fold[i] \in 0 .. m /\ (i # j => fold'[i] = fold[i])
  BY DEF TypeOK, Folded
<1>3. Len(<<j>>) = 1 /\ <<j>>[1] = j /\ \A i \in 1 .. 1 : i = 1
  OBVIOUS
<1>4. \A k \in 1 .. m : \A i \in 1 .. Len(folders[k].files) :
         LET f == folders[k].files[i] IN f \in Jobs /\ f # j /\ fold'[f] = k
  <2>1. ASSUME NEW k \in 1 .. m, NEW i \in 1 .. Len(folders[k].files)
        PROVE  LET f == folders[k].files[i] IN f \in Jobs /\ f # j /\ fold'[f] = k
    <3>1. folders[k].files \in Seq(Jobs)
      BY FolderTypes DEF Recs
    <3>2. PICK f \in Jobs : f = folders[k].files[i]
      BY <3>1, ElementOfSeq
    <3>3. fold[f] = k /\ k # 0
      BY <1>1, <3>2 DEF Books, FilesOfFolder
    <3> QED BY <1>2, <3>2, <3>3
  <2> QED BY <2>1
<1>5. Listed'
  BY ListedMore DEF Books
<1>6. Placed'
  BY <1>1, <1>2 DEF Books, Placed
<1>7. FilesOfFolder'
  <2>1. ASSUME NEW k \in 1 .. m
        PROVE  LET fs == folders'[k].files
               IN  /\ Len(fs) # 0
                   /\ ~opt.solid => Len(fs) = 1
                   /\ \A i \in 1 .. Len(fs) : fold'[fs[i]] = k
                   /\ \A i, l \in 1 .. Len(fs) : fs[i] = fs[l] => i = l
    BY <1>4 DEF Books, FilesOfFolder
  <2>2. ASSUME NEW k, k = m + 1, NEW fs, fs = folders'[k].files
        PROVE  /\ Len(fs) # 0
               /\ ~opt.solid => Len(fs) = 1
               /\ \A i \in 1 .. Len(fs) : fold'[fs[i]] = k
               /\ \A i, l \in 1 .. Len(fs) : fs[i] = fs[l] => i = l
    <3>1. fs = <<j>>
      BY <2>2
    <3>2. Len(fs) = 1 /\ fs[1] = j
      BY <1>3, <3>1
    <3> QED BY <1>2, <1>3, <2>2, <3>2
  <2>3. ASSUME NEW k \in 1 .. m + 1
        PROVE  LET fs == folders'[k].files
               IN  /\ Len(fs) # 0
                   /\ ~opt.solid => Len(fs) = 1
                   /\ \A i \in 1 .. Len(fs) : fold'[fs[i]] = k
                   /\ \A i, l \in 1 .. Len(fs) : fs[i] = fs[l] => i = l
    <3>1. CASE k \in 1 .. m
      BY <2>1, <3>1
    <3>2. CASE k = m + 1
      BY <2>2, <3>2
    <3> QED BY <1>1, <3>1, <3>2
  <2> QED BY <2>3 DEF FilesOfFolder
<1>8. LastIsOpen'
  <2>1. SUFFICES ASSUME NEW i \in Jobs, fold'[i] # 0, pc'[i] = "open" \/ ~opt.solid
                 PROVE  folders'[fold'[i]].files[Len(folders'[fold'[i]].files)] = i
    BY DEF LastIsOpen
  <2>2. CASE i = j
    <3>1. PICK k, fs : k = fold'[i] /\ k = m + 1 /\ fs = folders'[k].files
      BY <1>2, <2>2
    <3>2. fs = <<j>>
      BY <3>1
    <3>3. Len(fs) = 1 /\ fs[1] = j
      BY <1>3, <3>2
    <3> QED BY <2>2, <3>1, <3>3
  <2>3. CASE i # j
    <3>1. PICK k \in 1 .. m : k = fold[i] /\ k = fold'[i]
      BY <1>1, <1>2, <2>1, <2>3
    <3>2. folders[k].files[Len(folders[k].files)] = i
      BY <1>1, <2>1, <2>3, <3>1 DEF Books, LastIsOpen
    <3> QED BY <3>1, <3>2
  <2> QED BY <2>2, <2>3
<1>9. Numbered'
  <2>1. PICK s : s = Streams
    OBVIOUS
  <2>2. Streams' = s + 1
    <3>1. CASE opt.solid
      <4>1. s = 0 /\ m = 0
        BY <2>1, <3>1 DEF Streams
      <4>2. Streams' = Len(folders'[1].files) /\ folders'[1].files = <<j>>
        BY <3>1, <4>1 DEF Streams
      <4> QED BY <1>3, <4>1, <4>2
    <3>2. CASE ~opt.solid
      BY <2>1, <3>2 DEF Streams
    <3> QED BY <3>1, <3>2
  <2>3. ASSUME NEW k \in 1 .. s PROVE StreamAt(k)' = StreamAt(k)
    <3>1. CASE opt.solid
      <4>1. s = 0
        BY <2>1, <3>1 DEF Streams
      <4> QED BY <2>3, <4>1
    <3>2. CASE ~opt.solid
      <4>1. k \in 1 .. m
        BY <2>1, <3>2 DEF Streams
      <4> QED BY <3>2, <4>1 DEF StreamAt
    <3> QED BY <3>1, <3>2
  <2>4. StreamAt(s + 1)' = j
    <3>1. CASE opt.solid
      <4>1. s = 0 /\ m = 0
        BY <2>1, <3>1 DEF Streams
      <4>2. folders'[1].files = <<j>>
        BY <4>1
      <4>3. s + 1 = 1
        BY <4>1
      <4> QED BY <1>3, <3>1, <4>2, <4>3 DEF StreamAt
    <3>2. CASE ~opt.solid
      <4>1. s = m
        BY <2>1, <3>2 DEF Streams
      <4> QED BY <1>3, <3>2, <4>1 DEF StreamAt
    <3> QED BY <3>1, <3>2
  <2> QED BY <1>1, <2>1, <2>2, <2>3, <2>4, NumberedMore DEF Books
<1>10. Content'
  <2>1. ASSUME NEW k \in 1 .. m
        PROVE  folders'[k].data = FlattenSeq(Parts(folders'[k].files, written'))
    BY DEF Books, Content
  <2>2. Parts(<<j>>, written) = [i \in 1 .. 1 |-> <<>>]
    <3>1. written[j] = 0
      BY DEF Books, Listed
    <3>2. \A i \in 1 .. 1 : Copies(written[<<j>>[i]], <<j>>[i]) = <<>>
      BY <1>3, <3>1, NoCopies
    <3> QED BY <1>3, <3>2 DEF Parts
  <2>3. FlattenSeq(Parts(<<j>>, written)) = <<>>
    <3>1. PICK s : s = [i \in 1 .. 1 |-> <<>>] /\ Len(s) = 1 /\ s[1] = <<>>
      <4>1. PICK n \in Nat : n = 1
        OBVIOUS
      <4>2. PICK x, S : x = <<>> /\ S = {x} /\ x \in S
        <5> DEFINE e == <<>>
        <5>1. e = <<>> /\ {e} = {e} /\ e \in {e}
          OBVIOUS
        <5> QED BY <5>1
      <4>3. Len(Copies(n, x)) = n /\ \A i \in 1 .. n : Copies(n, x)[i] = x
        BY ONLY <4>1, <4>2, CopiesType
      <4>4. PICK c : c = Copies(n, x) /\ Len(c) = 1 /\ c[1] = <<>>
        BY <4>1, <4>2, <4>3
      <4>5. c = [i \in 1 .. 1 |-> <<>>]
        BY <4>1, <4>2, <4>4 DEF Copies
      <4> QED BY <4>4, <4>5
    <3>2. FlattenSeq(s) = <<>>
      BY <3>1, FlattenOne
    <3> QED BY <2>2, <3>1, <3>2
  <2> QED BY <1>1, <2>1, <2>3 DEF Content
<1> QED BY <1>5, <1>6, <1>7, <1>8, <1>9, <1>10 DEF Books

\* What the files of a folder were given.
LEMMA PartsType ==
    ASSUME NEW fs \in Seq(Jobs), NEW w \in [Jobs -> 0 .. MaxUnits]
    PROVE  /\ Parts(fs, w) \in Seq(Seq(Jobs)) /\ Len(Parts(fs, w)) = Len(fs)
           /\ \A i \in 1 .. Len(fs) : /\ Parts(fs, w)[i] = Copies(w[fs[i]], fs[i])
                                      /\ Copies(w[fs[i]], fs[i]) \in Seq(Jobs)
                                      /\ Len(Copies(w[fs[i]], fs[i])) = w[fs[i]]
                                      /\ w[fs[i]] \in Nat /\ fs[i] \in Jobs
<1>1. Len(fs) \in Nat
  BY LenProperties
<1>2. ASSUME NEW i \in 1 .. Len(fs)
      PROVE  /\ Copies(w[fs[i]], fs[i]) \in Seq(Jobs)
             /\ Len(Copies(w[fs[i]], fs[i])) = w[fs[i]]
             /\ w[fs[i]] \in Nat /\ fs[i] \in Jobs
  <2>1. PICK f \in Jobs : f = fs[i]
    BY ElementOfSeq
  <2>2. PICK n \in Nat : n = w[f]
    BY BoundsAssumption
  <2>3. Copies(n, f) \in Seq(Jobs) /\ Len(Copies(n, f)) = n
    BY CopiesType
  <2> QED BY <2>1, <2>2, <2>3
<1> QED BY <1>1, <1>2 DEF Parts

\* Steps that add a file to the folder of the solid mode.
LEMMA BooksSameFolder ==
    ASSUME TypeOK, Books, Folded, NEW j \in Jobs \ Dirs, pc[j] = "none", opt.solid,
           files' = Append(files, j), Len(folders) = 1, fold' = [fold EXCEPT ![j] = 1],
           opt' = opt, written' = written,
           Len(folders') = 1, folders'[1].files = Append(folders[1].files, j),
           folders'[1].data = folders[1].data, pc'[j] = "open",
           \A i \in Jobs : i # j => /\ pc'[i] = "none" <=> pc[i] = "none"
                                    /\ pc'[i] # "open"
                                    /\ pc[i] = "error" => pc'[i] = "error"
    PROVE  Books'
<1>1. /\ fold[j] = 0 /\ fold'[j] = 1
      /\ \A i \in Jobs : fold[i] \in 0 .. 1 /\ (i # j => fold'[i] = fold[i])
  BY DEF TypeOK, Folded
<1>2. PICK fs \in Seq(Jobs), gs \in Seq(Jobs), n \in Nat :
         /\ fs = folders[1].files /\ gs = folders'[1].files
         /\ n = Len(fs) /\ Len(gs) = n + 1 /\ gs[n + 1] = j
         /\ \A i \in 1 .. n : gs[i] = fs[i]
  <2>1. folders[1] \in Recs
    BY FolderTypes
  <2>2. PICK fs \in Seq(Jobs) : fs = folders[1].files
    BY <2>1 DEF Recs
  <2>3. PICK gs : gs = Append(fs, j)
    OBVIOUS
  <2>4. PICK n \in Nat : n = Len(fs)
    BY LenProperties
  <2>5. gs \in Seq(Jobs) /\ Len(gs) = n + 1 /\ gs[n + 1] = j
    BY <2>3, <2>4, AppendProperties
  <2>6. \A i \in 1 .. n : gs[i] = fs[i]
    BY <2>3, <2>4, AppendProperties
  <2>7. gs = folders'[1].files
    BY <2>2, <2>3
  <2>8. fs \in Seq(Jobs) /\ gs \in Seq(Jobs) /\ n \in Nat
    BY <2>5
  <2> QED BY ONLY <2>2, <2>4, <2>5, <2>6, <2>7, <2>8
<1>3. \A i \in 1 .. n + 1 : i \in 1 .. n \/ i = n + 1
  BY <1>2
<1>4. \A i \in 1 .. n : fs[i] \in Jobs /\ fs[i] # j /\ fold'[fs[i]] = 1
  <2>1. \A i \in 1 .. n : fs[i] \in Jobs /\ fold[fs[i]] = 1
    BY <1>2, ElementOfSeq DEF Books, FilesOfFolder
  <2> QED BY <1>1, <2>1
<1>5. \A k \in 1 .. 1 : k = 1
  OBVIOUS
<1>6. Listed'
  BY ListedMore DEF Books
<1>7. Placed'
  <2>1. ASSUME NEW i \in Jobs, fold'[i] = 0 PROVE i \in Dirs \/ pc'[i] \in {"none", "error"}
    <3>1. i # j /\ fold[i] = 0
      BY <1>1, <2>1
    <3> QED BY <3>1 DEF Books, Placed
  <2>2. ASSUME NEW i \in Dirs PROVE fold'[i] = 0
    <3>1. i \in Jobs /\ i # j
      BY JobsAssumption
    <3> QED BY <1>1, <3>1 DEF Books, Placed
  <2> QED BY <2>1, <2>2 DEF Placed
<1>8. FilesOfFolder'
  <2>1. n + 1 # 0
    BY <1>2
  <2>2. \A i \in 1 .. n + 1 : fold'[gs[i]] = 1
    BY <1>1, <1>2, <1>3, <1>4
  <2>3. ASSUME NEW i \in 1 .. n + 1, NEW l \in 1 .. n + 1, gs[i] = gs[l] PROVE i = l
    <3>1. \A a, b \in 1 .. n : fs[a] = fs[b] => a = b
      BY <1>2 DEF Books, FilesOfFolder
    <3>2. CASE i \in 1 .. n /\ l \in 1 .. n
      BY <1>2, <2>3, <3>1, <3>2
    <3>3. CASE i = n + 1 /\ l \in 1 .. n
      BY <1>2, <1>4, <2>3, <3>3
    <3>4. CASE i \in 1 .. n /\ l = n + 1
      BY <1>2, <1>4, <2>3, <3>4
    <3>5. CASE i = n + 1 /\ l = n + 1
      BY <3>5
    <3> QED BY <1>3, <3>2, <3>3, <3>4, <3>5
  <2>4. ASSUME NEW k \in 1 .. 1
        PROVE  LET f == folders'[k].files
               IN  /\ Len(f) # 0
                   /\ ~opt.solid => Len(f) = 1
                   /\ \A i \in 1 .. Len(f) : fold'[f[i]] = k
                   /\ \A i, l \in 1 .. Len(f) : f[i] = f[l] => i = l
    <3>1. k = 1
      OBVIOUS
    <3>2. folders'[k].files = gs /\ Len(gs) = n + 1
      BY <1>2, <3>1
    <3> QED BY <2>1, <2>2, <2>3, <3>1, <3>2
  <2> QED BY <2>4 DEF FilesOfFolder
<1>9. LastIsOpen'
  <2>1. \A i \in Jobs : pc'[i] = "open" => i = j
    OBVIOUS
  <2> QED BY <1>1, <1>2, <2>1 DEF LastIsOpen
<1>10. Numbered'
  <2>1. Streams = n /\ Streams' = n + 1
    BY <1>2 DEF Streams
  <2>2. \A s \in 1 .. n : StreamAt(s)' = StreamAt(s)
    BY <1>2 DEF StreamAt
  <2>3. StreamAt(n + 1)' = j
    BY <1>2 DEF StreamAt
  <2>4. PICK x : x = 1
    OBVIOUS
  <2>5. fold' = [fold EXCEPT ![j] = x]
    BY <2>4, Zenon
  <2>6. x # 0
    BY <2>4
  <2>7. Listed /\ Numbered /\ n = Streams
    BY <2>1 DEF Books
  <2> QED BY <2>1, <2>2, <2>3, <2>7, <2>5, <2>6, NumberedMore
<1>11. Content'
  <2>1. PICK w \in [Jobs -> 0 .. MaxUnits] : w = written
    BY DEF TypeOK
  <2>2. PICK p, q, u : p = Parts(fs, w) /\ q = Parts(gs, w) /\ u \in Seq(Jobs) /\ u = <<>>
    BY EmptySeq
  <2>3. /\ p \in Seq(Seq(Jobs)) /\ Len(p) = n
        /\ \A i \in 1 .. n : p[i] = Copies(w[fs[i]], fs[i])
    <3>1. p \in Seq(Seq(Jobs)) /\ Len(p) = Len(fs)
      BY ONLY fs \in Seq(Jobs), w \in [Jobs -> 0 .. MaxUnits], <2>2, PartsType
    <3>2. \A i \in 1 .. Len(fs) : p[i] = Copies(w[fs[i]], fs[i])
      BY ONLY fs \in Seq(Jobs), w \in [Jobs -> 0 .. MaxUnits], <2>2, PartsType
    <3> QED BY <1>2, <3>1, <3>2
  <2>4. /\ Len(q) = n + 1
        /\ \A i \in 1 .. n + 1 : q[i] = Copies(w[gs[i]], gs[i])
    <3>1. Len(q) = Len(gs) /\ \A i \in 1 .. Len(gs) : q[i] = Copies(w[gs[i]], gs[i])
      BY ONLY gs \in Seq(Jobs), w \in [Jobs -> 0 .. MaxUnits], <2>2, PartsType
    <3> QED BY <1>2, <3>1
  <2>5. ASSUME NEW i \in 1 .. n PROVE q[i] = p[i]
    <3>1. i \in 1 .. n + 1 /\ gs[i] = fs[i]
      BY <1>2, <1>3
    <3>2. q[i] = Copies(w[gs[i]], gs[i]) /\ p[i] = Copies(w[fs[i]], fs[i])
      BY <2>3, <2>4, <3>1
    <3> QED BY <3>1, <3>2
  <2>6. q[n + 1] = u
    <3>1. w[j] = 0
      BY <2>1 DEF Books, Listed
    <3>2. n + 1 \in 1 .. n + 1
      BY <1>2
    <3>3. q[n + 1] = Copies(w[j], j)
      BY <1>2, <2>4, <3>2
    <3> QED BY <2>2, <3>1, <3>3, NoCopies
  <2>7. FlattenSeq(q) = FlattenSeq(p) \o u
    <3>1. p \in Seq(Seq(Jobs)) /\ u \in Seq(Jobs) /\ n = Len(p) /\ Len(q) = n + 1
      BY <2>2, <2>3, <2>4
    <3> QED BY ONLY n \in Nat, <3>1, <2>5, <2>6, FlattenNext
  <2>8. FlattenSeq(p) \in Seq(Jobs)
    BY <2>3, FlattenType
  <2>9. FlattenSeq(q) = FlattenSeq(p)
    BY <2>2, <2>7, <2>8, ConcatEmptySeq
  <2>10. folders[1].data = FlattenSeq(p)
    BY <1>2, <1>5, <2>1, <2>2 DEF Books, Content
  <2>11. folders'[1].data = FlattenSeq(Parts(folders'[1].files, written'))
    BY <1>2, <2>1, <2>2, <2>9, <2>10
  <2> QED BY <1>5, <2>11 DEF Content
<1> QED BY <1>6, <1>7, <1>8, <1>9, <1>10, <1>11 DEF Books

\* An open file is given one unit more, and so is its folder.
UnitWritten(j) ==
    /\ pc[j] = "open" /\ fold[j] \in 1 .. Len(folders)
    /\ UNCHANGED <<opt, files, fold, pc>>
    /\ written' \in [Jobs -> 0 .. MaxUnits]
    /\ written'[j] = written[j] + 1
    /\ \A i \in Jobs : i # j => written'[i] = written[i]
    /\ Len(folders') = Len(folders)
    /\ \A k \in 1 .. Len(folders) :
          /\ folders'[k].files = folders[k].files
          /\ folders'[k].data = IF k = fold[j] THEN Append(folders[k].data, j) ELSE folders[k].data

LEMMA UnitBooks ==
    ASSUME TypeOK, Books, NEW j \in Jobs, pc[j] = "open", NEW f \in 1 .. Len(folders), f = fold[j],
           UNCHANGED <<opt, files, fold, pc>>, written' \in [Jobs -> 0 .. MaxUnits],
           written'[j] = written[j] + 1, \A i \in Jobs : i # j => written'[i] = written[i],
           Len(folders') = Len(folders),
           \A k \in 1 .. Len(folders) : /\ folders'[k].files = folders[k].files
                                        /\ k # f => folders'[k].data = folders[k].data,
           folders'[f].data = Append(folders[f].data, j)
    PROVE  Books'
<1>1. /\ Len(folders) \in Nat
      /\ \A k \in 1 .. Len(folders) : folders[k].files \in Seq(Jobs) /\ folders[k].data \in Seq(Jobs)
  BY FolderTypes DEF Recs
<1>2. PICK w \in [Jobs -> 0 .. MaxUnits], x \in [Jobs -> 0 .. MaxUnits] :
         /\ w = written /\ x = written' /\ x[j] = w[j] + 1
         /\ \A i \in Jobs : i # j => x[i] = w[i]
  BY DEF TypeOK
<1>3. Listed'
  BY DEF Books, Listed, Created
<1>4. Placed'
  BY DEF Books, Placed
<1>5. FilesOfFolder'
  <2>1. FilesOfFolder
    BY DEF Books
  <2>2. \A k \in 1 .. Len(folders) : folders'[k].files = folders[k].files
    OBVIOUS
  <2>3. Len(folders') = Len(folders) /\ opt' = opt /\ fold' = fold
    OBVIOUS
  <2> QED BY ONLY <2>1, <2>2, <2>3 DEF FilesOfFolder
<1>6. LastIsOpen'
  <2>1. ASSUME NEW i \in Jobs, fold[i] # 0, pc[i] = "open" \/ ~opt.solid, NEW k, k = fold[i]
        PROVE  folders'[k].files[Len(folders'[k].files)] = i
    <3>1. k \in 1 .. Len(folders)
      <4>1. fold[i] \in 0 .. Len(folders)
        BY DEF TypeOK
      <4> QED BY <1>1, <2>1, <4>1
    <3>2. folders[k].files[Len(folders[k].files)] = i
      BY <2>1 DEF Books, LastIsOpen
    <3>3. folders'[k].files = folders[k].files
      BY <3>1
    <3> QED BY <3>2, <3>3
  <2> QED BY <2>1 DEF LastIsOpen
<1>7. Numbered'
  <2>1. Streams' = Streams
    BY <1>1 DEF Streams
  <2>2. ASSUME NEW n \in 1 .. Streams PROVE StreamAt(n)' = StreamAt(n)
    <3>1. ~opt.solid => n \in 1 .. Len(folders)
      BY DEF Streams
    <3>2. opt.solid => 1 \in 1 .. Len(folders)
      BY <1>1 DEF Streams
    <3> QED BY <3>1, <3>2 DEF StreamAt
  <2>3. ASSUME NEW p PROVE AllFolded(p)' <=> AllFolded(p)
    BY DEF AllFolded
  <2> QED BY <2>1, <2>2, <2>3 DEF Books, Numbered
<1>8. ASSUME NEW k \in 1 .. Len(folders), k # f
      PROVE  folders'[k].data = FlattenSeq(Parts(folders'[k].files, written'))
  <2>1. PICK fs \in Seq(Jobs) : fs = folders[k].files /\ fs = folders'[k].files
    BY <1>1
  <2>2. \A i \in 1 .. Len(fs) : fold[fs[i]] = k
    <3>1. \A i \in 1 .. Len(folders[k].files) : fold[folders[k].files[i]] = k
      BY DEF Books, FilesOfFolder
    <3> QED BY <2>1, <3>1
  <2>3. \A i \in 1 .. Len(fs) : x[fs[i]] = w[fs[i]]
    BY <1>2, <1>8, <2>2, ElementOfSeq
  <2>4. Parts(fs, x) = Parts(fs, w)
    BY <2>3 DEF Parts
  <2>5. folders[k].data = FlattenSeq(Parts(fs, w))
    BY <1>2, <2>1 DEF Books, Content
  <2>6. folders'[k].data = folders[k].data
    BY <1>8
  <2> QED BY <1>2, <2>1, <2>4, <2>5, <2>6
<1>9. folders'[f].data = FlattenSeq(Parts(folders'[f].files, written'))
  <2>1. PICK fs \in Seq(Jobs), n \in Nat : fs = folders[f].files /\ fs = folders'[f].files /\ n = Len(fs)
    BY <1>1, LenProperties
  <2>2. /\ n # 0 /\ fs[n] = j
        /\ \A a, b \in 1 .. n : fs[a] = fs[b] => a = b
    <3>1. fold[j] # 0
      OBVIOUS
    <3>2. folders[fold[j]].files[Len(folders[fold[j]].files)] = j
      BY <3>1 DEF Books, LastIsOpen
    <3>3. /\ Len(folders[f].files) # 0
          /\ \A a, b \in 1 .. Len(folders[f].files) :
                folders[f].files[a] = folders[f].files[b] => a = b
      BY DEF Books, FilesOfFolder
    <3> QED BY <2>1, <3>2, <3>3
  <2>3. PICK s, t : s = Parts(fs, w) /\ t = Parts(fs, x)
    OBVIOUS
  <2>4. /\ s \in Seq(Seq(Jobs)) /\ Len(s) = Len(fs)
        /\ \A i \in 1 .. Len(fs) : s[i] = Copies(w[fs[i]], fs[i])
    BY ONLY fs \in Seq(Jobs), w \in [Jobs -> 0 .. MaxUnits], <2>3, PartsType
  <2>5. /\ t \in Seq(Seq(Jobs)) /\ Len(t) = Len(fs)
        /\ \A i \in 1 .. Len(fs) : t[i] = Copies(x[fs[i]], fs[i])
    BY ONLY fs \in Seq(Jobs), x \in [Jobs -> 0 .. MaxUnits], <2>3, PartsType
  <2>6. ASSUME NEW i \in 1 .. n - 1 PROVE t[i] = s[i]
    <3>1. i \in 1 .. n /\ n \in 1 .. n /\ i # n
      BY ONLY n \in Nat, i \in 1 .. n - 1, <2>2
    <3>2. fs[i] # j /\ fs[i] \in Jobs
      BY <2>1, <2>2, <3>1, ElementOfSeq
    <3>3. x[fs[i]] = w[fs[i]]
      BY <1>2, <3>2
    <3>4. i \in 1 .. Len(fs)
      BY <2>1, <2>2, <3>1
    <3>5. t[i] = Copies(x[fs[i]], fs[i]) /\ s[i] = Copies(w[fs[i]], fs[i])
      BY <2>4, <2>5, <3>4
    <3> QED BY <3>3, <3>5
  <2>7. PICK u : u = Copies(1, j) /\ u \in Seq(Jobs) /\ u = <<j>>
    <3>1. Copies(1, j) \in Seq(Jobs) /\ Len(Copies(1, j)) = 1 /\ Copies(1, j)[1] = j
      BY DEF Copies
    <3>2. <<j>> \in Seq(Jobs) /\ Len(<<j>>) = 1 /\ <<j>>[1] = j
      OBVIOUS
    <3>3. \A i \in 1 .. 1 : i = 1
      OBVIOUS
    <3>4. Copies(1, j) = <<j>>
      BY <3>1, <3>2, <3>3, SeqEqual
    <3> QED BY <3>1, <3>4
  <2>8. t[n] = s[n] \o u
    <3>1. n \in 1 .. n
      BY <2>2
    <3>2. s[n] = Copies(w[j], j) /\ t[n] = Copies(x[j], j)
      BY <2>1, <2>2, <2>4, <2>5, <3>1
    <3>3. PICK a \in Nat : a = w[j] /\ x[j] = a + 1
      BY <1>2, BoundsAssumption
    <3>4. Copies(a + 1, j) = Copies(a, j) \o Copies(1, j)
      BY MoreCopies
    <3> QED BY <2>7, <3>2, <3>3, <3>4
  <2>9. FlattenSeq(t) = FlattenSeq(s) \o u
    <3>1. n # 0 /\ Len(s) = n /\ Len(t) = n /\ s \in Seq(Seq(Jobs)) /\ u \in Seq(Jobs)
      BY <2>1, <2>2, <2>4, <2>5, <2>7
    <3>2. \A i \in 1 .. n - 1 : t[i] = s[i]
      BY <2>6
    <3>3. PICK S : S = Jobs /\ s \in Seq(Seq(S)) /\ u \in Seq(S)
      BY <3>1
    <3>4. s \in Seq(Seq(S)) /\ u \in Seq(S)
      BY <3>3
    <3>5. LongerLast(s, t, n, u)
      BY ONLY n \in Nat, <3>1, <3>2, <2>8 DEF LongerLast
    <3> QED BY ONLY <3>4, <3>5, FlattenLast
  <2>10. FlattenSeq(s) = folders[f].data /\ folders[f].data \in Seq(Jobs)
    BY <1>1, <1>2, <2>1, <2>3 DEF Books, Content
  <2>11. PICK d \in Seq(Jobs) : d = folders[f].data
    BY <2>10
  <2>12. Append(d, j) = d \o <<j>>
    OBVIOUS
  <2> QED BY <1>2, <2>1, <2>3, <2>7, <2>9, <2>10, <2>11, <2>12
<1>10. Content'
  BY <1>8, <1>9 DEF Content
<1> QED BY <1>3, <1>4, <1>5, <1>6, <1>7, <1>10 DEF Books

\* That keeps the books.
LEMMA BooksWrite ==
    ASSUME TypeOK, Books, NEW j \in Jobs, UnitWritten(j)
    PROVE  Books'
<1> SUFFICES
      ASSUME pc[j] = "open", NEW f \in 1 .. Len(folders), f = fold[j],
             UNCHANGED <<opt, files, fold, pc>>, written' \in [Jobs -> 0 .. MaxUnits],
             written'[j] = written[j] + 1, \A i \in Jobs : i # j => written'[i] = written[i],
             Len(folders') = Len(folders),
             \A k \in 1 .. Len(folders) : /\ folders'[k].files = folders[k].files
                                          /\ k # f => folders'[k].data = folders[k].data,
             folders'[f].data = Append(folders[f].data, j)
      PROVE  Books'
  BY DEF UnitWritten
<1> QED BY UnitBooks

-----------------------------------------------------------------------------
(* The body in the sequential and solid modes.                             *)

\* The chunks of all folders, folder after folder.
BodyOf(fs) == FlattenSeq([k \in 1 .. Len(fs) |-> Copies(fs[k].n, k)])

\* The chunks of each folder.
LEMMA ChunksOf ==
    ASSUME NEW fs, NEW m \in Nat, m = Len(fs), \A k \in 1 .. m : fs[k].n \in Nat,
           NEW c, c = [k \in 1 .. Len(fs) |-> Copies(fs[k].n, k)]
    PROVE  /\ c \in Seq(Seq(Nat)) /\ Len(c) = m
           /\ \A k \in 1 .. m : c[k] = Copies(fs[k].n, k)
<1>1. \A k \in 1 .. m : k \in Nat
  OBVIOUS
<1>2. \A k \in 1 .. m : Copies(fs[k].n, k) \in Seq(Nat)
  BY <1>1, CopiesType
<1> QED BY <1>2

\* The last folder of gs has d chunks more than that of fs.
MoreChunks(fs, gs, m, d) ==
    /\ m \in Nat /\ m # 0 /\ m = Len(fs) /\ m = Len(gs)
    /\ \A k \in 1 .. m : fs[k].n \in Nat
    /\ d \in Nat
    /\ \A k \in 1 .. m - 1 : gs[k].n = fs[k].n
    /\ gs[m].n = fs[m].n + d

\* The last folder gets more chunks.
LEMMA BodyLast ==
    ASSUME NEW fs, NEW gs, NEW m, NEW d, MoreChunks(fs, gs, m, d)
    PROVE  BodyOf(gs) = BodyOf(fs) \o Copies(d, m)
<1> m \in Nat /\ m # 0 /\ m = Len(fs) /\ m = Len(gs) /\ d \in Nat
  BY DEF MoreChunks
<1>1. /\ \A k \in 1 .. m : fs[k].n \in Nat
      /\ \A k \in 1 .. m - 1 : gs[k].n = fs[k].n
      /\ gs[m].n = fs[m].n + d
  BY DEF MoreChunks
<1>2. m \in 1 .. m /\ \A k \in 1 .. m : k = m \/ k \in 1 .. m - 1
  OBVIOUS
<1>3. PICK x \in Nat, y \in Nat : x = fs[m].n /\ y = x + d /\ y = gs[m].n
  BY <1>1, <1>2
<1>4. \A k \in 1 .. m : gs[k].n \in Nat
  BY <1>1, <1>2, <1>3
<1>5. PICK s, t : /\ s = [k \in 1 .. Len(fs) |-> Copies(fs[k].n, k)]
                  /\ t = [k \in 1 .. Len(gs) |-> Copies(gs[k].n, k)]
  OBVIOUS
<1>6. s \in Seq(Seq(Nat)) /\ Len(s) = m /\ \A k \in 1 .. m : s[k] = Copies(fs[k].n, k)
  <2>1. \A k \in 1 .. m : fs[k].n \in Nat
    BY <1>1
  <2>2. m = Len(fs) /\ m \in Nat
    OBVIOUS
  <2>3. s \in Seq(Seq(Nat))
    BY ONLY <1>5, <2>1, <2>2, ChunksOf
  <2>4. \A k \in 1 .. m : s[k] = Copies(fs[k].n, k)
    BY ONLY <1>5, <2>1, <2>2, ChunksOf
  <2>5. Len(s) = m
    BY ONLY <1>5, <2>2
  <2> QED BY <2>3, <2>4, <2>5
<1>7. Len(t) = m /\ \A k \in 1 .. m : t[k] = Copies(gs[k].n, k)
  <2>1. m = Len(gs) /\ m \in Nat
    OBVIOUS
  <2>2. Len(t) = m
    BY ONLY <1>5, <2>1
  <2>3. \A k \in 1 .. m : t[k] = Copies(gs[k].n, k)
    BY ONLY <1>4, <1>5, <2>1, ChunksOf
  <2> QED BY <2>2, <2>3
<1>8. PICK u : u = Copies(d, m) /\ u \in Seq(Nat)
  BY CopiesType
<1>9. t[m] = s[m] \o u
  <2>1. Copies(x + d, m) = Copies(x, m) \o Copies(d, m)
    BY MoreCopies
  <2> QED BY <1>2, <1>3, <1>6, <1>7, <1>8, <2>1
<1>10. \A k \in 1 .. m - 1 : t[k] = s[k]
  <2>1. \A k \in 1 .. m - 1 : k \in 1 .. m
    OBVIOUS
  <2> QED BY <1>1, <1>6, <1>7, <2>1
<1>11. FlattenSeq(t) = FlattenSeq(s) \o u
  <2>1. PICK S : S = Nat /\ s \in Seq(Seq(S)) /\ u \in Seq(S)
    BY <1>6, <1>8
  <2>2. m # 0 /\ Len(s) = m /\ Len(t) = m /\ s \in Seq(Seq(S)) /\ u \in Seq(S)
    BY <1>6, <1>7, <2>1
  <2>3. LongerLast(s, t, m, u)
    BY ONLY m \in Nat, <2>2, <1>9, <1>10 DEF LongerLast
  <2> QED BY ONLY <2>2, <2>3, FlattenLast
<1> QED BY <1>5, <1>8, <1>11 DEF BodyOf

\* A folder without chunks behind the others.
LEMMA BodyNew ==
    ASSUME NEW fs, NEW gs, NEW m \in Nat, m = Len(fs), Len(gs) = m + 1,
           \A k \in 1 .. m : fs[k].n \in Nat,
           \A k \in 1 .. m : gs[k].n = fs[k].n, gs[m + 1].n = 0
    PROVE  BodyOf(gs) = BodyOf(fs)
<1>1. m + 1 \in Nat /\ \A k \in 1 .. m + 1 : k = m + 1 \/ k \in 1 .. m
  OBVIOUS
<1>2. \A k \in 1 .. m + 1 : gs[k].n \in Nat
  BY <1>1
<1>3. PICK s, t : /\ s = [k \in 1 .. Len(fs) |-> Copies(fs[k].n, k)]
                  /\ t = [k \in 1 .. Len(gs) |-> Copies(gs[k].n, k)]
  OBVIOUS
<1>4. s \in Seq(Seq(Nat)) /\ Len(s) = m /\ \A k \in 1 .. m : s[k] = Copies(fs[k].n, k)
  BY <1>3, ChunksOf
<1>5. Len(t) = m + 1 /\ \A k \in 1 .. m + 1 : t[k] = Copies(gs[k].n, k)
  BY <1>1, <1>2, <1>3, ChunksOf
<1>6. PICK u \in Seq(Nat) : u = <<>>
  BY EmptySeq
<1>7. t[m + 1] = u
  <2>1. m + 1 \in 1 .. m + 1
    OBVIOUS
  <2> QED BY <1>5, <1>6, <2>1, NoCopies
<1>8. \A k \in 1 .. m : t[k] = s[k]
  <2>1. \A k \in 1 .. m : k \in 1 .. m + 1
    OBVIOUS
  <2> QED BY <1>4, <1>5, <2>1
<1>9. FlattenSeq(t) = FlattenSeq(s) \o u
  <2>1. PICK S : S = Nat /\ s \in Seq(Seq(S)) /\ u \in Seq(S)
    BY <1>4
  <2>2. m \in Nat /\ m = Len(s) /\ Len(t) = m + 1
    BY <1>4, <1>5
  <2>3. s \in Seq(Seq(S)) /\ u \in Seq(S)
    BY <2>1
  <2> QED BY ONLY <2>2, <2>3, <1>7, <1>8, FlattenNext
<1>10. FlattenSeq(s) \in Seq(Nat)
  BY <1>4, FlattenType
<1>11. FlattenSeq(t) = FlattenSeq(s)
  BY <1>6, <1>9, <1>10, ConcatEmptySeq
<1> QED BY <1>3, <1>11 DEF BodyOf

\* As many chunks, the same body.
LEMMA BodySame ==
    ASSUME NEW fs, NEW gs, Len(gs) = Len(fs), \A k \in 1 .. Len(fs) : gs[k].n = fs[k].n
    PROVE  BodyOf(gs) = BodyOf(fs)
<1>1. [k \in 1 .. Len(gs) |-> Copies(gs[k].n, k)] = [k \in 1 .. Len(fs) |-> Copies(fs[k].n, k)]
  OBVIOUS
<1> QED BY <1>1 DEF BodyOf

\* What closing a folder does to the folders.
LEMMA CloseFoldIs ==
    ASSUME NEW fs, FoldersOK(fs), NEW f \in 0 .. Len(fs)
    PROVE  /\ SameFiles(fs, CloseFold(fs, f))
           /\ \A k \in 1 .. Len(fs) :
                 /\ CloseFold(fs, f)[k].n = fs[k].n + IF k = f /\ ~fs[k].closed THEN 1 ELSE 0
                 /\ k = f => CloseFold(fs, f)[k].closed
<1>1. Len(fs) \in Nat /\ \A k \in 1 .. Len(fs) : fs[k] \in Recs
  BY LenProperties, ElementOfSeq DEF FoldersOK
<1>2. CASE f = 0 \/ fs[f].closed
  <2>1. CloseFold(fs, f) = fs
    BY <1>2 DEF CloseFold
  <2>2. \A k \in 1 .. Len(fs) : k = f => fs[k].closed
    BY <1>2
  <2>3. \A k \in 1 .. Len(fs) : fs[k].n \in Nat
    BY <1>1 DEF Recs
  <2> QED BY <2>1, <2>2, <2>3 DEF SameFiles
<1>3. CASE ~(f = 0 \/ fs[f].closed)
  <2>1. f \in 1 .. Len(fs)
    BY <1>3
  <2>2. PICK o \in Recs : o = fs[f]
    BY <1>1, <2>1
  <2>3. PICK r : r = [o EXCEPT !.closed = TRUE, !.n = @ + 1, !.kept = @ + 1]
    OBVIOUS
  <2>4. r.files = o.files /\ r.data = o.data /\ r.closed /\ r.n = o.n + 1
    BY <2>3 DEF Recs
  <2>5. CloseFold(fs, f) = [fs EXCEPT ![f] = r]
    BY <1>3, <2>1, <2>2, <2>3 DEF CloseFold, Recs
  <2>6. PICK gs : gs = CloseFold(fs, f) /\ Len(gs) = Len(fs)
    BY CloseFoldProperties
  <2>7. \A k \in 1 .. Len(fs) : gs[k] = IF k = f THEN r ELSE fs[k]
    BY <2>1, <2>5, <2>6, ExceptSeq DEF FoldersOK
  <2>8. \A k \in 1 .. Len(fs) : fs[k].n \in Nat
    BY <1>1 DEF Recs
  <2>9. SameFiles(fs, gs)
    BY <2>2, <2>4, <2>6, <2>7 DEF SameFiles
  <2>10. \A k \in 1 .. Len(fs) : /\ gs[k].n = fs[k].n + IF k = f /\ ~fs[k].closed THEN 1 ELSE 0
                                 /\ k = f => gs[k].closed
    BY <1>3, <2>2, <2>4, <2>7, <2>8
  <2> QED BY <2>6, <2>9, <2>10
<1> QED BY <1>2, <1>3

\* And to the body, when it is the last folder or closed.
LEMMA CloseBody ==
    ASSUME NEW fs, FoldersOK(fs), NEW f \in 0 .. Len(fs), ~Concurrent,
           f # 0 => f = Len(fs) \/ fs[f].closed
    PROVE  BodyOf(CloseFold(fs, f)) = BodyOf(fs) \o FlushFold(fs, f)
<1>1. PICK m \in Nat : m = Len(fs)
  BY LenProperties DEF FoldersOK
<1>2. \A k \in 1 .. m : fs[k].n \in Nat
  <2>1. \A k \in 1 .. m : fs[k] \in Recs
    BY <1>1, ElementOfSeq DEF FoldersOK
  <2> QED BY <2>1 DEF Recs
<1>3. CASE f = 0 \/ fs[f].closed
  <2>1. CloseFold(fs, f) = fs /\ FlushFold(fs, f) = <<>>
    BY <1>3 DEF CloseFold, FlushFold
  <2>2. PICK c : /\ c = [k \in 1 .. Len(fs) |-> Copies(fs[k].n, k)]
                 /\ c \in Seq(Seq(Nat))
    BY <1>1, <1>2, ChunksOf
  <2>3. BodyOf(fs) \in Seq(Nat)
    BY <2>2, FlattenType DEF BodyOf
  <2> QED BY <2>1, <2>3, ConcatEmptySeq
<1>4. CASE ~(f = 0 \/ fs[f].closed)
  <2>1. f = m /\ m # 0 /\ m \in 1 .. m
    BY <1>1, <1>4
  <2>2. PICK gs : gs = CloseFold(fs, f) /\ Len(gs) = m
    BY <1>1, CloseFoldProperties
  <2>3. \A k \in 1 .. m : gs[k].n = fs[k].n + IF k = f /\ ~fs[k].closed THEN 1 ELSE 0
    BY <1>1, <2>2, CloseFoldIs
  <2>4. gs[m].n = fs[m].n + 1
    BY <1>4, <2>1, <2>3
  <2>5. \A k \in 1 .. m - 1 : gs[k].n = fs[k].n
    <3>1. \A k \in 1 .. m - 1 : k \in 1 .. m /\ k # f
      BY <2>1
    <3> QED BY <1>2, <2>3, <3>1
  <2>6. BodyOf(gs) = BodyOf(fs) \o Copies(1, m)
    <3>1. PICK d \in Nat : d = 1
      OBVIOUS
    <3>2. m \in Nat /\ m # 0 /\ m = Len(fs) /\ m = Len(gs) /\ gs[m].n = fs[m].n + d
      BY <1>1, <2>1, <2>2, <2>4, <3>1
    <3>3. MoreChunks(fs, gs, m, d)
      BY ONLY d \in Nat, <1>2, <2>5, <3>2 DEF MoreChunks
    <3>4. BodyOf(gs) = BodyOf(fs) \o Copies(d, m)
      BY ONLY <3>3, BodyLast
    <3> QED BY <3>1, <3>4
  <2>7. FlushFold(fs, f) = Copies(1, m)
    BY <1>4, <2>1 DEF FlushFold, Direct, Copies
  <2> QED BY <2>2, <2>6, <2>7
<1> QED BY <1>3, <1>4

\* Replacing a folder by one with the same files and units.
LEMMA SameReplaced ==
    ASSUME NEW fs, FoldersOK(fs), NEW f \in 1 .. Len(fs), NEW r \in Recs,
           r.files = fs[f].files, r.data = fs[f].data, fs[f].closed => r.closed,
           NEW gs, gs = [fs EXCEPT ![f] = r]
    PROVE  /\ SameFiles(fs, gs)
           /\ \A k \in 1 .. Len(fs) : gs[k] = IF k = f THEN r ELSE fs[k]
<1>1. /\ Len(gs) = Len(fs)
      /\ \A k \in 1 .. Len(fs) : gs[k] = IF k = f THEN r ELSE fs[k]
  BY ExceptSeq DEF FoldersOK
<1> QED BY <1>1 DEF SameFiles

\* What a write of chunks leaves alone.
LEMMA SpoolWritesKeep ==
    ASSUME NEW r \in Recs, r.kept <= r.n, NEW k \in {0, 1}, NEW g \in SpoolWrites(r, k)
    PROVE  g \in Recs /\ g.files = r.files /\ g.data = r.data /\ g.closed = r.closed /\ g.n = r.n + k
<1>1. g \in Recs
  BY SpoolWritesProperties
<1> QED BY <1>1 DEF SpoolWrites, Recs

\* And a write that fails.
LEMMA SpoolFailsKeep ==
    ASSUME NEW r \in Recs, r.kept <= r.n, NEW g \in SpoolFails(r)
    PROVE  /\ g \in Recs /\ g.files = r.files /\ g.data = r.data /\ g.closed = r.closed
           /\ \E d \in {0, 1} : g.n = r.n + d /\ g.n - r.n = d
<1>1. g \in Recs /\ g.n - r.n \in {0, 1}
  BY SpoolFailsProperties
<1>2. g.n \in Nat /\ r.n \in Nat
  BY <1>1 DEF Recs
<1>3. \E d \in {0, 1} : g.n = r.n + d /\ g.n - r.n = d
  BY <1>1, <1>2
<1>4. CASE g = r
  BY <1>1, <1>3, <1>4
<1>5. CASE g \in SpoolWrites(r, 1)
  BY <1>1, <1>3, <1>5, SpoolWritesKeep
<1>6. CASE \E h \in SpoolWrites(r, 1) : g = [h EXCEPT !.n = r.n, !.kept = @ - 1]
  <2>1. PICK h \in SpoolWrites(r, 1) : g = [h EXCEPT !.n = r.n, !.kept = @ - 1]
    BY <1>6
  <2>2. h \in Recs /\ h.files = r.files /\ h.data = r.data /\ h.closed = r.closed
    BY SpoolWritesKeep
  <2>3. g.files = h.files /\ g.data = h.data /\ g.closed = h.closed
    BY <2>1, <2>2 DEF Recs
  <2> QED BY <1>1, <1>3, <2>2, <2>3
<1> QED BY <1>4, <1>5, <1>6 DEF SpoolFails

-----------------------------------------------------------------------------
(* What the steps do to the books.                                         *)

\* No folder is changed.
LEMMA SameAsBefore ==
    ASSUME NEW fs, NEW gs, gs = fs
    PROVE  SameFiles(fs, gs)
BY DEF SameFiles

\* Folder f, and no other, has d chunks more, which went to the archive at once.
Chunks(f, d) ==
    /\ folders'[f].n = folders[f].n + d
    /\ \A k \in 1 .. Len(folders) : k # f => folders'[k].n = folders[k].n
    /\ out' = out \o Direct(f, d)

\* A folder is closed, with or without its last chunk.
LEMMA SameClosed ==
    ASSUME TypeOK, NEW f \in 1 .. Len(folders), CloseFoldFails(f)
    PROVE  /\ SameFiles(folders, folders') /\ folders'[f].closed
           /\ \E d \in {0, 1} : Chunks(f, d)
           /\ \A k \in 1 .. Len(folders) : k # f => folders'[k] = folders[k]
<1>1. PICK o \in Recs : o = folders[f] /\ o.kept <= o.n
  BY FolderTypes
<1>2. PICK fo \in SpoolFails(o) :
         /\ folders' = [folders EXCEPT ![f] = [fo EXCEPT !.closed = TRUE, !.torn = TRUE]]
         /\ out' = out \o Emitted(f, fo)
  BY <1>1 DEF CloseFoldFails
<1>3. /\ fo \in Recs /\ fo.files = o.files /\ fo.data = o.data /\ fo.closed = o.closed
      /\ \E d \in {0, 1} : fo.n = o.n + d /\ fo.n - o.n = d
  BY <1>1, <1>2, SpoolFailsKeep
<1>4. PICK d \in {0, 1} : fo.n = o.n + d /\ fo.n - o.n = d
  BY <1>3
<1>5. PICK r : r = [fo EXCEPT !.closed = TRUE, !.torn = TRUE]
  OBVIOUS
<1>6. r \in Recs /\ r.files = o.files /\ r.data = o.data /\ r.closed /\ r.n = o.n + d
  BY <1>3, <1>4, <1>5 DEF Recs
<1>7. PICK fs, gs : fs = folders /\ gs = folders'
  OBVIOUS
<1>8. FoldersOK(fs) /\ f \in 1 .. Len(fs) /\ gs = [fs EXCEPT ![f] = r]
  BY <1>2, <1>5, <1>7, FolderTypes
<1>9. r \in Recs /\ r.files = fs[f].files /\ r.data = fs[f].data /\ (fs[f].closed => r.closed)
  BY <1>1, <1>6, <1>7
<1>10. SameFiles(fs, gs)
  BY ONLY <1>8, <1>9, SameReplaced
<1>11. \A k \in 1 .. Len(fs) : gs[k] = IF k = f THEN r ELSE fs[k]
  BY ONLY <1>8, <1>9, SameReplaced
<1>12. out' = out \o Direct(f, d)
  BY <1>1, <1>2, <1>4 DEF Emitted
<1>13. Chunks(f, d)
  BY <1>1, <1>6, <1>7, <1>11, <1>12 DEF Chunks
<1> QED BY <1>6, <1>7, <1>10, <1>11, <1>13

\* The last chunk of a spool.
LEMMA SameSpoolClosed ==
    ASSUME TypeOK, NEW f \in 1 .. Len(folders), NEW fo \in SpoolWrites(folders[f], 1),
           folders' = [folders EXCEPT ![f] = [fo EXCEPT !.closed = TRUE]]
    PROVE  /\ SameFiles(folders, folders') /\ folders'[f].closed
           /\ \A k \in 1 .. Len(folders) : k # f => folders'[k] = folders[k]
<1>1. PICK o \in Recs : o = folders[f] /\ o.kept <= o.n
  BY FolderTypes
<1>2. fo \in Recs /\ fo.files = o.files /\ fo.data = o.data
  BY <1>1, SpoolWritesKeep
<1>3. PICK r : r = [fo EXCEPT !.closed = TRUE]
  OBVIOUS
<1>4. r \in Recs /\ r.files = o.files /\ r.data = o.data /\ r.closed
  BY <1>2, <1>3 DEF Recs
<1>5. PICK fs, gs : fs = folders /\ gs = folders' /\ FoldersOK(fs) /\ f \in 1 .. Len(fs)
  BY FolderTypes
<1>6. FoldersOK(fs) /\ f \in 1 .. Len(fs) /\ gs = [fs EXCEPT ![f] = r]
  BY <1>3, <1>5
<1>7. r \in Recs /\ r.files = fs[f].files /\ r.data = fs[f].data /\ (fs[f].closed => r.closed)
  BY <1>1, <1>4, <1>5
<1>8. SameFiles(fs, gs)
  BY ONLY <1>6, <1>7, SameReplaced
<1>9. \A k \in 1 .. Len(fs) : gs[k] = IF k = f THEN r ELSE fs[k]
  BY ONLY <1>6, <1>7, SameReplaced
<1> QED BY <1>4, <1>5, <1>8, <1>9

\* A spool is closed.
LEMMA SameCopied ==
    ASSUME TypeOK, NEW f \in 1 .. Len(folders), folders' = [folders EXCEPT ![f].spool = "closed"]
    PROVE  SameFiles(folders, folders')
<1>1. PICK o \in Recs : o = folders[f]
  BY FolderTypes
<1>2. PICK r : r = [o EXCEPT !.spool = "closed"]
  OBVIOUS
<1>3. r \in Recs /\ r.files = o.files /\ r.data = o.data /\ r.closed = o.closed
  BY <1>2 DEF Recs, SpoolStates
<1>4. folders' = [folders EXCEPT ![f] = r]
  BY <1>1, <1>2
<1>5. PICK fs, gs : fs = folders /\ gs = folders' /\ FoldersOK(fs) /\ f \in 1 .. Len(fs)
  BY FolderTypes
<1>6. FoldersOK(fs) /\ f \in 1 .. Len(fs) /\ gs = [fs EXCEPT ![f] = r]
  BY <1>4, <1>5
<1>7. r \in Recs /\ r.files = fs[f].files /\ r.data = fs[f].data /\ (fs[f].closed => r.closed)
  BY <1>1, <1>3, <1>5
<1>8. SameFiles(fs, gs)
  BY ONLY <1>6, <1>7, SameReplaced
<1> QED BY <1>5, <1>8

\* A folder's last chunk, if it has not been written yet.
LEMMA SameFlushed ==
    ASSUME TypeOK, NEW f \in 0 .. Len(folders), folders' = CloseFold(folders, f)
    PROVE  SameFiles(folders, folders') /\ (f # 0 => folders'[f].closed)
<1>1. PICK fs, gs : fs = folders /\ gs = folders' /\ FoldersOK(fs) /\ f \in 0 .. Len(fs)
  BY FolderTypes
<1>2. /\ SameFiles(fs, gs)
      /\ \A k \in 1 .. Len(fs) : k = f => gs[k].closed
  BY <1>1, CloseFoldIs
<1>3. f # 0 => f \in 1 .. Len(fs)
  BY <1>1
<1> QED BY <1>1, <1>2, <1>3

\* The fileWriters that an implicit close leaves, and those it closes.
LEMMA ImplicitFiles ==
    ASSUME TypeOK, NEW j, NEW p \in FilePcs, AfterImplicitClose(j, p), NEW i \in Jobs, i # j
    PROVE  /\ pc'[i] = IF ImplicitlyClosed(i) THEN "done" ELSE pc[i]
           /\ size'[i] = IF ImplicitlyClosed(i) THEN written[i] ELSE size[i]
           /\ ImplicitlyClosed(i) => pc[i] = "open"
           /\ pc'[i] = "none" <=> pc[i] = "none"
           /\ pc'[i] = "open" => pc[i] = "open"
           /\ pc[i] = "error" => pc'[i] = "error"
BY DEF AfterImplicitClose, ImplicitlyClosed

\* A fileWriter past the close of its folder.
PastFold == {"done", "error", "sending", "publishing"}

\* A closed file has its size, and but in the solid mode a closed folder.
Finished ==
    /\ \A j \in Jobs : pc[j] = "done" => size[j] = written[j]
    /\ ~opt.solid => \A j \in Jobs : pc[j] \in PastFold /\ fold[j] # 0 => folders[fold[j]].closed

\* Steps that create no file and write no unit.
Plain ==
    /\ UNCHANGED <<opt, files, fold, written>>
    /\ SameFiles(folders, folders')
    /\ \A j \in Jobs :
          /\ pc'[j] = "none" <=> pc[j] = "none"
          /\ pc'[j] = "open" => pc[j] = "open"
          /\ pc[j] = "error" => pc'[j] = "error"
          /\ pc'[j] = "done" => size'[j] = written[j] \/ (pc[j] = "done" /\ size'[j] = size[j])
          /\ pc'[j] \in PastFold /\ fold[j] # 0 /\ ~opt.solid =>
                pc[j] \in PastFold \/ folders'[fold[j]].closed

\* They keep the books.
LEMMA PlainKeeps ==
    ASSUME TypeOK, Books, Finished, Plain
    PROVE  Books' /\ Finished'
<1>1. Books'
  BY BooksStay DEF Plain
<1>2. \A j \in Jobs : pc'[j] = "done" => size'[j] = written'[j]
  BY DEF Plain, Finished
<1>3. ASSUME ~opt.solid, NEW j \in Jobs, pc'[j] \in PastFold, fold[j] # 0
      PROVE  folders'[fold[j]].closed
  <2>1. fold[j] \in 1 .. Len(folders)
    BY <1>3, FolderTypes DEF TypeOK
  <2>2. CASE pc[j] \in PastFold
    <3>1. folders[fold[j]].closed
      BY <1>3, <2>2 DEF Finished
    <3> QED BY <2>1, <3>1 DEF Plain, SameFiles
  <2>3. CASE pc[j] \notin PastFold
    BY <1>3, <2>3 DEF Plain
  <2> QED BY <2>2, <2>3
<1>4. Finished'
  BY <1>2, <1>3 DEF Plain, Finished
<1> QED BY <1>1, <1>4

\* Steps of the coordinator, and most of Writer.Close.
LEMMA PlainQuiet ==
    ASSUME UNCHANGED <<opt, files, fold, written, folders, pc, size>>
    PROVE  Plain
BY SameAsBefore DEF Plain

\* The coordinator copies a spool.
LEMMA PlainCopy ==
    ASSUME TypeOK, CoordCopy
    PROVE  Plain
<1>1. coord.seq \in coord.map
  BY DEF CoordCopy
<1>2. PICK f \in 1 .. Len(folders) : f = coord.seq
  BY <1>1 DEF TypeOK
<1>3. folders' = [folders EXCEPT ![f].spool = "closed"]
  BY <1>2 DEF CoordCopy
<1>4. SameFiles(folders, folders')
  BY <1>3, SameCopied
<1>5. UNCHANGED <<opt, files, fold, written, pc, size>>
  BY DEF CoordCopy, fileVars
<1> QED BY <1>4, <1>5 DEF Plain

\* A fileWriter.Close that does not touch its folder.
LEMMA PlainFile ==
    ASSUME Inv, NEW j \in Jobs, FileClose(j) \/ FileSend(j) \/ FilePublish(j)
    PROVE  Plain
<1>1. TypeOK /\ Control
  BY InvParts
<1>2. /\ UNCHANGED <<opt, files, fold, written, folders>>
      /\ \A i \in Jobs : i # j => pc'[i] = pc[i] /\ size'[i] = size[i]
  BY <1>1 DEF FileClose, FileSend, FilePublish, writerVars, TypeOK
<1>3. SameFiles(folders, folders')
  BY <1>2, SameAsBefore
<1>4. CASE FileClose(j)
  <2>1. /\ pc[j] = "open"
        /\ pc'[j] = IF fold[j] = 0 THEN "publishing" ELSE "folding"
    BY <1>1, <1>4 DEF FileClose, TypeOK
  <2> QED BY <1>2, <1>3, <2>1 DEF Plain, PastFold
<1>5. CASE FileSend(j)
  <2>1. pc[j] = "sending" /\ pc'[j] \in {"publishing", "panic"}
    BY <1>1, <1>5 DEF FileSend, TypeOK
  <2> QED BY <1>2, <1>3, <2>1 DEF Plain, PastFold
<1>6. CASE FilePublish(j)
  <2>1. pc[j] = "publishing" /\ pc'[j] = "done" /\ size'[j] = written[j]
    BY <1>1, <1>6 DEF FilePublish, TypeOK
  <2> QED BY <1>2, <1>3, <2>1 DEF Plain, PastFold
<1> QED BY <1>4, <1>5, <1>6

\* A fileWriter.Close that closes its folder, or fails to.
LEMMA PlainFold ==
    ASSUME Inv, NEW j \in Jobs, FileCloseFold(j) \/ FoldCloseFails(j)
    PROVE  Plain
<1>1. TypeOK /\ Control
  BY InvParts
<1>2. /\ UNCHANGED <<opt, files, fold, written, size>>
      /\ \A i \in Jobs : i # j => pc'[i] = pc[i]
  BY <1>1 DEF FileCloseFold, FoldCloseFails, TypeOK
<1>3. CASE FileCloseFold(j)
  <2>1. PICK f \in 1 .. Len(folders) : f = fold[j]
    <3>1. fold[j] # 0
      BY <1>1, <1>3 DEF FileCloseFold, Control, Folded
    <3> QED BY <1>1, <3>1, FolderTypes DEF TypeOK
  <2>2. PICK fo \in SpoolWrites(folders[f], 1) :
           folders' = [folders EXCEPT ![f] = [fo EXCEPT !.closed = TRUE]]
    BY <1>3, <2>1 DEF FileCloseFold
  <2>3. SameFiles(folders, folders') /\ folders'[fold[j]].closed
    BY <1>1, <2>1, <2>2, SameSpoolClosed
  <2>4. pc[j] = "folding" /\ pc'[j] = "sending"
    BY <1>1, <1>3 DEF FileCloseFold, TypeOK
  <2> QED BY <1>2, <2>3, <2>4 DEF Plain, PastFold
<1>4. CASE FoldCloseFails(j)
  <2>1. PICK f \in 1 .. Len(folders) : f = fold[j]
    <3>1. fold[j] # 0
      BY <1>4 DEF FoldCloseFails
    <3> QED BY <1>1, <3>1, FolderTypes DEF TypeOK
  <2>2. CloseFoldFails(f)
    BY <1>4, <2>1 DEF FoldCloseFails
  <2>3. SameFiles(folders, folders') /\ folders'[fold[j]].closed
    BY <1>1, <2>1, <2>2, SameClosed
  <2>4. pc[j] \in {"folding", "open"} /\ pc'[j] = "error"
    BY <1>1, <1>4 DEF FoldCloseFails, TypeOK
  <2> QED BY <1>2, <2>3, <2>4 DEF Plain, PastFold
<1> QED BY <1>3, <1>4

\* The implicit close of the current file fails.
LEMMA PlainCreateFails ==
    ASSUME Inv, NEW j \in Jobs, CreateFails(j)
    PROVE  Plain
<1>1. TypeOK
  BY InvParts
<1>2. /\ CurrentFold # 0
      /\ pc' = [pc EXCEPT ![current] = "error"]
      /\ CloseFoldFails(CurrentFold)
      /\ UNCHANGED <<opt, files, fold, written, size>>
  BY DEF CreateFails
<1>3. current \in Jobs /\ pc[current] = "open" /\ CurrentFold = fold[current]
  BY <1>1, <1>2 DEF CurrentFold, ClosesCurrent, TypeOK
<1>4. PICK f \in 1 .. Len(folders) : f = CurrentFold /\ f = fold[current]
  BY <1>1, <1>2, <1>3, FolderTypes DEF TypeOK
<1>5. CloseFoldFails(f)
  BY <1>2, <1>4
<1>6. SameFiles(folders, folders') /\ folders'[f].closed
  BY <1>1, <1>5, SameClosed
<1>7. pc'[current] = "error" /\ \A i \in Jobs : i # current => pc'[i] = pc[i]
  BY <1>1, <1>2, <1>3 DEF TypeOK
<1> QED BY <1>2, <1>3, <1>4, <1>6, <1>7 DEF Plain, PastFold

\* fileWriter.Close in the sequential and solid modes.
LEMMA PlainFileNow ==
    ASSUME Inv, NEW j \in Jobs, CloseFileNow(j)
    PROVE  Plain
<1>1. TypeOK
  BY InvParts
<1>2. PICK f \in 0 .. Len(folders) : f = IF opt.solid THEN 0 ELSE fold[j]
  <2>1. fold[j] \in 0 .. Len(folders) /\ 0 \in 0 .. Len(folders)
    BY <1>1, FolderTypes DEF TypeOK
  <2> QED BY <2>1
<1>3. /\ pc[j] = "open" /\ pc' = [pc EXCEPT ![j] = "done"]
      /\ folders' = CloseFold(folders, f)
      /\ size' = [size EXCEPT ![j] = written[j]]
      /\ UNCHANGED <<opt, files, fold, written>>
  BY <1>2 DEF CloseFileNow
<1>4. SameFiles(folders, folders') /\ (f # 0 => folders'[f].closed)
  BY <1>1, <1>3, SameFlushed
<1>5. /\ pc'[j] = "done" /\ size'[j] = written[j]
      /\ \A i \in Jobs : i # j => pc'[i] = pc[i] /\ size'[i] = size[i]
  BY <1>1, <1>3 DEF TypeOK
<1> QED BY <1>2, <1>3, <1>4, <1>5 DEF Plain, PastFold

\* Writer.Close closes the current file, and in the solid mode the folder.
LEMMA PlainCurrentNow ==
    ASSUME Inv, CloseCurrentNow
    PROVE  /\ Plain
           /\ LET f == IF opt.solid THEN active ELSE CurrentFold
              IN  /\ f \in 0 .. Len(folders)
                  /\ f # 0 => folders'[f].closed
<1>1. TypeOK
  BY InvParts
<1>2. /\ AfterImplicitClose(NoJob, "done")
      /\ folders' = CloseFold(folders, IF opt.solid THEN active ELSE CurrentFold)
      /\ UNCHANGED <<opt, files, fold, written>>
  BY DEF CloseCurrentNow
<1>3. "done" \in FilePcs
  BY DEF FilePcs
<1>4. PICK f \in 0 .. Len(folders) : f = IF opt.solid THEN active ELSE CurrentFold
  <2>1. CurrentFold \in 0 .. Len(folders)
    BY <1>1, <1>2, <1>3, ImplicitClose
  <2> QED BY <1>1, <2>1 DEF TypeOK
<1>5. SameFiles(folders, folders') /\ (f # 0 => folders'[f].closed)
  BY <1>1, <1>2, <1>4, SameFlushed
<1>6. ASSUME NEW i \in Jobs
      PROVE  /\ pc'[i] = IF ImplicitlyClosed(i) THEN "done" ELSE pc[i]
             /\ size'[i] = IF ImplicitlyClosed(i) THEN written[i] ELSE size[i]
             /\ pc'[i] = "none" <=> pc[i] = "none"
             /\ pc'[i] = "open" => pc[i] = "open"
             /\ pc[i] = "error" => pc'[i] = "error"
  <2>1. i # NoJob
    BY JobsAssumption
  <2> QED BY <1>1, <1>2, <1>3, <2>1, ImplicitFiles
<1>7. ASSUME NEW i \in Jobs, pc'[i] \in PastFold, fold[i] # 0, ~opt.solid
      PROVE  pc[i] \in PastFold \/ folders'[fold[i]].closed
  <2>1. CASE ~ImplicitlyClosed(i)
    BY <1>6, <1>7, <2>1
  <2>2. CASE ImplicitlyClosed(i)
    <3>1. CurrentFold = fold[i]
      BY <1>7, <2>2 DEF ImplicitlyClosed, CurrentFold
    <3> QED BY <1>4, <1>5, <1>7, <3>1
  <2> QED BY <2>1, <2>2
<1>8. Plain
  BY <1>2, <1>5, <1>6, <1>7 DEF Plain
<1> QED BY <1>4, <1>5, <1>8

\* Writer.Close fails to close the last folder.
LEMMA PlainCurrentFails ==
    ASSUME Inv, CloseCurrentFails
    PROVE  Plain
<1>1. TypeOK
  BY InvParts
<1>2. PICK f : f = IF opt.solid THEN active ELSE CurrentFold
  OBVIOUS
<1>3. /\ f # 0 /\ CloseFoldFails(f)
      /\ UNCHANGED <<opt, files, fold, written, pc, size>>
  BY <1>2 DEF CloseCurrentFails, fileVars
<1>4. f \in 1 .. Len(folders)
  <2>1. PICK m \in Nat : m = Len(folders)
    BY <1>1, FolderTypes
  <2>2. /\ active \in 0 .. m
        /\ \A i \in Jobs : fold[i] \in 0 .. m
        /\ current \in Jobs \cup {NoJob}
    BY <1>1, <2>1 DEF TypeOK
  <2>3. CurrentFold \in 0 .. m
    BY <2>2 DEF CurrentFold, ClosesCurrent
  <2> QED BY <1>2, <1>3, <2>1, <2>2, <2>3
<1>5. SameFiles(folders, folders')
  BY <1>1, <1>3, <1>4, SameClosed
<1> QED BY <1>3, <1>5 DEF Plain

\* Writer.Close starts the Close of the current file.
LEMMA PlainCurrent ==
    ASSUME Inv, CloseCurrent
    PROVE  Plain
<1>1. TypeOK
  BY InvParts
<1>2. UNCHANGED <<opt, files, fold, written, folders, size>>
  BY DEF CloseCurrent, writerVars
<1>3. SameFiles(folders, folders')
  BY <1>2, SameAsBefore
<1>4. ASSUME NEW i \in Jobs
      PROVE  \/ pc'[i] = pc[i]
             \/ pc[i] = "open" /\ pc'[i] = IF fold[i] = 0 THEN "publishing" ELSE "folding"
  BY <1>1 DEF CloseCurrent, TypeOK
<1> QED BY <1>2, <1>3, <1>4 DEF Plain, PastFold

-----------------------------------------------------------------------------
(* The steps of CreateHeader and of fileWriter.                            *)

\* A file created, with the implicit close of the one before.
LEMMA FinishedMore ==
    ASSUME TypeOK, Folded, Finished, NEW j \in Jobs, pc[j] = "none", NEW p \in {"open", "error"},
           AfterImplicitClose(j, p), opt' = opt, written' = written,
           \A i \in Jobs : i # j => fold'[i] = fold[i], p = "error" => fold' = fold,
           \A k \in 1 .. Len(folders) :
              folders[k].closed \/ k = CurrentFold => folders'[k].closed
    PROVE  Finished'
<1>1. p \in FilePcs
  BY DEF FilePcs
<1>2. pc'[j] = p
  BY <1>1, ImplicitClose
<1>3. ASSUME NEW i \in Jobs, i # j
      PROVE  /\ pc'[i] = IF ImplicitlyClosed(i) THEN "done" ELSE pc[i]
             /\ size'[i] = IF ImplicitlyClosed(i) THEN written[i] ELSE size[i]
  BY <1>1, <1>3, ImplicitFiles
<1>4. ASSUME NEW i \in Jobs, pc'[i] = "done"
      PROVE  size'[i] = written'[i]
  <2>1. i # j
    BY <1>2, <1>4
  <2> QED BY <1>3, <1>4, <2>1 DEF Finished
<1>5. ASSUME ~opt.solid, NEW i \in Jobs, pc'[i] \in PastFold, fold'[i] # 0
      PROVE  folders'[fold'[i]].closed
  <2>1. CASE i = j
    <3>1. p = "error"
      BY <1>2, <1>5, <2>1 DEF PastFold
    <3>2. fold'[i] = 0
      BY <2>1, <3>1 DEF Folded
    <3> QED BY <1>5, <3>2
  <2>2. CASE i # j
    <3>1. PICK k \in 1 .. Len(folders) : k = fold[i] /\ k = fold'[i]
      <4>1. fold[i] \in 0 .. Len(folders) /\ fold[i] # 0 /\ fold'[i] = fold[i] /\ Len(folders) \in Nat
        BY <1>5, <2>2, FolderTypes DEF TypeOK
      <4> QED BY <4>1
    <3>2. CASE ImplicitlyClosed(i)
      <4>1. CurrentFold = k
        BY <1>5, <3>1, <3>2 DEF ImplicitlyClosed, CurrentFold
      <4> QED BY <3>1, <4>1
    <3>3. CASE ~ImplicitlyClosed(i)
      <4>1. pc[i] \in PastFold
        BY <1>3, <1>5, <2>2, <3>3
      <4> QED BY <1>5, <3>1, <4>1 DEF Finished
    <3> QED BY <3>2, <3>3
  <2> QED BY <2>1, <2>2
<1>6. opt'.solid = opt.solid
  OBVIOUS
<1> QED BY <1>4, <1>5, <1>6 DEF Finished

\* CreateHeader for a directory, or for a file whose folder cannot be made.
LEMMA CreateWithoutBooks ==
    ASSUME Inv, Books, Finished, NEW j \in Jobs, CreateDir(j) \/ SetupFails(j)
    PROVE  Books' /\ Finished'
<1>1. TypeOK /\ Folded
  BY InvParts DEF Control
<1>2. PICK p \in {"open", "error"} :
         /\ AfterImplicitClose(j, p) /\ (j \notin Dirs => p = "error")
  BY DEF CreateDir, SetupFails
<1>3. /\ pc[j] = "none"
      /\ folders' = CloseFold(folders, CurrentFold) /\ files' = Append(files, j)
      /\ UNCHANGED <<opt, fold, written>>
  BY DEF CreateDir, SetupFails
<1>4. p \in FilePcs
  BY DEF FilePcs
<1>5. PICK f \in 0 .. Len(folders) : f = CurrentFold
  BY <1>1, <1>2, <1>4, ImplicitClose
<1>6. SameFiles(folders, folders') /\ (f # 0 => folders'[f].closed)
  BY <1>1, <1>3, <1>5, SameFlushed
<1>7. pc'[j] = p
  BY <1>1, <1>2, <1>4, ImplicitClose
<1>8. ASSUME NEW i \in Jobs, i # j
      PROVE  /\ pc'[i] = "none" <=> pc[i] = "none"
             /\ pc'[i] = "open" => pc[i] = "open"
             /\ pc[i] = "error" => pc'[i] = "error"
  BY <1>1, <1>2, <1>4, <1>8, ImplicitFiles
<1>9. Books'
  BY <1>1, <1>2, <1>3, <1>6, <1>7, <1>8, BooksWithout
<1>10. ASSUME NEW k \in 1 .. Len(folders), folders[k].closed \/ k = CurrentFold
       PROVE  folders'[k].closed
  BY <1>5, <1>6, <1>10 DEF SameFiles
<1>11. Finished'
  BY <1>1, <1>2, <1>3, <1>10, FinishedMore
<1> QED BY <1>9, <1>11

\* Only the last file created is open in the sequential and solid modes; the folder it is
\* in is the last one, and their chunks are in the archive, folder after folder.
Sequential ==
    ~Concurrent =>
        /\ wpc \in {"open", "current", "header", "signature", "ok", "err"}
        /\ \A j \in Jobs : pc[j] \in {"none", "open", "done", "error"}
        /\ \A j \in Jobs : pc[j] = "open" => /\ j = current /\ fold[j] \in {0, Len(folders)}
                                             /\ wpc \in {"open", "current", "err"}
        /\ wpc \in {"open", "current"} => active = Len(folders)
        /\ out = BodyOf(folders)
        /\ opt.solid /\ wpc \in {"header", "signature", "ok"} =>
              \A k \in 1 .. Len(folders) : folders[k].closed

\* The folders as CreateHeader leaves them for the new file.
Readied(f, v, cs, rs) ==
    /\ f = CurrentFold
    /\ v = IF (active = 0 \/ ~opt.solid) /\ active # 0 /\ ~Concurrent THEN active ELSE 0
    /\ cs = CloseFold(folders, f) /\ rs = CloseFold(cs, v)
    /\ FoldersOK(cs) /\ FoldersOK(rs)
    /\ SameFiles(folders, cs) /\ SameFiles(cs, rs)
    /\ f # 0 => cs[f].closed

\* CreateHeader leaves them so, with the chunks of the folders it closed in the body.
LEMMA CreateFileReadies ==
    ASSUME Inv, NEW j \in Jobs, CreateFile(j)
    PROVE  \E f, v \in 0 .. Len(folders) : \E cs, rs :
              /\ Readied(f, v, cs, rs)
              /\ out' = out \o FlushFold(folders, f) \o FlushFold(cs, v)
              /\ folders' = IF active = 0 \/ ~opt.solid THEN Append(rs, NewFolder(j))
                            ELSE [rs EXCEPT ![active].files = Append(@, j)]
<1>1. TypeOK
  BY InvParts
<1>2. AfterImplicitClose(j, "open") /\ "open" \in FilePcs
  BY DEF CreateFile, FilePcs
<1>3. PICK f \in 0 .. Len(folders) : f = CurrentFold
  BY <1>1, <1>2, ImplicitClose
<1>4. PICK v \in 0 .. Len(folders) :
         v = IF (active = 0 \/ ~opt.solid) /\ active # 0 /\ ~Concurrent THEN active ELSE 0
  <2>1. active \in 0 .. Len(folders) /\ 0 \in 0 .. Len(folders)
    BY <1>1, FolderTypes DEF TypeOK
  <2> QED BY <2>1
<1>5. PICK cs : cs = CloseFold(folders, f)
  OBVIOUS
<1>6. PICK rs : rs = CloseFold(cs, v)
  OBVIOUS
<1>7. FoldersOK(folders)
  BY <1>1, FolderTypes
<1>8. FoldersOK(cs) /\ Len(cs) = Len(folders)
  BY <1>5, <1>7, CloseFoldProperties
<1>9. /\ SameFiles(folders, cs)
      /\ \A k \in 1 .. Len(folders) : k = f => cs[k].closed
  BY <1>5, <1>7, CloseFoldIs
<1>10. f # 0 => cs[f].closed
  <2>1. f # 0 => f \in 1 .. Len(folders)
    BY <1>1, FolderTypes
  <2> QED BY <1>9, <2>1
<1>11. FoldersOK(rs) /\ SameFiles(cs, rs)
  <2>1. v \in 0 .. Len(cs)
    BY <1>8
  <2>2. FoldersOK(rs)
    BY <1>6, <1>8, <2>1, CloseFoldProperties
  <2>3. SameFiles(cs, rs)
    BY <1>6, <1>8, <2>1, CloseFoldIs
  <2> QED BY <2>2, <2>3
<1>12. Readied(f, v, cs, rs)
  BY <1>3, <1>4, <1>5, <1>6, <1>8, <1>9, <1>10, <1>11 DEF Readied
<1>13. out' = out \o FlushFold(folders, f) \o FlushFold(cs, v)
  BY <1>3, <1>4, <1>5 DEF CreateFile
<1>14. folders' = IF active = 0 \/ ~opt.solid THEN Append(rs, NewFolder(j))
                  ELSE [rs EXCEPT ![active].files = Append(@, j)]
  BY <1>3, <1>4, <1>5, <1>6 DEF CreateFile
<1> QED BY <1>12, <1>13, <1>14

\* A file in a folder of its own, or behind the others in the solid one.
LEMMA CreateFileBooks ==
    ASSUME Inv, Books, Finished, Sequential, NEW j \in Jobs, CreateFile(j)
    PROVE  Books' /\ Finished'
<1>1. TypeOK /\ Folded
  BY InvParts DEF Control
<1>2. /\ j \in Jobs \ Dirs /\ pc[j] = "none" /\ wpc = "open"
      /\ AfterImplicitClose(j, "open") /\ files' = Append(files, j)
      /\ UNCHANGED <<opt, written>>
      /\ fold' = [fold EXCEPT ![j] = active'] /\ "open" \in FilePcs
      /\ active' = IF active = 0 \/ ~opt.solid THEN Len(folders) + 1 ELSE active
  BY DEF CreateFile, FilePcs
<1>3. PICK f, v, cs, rs :
         /\ f \in 0 .. Len(folders) /\ v \in 0 .. Len(folders)
         /\ Readied(f, v, cs, rs)
         /\ folders' = IF active = 0 \/ ~opt.solid THEN Append(rs, NewFolder(j))
                       ELSE [rs EXCEPT ![active].files = Append(@, j)]
  BY CreateFileReadies
<1>4. PICK m \in Nat : m = Len(folders)
  BY <1>1, FolderTypes
<1>5. /\ FoldersOK(rs) /\ Len(rs) = m
      /\ \A k \in 1 .. m : /\ rs[k].files = folders[k].files /\ rs[k].data = folders[k].data
                           /\ folders[k].closed => rs[k].closed
  BY <1>3, <1>4 DEF Readied, SameFiles
<1>6. pc'[j] = "open"
  BY <1>1, <1>2, ImplicitClose
<1>7. ASSUME NEW i \in Jobs, i # j
      PROVE  /\ pc'[i] = IF ImplicitlyClosed(i) THEN "done" ELSE pc[i]
             /\ pc'[i] = "none" <=> pc[i] = "none"
             /\ pc'[i] = "open" => pc[i] = "open"
             /\ pc[i] = "error" => pc'[i] = "error"
             /\ fold'[i] = fold[i]
  <2>1. /\ pc'[i] = IF ImplicitlyClosed(i) THEN "done" ELSE pc[i]
        /\ pc'[i] = "none" <=> pc[i] = "none"
        /\ pc'[i] = "open" => pc[i] = "open"
        /\ pc[i] = "error" => pc'[i] = "error"
    BY <1>1, <1>2, <1>7, ImplicitFiles
  <2>2. fold'[i] = fold[i]
    BY <1>1, <1>2, <1>7 DEF TypeOK
  <2> QED BY <2>1, <2>2
<1>8. \A k \in 1 .. m : k = CurrentFold => rs[k].closed
  BY <1>3, <1>4 DEF Readied, SameFiles
<1>9. \A k \in 1 .. m : rs[k] \in Recs
  BY <1>5, ElementOfSeq DEF FoldersOK
<1>10. CASE active = 0 \/ ~opt.solid
  <2>1. folders' = Append(rs, NewFolder(j)) /\ fold' = [fold EXCEPT ![j] = m + 1]
    BY <1>2, <1>3, <1>4, <1>10
  <2>2. PICK gs : gs = folders'
    OBVIOUS
  <2>3. /\ Len(gs) = m + 1 /\ gs[m + 1] = NewFolder(j)
        /\ \A k \in 1 .. m : gs[k] = rs[k]
    <3>1. NewFolder(j) \in Recs
      BY EmptySeq DEF NewFolder, Recs, SpoolStates
    <3>2. rs \in Seq(Recs) /\ gs = Append(rs, NewFolder(j)) /\ Len(rs) = m
      BY <1>5, <2>1, <2>2 DEF FoldersOK
    <3> QED BY <3>1, <3>2, AppendProperties
  <2>4. gs[m + 1].files = <<j>> /\ gs[m + 1].data = <<>>
    BY <2>3 DEF NewFolder
  <2>5. opt.solid => m = 0
    BY <1>2, <1>4, <1>10 DEF Sequential, Concurrent
  <2>6. \A k \in 1 .. m : gs[k].files = folders[k].files /\ gs[k].data = folders[k].data
    BY <1>5, <2>3
  <2>7. Books'
    <3>1. /\ Len(folders') = m + 1 /\ folders'[m + 1].files = <<j>> /\ folders'[m + 1].data = <<>>
          /\ \A k \in 1 .. m : /\ folders'[k].files = folders[k].files
                               /\ folders'[k].data = folders[k].data
      BY <2>2, <2>3, <2>4, <2>6
    <3>2. j \in Jobs \ Dirs /\ pc[j] = "none" /\ files' = Append(files, j)
          /\ opt' = opt /\ written' = written
      BY <1>2
    <3>3. \A i \in Jobs : i # j => /\ pc'[i] = "none" <=> pc[i] = "none"
                                   /\ pc'[i] = "open" => pc[i] = "open"
                                   /\ pc[i] = "error" => pc'[i] = "error"
      BY <1>7
    <3> QED BY ONLY <1>1, <1>4, <1>6, Books, <2>1, <2>5, <3>1, <3>2, <3>3, BooksNewFolder
  <2>8. \A k \in 1 .. Len(folders) : folders[k].closed \/ k = CurrentFold => folders'[k].closed
    BY <1>4, <1>5, <1>8, <2>2, <2>3
  <2>9. Finished'
    BY <1>1, <1>2, <1>7, <2>8, FinishedMore
  <2> QED BY <2>7, <2>9
<1>11. CASE active # 0 /\ opt.solid
  <2>1. m = 1 /\ active = 1
    <3>1. ~Concurrent
      BY <1>11 DEF Concurrent
    <3> QED BY <1>2, <1>4, <1>11, <3>1 DEF Sequential, Books, Placed
  <2>2. PICK o \in Recs : o = rs[1] /\ o.files = folders[1].files /\ o.data = folders[1].data
    <3>1. 1 \in 1 .. m
      BY <2>1
    <3> QED BY <1>5, <1>9, <3>1
  <2>3. PICK r : r = [o EXCEPT !.files = Append(@, j)]
    OBVIOUS
  <2>4. r.files = Append(o.files, j) /\ r.data = o.data /\ r.closed = o.closed
    BY <2>3 DEF Recs
  <2>5. PICK gs : gs = folders' /\ gs = [rs EXCEPT ![1] = r]
    <3>1. folders' = [rs EXCEPT ![1].files = Append(@, j)]
      BY <1>3, <1>11, <2>1
    <3> QED BY <2>2, <2>3, <3>1
  <2>6. Len(gs) = 1 /\ gs[1] = r
    <3>1. rs \in Seq(Recs) /\ 1 \in 1 .. Len(rs) /\ Len(rs) = 1
      BY <1>5, <2>1 DEF FoldersOK
    <3> QED BY <2>5, <3>1, ExceptSeq
  <2>7. /\ Len(folders') = 1 /\ folders'[1].files = Append(folders[1].files, j)
        /\ folders'[1].data = folders[1].data
    BY <2>2, <2>4, <2>5, <2>6
  <2>8. ASSUME NEW i \in Jobs, i # j
        PROVE  pc'[i] # "open"
    <3>1. ~Concurrent /\ i # NoJob
      BY <1>11, JobsAssumption DEF Concurrent
    <3>2. pc[i] = "open" => ImplicitlyClosed(i)
      BY <3>1 DEF Sequential, ImplicitlyClosed, ClosesCurrent
    <3> QED BY <1>7, <2>8, <3>2
  <2>9. fold' = [fold EXCEPT ![j] = 1] /\ Len(folders) = 1
    BY <1>2, <1>4, <1>11, <2>1
  <2>10. Books'
    BY <1>1, <1>2, <1>6, <1>7, <1>11, <2>7, <2>8, <2>9, BooksSameFolder
  <2>11. Finished'
    <3>1. \A k \in 1 .. Len(folders) : folders[k].closed \/ k = CurrentFold => folders'[k].closed
      <4>1. \A k \in 1 .. Len(folders) : k = 1
        BY <2>9
      <4>2. folders[1].closed \/ 1 = CurrentFold => rs[1].closed
        BY <1>5, <1>8, <2>1
      <4>3. folders'[1].closed = rs[1].closed
        BY <2>2, <2>4, <2>5, <2>6
      <4> QED BY <4>1, <4>2, <4>3
    <3> QED BY <1>1, <1>2, <1>7, <3>1, FinishedMore
  <2> QED BY <2>10, <2>11
<1> QED BY <1>10, <1>11

\* A unit is written.
LEMMA WriteBooks ==
    ASSUME Inv, Books, Finished, NEW j \in Jobs, Write(j)
    PROVE  Books' /\ Finished'
<1>1. TypeOK /\ TypeOK'
  BY WriteInv DEF Inv
<1>2. /\ pc[j] = "open" /\ fold[j] # 0
      /\ UNCHANGED <<opt, files, fold, pc, size>> /\ written' = [written EXCEPT ![j] = @ + 1]
  BY DEF Write, Writable
<1>3. PICK f \in 1 .. Len(folders) : f = fold[j]
  <2>1. TypeOK /\ Len(folders) \in Nat
    BY <1>1, FolderTypes
  <2>2. fold[j] \in 0 .. Len(folders)
    BY <2>1 DEF TypeOK
  <2> QED BY <1>2, <2>1, <2>2
<1>4. PICK k \in {0, 1} : \E fo \in SpoolWrites(folders[f], k) :
         folders' = [folders EXCEPT ![f] = [fo EXCEPT !.data = Append(@, j)]]
  BY <1>3 DEF Write
<1>5. PICK fo \in SpoolWrites(folders[f], k) :
         folders' = [folders EXCEPT ![f] = [fo EXCEPT !.data = Append(@, j)]]
  BY <1>4
<1>6. PICK o \in Recs : o = folders[f] /\ o.kept <= o.n
  BY <1>1, FolderTypes
<1>7. fo \in Recs /\ fo.files = o.files /\ fo.data = o.data /\ fo.closed = o.closed
  BY <1>6, SpoolWritesKeep
<1>8. PICK r : r = [fo EXCEPT !.data = Append(@, j)]
  OBVIOUS
<1>9. r.files = o.files /\ r.data = Append(o.data, j) /\ r.closed = o.closed
  BY <1>7, <1>8 DEF Recs
<1>10. PICK fs, gs : fs = folders /\ gs = folders' /\ fs \in Seq(Recs)
  BY <1>1, FolderTypes DEF FoldersOK
<1>11. /\ Len(gs) = Len(fs)
       /\ \A x \in 1 .. Len(fs) : gs[x] = IF x = f THEN r ELSE fs[x]
  <2>1. f \in 1 .. Len(fs) /\ gs = [fs EXCEPT ![f] = r]
    BY <1>5, <1>8, <1>10
  <2> QED BY <1>10, <2>1, ExceptSeq
<1>12. /\ \A x \in 1 .. Len(fs) : /\ gs[x].files = fs[x].files /\ gs[x].closed = fs[x].closed
                                  /\ x # f => gs[x].data = fs[x].data
       /\ gs[f].data = Append(fs[f].data, j)
  BY <1>6, <1>9, <1>10, <1>11
<1>13. written' \in [Jobs -> 0 .. MaxUnits]
  BY <1>1 DEF TypeOK
<1>14. Books'
  <2>1. UNCHANGED <<opt, files, fold, pc>> /\ pc[j] = "open" /\ fold[j] \in 1 .. Len(folders)
    BY <1>2, <1>3
  <2>2. written'[j] = written[j] + 1 /\ \A i \in Jobs : i # j => written'[i] = written[i]
    BY <1>1, <1>2 DEF TypeOK
  <2>3. /\ Len(folders') = Len(folders)
        /\ \A x \in 1 .. Len(folders) :
              /\ folders'[x].files = folders[x].files
              /\ folders'[x].data = IF x = fold[j] THEN Append(folders[x].data, j)
                                    ELSE folders[x].data
    BY <1>3, <1>10, <1>11, <1>12
  <2>4. UnitWritten(j)
    BY <1>13, <2>1, <2>2, <2>3 DEF UnitWritten
  <2> QED BY <1>1, <2>4, BooksWrite
<1>15. Finished'
  <2>1. ASSUME NEW i \in Jobs, pc'[i] = "done"
        PROVE  size'[i] = written'[i]
    <3>1. i # j /\ size[i] = written[i]
      BY <1>2, <2>1 DEF Finished
    <3> QED BY <1>1, <1>2, <3>1 DEF TypeOK
  <2>2. ASSUME ~opt.solid, NEW i \in Jobs, pc[i] \in PastFold, fold[i] # 0
        PROVE  folders'[fold[i]].closed
    <3>1. PICK x \in 1 .. Len(fs) : x = fold[i]
      <4>1. fold[i] \in 0 .. Len(folders) /\ Len(folders) \in Nat
        BY <1>1, FolderTypes DEF TypeOK
      <4> QED BY <1>10, <2>2, <4>1
    <3>2. fs[x].closed
      BY <1>10, <2>2, <3>1 DEF Finished
    <3> QED BY <1>10, <1>12, <3>1, <3>2
  <2> QED BY <1>2, <2>1, <2>2 DEF Finished
<1> QED BY <1>14, <1>15

\* The files of the folders stay, and the other folders are as they were.
SameShape(f) ==
    /\ Len(folders') = Len(folders)
    /\ \A k \in 1 .. Len(folders) : /\ folders'[k].files = folders[k].files
                                    /\ folders'[k].closed = folders[k].closed
                                    /\ k # f => folders'[k] = folders[k]

\* A write that fails: u units were taken, and d chunks counted.
TornWrite(j, f, u, d) ==
    /\ written[j] + u \in 0 .. MaxUnits
    /\ written' = [written EXCEPT ![j] = @ + u]
    /\ SameShape(f)
    /\ folders'[f].data = IF u = 1 THEN Append(folders[f].data, j) ELSE folders[f].data
    /\ Chunks(f, d)

\* That is what WriteFails does.
LEMMA WriteFailsIs ==
    ASSUME TypeOK, NEW j \in Jobs, fold[j] \in 1 .. Len(folders), WriteFails(j)
    PROVE  \E u \in {0, 1}, d \in {0, 1} : TornWrite(j, fold[j], u, d)
<1>1. PICK f \in 1 .. Len(folders) : f = fold[j]
  OBVIOUS
<1>2. PICK o \in Recs : o = folders[f] /\ o.kept <= o.n
  BY FolderTypes
<1>3. PICK u \in {0, 1}, fo \in SpoolFails(o) :
         /\ written[j] + u <= MaxUnits
         /\ written' = [written EXCEPT ![j] = @ + u]
         /\ folders' = [folders EXCEPT ![f] =
               [fo EXCEPT !.torn = TRUE, !.data = @ \o [i \in 1 .. u |-> j]]]
         /\ out' = out \o Emitted(f, fo)
  BY <1>1, <1>2 DEF WriteFails
<1>4. /\ fo \in Recs /\ fo.files = o.files /\ fo.data = o.data /\ fo.closed = o.closed
      /\ \E d \in {0, 1} : fo.n = o.n + d /\ fo.n - o.n = d
  BY <1>2, <1>3, SpoolFailsKeep
<1>5. PICK d \in {0, 1} : fo.n = o.n + d /\ fo.n - o.n = d
  BY <1>4
<1>6. PICK t : t = o.data \o [i \in 1 .. u |-> j]
  OBVIOUS
<1>7. t \in Seq(Jobs) /\ t = IF u = 1 THEN Append(o.data, j) ELSE o.data
  <2>1. o.data \in Seq(Jobs)
    BY DEF Recs
  <2>2. CASE u = 1
    <3>1. [i \in 1 .. 1 |-> j] = <<j>>
      OBVIOUS
    <3>2. o.data \o <<j>> = Append(o.data, j)
      BY <2>1
    <3>3. Append(o.data, j) \in Seq(Jobs)
      BY <2>1, AppendProperties
    <3> QED BY <1>6, <2>2, <3>1, <3>2, <3>3
  <2>3. CASE u = 0
    <3>1. [i \in 1 .. 0 |-> j] = <<>>
      OBVIOUS
    <3>2. o.data \o <<>> = o.data
      BY <2>1, ConcatEmptySeq
    <3> QED BY <1>6, <2>1, <2>3, <3>1, <3>2
  <2> QED BY <2>2, <2>3
<1>8. PICK r : r = [fo EXCEPT !.torn = TRUE, !.data = t]
  OBVIOUS
<1>9. r \in Recs /\ r.files = o.files /\ r.data = t /\ r.closed = o.closed /\ r.n = o.n + d
  BY <1>4, <1>5, <1>7, <1>8 DEF Recs
<1>10. PICK fs, gs : fs = folders /\ gs = folders' /\ fs \in Seq(Recs)
  BY FolderTypes DEF FoldersOK
<1>11. /\ Len(gs) = Len(fs)
       /\ \A x \in 1 .. Len(fs) : gs[x] = IF x = f THEN r ELSE fs[x]
  <2>1. f \in 1 .. Len(fs) /\ gs = [fs EXCEPT ![f] = r]
    BY <1>3, <1>4, <1>6, <1>8, <1>10
  <2> QED BY <1>9, <1>10, <2>1, ExceptSeq
<1>12. SameShape(f)
  BY <1>2, <1>9, <1>10, <1>11 DEF SameShape
<1>13. Chunks(f, d)
  <2>1. out' = out \o Direct(f, d)
    BY <1>2, <1>3, <1>5 DEF Emitted
  <2> QED BY <1>2, <1>9, <1>10, <1>11, <2>1 DEF Chunks
<1>14. folders'[f].data = IF u = 1 THEN Append(folders[f].data, j) ELSE folders[f].data
  BY <1>2, <1>7, <1>9, <1>10, <1>11
<1>15. written[j] + u \in 0 .. MaxUnits
  <2>1. written[j] \in 0 .. MaxUnits /\ MaxUnits \in Nat
    BY BoundsAssumption DEF TypeOK
  <2> QED BY <1>3, <2>1
<1>16. TornWrite(j, f, u, d)
  BY <1>3, <1>12, <1>13, <1>14, <1>15 DEF TornWrite
<1> QED BY <1>1, <1>16

\* A write fails.
LEMMA WriteFailsBooks ==
    ASSUME Inv, Books, Finished, NEW j \in Jobs, WriteFails(j)
    PROVE  Books' /\ Finished'
<1>1. TypeOK
  BY InvParts
<1>2. pc[j] = "open" /\ fold[j] # 0 /\ UNCHANGED <<opt, files, fold, pc, size>>
  BY DEF WriteFails, Writable
<1>3. PICK f \in 1 .. Len(folders) : f = fold[j]
  <2>1. fold[j] \in 0 .. Len(folders) /\ Len(folders) \in Nat
    BY <1>1, FolderTypes DEF TypeOK
  <2> QED BY <1>2, <2>1
<1>4. PICK u \in {0, 1}, d \in {0, 1} : TornWrite(j, fold[j], u, d)
  BY <1>1, <1>3, WriteFailsIs
<1>5. /\ Len(folders') = Len(folders)
      /\ \A k \in 1 .. Len(folders) :
            /\ folders'[k].files = folders[k].files
            /\ folders'[k].closed = folders[k].closed
            /\ folders'[k].data = IF k = f /\ u = 1 THEN Append(folders[k].data, j)
                                 ELSE folders[k].data
  BY <1>3, <1>4 DEF TornWrite, SameShape
<1>6. /\ written' = [written EXCEPT ![j] = @ + u] /\ written \in [Jobs -> 0 .. MaxUnits]
      /\ written[j] + u \in 0 .. MaxUnits
  BY <1>1, <1>4 DEF TornWrite, TypeOK
<1>7. /\ written'[j] = written[j] + u /\ written' \in [Jobs -> 0 .. MaxUnits]
      /\ \A i \in Jobs : i # j => written'[i] = written[i]
  BY <1>6
<1>8. Books'
  <2>1. CASE u = 1
    <3>1. /\ written'[j] = written[j] + 1
          /\ \A k \in 1 .. Len(folders) :
                /\ folders'[k].files = folders[k].files
                /\ folders'[k].data = IF k = fold[j] THEN Append(folders[k].data, j)
                                     ELSE folders[k].data
      BY <1>3, <1>5, <1>7, <2>1
    <3>2. UnitWritten(j)
      BY <1>2, <1>3, <1>5, <1>7, <3>1 DEF UnitWritten
    <3> QED BY <1>1, <3>2, BooksWrite
  <2>2. CASE u = 0
    <3>1. written' = written
      <4>1. written[j] + 0 = written[j]
        <5>1. MaxUnits \in Nat /\ written[j] \in 0 .. MaxUnits
          BY <1>6, BoundsAssumption
        <5> QED BY <5>1
      <4> QED BY <1>6, <2>2, <4>1
    <3>2. SameFiles(folders, folders')
      BY <1>5, <2>2 DEF SameFiles
    <3> QED BY <1>1, <1>2, <3>1, <3>2, BooksStay
  <2> QED BY <2>1, <2>2
<1>9. Finished'
  <2>1. ASSUME NEW i \in Jobs, pc'[i] = "done"
        PROVE  size'[i] = written'[i]
    BY <1>2, <1>7, <2>1 DEF Finished
  <2>2. ASSUME ~opt.solid, NEW i \in Jobs, pc[i] \in PastFold, fold[i] # 0
        PROVE  folders'[fold[i]].closed
    <3>1. fold[i] \in 0 .. Len(folders) /\ Len(folders) \in Nat
      BY <1>1, FolderTypes DEF TypeOK
    <3>2. PICK x \in 1 .. Len(folders) : x = fold[i]
      BY <2>2, <3>1
    <3> QED BY <1>5, <2>2, <3>2 DEF Finished
  <2> QED BY <1>2, <2>1, <2>2 DEF Finished
<1> QED BY <1>8, <1>9

-----------------------------------------------------------------------------
(* The sequential and solid modes.                                         *)

\* An open file is implicitly closed by the next one, and its folder is the last one.
LEMMA OpenIsCurrent ==
    ASSUME TypeOK, Sequential, ~Concurrent
    PROVE  /\ \A i \in Jobs : pc[i] = "open" => ImplicitlyClosed(i)
           /\ CurrentFold \in {0, Len(folders)}
<1>1. \A i \in Jobs : pc[i] = "open" => i = current /\ fold[i] \in {0, Len(folders)}
  BY DEF Sequential
<1>2. \A i \in Jobs : i # NoJob
  BY JobsAssumption
<1>3. \A i \in Jobs : pc[i] = "open" => ImplicitlyClosed(i)
  BY <1>1, <1>2 DEF ImplicitlyClosed, ClosesCurrent
<1>4. CurrentFold \in {0, Len(folders)}
  BY <1>1 DEF CurrentFold, ClosesCurrent, TypeOK
<1> QED BY <1>3, <1>4

\* The files after one was created.
LEMMA SequentialFiles ==
    ASSUME TypeOK, Sequential, ~Concurrent, NEW j \in Jobs, NEW p \in {"open", "error"},
           AfterImplicitClose(j, p)
    PROVE  /\ \A i \in Jobs : pc'[i] \in {"none", "open", "done", "error"}
           /\ \A i \in Jobs : pc'[i] = "open" => i = j /\ p = "open"
<1>1. p \in FilePcs
  BY DEF FilePcs
<1>2. pc'[j] = p
  BY <1>1, ImplicitClose
<1>3. ASSUME NEW i \in Jobs, i # j
      PROVE  pc'[i] \in {"none", "done", "error"}
  <2>1. pc'[i] = IF ImplicitlyClosed(i) THEN "done" ELSE pc[i]
    BY <1>1, <1>3, ImplicitFiles
  <2>2. pc[i] \in {"none", "open", "done", "error"}
    BY DEF Sequential
  <2>3. pc[i] = "open" => ImplicitlyClosed(i)
    BY OpenIsCurrent
  <2> QED BY <2>1, <2>2, <2>3
<1> QED BY <1>2, <1>3

\* The last folder is closed.
LEMMA SequentialFlush ==
    ASSUME TypeOK, Sequential, ~Concurrent, NEW f \in {0, Len(folders)},
           folders' = CloseFold(folders, f), out' = out \o FlushFold(folders, f)
    PROVE  out' = BodyOf(folders') /\ Len(folders') = Len(folders)
<1>1. FoldersOK(folders) /\ f \in 0 .. Len(folders)
  BY FolderTypes
<1>2. PICK fs : fs = folders
  OBVIOUS
<1>3. f # 0 => f = Len(fs) \/ fs[f].closed
  BY <1>2
<1>4. BodyOf(CloseFold(fs, f)) = BodyOf(fs) \o FlushFold(fs, f)
  BY <1>1, <1>2, <1>3, CloseBody
<1>5. Len(CloseFold(fs, f)) = Len(fs)
  BY <1>1, <1>2, CloseFoldProperties
<1>6. out = BodyOf(fs)
  BY <1>2 DEF Sequential
<1> QED BY <1>2, <1>4, <1>5, <1>6

\* The last folder has more chunks.
LEMMA SequentialChunks ==
    ASSUME TypeOK, Sequential, ~Concurrent, NEW f \in 1 .. Len(folders), f = Len(folders),
           NEW d \in {0, 1}, Chunks(f, d), Len(folders') = Len(folders)
    PROVE  out' = BodyOf(folders') /\ Len(folders') = Len(folders)
<1>1. PICK fs, gs, m, e : /\ fs = folders /\ gs = folders'
                          /\ m = Len(folders) /\ m \in Nat /\ e = d /\ e \in Nat
  <2>1. Len(folders) \in Nat /\ d \in Nat
    BY FolderTypes
  <2> QED BY <2>1
<1>2. m # 0 /\ m = f /\ m = Len(fs) /\ m = Len(gs)
  BY <1>1
<1>3. \A k \in 1 .. m : fs[k].n \in Nat
  BY <1>1, FolderTypes DEF Recs
<1>4. gs[m].n = fs[m].n + e /\ out' = out \o Direct(m, e)
  BY <1>1, <1>2 DEF Chunks
<1>5. \A k \in 1 .. m - 1 : gs[k].n = fs[k].n
  <2>1. \A k \in 1 .. m - 1 : k \in 1 .. m /\ k # m
    BY <1>1
  <2>2. \A k \in 1 .. m : k # m => gs[k].n = fs[k].n
    BY <1>1, <1>2 DEF Chunks
  <2> QED BY <2>1, <2>2
<1>6. MoreChunks(fs, gs, m, e)
  BY ONLY <1>1, <1>2, <1>3, <1>4, <1>5 DEF MoreChunks
<1>7. BodyOf(gs) = BodyOf(fs) \o Copies(e, m)
  BY ONLY <1>6, BodyLast
<1>8. Direct(m, e) = Copies(e, m)
  BY DEF Direct, Copies
<1> QED BY <1>1, <1>4, <1>7, <1>8 DEF Sequential

\* The last folder is closed, with or without its last chunk.
LEMMA SequentialUnflushed ==
    ASSUME TypeOK, Sequential, ~Concurrent, NEW f \in 1 .. Len(folders), f = Len(folders),
           CloseFoldFails(f)
    PROVE  out' = BodyOf(folders') /\ Len(folders') = Len(folders)
<1>1. SameFiles(folders, folders') /\ \E d \in {0, 1} : Chunks(f, d)
  BY SameClosed
<1>2. Len(folders') = Len(folders)
  BY <1>1 DEF SameFiles
<1> QED BY <1>1, <1>2, SequentialChunks

\* CreateHeader for a directory, or for a file whose folder cannot be made.
LEMMA SequentialWithout ==
    ASSUME Inv, Sequential, NEW j \in Jobs, CreateDir(j) \/ SetupFails(j)
    PROVE  Sequential'
<1> SUFFICES ASSUME ~Concurrent PROVE Sequential'
  <2>1. opt' = opt
    BY DEF CreateDir, SetupFails
  <2> QED BY <2>1 DEF Sequential, Concurrent
<1>1. TypeOK /\ Folded
  BY InvParts DEF Control
<1>2. PICK p \in {"open", "error"} :
         /\ AfterImplicitClose(j, p) /\ (p = "open" => current' = j)
  BY DEF CreateDir, SetupFails
<1>3. /\ pc[j] = "none" /\ wpc = "open"
      /\ folders' = CloseFold(folders, CurrentFold)
      /\ out' = out \o FlushFold(folders, CurrentFold)
      /\ UNCHANGED <<opt, fold, active, wpc>>
  BY DEF CreateDir, SetupFails
<1>4. out' = BodyOf(folders') /\ Len(folders') = Len(folders)
  <2>1. PICK f \in {0, Len(folders)} : f = CurrentFold
    BY <1>1, OpenIsCurrent
  <2> QED BY <1>1, <1>3, <2>1, SequentialFlush
<1>5. /\ \A i \in Jobs : pc'[i] \in {"none", "open", "done", "error"}
      /\ \A i \in Jobs : pc'[i] = "open" => i = j /\ p = "open"
  BY <1>1, <1>2, SequentialFiles
<1>6. fold[j] = 0
  BY <1>1, <1>3 DEF Folded
<1>7. \A i \in Jobs : pc'[i] = "open" => /\ i = current' /\ fold'[i] \in {0, Len(folders')}
                                         /\ wpc' \in {"open", "current", "err"}
  BY <1>2, <1>3, <1>5, <1>6
<1>8. active' = Len(folders')
  BY <1>3, <1>4 DEF Sequential
<1> QED BY <1>3, <1>4, <1>5, <1>7, <1>8 DEF Sequential

\* The implicit close of the current file fails.
LEMMA SequentialCreateFails ==
    ASSUME Inv, Sequential, NEW j \in Jobs, CreateFails(j)
    PROVE  Sequential'
<1>1. TypeOK
  BY InvParts
<1>2. /\ CurrentFold # 0 /\ wpc = "open"
      /\ pc' = [pc EXCEPT ![current] = "error"]
      /\ CloseFoldFails(CurrentFold)
      /\ UNCHANGED <<opt, current, active, fold, wpc>>
  BY DEF CreateFails
<1>3. current \in Jobs /\ ~Concurrent
  BY <1>1, <1>2 DEF CurrentFold, ClosesCurrent, TypeOK
<1>4. PICK f \in 1 .. Len(folders) : f = CurrentFold /\ f = Len(folders)
  <2>1. CurrentFold \in {0, Len(folders)} /\ Len(folders) \in Nat
    BY <1>1, <1>3, OpenIsCurrent, FolderTypes
  <2> QED BY <1>2, <2>1
<1>5. out' = BodyOf(folders') /\ Len(folders') = Len(folders)
  BY <1>1, <1>2, <1>3, <1>4, SequentialUnflushed
<1>6. \A i \in Jobs : pc'[i] = IF i = current THEN "error" ELSE pc[i]
  BY <1>1, <1>2, <1>3 DEF TypeOK
<1> QED BY <1>2, <1>3, <1>5, <1>6 DEF Sequential, Concurrent

\* fileWriter.Close.
LEMMA SequentialCloseFile ==
    ASSUME Inv, Sequential, NEW j \in Jobs, CloseFileNow(j)
    PROVE  Sequential'
<1>1. TypeOK
  BY InvParts
<1>2. PICK f : f = IF opt.solid THEN 0 ELSE fold[j]
  OBVIOUS
<1>3. /\ ~Concurrent /\ pc[j] = "open" /\ wpc = "open"
      /\ pc' = [pc EXCEPT ![j] = "done"]
      /\ folders' = CloseFold(folders, f) /\ out' = out \o FlushFold(folders, f)
      /\ UNCHANGED <<opt, current, active, fold, wpc>>
  BY <1>2 DEF CloseFileNow
<1>4. f \in {0, Len(folders)}
  BY <1>2, <1>3 DEF Sequential
<1>5. out' = BodyOf(folders') /\ Len(folders') = Len(folders)
  BY <1>1, <1>3, <1>4, SequentialFlush
<1>6. \A i \in Jobs : pc'[i] = IF i = j THEN "done" ELSE pc[i]
  BY <1>1, <1>3 DEF TypeOK
<1> QED BY <1>3, <1>5, <1>6 DEF Sequential, Concurrent

\* fileWriter.Close cannot close its folder.
LEMMA SequentialCloseFails ==
    ASSUME Inv, Sequential, NEW j \in Jobs, FoldCloseFails(j)
    PROVE  Sequential'
<1>1. TypeOK
  BY InvParts
<1>2. /\ fold[j] # 0 /\ (~Concurrent => pc[j] = "open" /\ wpc = "open")
      /\ pc' = [pc EXCEPT ![j] = "error"]
      /\ CloseFoldFails(fold[j])
      /\ UNCHANGED <<opt, current, active, fold, wpc>>
  BY DEF FoldCloseFails
<1>3. PICK f \in 1 .. Len(folders) : f = fold[j]
  BY <1>1, <1>2, FolderTypes DEF TypeOK
<1>4. ASSUME ~Concurrent
      PROVE  out' = BodyOf(folders') /\ Len(folders') = Len(folders)
  <2>1. f = Len(folders)
    BY <1>2, <1>3, <1>4 DEF Sequential
  <2> QED BY <1>1, <1>2, <1>3, <1>4, <2>1, SequentialUnflushed
<1>5. \A i \in Jobs : pc'[i] = IF i = j THEN "error" ELSE pc[i]
  BY <1>1, <1>2 DEF TypeOK
<1> QED BY <1>2, <1>4, <1>5 DEF Sequential, Concurrent

\* Writer.Close closes the current file, and in the solid mode the folder.
LEMMA SequentialCurrentNow ==
    ASSUME Inv, Placed, Sequential, CloseCurrentNow
    PROVE  Sequential'
<1>1. TypeOK
  BY InvParts
<1>2. PICK f : f = IF opt.solid THEN active ELSE CurrentFold
  OBVIOUS
<1>3. /\ wpc = "current" /\ wpc' = "header" /\ ~Concurrent
      /\ AfterImplicitClose(NoJob, "done")
      /\ folders' = CloseFold(folders, f) /\ out' = out \o FlushFold(folders, f)
      /\ opt' = opt
  BY <1>2 DEF CloseCurrentNow
<1>4. f \in {0, Len(folders)}
  BY <1>1, <1>2, <1>3, OpenIsCurrent DEF Sequential
<1>5. out' = BodyOf(folders') /\ Len(folders') = Len(folders)
  BY <1>1, <1>3, <1>4, SequentialFlush
<1>6. ASSUME NEW i \in Jobs
      PROVE  pc'[i] \in {"none", "done", "error"}
  <2>1. i # NoJob /\ "done" \in FilePcs
    BY JobsAssumption DEF FilePcs
  <2>2. pc'[i] = IF ImplicitlyClosed(i) THEN "done" ELSE pc[i]
    BY <1>1, <1>3, <2>1, ImplicitFiles
  <2>3. pc[i] \in {"none", "open", "done", "error"}
    BY <1>3 DEF Sequential
  <2>4. pc[i] = "open" => ImplicitlyClosed(i)
    BY <1>1, <1>3, OpenIsCurrent
  <2> QED BY <2>2, <2>3, <2>4
<1>7. ASSUME opt.solid, NEW k \in 1 .. Len(folders')
      PROVE  folders'[k].closed
  <2>1. /\ f = active /\ f = Len(folders) /\ Len(folders) <= 1
        /\ Len(folders) \in Nat /\ Len(folders') = Len(folders)
    BY <1>1, <1>2, <1>3, <1>5, <1>7, FolderTypes DEF Sequential, Placed
  <2>2. k = f /\ f # 0 /\ f \in 0 .. Len(folders)
    BY <1>7, <2>1
  <2> QED BY <1>1, <1>3, <2>2, SameFlushed
<1> QED BY <1>3, <1>5, <1>6, <1>7 DEF Sequential, Concurrent

\* Writer.Close fails to close the last folder.
LEMMA SequentialCurrentFails ==
    ASSUME Inv, Sequential, CloseCurrentFails
    PROVE  Sequential'
<1>1. TypeOK
  BY InvParts
<1>2. PICK f : f = IF opt.solid THEN active ELSE CurrentFold
  OBVIOUS
<1>3. /\ wpc = "current" /\ wpc' = "err" /\ ~Concurrent
      /\ f # 0 /\ CloseFoldFails(f)
      /\ UNCHANGED <<opt, current, fold, pc>>
  BY <1>2 DEF CloseCurrentFails, fileVars
<1>4. f \in 1 .. Len(folders) /\ f = Len(folders)
  <2>1. f \in {0, Len(folders)} /\ Len(folders) \in Nat
    BY <1>1, <1>2, <1>3, OpenIsCurrent, FolderTypes DEF Sequential
  <2> QED BY <1>3, <2>1
<1>5. out' = BodyOf(folders') /\ Len(folders') = Len(folders)
  BY <1>1, <1>3, <1>4, SequentialUnflushed
<1> QED BY <1>3, <1>5 DEF Sequential, Concurrent

\* A file created in a folder of its own, or behind the others in the solid one.
LEMMA SequentialCreateFile ==
    ASSUME Inv, Sequential, NEW j \in Jobs, CreateFile(j)
    PROVE  Sequential'
<1> SUFFICES ASSUME ~Concurrent PROVE Sequential'
  <2>1. opt' = opt
    BY DEF CreateFile
  <2> QED BY <2>1 DEF Sequential, Concurrent
<1>1. TypeOK
  BY InvParts
<1>2. /\ wpc = "open" /\ AfterImplicitClose(j, "open") /\ current' = j
      /\ UNCHANGED <<opt, wpc>>
      /\ active' = IF active = 0 \/ ~opt.solid THEN Len(folders) + 1 ELSE active
      /\ fold' = [fold EXCEPT ![j] = active']
  BY DEF CreateFile
<1>3. PICK f, v, cs, rs :
         /\ f \in 0 .. Len(folders) /\ v \in 0 .. Len(folders)
         /\ Readied(f, v, cs, rs)
         /\ out' = out \o FlushFold(folders, f) \o FlushFold(cs, v)
         /\ folders' = IF active = 0 \/ ~opt.solid THEN Append(rs, NewFolder(j))
                       ELSE [rs EXCEPT ![active].files = Append(@, j)]
  BY CreateFileReadies
<1>4. PICK m \in Nat : m = Len(folders) /\ active = m
  BY <1>1, <1>2, FolderTypes DEF Sequential
<1>5. PICK fs : fs = folders /\ FoldersOK(fs) /\ Len(fs) = m
  BY <1>1, <1>4, FolderTypes
<1>6. /\ cs = CloseFold(fs, f) /\ rs = CloseFold(cs, v)
      /\ FoldersOK(cs) /\ Len(cs) = m /\ FoldersOK(rs) /\ Len(rs) = m
      /\ f \in {0, m} /\ v \in {0, m}
  BY <1>1, <1>3, <1>4, <1>5, OpenIsCurrent DEF Readied, SameFiles
<1>7. BodyOf(rs) = out'
  <2>1. BodyOf(cs) = BodyOf(fs) \o FlushFold(fs, f)
    <3>1. f \in 0 .. Len(fs) /\ (f # 0 => f = Len(fs) \/ fs[f].closed)
      BY ONLY <1>4, <1>5, <1>6
    <3> QED BY <1>5, <1>6, <3>1, CloseBody
  <2>2. BodyOf(rs) = BodyOf(cs) \o FlushFold(cs, v)
    <3>1. v \in 0 .. Len(cs) /\ (v # 0 => v = Len(cs) \/ cs[v].closed)
      BY ONLY <1>4, <1>6
    <3> QED BY <1>6, <3>1, CloseBody
  <2>3. out = BodyOf(fs)
    BY <1>5 DEF Sequential
  <2> QED BY <1>3, <1>5, <2>1, <2>2, <2>3
<1>8. \A k \in 1 .. m : rs[k] \in Recs /\ rs[k].n \in Nat
  <2>1. \A k \in 1 .. m : rs[k] \in Recs
    BY <1>6, ElementOfSeq DEF FoldersOK
  <2> QED BY <2>1 DEF Recs
<1>9. out' = BodyOf(folders') /\ Len(folders') = active'
  <2>1. CASE active = 0 \/ ~opt.solid
    <3>1. PICK gs : gs = folders' /\ gs = Append(rs, NewFolder(j))
      BY <1>3, <2>1
    <3>2. /\ Len(gs) = m + 1 /\ gs[m + 1] = NewFolder(j)
          /\ \A k \in 1 .. m : gs[k] = rs[k]
      <4>1. <<j>> \in Seq(Jobs) /\ <<>> \in Seq(Jobs)
        BY EmptySeq
      <4>2. NewFolder(j) \in Recs
        BY <4>1 DEF NewFolder, Recs, SpoolStates
      <4>3. rs \in Seq(Recs) /\ Len(rs) = m
        BY <1>6 DEF FoldersOK
      <4> QED BY <3>1, <4>2, <4>3, AppendProperties
    <3>3. gs[m + 1].n = 0 /\ \A k \in 1 .. m : gs[k].n = rs[k].n
      BY <3>2 DEF NewFolder
    <3>4. BodyOf(gs) = BodyOf(rs)
      BY <1>6, <1>8, <3>2, <3>3, BodyNew
    <3> QED BY <1>2, <1>4, <1>7, <2>1, <3>1, <3>2, <3>4
  <2>2. CASE ~(active = 0 \/ ~opt.solid)
    <3>1. m \in 1 .. m
      BY <1>4, <2>2
    <3>2. PICK o \in Recs : o = rs[m]
      BY <1>8, <3>1
    <3>3. PICK r : r = [o EXCEPT !.files = Append(@, j)]
      OBVIOUS
    <3>4. r = [o EXCEPT !.files = Append(@, j)] /\ r.n = o.n
      BY <3>3 DEF Recs
    <3>5. PICK gs : gs = folders' /\ gs = [rs EXCEPT ![m] = r]
      BY <1>3, <1>4, <2>2, <3>2, <3>4
    <3>6. Len(gs) = m /\ \A k \in 1 .. m : gs[k] = IF k = m THEN r ELSE rs[k]
      <4>1. rs \in Seq(Recs) /\ m \in 1 .. Len(rs) /\ Len(rs) = m
        BY <1>6, <3>1 DEF FoldersOK
      <4> QED BY <3>5, <4>1, ExceptSeq
    <3>7. \A k \in 1 .. Len(rs) : gs[k].n = rs[k].n
      BY <1>6, <3>2, <3>4, <3>6
    <3>8. BodyOf(gs) = BodyOf(rs)
      BY <1>6, <3>6, <3>7, BodySame
    <3> QED BY <1>2, <1>4, <1>7, <2>2, <3>5, <3>6, <3>8
  <2> QED BY <2>1, <2>2
<1>10. /\ \A i \in Jobs : pc'[i] \in {"none", "open", "done", "error"}
       /\ \A i \in Jobs : pc'[i] = "open" => i = j
  BY <1>1, <1>2, SequentialFiles
<1>11. fold'[j] = active'
  BY <1>1, <1>2 DEF TypeOK
<1>12. \A i \in Jobs : pc'[i] = "open" => /\ i = current' /\ fold'[i] \in {0, Len(folders')}
                                          /\ wpc' \in {"open", "current", "err"}
  BY <1>2, <1>9, <1>10, <1>11
<1> QED BY <1>2, <1>9, <1>10, <1>12 DEF Sequential

\* A unit is written.
LEMMA SequentialWrite ==
    ASSUME Inv, Sequential, NEW j \in Jobs, Write(j)
    PROVE  Sequential'
<1> SUFFICES ASSUME ~Concurrent PROVE Sequential'
  <2>1. opt' = opt
    BY DEF Write
  <2> QED BY <2>1 DEF Sequential, Concurrent
<1>1. TypeOK
  BY InvParts
<1>2. /\ pc[j] = "open" /\ wpc = "open" /\ fold[j] # 0
      /\ UNCHANGED <<opt, current, active, pc, fold, wpc>>
  BY DEF Write, Writable
<1>3. PICK m \in Nat : m = Len(folders) /\ m = fold[j] /\ m \in 1 .. Len(folders)
  BY <1>1, <1>2, FolderTypes DEF Sequential
<1>4. PICK k \in {0, 1} :
         /\ \E fo \in SpoolWrites(folders[m], k) :
               folders' = [folders EXCEPT ![m] = [fo EXCEPT !.data = Append(@, j)]]
         /\ out' = out \o Direct(m, k)
  BY <1>3 DEF Write
<1>5. PICK fo \in SpoolWrites(folders[m], k) :
         folders' = [folders EXCEPT ![m] = [fo EXCEPT !.data = Append(@, j)]]
  BY <1>4
<1>6. PICK o \in Recs : o = folders[m] /\ o.kept <= o.n
  BY <1>1, <1>3, FolderTypes
<1>7. fo \in Recs /\ fo.n = o.n + k
  BY <1>6, SpoolWritesKeep
<1>8. PICK r : r = [fo EXCEPT !.data = Append(@, j)]
  OBVIOUS
<1>9. r = [fo EXCEPT !.data = Append(@, j)] /\ r.n = o.n + k
  <2>1. r.n = fo.n
    BY <1>7, <1>8 DEF Recs
  <2> QED BY <1>7, <1>8, <2>1
<1>10. PICK fs, gs : fs = folders /\ gs = folders' /\ fs \in Seq(Recs) /\ Len(fs) = m
  BY <1>1, <1>3, FolderTypes DEF FoldersOK
<1>11. Len(gs) = m /\ \A x \in 1 .. m : gs[x] = IF x = m THEN r ELSE fs[x]
  <2>1. m \in 1 .. Len(fs) /\ gs = [fs EXCEPT ![m] = r]
    BY <1>3, <1>5, <1>9, <1>10
  <2> QED BY <1>10, <2>1, ExceptSeq
<1>12. Chunks(m, k)
  BY <1>3, <1>4, <1>6, <1>9, <1>10, <1>11 DEF Chunks
<1>13. m \in 1 .. Len(folders) /\ m = Len(folders) /\ Len(folders') = Len(folders)
  BY <1>3, <1>10, <1>11
<1>14. out' = BodyOf(folders') /\ Len(folders') = Len(folders)
  BY <1>1, <1>12, <1>13, SequentialChunks
<1> QED BY <1>2, <1>14 DEF Sequential, Concurrent

\* A write fails.
LEMMA SequentialWriteFails ==
    ASSUME Inv, Sequential, NEW j \in Jobs, WriteFails(j)
    PROVE  Sequential'
<1> SUFFICES ASSUME ~Concurrent PROVE Sequential'
  <2>1. opt' = opt
    BY DEF WriteFails
  <2> QED BY <2>1 DEF Sequential, Concurrent
<1>1. TypeOK
  BY InvParts
<1>2. /\ pc[j] = "open" /\ wpc = "open" /\ fold[j] # 0
      /\ UNCHANGED <<opt, current, active, pc, fold, wpc>>
  BY DEF WriteFails, Writable
<1>3. PICK m \in Nat : m = Len(folders) /\ m = fold[j] /\ m \in 1 .. Len(folders)
  BY <1>1, <1>2, FolderTypes DEF Sequential
<1>4. fold[j] \in 1 .. Len(folders)
  BY <1>3
<1>5. PICK u \in {0, 1}, d \in {0, 1} : TornWrite(j, fold[j], u, d)
  BY <1>1, <1>4, WriteFailsIs
<1>6. Chunks(m, d) /\ Len(folders') = Len(folders)
  BY <1>3, <1>5 DEF TornWrite, SameShape
<1>7. out' = BodyOf(folders') /\ Len(folders') = Len(folders)
  BY <1>1, <1>3, <1>6, SequentialChunks
<1> QED BY <1>2, <1>7 DEF Sequential, Concurrent

-----------------------------------------------------------------------------
(* The end of Writer.Close, and the inductive invariant.                   *)

\* The sizes published for the files of a folder.
Sizes(fs) == [i \in 1 .. Len(fs) |-> size[fs[i]]]

\* No file of folder k was late: it is as it was when the header was written.
Settled(k) == Concurrent => \A j \in late : fold[j] # k

\* The header si has a folder for each of w.folders, and the chunks and the size of those
\* that are settled.
Describes(si) ==
    LET m == Len(folders)
    IN  /\ si.pack \in Seq(Nat) /\ Len(si.pack) = m
        /\ si.packed \in Seq(Nat) /\ Len(si.packed) = m
        /\ \A k \in 1 .. m : si.packed[k] = 1
        /\ si.streams \in Seq(Nat) /\ Len(si.streams) = m
        /\ \A k \in 1 .. m : si.streams[k] = Len(folders[k].files)
        /\ \A k \in 1 .. m : Settled(k) =>
              /\ si.pack[k] = folders[k].n
              /\ si.unpack[k] = PrefixSum(Sizes(folders[k].files), Len(folders[k].files))
        /\ ~Concurrent => si.size = FlattenSeq([k \in 1 .. m |-> Sizes(folders[k].files)])

\* It is written only when no copy failed.
Ending ==
    /\ Concurrent /\ wpc \in {"header", "signature", "ok"} => ~coord.err
    /\ wpc \in {"signature", "ok"} => hdr.files = files /\ Describes(hdr.si)

\* A unit is written to the folder of the job only.
LEMMA WriteShape ==
    ASSUME TypeOK, NEW j \in Jobs, NEW f \in 1 .. Len(folders), f = fold[j], Write(j)
    PROVE  SameShape(f)
<1>1. PICK k \in {0, 1} : \E fo \in SpoolWrites(folders[f], k) :
         folders' = [folders EXCEPT ![f] = [fo EXCEPT !.data = Append(@, j)]]
  BY DEF Write
<1>2. PICK fo \in SpoolWrites(folders[f], k) :
         folders' = [folders EXCEPT ![f] = [fo EXCEPT !.data = Append(@, j)]]
  BY <1>1
<1>3. PICK o \in Recs : o = folders[f] /\ o.kept <= o.n
  BY FolderTypes
<1>4. fo \in Recs /\ fo.files = o.files /\ fo.closed = o.closed
  BY <1>3, SpoolWritesKeep
<1>5. Append(fo.data, j) \in Seq(Jobs)
  BY <1>4, AppendProperties DEF Recs
<1>6. PICK r : r = [fo EXCEPT !.data = Append(@, j)]
  OBVIOUS
<1>7. r \in Recs /\ r.files = o.files /\ r.closed = o.closed
  BY <1>4, <1>5, <1>6 DEF Recs
<1>8. PICK fs, gs : fs = folders /\ gs = folders' /\ fs \in Seq(Recs)
  BY FolderTypes DEF FoldersOK
<1>9. /\ Len(gs) = Len(fs)
      /\ \A x \in 1 .. Len(fs) : gs[x] = IF x = f THEN r ELSE fs[x]
  <2>1. f \in 1 .. Len(fs) /\ gs = [fs EXCEPT ![f] = r]
    BY <1>2, <1>6, <1>8
  <2> QED BY <1>7, <1>8, <2>1, ExceptSeq
<1> QED BY <1>3, <1>7, <1>8, <1>9 DEF SameShape

\* A step of job j that leaves the header and its folders but j's as they are.
Touches(j) ==
    /\ UNCHANGED <<opt, files, fold, late, coord, wpc, hdr>>
    /\ Len(folders') = Len(folders)
    /\ \A k \in 1 .. Len(folders) : /\ folders'[k].files = folders[k].files
                                    /\ k # fold[j] => folders'[k] = folders[k]
    /\ \A i \in Jobs : i # j => size'[i] = size[i]

\* That is what the steps of a file are that has been created.
LEMMA TouchesOwn ==
    ASSUME TypeOK, Folded, NEW j \in Jobs,
           \/ Write(j) \/ WriteFails(j) \/ FileClose(j) \/ FoldCloseFails(j)
           \/ FileCloseFold(j) \/ FileSend(j) \/ FilePublish(j)
    PROVE  Touches(j)
<1>1. UNCHANGED <<opt, files, fold, late, coord, wpc, hdr>>
  BY DEF Write, WriteFails, FileClose, FoldCloseFails, FileCloseFold, FileSend, FilePublish,
         writerVars, coordVars
<1>2. \A i \in Jobs : i # j => size'[i] = size[i]
  BY DEF Write, WriteFails, FileClose, FoldCloseFails, FileCloseFold, FileSend, FilePublish, TypeOK
<1>3. CASE FileClose(j) \/ FileSend(j) \/ FilePublish(j)
  <2>1. folders' = folders
    BY <1>3 DEF FileClose, FileSend, FilePublish, writerVars
  <2> QED BY <1>1, <1>2, <2>1 DEF Touches
<1>4. CASE Write(j) \/ WriteFails(j) \/ FoldCloseFails(j) \/ FileCloseFold(j)
  <2>1. PICK f \in 1 .. Len(folders) : f = fold[j]
    <3>1. fold[j] # 0
      BY <1>4 DEF Write, WriteFails, FoldCloseFails, FileCloseFold, Folded
    <3>2. fold[j] \in 0 .. Len(folders) /\ Len(folders) \in Nat
      BY FolderTypes DEF TypeOK
    <3> QED BY <3>1, <3>2
  <2>2. /\ Len(folders') = Len(folders)
        /\ \A k \in 1 .. Len(folders) : /\ folders'[k].files = folders[k].files
                                        /\ k # f => folders'[k] = folders[k]
    <3>1. CASE Write(j)
      BY <2>1, <3>1, WriteShape DEF SameShape
    <3>2. CASE WriteFails(j)
      <4>1. PICK u \in {0, 1}, d \in {0, 1} : TornWrite(j, fold[j], u, d)
        BY <2>1, <3>2, WriteFailsIs
      <4> QED BY <2>1, <4>1 DEF TornWrite, SameShape
    <3>3. CASE FoldCloseFails(j)
      <4>1. CloseFoldFails(f)
        BY <2>1, <3>3 DEF FoldCloseFails
      <4> QED BY <4>1, SameClosed DEF SameFiles
    <3>4. CASE FileCloseFold(j)
      <4>1. PICK fo \in SpoolWrites(folders[f], 1) :
               folders' = [folders EXCEPT ![f] = [fo EXCEPT !.closed = TRUE]]
        BY <2>1, <3>4 DEF FileCloseFold
      <4> QED BY <4>1, SameSpoolClosed DEF SameFiles
    <3> QED BY <1>4, <3>1, <3>2, <3>3, <3>4
  <2> QED BY <1>1, <1>2, <2>1, <2>2 DEF Touches
<1> QED BY <1>3, <1>4

\* From the header on nothing happens but the rest of Writer.Close, and what late files do.
LEMMA LastSteps ==
    ASSUME Inv, Sequential, Next, wpc \in {"header", "signature", "ok"}
    PROVE  \/ CloseHeader \/ CloseSignature \/ CloseWriteFails
           \/ Concurrent /\ \E j \in late : Touches(j)
<1>1. TypeOK /\ Control
  BY InvParts
<1>2. /\ wpc \notin {"open", "current", "closing", "spools", "coordDone"} /\ coord.at = "gone"
      /\ \A j \in Jobs : pc[j] \in {"folding", "sending"} => Concurrent
      /\ \A j \in Jobs : Concurrent /\ pc[j] \in Unfinished => j \in late
  BY <1>1 DEF Control, CloseStages, Coordinated, Belated
<1>3. ASSUME NEW j \in Jobs
      PROVE  ~(CreateDir(j) \/ CreateFile(j) \/ CreateFails(j) \/ SetupFails(j) \/ CloseFileNow(j))
  BY <1>2 DEF CreateDir, CreateFile, CreateFails, SetupFails, CloseFileNow
<1>4. ~CoordSteps /\ ~CloseCalled
  BY <1>2 DEF CoordSteps, CoordReceive, CoordCopy, CoordWait, CoordExit, CloseCalled
<1>5. ~(CloseCurrentNow \/ CloseCurrentFails \/ CloseCurrent \/ CloseCurrentReturns
        \/ CloseSpools \/ CloseJoins)
  BY <1>2 DEF CloseCurrentNow, CloseCurrentFails, CloseCurrent, CloseCurrentReturns,
              CloseSpools, CloseJoins
<1>6. ASSUME NEW j \in Jobs,
             \/ Write(j) \/ WriteFails(j) \/ FileClose(j) \/ FoldCloseFails(j)
             \/ FileCloseFold(j) \/ FileSend(j) \/ FilePublish(j)
      PROVE  Concurrent /\ j \in late /\ Touches(j)
  <2>1. Concurrent /\ pc[j] \in Unfinished
    BY <1>2, <1>6 DEF Write, WriteFails, Writable, FileClose, FoldCloseFails, FileCloseFold,
                      FileSend, FilePublish, Sequential, Unfinished
  <2>2. Touches(j)
    BY <1>1, <1>6, TouchesOwn DEF Control
  <2> QED BY <1>2, <2>1, <2>2
<1> QED BY <1>1, <1>3, <1>4, <1>5, <1>6 DEF Next, CloseSteps

\* The other steps that lead there.
LEMMA FirstLast ==
    ASSUME Inv, Next, wpc \notin {"header", "signature", "ok"}, wpc' \in {"header", "signature", "ok"}
    PROVE  wpc' = "header" /\ (CloseCurrentNow \/ CloseJoins)
<1>1. wpc' # wpc
  OBVIOUS
<1>2. ASSUME NEW j \in Jobs
      PROVE  ~(CreateDir(j) \/ CreateFile(j) \/ CreateFails(j) \/ SetupFails(j)
               \/ Write(j) \/ WriteFails(j) \/ CloseFileNow(j) \/ FileClose(j))
  BY <1>1 DEF CreateDir, CreateFile, CreateFails, SetupFails, Write, WriteFails, CloseFileNow, FileClose
<1>3. ASSUME NEW j \in Jobs
      PROVE  ~(FoldCloseFails(j) \/ FileCloseFold(j) \/ FileSend(j) \/ FilePublish(j))
  BY <1>1 DEF FoldCloseFails, FileCloseFold, FileSend, FilePublish
<1>4. ~CoordSteps
  BY <1>1 DEF CoordSteps, CoordReceive, CoordCopy, CoordWait, CoordExit
<1>5. ~(CloseCalled \/ CloseCurrentFails \/ CloseCurrent \/ CloseCurrentReturns \/ CloseSpools
        \/ CloseHeader \/ CloseSignature \/ CloseWriteFails)
  BY DEF CloseCalled, CloseCurrentFails, CloseCurrent, CloseCurrentReturns, CloseSpools,
         CloseHeader, CloseSignature, CloseWriteFails
<1>6. CloseCurrentNow \/ CloseJoins
  BY <1>2, <1>3, <1>4, <1>5 DEF Next, CloseSteps
<1> QED BY <1>6 DEF CloseCurrentNow, CloseJoins

\* The header as CloseHeader writes it describes the folders.
LEMMA HeaderIs ==
    ASSUME TypeOK, NEW si, si = HeaderStreams
    PROVE  Describes(si)
<1>1. PICK m \in Nat : m = Len(folders)
  BY FolderTypes
<1>2. \A k \in 1 .. m : folders[k].n \in Nat /\ Len(folders[k].files) \in Nat
  <2>1. \A k \in 1 .. m : folders[k].n \in Nat /\ folders[k].files \in Seq(Jobs)
    BY <1>1, FolderTypes DEF Recs
  <2> QED BY <2>1, LenProperties
<1>3. si.pack = [k \in 1 .. m |-> folders[k].n]
  BY <1>1 DEF HeaderStreams
<1>4. si.packed = [k \in 1 .. m |-> 1]
  BY <1>1 DEF HeaderStreams
<1>5. si.streams = [k \in 1 .. m |-> Len(folders[k].files)]
  BY <1>1 DEF HeaderStreams
<1>6. si.size = FlattenSeq([k \in 1 .. m |-> Sizes(folders[k].files)])
  BY <1>1 DEF HeaderStreams, Sizes
<1>7. ASSUME NEW k \in 1 .. m
      PROVE  si.unpack[k] = PrefixSum(Sizes(folders[k].files), Len(folders[k].files))
  <2>1. si.unpack[k] = PrefixSum(Sizes(folders[k].files), Len(Sizes(folders[k].files)))
    BY <1>1 DEF HeaderStreams, Sizes
  <2>2. Len(Sizes(folders[k].files)) = Len(folders[k].files)
    BY <1>2 DEF Sizes
  <2> QED BY <2>1, <2>2
<1>8. si.pack \in Seq(Nat) /\ Len(si.pack) = m /\ \A k \in 1 .. m : si.pack[k] = folders[k].n
  BY <1>2, <1>3
<1>9. si.packed \in Seq(Nat) /\ Len(si.packed) = m /\ \A k \in 1 .. m : si.packed[k] = 1
  BY <1>4
<1>10. /\ si.streams \in Seq(Nat) /\ Len(si.streams) = m
       /\ \A k \in 1 .. m : si.streams[k] = Len(folders[k].files)
  BY <1>2, <1>5
<1> QED BY <1>1, <1>6, <1>7, <1>8, <1>9, <1>10 DEF Describes

\* Steps that leave the folders and the sizes keep what it describes.
LEMMA DescribedStill ==
    ASSUME NEW si, Describes(si), UNCHANGED <<opt, fold, late, folders, size>>
    PROVE  Describes(si)'
<1>1. \A k \in 1 .. Len(folders) :
         /\ folders'[k] = folders[k] /\ Settled(k)' = Settled(k)
         /\ Sizes(folders[k].files)' = Sizes(folders[k].files)
  BY DEF Settled, Concurrent, Sizes
<1>2. [k \in 1 .. Len(folders') |-> Sizes(folders[k].files)']
        = [k \in 1 .. Len(folders) |-> Sizes(folders[k].files)]
  BY <1>1
<1> QED BY <1>1, <1>2 DEF Describes, Concurrent

\* So do those of a late file: its folder is not settled.
LEMMA DescribedLate ==
    ASSUME TypeOK, FilesOfFolder, NEW si, Describes(si), Concurrent, NEW j \in late, Touches(j)
    PROVE  Describes(si)'
<1>1. /\ UNCHANGED <<opt, fold, late>> /\ Concurrent'
      /\ Len(folders') = Len(folders)
      /\ \A k \in 1 .. Len(folders) : /\ folders'[k].files = folders[k].files
                                      /\ k # fold[j] => folders'[k] = folders[k]
      /\ \A i \in Jobs : i # j => size'[i] = size[i]
  BY DEF Touches, Concurrent
<1>2. \A k : Settled(k)' <=> Settled(k)
  BY <1>1 DEF Settled, Concurrent
<1>3. ASSUME NEW k \in 1 .. Len(folders), Settled(k)
      PROVE  folders'[k] = folders[k] /\ Sizes(folders[k].files)' = Sizes(folders[k].files)
  <2>1. fold[j] # k
    BY <1>3 DEF Settled
  <2>2. folders'[k] = folders[k]
    BY <1>1, <2>1
  <2>3. ASSUME NEW i \in 1 .. Len(folders[k].files)
        PROVE  size'[folders[k].files[i]] = size[folders[k].files[i]]
    <3>1. folders[k].files \in Seq(Jobs)
      BY FolderTypes DEF Recs
    <3>2. folders[k].files[i] \in Jobs
      BY <3>1, ElementOfSeq
    <3>3. fold[folders[k].files[i]] = k
      BY DEF FilesOfFolder
    <3> QED BY <1>1, <2>1, <3>2, <3>3
  <2> QED BY <2>2, <2>3 DEF Sizes
<1>4. \A k \in 1 .. Len(folders) : si.streams[k] = Len(folders'[k].files)
  BY <1>1 DEF Describes
<1>5. \A k \in 1 .. Len(folders) : Settled(k) =>
         /\ si.pack[k] = folders'[k].n
         /\ si.unpack[k] = PrefixSum(Sizes(folders[k].files)', Len(folders'[k].files))
  BY <1>3 DEF Describes
<1> QED BY <1>1, <1>2, <1>4, <1>5 DEF Describes

\* The end of Writer.Close.
LEMMA EndingStep ==
    ASSUME Inv, Books, Sequential, Ending, Next
    PROVE  Ending'
<1>1. TypeOK /\ FilesOfFolder
  BY InvParts DEF Books
<1>2. CASE wpc' \notin {"header", "signature", "ok"}
  BY <1>2 DEF Ending
<1>3. CASE wpc' \in {"header", "signature", "ok"} /\ wpc \notin {"header", "signature", "ok"}
  <2>1. wpc' = "header" /\ (CloseCurrentNow \/ CloseJoins)
    BY <1>3, FirstLast
  <2>2. Concurrent' => ~coord'.err
    <3>1. CASE CloseCurrentNow
      BY <3>1 DEF CloseCurrentNow, Concurrent
    <3>2. CASE CloseJoins
      BY <1>1, <2>1, <3>2 DEF CloseJoins, TypeOK
    <3> QED BY <2>1, <3>1, <3>2
  <2> QED BY <2>1, <2>2 DEF Ending
<1>4. CASE wpc' \in {"header", "signature", "ok"} /\ wpc \in {"header", "signature", "ok"}
  <2>1. CASE CloseHeader
    <3>1. /\ wpc = "header" /\ wpc' = "signature" /\ hdr' = [si |-> HeaderStreams, files |-> files]
          /\ UNCHANGED <<opt, files, fold, late, folders, size, coord>>
      BY <2>1 DEF CloseHeader, writerVars, fileVars, coordVars
    <3>2. PICK si : si = HeaderStreams /\ hdr'.si = si /\ hdr'.files = files'
      BY <3>1
    <3>3. Describes(si)
      BY <1>1, <3>2, HeaderIs
    <3>4. Describes(si)'
      BY ONLY <3>1, <3>3, DescribedStill
    <3>5. Describes(hdr.si)'
      BY <3>2, <3>4
    <3> QED BY <3>1, <3>2, <3>5 DEF Ending, Concurrent
  <2>2. CASE CloseSignature \/ CloseWriteFails
    <3>1. /\ wpc' = "ok" => wpc = "signature"
          /\ UNCHANGED <<opt, files, fold, late, folders, size, coord, hdr>>
          /\ wpc' \in {"ok", "err"}
      BY <2>2 DEF CloseSignature, CloseWriteFails, writerVars, fileVars, coordVars
    <3>2. PICK si : si = hdr.si /\ si = hdr'.si
      BY <3>1
    <3>3. Describes(si) => Describes(si)'
      BY ONLY <3>1, DescribedStill
    <3> QED BY <3>1, <3>2, <3>3 DEF Ending, Concurrent
  <2>3. CASE Concurrent /\ \E j \in late : Touches(j)
    <3>1. PICK j \in late : Touches(j)
      BY <2>3
    <3>2. UNCHANGED <<opt, files, coord, wpc, hdr>>
      BY <3>1 DEF Touches
    <3>3. PICK si : si = hdr.si /\ si = hdr'.si
      BY <3>2
    <3>4. Describes(si) => Describes(si)'
      BY <1>1, <2>3, <3>1, DescribedLate
    <3> QED BY <3>2, <3>3, <3>4 DEF Ending, Concurrent
  <2> QED BY <1>4, <2>1, <2>2, <2>3, LastSteps
<1> QED BY <1>2, <1>3, <1>4

-----------------------------------------------------------------------------
\* Everything that is invariant about what is written.
RoundInv == Inv /\ Books /\ Finished /\ Sequential /\ Ending

\* A new writer has no files and no folders.
LEMMA RoundInit == Init => RoundInv
<1> SUFFICES ASSUME Init PROVE RoundInv
  OBVIOUS
<1>1. Inv
  BY InitInv
<1>2. /\ files = <<>> /\ folders = <<>> /\ out = <<>> /\ wpc = "open" /\ active = 0
      /\ pc = [j \in Jobs |-> "none"] /\ fold = [j \in Jobs |-> 0]
      /\ written = [j \in Jobs |-> 0]
  BY DEF Init
<1>3. PICK n \in Nat : n = 0 /\ Len(files) = n /\ Len(folders) = n
  BY <1>2
<1>4. \A i \in 1 .. n : FALSE
  BY <1>3
<1>5. Listed
  <2>1. Created = {}
    BY <1>2 DEF Created
  <2>2. IsFiniteSet(Created) /\ Cardinality(Created) = 0
    BY <2>1, FS_EmptySet
  <2> QED BY <1>2, <1>3, <1>4, <2>2 DEF Listed
<1>6. Placed /\ LastIsOpen
  <2>1. \A j \in Jobs : fold[j] = 0 /\ pc[j] = "none"
    BY <1>2
  <2>2. Placed
    BY <1>3, <2>1, JobsAssumption DEF Placed
  <2>3. LastIsOpen
    BY <2>1 DEF LastIsOpen
  <2> QED BY <2>2, <2>3
<1>7. FilesOfFolder /\ Content
  BY <1>3, <1>4 DEF FilesOfFolder, Content
<1>8. Numbered
  <2>1. Streams = 0
    BY <1>3 DEF Streams
  <2>2. StreamNumber(files, 0) = 0
    BY StreamNumbers
  <2> QED BY <1>3, <1>4, <2>1, <2>2 DEF Numbered
<1>9. Finished
  BY <1>2 DEF Finished, PastFold
<1>10. Sequential
  <2>1. BodyOf(folders) = <<>>
    <3>1. [k \in 1 .. Len(folders) |-> Copies(folders[k].n, k)] = <<>>
      BY <1>2
    <3> QED BY <3>1, FlattenEmpty DEF BodyOf
  <2> QED BY <1>2, <1>3, <2>1 DEF Sequential
<1>11. Ending
  BY <1>2 DEF Ending
<1> QED BY <1>1, <1>5, <1>6, <1>7, <1>8, <1>9, <1>10, <1>11 DEF RoundInv, Books

\* The books after a step of a file.
LEMMA FileBooks ==
    ASSUME Inv, Books, Finished, Sequential, NEW j \in Jobs,
           \/ CreateDir(j) \/ CreateFile(j) \/ CreateFails(j) \/ SetupFails(j)
           \/ Write(j) \/ WriteFails(j) \/ CloseFileNow(j) \/ FileClose(j)
           \/ FoldCloseFails(j) \/ FileCloseFold(j) \/ FileSend(j) \/ FilePublish(j)
    PROVE  Books' /\ Finished'
<1>1. TypeOK
  BY InvParts
<1>2. CASE CreateDir(j) \/ SetupFails(j)
  BY <1>2, CreateWithoutBooks
<1>3. CASE CreateFile(j)
  BY <1>3, CreateFileBooks
<1>4. CASE Write(j) \/ WriteFails(j)
  BY <1>4, WriteBooks, WriteFailsBooks
<1>5. CASE \/ CreateFails(j) \/ CloseFileNow(j) \/ FileClose(j)
           \/ FoldCloseFails(j) \/ FileCloseFold(j) \/ FileSend(j) \/ FilePublish(j)
  <2>1. Plain
    BY <1>5, PlainCreateFails, PlainFileNow, PlainFile, PlainFold
  <2> QED BY <1>1, <2>1, PlainKeeps
<1> QED BY <1>2, <1>3, <1>4, <1>5

\* The books after a step of the coordinator or of Writer.Close.
LEMMA OtherBooks ==
    ASSUME Inv, Books, Finished, CoordSteps \/ CloseCalled \/ CloseSteps
    PROVE  Books' /\ Finished'
<1>1. TypeOK
  BY InvParts
<1>2. Plain
  <2>1. CASE CoordCopy
    BY <1>1, <2>1, PlainCopy
  <2>2. CASE CloseCurrentNow \/ CloseCurrentFails \/ CloseCurrent
    BY <2>2, PlainCurrentNow, PlainCurrentFails, PlainCurrent
  <2>3. CASE CoordReceive \/ CoordWait \/ CoordExit
    BY <2>3, PlainQuiet DEF CoordReceive, CoordWait, CoordExit, writerVars, fileVars
  <2>4. CASE CloseCalled \/ CloseCurrentReturns \/ CloseSpools \/ CloseJoins
    BY <2>4, PlainQuiet DEF CloseCalled, CloseCurrentReturns, CloseSpools, CloseJoins,
                            writerVars, fileVars
  <2>5. CASE CloseHeader \/ CloseSignature \/ CloseWriteFails
    BY <2>5, PlainQuiet DEF CloseHeader, CloseSignature, CloseWriteFails, writerVars, fileVars
  <2> QED BY <2>1, <2>2, <2>3, <2>4, <2>5 DEF CoordSteps, CloseSteps
<1> QED BY <1>1, <1>2, PlainKeeps

\* The mode stays the same.
LEMMA SameMode == ASSUME [Next]_vars PROVE opt' = opt
<1>1. CASE UNCHANGED vars
  BY <1>1 DEF vars, writerVars
<1>2. ASSUME NEW j \in Jobs,
             \/ CreateDir(j) \/ CreateFile(j) \/ CreateFails(j) \/ SetupFails(j)
             \/ Write(j) \/ WriteFails(j) \/ CloseFileNow(j) \/ FileClose(j)
      PROVE  opt' = opt
  BY <1>2 DEF CreateDir, CreateFile, CreateFails, SetupFails, Write, WriteFails, CloseFileNow, FileClose, writerVars
<1>3. ASSUME NEW j \in Jobs, FoldCloseFails(j) \/ FileCloseFold(j) \/ FileSend(j) \/ FilePublish(j)
      PROVE  opt' = opt
  BY <1>3 DEF FoldCloseFails, FileCloseFold, FileSend, FilePublish, writerVars
<1>4. CASE CoordSteps \/ CloseCalled
  BY <1>4 DEF CoordSteps, CoordReceive, CoordCopy, CoordWait, CoordExit, CloseCalled, writerVars
<1>5. CASE CloseSteps
  BY <1>5 DEF CloseSteps, CloseCurrentNow, CloseCurrentFails, CloseCurrent, CloseCurrentReturns,
              CloseSpools, CloseJoins, CloseHeader, CloseSignature, CloseWriteFails, writerVars
<1> QED BY <1>1, <1>2, <1>3, <1>4, <1>5 DEF Next

\* The sequential and solid modes, step by step.
LEMMA SequentialStep ==
    ASSUME Inv, Placed, Sequential, Next
    PROVE  Sequential'
<1> SUFFICES ASSUME ~Concurrent PROVE Sequential'
  BY SameMode DEF Sequential, Concurrent
<1>1. /\ wpc \notin {"closing", "spools", "coordDone"} /\ coord.at = "gone"
      /\ \A j \in Jobs : pc[j] \notin {"folding", "sending", "publishing"}
  BY InvParts DEF Control, Coordinated, Sequential
<1>2. ASSUME NEW j \in Jobs,
             \/ CreateDir(j) \/ CreateFile(j) \/ CreateFails(j) \/ SetupFails(j)
             \/ Write(j) \/ WriteFails(j) \/ CloseFileNow(j) \/ FoldCloseFails(j)
      PROVE  Sequential'
  BY <1>2, SequentialWithout, SequentialCreateFile, SequentialCreateFails, SequentialWrite,
     SequentialWriteFails, SequentialCloseFile, SequentialCloseFails
<1>3. ASSUME NEW j \in Jobs
      PROVE  ~(FileClose(j) \/ FileCloseFold(j) \/ FileSend(j) \/ FilePublish(j))
  BY <1>1 DEF FileClose, FileCloseFold, FileSend, FilePublish
<1>4. ~CoordSteps
  BY <1>1 DEF CoordSteps, CoordReceive, CoordCopy, CoordWait, CoordExit
<1>5. ~(CloseCurrent \/ CloseCurrentReturns \/ CloseSpools \/ CloseJoins)
  BY <1>1 DEF CloseCurrent, CloseCurrentReturns, CloseSpools, CloseJoins
<1>6. CASE CloseCurrentNow \/ CloseCurrentFails
  BY <1>6, SequentialCurrentNow, SequentialCurrentFails
<1>7. CASE CloseCalled
  BY <1>7 DEF CloseCalled, Sequential, Concurrent, writerVars, fileVars
<1>8. CASE CloseHeader \/ CloseSignature \/ CloseWriteFails
  <2>1. /\ wpc \in {"header", "signature"} /\ wpc' \in {"signature", "ok", "err"}
        /\ UNCHANGED <<opt, folders, current, active, pc, fold, out>>
    BY <1>8 DEF CloseHeader, CloseSignature, CloseWriteFails, writerVars, fileVars
  <2> QED BY <2>1 DEF Sequential, Concurrent
<1> QED BY <1>2, <1>3, <1>4, <1>5, <1>6, <1>7, <1>8 DEF Next, CloseSteps

\* Every step preserves the invariant.
LEMMA RoundNext == RoundInv /\ [Next]_vars => RoundInv'
<1> SUFFICES ASSUME RoundInv, [Next]_vars PROVE RoundInv'
  OBVIOUS
<1>1. Inv /\ Books /\ Finished /\ Sequential /\ Ending /\ Inv'
  BY NextInv DEF RoundInv
<1>2. TypeOK /\ Placed
  BY <1>1, InvParts DEF Books
<1>3. CASE UNCHANGED vars
  <2>1. UNCHANGED <<opt, files, folders, current, active, pc, fold, written, size,
                    coord, wpc, out, hdr, late>>
    BY <1>3 DEF vars, writerVars, fileVars, coordVars
  <2>2. Books' /\ Finished'
    BY <1>1, <1>2, <2>1, PlainQuiet, PlainKeeps
  <2>3. Sequential'
    BY <1>1, <2>1 DEF Sequential, Concurrent
  <2>4. Ending'
    <3>1. PICK si : si = hdr.si /\ si = hdr'.si
      BY <2>1
    <3>2. Describes(si) => Describes(si)'
      BY ONLY <2>1, DescribedStill
    <3> QED BY <1>1, <2>1, <3>1, <3>2 DEF Ending, Concurrent
  <2> QED BY <1>1, <2>2, <2>3, <2>4 DEF RoundInv
<1>4. CASE Next
  <2>1. Books' /\ Finished'
    BY <1>1, <1>4, FileBooks, OtherBooks DEF Next
  <2>2. Sequential' /\ Ending'
    BY <1>1, <1>2, <1>4, SequentialStep, EndingStep
  <2> QED BY <1>1, <2>1, <2>2 DEF RoundInv
<1> QED BY <1>3, <1>4

-----------------------------------------------------------------------------
(* What a reader of the header finds.                                      *)

\* Running totals depend on what they add up only.
LEMMA TotalsAgree ==
    ASSUME NEW s \in Seq(Nat), NEW t \in Seq(Nat), NEW n \in Nat, n <= Len(s), n <= Len(t),
           \A k \in 1 .. n : s[k] = t[k]
    PROVE  PrefixSum(s, n) = PrefixSum(t, n)
<1> DEFINE G == {k \in 0 .. n : PrefixSum(s, k) = PrefixSum(t, k)}
<1>1. Len(s) \in Nat /\ Len(t) \in Nat
  BY LenProperties
<1>2. 0 \in G
  BY TotalsAre
<1>3. ASSUME NEW k \in 1 .. n, k - 1 \in G PROVE k \in G
  <2>1. k \in 1 .. Len(s) /\ k \in 1 .. Len(t) /\ k \in 0 .. n /\ k - 1 \in 0 .. n
    BY <1>1
  <2>2. PrefixSum(s, k) = PrefixSum(s, k - 1) + s[k] /\ PrefixSum(t, k) = PrefixSum(t, k - 1) + t[k]
    BY <2>1, TotalsAre
  <2>3. PrefixSum(s, k - 1) = PrefixSum(t, k - 1)
    BY <1>3
  <2> QED BY <2>1, <2>2, <2>3
<1> HIDE DEF G
<1>4. n \in G
  <2>1. \A k \in 0 .. n : k \in G
    BY <1>2, <1>3, Induct
  <2> QED BY <2>1
<1> QED BY <1>4 DEF G

\* Totals of ones.
LEMMA TotalsOfOnes ==
    ASSUME NEW s \in Seq(Nat), \A k \in 1 .. Len(s) : s[k] = 1
    PROVE  \A k \in 0 .. Len(s) : PrefixSum(s, k) = k
<1> DEFINE G == {k \in 0 .. Len(s) : PrefixSum(s, k) = k}
<1>1. Len(s) \in Nat
  BY LenProperties
<1>2. 0 \in G
  BY <1>1, TotalsAre
<1>3. ASSUME NEW k \in 1 .. Len(s), k - 1 \in G PROVE k \in G
  <2>1. PrefixSum(s, k) = PrefixSum(s, k - 1) + s[k] /\ PrefixSum(s, k - 1) = k - 1
    BY <1>3, TotalsAre
  <2> QED BY <1>1, <2>1
<1> HIDE DEF G
<1>4. \A k \in 0 .. Len(s) : k \in G
  BY <1>1, <1>2, <1>3, Induct
<1> QED BY <1>4 DEF G

\* Every number up to a file's is one of a file before it.
LEMMA NumbersTaken ==
    ASSUME NEW fs, NEW p \in Nat, NEW x \in 1 .. StreamNumber(fs, p)
    PROVE  \E q \in 1 .. p : fs[q] \notin Dirs /\ StreamNumber(fs, q) = x
<1> DEFINE G == {k \in 0 .. p : \A y \in 1 .. StreamNumber(fs, k) :
                                   \E q \in 1 .. k : fs[q] \notin Dirs /\ StreamNumber(fs, q) = y}
<1>1. 0 \in G
  <2>1. StreamNumber(fs, 0) = 0
    BY StreamNumbers
  <2> QED BY <2>1
<1>2. ASSUME NEW k \in 1 .. p, k - 1 \in G PROVE k \in G
  <2>1. PICK a \in Nat, b \in Nat : a = StreamNumber(fs, k - 1) /\ b = StreamNumber(fs, k)
                                    /\ b = a + IF fs[k] \in Dirs THEN 0 ELSE 1
    <3>1. k - 1 \in Nat /\ k \in Nat /\ (k - 1) + 1 = k
      OBVIOUS
    <3>2. PICK l \in Nat : l = k - 1 /\ l + 1 = k
      BY <3>1
    <3>3. \A r \in Nat : StreamNumber(fs, r) \in Nat
      <4>1. \A r \in Nat : StreamNumber(fs, r) \in 0 .. r
        BY StreamNumbers
      <4> QED BY <4>1
    <3>4. StreamNumber(fs, l + 1) = StreamNumber(fs, l) + IF fs[l + 1] \in Dirs THEN 0 ELSE 1
      BY StreamNumbers
    <3> QED BY <3>2, <3>3, <3>4
  <2>2. ASSUME NEW y \in 1 .. b
        PROVE  \E q \in 1 .. k : fs[q] \notin Dirs /\ StreamNumber(fs, q) = y
    <3>1. CASE y \in 1 .. a
      <4>1. PICK q \in 1 .. k - 1 : fs[q] \notin Dirs /\ StreamNumber(fs, q) = y
        BY <1>2, <2>1, <3>1
      <4>2. q \in 1 .. k
        OBVIOUS
      <4> QED BY <4>1, <4>2
    <3>2. CASE y \notin 1 .. a
      <4>1. fs[k] \notin Dirs /\ y = b /\ k \in 1 .. k
        BY <2>1, <3>2
      <4> QED BY <2>1, <4>1
    <3> QED BY <3>1, <3>2
  <2>3. k \in 0 .. p
    OBVIOUS
  <2> QED BY <2>1, <2>2, <2>3
<1> HIDE DEF G
<1>3. p \in G
  <2>1. \A k \in 0 .. p : k \in G
    BY <1>1, <1>2, Induct
  <2> QED BY <2>1
<1> QED BY <1>3 DEF G

\* The recursion of the offsets.
LEMMA OffsetsAre ==
    ASSUME NEW si, NEW n \in Nat, \A i \in 1 .. n - 1 : FileSize(si, i) \in Nat
    PROVE  \A i \in 1 .. n : FileOffsets(si, n)[i]
              = IF i = 1 \/ FileFolder(si, i - 1) # FileFolder(si, i) THEN 0
                ELSE FileOffsets(si, n)[i - 1] + FileSize(si, i - 1)
<1> DEFINE begins(i) == i = 1 \/ FileFolder(si, i - 1) # FileFolder(si, i)
           step == [v \in Nat \X (1 .. n) |-> IF begins(v[2]) THEN 0
                                              ELSE v[1] + FileSize(si, v[2] - 1)]
           Is(f) == f = [i \in 1 .. n |-> IF begins(i) THEN 0 ELSE f[i - 1] + FileSize(si, i - 1)]
<1>1. \A v \in Nat, k \in 1 .. n :
         step[<<v, k>>] = IF begins(k) THEN 0 ELSE v + FileSize(si, k - 1)
  OBVIOUS
<1>2. step \in [Nat \X (1 .. n) -> Nat]
  <2>1. ASSUME NEW v \in Nat, NEW k \in 1 .. n
        PROVE  (IF begins(k) THEN 0 ELSE v + FileSize(si, k - 1)) \in Nat
    <3>1. CASE k = 1
      BY <3>1
    <3>2. CASE k # 1
      <4>1. k - 1 \in 1 .. n - 1
        BY <3>2
      <4>2. PICK z \in Nat : z = FileSize(si, k - 1)
        BY <4>1
      <4> QED BY <4>2
    <3> QED BY <3>1, <3>2
  <2> HIDE DEF begins
  <2> QED BY <2>1
<1> HIDE DEF step, begins
<1>3. PICK f : Recurs(f, n, Nat, 0, step)
  BY <1>2, RecursionExists
<1>4. /\ f \in [0 .. n -> Nat]
      /\ \A k \in 1 .. n : f[k] = IF begins(k) THEN 0 ELSE f[k - 1] + FileSize(si, k - 1)
  <2>1. /\ f \in [0 .. n -> Nat]
        /\ \A k \in 1 .. n : f[k] = step[<<f[k - 1], k>>]
    BY <1>3 DEF Recurs
  <2>2. \A k \in 1 .. n : f[k - 1] \in Nat
    BY <2>1
  <2> QED BY <1>1, <2>1, <2>2
<1>5. PICK g : g = [i \in 1 .. n |-> f[i]]
  OBVIOUS
<1>6. Is(g)
  <2>1. ASSUME NEW i \in 1 .. n
        PROVE  f[i] = IF begins(i) THEN 0 ELSE g[i - 1] + FileSize(si, i - 1)
    <3>1. CASE begins(i)
      BY <1>4, <3>1
    <3>2. CASE ~begins(i)
      <4>1. i # 1
        BY <3>2 DEF begins
      <4>2. i - 1 \in 1 .. n
        BY <4>1
      <4>3. g[i - 1] = f[i - 1]
        BY <1>5, <4>2
      <4> QED BY <1>4, <3>2, <4>3
    <3> QED BY <3>1, <3>2
  <2> QED BY <1>5, <2>1
<1>7. Is(CHOOSE h : Is(h))
  BY <1>6
<1>8. PICK t : t = FileOffsets(si, n) /\ Is(t)
  <2>1. FileOffsets(si, n) = CHOOSE h : Is(h)
    BY DEF FileOffsets, begins
  <2> QED BY <1>7, <2>1
<1>9. \A i \in 1 .. n : t[i] = IF begins(i) THEN 0 ELSE t[i - 1] + FileSize(si, i - 1)
  BY <1>8
<1> QED BY <1>8, <1>9 DEF begins

\* The first file of a folder.
LEMMA FirstOffset ==
    ASSUME NEW si, NEW n \in Nat, n # 0, \A i \in 1 .. n - 1 : FileSize(si, i) \in Nat,
           n = 1 \/ FileFolder(si, n - 1) # FileFolder(si, n)
    PROVE  FileOffset(si, n) = 0
<1>1. n \in 1 .. n
  OBVIOUS
<1> QED BY <1>1, OffsetsAre DEF FileOffset

\* The files of one folder lie one behind the other.
LEMMA NextOffset ==
    ASSUME NEW si, NEW w \in Seq(Nat), NEW n \in Nat, n # 0, n <= Len(w),
           \A i \in 1 .. n : FileFolder(si, i) = 1 /\ FileSize(si, i) = w[i]
    PROVE  FileOffset(si, n) = PrefixSum(w, n - 1)
<1>1. PICK t : t = FileOffsets(si, n)
  OBVIOUS
<1>2. Len(w) \in Nat /\ \A i \in 1 .. n : i \in 1 .. Len(w) /\ w[i] \in Nat
  BY LenProperties, ElementOfSeq
<1>3. \A i \in 1 .. n - 1 : i \in 1 .. n /\ FileSize(si, i) \in Nat
  BY <1>2
<1>4. \A i \in 1 .. n : t[i] = IF i = 1 \/ FileFolder(si, i - 1) # FileFolder(si, i) THEN 0
                               ELSE t[i - 1] + FileSize(si, i - 1)
  BY <1>1, <1>3, OffsetsAre
<1> DEFINE G == {k \in 0 .. n : k # 0 => t[k] = PrefixSum(w, k - 1)}
<1>5. 0 \in G
  OBVIOUS
<1>6. ASSUME NEW k \in 1 .. n, k - 1 \in G PROVE k \in G
  <2>1. CASE k = 1
    <3>1. t[1] = 0 /\ PrefixSum(w, 0) = 0
      BY <1>4, <2>1, TotalsAre
    <3> QED BY <2>1, <3>1
  <2>2. CASE k # 1
    <3>1. k - 1 \in 1 .. n /\ k - 1 # 0 /\ k - 1 \in 1 .. Len(w)
      BY <1>2, <2>2
    <3>2. t[k] = t[k - 1] + FileSize(si, k - 1)
      BY <1>4, <2>2, <3>1
    <3>3. FileSize(si, k - 1) = w[k - 1]
      BY <3>1
    <3>4. t[k - 1] = PrefixSum(w, k - 1 - 1)
      BY <1>6, <3>1
    <3>5. PrefixSum(w, k - 1) = PrefixSum(w, k - 1 - 1) + w[k - 1]
      BY <3>1, TotalsAre
    <3> QED BY <3>2, <3>3, <3>4, <3>5
  <2> QED BY <2>1, <2>2
<1> HIDE DEF G
<1>7. n \in G
  <2>1. \A k \in 0 .. n : k \in G
    BY <1>5, <1>6, Induct
  <2> QED BY <2>1
<1> QED BY <1>1, <1>7 DEF G, FileOffset

\* The folder of a file, when every folder has one.
LEMMA FolderAlone ==
    ASSUME NEW si, si.streams \in Seq(Nat), \A k \in 1 .. Len(si.streams) : si.streams[k] = 1,
           NEW n \in 1 .. Len(si.streams)
    PROVE  FileFolder(si, n) = n
<1>1. PICK m \in Nat : m = Len(si.streams)
  BY LenProperties
<1>2. \A k \in 1 .. m : PrefixSum(si.streams, k) = k
  <2>1. PICK s \in Seq(Nat) : s = si.streams
    OBVIOUS
  <2>2. \A k \in 0 .. Len(s) : PrefixSum(s, k) = k
    BY <2>1, TotalsOfOnes
  <2> QED BY <1>1, <2>1, <2>2
<1>3. PICK c : c = {k \in 1 .. m : n <= PrefixSum(si.streams, k)}
  OBVIOUS
<1>4. c = n .. m /\ n \in c /\ n \in 1 .. m
  BY <1>1, <1>2, <1>3
<1>5. Min(c) = n
  <2>1. \A x \in c : (\A y \in c : x <= y) => x = n
    BY <1>1, <1>4
  <2>2. \A y \in c : n <= y
    BY <1>4
  <2> QED BY <1>4, <2>1, <2>2 DEF Min
<1> QED BY <1>1, <1>3, <1>4, <1>5 DEF FileFolder

\* The folder of a file, when there is one folder.
LEMMA FolderOnly ==
    ASSUME NEW si, si.streams \in Seq(Nat), Len(si.streams) = 1, NEW n \in 1 .. si.streams[1]
    PROVE  FileFolder(si, n) = 1
<1>1. PICK s \in Seq(Nat), r \in Nat : s = si.streams /\ r = s[1] /\ Len(s) = 1
  <2>1. 1 \in 1 .. Len(si.streams)
    OBVIOUS
  <2> QED BY <2>1, ElementOfSeq
<1>2. PrefixSum(s, 1) = r
  <2>1. 1 \in 1 .. Len(s) /\ 1 - 1 = 0
    BY <1>1
  <2>2. PrefixSum(s, 1) = PrefixSum(s, 1 - 1) + s[1] /\ PrefixSum(s, 0) = 0
    BY <2>1, TotalsAre
  <2> QED BY <1>1, <2>1, <2>2
<1>3. PICK c : c = {k \in 1 .. Len(si.streams) : n <= PrefixSum(si.streams, k)}
  OBVIOUS
<1>4. c = {1}
  <2>1. \A k : k \in 1 .. Len(si.streams) <=> k = 1
    BY <1>1
  <2>2. n <= PrefixSum(si.streams, 1)
    BY <1>1, <1>2
  <2> QED BY <1>3, <2>1, <2>2
<1>5. Min({1}) = 1
  BY DEF Min
<1> QED BY <1>3, <1>4, <1>5 DEF FileFolder

\* The body when the archive is complete: the chunks of the first l folders, which are
\* all of them or those the coordinator copied.
LEMMA BodyAtEnd ==
    ASSUME RoundInv, wpc = "ok", ~SpillLost, NEW m \in Nat, m = Len(folders), NEW k \in 1 .. m,
           Concurrent => k < coord.seq
    PROVE  \E l \in 1 .. m : k <= l /\ out = FlattenSeq([i \in 1 .. l |-> Copies(folders[i].n, i)])
<1>1. TypeOK /\ BodyInOrder
  BY DEF RoundInv, Inv
<1>2. CASE ~Concurrent
  <2>1. out = FlattenSeq([i \in 1 .. m |-> Copies(folders[i].n, i)])
    BY <1>2 DEF RoundInv, Sequential, BodyOf
  <2>2. k <= m /\ m \in 1 .. m
    OBVIOUS
  <2> QED BY <2>1, <2>2
<1>3. CASE Concurrent
  <2>1. PICK l \in 1 .. m : l = coord.seq - 1 /\ k <= l
    <3>1. coord.seq \in 1 .. m + 1 /\ k < coord.seq
      BY <1>1, <1>3 DEF TypeOK
    <3> QED BY <3>1
  <2>2. ~coord.err
    BY <1>3 DEF RoundInv, Ending
  <2>3. out = FlattenSeq([i \in 1 .. l |-> [x \in 1 .. folders[i].kept |-> i]])
    BY <1>1, <1>3, <2>1, <2>2 DEF BodyInOrder
  <2>4. \A i \in 1 .. l : [x \in 1 .. folders[i].kept |-> i] = Copies(folders[i].n, i)
    <3>1. \A i \in 1 .. l : folders[i].kept = folders[i].n
      BY DEF SpillLost
    <3> QED BY <3>1 DEF Copies
  <2>5. [i \in 1 .. l |-> [x \in 1 .. folders[i].kept |-> i]]
          = [i \in 1 .. l |-> Copies(folders[i].n, i)]
    BY <2>4
  <2> QED BY <2>1, <2>3, <2>5
<1> QED BY <1>2, <1>3

\* The packed bytes of a folder are whole and where the header says.
LEMMA PackedWhole ==
    ASSUME RoundInv, wpc = "ok", ~SpillLost, NEW m \in Nat, m = Len(folders), NEW k \in 1 .. m,
           Concurrent => k < coord.seq, NEW si, Describes(si), \A i \in 1 .. k : Settled(i)
    PROVE  Part(out, FolderOffset(si, k), si.pack[k]) = Copies(folders[k].n, k)
<1>1. TypeOK
  BY DEF RoundInv, Inv
<1>2. PICK pack \in Seq(Nat), packed \in Seq(Nat) :
         /\ pack = si.pack /\ packed = si.packed /\ Len(pack) = m /\ Len(packed) = m
         /\ \A i \in 1 .. m : packed[i] = 1
         /\ \A i \in 1 .. k : pack[i] = folders[i].n
  <2>1. si.pack \in Seq(Nat) /\ Len(si.pack) = m
    BY DEF Describes
  <2>2. si.packed \in Seq(Nat) /\ Len(si.packed) = m /\ \A i \in 1 .. m : si.packed[i] = 1
    BY DEF Describes
  <2>3. \A i \in 1 .. k : i \in 1 .. m
    OBVIOUS
  <2>4. \A i \in 1 .. k : si.pack[i] = folders[i].n
    BY <2>3 DEF Describes
  <2> QED BY <2>1, <2>2, <2>4
<1>3. FolderOffset(si, k) = PrefixSum(pack, k - 1)
  <2>1. \A i \in 0 .. Len(packed) : PrefixSum(packed, i) = i
    BY <1>2, TotalsOfOnes
  <2>2. k - 1 \in 0 .. Len(packed)
    BY <1>2
  <2> QED BY <1>2, <2>1, <2>2 DEF FolderOffset
<1>4. PICK l \in 1 .. m : k <= l /\ out = FlattenSeq([i \in 1 .. l |-> Copies(folders[i].n, i)])
  BY BodyAtEnd
<1>5. \A i \in 1 .. l : folders[i].n \in Nat /\ i \in 1 .. m /\ i \in Nat
  <2>1. \A i \in 1 .. m : folders[i].n \in Nat
    BY <1>1, FolderTypes DEF Recs
  <2> QED BY <2>1
<1>6. PICK c, w : /\ c = [i \in 1 .. l |-> Copies(folders[i].n, i)]
                  /\ w = [i \in 1 .. l |-> folders[i].n]
  OBVIOUS
<1>7. \A i \in 1 .. l : Copies(folders[i].n, i) \in Seq(Nat) /\ Len(Copies(folders[i].n, i)) = folders[i].n
  BY <1>5, CopiesType
<1>8. /\ c \in Seq(Seq(Nat)) /\ Len(c) = l
      /\ \A i \in 1 .. l : c[i] = Copies(folders[i].n, i) /\ w[i] = folders[i].n
      /\ w \in Seq(Nat) /\ Len(w) = l
  <2>1. l \in Nat
    OBVIOUS
  <2>2. c \in Seq(Seq(Nat)) /\ Len(c) = l
    BY <1>6, <1>7, <2>1
  <2>3. w \in Seq(Nat) /\ Len(w) = l
    BY <1>5, <1>6, <2>1
  <2>4. \A i \in 1 .. l : c[i] = Copies(folders[i].n, i) /\ w[i] = folders[i].n
    BY <1>6
  <2> QED BY <2>2, <2>3, <2>4
<1>9. k \in 1 .. l /\ k - 1 \in 0 .. l /\ k \in 0 .. l /\ k - 1 \in Nat
  BY <1>4
<1>10. HasPart(out, c, Totals(w), k)
  <2>1. Len(w) = Len(c) /\ \A i \in 1 .. Len(c) : w[i] = Len(c[i])
    BY <1>7, <1>8
  <2>2. PICK S : S = Nat /\ c \in Seq(Seq(S))
    BY <1>8
  <2>3. c \in Seq(Seq(S)) /\ w \in Seq(Nat)
    BY <1>8, <2>2
  <2>4. \A i \in 1 .. Len(c) : HasPart(FlattenSeq(c), c, Totals(w), i)
    BY ONLY <2>1, <2>3, FlattenParts
  <2> QED BY <1>4, <1>6, <1>8, <1>9, <2>4
<1>11. PICK from \in Nat, n \in Nat : /\ from = PrefixSum(w, k - 1) /\ from = PrefixSum(pack, k - 1)
                                      /\ n = folders[k].n
  <2>1. k - 1 <= Len(w) /\ k - 1 <= Len(pack) /\ \A i \in 1 .. k - 1 : w[i] = pack[i]
    <3>1. \A i \in 1 .. k - 1 : i \in 1 .. l /\ i \in 1 .. k
      BY <1>4
    <3>2. k - 1 <= l /\ k - 1 <= m
      BY <1>4
    <3> QED BY <1>2, <1>8, <3>1, <3>2
  <2>2. PrefixSum(w, k - 1) = PrefixSum(pack, k - 1)
    BY <1>8, <1>9, <2>1, TotalsAgree
  <2>3. PrefixSum(w, k - 1) \in Nat
    BY <1>8, <1>9, TotalsAre
  <2> QED BY <1>5, <1>9, <2>2, <2>3
<1>12. PICK u \in Seq(Nat) : u = Copies(n, k) /\ u = c[k] /\ Len(u) = n
  BY <1>7, <1>8, <1>9, <1>11
<1>13. from + Len(u) <= Len(out) /\ \A x \in 1 .. Len(u) : out[from + x] = u[x]
  <2>1. PICK q : q = Totals(w) /\ q[k - 1] = from
    BY <1>11 DEF PrefixSum
  <2>2. q[k] <= Len(out) /\ q[k] = q[k - 1] + Len(c[k])
        /\ \A x \in 1 .. Len(c[k]) : out[q[k - 1] + x] = c[k][x]
    BY <1>10, <2>1 DEF HasPart
  <2> QED BY <1>12, <2>1, <2>2
<1>14. PICK t \in Seq(Nat) : t = out
  <2>1. out \in Seq(Nat)
    BY <1>4, <1>6, <1>8, FlattenType
  <2> QED BY <2>1
<1>15. from + Len(u) <= Len(t) /\ \A x \in 1 .. Len(u) : t[from + x] = u[x]
  BY <1>13, <1>14
<1>16. Part(t, from, Len(u)) = u
  <2>1. PICK S : S = Nat /\ t \in Seq(S) /\ u \in Seq(S)
    OBVIOUS
  <2>2. t \in Seq(S) /\ u \in Seq(S) /\ from \in Nat
    BY <2>1
  <2> QED BY ONLY <1>15, <2>2, PartOf
<1>17. si.pack[k] = n
  <2>1. k \in 1 .. k
    OBVIOUS
  <2> QED BY <1>2, <1>11, <2>1
<1> QED BY <1>3, <1>11, <1>12, <1>14, <1>16, <1>17

\* A file's part of the content of its folder is what was written to it.
LEMMA ContentPart ==
    ASSUME TypeOK, Books, NEW k \in 1 .. Len(folders), NEW fs, fs = folders[k].files,
           NEW i \in 1 .. Len(fs), NEW v \in Seq(Nat), i <= Len(v) + 1,
           \A x \in 1 .. i - 1 : v[x] = written[fs[x]]
    PROVE  Part(folders[k].data, PrefixSum(v, i - 1), written[fs[i]]) = Copies(written[fs[i]], fs[i])
<1>1. PICK gs \in Seq(Jobs), l \in Nat : gs = fs /\ l = Len(gs)
  BY FolderTypes, LenProperties DEF Recs
<1>2. PICK ww \in [Jobs -> 0 .. MaxUnits] : ww = written
  BY DEF TypeOK
<1>3. PICK c : c = Parts(gs, ww)
  OBVIOUS
<1>4. /\ c \in Seq(Seq(Jobs)) /\ Len(c) = l
      /\ \A x \in 1 .. l : /\ c[x] = Copies(ww[gs[x]], gs[x])
                           /\ c[x] \in Seq(Jobs) /\ Len(c[x]) = ww[gs[x]]
                           /\ ww[gs[x]] \in Nat
  <2>1. c \in Seq(Seq(Jobs)) /\ Len(c) = Len(gs)
    BY <1>3, PartsType
  <2>2. \A x \in 1 .. Len(gs) :
           /\ Parts(gs, ww)[x] = Copies(ww[gs[x]], gs[x])
           /\ Copies(ww[gs[x]], gs[x]) \in Seq(Jobs)
           /\ Len(Copies(ww[gs[x]], gs[x])) = ww[gs[x]]
           /\ ww[gs[x]] \in Nat
    BY PartsType
  <2>3. \A x \in 1 .. l : /\ c[x] = Copies(ww[gs[x]], gs[x])
                          /\ Copies(ww[gs[x]], gs[x]) \in Seq(Jobs)
                          /\ Len(Copies(ww[gs[x]], gs[x])) = ww[gs[x]]
                          /\ ww[gs[x]] \in Nat
    BY <1>1, <1>3, <2>2
  <2>4. ASSUME NEW x \in 1 .. l
        PROVE  c[x] \in Seq(Jobs) /\ Len(c[x]) = ww[gs[x]]
    BY <2>3
  <2> QED BY <1>1, <2>1, <2>3, <2>4
<1>5. folders[k].data = FlattenSeq(c)
  BY <1>1, <1>2, <1>3 DEF Books, Content
<1>6. PICK w : w = [x \in 1 .. l |-> ww[gs[x]]]
  OBVIOUS
<1>7. w \in Seq(Nat) /\ Len(w) = l /\ \A x \in 1 .. l : w[x] = Len(c[x]) /\ w[x] = ww[gs[x]]
  <2>1. \A x \in 1 .. l : w[x] = Len(c[x]) /\ w[x] = ww[gs[x]]
    BY <1>4, <1>6
  <2>2. \A x \in 1 .. l : ww[gs[x]] \in Nat
    BY <1>4
  <2>3. w \in Seq(Nat) /\ Len(w) = l
    BY ONLY l \in Nat, <1>6, <2>2
  <2> QED BY <2>1, <2>3
<1>8. i \in 1 .. l /\ i - 1 \in 0 .. l /\ i - 1 \in Nat
  BY <1>1
<1>9. HasPart(folders[k].data, c, Totals(w), i)
  <2>1. Len(w) = Len(c) /\ (\A x \in 1 .. Len(c) : w[x] = Len(c[x])) /\ c \in Seq(Seq(Jobs)) /\ w \in Seq(Nat)
    BY <1>4, <1>7
  <2>2. \A x \in 1 .. Len(c) : HasPart(FlattenSeq(c), c, Totals(w), x)
    BY ONLY <2>1, FlattenParts
  <2> QED BY <1>4, <1>5, <1>8, <2>2
<1>10. PICK from \in Nat, n \in Nat : /\ from = PrefixSum(w, i - 1) /\ from = PrefixSum(v, i - 1)
                                      /\ n = written[fs[i]]
  <2>1. Len(v) \in Nat
    BY LenProperties
  <2>2. i - 1 <= Len(w) /\ i - 1 <= Len(v) /\ \A x \in 1 .. i - 1 : w[x] = v[x]
    <3>1. PICK y \in Nat, z \in Nat : y = Len(v) /\ z = i /\ z <= y + 1 /\ z <= l /\ z # 0
      BY <1>1, <1>8, <2>1
    <3>2. i - 1 <= l /\ i - 1 <= Len(v)
      BY <3>1
    <3>3. \A x \in 1 .. i - 1 : x \in 1 .. l
      BY <1>8
    <3> QED BY <1>1, <1>2, <1>7, <3>2, <3>3
  <2>3. PrefixSum(w, i - 1) = PrefixSum(v, i - 1)
    BY <1>7, <1>8, <2>2, TotalsAgree
  <2>4. PrefixSum(w, i - 1) \in Nat
    BY <1>7, <1>8, TotalsAre
  <2> QED BY <1>1, <1>2, <1>4, <1>8, <2>3, <2>4
<1>11. PICK u \in Seq(Jobs) : u = Copies(n, fs[i]) /\ u = c[i] /\ Len(u) = n
  BY <1>1, <1>2, <1>4, <1>8, <1>10
<1>12. PICK t \in Seq(Jobs) : t = folders[k].data
  BY FolderTypes DEF Recs
<1>13. from + Len(u) <= Len(t) /\ \A x \in 1 .. Len(u) : t[from + x] = u[x]
  <2>1. PICK q : q = Totals(w) /\ q[i - 1] = from
    BY <1>10 DEF PrefixSum
  <2>2. q[i] <= Len(t) /\ q[i] = q[i - 1] + Len(c[i])
        /\ \A x \in 1 .. Len(c[i]) : t[q[i - 1] + x] = c[i][x]
    BY <1>9, <1>12, <2>1 DEF HasPart
  <2> QED BY <1>11, <2>1, <2>2
<1>14. Part(t, from, Len(u)) = u
  BY ONLY t \in Seq(Jobs), u \in Seq(Jobs), from \in Nat, <1>13, PartOf
<1> QED BY <1>10, <1>11, <1>12, <1>14

\* When Writer.Close returns nil, every fileWriter has been closed but those too late.
LEMMA AllClosed ==
    ASSUME RoundInv, wpc = "ok", NEW j \in Jobs, j \notin late
    PROVE  pc[j] \in {"none", "done", "error"}
<1>1. TypeOK /\ Control /\ Sequential
  BY InvParts DEF RoundInv
<1>2. CASE ~Concurrent
  BY <1>1, <1>2 DEF Sequential
<1>3. CASE Concurrent
  <2>1. pc[j] \notin {"folding", "sending", "publishing", "open", "panic"}
    BY <1>1, <1>3 DEF Control, Belated, Unfinished, NoSendOnClosedChannel
  <2> QED BY <1>1, <2>1 DEF TypeOK, FilePcs
<1> QED BY <1>2, <1>3

\* When nothing failed up to the p-th file and none was late, the files with a stream up to it are the first
\* ones in the folders, and are complete.
LEMMA FilesAtEnd ==
    ASSUME RoundInv, wpc = "ok", NEW p \in 1 .. Len(files), files[p] \notin Dirs,
           \A q \in 1 .. p : pc[files[q]] # "error",
           \A q \in 1 .. p : files[q] \in Dirs \/ files[q] \notin late,
           NEW n, n = StreamNumber(files, p)
    PROVE  /\ n \in 1 .. Streams /\ StreamAt(n) = files[p]
           /\ \A x \in 1 .. n : /\ StreamAt(x) \in Jobs /\ StreamAt(x) \notin late
                                /\ pc[StreamAt(x)] = "done"
                                /\ size[StreamAt(x)] = written[StreamAt(x)]
<1>1. TypeOK /\ Listed /\ Placed /\ Numbered /\ Finished
  BY InvParts DEF RoundInv, Books
<1>2. PICK l \in Nat : l = Len(files) /\ p \in 1 .. l
  BY <1>1, LenProperties DEF TypeOK
<1>3. ASSUME NEW q \in 1 .. p, files[q] \notin Dirs
      PROVE  /\ q \in 1 .. Len(files) /\ files[q] \in Jobs /\ files[q] \notin late
             /\ pc[files[q]] = "done" /\ fold[files[q]] # 0
  <2>1. q \in 1 .. Len(files)
    BY <1>2
  <2>2. files[q] \in Jobs
    BY <1>1, <2>1, ElementOfSeq DEF TypeOK
  <2>3. pc[files[q]] # "none"
    BY <1>1, <2>1, <2>2 DEF Listed
  <2>4. pc[files[q]] = "done"
    BY <1>3, <2>2, <2>3, AllClosed
  <2> QED BY <1>1, <1>3, <2>1, <2>2, <2>4 DEF Placed
<1>4. ASSUME NEW q \in 1 .. p, files[q] \notin Dirs
      PROVE  /\ StreamNumber(files, q) \in 1 .. Streams
             /\ StreamAt(StreamNumber(files, q)) = files[q]
  <2>1. \A r \in 1 .. q : r \in 1 .. p
    OBVIOUS
  <2>2. AllFolded(q)
    BY <1>3, <2>1 DEF AllFolded
  <2>3. q \in 1 .. Len(files)
    BY <1>3, <1>4
  <2> QED BY <1>1, <1>4, <2>2, <2>3 DEF Numbered
<1>5. n \in 1 .. Streams /\ StreamAt(n) = files[p]
  <2>1. p \in 1 .. p
    BY <1>2
  <2> QED BY <1>4, <2>1
<1>6. ASSUME NEW x \in 1 .. n
      PROVE  /\ StreamAt(x) \in Jobs /\ StreamAt(x) \notin late /\ pc[StreamAt(x)] = "done"
             /\ size[StreamAt(x)] = written[StreamAt(x)]
  <2>1. p \in Nat /\ x \in 1 .. StreamNumber(files, p)
    BY <1>2
  <2>2. PICK q \in 1 .. p : files[q] \notin Dirs /\ StreamNumber(files, q) = x
    BY ONLY <2>1, NumbersTaken
  <2>3. StreamAt(x) = files[q]
    BY <1>4, <2>2
  <2> QED BY <1>1, <1>3, <2>2, <2>3 DEF Finished
<1> QED BY <1>5, <1>6

\* The sizes of a folder's files.
LEMMA SizesType ==
    ASSUME TypeOK, NEW k \in 1 .. Len(folders), NEW fs, fs = folders[k].files
    PROVE  /\ Sizes(fs) \in Seq(Nat) /\ Len(Sizes(fs)) = Len(fs) /\ Len(fs) \in Nat
           /\ \A i \in 1 .. Len(fs) : Sizes(fs)[i] = size[fs[i]] /\ fs[i] \in Jobs
<1>1. fs \in Seq(Jobs)
  BY FolderTypes DEF Recs
<1>2. Len(fs) \in Nat /\ \A i \in 1 .. Len(fs) : fs[i] \in Jobs
  BY <1>1, LenProperties, ElementOfSeq
<1>3. \A i \in 1 .. Len(fs) : size[fs[i]] \in Nat
  <2>1. PICK x \in Nat : x = MaxUnits
    BY BoundsAssumption
  <2>2. \A j \in Jobs : size[j] \in 0 .. x
    BY <2>1 DEF TypeOK
  <2> QED BY <1>2, <2>2
<1> QED BY <1>2, <1>3 DEF Sizes

\* A folder of one file has its size.
LEMMA SizeOfOne ==
    ASSUME NEW w \in Seq(Nat), Len(w) = 1
    PROVE  PrefixSum(w, 1) = w[1]
<1>1. 1 \in 1 .. Len(w) /\ 1 - 1 = 0
  OBVIOUS
<1>2. 1 \in 1 .. Len(w) /\ 1 - 1 = 0 /\ w[1] \in Nat
  BY <1>1, ElementOfSeq
<1>3. PrefixSum(w, 1) = PrefixSum(w, 1 - 1) + w[1] /\ PrefixSum(w, 0) = 0
  BY <1>2, TotalsAre
<1> QED BY <1>2, <1>3

\* Without solid folders the n-th file with a stream is the only one of folder n.
LEMMA AloneInFolder ==
    ASSUME RoundInv, ~opt.solid, NEW si, Describes(si), NEW m \in Nat, m = Len(folders),
           NEW n \in 1 .. m, \A i \in 1 .. n : Settled(i)
    PROVE  /\ FileFolder(si, n) = n /\ FileOffset(si, n) = 0
           /\ Len(folders[n].files) = 1 /\ FileSize(si, n) = size[folders[n].files[1]]
           /\ fold[folders[n].files[1]] = n
<1>1. TypeOK /\ FilesOfFolder
  BY InvParts DEF RoundInv, Books
<1>2. \A k \in 1 .. m : Len(folders[k].files) = 1 /\ fold[folders[k].files[1]] = k
  <2>1. \A k \in 1 .. m : Len(folders[k].files) = 1
    BY <1>1 DEF FilesOfFolder
  <2>2. \A k \in 1 .. m : 1 \in 1 .. Len(folders[k].files)
    BY <2>1
  <2> QED BY <1>1, <2>1, <2>2 DEF FilesOfFolder
<1>3. /\ si.streams \in Seq(Nat) /\ Len(si.streams) = m
      /\ \A k \in 1 .. m : si.streams[k] = 1
  <2>1. si.streams \in Seq(Nat) /\ Len(si.streams) = m
    BY DEF Describes
  <2>2. \A k \in 1 .. m : si.streams[k] = Len(folders[k].files)
    BY DEF Describes
  <2>3. \A k \in 1 .. m : Len(folders[k].files) = 1
    BY <1>2
  <2> QED BY ONLY <2>1, <2>2, <2>3
<1>4. \A k \in 1 .. m : FileFolder(si, k) = k
  BY <1>3, FolderAlone
<1>5. ASSUME NEW k \in 1 .. n
      PROVE  FileSize(si, k) = size[folders[k].files[1]] /\ FileSize(si, k) \in Nat
  <2>1. k \in 1 .. m
    OBVIOUS
  <2>2. PICK w \in Seq(Nat) : /\ w = Sizes(folders[k].files) /\ Len(w) = 1
                              /\ w[1] = size[folders[k].files[1]]
    <3>1. /\ Sizes(folders[k].files) \in Seq(Nat)
          /\ Len(Sizes(folders[k].files)) = Len(folders[k].files)
          /\ \A i \in 1 .. Len(folders[k].files) :
                Sizes(folders[k].files)[i] = size[folders[k].files[i]]
      BY <1>1, <2>1, SizesType
    <3>2. Len(folders[k].files) = 1 /\ 1 \in 1 .. Len(folders[k].files)
      BY <1>2, <2>1
    <3> QED BY <3>1, <3>2
  <2>3. PrefixSum(w, 1) = w[1] /\ w[1] \in Nat
    <3>1. 1 \in 1 .. Len(w)
      BY <2>2
    <3> QED BY <2>2, <3>1, SizeOfOne, ElementOfSeq
  <2>4. si.unpack[k] = PrefixSum(Sizes(folders[k].files), Len(folders[k].files))
    BY <2>1 DEF Describes
  <2>5. FileSize(si, k) = si.unpack[k]
    BY <1>3, <1>4, <2>1 DEF FileSize
  <2> QED BY <1>2, <2>1, <2>2, <2>3, <2>4, <2>5
<1>6. FileOffset(si, n) = 0
  <2>1. \A i \in 1 .. n - 1 : i \in 1 .. n
    OBVIOUS
  <2>2. n \in Nat /\ n # 0 /\ \A i \in 1 .. n - 1 : FileSize(si, i) \in Nat
    BY <1>5, <2>1
  <2>3. n = 1 \/ FileFolder(si, n - 1) # FileFolder(si, n)
    <3>1. CASE n # 1
      <4>1. n - 1 \in 1 .. m
        BY <3>1
      <4>2. FileFolder(si, n - 1) = n - 1 /\ FileFolder(si, n) = n /\ n - 1 # n
        BY <1>4, <4>1
      <4> QED BY <4>2
    <3> QED BY <3>1
  <2> QED BY ONLY <2>2, <2>3, FirstOffset
<1>7. n \in 1 .. n
  OBVIOUS
<1> QED BY <1>2, <1>4, <1>5, <1>6, <1>7

\* In the solid mode the n-th file with a stream is the n-th one of the only folder.
LEMMA InOnlyFolder ==
    ASSUME RoundInv, opt.solid, NEW si, Describes(si), Len(folders) = 1,
           NEW fs, fs = folders[1].files, NEW n \in 1 .. Len(fs)
    PROVE  /\ FileFolder(si, n) = 1 /\ FileSize(si, n) = size[fs[n]]
           /\ FileOffset(si, n) = PrefixSum(Sizes(fs), n - 1)
<1>1. TypeOK
  BY InvParts DEF RoundInv
<1>2. PICK m \in Nat : m = 1 /\ m = Len(folders) /\ 1 \in 1 .. m
  OBVIOUS
<1>3. PICK w \in Seq(Nat), l \in Nat : /\ w = Sizes(fs) /\ Len(w) = l /\ l = Len(fs)
                                       /\ \A i \in 1 .. l : w[i] = size[fs[i]]
  BY <1>1, <1>2, SizesType
<1>4. si.streams \in Seq(Nat) /\ Len(si.streams) = 1 /\ si.streams[1] = l
  <2>1. /\ si.streams \in Seq(Nat) /\ Len(si.streams) = m
        /\ \A k \in 1 .. m : si.streams[k] = Len(folders[k].files)
    BY <1>2 DEF Describes
  <2> QED BY <1>2, <1>3, <2>1
<1>5. \A i \in 1 .. l : FileFolder(si, i) = 1
  BY <1>4, FolderOnly
<1>6. si.unpack[1] = PrefixSum(w, l)
  <2>1. Settled(1)
    BY DEF Settled, Concurrent
  <2>2. si.unpack[1] = PrefixSum(Sizes(folders[1].files), Len(folders[1].files))
    BY <1>2, <2>1 DEF Describes
  <2> QED BY <1>3, <2>2
<1>7. si.size = w
  <2>1. si.size = FlattenSeq([k \in 1 .. m |-> Sizes(folders[k].files)])
    BY <1>2 DEF Describes, Concurrent
  <2>2. [k \in 1 .. m |-> Sizes(folders[k].files)] = <<w>>
    BY <1>2, <1>3
  <2>3. FlattenSeq(<<w>>) = w
    BY FlattenOne
  <2> QED BY <2>1, <2>2, <2>3
<1>8. \A i \in 1 .. l : FileSize(si, i) = w[i]
  <2>1. CASE l = 1
    <3>1. PrefixSum(w, 1) = w[1] /\ \A i \in 1 .. l : i = 1
      BY <1>3, <2>1, SizeOfOne
    <3> QED BY <1>4, <1>5, <1>6, <2>1, <3>1 DEF FileSize
  <2>2. CASE l # 1
    BY <1>4, <1>5, <1>7, <2>2 DEF FileSize
  <2> QED BY <2>1, <2>2
<1>9. FileOffset(si, n) = PrefixSum(w, n - 1)
  <2>1. \A i \in 1 .. n : i \in 1 .. l
    BY <1>3
  <2>2. n \in Nat /\ n # 0 /\ n <= Len(w)
    BY <1>3
  <2>3. \A i \in 1 .. n : FileFolder(si, i) = 1 /\ FileSize(si, i) = w[i]
    BY <1>5, <1>8, <2>1
  <2> QED BY ONLY w \in Seq(Nat), <2>2, <2>3, NextOffset
<1> QED BY <1>3, <1>5, <1>8, <1>9

\* The coordinator copied the folders of those files.
LEMMA CopiedAtEnd ==
    ASSUME RoundInv, wpc = "ok", Concurrent, NEW n \in 1 .. Len(folders),
           \A x \in 1 .. n : StreamAt(x) \in Jobs /\ pc[StreamAt(x)] = "done"
    PROVE  n < coord.seq
<1>1. TypeOK /\ Coordinated /\ SentWhenClosed /\ FilesOfFolder
  BY InvParts DEF RoundInv, Books, Control
<1>2. PICK m \in Nat, c \in Nat : m = Len(folders) /\ c = coord.seq /\ c # 0
  <2>1. Len(folders) \in Nat
    BY <1>1, LenProperties DEF TypeOK
  <2> QED BY <1>1, <2>1 DEF TypeOK
<1>3. n \in 1 .. m
  BY <1>2
<1> SUFFICES ASSUME ~(n < c) PROVE FALSE
  BY <1>2
<1>4. c \in 1 .. n /\ c \in 1 .. m
  BY <1>2, <1>3
<1>5. PICK j \in Jobs : j = folders[c].files[1] /\ pc[j] = "done" /\ fold[j] = c
  <2>1. StreamAt(c) = folders[c].files[1]
    BY DEF StreamAt, Concurrent
  <2>2. 1 \in 1 .. Len(folders[c].files)
    <3>1. Len(folders[c].files) = 1
      BY <1>1, <1>2, <1>4 DEF FilesOfFolder, Concurrent
    <3> QED BY <3>1
  <2>3. fold[folders[c].files[1]] = c
    BY <1>1, <1>2, <1>4, <2>2 DEF FilesOfFolder
  <2> QED BY <1>4, <2>1, <2>3
<1>6. Sent(c)
  BY <1>1, <1>2, <1>5 DEF SentWhenClosed
<1>7. chan = <<>> /\ c \notin coord.map
  BY <1>1, <1>2 DEF Coordinated
<1> QED BY <1>2, <1>6, <1>7 DEF Sent

\* A file that has a folder of its own is read back.
LEMMA ReadAlone ==
    ASSUME RoundInv, wpc = "ok", ~SpillLost, ~opt.solid, NEW n \in 1 .. Streams, NEW j \in Jobs,
           StreamAt(n) = j, pc[j] = "done", size[j] = written[j],
           Concurrent => n < coord.seq, NEW si, Describes(si), \A i \in 1 .. n : Settled(i)
    PROVE  /\ Part(out, FolderOffset(si, FileFolder(si, n)), si.pack[FileFolder(si, n)])
                = Copies(folders[FileFolder(si, n)].n, FileFolder(si, n))
           /\ folders[FileFolder(si, n)].closed
           /\ Part(folders[FileFolder(si, n)].data, FileOffset(si, n), FileSize(si, n))
                = Copies(written[j], j)
<1>1. TypeOK /\ Books /\ Finished
  BY InvParts DEF RoundInv
<1>2. PICK m \in Nat : m = Len(folders) /\ n \in 1 .. m
  <2>1. Len(folders) \in Nat
    BY <1>1, LenProperties DEF TypeOK
  <2> QED BY <2>1 DEF Streams
<1>3. j = folders[n].files[1]
  BY DEF StreamAt
<1>4. /\ FileFolder(si, n) = n /\ FileOffset(si, n) = 0
      /\ Len(folders[n].files) = 1 /\ FileSize(si, n) = written[j]
      /\ fold[j] = n
  BY <1>2, <1>3, AloneInFolder
<1>5. Part(out, FolderOffset(si, n), si.pack[n]) = Copies(folders[n].n, n)
  BY <1>2, PackedWhole
<1>6. folders[n].closed
  BY <1>1, <1>2, <1>4 DEF Finished, PastFold
<1>7. Part(folders[n].data, 0, written[j]) = Copies(written[j], j)
  <2>1. PICK v \in Seq(Nat) : v = <<>> /\ Len(v) = 0
    <3>1. <<>> \in Seq(Nat) /\ Len(<<>>) = 0
      OBVIOUS
    <3> QED BY <3>1
  <2>2. PrefixSum(v, 0) = 0
    BY TotalsAre
  <2>3. PICK fs : fs = folders[n].files /\ Len(fs) = 1 /\ fs[1] = j
    BY <1>3, <1>4
  <2>4. PICK i : i = 1 /\ i \in 1 .. Len(fs) /\ i <= Len(v) + 1 /\ i - 1 = 0
    BY <2>1, <2>3
  <2>5. \A x \in 1 .. i - 1 : v[x] = written[fs[x]]
    BY <2>4
  <2>6. n \in 1 .. Len(folders)
    BY <1>2
  <2>7. Part(folders[n].data, PrefixSum(v, i - 1), written[fs[i]]) = Copies(written[fs[i]], fs[i])
    BY ONLY <1>1, <2>3, <2>4, <2>5, <2>6, v \in Seq(Nat), ContentPart
  <2> QED BY <2>2, <2>3, <2>4, <2>7
<1> QED BY <1>4, <1>5, <1>6, <1>7

\* A file of the solid folder is read back.
LEMMA ReadSolid ==
    ASSUME RoundInv, wpc = "ok", ~SpillLost, opt.solid, NEW n \in 1 .. Streams, NEW j \in Jobs,
           StreamAt(n) = j,
           \A x \in 1 .. n : /\ StreamAt(x) \in Jobs
                             /\ size[StreamAt(x)] = written[StreamAt(x)],
           NEW si, Describes(si)
    PROVE  /\ Part(out, FolderOffset(si, FileFolder(si, n)), si.pack[FileFolder(si, n)])
                = Copies(folders[FileFolder(si, n)].n, FileFolder(si, n))
           /\ folders[FileFolder(si, n)].closed
           /\ Part(folders[FileFolder(si, n)].data, FileOffset(si, n), FileSize(si, n))
                = Copies(written[j], j)
<1>1. TypeOK /\ Books /\ Placed /\ Sequential /\ ~Concurrent
  BY InvParts DEF RoundInv, Books, Concurrent
<1>2. PICK m \in Nat : m = 1 /\ m = Len(folders) /\ 1 \in 1 .. m
  <2>1. PICK z \in Nat : z = Len(folders)
    BY <1>1, LenProperties DEF TypeOK
  <2>2. z # 0
    BY <2>1 DEF Streams
  <2>3. z <= 1
    BY <1>1, <2>1 DEF Placed
  <2> QED BY <2>1, <2>2, <2>3
<1>3. PICK fs, l : fs = folders[1].files /\ l = Len(fs) /\ l \in Nat /\ n \in 1 .. l
  <2>1. Len(folders[1].files) \in Nat
    <3>1. folders[1].files \in Seq(Jobs)
      BY <1>1, <1>2, FolderTypes DEF Recs
    <3> QED BY <3>1, LenProperties
  <2>2. n \in 1 .. Len(folders[1].files)
    BY <1>2 DEF Streams
  <2> QED BY <2>1, <2>2
<1>4. \A x \in 1 .. n : size[fs[x]] = written[fs[x]]
  BY <1>3 DEF StreamAt
<1>5. fs[n] = j /\ n \in 1 .. n /\ n \in Nat
  BY <1>3 DEF StreamAt
<1>6. /\ FileFolder(si, n) = 1 /\ FileSize(si, n) = written[j]
      /\ FileOffset(si, n) = PrefixSum(Sizes(fs), n - 1)
  BY <1>2, <1>3, <1>4, <1>5, InOnlyFolder
<1>7. Part(out, FolderOffset(si, 1), si.pack[1]) = Copies(folders[1].n, 1)
  <2>1. \A i \in 1 .. 1 : Settled(i)
    BY <1>1 DEF Settled
  <2> QED BY <1>1, <1>2, <2>1, PackedWhole
<1>8. folders[1].closed
  BY <1>1, <1>2 DEF Sequential
<1>9. Part(folders[1].data, PrefixSum(Sizes(fs), n - 1), written[j]) = Copies(written[j], j)
  <2>1. PICK v \in Seq(Nat) : /\ v = Sizes(fs) /\ Len(v) = l
                              /\ \A x \in 1 .. l : v[x] = size[fs[x]]
    <3>1. \E k \in 1 .. Len(folders) : fs = folders[k].files
      BY <1>2, <1>3
    <3>2. /\ Sizes(fs) \in Seq(Nat) /\ Len(Sizes(fs)) = Len(fs)
          /\ \A x \in 1 .. Len(fs) : Sizes(fs)[x] = size[fs[x]]
      BY <1>1, <3>1, SizesType
    <3> QED BY <1>3, <3>2
  <2>2. n <= Len(v) + 1 /\ n \in 1 .. Len(fs)
    BY <1>3, <2>1
  <2>3. \A x \in 1 .. n - 1 : v[x] = written[fs[x]]
    <3>1. \A x \in 1 .. n - 1 : x \in 1 .. n /\ x \in 1 .. l
      BY <1>3
    <3> QED BY <1>4, <2>1, <3>1
  <2>4. PICK k : k = 1 /\ k \in 1 .. Len(folders) /\ fs = folders[k].files
    BY <1>2, <1>3
  <2>5. Part(folders[k].data, PrefixSum(v, n - 1), written[fs[n]]) = Copies(written[fs[n]], fs[n])
    BY ONLY <1>1, <2>2, <2>3, <2>4, v \in Seq(Nat), ContentPart
  <2> QED BY <1>5, <2>1, <2>4, <2>5
<1> QED BY <1>6, <1>7, <1>8, <1>9

\* The folders of files that were not late are settled.
LEMMA SettledFirst ==
    ASSUME RoundInv, ~opt.solid, NEW n \in 1 .. Len(folders),
           \A x \in 1 .. n : StreamAt(x) \in Jobs /\ StreamAt(x) \notin late
    PROVE  \A x \in 1 .. n : Settled(x)
<1> SUFFICES ASSUME NEW x \in 1 .. n, Concurrent, NEW j \in late, fold[j] = x
             PROVE  FALSE
  BY DEF Settled
<1>1. TypeOK /\ Owned /\ FilesOfFolder
  BY InvParts DEF RoundInv, Books, Control
<1>2. x \in 1 .. Len(folders) /\ x # 0
  BY <1>1, FolderTypes
<1>3. fold[StreamAt(x)] = x
  <2>1. Len(folders[x].files) # 0 /\ Len(folders[x].files) = 1
    BY <1>1, <1>2 DEF FilesOfFolder
  <2>2. fold[folders[x].files[1]] = x
    BY <1>1, <1>2, <2>1 DEF FilesOfFolder
  <2> QED BY <2>2 DEF StreamAt
<1>4. j \in Jobs
  BY <1>1 DEF TypeOK
<1>5. j = StreamAt(x)
  BY <1>1, <1>2, <1>3, <1>4 DEF Owned
<1> QED BY <1>5

\* What the invariant says when Writer.Close returned nil.
LEMMA RoundTripHolds == ASSUME RoundInv PROVE RoundTrip
<1> SUFFICES ASSUME wpc = "ok", ~SpillLost
             PROVE  /\ Len(hdr.files) = Cardinality({j \in Jobs : pc[j] # "none"})
                    /\ \A p \in 1 .. Len(hdr.files) : Claimed(p) /\ InTime(p) => Readable(p)
  BY DEF RoundTrip
<1>1. TypeOK /\ Listed
  BY InvParts DEF RoundInv, Books
<1>2. hdr.files = files /\ Describes(hdr.si)
  BY DEF RoundInv, Ending
<1>3. Len(hdr.files) = Cardinality({j \in Jobs : pc[j] # "none"})
  BY <1>1, <1>2 DEF Listed, Created
<1>4. ASSUME NEW p \in 1 .. Len(files), Claimed(p), InTime(p)
      PROVE  Readable(p)
  <2>1. PICK n, j, si : n = StreamNumber(files, p) /\ j = files[p] /\ si = hdr.si
    OBVIOUS
  <2>2. /\ files[p] \notin Dirs
        /\ \A q \in 1 .. p : pc[files[q]] # "error"
        /\ \A q \in 1 .. p : files[q] \in Dirs \/ files[q] \notin late
    BY <1>2, <1>4 DEF Claimed, InTime
  <2>3. n \in 1 .. Streams /\ StreamAt(n) = j
    BY <2>1, <2>2, FilesAtEnd
  <2>4. \A x \in 1 .. n : /\ StreamAt(x) \in Jobs /\ StreamAt(x) \notin late
                          /\ pc[StreamAt(x)] = "done"
                          /\ size[StreamAt(x)] = written[StreamAt(x)]
    BY <2>1, <2>2, FilesAtEnd
  <2>5. j \in Jobs /\ pc[j] = "done" /\ size[j] = written[j]
    <3>1. n \in 1 .. n
      BY <2>3
    <3> QED BY <2>3, <2>4, <3>1
  <2>6. Concurrent => n < coord.seq
    <3>1. Concurrent => n \in 1 .. Len(folders)
      BY <2>3 DEF Streams, Concurrent
    <3> QED BY <2>4, <3>1, CopiedAtEnd
  <2>7. Describes(si)
    BY <1>2, <2>1
  <2>8. /\ Part(out, FolderOffset(si, FileFolder(si, n)), si.pack[FileFolder(si, n)])
             = Copies(folders[FileFolder(si, n)].n, FileFolder(si, n))
        /\ folders[FileFolder(si, n)].closed
        /\ Part(folders[FileFolder(si, n)].data, FileOffset(si, n), FileSize(si, n))
             = Copies(written[j], j)
    <3>1. CASE ~opt.solid
      <4>1. n \in 1 .. Len(folders)
        BY <2>3, <3>1 DEF Streams
      <4>2. \A x \in 1 .. n : Settled(x)
        BY <2>4, <3>1, <4>1, SettledFirst
      <4> QED BY <2>3, <2>5, <2>6, <2>7, <3>1, <4>2, ReadAlone
    <3>2. CASE opt.solid
      BY <2>3, <2>4, <2>5, <2>7, <3>2, ReadSolid
    <3> QED BY <3>1, <3>2
  <2> QED BY <1>2, <2>1, <2>8 DEF Readable
<1> QED BY <1>2, <1>3, <1>4

\* What was written is read back, in the sequential, the solid and the concurrent mode,
\* with any number of files, folders, chunks and units, whatever order the goroutines
\* finish in and whichever calls fail, failing Writes and the closes that come too late
\* included: the header that CloseHeader writes leads the reader to the chunks and the
\* units of every file that RoundTrip speaks of.
THEOREM RoundTrips == Spec => []RoundTrip
<1>1. RoundInv => RoundTrip
  BY RoundTripHolds
<1> QED BY <1>1, RoundInit, RoundNext, PTL DEF Spec
=============================================================================
