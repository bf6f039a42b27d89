-------------------------- MODULE FileList_proofs --------------------------
(***************************************************************************)
(* What the operators of FileList compute, for all names and lists.        *)
(***************************************************************************)
EXTENDS FileList, SequenceLemmas, FiniteSetTheorems

\* less orders the elements of S strictly and totally.
Orders(less, S) ==
    /\ \A x \in S : <<x, x>> \notin less
    /\ \A x, y, z \in S : <<x, y>> \in less /\ <<y, z>> \in less => <<x, z>> \in less
    /\ \A x, y \in S : x # y => <<x, y>> \in less \/ <<y, x>> \in less

\* s has the elements of S, each once, in the order of less.
SortedAs(s, S, less) ==
    /\ s \in Seq(S)
    /\ \A x \in S : \E i \in 1 .. Len(s) : s[i] = x
    /\ \A i, j \in 1 .. Len(s) : i < j => <<s[i], s[j]>> \in less

Below(S, less, x) == { y \in S : <<y, x>> \in less }

\* There are more elements below the greater of two.
LEMMA BelowGrows ==
    ASSUME NEW S, IsFiniteSet(S), NEW less, Orders(less, S), NEW x \in S
    PROVE  /\ Cardinality(Below(S, less, x)) \in 0 .. Cardinality(S) - 1
           /\ \A y \in S : <<x, y>> \in less =>
                Cardinality(Below(S, less, x)) < Cardinality(Below(S, less, y))
<1>1. Cardinality(S) \in Nat
  BY FS_CardinalityType
<1>2. ASSUME NEW y \in S
      PROVE  /\ Below(S, less, y) \in SUBSET S
             /\ IsFiniteSet(Below(S, less, y))
             /\ Cardinality(Below(S, less, y)) \in Nat
             /\ Cardinality(Below(S, less, y)) <= Cardinality(S)
  <2>1. Below(S, less, y) \in SUBSET S
    BY DEF Below
  <2> QED BY <2>1, FS_Subset, FS_CardinalityType
<1>3. Cardinality(Below(S, less, x)) # Cardinality(S)
  <2>1. x \notin Below(S, less, x)
    BY DEF Below, Orders
  <2> QED BY <1>2, <2>1, FS_Subset
<1>4. ASSUME NEW y \in S, <<x, y>> \in less
      PROVE  Cardinality(Below(S, less, x)) < Cardinality(Below(S, less, y))
  <2>1. Below(S, less, x) \in SUBSET Below(S, less, y)
    BY <1>4 DEF Below, Orders
  <2>2. x \in Below(S, less, y) /\ x \notin Below(S, less, x)
    BY <1>4 DEF Below, Orders
  <2>3. /\ Cardinality(Below(S, less, x)) <= Cardinality(Below(S, less, y))
        /\ Cardinality(Below(S, less, y)) # Cardinality(Below(S, less, x))
    BY <1>2, <2>1, <2>2, FS_Subset
  <2> QED BY <1>2, <2>3
<1> QED BY <1>1, <1>2, <1>3, <1>4

\* InOrder sorts.
LEMMA InOrderSorts ==
    ASSUME NEW S, IsFiniteSet(S), NEW less, Orders(less, S)
    PROVE  SortedAs(InOrder(S, less), S, less)
<1> DEFINE n == Cardinality(S)
           rank == [x \in S |-> Cardinality(Below(S, less, x))]
           s == InOrder(S, less)
<1>1. n \in Nat
  BY FS_CardinalityType
<1>2. rank \in [S -> 0 .. n - 1] /\ \A x, y \in S : <<x, y>> \in less => rank[x] < rank[y]
  BY BelowGrows
<1>3. \A x, y \in S : rank[x] = rank[y] => x = y
  <2>1. \A x \in S : rank[x] \in Nat
    BY <1>1, <1>2
  <2>2. \A x, y \in S : x # y => rank[x] < rank[y] \/ rank[y] < rank[x]
    BY <1>2 DEF Orders
  <2> HIDE DEF rank
  <2> QED BY <2>1, <2>2
<1>4. \A k \in 0 .. n - 1 : \E x \in S : rank[x] = k
  <2>1. IsFiniteSet(0 .. n - 1) /\ Cardinality(0 .. n - 1) = n
    BY <1>1, FS_Interval
  <2>2. rank \in Injection(S, 0 .. n - 1)
    BY <1>2, <1>3 DEF Injection, IsInjective
  <2>3. rank \in Surjection(S, 0 .. n - 1)
    BY <2>1, <2>2, FS_Injection
  <2> HIDE DEF rank
  <2> QED BY <2>3 DEF Surjection
<1>5. s = [i \in 1 .. n |-> CHOOSE x \in S : Cardinality(Below(S, less, x)) = i - 1]
  BY DEF InOrder, Below
<1>6. ASSUME NEW i \in 1 .. n
      PROVE  s[i] \in S /\ rank[s[i]] = i - 1
  <2>1. i - 1 \in 0 .. n - 1
    BY <1>1
  <2>2. PICK x \in S : rank[x] = i - 1
    BY <1>4, <2>1
  <2>3. x \in S /\ Cardinality(Below(S, less, x)) = i - 1
    BY <2>2
  <2>4. s[i] = CHOOSE y \in S : Cardinality(Below(S, less, y)) = i - 1
    BY <1>5
  <2> HIDE DEF s
  <2>5. s[i] \in S /\ Cardinality(Below(S, less, s[i])) = i - 1
    BY <2>3, <2>4
  <2> QED BY <2>5
<1>7. s \in Seq(S) /\ Len(s) = n
  <2>1. s \in [1 .. n -> S]
    BY <1>5, <1>6
  <2> HIDE DEF s
  <2> QED BY <1>1, <2>1
<1> HIDE DEF s, rank
<1>8. \A x \in S : \E i \in 1 .. n : s[i] = x
  <2> TAKE x \in S
  <2>1. rank[x] \in 0 .. n - 1 /\ rank[x] + 1 \in 1 .. n /\ (rank[x] + 1) - 1 = rank[x]
    BY <1>1, <1>2
  <2>2. s[rank[x] + 1] = x
    BY <1>3, <1>6, <2>1
  <2> QED BY <2>1, <2>2
<1>9. \A i, j \in 1 .. n : i < j => <<s[i], s[j]>> \in less
  <2> TAKE i, j \in 1 .. n
  <2> HAVE i < j
  <2>1. s[i] \in S /\ s[j] \in S /\ rank[s[i]] = i - 1 /\ rank[s[j]] = j - 1
    BY <1>6
  <2>2. s[i] # s[j] /\ ~(rank[s[j]] < rank[s[i]])
    BY <1>1, <2>1
  <2> QED BY <1>2, <2>1, <2>2 DEF Orders
<1> QED BY <1>7, <1>8, <1>9 DEF SortedAs, s

-----------------------------------------------------------------------------
(* sort.Search.                                                            *)

ClosedUpwards(P, n) == \A j, k \in 0 .. n - 1 : j <= k /\ j \in P => k \in P

\* What the bisection knows of a window after some rounds.
Brackets(w, rounds, n, P) ==
    /\ w \in [lo : 0 .. n, hi : 0 .. n]
    /\ w.lo <= w.hi /\ w.hi - w.lo <= n - rounds
    /\ ClosedUpwards(P, n) => /\ \A k \in 0 .. n - 1 : k < w.lo => k \notin P
                              /\ \A k \in 0 .. n - 1 : w.hi <= k => k \in P

\* One round shortens the window, unless it is empty.
LEMMA HalveBrackets ==
    ASSUME NEW n \in Nat, NEW P, NEW t \in 1 .. n, NEW w, Brackets(w, t - 1, n, P)
    PROVE  Brackets(Halve(w, P), t, n, P)
<1>1. PICK lo \in 0 .. n, hi \in 0 .. n : w.lo = lo /\ w.hi = hi /\ w = [lo |-> lo, hi |-> hi]
  BY DEF Brackets
<1>2. lo \in Nat /\ hi \in Nat /\ lo <= n /\ hi <= n /\ lo <= hi /\ hi - lo <= n - (t - 1)
  BY <1>1 DEF Brackets
<1>3. ClosedUpwards(P, n) => /\ \A k \in 0 .. n - 1 : k < lo => k \notin P
                             /\ \A k \in 0 .. n - 1 : hi <= k => k \in P
  BY <1>1 DEF Brackets
<1> DEFINE h == (lo + hi) \div 2
<1>4. CASE lo >= hi
  <2>1. Halve(w, P) = w
    BY <1>1, <1>4 DEF Halve
  <2>2. hi - lo <= n - t
    BY <1>2, <1>4
  <2> QED BY <1>1, <1>2, <1>3, <2>1, <2>2 DEF Brackets
<1>5. CASE ~(lo >= hi)
  <2>1. h \in Nat /\ lo <= h /\ h < hi /\ h \in 0 .. n - 1
    BY <1>2, <1>5
  <2>2. CASE h \in P
    <3>1. Halve(w, P) = [lo |-> lo, hi |-> h]
      BY <1>1, <1>5, <2>2 DEF Halve
    <3> HIDE DEF h
    <3>2. [lo |-> lo, hi |-> h] \in [lo : 0 .. n, hi : 0 .. n] /\ lo <= h /\ h - lo <= n - t
      BY <1>2, <2>1
    <3>3. ClosedUpwards(P, n) => \A k \in 0 .. n - 1 : h <= k => k \in P
      BY <2>1, <2>2 DEF ClosedUpwards
    <3> QED BY <1>3, <3>1, <3>2, <3>3 DEF Brackets
  <2>3. CASE h \notin P
    <3>1. Halve(w, P) = [lo |-> h + 1, hi |-> hi]
      BY <1>1, <1>5, <2>3 DEF Halve
    <3> HIDE DEF h
    <3>2. [lo |-> h + 1, hi |-> hi] \in [lo : 0 .. n, hi : 0 .. n] /\ h + 1 <= hi /\ hi - (h + 1) <= n - t
      BY <1>2, <2>1
    <3>3. ClosedUpwards(P, n) => \A k \in 0 .. n - 1 : k < h + 1 => k \notin P
      <4>1. \A k \in 0 .. n - 1 : k < h + 1 => k <= h
        BY <2>1
      <4> QED BY <2>1, <2>3, <4>1 DEF ClosedUpwards
    <3> QED BY <1>3, <3>1, <3>2, <3>3 DEF Brackets
  <2> QED BY <2>2, <2>3
<1> QED BY <1>4, <1>5

\* The rounds of Search.
Rounds(f, n, P) ==
    f = [t \in 0 .. n |-> IF t = 0 THEN [lo |-> 0, hi |-> n] ELSE Halve(f[t - 1], P)]

\* The windows of the bisection are defined for every round.
LEMMA RoundsExist ==
    ASSUME NEW n \in Nat, NEW P
    PROVE  \E f : Rounds(f, n, P)
<1> DEFINE W == [lo : 0 .. n, hi : 0 .. n]
           first == [lo |-> 0, hi |-> n]
           step == [p \in W \X (1 .. n) |-> Halve(p[1], P)]
<1>1. first \in W
  OBVIOUS
<1>2. ASSUME NEW w \in W PROVE Halve(w, P) \in W
  <2>1. PICK lo \in 0 .. n, hi \in 0 .. n : w.lo = lo /\ w.hi = hi
    OBVIOUS
  <2>2. ~(lo >= hi) => (lo + hi) \div 2 \in 0 .. n /\ (lo + hi) \div 2 + 1 \in 0 .. n
    OBVIOUS
  <2> QED BY <2>1, <2>2 DEF Halve
<1>3. step \in [W \X (1 .. n) -> W] /\ \A w \in W, t \in 1 .. n : step[<<w, t>>] = Halve(w, P)
  BY <1>2
<1> HIDE DEF W, first, step
<1>4. PICK f : Recurs(f, n, W, first, step)
  BY <1>1, <1>3, RecursionExists
<1>5. f \in [0 .. n -> W] /\ f[0] = first
  BY <1>4 DEF Recurs
<1>6. ASSUME NEW t \in 0 .. n
      PROVE  f[t] = IF t = 0 THEN first ELSE Halve(f[t - 1], P)
  <2>1. CASE t = 0
    BY <1>5, <2>1
  <2>2. CASE t # 0
    <3>1. t \in 1 .. n /\ t - 1 \in 0 .. n
      BY <2>2
    <3>2. f[t - 1] \in W
      BY <1>5, <3>1
    <3> QED BY <1>3, <1>4, <2>2, <3>1, <3>2 DEF Recurs
  <2> QED BY <2>1, <2>2
<1>7. f = [t \in 0 .. n |-> IF t = 0 THEN first ELSE Halve(f[t - 1], P)]
  BY <1>5, <1>6
<1> QED BY <1>7 DEF Rounds, first

\* Search stays within the indexes, and finds the smallest of a set that is
\* closed upwards.
LEMMA SearchIs ==
    ASSUME NEW n \in Nat, NEW P
    PROVE  /\ Search(n, P) \in 0 .. n
           /\ ClosedUpwards(P, n) => \A k \in 0 .. n - 1 : k \in P <=> Search(n, P) <= k
<1> DEFINE f == CHOOSE g : Rounds(g, n, P)
<1>1. Rounds(f, n, P)
  BY RoundsExist
<1>2. Search(n, P) = f[n].lo
  BY DEF Search, Rounds
<1> HIDE DEF f
<1>3. \A t \in 0 .. n : f[t] = IF t = 0 THEN [lo |-> 0, hi |-> n] ELSE Halve(f[t - 1], P)
  <2> DEFINE h == [t \in 0 .. n |-> IF t = 0 THEN [lo |-> 0, hi |-> n] ELSE Halve(f[t - 1], P)]
  <2>1. f = h
    BY <1>1 DEF Rounds
  <2>2. \A t \in 0 .. n : h[t] = IF t = 0 THEN [lo |-> 0, hi |-> n] ELSE Halve(f[t - 1], P)
    OBVIOUS
  <2> HIDE DEF h
  <2> QED BY <2>1, <2>2
<1> DEFINE G == {t \in 0 .. n : Brackets(f[t], t, n, P)}
<1>4. 0 \in G
  <2>1. f[0] = [lo |-> 0, hi |-> n]
    BY <1>3
  <2>2. Brackets([lo |-> 0, hi |-> n], 0, n, P)
    BY DEF Brackets
  <2> QED BY <2>1, <2>2
<1>5. ASSUME NEW t \in 1 .. n, t - 1 \in G PROVE t \in G
  <2>1. f[t] = Halve(f[t - 1], P) /\ t \in 0 .. n
    BY <1>3
  <2> QED BY <1>5, <2>1, HalveBrackets
<1>6. n \in G
  <2> HIDE DEF G
  <2>1. \A t \in 0 .. n : t \in G
    BY <1>4, <1>5, Induct
  <2> QED BY <2>1
<1>7. Brackets(f[n], n, n, P)
  BY <1>6
<1>8. PICK lo \in 0 .. n, hi \in 0 .. n : f[n].lo = lo /\ f[n].hi = hi
  BY <1>7 DEF Brackets
<1>9. lo = hi
  BY <1>7, <1>8 DEF Brackets
<1>10. ASSUME ClosedUpwards(P, n), NEW k \in 0 .. n - 1
       PROVE  k \in P <=> lo <= k
  BY <1>7, <1>8, <1>9, <1>10 DEF Brackets
<1> QED BY <1>2, <1>8, <1>10
-----------------------------------------------------------------------------
(* The order of names.                                                     *)

\* The strings x and y differ at i, where x is less, or x ends before i.
DiffersAt(x, y, i) ==
    /\ i \in 1 .. Len(y)
    /\ \A j \in 1 .. (i - 1) : j <= Len(x) /\ x[j] = y[j]
    /\ i > Len(x) \/ x[i] < y[i]

\* One string is less than another if they differ somewhere first.
LEMMA StringLessIff ==
    ASSUME NEW x, NEW y
    PROVE  StringLess(x, y) <=> \E i : DiffersAt(x, y, i)
BY DEF StringLess, DiffersAt

\* StringLess is a strict total order.
LEMMA StringLessIrreflexive ==
    ASSUME NEW x \in Seq(Nat)
    PROVE  ~StringLess(x, x)
<1>1. Len(x) \in Nat /\ \A i \in 1 .. Len(x) : x[i] \in Nat
  BY LenProperties, ElementOfSeq
<1> QED BY <1>1 DEF StringLess

\* The first place where x and z differ is the first of the two others.
LEMMA StringLessTransitive ==
    ASSUME NEW x \in Seq(Nat), NEW y \in Seq(Nat), NEW z \in Seq(Nat),
           StringLess(x, y), StringLess(y, z)
    PROVE  StringLess(x, z)
<1>1. /\ Len(x) \in Nat /\ \A i \in 1 .. Len(x) : x[i] \in Nat
      /\ Len(y) \in Nat /\ \A i \in 1 .. Len(y) : y[i] \in Nat
      /\ Len(z) \in Nat /\ \A i \in 1 .. Len(z) : z[i] \in Nat
  BY LenProperties, ElementOfSeq
<1>2. PICK i : DiffersAt(x, y, i)
  BY StringLessIff
<1>3. PICK k : DiffersAt(y, z, k)
  BY StringLessIff
<1>4. i \in Nat /\ k \in Nat /\ i >= 1 /\ k >= 1 /\ i <= Len(y) /\ k <= Len(z)
  BY <1>1, <1>2, <1>3 DEF DiffersAt
<1>5. CASE i < k
  <2>1. i \in 1 .. k - 1 /\ i \in 1 .. Len(z) /\ y[i] = z[i]
    BY <1>1, <1>3, <1>4, <1>5 DEF DiffersAt
  <2>2. \A j \in 1 .. i - 1 : j \in 1 .. k - 1
    BY <1>4, <1>5
  <2>3. \A j \in 1 .. i - 1 : j <= Len(x) /\ x[j] = z[j]
    BY <1>2, <1>3, <2>2 DEF DiffersAt
  <2>4. i > Len(x) \/ x[i] < z[i]
    BY <1>2, <2>1 DEF DiffersAt
  <2>5. DiffersAt(x, z, i)
    BY <2>1, <2>3, <2>4 DEF DiffersAt
  <2> QED BY <2>5, StringLessIff
<1>6. CASE k < i
  <2>1. k \in 1 .. i - 1 /\ ~(k > Len(y))
    BY <1>1, <1>4, <1>6
  <2>2. k <= Len(x) /\ x[k] = y[k] /\ y[k] < z[k]
    BY <1>2, <1>3, <2>1 DEF DiffersAt
  <2>3. \A j \in 1 .. k - 1 : j \in 1 .. i - 1
    BY <1>4, <1>6
  <2>4. \A j \in 1 .. k - 1 : j <= Len(x) /\ x[j] = z[j]
    BY <1>2, <1>3, <2>3 DEF DiffersAt
  <2>5. DiffersAt(x, z, k)
    BY <1>3, <2>2, <2>4 DEF DiffersAt
  <2> QED BY <2>5, StringLessIff
<1>7. CASE i = k
  <2>1. y[i] < z[i]
    BY <1>1, <1>3, <1>4, <1>7 DEF DiffersAt
  <2>2. i \in 1 .. Len(y) /\ i \in 1 .. Len(z)
    BY <1>1, <1>4, <1>7
  <2>3. i > Len(x) \/ x[i] < z[i]
    <3>1. CASE i > Len(x)
      BY <3>1
    <3>2. CASE ~(i > Len(x))
      <4>1. i \in 1 .. Len(x) /\ x[i] < y[i]
        BY <1>1, <1>2, <1>4, <3>2 DEF DiffersAt
      <4>2. x[i] \in Nat /\ y[i] \in Nat /\ z[i] \in Nat
        BY <1>1, <2>2, <4>1
      <4> QED BY <2>1, <4>1, <4>2
    <3> QED BY <3>1, <3>2
  <2>4. \A j \in 1 .. i - 1 : j <= Len(x) /\ x[j] = z[j]
    BY <1>2, <1>3, <1>7 DEF DiffersAt
  <2>5. DiffersAt(x, z, i)
    BY <2>2, <2>3, <2>4 DEF DiffersAt
  <2> QED BY <2>5, StringLessIff
<1> QED BY <1>4, <1>5, <1>6, <1>7

\* Two strings that differ have a first place where they do.
LEMMA StringLessTotal ==
    ASSUME NEW x \in Seq(Nat), NEW y \in Seq(Nat), x # y
    PROVE  StringLess(x, y) \/ StringLess(y, x)
<1>1. /\ Len(x) \in Nat /\ \A i \in 1 .. Len(x) : x[i] \in Nat
      /\ Len(y) \in Nat /\ \A i \in 1 .. Len(y) : y[i] \in Nat
  BY LenProperties, ElementOfSeq
<1> DEFINE D == { i \in Nat \ {0} : i > Len(x) \/ i > Len(y) \/ x[i] # y[i] }
<1>2. PICK m \in D : \A i \in D : m <= i
  <2>1. D \subseteq Nat
    OBVIOUS
  <2>2. Len(x) + 1 \in D
    BY <1>1
  <2> HIDE DEF D
  <2> QED BY <2>1, <2>2, Smallest
<1>3. m \in Nat /\ m >= 1 /\ (m > Len(x) \/ m > Len(y) \/ x[m] # y[m])
  OBVIOUS
<1>4. \A j \in 1 .. m - 1 : j <= Len(x) /\ j <= Len(y) /\ x[j] = y[j]
  <2> TAKE j \in 1 .. m - 1
  <2>1. j \in Nat \ {0} /\ ~(m <= j)
    BY <1>3
  <2>2. j \notin D
    <3> HIDE DEF D
    <3> QED BY <1>2, <2>1
  <2> QED BY <1>1, <2>1, <2>2
<1> HIDE DEF D
<1>5. CASE m <= Len(x) /\ m <= Len(y)
  <2>1. m \in 1 .. Len(x) /\ m \in 1 .. Len(y) /\ x[m] # y[m]
    BY <1>1, <1>3, <1>5
  <2>2. x[m] \in Nat /\ y[m] \in Nat
    BY <1>1, <2>1
  <2>3. x[m] < y[m] \/ y[m] < x[m]
    BY <2>1, <2>2
  <2>4. DiffersAt(x, y, m) \/ DiffersAt(y, x, m)
    BY <1>4, <2>1, <2>3 DEF DiffersAt
  <2> QED BY <2>4, StringLessIff
<1>6. CASE m > Len(x) /\ m <= Len(y)
  <2>1. m \in 1 .. Len(y)
    BY <1>1, <1>3, <1>6
  <2>2. DiffersAt(x, y, m)
    BY <1>4, <1>6, <2>1 DEF DiffersAt
  <2> QED BY <2>2, StringLessIff
<1>7. CASE m <= Len(x) /\ m > Len(y)
  <2>1. m \in 1 .. Len(x)
    BY <1>1, <1>3, <1>7
  <2>2. DiffersAt(y, x, m)
    BY <1>4, <1>7, <2>1 DEF DiffersAt
  <2> QED BY <2>2, StringLessIff
<1>8. CASE m > Len(x) /\ m > Len(y)
  <2>1. Len(x) = Len(y)
    <3>1. m = 1 \/ m - 1 \in 1 .. m - 1
      BY <1>3
    <3>2. CASE m = 1
      BY <1>1, <1>8, <3>2
    <3>3. CASE m - 1 \in 1 .. m - 1
      <4>1. m - 1 <= Len(x) /\ m - 1 <= Len(y)
        BY <1>4, <3>3
      <4> QED BY <1>1, <1>3, <1>8, <4>1
    <3> QED BY <3>1, <3>2, <3>3
  <2>2. \A j \in 1 .. Len(x) : x[j] = y[j]
    <3>1. \A j \in 1 .. Len(x) : j \in 1 .. m - 1
      BY <1>1, <1>3, <1>8
    <3> QED BY <1>4, <3>1
  <2> QED BY <2>1, <2>2, SeqEqual
<1> QED BY <1>1, <1>3, <1>5, <1>6, <1>7, <1>8

\* What toValidName makes of a name, unless nothing is left: "." or ".." or a
\* path without either.
Plain(n) == n \in Seq(Nat) /\ n # <<>> /\ \A i \in 1 .. Len(n) : n[i] # Dot /\ n[i] # DotDot
Valid(n) == n = Root \/ n = <<DotDot>> \/ Plain(n)

\* The one element of the two special names.
LEMMA SpecialNames ==
    /\ Root \in Seq(Nat) /\ Len(Root) = 1 /\ Root[1] = Dot /\ Root # <<>>
    /\ <<DotDot>> \in Seq(Nat) /\ Len(<<DotDot>>) = 1 /\ <<DotDot>>[1] = DotDot /\ <<DotDot>> # <<>>
    /\ Dot \in Nat /\ DotDot \in Nat /\ Dot # DotDot
BY DEF Root, Dot, DotDot

\* A name has at least one element.
LEMMA ValidType ==
    ASSUME NEW n, Valid(n)
    PROVE  n \in Seq(Nat) /\ n # <<>> /\ Len(n) \in Nat /\ Len(n) >= 1
<1>1. n \in Seq(Nat) /\ n # <<>>
  BY SpecialNames DEF Valid, Plain
<1> QED BY <1>1, EmptySeq, LenProperties

\* The parts of a name.
LEMMA SplitParts ==
    ASSUME NEW n \in Seq(Nat), n # <<>>
    PROVE  /\ split(n).dir \in Seq(Nat) /\ split(n).elem \in Nat
           /\ split(n).elem = n[Len(n)]
           /\ Len(n) = 1 => split(n).dir = Root
           /\ Len(n) # 1 => /\ Len(split(n).dir) = Len(n) - 1
                            /\ \A i \in 1 .. Len(n) - 1 : split(n).dir[i] = n[i]
<1>1. Len(n) \in Nat /\ Len(n) >= 1 /\ \A i \in 1 .. Len(n) : n[i] \in Nat
  BY EmptySeq, LenProperties, ElementOfSeq
<1>2. split(n).elem = n[Len(n)] /\ split(n).dir = IF Len(n) = 1 THEN Root ELSE SubSeq(n, 1, Len(n) - 1)
  BY DEF split, Last, Front
<1>3. Len(n) \in 1 .. Len(n)
  BY <1>1
<1>4. CASE Len(n) = 1
  BY <1>1, <1>2, <1>3, <1>4, SpecialNames
<1>5. CASE Len(n) # 1
  <2> DEFINE d == SubSeq(n, 1, Len(n) - 1)
  <2>1. d \in Seq(Nat) /\ Len(d) = Len(n) - 1 /\ \A i \in 1 .. Len(n) - 1 : d[i] = n[i]
    <3>1. PICK k \in Nat : k = Len(n) - 1
      BY <1>1
    <3>2. SubSeq(n, 1, k) \in Seq(Nat) /\ Len(SubSeq(n, 1, k)) = k
          /\ \A i \in 1 .. k : SubSeq(n, 1, k)[i] = n[i]
      BY <1>1, <3>1, SMT
    <3> QED BY <3>1, <3>2
  <2> HIDE DEF d
  <2>2. split(n).dir = d
    BY <1>2, <1>5 DEF d
  <2> QED BY <1>1, <1>2, <1>3, <1>5, <2>1, <2>2
<1> QED BY <1>4, <1>5

\* Valid names with the same parts are the same: no other name is in a directory
\* called ".".
LEMMA SplitInjective ==
    ASSUME NEW x, Valid(x), NEW y, Valid(y),
           split(x).dir = split(y).dir, split(x).elem = split(y).elem
    PROVE  x = y
<1>1. /\ x \in Seq(Nat) /\ x # <<>> /\ Len(x) \in Nat /\ Len(x) >= 1
      /\ y \in Seq(Nat) /\ y # <<>> /\ Len(y) \in Nat /\ Len(y) >= 1
  BY ValidType
<1>2. ASSUME NEW n, Valid(n), Len(n) # 1
      PROVE  split(n).dir # Root
  <2>1. Plain(n)
    BY <1>2, SpecialNames DEF Valid
  <2>2. n \in Seq(Nat) /\ n # <<>> /\ Len(n) \in Nat /\ Len(n) >= 1
    BY <1>2, ValidType
  <2>3. 1 \in 1 .. Len(n) - 1 /\ 1 \in 1 .. Len(n)
    <3>1. PICK k \in Nat : k = Len(n)
      BY <2>2
    <3>2. k >= 1 /\ k # 1
      BY <1>2, <2>2, <3>1
    <3>3. 1 \in 1 .. k - 1 /\ 1 \in 1 .. k
      BY <3>2
    <3> QED BY <3>1, <3>3
  <2>4. split(n).dir[1] = n[1]
    BY <1>2, <2>2, <2>3, SplitParts
  <2> QED BY <2>1, <2>3, <2>4, SpecialNames DEF Plain
<1>3. split(x).elem = x[Len(x)] /\ split(y).elem = y[Len(y)]
  BY <1>1, SplitParts
<1>4. CASE Len(x) = 1
  <2>1. Len(y) = 1
    BY <1>1, <1>2, <1>4, SplitParts
  <2>2. \A i \in 1 .. Len(x) : x[i] = y[i]
    <3>1. x[Len(x)] = y[Len(y)]
      BY <1>3, Zenon
    <3>2. x[1] = y[1]
      BY <1>4, <2>1, <3>1, Zenon
    <3>3. \A i \in 1 .. 1 : i = 1
      OBVIOUS
    <3> QED BY <1>4, <3>2, <3>3
  <2> QED BY <1>1, <1>4, <2>1, <2>2, SeqEqual
<1>5. CASE Len(x) # 1
  <2>1. Len(y) # 1
    BY <1>1, <1>2, <1>5, SplitParts
  <2>2. Len(x) - 1 = Len(y) - 1 /\ \A i \in 1 .. Len(x) - 1 : x[i] = y[i]
    <3>1. Len(split(x).dir) = Len(x) - 1 /\ \A i \in 1 .. Len(x) - 1 : split(x).dir[i] = x[i]
      BY <1>1, <1>5, SplitParts
    <3>2. Len(split(y).dir) = Len(y) - 1 /\ \A i \in 1 .. Len(y) - 1 : split(y).dir[i] = y[i]
      BY <1>1, <2>1, SplitParts
    <3> QED BY <3>1, <3>2
  <2>3. Len(x) = Len(y)
    BY <1>1, <2>2
  <2>4. \A i \in 1 .. Len(x) : x[i] = y[i]
    <3>1. \A i \in 1 .. Len(x) : i \in 1 .. Len(x) - 1 \/ i = Len(x)
      BY <1>1
    <3> QED BY <1>3, <2>2, <2>3, <3>1
  <2> QED BY <1>1, <2>3, <2>4, SeqEqual
<1> QED BY <1>4, <1>5

\* The order of the file list is strict and total on valid names, and transitive
\* on all.
LEMMA EntryLessIrreflexive ==
    ASSUME NEW x \in Seq(Nat), x # <<>>
    PROVE  ~fileEntryLess(x, x)
<1>1. split(x).dir \in Seq(Nat) /\ split(x).elem \in Nat
  BY SplitParts
<1> QED BY <1>1, StringLessIrreflexive DEF fileEntryLess

\* By directory and then by last element: transitive,
LEMMA EntryLessTransitive ==
    ASSUME NEW x \in Seq(Nat), NEW y \in Seq(Nat), NEW z \in Seq(Nat),
           x # <<>>, y # <<>>, z # <<>>, fileEntryLess(x, y), fileEntryLess(y, z)
    PROVE  fileEntryLess(x, z)
<1>1. PICK dx \in Seq(Nat), ex \in Nat : dx = split(x).dir /\ ex = split(x).elem
  BY SplitParts
<1>2. PICK dy \in Seq(Nat), ey \in Nat : dy = split(y).dir /\ ey = split(y).elem
  BY SplitParts
<1>3. PICK dz \in Seq(Nat), ez \in Nat : dz = split(z).dir /\ ez = split(z).elem
  BY SplitParts
<1>4. StringLess(dx, dy) \/ (dx = dy /\ ex < ey)
  BY <1>1, <1>2 DEF fileEntryLess
<1>5. StringLess(dy, dz) \/ (dy = dz /\ ey < ez)
  BY <1>2, <1>3 DEF fileEntryLess
<1>6. StringLess(dx, dz) \/ (dx = dz /\ ex < ez)
  <2>1. CASE StringLess(dx, dy) /\ StringLess(dy, dz)
    BY <2>1, StringLessTransitive
  <2>2. CASE StringLess(dx, dy) /\ dy = dz
    BY <2>2
  <2>3. CASE dx = dy /\ StringLess(dy, dz)
    BY <2>3
  <2>4. CASE dx = dy /\ dy = dz /\ ex < ey /\ ey < ez
    BY <2>4
  <2> QED BY <1>4, <1>5, <2>1, <2>2, <2>3, <2>4
<1> QED BY <1>1, <1>3, <1>6 DEF fileEntryLess

\* and total up to names with the same parts.
LEMMA EntryLessTotal ==
    ASSUME NEW x \in Seq(Nat), NEW y \in Seq(Nat), x # <<>>, y # <<>>
    PROVE  \/ fileEntryLess(x, y) \/ fileEntryLess(y, x)
           \/ split(x).dir = split(y).dir /\ split(x).elem = split(y).elem
<1>1. PICK dx \in Seq(Nat), ex \in Nat : dx = split(x).dir /\ ex = split(x).elem
  BY SplitParts
<1>2. PICK dy \in Seq(Nat), ey \in Nat : dy = split(y).dir /\ ey = split(y).elem
  BY SplitParts
<1>3. dx = dy \/ StringLess(dx, dy) \/ StringLess(dy, dx)
  BY StringLessTotal
<1>4. ex < ey \/ ey < ex \/ ex = ey
  OBVIOUS
<1> QED BY <1>1, <1>2, <1>3, <1>4 DEF fileEntryLess

-----------------------------------------------------------------------------
(* toValidName.                                                            *)

\* What path.Clean leaves: no ".", and ".." only in front.
Cleaned(c) ==
    /\ c \in Seq(Nat)
    /\ \A i \in 1 .. Len(c) : c[i] # Dot
    /\ \A i, j \in 1 .. Len(c) : i < j /\ c[j] = DotDot => c[i] = DotDot

\* ".." only ever stands at the front of what is cleaned, and "." nowhere.
LEMMA CleanStepKeeps ==
    ASSUME NEW acc, Cleaned(acc), NEW e \in Nat, NEW rooted
    PROVE  Cleaned(CleanStep(acc, e, rooted))
<1>1. acc \in Seq(Nat) /\ Len(acc) \in Nat /\ \A i \in 1 .. Len(acc) : acc[i] \in Nat
  <2>1. acc \in Seq(Nat)
    BY DEF Cleaned
  <2> QED BY <2>1, LenProperties, ElementOfSeq
<1>2. acc # <<>> => Len(acc) >= 1 /\ Len(acc) \in 1 .. Len(acc)
  BY <1>1, EmptySeq
<1>3. CASE CleanStep(acc, e, rooted) = acc
  BY <1>3
<1>4. CASE acc # <<>> /\ CleanStep(acc, e, rooted) = Front(acc)
  <2>1. PICK k \in Nat : k = Len(acc) - 1
    BY <1>1, <1>2, <1>4
  <2> DEFINE f == SubSeq(acc, 1, k)
  <2>2. f \in Seq(Nat) /\ Len(f) = k /\ \A i \in 1 .. k : f[i] = acc[i]
    BY <1>1, <2>1, SMT
  <2> HIDE DEF f
  <2>3. \A i \in 1 .. k : i \in 1 .. Len(acc)
    BY <1>1, <2>1
  <2>4. Cleaned(f)
    BY <2>2, <2>3 DEF Cleaned
  <2>5. Front(acc) = f
    BY <2>1 DEF Front, f
  <2> QED BY <1>4, <2>4, <2>5
<1>5. CASE /\ CleanStep(acc, e, rooted) = Append(acc, e) /\ e # Dot
           /\ e = DotDot => acc = <<>> \/ Last(acc) = DotDot
  <2> DEFINE a == Append(acc, e)
  <2>1. a \in Seq(Nat) /\ Len(a) = Len(acc) + 1 /\ a[Len(acc) + 1] = e
        /\ \A i \in 1 .. Len(acc) : a[i] = acc[i]
    BY <1>1, AppendProperties
  <2> HIDE DEF a
  <2>2. \A i \in 1 .. Len(a) : i \in 1 .. Len(acc) \/ i = Len(acc) + 1
    BY <1>1, <2>1
  <2>3. \A i \in 1 .. Len(a) : a[i] # Dot
    BY <1>5, <2>1, <2>2 DEF Cleaned
  <2>4. e = DotDot => \A i \in 1 .. Len(acc) : acc[i] = DotDot
    <3> SUFFICES ASSUME e = DotDot, NEW i \in 1 .. Len(acc) PROVE acc[i] = DotDot
      OBVIOUS
    <3>1. acc # <<>> /\ acc[Len(acc)] = DotDot
      BY <1>1, <1>5 DEF Last
    <3>2. Len(acc) \in 1 .. Len(acc) /\ (i = Len(acc) \/ i < Len(acc))
      BY <1>1, <1>2, <3>1
    <3> QED BY <3>1, <3>2 DEF Cleaned
  <2>5. ASSUME NEW i \in 1 .. Len(a), NEW j \in 1 .. Len(a), i < j, a[j] = DotDot
        PROVE  a[i] = DotDot
    <3>1. i \in 1 .. Len(acc)
      BY <1>1, <2>1, <2>5
    <3>2. CASE j = Len(acc) + 1
      BY <2>1, <2>4, <2>5, <3>1, <3>2
    <3>3. CASE j \in 1 .. Len(acc)
      BY <2>1, <2>5, <3>1, <3>3 DEF Cleaned
    <3> QED BY <2>2, <3>2, <3>3
  <2>6. Cleaned(a)
    BY <2>1, <2>3, <2>5 DEF Cleaned
  <2> QED BY <1>5, <2>6 DEF a
<1> QED BY <1>3, <1>4, <1>5 DEF CleanStep

\* The elements path.Clean goes through.
Cleans(f, raw) ==
    f = [n \in 0 .. Len(raw.elems) |->
            IF n = 0 THEN <<>> ELSE CleanStep(f[n - 1], raw.elems[n], raw.rooted)]

\* The elements cleaned so far are defined for every number of elements.
LEMMA CleansExists ==
    ASSUME NEW raw, raw.elems \in Seq(Nat)
    PROVE  \E f : Cleans(f, raw)
<1> DEFINE N == Len(raw.elems)
           A == { c \in Seq(Nat) : Cleaned(c) }
           step == [p \in A \X (1 .. N) |-> CleanStep(p[1], raw.elems[p[2]], raw.rooted)]
<1>1. N \in Nat /\ \A i \in 1 .. N : raw.elems[i] \in Nat
  BY LenProperties, ElementOfSeq
<1>2. << >> \in A
  <2>1. << >> \in Seq(Nat) /\ Len(<< >>) = 0
    BY EmptySeq
  <2> QED BY <2>1 DEF Cleaned
<1>3. ASSUME NEW c \in A, NEW n \in 1 .. N
      PROVE  CleanStep(c, raw.elems[n], raw.rooted) \in A
  <2>1. Cleaned(CleanStep(c, raw.elems[n], raw.rooted))
    BY <1>1, CleanStepKeeps
  <2> QED BY <2>1 DEF Cleaned
<1>4. /\ step \in [A \X (1 .. N) -> A]
      /\ \A c \in A, n \in 1 .. N : step[<<c, n>>] = CleanStep(c, raw.elems[n], raw.rooted)
  BY <1>3
<1> HIDE DEF A, step
<1>5. PICK f : Recurs(f, N, A, << >>, step)
  BY <1>1, <1>2, <1>4, RecursionExists
<1>6. f \in [0 .. N -> A] /\ f[0] = << >>
  BY <1>5 DEF Recurs
<1>7. ASSUME NEW n \in 0 .. N
      PROVE  f[n] = IF n = 0 THEN <<>> ELSE CleanStep(f[n - 1], raw.elems[n], raw.rooted)
  <2>1. CASE n = 0
    BY <1>6, <2>1
  <2>2. CASE n # 0
    <3>1. n \in 1 .. N /\ n - 1 \in 0 .. N
      BY <1>1, <2>2
    <3>2. f[n - 1] \in A
      BY <1>6, <3>1
    <3> QED BY <1>4, <1>5, <2>2, <3>1, <3>2 DEF Recurs
  <2> QED BY <2>1, <2>2
<1> QED BY <1>6, <1>7 DEF Cleans

\* path.Clean of any elements.
LEMMA CleanElemsCleaned ==
    ASSUME NEW raw, raw.elems \in Seq(Nat)
    PROVE  Cleaned(CleanElems(raw))
<1> DEFINE N == Len(raw.elems)
           f == CHOOSE g : Cleans(g, raw)
<1>1. N \in Nat /\ \A i \in 1 .. N : raw.elems[i] \in Nat
  BY LenProperties, ElementOfSeq
<1>2. Cleans(f, raw)
  BY CleansExists
<1>3. CleanElems(raw) = f[N]
  BY DEF CleanElems, Cleans
<1> HIDE DEF f
<1>4. \A n \in 0 .. N : f[n] = IF n = 0 THEN <<>> ELSE CleanStep(f[n - 1], raw.elems[n], raw.rooted)
  <2> DEFINE h == [n \in 0 .. N |->
                      IF n = 0 THEN <<>> ELSE CleanStep(f[n - 1], raw.elems[n], raw.rooted)]
  <2>1. f = h
    BY <1>2 DEF Cleans
  <2>2. \A n \in 0 .. N : h[n] = IF n = 0 THEN <<>> ELSE CleanStep(f[n - 1], raw.elems[n], raw.rooted)
    OBVIOUS
  <2> HIDE DEF h
  <2> QED BY <2>1, <2>2
<1> DEFINE G == {n \in 0 .. N : Cleaned(f[n])}
<1>5. 0 \in G
  <2>1. << >> \in Seq(Nat) /\ Len(<< >>) = 0 /\ f[0] = << >>
    BY <1>1, <1>4, EmptySeq
  <2>2. Cleaned(<< >>)
    BY <2>1 DEF Cleaned
  <2> QED BY <1>1, <2>1, <2>2
<1>6. ASSUME NEW n \in 1 .. N, n - 1 \in G PROVE n \in G
  <2>1. f[n] = CleanStep(f[n - 1], raw.elems[n], raw.rooted) /\ n \in 0 .. N
    BY <1>1, <1>4
  <2> QED BY <1>1, <1>6, <2>1, CleanStepKeeps
<1>7. N \in G
  <2> HIDE DEF G
  <2>1. \A n \in 0 .. N : n \in G
    BY <1>1, <1>5, <1>6, Induct
  <2> QED BY <1>1, <2>1
<1> QED BY <1>3, <1>7

\* toValidName leaves nothing or a valid name.
LEMMA ToValidName ==
    ASSUME NEW raw, raw.elems \in Seq(Nat)
    PROVE  toValidName(raw) = <<>> \/ Valid(toValidName(raw))
<1> DEFINE c == CleanElems(raw)
           ups == { i \in 0 .. (Len(c) - 1) : \A j \in 1 .. i : c[j] = DotDot }
           cut == CHOOSE i \in ups : \A j \in ups : j <= i
           n == SubSeq(c, cut + 1, Len(c))
<1>1. Cleaned(c)
  BY CleanElemsCleaned
<1>2. c \in Seq(Nat) /\ Len(c) \in Nat /\ \A i \in 1 .. Len(c) : c[i] \in Nat
  <2>1. c \in Seq(Nat)
    BY <1>1 DEF Cleaned
  <2> HIDE DEF c
  <2> QED BY <2>1, LenProperties, ElementOfSeq
<1>3. toValidName(raw) = CASE c # <<>> -> n
                           [] c = <<>> /\ raw.rooted -> <<>>
                           [] c = <<>> /\ ~raw.rooted -> Root
  BY DEF toValidName
<1> HIDE DEF c
<1>4. CASE c = <<>>
  <2>1. CASE raw.rooted
    BY <1>3, <1>4, <2>1
  <2>2. CASE ~raw.rooted
    BY <1>3, <1>4, <2>2 DEF Valid
  <2> QED BY <2>1, <2>2
<1>5. CASE c # <<>>
  <2>1. Len(c) >= 1
    BY <1>2, <1>5, EmptySeq
  <2>2. cut \in ups /\ \A j \in ups : j <= cut
    <3> DEFINE room == { d \in Nat : Len(c) - d \in ups }
    <3>1. ups \subseteq Nat /\ 0 \in ups /\ \A i \in ups : i <= Len(c)
      BY <1>2, <2>1
    <3> HIDE DEF ups
    <3>2. room \subseteq Nat /\ Len(c) \in room
      BY <1>2, <3>1
    <3> HIDE DEF room
    <3>3. PICK d \in room : \A e \in room : d <= e
      BY <3>2, Smallest
    <3>4. Len(c) - d \in ups /\ d \in Nat
      BY <3>3 DEF room
    <3>5. ASSUME NEW j \in ups PROVE j <= Len(c) - d
      <4>1. j \in Nat /\ j <= Len(c) /\ Len(c) - j \in Nat /\ Len(c) - (Len(c) - j) = j
        BY <1>2, <3>1
      <4>2. Len(c) - j \in room
        BY <4>1 DEF room
      <4>3. d <= Len(c) - j
        BY <3>3, <4>2
      <4> QED BY <1>2, <3>4, <4>1, <4>3
    <3>6. \E i \in ups : \A j \in ups : j <= i
      BY <3>4, <3>5
    <3> QED BY <3>6
  <2>3. cut \in Nat /\ cut <= Len(c) - 1
    BY <1>2, <2>2
  <2> HIDE DEF cut
  <2>4. PICK k \in Nat : k = Len(c) - cut /\ k >= 1
    <3>1. PICK l \in Nat, a \in Nat : l = Len(c) /\ a = cut
      BY <1>2, <2>3
    <3>2. a <= l - 1
      BY <2>3, <3>1
    <3>3. l - a \in Nat /\ l - a >= 1
      BY ONLY <3>2, l \in Nat, a \in Nat
    <3> QED BY <3>1, <3>3
  <2>5. n \in Seq(Nat) /\ Len(n) = k /\ \A i \in 1 .. k : n[i] = c[cut + i]
    <3>1. PICK a \in Nat : a = cut
      BY <2>3
    <3>2. c \in Seq(Nat) /\ a \in Nat /\ k \in Nat /\ a + k = Len(c) /\ a + k <= Len(c)
      BY <1>2, <2>4, <3>1
    <3>3. /\ SubSeq(c, a + 1, a + k) \in Seq(Nat) /\ Len(SubSeq(c, a + 1, a + k)) = k
          /\ \A i \in 1 .. k : SubSeq(c, a + 1, a + k)[i] = c[a + i]
      BY ONLY <3>2, PartIs
    <3>4. n = SubSeq(c, a + 1, a + k)
      BY <3>1, <3>2
    <3> HIDE DEF n
    <3> QED BY <3>1, <3>3, <3>4
  <2> HIDE DEF n
  <2>6. toValidName(raw) = n
    BY <1>3, <1>5
  <2>7. \A i \in 1 .. k : cut + i \in 1 .. Len(c)
    BY <1>2, <2>3, <2>4
  <2>8. \A i \in 1 .. k : n[i] # Dot
    BY <1>1, <2>5, <2>7 DEF Cleaned
  <2>9. n # <<>>
    BY <2>4, <2>5, EmptySeq
  <2>10. CASE k = 1 /\ n[1] = DotDot
    <3>1. \A i \in 1 .. Len(n) : n[i] = <<DotDot>>[i]
      <4>1. \A i \in 1 .. 1 : i = 1
        OBVIOUS
      <4> QED BY <2>5, <2>10, <4>1, SpecialNames
    <3>2. n = <<DotDot>>
      BY <2>5, <2>10, <3>1, SpecialNames, SeqEqual
    <3> QED BY <2>6, <3>2 DEF Valid
  <2>11. CASE n[1] # DotDot
    <3>1. ASSUME NEW i \in 1 .. k PROVE n[i] # DotDot
      <4>1. CASE i = 1
        BY <2>11, <4>1
      <4>2. CASE i # 1
        <5>1. 1 \in 1 .. k /\ cut + 1 < cut + i
          BY <2>3, <2>4, <4>2
        <5>2. n[i] = c[cut + i] /\ n[1] = c[cut + 1]
          BY <2>5, <5>1
        <5> QED BY <1>1, <2>7, <2>11, <5>1, <5>2 DEF Cleaned
      <4> QED BY <4>1, <4>2
    <3>2. Plain(n)
      BY <2>5, <2>8, <2>9, <3>1 DEF Plain
    <3> QED BY <2>6, <3>2 DEF Valid
  <2>12. CASE k # 1 /\ n[1] = DotDot
    <3>1. c[cut + 1] = DotDot
      <4>1. 1 \in 1 .. k
        BY <2>4
      <4> QED BY <2>5, <2>12, <4>1
    <3>2. cut + 1 \in ups
      <4>1. cut + 1 \in 0 .. Len(c) - 1
        BY <1>2, <2>3, <2>4, <2>12
      <4>2. \A j \in 1 .. cut + 1 : j \in 1 .. cut \/ j = cut + 1
        BY <2>3
      <4>3. \A j \in 1 .. cut : c[j] = DotDot
        BY <2>2
      <4> QED BY <3>1, <4>1, <4>2, <4>3
    <3>3. ~(cut + 1 <= cut)
      BY <2>3
    <3> QED BY <2>2, <3>2, <3>3
  <2> QED BY <2>10, <2>11, <2>12
<1> QED BY <1>4, <1>5

\* The parents of a valid name are valid.
LEMMA ParentsValid ==
    ASSUME NEW n, Valid(n), NEW d \in Parents(n)
    PROVE  Plain(d)
<1>1. n \in Seq(Nat) /\ Len(n) \in Nat
  BY ValidType
<1>2. PICK k \in 1 .. (Len(n) - 1) : d = SubSeq(n, 1, k)
  BY DEF Parents
<1>3. k \in Nat /\ k >= 1 /\ k <= Len(n) /\ Len(n) # 1
  BY <1>1, <1>2
<1>4. Plain(n)
  BY <1>3, SpecialNames DEF Valid
<1>5. SubSeq(n, 1, k) \in Seq(Nat) /\ Len(SubSeq(n, 1, k)) = k
      /\ \A i \in 1 .. k : SubSeq(n, 1, k)[i] = n[i]
  BY <1>1, <1>3, SMT
<1>6. \A i \in 1 .. k : i \in 1 .. Len(n)
  BY <1>1, <1>3
<1>7. d # <<>>
  BY <1>2, <1>3, <1>5, EmptySeq
<1> QED BY <1>2, <1>4, <1>5, <1>6, <1>7 DEF Plain

-----------------------------------------------------------------------------
(* initFileList.                                                           *)

\* What a fileListEntry holds.
Entries == [name : Seq(Nat), file : Nat, isDir : BOOLEAN, isDup : BOOLEAN]

\* The name of member i, as far as it has one.
NameOf(members, i) == toValidName(members[i].name)

\* The list has one entry for each name of the first n members.
Lists(list, members, n) ==
    /\ list \in Seq(Entries)
    /\ \A k \in 1 .. Len(list) : Valid(list[k].name) /\ list[k].file \in 1 .. n
    /\ \A k, l \in 1 .. Len(list) : list[k].name = list[l].name => k = l
    /\ \A k \in 1 .. Len(list) : \E i \in 1 .. n : list[k].name = NameOf(members, i)
    /\ \A i \in 1 .. n : NameOf(members, i) # <<>> =>
            \E k \in 1 .. Len(list) : list[k].name = NameOf(members, i)

\* A member has a name or is left out.
LEMMA NameOfMember ==
    ASSUME NEW members \in Seq(Members), NEW i \in 1 .. Len(members)
    PROVE  /\ NameOf(members, i) = <<>> \/ Valid(NameOf(members, i))
           /\ isDirName(members[i].name) \in BOOLEAN
<1>1. members[i].name \in RawNames
  <2>1. members[i] \in Members
    BY ElementOfSeq
  <2> QED BY <2>1 DEF Members
<1>2. members[i].name.elems \in Seq(Nat)
  BY <1>1 DEF RawNames
<1> QED BY <1>2, ToValidName DEF NameOf, isDirName

\* One more member.
LEMMA MemberStepLists ==
    ASSUME NEW members \in Seq(Members), NEW n \in 1 .. Len(members),
           NEW list, Lists(list, members, n - 1)
    PROVE  Lists(MemberStep(list, NameOf(members, n), n, isDirName(members[n].name)), members, n)
<1> DEFINE name == NameOf(members, n)
           isDir == isDirName(members[n].name)
           known == { k \in DOMAIN list : list[k].name = name }
           new == MemberStep(list, name, n, isDir)
<1>1. n \in Nat /\ n >= 1 /\ n - 1 \in Nat /\ n \in 1 .. n /\ \A i \in 1 .. n : i = n \/ i \in 1 .. n - 1
  BY LenProperties
<1>2. \A i \in 1 .. n - 1 : i \in 1 .. n
  BY <1>1
<1>3. list \in Seq(Entries) /\ Len(list) \in Nat /\ DOMAIN list = 1 .. Len(list)
      /\ \A k \in 1 .. Len(list) : list[k] \in Entries
  <2>1. list \in Seq(Entries)
    BY DEF Lists
  <2> QED BY <2>1, LenProperties, ElementOfSeq
<1>4. (name = <<>> \/ Valid(name)) /\ isDir \in BOOLEAN
  BY NameOfMember
<1>5. \A k \in 1 .. Len(list) : Valid(list[k].name) /\ list[k].file \in 1 .. n
  BY <1>2 DEF Lists
<1>6. \A k, l \in 1 .. Len(list) : list[k].name = list[l].name => k = l
  BY DEF Lists
<1>7. \A k \in 1 .. Len(list) : \E i \in 1 .. n : list[k].name = NameOf(members, i)
  BY <1>2 DEF Lists
<1>8. \A i \in 1 .. n - 1 : NameOf(members, i) # <<>> =>
            \E k \in 1 .. Len(list) : list[k].name = NameOf(members, i)
  BY DEF Lists
<1>9. CASE name = <<>>
  <2>1. new = list
    BY <1>9 DEF MemberStep
  <2>2. \A i \in 1 .. n : NameOf(members, i) # <<>> =>
            \E k \in 1 .. Len(list) : list[k].name = NameOf(members, i)
    BY <1>1, <1>8, <1>9
  <2>3. Lists(list, members, n)
    BY <1>3, <1>5, <1>6, <1>7, <2>2 DEF Lists
  <2> QED BY <2>1, <2>3
<1>10. CASE name # <<>> /\ known # {}
  <2>1. new = [ k \in DOMAIN list |-> [list[k] EXCEPT !.isDup = @ \/ k \in known] ]
    BY <1>10 DEF MemberStep
  <2>2. PICK kn : kn = known
    OBVIOUS
  <2>3. \A k \in 1 .. Len(list) : new[k] = [list[k] EXCEPT !.isDup = @ \/ k \in kn]
    BY <1>3, <2>1, <2>2
  <2>4. \A k \in 1 .. Len(list) : /\ new[k] \in Entries
                                  /\ new[k].name = list[k].name
                                  /\ new[k].file = list[k].file
    BY <1>3, <2>3 DEF Entries
  <2>5. new \in [1 .. Len(list) -> Entries]
    BY <1>3, <2>1, <2>4
  <2> HIDE DEF new
  <2>6. new \in Seq(Entries) /\ Len(new) = Len(list)
    BY <1>3, <2>5
  <2>7. PICK j \in 1 .. Len(list) : list[j].name = name
    BY <1>3, <1>10
  <2>8. \A i \in 1 .. n : NameOf(members, i) # <<>> =>
            \E k \in 1 .. Len(list) : list[k].name = NameOf(members, i)
    BY <1>1, <1>8, <2>7
  <2>9. \A k \in 1 .. Len(new) : Valid(new[k].name) /\ new[k].file \in 1 .. n
    BY <1>5, <2>4, <2>6
  <2>10. \A k, l \in 1 .. Len(new) : new[k].name = new[l].name => k = l
    BY <1>6, <2>4, <2>6
  <2>11. \A k \in 1 .. Len(new) : \E i \in 1 .. n : new[k].name = NameOf(members, i)
    BY <1>7, <2>4, <2>6
  <2>12. \A i \in 1 .. n : NameOf(members, i) # <<>> =>
            \E k \in 1 .. Len(new) : new[k].name = NameOf(members, i)
    BY <2>4, <2>6, <2>8
  <2>13. Lists(new, members, n)
    BY <2>6, <2>9, <2>10, <2>11, <2>12 DEF Lists
  <2> QED BY <2>13 DEF new
<1>11. CASE name # <<>> /\ known = {}
  <2> DEFINE e == Entry(name, n, isDir, FALSE)
  <2>1. new = Append(list, e)
    BY <1>11 DEF MemberStep
  <2>2. e \in Entries /\ e.name = name /\ e.file = n
    <3>1. name \in Seq(Nat)
      BY <1>4, <1>11, ValidType
    <3> HIDE DEF name, isDir
    <3> QED BY <1>1, <1>4, <3>1 DEF Entry, Entries
  <2> HIDE DEF e, new
  <2>3. /\ new \in Seq(Entries) /\ Len(new) = Len(list) + 1 /\ new[Len(list) + 1] = e
        /\ \A k \in 1 .. Len(list) : new[k] = list[k]
    BY <1>3, <2>1, <2>2, AppendProperties
  <2>4. \A k \in 1 .. Len(new) : k \in 1 .. Len(list) \/ k = Len(list) + 1
    BY <1>3, <2>3
  <2>5. Len(list) + 1 \in 1 .. Len(new) /\ \A k \in 1 .. Len(list) : k \in 1 .. Len(new)
    BY <1>3, <2>3
  <2>6. \A k \in 1 .. Len(list) : list[k].name # name
    BY <1>3, <1>11
  <2>7. \A k \in 1 .. Len(new) : Valid(new[k].name) /\ new[k].file \in 1 .. n
    BY <1>1, <1>4, <1>5, <1>11, <2>2, <2>3, <2>4
  <2>8. \A k, l \in 1 .. Len(new) : new[k].name = new[l].name => k = l
    BY <1>6, <2>2, <2>3, <2>4, <2>6
  <2>9. \A k \in 1 .. Len(new) : \E i \in 1 .. n : new[k].name = NameOf(members, i)
    BY <1>1, <1>7, <2>2, <2>3, <2>4
  <2>10. \A i \in 1 .. n : NameOf(members, i) # <<>> =>
            \E k \in 1 .. Len(new) : new[k].name = NameOf(members, i)
    BY <1>1, <1>8, <2>2, <2>3, <2>5
  <2>11. Lists(new, members, n)
    BY <2>3, <2>7, <2>8, <2>9, <2>10 DEF Lists
  <2> QED BY <2>11 DEF new
<1> QED BY <1>9, <1>10, <1>11

\* The lists initFileList goes through.
Collects(f, members) ==
    f = [n \in 0 .. Len(members) |->
            IF n = 0 THEN <<>>
            ELSE MemberStep(f[n - 1], NameOf(members, n), n, isDirName(members[n].name))]

\* The entries of the first n members are defined for every n.
LEMMA CollectsExists ==
    ASSUME NEW members \in Seq(Members)
    PROVE  \E f : Collects(f, members)
<1> DEFINE N == Len(members)
           Step(l, n) == MemberStep(l, NameOf(members, n), n, isDirName(members[n].name))
           A == Seq(Entries)
           step == [p \in A \X (1 .. N) |-> Step(p[1], p[2])]
<1>1. N \in Nat
  BY LenProperties
<1>2. << >> \in A
  BY EmptySeq
<1>3. ASSUME NEW l \in A, NEW n \in 1 .. N
      PROVE  Step(l, n) \in A
  <2> DEFINE name == NameOf(members, n)
             isDir == isDirName(members[n].name)
             known == { k \in DOMAIN l : l[k].name = name }
  <2>1. l \in Seq(Entries) /\ Len(l) \in Nat /\ DOMAIN l = 1 .. Len(l)
        /\ \A k \in 1 .. Len(l) : l[k] \in Entries
    BY LenProperties, ElementOfSeq
  <2>2. CASE name = <<>>
    BY <2>2 DEF MemberStep
  <2>3. CASE name # <<>> /\ known # {}
    <3> DEFINE new == [ k \in DOMAIN l |-> [l[k] EXCEPT !.isDup = @ \/ k \in known] ]
    <3>1. new \in [1 .. Len(l) -> Entries]
      <4>1. \A k \in 1 .. Len(l) : \A b \in BOOLEAN : [l[k] EXCEPT !.isDup = @ \/ b] \in Entries
        BY <2>1 DEF Entries
      <4>2. \A k \in 1 .. Len(l) : (k \in known) \in BOOLEAN
        OBVIOUS
      <4> HIDE DEF known
      <4> QED BY <2>1, <4>1, <4>2
    <3>2. Step(l, n) = new
      BY <2>3 DEF MemberStep
    <3> HIDE DEF new
    <3>3. new \in Seq(Entries)
      BY <2>1, <3>1
    <3> QED BY <3>2, <3>3
  <2>4. CASE name # <<>> /\ known = {}
    <3> DEFINE e == Entry(name, n, isDir, FALSE)
    <3>1. name \in Seq(Nat) /\ isDir \in BOOLEAN /\ n \in Nat
      BY <2>4, NameOfMember, ValidType
    <3>2. e \in Entries
      <4> HIDE DEF name, isDir
      <4> QED BY <3>1 DEF Entry, Entries
    <3>3. Step(l, n) = Append(l, e)
      BY <2>4 DEF MemberStep
    <3> HIDE DEF e
    <3>4. Append(l, e) \in Seq(Entries)
      BY <2>1, <3>2, AppendProperties
    <3> QED BY <3>3, <3>4
  <2> QED BY <2>2, <2>3, <2>4
<1>4. /\ step \in [A \X (1 .. N) -> A]
      /\ \A l \in A, n \in 1 .. N : step[<<l, n>>] = Step(l, n)
  <2> HIDE DEF A, Step
  <2> QED BY <1>3
<1> HIDE DEF A, step
<1>5. PICK f : Recurs(f, N, A, << >>, step)
  BY <1>1, <1>2, <1>4, RecursionExists
<1>6. f \in [0 .. N -> A] /\ f[0] = << >>
  BY <1>5 DEF Recurs
<1>7. ASSUME NEW n \in 0 .. N
      PROVE  f[n] = IF n = 0 THEN <<>> ELSE Step(f[n - 1], n)
  <2>1. CASE n = 0
    BY <1>6, <2>1
  <2>2. CASE n # 0
    <3>1. n \in 1 .. N /\ n - 1 \in 0 .. N
      BY <1>1, <2>2
    <3>2. f[n - 1] \in A
      BY <1>6, <3>1
    <3> HIDE DEF Step
    <3> QED BY <1>4, <1>5, <2>2, <3>1, <3>2 DEF Recurs
  <2> QED BY <2>1, <2>2
<1> QED BY <1>6, <1>7 DEF Collects

\* The members' entries: one for each name.
LEMMA MemberEntriesAre ==
    ASSUME NEW members \in Seq(Members)
    PROVE  Lists(MemberEntries(members), members, Len(members))
<1> DEFINE N == Len(members)
           Step(l, n) == MemberStep(l, NameOf(members, n), n, isDirName(members[n].name))
           f == CHOOSE g : Collects(g, members)
<1>1. N \in Nat
  BY LenProperties
<1>2. Collects(f, members)
  BY CollectsExists
<1>3. MemberEntries(members) = f[N]
  BY DEF MemberEntries, Collects, NameOf
<1> HIDE DEF f
<1>4. \A n \in 0 .. N : f[n] = IF n = 0 THEN <<>> ELSE Step(f[n - 1], n)
  <2> DEFINE h == [n \in 0 .. N |-> IF n = 0 THEN <<>> ELSE Step(f[n - 1], n)]
  <2>1. f = h
    BY <1>2 DEF Collects
  <2> HIDE DEF Step
  <2>2. \A n \in 0 .. N : h[n] = IF n = 0 THEN <<>> ELSE Step(f[n - 1], n)
    OBVIOUS
  <2> HIDE DEF h
  <2> QED BY <2>1, <2>2
<1> DEFINE G == {n \in 0 .. N : Lists(f[n], members, n)}
<1>5. 0 \in G
  <2>1. << >> \in Seq(Entries) /\ Len(<< >>) = 0 /\ f[0] = << >>
    BY <1>1, <1>4, EmptySeq
  <2>2. Lists(<< >>, members, 0)
    BY <2>1 DEF Lists
  <2> QED BY <1>1, <2>1, <2>2
<1>6. ASSUME NEW n \in 1 .. N, n - 1 \in G PROVE n \in G
  <2>1. f[n] = Step(f[n - 1], n) /\ n \in 0 .. N
    BY <1>1, <1>4
  <2> QED BY <1>6, <2>1, MemberStepLists
<1>7. N \in G
  <2> HIDE DEF G
  <2>1. \A n \in 0 .. N : n \in G
    BY <1>1, <1>5, <1>6, Induct
  <2> QED BY <1>1, <2>1
<1> QED BY <1>3, <1>7

\* The values of a function on a finite set.
LEMMA ImageFinite ==
    ASSUME NEW S, IsFiniteSet(S), NEW g
    PROVE  IsFiniteSet({ g[x] : x \in S })
<1> DEFINE T == { g[x] : x \in S }
           h == [x \in S |-> g[x]]
<1>1. h \in Surjection(S, T)
  BY DEF Surjection
<1> QED BY <1>1, FS_Surjection

\* A name has finitely many directories above it.
LEMMA ParentsFinite ==
    ASSUME NEW n, Len(n) \in Nat
    PROVE  IsFiniteSet(Parents(n))
<1> DEFINE g == [k \in 1 .. (Len(n) - 1) |-> SubSeq(n, 1, k)]
<1>1. IsFiniteSet(1 .. (Len(n) - 1))
  BY FS_Interval
<1>2. Parents(n) = { g[k] : k \in 1 .. (Len(n) - 1) }
  BY DEF Parents
<1>3. PICK S, h : S = 1 .. (Len(n) - 1) /\ h = g
  OBVIOUS
<1> HIDE DEF g
<1>4. IsFiniteSet(S)
  BY <1>1, <1>3
<1>5. IsFiniteSet({ h[k] : k \in S })
  BY ONLY <1>4, ImageFinite
<1> QED BY <1>2, <1>3, <1>5

\* The directories the members are in, and the entries of the file list before
\* they are sorted.
Dirs(own) == UNION { Parents(e.name) : e \in ToSet(own) }
Marked(own) == { [e EXCEPT !.isDup = @ \/ (~e.isDir /\ e.name \in Dirs(own))] : e \in ToSet(own) }
Implied(own) ==
    { Entry(d, NoMember, TRUE, FALSE) : d \in Dirs(own) \ { e.name : e \in ToSet(own) } }
Unsorted(own) == Marked(own) \cup Implied(own)
Order(S) == { p \in S \X S : fileEntryLess(p[1].name, p[2].name) }

\* initFileList in these terms.
LEMMA WithParentsDef ==
    ASSUME NEW own
    PROVE  WithParents(own) = InOrder(Unsorted(own), Order(Unsorted(own)))
BY DEF WithParents, Unsorted, Marked, Implied, Dirs, Order

\* There are finitely many entries to sort.
LEMMA UnsortedFinite ==
    ASSUME NEW own \in Seq(Entries), \A k \in 1 .. Len(own) : Valid(own[k].name)
    PROVE  IsFiniteSet(Unsorted(own))
<1> DEFINE T == ToSet(own)
           N == { e.name : e \in T }
           D == Dirs(own)
<1>1. Len(own) \in Nat /\ DOMAIN own = 1 .. Len(own)
  BY LenProperties
<1>2. T = { own[k] : k \in 1 .. Len(own) }
  BY <1>1 DEF ToSet
<1>3. IsFiniteSet(T)
  <2>1. IsFiniteSet(1 .. Len(own))
    BY <1>1, FS_Interval
  <2> HIDE DEF T
  <2> QED BY <1>2, <2>1, ImageFinite
<1>4. \A e \in T : Valid(e.name)
  BY <1>2
<1> HIDE DEF T
<1>5. IsFiniteSet(D)
  <2> DEFINE P == { Parents(e.name) : e \in T }
             g == [e \in T |-> Parents(e.name)]
  <2>1. P = { g[e] : e \in T }
    OBVIOUS
  <2>2. IsFiniteSet(P)
    <3> HIDE DEF g
    <3> QED BY <1>3, <2>1, ImageFinite
  <2>3. \A s \in P : IsFiniteSet(s)
    BY <1>4, ValidType, ParentsFinite
  <2>4. D = UNION P
    BY DEF Dirs, T
  <2> HIDE DEF P
  <2> QED BY <2>2, <2>3, <2>4, FS_UNION
<1> HIDE DEF D
<1>6. IsFiniteSet(Marked(own))
  <2> DEFINE g == [e \in T |-> [e EXCEPT !.isDup = @ \/ (~e.isDir /\ e.name \in D)]]
  <2>1. Marked(own) = { g[e] : e \in T }
    BY DEF Marked, T, D
  <2> HIDE DEF g
  <2> QED BY <1>3, <2>1, ImageFinite
<1>7. IsFiniteSet(Implied(own))
  <2> DEFINE g == [d \in D \ N |-> Entry(d, NoMember, TRUE, FALSE)]
  <2>1. Implied(own) = { g[d] : d \in D \ N }
    BY DEF Implied, T, D
  <2>2. IsFiniteSet(D \ N)
    BY <1>5, FS_Subset
  <2> HIDE DEF g
  <2> QED BY <2>1, <2>2, ImageFinite
<1> QED BY <1>6, <1>7, FS_Union DEF Unsorted

\* n is the name of a member, or of a directory one is in.
Named(members, n) ==
    \E i \in 1 .. Len(members) :
        /\ NameOf(members, i) # <<>>
        /\ n = NameOf(members, i) \/ n \in Parents(NameOf(members, i))

\* What initFileList returns: an entry for each of these names, in order.  Entries
\* that are no member's are directories.
FileListOf(list, members) ==
    /\ list \in Seq(Entries)
    /\ \A k \in 1 .. Len(list) :
          /\ Valid(list[k].name)
          /\ list[k].file \in 1 .. Len(members) \/ (list[k].isDir /\ Plain(list[k].name))
    /\ \A k, l \in 1 .. Len(list) : k < l => fileEntryLess(list[k].name, list[l].name)
    /\ \A k \in 1 .. Len(list) : Named(members, list[k].name)
    /\ \A n : Named(members, n) => \E k \in 1 .. Len(list) : list[k].name = n

\* The entries before they are sorted: one for each name, and only for names.
LEMMA UnsortedAre ==
    ASSUME NEW members \in Seq(Members), NEW own, Lists(own, members, Len(members))
    PROVE  /\ \A x \in Unsorted(own) :
                 /\ x \in Entries /\ Valid(x.name)
                 /\ x.file \in 1 .. Len(members) \/ (x.isDir /\ Plain(x.name))
                 /\ Named(members, x.name)
           /\ \A x, y \in Unsorted(own) : x.name = y.name => x = y
           /\ \A n : Named(members, n) => \E x \in Unsorted(own) : x.name = n
<1> DEFINE T == ToSet(own)
           D == Dirs(own)
           Mark(e) == [e EXCEPT !.isDup = @ \/ (~e.isDir /\ e.name \in D)]
<1>1. own \in Seq(Entries) /\ Len(own) \in Nat /\ DOMAIN own = 1 .. Len(own)
      /\ \A k \in 1 .. Len(own) : own[k] \in Entries
  <2>1. own \in Seq(Entries)
    BY DEF Lists
  <2> QED BY <2>1, LenProperties, ElementOfSeq
<1>2. \A e : e \in T <=> \E k \in 1 .. Len(own) : e = own[k]
  BY <1>1 DEF ToSet
<1> HIDE DEF T
<1>3. \A e \in T : e \in Entries /\ Valid(e.name) /\ e.file \in 1 .. Len(members)
                   /\ e.name # <<>> /\ \E i \in 1 .. Len(members) : e.name = NameOf(members, i)
  BY <1>1, <1>2, ValidType DEF Lists
<1>4. \A e, f \in T : e.name = f.name => e = f
  BY <1>2 DEF Lists
<1>5. \A d : d \in D <=> \E e \in T : d \in Parents(e.name)
  BY DEF Dirs, T
<1> HIDE DEF D
<1>6. \A e \in T : Mark(e) \in Entries /\ Mark(e).name = e.name /\ Mark(e).file = e.file
  BY <1>3 DEF Entries
<1>7. \A x : x \in Marked(own) <=> \E e \in T : x = Mark(e)
  BY DEF Marked, T, D
<1>8. \A x : x \in Implied(own) <=>
          \E d \in D : (\A e \in T : e.name # d) /\ x = Entry(d, NoMember, TRUE, FALSE)
  BY DEF Implied, T, D
<1> HIDE DEF Mark
<1>9. \A d \in D : Plain(d) /\ d \in Seq(Nat) /\ Named(members, d)
  <2> TAKE d \in D
  <2>1. PICK e \in T : d \in Parents(e.name)
    BY <1>5
  <2>2. Plain(d)
    BY <1>3, <2>1, ParentsValid
  <2>3. Named(members, d)
    BY <1>3, <2>1 DEF Named
  <2> QED BY <2>2, <2>3 DEF Plain
<1>10. \A d \in D : LET x == Entry(d, NoMember, TRUE, FALSE)
                    IN  x \in Entries /\ x.name = d /\ x.isDir
  <2> TAKE d \in D
  <2>1. d \in Seq(Nat)
    BY <1>9
  <2> QED BY <2>1 DEF Entry, Entries, NoMember
<1>11. ASSUME NEW x \in Unsorted(own)
       PROVE  /\ x \in Entries /\ Valid(x.name)
              /\ x.file \in 1 .. Len(members) \/ (x.isDir /\ Plain(x.name))
              /\ Named(members, x.name)
  <2>1. CASE x \in Marked(own)
    <3>1. PICK e \in T : x = Mark(e)
      BY <1>7, <2>1
    <3>2. Named(members, e.name)
      BY <1>3 DEF Named
    <3> QED BY <1>3, <1>6, <3>1, <3>2
  <2>2. CASE x \in Implied(own)
    <3>1. PICK d \in D : x = Entry(d, NoMember, TRUE, FALSE)
      BY <1>8, <2>2
    <3> QED BY <1>9, <1>10, <3>1 DEF Valid
  <2> QED BY <2>1, <2>2 DEF Unsorted
<1>12. ASSUME NEW x \in Unsorted(own), NEW y \in Unsorted(own), x.name = y.name
       PROVE  x = y
  <2>1. CASE x \in Marked(own) /\ y \in Marked(own)
    BY <1>4, <1>6, <1>7, <1>12, <2>1
  <2>2. \A z \in Implied(own) : z = Entry(z.name, NoMember, TRUE, FALSE) /\ \A e \in T : e.name # z.name
    <3> TAKE z \in Implied(own)
    <3>1. PICK d \in D : (\A e \in T : e.name # d) /\ z = Entry(d, NoMember, TRUE, FALSE)
      BY <1>8
    <3>2. z.name = d
      BY <1>10, <3>1
    <3> QED BY <3>1, <3>2
  <2>3. \A z \in Marked(own) : \E e \in T : e.name = z.name
    BY <1>6, <1>7
  <2>4. CASE x \in Implied(own) /\ y \in Implied(own)
    <3>1. x = Entry(x.name, NoMember, TRUE, FALSE) /\ y = Entry(y.name, NoMember, TRUE, FALSE)
      BY <2>2, <2>4
    <3> QED BY <1>12, <3>1, Zenon
  <2> QED BY <1>12, <2>1, <2>2, <2>3, <2>4 DEF Unsorted
<1>13. ASSUME NEW n, Named(members, n)
       PROVE  \E x \in Unsorted(own) : x.name = n
  <2>1. PICK i \in 1 .. Len(members) :
          /\ NameOf(members, i) # <<>>
          /\ n = NameOf(members, i) \/ n \in Parents(NameOf(members, i))
    BY <1>13 DEF Named
  <2>2. PICK k \in 1 .. Len(own) : own[k].name = NameOf(members, i)
    BY <2>1 DEF Lists
  <2>3. own[k] \in T
    BY <1>2
  <2>4. CASE \E e \in T : e.name = n
    BY <1>6, <1>7, <2>4 DEF Unsorted
  <2>5. CASE \A e \in T : e.name # n
    <3>1. n \in D
      BY <1>5, <2>1, <2>2, <2>3, <2>5
    <3> QED BY <1>8, <1>10, <2>5, <3>1 DEF Unsorted
  <2> QED BY <2>4, <2>5
<1> QED BY <1>11, <1>12, <1>13

\* initFileList sorts them, in an order that tells all of them apart.
LEMMA NewFileListIs ==
    ASSUME NEW members \in Seq(Members)
    PROVE  FileListOf(NewFileList(members), members)
<1> DEFINE own == MemberEntries(members)
           S == Unsorted(own)
           less == Order(S)
           s == NewFileList(members)
<1>1. Lists(own, members, Len(members))
  BY MemberEntriesAre
<1> HIDE DEF own
<1>2. IsFiniteSet(S)
  BY <1>1, UnsortedFinite DEF Lists
<1>3. \A x \in S :
         /\ x \in Entries /\ Valid(x.name)
         /\ x.file \in 1 .. Len(members) \/ (x.isDir /\ Plain(x.name))
         /\ Named(members, x.name)
  BY <1>1, UnsortedAre
<1>4. \A x, y \in S : x.name = y.name => x = y
  BY <1>1, UnsortedAre
<1>5. \A n : Named(members, n) => \E x \in S : x.name = n
  BY <1>1, UnsortedAre
<1>6. s = InOrder(S, less)
  BY WithParentsDef DEF NewFileList, own
<1> HIDE DEF S
<1>7. \A x, y \in S : <<x, y>> \in less <=> fileEntryLess(x.name, y.name)
  BY DEF Order
<1> HIDE DEF less, s
<1>8. \A x \in S : x.name \in Seq(Nat) /\ x.name # <<>>
  BY <1>3, ValidType
<1>9. Orders(less, S)
  <2>1. \A x \in S : <<x, x>> \notin less
    BY <1>7, <1>8, EntryLessIrreflexive
  <2>2. \A x, y, z \in S : <<x, y>> \in less /\ <<y, z>> \in less => <<x, z>> \in less
    BY <1>7, <1>8, EntryLessTransitive
  <2>3. \A x, y \in S : x # y => <<x, y>> \in less \/ <<y, x>> \in less
    <3> TAKE x, y \in S
    <3> HAVE x # y
    <3>1. x.name # y.name
      BY <1>4
    <3>2. ~(split(x.name).dir = split(y.name).dir /\ split(x.name).elem = split(y.name).elem)
      BY <1>3, <3>1, SplitInjective
    <3> QED BY <1>7, <1>8, <3>2, EntryLessTotal
  <2> QED BY <2>1, <2>2, <2>3 DEF Orders
<1>10. SortedAs(s, S, less)
  BY <1>2, <1>6, <1>9, InOrderSorts
<1>11. s \in Seq(S) /\ Len(s) \in Nat /\ DOMAIN s = 1 .. Len(s) /\ \A k \in 1 .. Len(s) : s[k] \in S
  <2>1. s \in Seq(S)
    BY <1>10 DEF SortedAs
  <2> QED BY <2>1, LenProperties, ElementOfSeq
<1>12. s \in Seq(Entries)
  <2>1. s \in [1 .. Len(s) -> Entries]
    <3>1. s \in [1 .. Len(s) -> S]
      BY <1>11, LenProperties
    <3> QED BY <1>3, <3>1
  <2> QED BY <1>11, <2>1
<1>13. \A k, l \in 1 .. Len(s) : k < l => fileEntryLess(s[k].name, s[l].name)
  BY <1>7, <1>10, <1>11 DEF SortedAs
<1>14. \A n : Named(members, n) => \E k \in 1 .. Len(s) : s[k].name = n
  BY <1>5, <1>10 DEF SortedAs
<1>15. FileListOf(s, members)
  BY <1>3, <1>11, <1>12, <1>13, <1>14 DEF FileListOf
<1> QED BY <1>15 DEF s

-----------------------------------------------------------------------------
(* openLookup and openReadDir.                                             *)

\* The condition openLookup searches by is that an entry is not less.
LEMMA NotLess ==
    ASSUME NEW x \in Seq(Nat), NEW y \in Seq(Nat), x # <<>>, y # <<>>
    PROVE  (\/ StringLess(split(y).dir, split(x).dir)
            \/ split(x).dir = split(y).dir /\ split(x).elem >= split(y).elem)
           <=> ~fileEntryLess(x, y)
<1>1. PICK dx \in Seq(Nat), ex \in Nat : dx = split(x).dir /\ ex = split(x).elem
  BY SplitParts
<1>2. PICK dy \in Seq(Nat), ey \in Nat : dy = split(y).dir /\ ey = split(y).elem
  BY SplitParts
<1>3. dx = dy \/ StringLess(dx, dy) \/ StringLess(dy, dx)
  BY StringLessTotal
<1>4. ~(StringLess(dx, dy) /\ StringLess(dy, dx)) /\ ~StringLess(dx, dx)
  BY StringLessTransitive, StringLessIrreflexive
<1>5. ex >= ey <=> ~(ex < ey)
  OBVIOUS
<1>6. StringLess(dy, dx) \/ (dx = dy /\ ex >= ey) <=> ~(StringLess(dx, dy) \/ (dx = dy /\ ex < ey))
  BY <1>3, <1>4, <1>5
<1> QED BY <1>1, <1>2, <1>6 DEF fileEntryLess

\* Entries and their names.
LEMMA FileListNames ==
    ASSUME NEW members, NEW list, FileListOf(list, members)
    PROVE  /\ list \in Seq(Entries) /\ Len(list) \in Nat /\ DOMAIN list = 1 .. Len(list)
           /\ \A k \in 1 .. Len(list) : list[k] \in Entries /\ Valid(list[k].name)
           /\ \A k \in 1 .. Len(list) : list[k].name \in Seq(Nat) /\ list[k].name # <<>>
           /\ \A k, l \in 1 .. Len(list) : k < l => fileEntryLess(list[k].name, list[l].name)
           /\ \A k, l \in 1 .. Len(list) : list[k].name = list[l].name => k = l
<1>1. list \in Seq(Entries)
  BY DEF FileListOf
<1>2. Len(list) \in Nat /\ DOMAIN list = 1 .. Len(list) /\ \A k \in 1 .. Len(list) : list[k] \in Entries
  BY <1>1, LenProperties, ElementOfSeq
<1>3. \A k \in 1 .. Len(list) : Valid(list[k].name)
  BY DEF FileListOf
<1>4. \A k \in 1 .. Len(list) : list[k].name \in Seq(Nat) /\ list[k].name # <<>>
  BY <1>3, ValidType
<1>5. \A k, l \in 1 .. Len(list) : k < l => fileEntryLess(list[k].name, list[l].name)
  BY DEF FileListOf
<1>6. \A k, l \in 1 .. Len(list) : list[k].name = list[l].name => k = l
  <2> TAKE k, l \in 1 .. Len(list)
  <2> HAVE list[k].name = list[l].name
  <2>1. ~(k < l) /\ ~(l < k)
    BY <1>4, <1>5, EntryLessIrreflexive
  <2> QED BY <1>2, <2>1
<1> QED BY <1>1, <1>2, <1>3, <1>4, <1>5, <1>6

\* openLookup finds an entry by its name, and nothing else.
LEMMA LookupIs ==
    ASSUME NEW members, NEW list, FileListOf(list, members),
           NEW name \in Seq(Nat), name # Root
    PROVE  openLookup(list, name) = { e \in ToSet(list) : e.name = name }
<1> DEFINE n == Len(list)
           at == split(name)
           P == { k \in 0 .. (n - 1) :
                    LET s == split(list[k + 1].name)
                    IN  StringLess(at.dir, s.dir) \/ (s.dir = at.dir /\ s.elem >= at.elem) }
           i == Search(n, P)
           found == { k \in DOMAIN list : k = i + 1 /\ list[k].name = name }
<1>1. openLookup(list, name) = { list[k] : k \in found }
  BY DEF openLookup
<1>2. n \in Nat /\ DOMAIN list = 1 .. n
  BY FileListNames
<1>3. ASSUME NEW k \in 1 .. n, list[k].name = name
      PROVE  k = i + 1
  <2>1. name # <<>>
    BY <1>3, FileListNames
  <2>2. ASSUME NEW j \in 0 .. n - 1
        PROVE  j \in P <=> ~fileEntryLess(list[j + 1].name, name)
    <3>1. j + 1 \in 1 .. n
      BY <1>2
    <3>2. list[j + 1].name \in Seq(Nat) /\ list[j + 1].name # <<>>
      BY <3>1, FileListNames
    <3> QED BY <2>1, <3>2, NotLess
  <2> HIDE DEF P
  <2>3. ClosedUpwards(P, n)
    <3> SUFFICES ASSUME NEW j \in 0 .. n - 1, NEW l \in 0 .. n - 1, j <= l, j \in P PROVE l \in P
      BY DEF ClosedUpwards
    <3>1. j + 1 \in 1 .. n /\ l + 1 \in 1 .. n /\ (j = l \/ j + 1 < l + 1)
      BY <1>2
    <3>2. /\ list[j + 1].name \in Seq(Nat) /\ list[j + 1].name # <<>>
          /\ list[l + 1].name \in Seq(Nat) /\ list[l + 1].name # <<>>
      BY <3>1, FileListNames
    <3>3. CASE j = l
      BY <3>3
    <3>4. CASE j + 1 < l + 1
      <4>1. fileEntryLess(list[j + 1].name, list[l + 1].name)
        BY <3>1, <3>4, FileListNames
      <4> QED BY <2>1, <2>2, <3>2, <4>1, EntryLessTransitive
    <3> QED BY <3>1, <3>3, <3>4
  <2>4. i \in 0 .. n /\ \A j \in 0 .. n - 1 : j \in P <=> i <= j
    BY <1>2, <2>3, SearchIs
  <2> HIDE DEF i
  <2>5. k - 1 \in 0 .. n - 1 /\ (k - 1) + 1 = k
    BY <1>2
  <2>6. i <= k - 1
    BY <1>3, <2>1, <2>2, <2>4, <2>5, EntryLessIrreflexive
  <2>7. ~(i < k - 1)
    <3> SUFFICES ASSUME i < k - 1 PROVE FALSE
      OBVIOUS
    <3>1. i \in 0 .. n - 1 /\ i <= i /\ i + 1 \in 1 .. n /\ i + 1 < k
      BY <1>2, <2>4, <2>5
    <3>2. fileEntryLess(list[i + 1].name, name)
      BY <1>3, <3>1, FileListNames
    <3> QED BY <2>2, <2>4, <3>1, <3>2
  <2> QED BY <1>2, <2>4, <2>6, <2>7
<1> HIDE DEF i
<1>4. ToSet(list) = { list[k] : k \in 1 .. n }
  BY <1>2 DEF ToSet
<1> QED BY <1>1, <1>2, <1>3, <1>4

\* s lists the directory d: the entries in it, each once.
ListsDir(s, list, d) ==
    /\ s \in Seq(Entries)
    /\ \A m \in 1 .. Len(s) : \E k \in 1 .. Len(list) : s[m] = list[k] /\ split(list[k].name).dir = d
    /\ \A k \in 1 .. Len(list) : split(list[k].name).dir = d => \E m \in 1 .. Len(s) : s[m] = list[k]
    /\ \A m, l \in 1 .. Len(s) : s[m].name = s[l].name => m = l

\* openReadDir returns the entries of a directory: the two searches enclose them.
LEMMA ReadDirIs ==
    ASSUME NEW members, NEW list, FileListOf(list, members), NEW d \in Seq(Nat)
    PROVE  ListsDir(openReadDir(list, d), list, d)
<1> DEFINE n == Len(list)
           Dir(k) == split(list[k + 1].name).dir
           P == { k \in 0 .. (n - 1) : ~StringLess(Dir(k), d) }
           Q == { k \in 0 .. (n - 1) : StringLess(d, Dir(k)) }
           i == Search(n, P)
           j == Search(n, Q)
           s == SubSeq(list, i + 1, j)
<1>1. openReadDir(list, d) = s
  BY DEF openReadDir
<1>2. n \in Nat /\ DOMAIN list = 1 .. n /\ list \in Seq(Entries)
  BY FileListNames
<1>3. \A k \in 0 .. n - 1 : k + 1 \in 1 .. n /\ Dir(k) \in Seq(Nat)
  <2> TAKE k \in 0 .. n - 1
  <2>1. k + 1 \in 1 .. n
    BY <1>2
  <2>2. list[k + 1].name \in Seq(Nat) /\ list[k + 1].name # <<>>
    BY <2>1, FileListNames
  <2> QED BY <2>1, <2>2, SplitParts
<1>4. \A k, l \in 0 .. n - 1 : k <= l => Dir(k) = Dir(l) \/ StringLess(Dir(k), Dir(l))
  <2> TAKE k, l \in 0 .. n - 1
  <2> HAVE k <= l
  <2>1. k + 1 \in 1 .. n /\ l + 1 \in 1 .. n /\ (k = l \/ k + 1 < l + 1)
    BY <1>2
  <2>2. CASE k = l
    BY <2>2
  <2>3. CASE k + 1 < l + 1
    <3>1. fileEntryLess(list[k + 1].name, list[l + 1].name)
      BY <2>1, <2>3, FileListNames
    <3> QED BY <3>1 DEF fileEntryLess
  <2> QED BY <2>1, <2>2, <2>3
<1>5. \A k \in 0 .. n - 1 : (k \in P <=> ~StringLess(Dir(k), d)) /\ (k \in Q <=> StringLess(d, Dir(k)))
  OBVIOUS
<1> HIDE DEF Dir, P, Q
<1>6. ClosedUpwards(P, n)
  <2> SUFFICES ASSUME NEW k \in 0 .. n - 1, NEW l \in 0 .. n - 1, k <= l, k \in P PROVE l \in P
    BY DEF ClosedUpwards
  <2> QED BY <1>3, <1>4, <1>5, StringLessTransitive
<1>7. ClosedUpwards(Q, n)
  <2> SUFFICES ASSUME NEW k \in 0 .. n - 1, NEW l \in 0 .. n - 1, k <= l, k \in Q PROVE l \in Q
    BY DEF ClosedUpwards
  <2> QED BY <1>3, <1>4, <1>5, StringLessTransitive
<1>8. /\ i \in 0 .. n /\ \A k \in 0 .. n - 1 : k \in P <=> i <= k
      /\ j \in 0 .. n /\ \A k \in 0 .. n - 1 : k \in Q <=> j <= k
  BY <1>2, <1>6, <1>7, SearchIs
<1> HIDE DEF i, j
<1>9. \A k \in 0 .. n - 1 : Dir(k) = d <=> i <= k /\ k < j
  <2> TAKE k \in 0 .. n - 1
  <2>1. Dir(k) = d \/ StringLess(Dir(k), d) \/ StringLess(d, Dir(k))
    BY <1>3, StringLessTotal
  <2>2. Dir(k) = d => ~StringLess(Dir(k), d) /\ ~StringLess(d, Dir(k))
    BY StringLessIrreflexive
  <2>3. Dir(k) = d <=> k \in P /\ k \notin Q
    BY <1>5, <2>1, <2>2
  <2> QED BY <1>2, <1>8, <2>3
<1>10. i <= j
  <2> SUFFICES ASSUME j < i PROVE FALSE
    BY <1>2, <1>8
  <2>1. j \in 0 .. n - 1 /\ j <= j /\ ~(i <= j)
    BY <1>2, <1>8
  <2>2. StringLess(d, Dir(j)) /\ StringLess(Dir(j), d)
    BY <1>5, <1>8, <2>1
  <2> QED BY <1>3, <2>1, <2>2, StringLessTransitive, StringLessIrreflexive
<1>11. PICK c \in Nat : c = j - i
  BY <1>2, <1>8, <1>10
<1>12. s \in Seq(Entries) /\ Len(s) = c /\ \A m \in 1 .. c : s[m] = list[i + m]
  BY <1>2, <1>8, <1>10, <1>11, SMT
<1> HIDE DEF s
<1>13. \A m \in 1 .. c : i + m \in 1 .. n /\ split(list[i + m].name).dir = d
  <2> TAKE m \in 1 .. c
  <2>1. i + m - 1 \in 0 .. n - 1 /\ i <= i + m - 1 /\ i + m - 1 < j /\ (i + m - 1) + 1 = i + m
        /\ i + m \in 1 .. n
    BY <1>2, <1>8, <1>11
  <2>2. Dir(i + m - 1) = d
    BY <1>9, <2>1
  <2> QED BY <2>1, <2>2 DEF Dir
<1>14. ASSUME NEW k \in 1 .. n, split(list[k].name).dir = d
       PROVE  \E m \in 1 .. Len(s) : s[m] = list[k]
  <2>1. k - 1 \in 0 .. n - 1 /\ (k - 1) + 1 = k
    BY <1>2
  <2>2. i <= k - 1 /\ k - 1 < j
    BY <1>9, <1>14, <2>1 DEF Dir
  <2>3. k - i \in 1 .. c /\ i + (k - i) = k
    BY <1>2, <1>8, <1>11, <2>1, <2>2
  <2> QED BY <1>12, <2>3
<1>15. \A m, l \in 1 .. Len(s) : s[m].name = s[l].name => m = l
  <2> TAKE m, l \in 1 .. Len(s)
  <2> HAVE s[m].name = s[l].name
  <2>1. m \in 1 .. c /\ l \in 1 .. c
    BY <1>12
  <2>2. i + m = i + l
    <3>1. PICK u, v : u = i + m /\ v = i + l
      OBVIOUS
    <3>2. u \in 1 .. n /\ v \in 1 .. n
      BY <1>2, <1>8, <1>11, <2>1, <3>1
    <3>3. s[m] = list[u] /\ s[l] = list[v]
      BY <1>12, <2>1, <3>1
    <3>4. list[u].name = list[v].name
      BY <3>3
    <3>5. u = v
      BY <3>2, <3>4, FileListNames
    <3> QED BY <3>1, <3>5
  <2> QED BY <1>8, <2>1, <2>2
<1>16. ListsDir(s, list, d)
  BY <1>12, <1>13, <1>14, <1>15 DEF ListsDir
<1> QED BY <1>1, <1>16
=============================================================================
