--------------------------- MODULE SequenceLemmas ---------------------------
(***************************************************************************)
(* Facts about the operators of SequencesExt that the models use, for all  *)
(* sequences.  Those about recursive definitions are by induction on       *)
(* natural numbers, in the form that a nonempty set of them has a smallest *)
(* element.                                                                *)
(***************************************************************************)
EXTENDS SequencesExt, SequenceTheorems, WellFoundedInduction, TLAPS

\* A nonempty set of natural numbers has a smallest element.
LEMMA Smallest ==
    ASSUME NEW S, S \subseteq Nat, S # {}
    PROVE  \E m \in S : \A k \in S : m <= k
<1>1. PICK m \in S : \A k \in S : ~(<<k, m>> \in OpToRel(<, Nat))
  BY NatLessThanWellFounded, WFMin
<1>2. \A k \in S : ~(k < m)
  BY <1>1 DEF OpToRel
<1> QED BY <1>2

\* Induction up to N, for the numbers in a set.
LEMMA Induct ==
    ASSUME NEW N \in Nat, NEW G, 0 \in G, \A n \in 1 .. N : n - 1 \in G => n \in G
    PROVE  \A n \in 0 .. N : n \in G
<1> DEFINE Bad == {n \in 0 .. N : n \notin G}
<1> SUFFICES ASSUME Bad # {} PROVE FALSE
  OBVIOUS
<1>1. PICK m \in Bad : \A n \in Bad : m <= n
  <2>1. Bad \subseteq Nat
    OBVIOUS
  <2> HIDE DEF Bad
  <2> QED BY <2>1, Smallest
<1>2. m \in 1 .. N /\ m - 1 \in 0 .. N /\ ~(m <= m - 1)
  OBVIOUS
<1> QED BY <1>1, <1>2

\* The first k values of a recursion.
Recurs(f, k, A, base, step) ==
    /\ f \in [0 .. k -> A]
    /\ f[0] = base
    /\ \A n \in 1 .. k : f[n] = step[<<f[n - 1], n>>]

\* A recursion over 0 .. N has a solution.
LEMMA RecursionExists ==
    ASSUME NEW N \in Nat, NEW A, NEW base \in A, NEW step \in [A \X (1 .. N) -> A]
    PROVE  \E f : Recurs(f, N, A, base, step)
<1> DEFINE G == {k \in 0 .. N : \E f : Recurs(f, k, A, base, step)}
<1>1. 0 \in G
  <2> DEFINE f == [n \in 0 .. 0 |-> base]
  <2>1. Recurs(f, 0, A, base, step)
    BY DEF Recurs
  <2> QED BY <2>1
<1>2. ASSUME NEW k \in 1 .. N, k - 1 \in G
      PROVE  k \in G
  <2>1. PICK f : Recurs(f, k - 1, A, base, step)
    BY <1>2
  <2>2. k - 1 \in 0 .. k - 1 /\ f[k - 1] \in A
    BY <2>1 DEF Recurs
  <2> DEFINE g == [n \in 0 .. k |-> IF n = k THEN step[<<f[k - 1], k>>] ELSE f[n]]
  <2>3. step[<<f[k - 1], k>>] \in A
    BY <2>2
  <2>4. \A n \in 0 .. k : n = k \/ n \in 0 .. k - 1
    OBVIOUS
  <2>5. g \in [0 .. k -> A]
    BY <2>1, <2>3, <2>4 DEF Recurs
  <2>6. g[k] = step[<<f[k - 1], k>>] /\ \A n \in 0 .. k - 1 : g[n] = f[n]
    BY <2>4
  <2> HIDE DEF g
  <2>7. g[0] = base
    BY <2>1, <2>6 DEF Recurs
  <2>8. ASSUME NEW n \in 1 .. k PROVE g[n] = step[<<g[n - 1], n>>]
    <3>1. g[n - 1] = f[n - 1]
      <4>1. n - 1 \in 0 .. k - 1
        OBVIOUS
      <4> QED BY <2>6, <4>1
    <3>2. CASE n = k
      BY <2>6, <3>1, <3>2
    <3>3. CASE n # k
      <4>1. n \in 1 .. k - 1 /\ n \in 0 .. k - 1
        BY <3>3
      <4>2. f[n] = step[<<f[n - 1], n>>]
        BY <2>1, <4>1 DEF Recurs
      <4> QED BY <2>6, <3>1, <4>1, <4>2
    <3> QED BY <3>2, <3>3
  <2>9. Recurs(g, k, A, base, step)
    BY <2>5, <2>7, <2>8 DEF Recurs
  <2> QED BY <2>9
<1> HIDE DEF G
<1>3. \A n \in 0 .. N : n \in G
  BY <1>1, <1>2, Induct
<1> QED BY <1>3 DEF G

-----------------------------------------------------------------------------
\* What is left when an element is removed: the others, in order.
LEMMA RemoveAtProperties ==
    ASSUME NEW S, NEW s \in Seq(S), NEW i \in 1 .. Len(s)
    PROVE  /\ RemoveAt(s, i) \in Seq(S)
           /\ Len(RemoveAt(s, i)) = Len(s) - 1
           /\ \A j \in 1 .. Len(s) - 1 :
                 RemoveAt(s, i)[j] = IF j < i THEN s[j] ELSE s[j + 1]
<1> DEFINE a == SubSeq(s, 1, i - 1)
           b == SubSeq(s, i + 1, Len(s))
<1>1. Len(s) \in Nat
  BY LenProperties
<1>2. a \in Seq(S) /\ Len(a) = i - 1 /\ \A j \in 1 .. i - 1 : a[j] = s[j]
  BY <1>1, SMT
<1>3. b \in Seq(S) /\ Len(b) = Len(s) - i /\ \A j \in 1 .. Len(s) - i : b[j] = s[i + j]
  BY <1>1, SMT
<1>4. RemoveAt(s, i) = a \o b
  BY DEF RemoveAt
<1> HIDE DEF a, b
<1>5. a \o b \in Seq(S) /\ Len(a \o b) = Len(s) - 1
  <2>1. a \o b \in Seq(S) /\ Len(a \o b) = Len(a) + Len(b)
    BY <1>2, <1>3, ConcatProperties
  <2> QED BY <2>1, <1>1, <1>2, <1>3
<1>6. ASSUME NEW j \in 1 .. Len(s) - 1
      PROVE  (a \o b)[j] = IF j < i THEN s[j] ELSE s[j + 1]
  <2>1. CASE j < i
    BY <2>1, <1>1, <1>2, <1>3, SMT
  <2>2. CASE ~(j < i)
    <3>1. (a \o b)[j] = b[j - (i - 1)]
      BY <2>2, <1>1, <1>2, <1>3, SMT
    <3>2. j - (i - 1) \in 1 .. Len(s) - i /\ i + (j - (i - 1)) = j + 1
      BY <2>2, <1>1, SMT
    <3> QED BY <2>2, <3>1, <3>2, <1>3
  <2> QED BY <2>1, <2>2
<1> QED BY <1>4, <1>5, <1>6

\* An element put in front of a sequence.
LEMMA InFront ==
    ASSUME NEW S, NEW e \in S, NEW s \in Seq(S)
    PROVE  /\ <<e>> \o s \in Seq(S)
           /\ Len(<<e>> \o s) = Len(s) + 1
           /\ (<<e>> \o s)[1] = e
           /\ \A j \in 2 .. Len(s) + 1 : (<<e>> \o s)[j] = s[j - 1]
<1>1. <<e>> \in Seq(S) /\ Len(<<e>>) = 1 /\ <<e>>[1] = e /\ Len(s) \in Nat
  OBVIOUS
<1>2. /\ <<e>> \o s \in Seq(S) /\ Len(<<e>> \o s) = 1 + Len(s)
      /\ \A j \in 1 .. 1 + Len(s) : (<<e>> \o s)[j] = IF j <= 1 THEN <<e>>[j] ELSE s[j - 1]
  BY <1>1, ConcatProperties
<1> QED BY <1>1, <1>2

\* What follows a prefix.
LEMMA Behind ==
    ASSUME NEW S, NEW s \in Seq(S), NEW t \in Seq(S)
    PROVE  SubSeq(s \o t, Len(s) + 1, Len(s) + Len(t)) = t
<1> DEFINE u == SubSeq(s \o t, Len(s) + 1, Len(s) + Len(t))
<1>1. Len(s) \in Nat /\ Len(t) \in Nat /\ \A i \in 1 .. Len(t) : t[i] \in S
  BY LenProperties, ElementOfSeq
<1>2. \A i \in 1 .. Len(s) + Len(t) : (s \o t)[i] = IF i <= Len(s) THEN s[i] ELSE t[i - Len(s)]
  BY ConcatProperties
<1>3. ASSUME NEW i \in Len(s) + 1 .. Len(s) + Len(t)
      PROVE  (s \o t)[i] = t[i - Len(s)] /\ (s \o t)[i] \in S
  <2>1. i \in 1 .. Len(s) + Len(t) /\ ~(i <= Len(s)) /\ i - Len(s) \in 1 .. Len(t)
    BY <1>1
  <2> QED BY <1>1, <1>2, <2>1
<1>4. Len(s) + 1 \in Int /\ Len(s) + Len(t) \in Int
  BY <1>1
<1>5. /\ u \in Seq(S)
      /\ Len(u) = IF Len(s) + 1 <= Len(s) + Len(t) THEN Len(s) + Len(t) - (Len(s) + 1) + 1 ELSE 0
      /\ \A i \in 1 .. Len(s) + Len(t) - (Len(s) + 1) + 1 : u[i] = (s \o t)[Len(s) + 1 + i - 1]
  BY <1>3, <1>4, SubSeqProperties
<1>6. Len(u) = Len(t)
  BY <1>1, <1>5
<1>7. ASSUME NEW i \in 1 .. Len(u)
      PROVE  u[i] = t[i]
  <2>1. /\ i \in 1 .. Len(s) + Len(t) - (Len(s) + 1) + 1
        /\ Len(s) + 1 + i - 1 \in Len(s) + 1 .. Len(s) + Len(t)
        /\ (Len(s) + 1 + i - 1) - Len(s) = i
    BY <1>1, <1>6
  <2> QED BY <1>3, <1>5, <2>1
<1> HIDE DEF u
<1>8. u = t
  BY <1>5, <1>6, <1>7, SeqEqual
<1> QED BY <1>8 DEF u

\* The front of a sequence that begins with two parts.
LEMMA FrontIs ==
    ASSUME NEW S, NEW a \in Seq(S), NEW b \in Seq(S), NEW p \in Seq(S),
           Len(a) + Len(b) <= Len(p),
           \A i \in 1 .. Len(a) : p[i] = a[i],
           \A i \in 1 .. Len(b) : p[Len(a) + i] = b[i]
    PROVE  SubSeq(p, 1, Len(a) + Len(b)) = a \o b
<1> DEFINE u == SubSeq(p, 1, Len(a) + Len(b))
<1>1. Len(a) \in Nat /\ Len(b) \in Nat /\ Len(p) \in Nat /\ \A i \in 1 .. Len(p) : p[i] \in S
  BY LenProperties, ElementOfSeq
<1>2. /\ a \o b \in Seq(S) /\ Len(a \o b) = Len(a) + Len(b)
      /\ \A i \in 1 .. Len(a) + Len(b) : (a \o b)[i] = IF i <= Len(a) THEN a[i] ELSE b[i - Len(a)]
  BY ConcatProperties
<1>3. /\ 1 \in Int /\ Len(a) + Len(b) \in Int
      /\ \A i \in 1 .. Len(a) + Len(b) : p[i] \in S
  BY <1>1
<1>4. /\ u \in Seq(S)
      /\ Len(u) = IF 1 <= Len(a) + Len(b) THEN Len(a) + Len(b) - 1 + 1 ELSE 0
      /\ \A i \in 1 .. Len(a) + Len(b) - 1 + 1 : u[i] = p[1 + i - 1]
  BY <1>3, SubSeqProperties
<1> HIDE DEF u
<1>5. Len(u) = Len(a \o b)
  BY <1>1, <1>2, <1>4
<1>6. ASSUME NEW i \in 1 .. Len(u)
      PROVE  u[i] = (a \o b)[i]
  <2>1. /\ i \in 1 .. Len(a) + Len(b) /\ i \in 1 .. Len(a) + Len(b) - 1 + 1
        /\ 1 + i - 1 = i /\ i \in Nat
    BY <1>1, <1>2, <1>5
  <2>2. u[i] = p[i]
    BY <1>4, <2>1
  <2>3. CASE i <= Len(a)
    <3>1. i \in 1 .. Len(a)
      BY <1>1, <2>1, <2>3
    <3> QED BY <1>2, <2>1, <2>2, <2>3, <3>1
  <2>4. CASE ~(i <= Len(a))
    <3>1. i - Len(a) \in 1 .. Len(b) /\ Len(a) + (i - Len(a)) = i
      BY <1>1, <2>1, <2>4
    <3>2. p[i] = b[i - Len(a)]
      BY <3>1
    <3> QED BY <1>2, <2>1, <2>2, <2>4, <3>2
  <2> QED BY <2>3, <2>4
<1>7. u = a \o b
  BY <1>2, <1>4, <1>5, <1>6, SeqEqual
<1> QED BY <1>7 DEF u

\* The first two of three parts.
LEMMA ThreeParts ==
    ASSUME NEW S, NEW a \in Seq(S), NEW b \in Seq(S), NEW c \in Seq(S)
    PROVE  /\ a \o b \o c \in Seq(S)
           /\ Len(a \o b \o c) = Len(a) + Len(b) + Len(c)
           /\ \A i \in 1 .. Len(a) : (a \o b \o c)[i] = a[i]
           /\ \A i \in 1 .. Len(b) : (a \o b \o c)[Len(a) + i] = b[i]
<1>1. Len(a) \in Nat /\ Len(b) \in Nat /\ Len(c) \in Nat
  BY LenProperties
<1>2. /\ a \o b \in Seq(S) /\ Len(a \o b) = Len(a) + Len(b)
      /\ \A i \in 1 .. Len(a) + Len(b) : (a \o b)[i] = IF i <= Len(a) THEN a[i] ELSE b[i - Len(a)]
  BY ConcatProperties
<1> DEFINE d == a \o b
<1> HIDE DEF d
<1>3. /\ d \o c \in Seq(S) /\ Len(d \o c) = Len(d) + Len(c)
      /\ \A i \in 1 .. Len(d) + Len(c) : (d \o c)[i] = IF i <= Len(d) THEN d[i] ELSE c[i - Len(d)]
  <2>1. d \in Seq(S)
    BY <1>2 DEF d
  <2> QED BY <2>1, ConcatProperties
<1>4. Len(d) = Len(a) + Len(b)
  BY <1>2 DEF d
<1>5. ASSUME NEW i \in 1 .. Len(a)
      PROVE  (d \o c)[i] = a[i]
  <2>1. i \in 1 .. Len(a) + Len(b) /\ i <= Len(a) /\ i \in 1 .. Len(d) + Len(c) /\ i <= Len(d)
    BY <1>1, <1>4
  <2>2. d[i] = a[i]
    BY <1>2, <2>1 DEF d
  <2> QED BY <1>3, <2>1, <2>2
<1>6. ASSUME NEW i \in 1 .. Len(b)
      PROVE  (d \o c)[Len(a) + i] = b[i]
  <2>1. /\ Len(a) + i \in 1 .. Len(a) + Len(b) /\ ~(Len(a) + i <= Len(a))
        /\ Len(a) + i \in 1 .. Len(d) + Len(c) /\ Len(a) + i <= Len(d)
        /\ (Len(a) + i) - Len(a) = i
    BY <1>1, <1>4
  <2>2. d[Len(a) + i] = b[i]
    BY <1>2, <2>1 DEF d
  <2> QED BY <1>3, <2>1, <2>2
<1> QED BY <1>3, <1>4, <1>5, <1>6 DEF d

\* The first of two parts.
LEMMA InBack ==
    ASSUME NEW S, NEW s \in Seq(S), NEW t \in Seq(S)
    PROVE  /\ s \o t \in Seq(S)
           /\ Len(s \o t) = Len(s) + Len(t)
           /\ \A i \in 1 .. Len(s) : (s \o t)[i] = s[i]
<1>1. /\ s \o t \in Seq(S) /\ Len(s \o t) = Len(s) + Len(t)
      /\ \A i \in 1 .. Len(s) + Len(t) : (s \o t)[i] = IF i <= Len(s) THEN s[i] ELSE t[i - Len(s)]
  BY ConcatProperties
<1>2. Len(s) \in Nat /\ Len(t) \in Nat
  BY LenProperties
<1> QED BY <1>1, <1>2

\* s has the length of p, and begins with a and b.
Overwrites(s, S, a, b, p) ==
    /\ s \in Seq(S)
    /\ Len(s) = Len(p)
    /\ \A i \in 1 .. Len(a) : s[i] = a[i]
    /\ \A i \in 1 .. Len(b) : s[Len(a) + i] = b[i]

\* Overwriting the beginning of p.
LEMMA Overwritten ==
    ASSUME NEW S, NEW a \in Seq(S), NEW b \in Seq(S), NEW p \in Seq(S),
           Len(a) + Len(b) <= Len(p)
    PROVE  Overwrites(a \o b \o SubSeq(p, Len(a) + Len(b) + 1, Len(p)), S, a, b, p)
<1> DEFINE from == Len(a) + Len(b) + 1
           room == SubSeq(p, from, Len(p))
<1>1. Len(a) \in Nat /\ Len(b) \in Nat /\ Len(p) \in Nat /\ from \in Nat /\ from > 0
  BY LenProperties
<1>2. room \in Seq(S) /\ Len(room) = Len(p) - from + 1
  <2>1. \A i \in from .. Len(p) : p[i] \in S
    <3>1. \A i \in 1 .. Len(p) : p[i] \in S
      BY ElementOfSeq
    <3> QED BY <1>1, <3>1
  <2>2. from \in Int /\ Len(p) \in Int
    BY <1>1
  <2>3. room \in Seq(S) /\ Len(room) = IF from <= Len(p) THEN Len(p) - from + 1 ELSE 0
    <3> HIDE DEF from
    <3> QED BY <2>1, <2>2, SubSeqProperties
  <2> HIDE DEF room
  <2> QED BY <1>1, <2>3
<1>3. a \o b \o SubSeq(p, Len(a) + Len(b) + 1, Len(p)) = a \o b \o room
  OBVIOUS
<1> HIDE DEF room
<1>4. room \in Seq(S)
  BY <1>2
<1>5. a \o b \o room \in Seq(S)
  BY <1>4, ThreeParts
<1>6. Len(a \o b \o room) = Len(a) + Len(b) + Len(room)
  BY <1>4, ThreeParts
<1>7. \A i \in 1 .. Len(a) : (a \o b \o room)[i] = a[i]
  BY <1>4, ThreeParts
<1>8. \A i \in 1 .. Len(b) : (a \o b \o room)[Len(a) + i] = b[i]
  BY <1>4, ThreeParts
<1>9. Len(a) + Len(b) + Len(room) = Len(p)
  BY <1>1, <1>2
<1> QED BY ONLY <1>3, <1>5, <1>6, <1>7, <1>8, <1>9 DEF Overwrites

\* Some elements of a sequence, from behind the a-th.
LEMMA PartIs ==
    ASSUME NEW S, NEW s \in Seq(S), NEW a \in Nat, NEW b \in Nat, a + b <= Len(s)
    PROVE  /\ SubSeq(s, a + 1, a + b) \in Seq(S)
           /\ Len(SubSeq(s, a + 1, a + b)) = b
           /\ \A i \in 1 .. b : SubSeq(s, a + 1, a + b)[i] = s[a + i]
<1>1. Len(s) \in Nat
  BY LenProperties
<1>2. PICK c \in Nat : c = a + b
  OBVIOUS
<1>3. SubSeq(s, a + 1, c) \in Seq(S)
  BY <1>1, <1>2, SMT
<1>4. Len(SubSeq(s, a + 1, c)) = b
  BY <1>1, <1>2, SMT
<1>5. \A i \in 1 .. b : SubSeq(s, a + 1, c)[i] = s[a + i]
  BY <1>1, <1>2, SMT
<1> QED BY <1>2, <1>3, <1>4, <1>5

-----------------------------------------------------------------------------
(* FlattenSeq.                                                             *)

\* f[i] is the concatenation of the first i sequences of s, for i up to k.
FlattensTo(f, s, k) ==
    f = [i \in 1 .. k |-> IF i = 1 THEN s[i] ELSE f[i - 1] \o s[i]]
Flattens(f, s) == FlattensTo(f, s, Len(s))

\* One value of the recursion.
LEMMA FlattensAt ==
    ASSUME NEW f, NEW s, NEW k, FlattensTo(f, s, k), NEW i \in 1 .. k
    PROVE  f[i] = IF i = 1 THEN s[i] ELSE f[i - 1] \o s[i]
<1> DEFINE h == [j \in 1 .. k |-> IF j = 1 THEN s[j] ELSE f[j - 1] \o s[j]]
<1>1. f = h
  BY DEF FlattensTo
<1>2. h[i] = IF i = 1 THEN s[i] ELSE f[i - 1] \o s[i]
  OBVIOUS
<1> HIDE DEF h
<1> QED BY <1>1, <1>2

\* The recursion of FlattenSeq has a solution for the first k sequences.
LEMMA FlattenExists ==
    ASSUME NEW s, NEW k \in Nat
    PROVE  \E f : FlattensTo(f, s, k)
<1> DEFINE Bad == {n \in Nat : ~\E f : FlattensTo(f, s, n)}
<1> SUFFICES ASSUME Bad # {} PROVE FALSE
  OBVIOUS
<1>1. PICK m \in Bad : \A n \in Bad : m <= n
  <2>1. Bad \subseteq Nat
    OBVIOUS
  <2> HIDE DEF Bad
  <2> QED BY <2>1, Smallest
<1>2. m \in Nat /\ m # 0
  <2>1. FlattensTo([i \in 1 .. 0 |-> 0], s, 0)
    BY DEF FlattensTo
  <2> QED BY <2>1
<1>3. m - 1 \in Nat /\ ~(m - 1 \in Bad)
  <2> HIDE DEF Bad
  <2> QED BY <1>1, <1>2
<1>4. PICK f : FlattensTo(f, s, m - 1)
  BY <1>3
<1> DEFINE g == [i \in 1 .. m |-> IF i <= m - 1 THEN f[i]
                                  ELSE IF m = 1 THEN s[m] ELSE f[m - 1] \o s[m]]
<1>5. ASSUME NEW i \in 1 .. m
      PROVE  g[i] = IF i = 1 THEN s[i] ELSE g[i - 1] \o s[i]
  <2>1. CASE i <= m - 1
    <3>1. f[i] = IF i = 1 THEN s[i] ELSE f[i - 1] \o s[i]
      <4>1. i \in 1 .. m - 1
        BY <1>2, <2>1
      <4> QED BY <1>4, <4>1, FlattensAt
    <3>2. i # 1 => g[i - 1] = f[i - 1]
      BY <1>2, <2>1
    <3> QED BY <2>1, <3>1, <3>2
  <2>2. CASE i = m
    <3>1. m # 1 => g[m - 1] = f[m - 1]
      BY <1>2
    <3>2. g[m] = IF m = 1 THEN s[m] ELSE f[m - 1] \o s[m]
      BY <1>2
    <3> QED BY <2>2, <3>1, <3>2
  <2> QED BY <1>2, <2>1, <2>2
<1>6. FlattensTo(g, s, m)
  BY <1>5 DEF FlattensTo
<1> QED BY <1>1, <1>6

\* FlattenSeq of a nonempty sequence is the last value of the recursion.
LEMMA FlattenDef ==
    ASSUME NEW s, Len(s) \in Nat, Len(s) # 0
    PROVE  \E f : Flattens(f, s) /\ FlattenSeq(s) = f[Len(s)]
<1> DEFINE f == CHOOSE g : Flattens(g, s)
<1>1. \E g : Flattens(g, s)
  BY FlattenExists DEF Flattens
<1>2. Flattens(f, s)
  BY <1>1
<1>3. FlattenSeq(s) = f[Len(s)]
  BY DEF FlattenSeq, Flattens, FlattensTo
<1> QED BY <1>2, <1>3

\* The values of the recursion.
LEMMA FlattensValues ==
    ASSUME NEW f, NEW s, Flattens(f, s)
    PROVE  \A i \in 1 .. Len(s) : f[i] = IF i = 1 THEN s[i] ELSE f[i - 1] \o s[i]
BY FlattensAt DEF Flattens

\* Flattening nothing.
LEMMA FlattenEmpty ==
    ASSUME NEW s, Len(s) = 0
    PROVE  FlattenSeq(s) = s
BY DEF FlattenSeq

\* Flattening one sequence.
LEMMA FlattenOne ==
    ASSUME NEW s, Len(s) = 1
    PROVE  FlattenSeq(s) = s[1]
<1>0. Len(s) \in Nat /\ Len(s) # 0
  OBVIOUS
<1>1. PICK f : Flattens(f, s) /\ FlattenSeq(s) = f[Len(s)]
  BY <1>0, FlattenDef
<1>2. \A i \in 1 .. Len(s) : f[i] = IF i = 1 THEN s[i] ELSE f[i - 1] \o s[i]
  BY <1>1, FlattensValues
<1> QED BY <1>1, <1>2

\* Flattening one sequence more.
LEMMA FlattenMore ==
    ASSUME NEW s, NEW t, NEW n \in Nat, n # 0,
           Len(s) = n, Len(t) = n + 1, \A i \in 1 .. n : s[i] = t[i]
    PROVE  FlattenSeq(t) = FlattenSeq(s) \o t[n + 1]
<1>1. PICK g : Flattens(g, t) /\ FlattenSeq(t) = g[Len(t)]
  BY FlattenDef
<1>2. PICK f : Flattens(f, s) /\ FlattenSeq(s) = f[Len(s)]
  BY FlattenDef
<1>3. \A i \in 1 .. Len(t) : g[i] = IF i = 1 THEN t[i] ELSE g[i - 1] \o t[i]
  BY <1>1, FlattensValues
<1>4. \A i \in 1 .. Len(s) : f[i] = IF i = 1 THEN s[i] ELSE f[i - 1] \o s[i]
  BY <1>2, FlattensValues
<1>5. f[n] = g[n]
  <2> DEFINE Bad == {i \in 1 .. n : f[i] # g[i]}
  <2> SUFFICES ASSUME Bad # {} PROVE FALSE
    OBVIOUS
  <2>1. PICK m \in Bad : \A k \in Bad : m <= k
    <3>1. Bad \subseteq Nat
      OBVIOUS
    <3> HIDE DEF Bad
    <3> QED BY <3>1, Smallest
  <2>2. m # 1 => m - 1 \in 1 .. n /\ f[m - 1] = g[m - 1]
    BY <2>1
  <2> QED BY <1>3, <1>4, <2>2
<1>6. g[n + 1] = g[n] \o t[n + 1]
  <2>1. n + 1 \in 1 .. Len(t) /\ n + 1 # 1 /\ (n + 1) - 1 = n
    OBVIOUS
  <2> QED BY <1>3, <2>1
<1>7. FlattenSeq(t) = g[n + 1] /\ FlattenSeq(s) = f[n]
  BY <1>1, <1>2
<1> QED BY ONLY <1>5, <1>6, <1>7

\* Flattening sequences over S gives one of them.
LEMMA FlattenType ==
    ASSUME NEW S, NEW s \in Seq(Seq(S))
    PROVE  FlattenSeq(s) \in Seq(S)
<1>1. Len(s) \in Nat /\ \A i \in 1 .. Len(s) : s[i] \in Seq(S)
  BY ElementOfSeq, LenProperties
<1>2. CASE Len(s) = 0
  BY <1>2, FlattenEmpty, EmptySeq
<1>3. CASE Len(s) # 0
  <2>1. PICK f : Flattens(f, s) /\ FlattenSeq(s) = f[Len(s)]
    BY <1>1, <1>3, FlattenDef
  <2> DEFINE Bad == {i \in 1 .. Len(s) : f[i] \notin Seq(S)}
  <2> SUFFICES ASSUME Bad # {} PROVE FALSE
    BY <1>1, <1>3, <2>1
  <2>2. PICK m \in Bad : \A n \in Bad : m <= n
    <3>1. Bad \subseteq Nat
      BY <1>1
    <3> HIDE DEF Bad
    <3> QED BY <3>1, Smallest
  <2>3. f[m] = IF m = 1 THEN s[m] ELSE f[m - 1] \o s[m]
    <3>1. m \in 1 .. Len(s)
      OBVIOUS
    <3> QED BY <2>1, <3>1, FlattensAt DEF Flattens
  <2>4. m # 1 => f[m - 1] \in Seq(S)
    BY <1>1, <2>2
  <2>5. s[m] \in Seq(S) /\ (m # 1 => f[m - 1] \o s[m] \in Seq(S))
    BY <1>1, <2>4, ConcatProperties
  <2> QED BY <2>3, <2>5
<1> QED BY <1>2, <1>3

-----------------------------------------------------------------------------
(* Sequences of numbers that do not descend.                               *)

Has(s, x) == \E i \in 1 .. Len(s) : s[i] = x
Ascends(s) == s \in Seq(Nat) /\ \A i, j \in 1 .. Len(s) : i <= j => s[i] <= s[j]

\* What a concatenation holds.
LEMMA ConcatHas ==
    ASSUME NEW S, NEW a \in Seq(S), NEW b \in Seq(S), NEW x
    PROVE  Has(a \o b, x) <=> Has(a, x) \/ Has(b, x)
<1>1. /\ Len(a) \in Nat /\ Len(b) \in Nat /\ Len(a \o b) = Len(a) + Len(b)
      /\ \A i \in 1 .. Len(a) + Len(b) : (a \o b)[i] = IF i <= Len(a) THEN a[i] ELSE b[i - Len(a)]
  BY ConcatProperties, LenProperties
<1>2. ASSUME NEW i \in 1 .. Len(a), a[i] = x
      PROVE  i \in 1 .. Len(a \o b) /\ (a \o b)[i] = x
  BY <1>1, <1>2
<1>3. ASSUME NEW i \in 1 .. Len(b), b[i] = x
      PROVE  Len(a) + i \in 1 .. Len(a \o b) /\ (a \o b)[Len(a) + i] = x
  <2>1. Len(a) + i \in 1 .. Len(a) + Len(b) /\ ~(Len(a) + i <= Len(a)) /\ (Len(a) + i) - Len(a) = i
    BY <1>1
  <2> QED BY <1>1, <1>3, <2>1
<1>4. ASSUME NEW i \in 1 .. Len(a \o b), (a \o b)[i] = x
      PROVE  Has(a, x) \/ Has(b, x)
  <2>1. CASE i <= Len(a)
    <3>1. i \in 1 .. Len(a) /\ a[i] = x
      BY <1>1, <1>4, <2>1
    <3> QED BY <3>1 DEF Has
  <2>2. CASE ~(i <= Len(a))
    <3>1. i - Len(a) \in 1 .. Len(b) /\ b[i - Len(a)] = x
      BY <1>1, <1>4, <2>2
    <3> QED BY <3>1 DEF Has
  <2> QED BY <2>1, <2>2
<1> QED BY <1>2, <1>3, <1>4 DEF Has

\* A sequence whose numbers are none less than those before goes behind them.
LEMMA ConcatAscends ==
    ASSUME NEW a, NEW b, Ascends(a), Ascends(b),
           \A x, y \in Nat : Has(a, x) /\ Has(b, y) => x <= y
    PROVE  Ascends(a \o b)
<1>1. a \in Seq(Nat) /\ b \in Seq(Nat)
  BY DEF Ascends
<1>2. /\ Len(a) \in Nat /\ Len(b) \in Nat /\ Len(a \o b) = Len(a) + Len(b)
      /\ a \o b \in Seq(Nat)
      /\ \A i \in 1 .. Len(a) + Len(b) : (a \o b)[i] = IF i <= Len(a) THEN a[i] ELSE b[i - Len(a)]
  BY <1>1, ConcatProperties, LenProperties
<1>3. ASSUME NEW i \in 1 .. Len(a), NEW j \in 1 .. Len(b)
      PROVE  a[i] <= b[j]
  <2>1. a[i] \in Nat /\ b[j] \in Nat
    BY <1>1, ElementOfSeq
  <2> QED BY <2>1 DEF Has
<1>4. ASSUME NEW i \in 1 .. Len(a) + Len(b), NEW j \in 1 .. Len(a) + Len(b), i <= j
      PROVE  (a \o b)[i] <= (a \o b)[j]
  <2>1. CASE j <= Len(a)
    <3>1. i \in 1 .. Len(a) /\ j \in 1 .. Len(a) /\ i <= Len(a)
      BY <1>2, <1>4, <2>1
    <3> QED BY <1>2, <1>4, <2>1, <3>1 DEF Ascends
  <2>2. CASE i <= Len(a) /\ ~(j <= Len(a))
    <3>1. i \in 1 .. Len(a) /\ j - Len(a) \in 1 .. Len(b)
      BY <1>2, <2>2
    <3>2. a[i] <= b[j - Len(a)]
      BY <1>3, <3>1
    <3> QED BY <1>2, <2>2, <3>2
  <2>3. CASE ~(i <= Len(a))
    <3>1. /\ i - Len(a) \in 1 .. Len(b) /\ j - Len(a) \in 1 .. Len(b)
          /\ i - Len(a) <= j - Len(a) /\ ~(j <= Len(a))
      BY <1>2, <1>4, <2>3
    <3>2. b[i - Len(a)] <= b[j - Len(a)]
      BY <3>1 DEF Ascends
    <3> QED BY <1>2, <2>3, <3>1, <3>2
  <2> QED BY <2>1, <2>2, <2>3
<1> QED BY <1>2, <1>4 DEF Ascends

\* Flattening pieces that ascend, from piece to piece too, gives one that does.
LEMMA FlattenAscends ==
    ASSUME NEW s \in Seq(Seq(Nat)),
           \A i \in 1 .. Len(s) : Ascends(s[i]),
           \A i, j \in 1 .. Len(s) : \A x, y \in Nat : i < j /\ Has(s[i], x) /\ Has(s[j], y) => x <= y
    PROVE  /\ Ascends(FlattenSeq(s))
           /\ \A x : Has(FlattenSeq(s), x) <=> \E i \in 1 .. Len(s) : Has(s[i], x)
<1>1. Len(s) \in Nat /\ \A i \in 1 .. Len(s) : s[i] \in Seq(Nat)
  BY ElementOfSeq, LenProperties
<1>2. CASE Len(s) = 0
  <2>1. FlattenSeq(s) = << >> /\ Len(<< >>) = 0 /\ << >> \in Seq(Nat)
    BY <1>2, FlattenEmpty, EmptySeq
  <2> QED BY <1>2, <2>1 DEF Ascends, Has
<1>3. CASE Len(s) # 0
  <2>1. PICK f : Flattens(f, s) /\ FlattenSeq(s) = f[Len(s)]
    BY <1>1, <1>3, FlattenDef
  <2>2. \A i \in 1 .. Len(s) : f[i] = IF i = 1 THEN s[i] ELSE f[i - 1] \o s[i]
    BY <2>1, FlattensValues
  <2> DEFINE Good(k) == Ascends(f[k]) /\ \A x : Has(f[k], x) <=> \E i \in 1 .. k : Has(s[i], x)
             Bad == {k \in 1 .. Len(s) : ~Good(k)}
  <2> SUFFICES ASSUME Bad # {} PROVE FALSE
    <3>1. Len(s) \in 1 .. Len(s)
      BY <1>1, <1>3
    <3> QED BY <2>1, <3>1
  <2>3. PICK m \in Bad : \A n \in Bad : m <= n
    <3>1. Bad \subseteq Nat
      BY <1>1
    <3> HIDE DEF Bad
    <3> QED BY <3>1, Smallest
  <2>4. m \in 1 .. Len(s) /\ m \in Nat
    BY <1>1
  <2>5. CASE m = 1
    <3>1. f[1] = s[1] /\ \A i \in 1 .. 1 : i = 1
      BY <2>2, <2>4, <2>5
    <3>2. Ascends(f[1])
      BY <2>4, <2>5, <3>1
    <3>3. ASSUME NEW x PROVE Has(f[1], x) <=> \E i \in 1 .. 1 : Has(s[i], x)
      BY <3>1
    <3> QED BY <2>5, <3>2, <3>3
  <2>6. CASE m # 1
    <3>1. m - 1 \in 1 .. Len(s) /\ m - 1 < m /\ m - 1 \in Nat
      BY <1>1, <2>4, <2>6
    <3>2. Good(m - 1)
      <4> HIDE DEF Good
      <4> QED BY <2>3, <2>4, <3>1
    <3>3. f[m] = f[m - 1] \o s[m]
      BY <2>2, <2>4, <2>6
    <3>4. Ascends(s[m]) /\ s[m] \in Seq(Nat) /\ f[m - 1] \in Seq(Nat)
      BY <1>1, <2>4, <3>2 DEF Ascends
    <3>5. \A i \in 1 .. m - 1 : i \in 1 .. Len(s) /\ i < m
      BY <1>1, <2>4
    <3>6. \A x, y \in Nat : Has(f[m - 1], x) /\ Has(s[m], y) => x <= y
      BY <2>4, <3>2, <3>5
    <3>7. Ascends(f[m])
      <4>1. PICK a, b : a = f[m - 1] /\ b = s[m]
        OBVIOUS
      <4>2. Ascends(a) /\ Ascends(b) /\ \A x, y \in Nat : Has(a, x) /\ Has(b, y) => x <= y
        BY <3>2, <3>4, <3>6, <4>1
      <4>3. Ascends(a \o b)
        BY ONLY <4>2, ConcatAscends
      <4> QED BY <3>3, <4>1, <4>3
    <3>8. ASSUME NEW x PROVE Has(f[m], x) <=> \E i \in 1 .. m : Has(s[i], x)
      <4>1. Has(f[m], x) <=> Has(f[m - 1], x) \/ Has(s[m], x)
        BY <3>3, <3>4, ConcatHas
      <4>2. Has(f[m - 1], x) <=> \E i \in 1 .. m - 1 : Has(s[i], x)
        BY <3>2
      <4>3. \A i : i \in 1 .. m <=> i \in 1 .. m - 1 \/ i = m
        BY <2>4
      <4> QED BY <4>1, <4>2, <4>3
    <3> QED BY <3>7, <3>8
  <2> QED BY <2>5, <2>6
<1> QED BY <1>2, <1>3
=============================================================================
