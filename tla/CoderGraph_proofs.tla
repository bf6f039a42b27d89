------------------------- MODULE CoderGraph_proofs -------------------------
(***************************************************************************)
(* For every folder readFolder may return, malformed ones included, and    *)
(* any number of readers: a folder that folderReader accepts is a tree     *)
(* that ends in the last coder, so the two sizes of a folder agree, and a  *)
(* decoder of the shared pools has one owner.                              *)
(***************************************************************************)
EXTENDS CoderGraph, FiniteSetTheorems, SequenceTheorems, WellFoundedInduction, TLAPS

\* Input j is one of the packed streams.
PackedAt(j) == \E k \in 1 .. Len(f.packed) : f.packed[k] = j

\* What the inputs of the coders made so far read, and those of the others: the
\* packed stream with their index, or else an earlier coder that the first bind
\* pair names; nothing yet.
WiredReader(r) ==
    /\ \A i \in Coders : i < built[r] => Coder(i).out = 1
    /\ \A i \in Coders : \A j \in InputsOf(i) :
          /\ PackedAt(j) => in[r][j] = Packed
          /\ ~PackedAt(j) /\ i < built[r] =>
                InPairs(j) # {} /\ in[r][j] = BoundOut(j) /\ BoundOut(j) \in 0 .. i - 1
          /\ ~PackedAt(j) /\ i >= built[r] => in[r][j] = Nil

Wired == \A r \in Readers : phase[r] \in {"building", "open", "closed"} => WiredReader(r)

\* An accepted folder has all its coders and one unbound output.
Accepted ==
    \A r \in Readers : phase[r] \in {"open", "closed"} =>
       built[r] = Len(f.coder) /\ Cardinality(Unbound) = 1

\* Nothing is made before folderReader's loop.
NewUnbuilt == \A r \in Readers : phase[r] = "new" => built[r] = 0

\* A wrapper of a pooled method that is open has a decoder, and no other has one.
PooledHave ==
    \A r \in Readers : \A i \in Coders :
       /\ node[r][i].st = "open" /\ Coder(i).method = "pooled" => node[r][i].dec # NoDecoder
       /\ node[r][i].dec # NoDecoder => Coder(i).method = "pooled"

\* The inductive invariant.
Inv == /\ f \in Folders
       /\ TypeOK
       /\ Wired
       /\ Accepted
       /\ NewUnbuilt
       /\ PooledHave
       /\ DecodersExclusive

-----------------------------------------------------------------------------
\* A nonempty set of natural numbers has a smallest element.
LEMMA SmallestOf ==
    ASSUME NEW S, S \subseteq Nat, S # {}
    PROVE  \E m \in S : \A k \in S : m <= k
<1>1. PICK m \in S : \A k \in S : ~(<<k, m>> \in OpToRel(<, Nat))
  BY NatLessThanWellFounded, WFMin
<1>2. \A k \in S : ~(k < m)
  BY <1>1 DEF OpToRel
<1> QED BY <1>2

\* How many numbers there are below n, from 0 and from 1 on.
LEMMA CountBelow ==
    ASSUME NEW n \in Nat
    PROVE  /\ IsFiniteSet(0 .. n - 1) /\ Cardinality(0 .. n - 1) = n
           /\ IsFiniteSet(1 .. n) /\ Cardinality(1 .. n) = n
<1>1. 0 \in Int /\ 1 \in Int /\ n \in Int /\ n - 1 \in Int
  OBVIOUS
<1>2. IsFiniteSet(0 .. n - 1) /\ Cardinality(0 .. n - 1) = IF 0 > n - 1 THEN 0 ELSE (n - 1) - 0 + 1
  BY <1>1, FS_Interval
<1>3. IsFiniteSet(1 .. n) /\ Cardinality(1 .. n) = IF 1 > n THEN 0 ELSE n - 1 + 1
  BY <1>1, FS_Interval
<1> QED BY <1>2, <1>3

\* The folder's lengths and indexes are numbers.
LEMMA FolderType ==
    ASSUME f \in Folders
    PROVE  /\ Len(f.coder) \in Nat /\ Len(f.bindPair) \in Nat /\ Len(f.packed) \in Nat
           /\ f.out \in Nat
           /\ f.first \in [1 .. Len(f.coder) + 1 -> Nat]
           /\ \A i \in 0 .. Len(f.coder) : FirstIn(i) \in Nat
           /\ FirstIn(0) = 0
           /\ \A i \in Coders : FirstIn(i + 1) = FirstIn(i) + Coder(i).in /\ Coder(i).in \in Nat
           /\ \A i \in Coders : Coder(i).out \in Nat
           /\ \A k \in 1 .. Len(f.bindPair) : f.bindPair[k].in \in Nat /\ f.bindPair[k].out \in Nat
<1>1. /\ f.coder \in Seq([method : Methods, in : Nat, out : Nat])
      /\ f.bindPair \in Seq([in : Nat, out : Nat])
      /\ f.packed \in Seq(Nat) /\ f.out \in Nat
      /\ f.first \in [1 .. Len(f.coder) + 1 -> Nat]
      /\ f.first[1] = 0
      /\ \A i \in 1 .. Len(f.coder) : f.first[i + 1] = f.first[i] + f.coder[i].in
  BY FoldersAssumption
<1>2. Len(f.coder) \in Nat /\ Len(f.bindPair) \in Nat /\ Len(f.packed) \in Nat
  BY <1>1
<1>3. ASSUME NEW i \in 0 .. Len(f.coder)
      PROVE  FirstIn(i) \in Nat
  <2>1. i + 1 \in 1 .. Len(f.coder) + 1
    BY <1>2
  <2> QED BY <1>1, <2>1 DEF FirstIn
<1>4. ASSUME NEW i \in Coders
      PROVE  Coder(i) \in [method : Methods, in : Nat, out : Nat]
  <2>1. i + 1 \in 1 .. Len(f.coder)
    BY <1>2 DEF Coders
  <2> QED BY <1>1, <2>1, ElementOfSeq DEF Coder
<1>5. ASSUME NEW i \in Coders
      PROVE  FirstIn(i + 1) = FirstIn(i) + Coder(i).in
  BY <1>1, <1>2 DEF Coders, Coder, FirstIn
<1>6. \A k \in 1 .. Len(f.bindPair) : f.bindPair[k] \in [in : Nat, out : Nat]
  BY <1>1, ElementOfSeq
<1> QED BY <1>1, <1>2, <1>3, <1>4, <1>5, <1>6 DEF FirstIn

\* The running sums only grow.
LEMMA FirstGrows ==
    ASSUME f \in Folders, NEW i \in 0 .. Len(f.coder), NEW k \in 0 .. Len(f.coder), i <= k
    PROVE  FirstIn(i) <= FirstIn(k)
<1> DEFINE S == {m \in 0 .. Len(f.coder) : i <= m /\ ~(FirstIn(i) <= FirstIn(m))}
<1> SUFFICES ASSUME S # {} PROVE FALSE
  BY DEF S
<1>1. Len(f.coder) \in Nat
  BY FolderType
<1>2. S \subseteq Nat
  BY <1>1
<1>3. PICK m \in S : \A l \in S : m <= l
  BY <1>2, SmallestOf
<1>4. m # i
  BY <1>1, FolderType DEF S
<1>5. m - 1 \in Coders /\ i <= m - 1 /\ m - 1 \in 0 .. Len(f.coder) /\ (m - 1) + 1 = m
  BY <1>1, <1>4 DEF S, Coders
<1>6. FirstIn(i) <= FirstIn(m - 1)
  <2>1. m - 1 \notin S
    BY <1>2, <1>3
  <2> QED BY <2>1, <1>5 DEF S
<1>7. FirstIn(m) = FirstIn(m - 1) + Coder(m - 1).in /\ Coder(m - 1).in \in Nat
  BY <1>5, FolderType
<1>8. FirstIn(i) \in Nat /\ FirstIn(m - 1) \in Nat /\ FirstIn(m) \in Nat
  BY <1>5, <1>1, FolderType DEF S
<1>9. FirstIn(i) <= FirstIn(m)
  BY <1>6, <1>7, <1>8
<1> QED BY <1>9 DEF S

\* The coders divide the inputs among them.
LEMMA InputsDivided ==
    ASSUME f \in Folders
    PROVE  /\ \A i \in Coders : InputsOf(i) \subseteq Inputs
           /\ \A i, k \in Coders : \A j \in InputsOf(i) : j \in InputsOf(k) => i = k
           /\ \A j \in Inputs : \E i \in Coders : j \in InputsOf(i)
<1>1. Len(f.coder) \in Nat /\ \A i \in 0 .. Len(f.coder) : FirstIn(i) \in Nat
  BY FolderType
<1>2. ASSUME NEW i \in Coders
      PROVE  InputsOf(i) \subseteq Inputs
  <2>1. i + 1 \in 0 .. Len(f.coder) /\ i \in 0 .. Len(f.coder) /\ Len(f.coder) \in 0 .. Len(f.coder)
    BY <1>1 DEF Coders
  <2>2. FirstIn(i + 1) <= FirstIn(Len(f.coder))
    BY <1>1, <2>1, FirstGrows
  <2> QED BY <1>1, <2>1, <2>2 DEF InputsOf, Inputs
<1>3. ASSUME NEW i \in Coders, NEW k \in Coders, NEW j \in InputsOf(i), j \in InputsOf(k), i < k
      PROVE  FALSE
  <2>1. i + 1 \in 0 .. Len(f.coder) /\ k \in 0 .. Len(f.coder) /\ i + 1 <= k
        /\ k + 1 \in 0 .. Len(f.coder) /\ i \in 0 .. Len(f.coder)
    BY <1>1, <1>3 DEF Coders
  <2>2. FirstIn(i + 1) <= FirstIn(k)
    BY <2>1, FirstGrows
  <2> QED BY <1>1, <1>3, <2>1, <2>2 DEF InputsOf
<1>4. \A i, k \in Coders : \A j \in InputsOf(i) : j \in InputsOf(k) => i = k
  <2>1. \A i, k \in Coders : i < k \/ k < i \/ i = k
    BY <1>1 DEF Coders
  <2> QED BY <1>3, <2>1
<1>5. ASSUME NEW j \in Inputs
      PROVE  \E i \in Coders : j \in InputsOf(i)
  <2> DEFINE S == {m \in 0 .. Len(f.coder) : j < FirstIn(m)}
  <2>1. S \subseteq Nat /\ Len(f.coder) \in S /\ S # {}
    BY <1>1 DEF Inputs
  <2>2. PICK m \in S : \A l \in S : m <= l
    BY <2>1, SmallestOf
  <2>3. m # 0
    BY FolderType DEF S, Inputs
  <2>4. m - 1 \in Coders /\ m - 1 \in 0 .. Len(f.coder) /\ (m - 1) + 1 = m /\ ~(m <= m - 1)
    BY <1>1, <2>3 DEF S, Coders
  <2>5. FirstIn(m - 1) <= j
    <3>1. m - 1 \notin S
      BY <2>1, <2>2, <2>4
    <3> QED BY <3>1, <1>1, <2>4 DEF S, Inputs
  <2>6. j \in InputsOf(m - 1)
    BY <1>1, <2>4, <2>5 DEF InputsOf, S, Inputs
  <2> QED BY <2>4, <2>6
<1> QED BY <1>2, <1>4, <1>5

-----------------------------------------------------------------------------
(* An accepted folder.                                                     *)

\* The bind pair of input j that findInBindPair returns.
FirstPair(j) == FirstOf(InPairs(j))

\* An input that has bind pairs has a first one, whose output BoundOut is.
LEMMA FirstPairExists ==
    ASSUME f \in Folders, NEW j, InPairs(j) # {}
    PROVE  /\ FirstPair(j) \in 1 .. Len(f.bindPair)
           /\ f.bindPair[FirstPair(j)].in = j
           /\ f.bindPair[FirstPair(j)].out = BoundOut(j)
<1>1. InPairs(j) \subseteq Nat
  BY FolderType DEF InPairs
<1>2. \E k \in InPairs(j) : \A l \in InPairs(j) : k <= l
  BY <1>1, SmallestOf
<1>3. FirstPair(j) \in InPairs(j)
  BY <1>2 DEF FirstPair, FirstOf
<1> QED BY <1>3 DEF InPairs, FirstPair, BoundOut

(***************************************************************************)
(* The counting argument.  Every input is packed or has a first bind pair  *)
(* of its own; there are n - 1 bind pairs and, when the packed streams are *)
(* counted right, at least n - 1 inputs that are not packed.  So each bind *)
(* pair is the first of exactly one input and names the output of a coder  *)
(* before that input's: none names the last coder's.                       *)
(***************************************************************************)
LEMMA TreeOf ==
    ASSUME Inv, NEW r \in Readers, phase[r] \in {"open", "closed"}, PackedCounted
    PROVE  /\ Cardinality({j \in Inputs : in[r][j] = Packed}) = Len(f.packed)
           /\ \A i \in Coders : \A j \in InputsOf(i) : in[r][j] = Packed \/ in[r][j] \in 0 .. i - 1
           /\ \A i \in Coders : Cardinality({j \in Inputs : in[r][j] = i}) =
                                  (IF i = Len(f.coder) - 1 THEN 0 ELSE 1)
           /\ Unbound = {Len(f.coder) - 1}
<1> DEFINE n == Len(f.coder)
           P == {j \in Inputs : in[r][j] = Packed}
           Q == Inputs \ P
           Pairs == 1 .. Len(f.bindPair)
           first == [j \in Q |-> FirstPair(j)]
<1>1. f \in Folders
  BY DEF Inv
<1>2. n \in Nat /\ f.out \in Nat /\ Len(f.bindPair) \in Nat /\ Len(f.packed) \in Nat
      /\ FirstIn(n) \in Nat
  BY <1>1, FolderType
<1>3. built[r] = n /\ Cardinality(Unbound) = 1
  BY DEF Inv, Accepted
<1>4. \A i \in Coders : Coder(i).out = 1
  BY <1>2, <1>3 DEF Inv, Wired, WiredReader, Coders
<1>5. f.out = n /\ Len(f.bindPair) = n - 1
  <2>1. \A i \in 1 .. Len(f.coder) : f.coder[i].out = 1
    <3> SUFFICES ASSUME NEW i \in 1 .. Len(f.coder) PROVE f.coder[i].out = 1
      OBVIOUS
    <3>1. i - 1 \in Coders /\ (i - 1) + 1 = i
      BY <1>2 DEF Coders
    <3> QED BY <3>1, <1>4 DEF Coder
  <2> QED BY <2>1, <1>1, FoldersAssumption
<1>6. n >= 1
  BY <1>2, <1>5
<1>7. ASSUME NEW i \in Coders, NEW j \in InputsOf(i)
      PROVE  /\ PackedAt(j) => in[r][j] = Packed
             /\ ~PackedAt(j) => InPairs(j) # {} /\ in[r][j] = BoundOut(j)
                                /\ BoundOut(j) \in 0 .. i - 1
  <2>1. i < built[r]
    BY <1>2, <1>3 DEF Coders
  <2> QED BY <2>1 DEF Inv, Wired, WiredReader
<1>8. \A i \in Coders : \A j \in InputsOf(i) : in[r][j] = Packed \/ in[r][j] \in 0 .. i - 1
  BY <1>7
<1>9. \A j \in Inputs : in[r][j] = Packed <=> PackedAt(j)
  <2> SUFFICES ASSUME NEW j \in Inputs PROVE in[r][j] = Packed <=> PackedAt(j)
    OBVIOUS
  <2>1. PICK i \in Coders : j \in InputsOf(i)
    BY <1>1, InputsDivided
  <2>2. \A o \in 0 .. i - 1 : o # Packed
    BY <1>2, <2>1 DEF Coders, Packed
  <2> QED BY <2>1, <2>2, <1>7
<1>10. IsFiniteSet(Inputs) /\ Cardinality(Inputs) \in Nat
  BY <1>2, CountBelow DEF Inputs
<1>11. IsFiniteSet(P) /\ IsFiniteSet(Q) /\ Cardinality(P) \in Nat /\ Cardinality(Q) \in Nat
       /\ Cardinality(Q) = Cardinality(Inputs) - Cardinality(P)
  <2>1. P \in SUBSET Inputs /\ Inputs \cap P = P
    OBVIOUS
  <2>2. IsFiniteSet(P) /\ IsFiniteSet(Q)
    BY <1>10, <2>1, FS_Subset, FS_Difference
  <2> QED BY <1>10, <2>1, <2>2, FS_Difference, FS_CardinalityType
<1>12. Cardinality(P) <= Len(f.packed)
  <2> DEFINE T == {k \in 1 .. Len(f.packed) : f.packed[k] \in P}
             g == [k \in T |-> f.packed[k]]
  <2>1. IsFiniteSet(1 .. Len(f.packed)) /\ Cardinality(1 .. Len(f.packed)) = Len(f.packed)
    BY <1>2, CountBelow
  <2>2. IsFiniteSet(T) /\ Cardinality(T) <= Len(f.packed) /\ Cardinality(T) \in Nat
    BY <2>1, FS_Subset, FS_CardinalityType
  <2>3. g \in [T -> P]
    OBVIOUS
  <2>4. ASSUME NEW j \in P
        PROVE  \E k \in T : g[k] = j
    BY <1>9 DEF PackedAt
  <2>5. g \in Surjection(T, P)
    BY <2>3, <2>4 DEF Surjection
  <2>6. Cardinality(P) <= Cardinality(T)
    BY <2>2, <2>5, FS_Surjection
  <2> QED BY <2>2, <2>6, <1>2, <1>11
<1>13. \A j \in Q : InPairs(j) # {} /\ in[r][j] = BoundOut(j) /\ FirstPair(j) \in Pairs
                    /\ f.bindPair[FirstPair(j)].in = j
                    /\ f.bindPair[FirstPair(j)].out = in[r][j]
                    /\ in[r][j] \in 0 .. n - 2
  <2> SUFFICES ASSUME NEW j \in Q
               PROVE  InPairs(j) # {} /\ in[r][j] = BoundOut(j) /\ FirstPair(j) \in Pairs
                      /\ f.bindPair[FirstPair(j)].in = j
                      /\ f.bindPair[FirstPair(j)].out = in[r][j]
                      /\ in[r][j] \in 0 .. n - 2
    OBVIOUS
  <2>1. PICK i \in Coders : j \in InputsOf(i)
    BY <1>1, InputsDivided
  <2>2. InPairs(j) # {} /\ in[r][j] = BoundOut(j) /\ in[r][j] \in 0 .. i - 1
    BY <2>1, <1>7, <1>9
  <2>3. in[r][j] \in 0 .. n - 2
    BY <2>1, <2>2, <1>2 DEF Coders
  <2> QED BY <2>2, <2>3, <1>1, FirstPairExists
<1>14. first \in Injection(Q, Pairs)
  <2>1. first \in [Q -> Pairs]
    BY <1>13
  <2>2. \A a, b \in Q : first[a] = first[b] => a = b
    BY <1>13
  <2> QED BY <2>1, <2>2 DEF Injection, IsInjective
<1>15. IsFiniteSet(Pairs) /\ Cardinality(Pairs) = n - 1
  BY <1>2, <1>5, CountBelow
<1>16. Cardinality(Q) <= n - 1
  BY <1>14, <1>15, FS_Injection
<1>17. Cardinality(P) = Len(f.packed) /\ Cardinality(Q) = n - 1
  BY <1>2, <1>5, <1>10, <1>11, <1>12, <1>16 DEF PackedCounted
<1>18. \A k \in Pairs : \E j \in Q : k = FirstPair(j)
  <2>1. first \in Surjection(Q, Pairs)
    BY <1>14, <1>15, <1>17, FS_Injection
  <2> QED BY <2>1 DEF Surjection
<1>19. Unbound = {n - 1}
  <2>1. n - 1 \in Outputs
    BY <1>2, <1>5, <1>6 DEF Outputs
  <2>2. OutPairs(n - 1) = {}
    <3> SUFFICES ASSUME NEW k \in Pairs, f.bindPair[k].out = n - 1 PROVE FALSE
      BY DEF OutPairs
    <3>1. PICK j \in Q : k = FirstPair(j)
      BY <1>18
    <3> QED BY <3>1, <1>13, <1>2
  <2>3. n - 1 \in Unbound
    BY <2>1, <2>2 DEF Unbound
  <2>4. IsFiniteSet(Unbound)
    <3>1. IsFiniteSet(Outputs)
      BY <1>2, CountBelow DEF Outputs
    <3> QED BY <3>1, FS_Subset DEF Unbound
  <2>5. \E x : Unbound = {x}
    BY <2>4, <1>3, FS_Singleton
  <2> QED BY <2>3, <2>5
<1>20. \A i \in 0 .. n - 2 : \E j \in Q : in[r][j] = i
  <2> SUFFICES ASSUME NEW i \in 0 .. n - 2 PROVE \E j \in Q : in[r][j] = i
    OBVIOUS
  <2>1. i \in Outputs /\ i # n - 1
    BY <1>2, <1>5 DEF Outputs
  <2>2. PICK k \in Pairs : f.bindPair[k].out = i
    BY <2>1, <1>19 DEF Unbound, OutPairs
  <2>3. PICK j \in Q : k = FirstPair(j)
    BY <1>18
  <2> QED BY <2>2, <2>3, <1>13
<1>21. \A a, b \in Q : in[r][a] = in[r][b] => a = b
  <2> DEFINE T == 0 .. n - 2
             h == [j \in Q |-> in[r][j]]
  <2>1. IsFiniteSet(T) /\ Cardinality(T) = n - 1
    <3>1. n - 1 \in Nat /\ T = 0 .. (n - 1) - 1
      BY <1>2, <1>6
    <3> QED BY <3>1, CountBelow
  <2>2. h \in [Q -> T]
    BY <1>13
  <2>3. h \in Surjection(Q, T)
    BY <2>2, <1>20 DEF Surjection
  <2>4. h \in Injection(Q, T)
    BY <2>1, <2>3, <1>11, <1>17, FS_Surjection
  <2> QED BY <2>4 DEF Injection, IsInjective
<1>22. ASSUME NEW i \in Coders
       PROVE  Cardinality({j \in Inputs : in[r][j] = i}) = (IF i = n - 1 THEN 0 ELSE 1)
  <2>1. \A j \in Inputs : in[r][j] = i => j \in Q
    BY <1>2 DEF Coders, Packed
  <2>2. CASE i = n - 1
    <3>1. {j \in Inputs : in[r][j] = i} = {}
      BY <2>1, <2>2, <1>13, <1>2
    <3> QED BY <3>1, <2>2, FS_EmptySet
  <2>3. CASE i # n - 1
    <3>1. i \in 0 .. n - 2
      BY <2>3, <1>2 DEF Coders
    <3>2. PICK a \in Q : in[r][a] = i
      BY <3>1, <1>20
    <3>3. {j \in Inputs : in[r][j] = i} = {a}
      BY <2>1, <3>2, <1>21
    <3> QED BY <3>3, <2>3, FS_Singleton
  <2> QED BY <2>2, <2>3
<1> QED BY <1>8, <1>17, <1>19, <1>22

-----------------------------------------------------------------------------
(* The steps.  What a folder says does not change, since f does not.       *)

\* What is read off the folder stays while the folder does.
LEMMA FolderKept ==
    ASSUME f' = f
    PROVE  /\ Coders' = Coders /\ Inputs' = Inputs /\ Unbound' = Unbound
           /\ \A i : Coder(i)' = Coder(i) /\ InputsOf(i)' = InputsOf(i)
           /\ \A j : /\ PackedAt(j)' <=> PackedAt(j)
                     /\ InPairs(j)' = InPairs(j)
                     /\ BoundOut(j)' = BoundOut(j)
<1>1. Coders' = Coders /\ Inputs' = Inputs
  BY DEF Coders, Inputs, FirstIn
<1>2. Unbound' = Unbound
  BY DEF Unbound, Outputs, OutPairs
<1>3. ASSUME NEW i PROVE Coder(i)' = Coder(i) /\ InputsOf(i)' = InputsOf(i)
  BY DEF Coder, InputsOf, FirstIn
<1>4. ASSUME NEW j
      PROVE  (PackedAt(j)' <=> PackedAt(j)) /\ InPairs(j)' = InPairs(j)
  BY DEF PackedAt, InPairs
<1>5. ASSUME NEW j PROVE BoundOut(j)' = BoundOut(j)
  BY <1>4 DEF BoundOut
<1> QED BY <1>1, <1>2, <1>3, <1>4, <1>5

\* A reader whose inputs a step leaves alone stays wired.
LEMMA WiredReaderKept ==
    ASSUME f' = f, NEW r, in'[r] = in[r], built'[r] = built[r], WiredReader(r)
    PROVE  WiredReader(r)'
BY FolderKept DEF WiredReader

\* No reader has begun.
LEMMA InitInv == Init => Inv
<1> SUFFICES ASSUME Init PROVE Inv
  OBVIOUS
<1> USE DEF Init
<1>1. Len(f.coder) \in Nat
  BY FolderType
<1>2. TypeOK
  BY <1>1 DEF TypeOK
<1>3. Wired /\ Accepted /\ NewUnbuilt
  BY DEF Wired, Accepted, NewUnbuilt
<1>4. PooledHave /\ DecodersExclusive
  BY DEF PooledHave, DecodersExclusive
<1> QED BY <1>2, <1>3, <1>4 DEF Inv

\* Steps that leave the wrappers and the pool alone keep who owns what.
LEMMA OwnersKept ==
    ASSUME Inv, UNCHANGED <<f, node, shared>>
    PROVE  PooledHave' /\ DecodersExclusive'
BY DEF Inv, PooledHave, DecodersExclusive, Coders, Coder

\* A new folder reader has nothing wired yet.
LEMMA StartInv ==
    ASSUME Inv, NEW r \in Readers, Start(r)
    PROVE  Inv'
<1>1. f' = f /\ built' = built /\ node' = node /\ shared' = shared /\ phase[r] = "new"
  BY DEF Start
<1>2. PooledHave' /\ DecodersExclusive'
  BY <1>1, OwnersKept
<1>3. CASE phase' = [phase EXCEPT ![r] = "panic"] /\ in' = in
  <2>1. TypeOK'
    BY <1>1, <1>3 DEF Inv, TypeOK, Inputs, Coders, FirstIn
  <2>2. \A q \in Readers : phase'[q] \in {"building", "open", "closed"} => q # r /\ phase'[q] = phase[q]
    BY <1>3 DEF Inv, TypeOK
  <2>3. Wired'
    BY <2>2, <1>1, <1>3, WiredReaderKept DEF Inv, Wired
  <2>4. Accepted' /\ NewUnbuilt'
    <3>1. \A q \in Readers : phase'[q] = "new" => phase[q] = "new"
      BY <1>3 DEF Inv, TypeOK
    <3> QED BY <2>2, <3>1, <1>1, FolderKept DEF Inv, Accepted, NewUnbuilt
  <2> QED BY <1>1, <1>2, <2>1, <2>3, <2>4 DEF Inv
<1>4. CASE /\ phase' = [phase EXCEPT ![r] = "building"]
           /\ in' = [in EXCEPT ![r] = [j \in Inputs |-> IF PackedAt(j) THEN Packed ELSE Nil]]
  <2> DEFINE new == [j \in Inputs |-> IF PackedAt(j) THEN Packed ELSE Nil]
  <2>1. in'[r] = new /\ \A q \in Readers : q # r => in'[q] = in[q]
    BY <1>4 DEF Inv, TypeOK
  <2>2. TypeOK'
    BY <1>1, <1>4 DEF Inv, TypeOK, Inputs, Coders, FirstIn
  <2>3. Accepted' /\ NewUnbuilt'
    BY <1>1, <1>4 DEF Inv, TypeOK, Accepted, NewUnbuilt, Unbound, Outputs, OutPairs
  <2>4. Wired'
    <3> SUFFICES ASSUME NEW q \in Readers, phase'[q] \in {"building", "open", "closed"}
                 PROVE  WiredReader(q)'
      BY DEF Wired
    <3>1. CASE q # r
      BY <3>1, <2>1, <1>1, <1>4, WiredReaderKept DEF Inv, TypeOK, Wired
    <3>2. CASE q = r
      <4>1. built[r] = 0
        BY <1>1 DEF Inv, NewUnbuilt
      <4>2. \A i \in Coders : ~(i < 0)
        BY FolderType DEF Coders, Inv
      <4>3. \A i \in Coders : \A j \in InputsOf(i) : in'[r][j] = IF PackedAt(j) THEN Packed ELSE Nil
        BY <2>1, InputsDivided DEF Inv
      <4> QED BY <3>2, <4>1, <4>2, <4>3, <1>1, FolderKept DEF WiredReader
    <3> QED BY <3>1, <3>2
  <2> QED BY <1>1, <1>2, <2>2, <2>3, <2>4 DEF Inv
<1> QED BY <1>3, <1>4 DEF Start, PackedAt

\* Steps that end the building of one reader, in failure or in a panic.
LEMMA GivesUp ==
    ASSUME Inv, NEW r \in Readers, NEW s \in {"failed", "panic"},
           phase' = [phase EXCEPT ![r] = s], UNCHANGED <<f, built, in, node>>,
           shared' \subseteq shared
    PROVE  Inv'
<1>1. TypeOK'
  BY DEF Inv, TypeOK, Inputs, Coders, FirstIn
<1>2. \A q \in Readers : phase'[q] \in {"new", "building", "open", "closed"} => q # r /\ phase'[q] = phase[q]
  BY DEF Inv, TypeOK
<1>3. Wired'
  BY <1>2, WiredReaderKept DEF Inv, Wired
<1>4. Accepted' /\ NewUnbuilt'
  BY <1>2, FolderKept DEF Inv, Accepted, NewUnbuilt
<1>5. PooledHave' /\ DecodersExclusive'
  BY DEF Inv, PooledHave, DecodersExclusive, Coders, Coder
<1> QED BY <1>1, <1>3, <1>4, <1>5 DEF Inv

\* What the inputs of the next coder are connected to: packed streams as they are,
\* the others to the output of an earlier coder.
LEMMA SourceOf ==
    ASSUME Inv, NEW r \in Readers, Connects(r), NEW j \in InputsOf(built[r])
    PROVE  /\ PackedAt(j) => Source(r, j) = Packed
           /\ ~PackedAt(j) => /\ InPairs(j) # {}
                              /\ Source(r, j) = BoundOut(j)
                              /\ BoundOut(j) \in 0 .. built[r] - 1
<1>1. built[r] \in Coders /\ phase[r] = "building" /\ built[r] \in Nat
  BY FolderType DEF Connects, Inv, Coders
<1>2. /\ PackedAt(j) => in[r][j] = Packed
      /\ ~PackedAt(j) => in[r][j] = Nil
  BY <1>1 DEF Inv, Wired, WiredReader
<1>3. Source(r, j) # Unavailable /\ Source(r, j) # OutOfRange
  BY DEF Connects, Failures
<1>4. CASE PackedAt(j)
  BY <1>2, <1>4 DEF Source, Packed, Nil
<1>5. CASE ~PackedAt(j)
  <2>1. in[r][j] = Nil
    BY <1>2, <1>5
  <2>2. InPairs(j) # {}
    BY <2>1, <1>3 DEF Source
  <2>3. BoundOut(j) \in Outputs
    BY <2>1, <2>2, <1>3 DEF Source
  <2>4. ~(BoundOut(j) >= built[r])
    BY <2>1, <2>2, <2>3, <1>3 DEF Source
  <2>5. Source(r, j) = BoundOut(j)
    BY <2>1, <2>2, <2>3, <2>4 DEF Source
  <2>6. BoundOut(j) \in 0 .. built[r] - 1
    BY <1>1, <2>3, <2>4, FolderType DEF Inv, Outputs
  <2> QED BY <1>5, <2>2, <2>5, <2>6
<1> QED BY <1>4, <1>5

\* A coder is made with a decoder that nobody has, or with none.
LEMMA MadeInv ==
    ASSUME Inv, NEW r \in Readers, Connects(r), NEW d \in Decoders \cup {NoDecoder},
           Made(r, d), shared' \subseteq shared, d \notin shared',
           Coder(built[r]).method = "pooled" <=> d # NoDecoder,
           d # NoDecoder => \A q \in Readers : \A k \in Coders : node[q][k].dec # d
    PROVE  Inv'
<1> DEFINE b == built[r]
<1>1. f' = f /\ phase' = phase /\ f \in Folders
  BY DEF Made, Inv
<1>2. b \in Coders /\ b \in Nat /\ b + 1 \in 0 .. Len(f.coder) /\ phase[r] = "building"
      /\ Coder(b).out = 1
  BY <1>1, FolderType DEF Connects, Coders
<1>3. built'[r] = b + 1 /\ \A q \in Readers : q # r => built'[q] = built[q]
  BY DEF Made, Inv, TypeOK
<1>4. /\ in'[r] = [j \in Inputs |-> IF j \in InputsOf(b) THEN Source(r, j) ELSE in[r][j]]
      /\ \A q \in Readers : q # r => in'[q] = in[q]
  BY DEF Made, Inv, TypeOK
<1>5. /\ node'[r][b] = [st |-> "open", dec |-> d]
      /\ \A q \in Readers : \A k \in Coders : q # r \/ k # b => node'[q][k] = node[q][k]
  BY <1>2 DEF Made, Inv, TypeOK
<1>6. TypeOK'
  <2>1. \A j \in InputsOf(b) : Source(r, j) \in {Nil, Packed} \cup Coders
    <3>1. \A o \in 0 .. b - 1 : o \in Coders
      BY <1>2, <1>1, FolderType DEF Coders
    <3> QED BY <3>1, SourceOf
  <2>2. in' \in [Readers -> [Inputs -> {Nil, Packed} \cup Coders]]
    BY <2>1 DEF Made, Inv, TypeOK
  <2>3. built' \in [Readers -> 0 .. Len(f.coder)]
    BY <1>2 DEF Made, Inv, TypeOK
  <2>4. node' \in [Readers -> [Coders -> [st : {"nil", "open"}, dec : Decoders \cup {NoDecoder}]]]
    BY <1>2 DEF Made, Inv, TypeOK
  <2>5. shared' \subseteq Decoders /\ phase' \in [Readers -> {"new", "building", "open", "closed", "failed", "panic"}]
    BY <1>1 DEF Inv, TypeOK
  <2> QED BY <2>2, <2>3, <2>4, <2>5, <1>1, FolderKept DEF TypeOK
<1>7. Wired'
  <2> SUFFICES ASSUME NEW q \in Readers, phase'[q] \in {"building", "open", "closed"}
               PROVE  WiredReader(q)'
    BY DEF Wired
  <2>1. CASE q # r
    BY <2>1, <1>1, <1>3, <1>4, WiredReaderKept DEF Inv, Wired
  <2>2. CASE q = r
    <3>1. WiredReader(r)
      BY <1>2 DEF Inv, Wired
    <3>2. ASSUME NEW i \in Coders, i < b + 1
          PROVE  Coder(i).out = 1
      <4>1. i < b \/ i = b
        BY <3>2, <1>1, <1>2, FolderType DEF Coders
      <4> QED BY <4>1, <3>1, <1>2 DEF WiredReader
    <3>3. ASSUME NEW i \in Coders, NEW j \in InputsOf(i)
          PROVE  /\ PackedAt(j) => in'[r][j] = Packed
                 /\ ~PackedAt(j) /\ i < b + 1 =>
                       InPairs(j) # {} /\ in'[r][j] = BoundOut(j) /\ BoundOut(j) \in 0 .. i - 1
                 /\ ~PackedAt(j) /\ i >= b + 1 => in'[r][j] = Nil
      <4>1. j \in Inputs
        BY <1>1, InputsDivided
      <4>2. CASE i = b
        <5>1. in'[r][j] = Source(r, j)
          BY <4>1, <4>2, <1>4
        <5>2. ~(b >= b + 1)
          BY <1>2
        <5> QED BY <4>2, <5>1, <5>2, SourceOf
      <4>3. CASE i # b
        <5>1. j \notin InputsOf(b)
          BY <4>3, <1>1, <1>2, InputsDivided
        <5>2. in'[r][j] = in[r][j]
          BY <4>1, <5>1, <1>4
        <5>3. (i < b + 1 => i < b) /\ (i >= b + 1 => i >= b)
          BY <4>3, <1>1, <1>2, FolderType DEF Coders
        <5> QED BY <3>1, <5>2, <5>3 DEF WiredReader
      <4> QED BY <4>2, <4>3
    <3> QED BY <2>2, <3>2, <3>3, <1>1, <1>3, FolderKept DEF WiredReader
  <2> QED BY <2>1, <2>2
<1>8. Accepted' /\ NewUnbuilt'
  <2>1. \A q \in Readers : phase[q] \in {"new", "open", "closed"} => built'[q] = built[q]
    BY <1>2, <1>3
  <2> QED BY <2>1, <1>1, FolderKept DEF Inv, Accepted, NewUnbuilt
<1>9. PooledHave'
  BY <1>1, <1>2, <1>5, FolderKept DEF Inv, PooledHave
<1>10. DecodersExclusive'
  <2> SUFFICES ASSUME NEW q \in Readers, NEW p \in Readers, NEW i \in Coders, NEW k \in Coders,
                      node'[q][i].dec # NoDecoder
               PROVE  /\ node'[q][i].dec \notin shared'
                      /\ node'[q][i].dec = node'[p][k].dec => q = p /\ i = k
    BY <1>1, FolderKept DEF DecodersExclusive
  <2>1. node'[r][b].dec = d
    BY <1>5
  <2>2. CASE q = r /\ i = b
    BY <2>1, <2>2, <1>5
  <2>3. CASE ~(q = r /\ i = b)
    <3>1. node'[q][i] = node[q][i]
      BY <2>3, <1>5
    <3>2. node[q][i].dec \notin shared
      BY <3>1 DEF Inv, DecodersExclusive
    <3>3. CASE p = r /\ k = b
      BY <3>1, <3>2, <3>3, <2>1
    <3>4. CASE ~(p = r /\ k = b)
      BY <3>1, <3>2, <3>4, <1>5 DEF Inv, DecodersExclusive
    <3> QED BY <3>3, <3>4
  <2> QED BY <2>2, <2>3
<1> QED BY <1>1, <1>6, <1>7, <1>8, <1>9, <1>10 DEF Inv

\* The constructors: nobody has a decoder that is in the pool, nor a new one.
LEMMA MakeInv ==
    ASSUME Inv, NEW r \in Readers, MakePlain(r) \/ MakeReset(r) \/ MakeNew(r)
    PROVE  Inv'
<1>1. Connects(r)
  BY DEF MakePlain, MakeReset, MakeNew
<1>2. CASE MakePlain(r)
  <2>1. Made(r, NoDecoder) /\ shared' = shared /\ Coder(built[r]).method # "pooled"
    BY <1>2 DEF MakePlain
  <2>2. NoDecoder \notin shared
    BY NoDecoderAssumption DEF Inv, TypeOK
  <2> QED BY <1>1, <2>1, <2>2, MadeInv
<1>3. CASE MakeReset(r)
  <2>1. PICK d \in shared : Made(r, d) /\ shared' = shared \ {d}
    BY <1>3 DEF MakeReset, Taken
  <2>2. d \in Decoders /\ d # NoDecoder /\ Coder(built[r]).method = "pooled"
    BY <1>3, NoDecoderAssumption DEF Inv, TypeOK, MakeReset
  <2>3. \A q \in Readers : \A k \in Coders : node[q][k].dec # d
    BY <2>2 DEF Inv, DecodersExclusive
  <2> QED BY <1>1, <2>1, <2>2, <2>3, MadeInv
<1>4. CASE MakeNew(r)
  <2>1. PICK d \in Decoders \ (shared \cup Held) : Made(r, d)
    BY <1>4 DEF MakeNew
  <2>2. /\ shared' = shared /\ d # NoDecoder /\ d \notin shared
        /\ Coder(built[r]).method = "pooled"
    BY <1>4, NoDecoderAssumption DEF MakeNew
  <2>3. \A q \in Readers : \A k \in Coders : node[q][k].dec # d
    BY <2>1, <2>2 DEF Held
  <2> QED BY <1>1, <2>1, <2>2, <2>3, MadeInv
<1> QED BY <1>2, <1>3, <1>4

\* A failure leaves the wiring of every reader alone.
LEMMA FailsInv ==
    ASSUME Inv, NEW r \in Readers, ConnectFails(r) \/ MakeFails(r) \/ ResetFails(r)
    PROVE  Inv'
<1>1. PICK s \in {"failed", "panic"} : phase' = [phase EXCEPT ![r] = s]
  BY DEF ConnectFails, MakeFails, ResetFails
<1>2. UNCHANGED <<f, built, in, node>> /\ shared' \subseteq shared
  BY DEF ConnectFails, MakeFails, ResetFails, Taken
<1> QED BY <1>1, <1>2, GivesUp

\* A finished reader has all its coders wired.
LEMMA FinishInv ==
    ASSUME Inv, NEW r \in Readers, Finish(r)
    PROVE  Inv'
<1>1. f' = f /\ built' = built /\ in' = in /\ node' = node /\ shared' = shared
      /\ phase[r] = "building" /\ built[r] = Len(f.coder)
  BY DEF Finish
<1>2. CASE Cardinality(Unbound) = 1
  <2>1. phase' = [phase EXCEPT ![r] = "open"]
    BY <1>2 DEF Finish
  <2>2. TypeOK'
    BY <1>1, <2>1, FolderKept DEF Inv, TypeOK
  <2>3. \A q \in Readers : /\ phase'[q] \in {"building", "open", "closed"} =>
                                phase[q] \in {"building", "open", "closed"}
                           /\ phase'[q] \in {"open", "closed"} =>
                                q = r \/ phase[q] \in {"open", "closed"}
                           /\ phase'[q] = "new" => phase[q] = "new"
    BY <1>1, <2>1 DEF Inv, TypeOK
  <2>4. Wired'
    BY <1>1, <2>3, WiredReaderKept DEF Inv, Wired
  <2>5. Accepted' /\ NewUnbuilt'
    BY <1>1, <1>2, <2>3, FolderKept DEF Inv, Accepted, NewUnbuilt
  <2> QED BY <1>1, <2>2, <2>4, <2>5, OwnersKept DEF Inv
<1>3. CASE Cardinality(Unbound) # 1
  <2>1. phase' = [phase EXCEPT ![r] = "failed"]
    BY <1>3 DEF Finish
  <2> QED BY <1>1, <2>1, GivesUp
<1> QED BY <1>2, <1>3

\* Close: what goes back to the pool is what its wrappers forget.
LEMMA CloseInv ==
    ASSUME Inv, NEW r \in Readers, Close(r)
    PROVE  Inv'
<1>1. f' = f /\ built' = built /\ in' = in /\ phase[r] = "open"
  BY DEF Close
<1>2. PICK bad \in SUBSET CanFail :
         \E ok \in {CloseOk(r, bad)} :
            \E released \in {Released(r, Called(r), ok)} :
               /\ node' = [node EXCEPT ![r] = [i \in Coders |->
                              IF i \in released THEN [st |-> "nil", dec |-> NoDecoder]
                              ELSE node[r][i]]]
               /\ shared' = shared \cup
                    {node[r][i].dec : i \in {k \in Called(r) :
                        Coder(k).method = "pooled" /\ node[r][k].st = "open" /\ ok[k]}}
               /\ phase' = [phase EXCEPT ![r] = IF ok[Root] THEN "closed" ELSE "open"]
  BY DEF Close
<1> DEFINE ok == CloseOk(r, bad)
           called == Called(r)
           released == Released(r, called, ok)
           back == {k \in called : Coder(k).method = "pooled" /\ node[r][k].st = "open" /\ ok[k]}
<1>3. /\ node' = [node EXCEPT ![r] = [i \in Coders |->
                    IF i \in released THEN [st |-> "nil", dec |-> NoDecoder] ELSE node[r][i]]]
      /\ shared' = shared \cup {node[r][i].dec : i \in back}
      /\ phase' = [phase EXCEPT ![r] = IF ok[Root] THEN "closed" ELSE "open"]
  BY <1>2
<1>4. back \subseteq released
  BY DEF Released
<1>5. called \subseteq Coders
  BY DEF Called
<1> HIDE DEF ok, called, released, back
<1>6. back \subseteq Coders
  BY <1>5 DEF back
<1>7. \A i \in back : node[r][i].dec \in Decoders
  <2>1. \A i \in back : node[r][i].dec # NoDecoder
    BY <1>6 DEF back, Inv, PooledHave
  <2> QED BY <2>1, <1>6 DEF Inv, TypeOK
<1>8. /\ \A i \in Coders : node'[r][i] = IF i \in released THEN [st |-> "nil", dec |-> NoDecoder]
                                         ELSE node[r][i]
      /\ \A q \in Readers : q # r => node'[q] = node[q]
  BY <1>3 DEF Inv, TypeOK
<1>9. phase'[r] \in {"open", "closed"} /\ \A q \in Readers : q # r => phase'[q] = phase[q]
  BY <1>3 DEF Inv, TypeOK
<1>10. TypeOK'
  <2>1. phase' \in [Readers -> {"new", "building", "open", "closed", "failed", "panic"}]
    BY <1>3 DEF Inv, TypeOK
  <2>2. node' \in [Readers -> [Coders -> [st : {"nil", "open"}, dec : Decoders \cup {NoDecoder}]]]
    BY <1>3 DEF Inv, TypeOK
  <2>3. shared' \subseteq Decoders
    BY <1>3, <1>7 DEF Inv, TypeOK
  <2> QED BY <2>1, <2>2, <2>3, <1>1, FolderKept DEF Inv, TypeOK
<1>11. Wired'
  BY <1>1, <1>9, WiredReaderKept DEF Inv, Wired
<1>12. Accepted' /\ NewUnbuilt'
  BY <1>1, <1>9, FolderKept DEF Inv, Accepted, NewUnbuilt
<1>13. PooledHave'
  BY <1>1, <1>8, FolderKept DEF Inv, PooledHave
<1>14. \A q \in Readers : \A i \in Coders : node'[q][i].dec # NoDecoder =>
          node'[q][i] = node[q][i] /\ ~(q = r /\ i \in released)
  BY <1>8
<1>15. DecodersExclusive'
  <2> SUFFICES ASSUME NEW q \in Readers, NEW p \in Readers, NEW i \in Coders, NEW k \in Coders,
                      node'[q][i].dec # NoDecoder
               PROVE  /\ node'[q][i].dec \notin shared'
                      /\ node'[q][i].dec = node'[p][k].dec => q = p /\ i = k
    BY <1>1, FolderKept DEF DecodersExclusive
  <2>1. node'[q][i] = node[q][i] /\ ~(q = r /\ i \in back)
    BY <1>4, <1>14
  <2>2. node[q][i].dec \notin shared
    BY <2>1 DEF Inv, DecodersExclusive
  <2>3. \A m \in back : node[q][i].dec # node[r][m].dec
    BY <2>1, <1>6 DEF Inv, DecodersExclusive
  <2>4. node'[q][i].dec = node'[p][k].dec => node'[p][k] = node[p][k]
    BY <1>14
  <2>5. node'[q][i].dec = node'[p][k].dec => q = p /\ i = k
    BY <2>1, <2>4 DEF Inv, DecodersExclusive
  <2> QED BY <2>1, <2>2, <2>3, <2>5, <1>3
<1> QED BY <1>1, <1>10, <1>11, <1>12, <1>13, <1>15 DEF Inv

-----------------------------------------------------------------------------
(***************************************************************************)
(* Close.  In an accepted tree whose wrappers are all open, the Close of   *)
(* the last coder reaches every coder, because each other coder's output   *)
(* is read by a later coder, and it succeeds only where the Close of all   *)
(* the inputs did.                                                         *)
(***************************************************************************)

\* An open reader of an accepted folder with all its wrappers.
Whole(r) ==
    /\ phase[r] = "open" /\ PackedCounted
    /\ \A i \in Coders : node[r][i].st = "open"

\* What holds of the last coder, and of a coder if it holds of a later one that
\* reads it, holds of all coders.
LEMMA TreeInduction ==
    ASSUME Inv, NEW r \in Readers, Whole(r), NEW S,
           Root \in Coders => Root \in S,
           \A i \in Coders : \A k \in Coders : \A j \in InputsOf(k) :
              k > i /\ in[r][j] = i /\ k \in S => i \in S
    PROVE  Coders \subseteq S
<1> DEFINE n == Len(f.coder)
<1>1. f \in Folders /\ n \in Nat
  BY FolderType DEF Inv
<1>2. Root = n - 1
  BY TreeOf DEF Whole, Root
<1>3. ASSUME NEW i \in Coders, i # n - 1
      PROVE  \E k \in Coders : \E j \in InputsOf(k) : k > i /\ in[r][j] = i
  <2> DEFINE J == {j \in Inputs : in[r][j] = i}
  <2>1. Cardinality(J) = 1
    BY <1>3, TreeOf DEF Whole
  <2>2. J # {}
    BY <2>1, FS_EmptySet
  <2>3. PICK j \in Inputs : in[r][j] = i
    BY <2>2
  <2>4. PICK k \in Coders : j \in InputsOf(k)
    BY <1>1, <2>3, InputsDivided
  <2>5. in[r][j] = Packed \/ in[r][j] \in 0 .. k - 1
    BY <2>4, TreeOf DEF Whole
  <2>6. i \in Nat /\ k \in Nat
    BY <1>1 DEF Coders
  <2> QED BY <2>3, <2>4, <2>5, <2>6 DEF Packed
<1> DEFINE T == {m \in Nat : m < n /\ n - 1 - m \notin S}
<1>4. T = {}
  <2> SUFFICES ASSUME T # {} PROVE FALSE
    OBVIOUS
  <2>1. PICK m \in T : \A l \in T : m <= l
    BY SmallestOf
  <2>2. PICK i \in Coders : i = n - 1 - m /\ i \notin S
    BY <1>1, <2>1 DEF Coders
  <2>3. i # n - 1
    BY <1>2, <2>2
  <2>4. PICK k \in Coders : \E j \in InputsOf(k) : k > i /\ in[r][j] = i
    BY <1>3, <2>3
  <2>5. k \in Nat /\ k < n /\ m \in Nat /\ n - 1 - (n - 1 - k) = k
    BY <1>1, <2>1 DEF Coders
  <2>6. n - 1 - k \in Nat /\ n - 1 - k < m
    BY <1>1, <2>2, <2>4, <2>5
  <2>7. k \in S
    BY <2>1, <2>5, <2>6, <1>1
  <2> QED BY <2>2, <2>4, <2>7
<1> QED
  <2> SUFFICES ASSUME NEW i \in Coders, i \notin S PROVE FALSE
    OBVIOUS
  <2>1. i \in Nat /\ i < n /\ n - 1 - (n - 1 - i) = i
    BY <1>1 DEF Coders
  <2>2. n - 1 - i \in T
    BY <1>1, <2>1
  <2> QED BY <1>4, <2>2

\* Every coder's Close is called: the function that is TRUE everywhere solves the
\* recursion, and no other does.
LEMMA AllCalled ==
    ASSUME Inv, NEW r \in Readers, Whole(r)
    PROVE  Called(r) = Coders
<1> DEFINE Calls(g) == g = [i \in Coders |->
                             i = Root \/ \E k \in Consumers(r, i) : k > i /\ g[k] /\ Forwards(r, k)]
<1>1. \E g : Calls(g)
  <2> DEFINE S == {i \in Coders : i = Root \/ \E k \in Consumers(r, i) : k > i /\ Forwards(r, k)}
             g == [i \in Coders |-> TRUE]
  <2>1. \A k \in Coders : Forwards(r, k)
    BY DEF Whole, Forwards
  <2>2. Coders \subseteq S
    <3>1. Root \in Coders => Root \in S
      OBVIOUS
    <3>2. ASSUME NEW i \in Coders, NEW k \in Coders, NEW j \in InputsOf(k),
                 k > i, in[r][j] = i
          PROVE  i \in S
      <4>1. k \in Consumers(r, i)
        BY <3>2 DEF Consumers
      <4> QED BY <2>1, <3>2, <4>1
    <3> HIDE DEF S
    <3> QED BY <3>1, <3>2, TreeInduction
  <2>3. \A i \in Coders : \A k \in Consumers(r, i) : g[k] = TRUE
    BY DEF Consumers
  <2>4. Calls(g)
    BY <2>2, <2>3
  <2> QED BY <2>4
<1>2. PICK g : /\ g = CHOOSE called : Calls(called)
               /\ Calls(g)
  BY <1>1
<1>3. Called(r) = {i \in Coders : g[i]}
  BY <1>2 DEF Called
<1>4. \A i \in Coders : g[i] = (i = Root \/ \E k \in Consumers(r, i) : k > i /\ g[k] /\ Forwards(r, k))
  BY <1>2
<1> DEFINE S == {i \in Coders : g[i]}
<1>5. Coders \subseteq S
  <2>1. Root \in Coders => Root \in S
    BY <1>4
  <2>2. ASSUME NEW i \in Coders, NEW k \in Coders, NEW j \in InputsOf(k),
               k > i, in[r][j] = i, k \in S
        PROVE  i \in S
    <3>1. k \in Consumers(r, i) /\ Forwards(r, k) /\ g[k]
      BY <2>2 DEF Consumers, Whole, Forwards
    <3> QED BY <1>4, <2>2, <3>1
  <2> HIDE DEF S
  <2> QED BY <2>1, <2>2, TreeInduction
<1> QED BY <1>3, <1>5

\* A Close that succeeds at the last coder succeeded at every coder.  The coders
\* in a set that contains the inputs of its members and none that is refused solve
\* the recursion, so it has a solution.
LEMMA AllClosed ==
    ASSUME Inv, NEW r \in Readers, Whole(r), NEW bad, CloseOk(r, bad)[Root] = TRUE
    PROVE  \A i \in Coders : CloseOk(r, bad)[i] = TRUE
<1> DEFINE Inner(i) == {k \in Coders : \E j \in InputsOf(i) : in[r][j] = k}
           Fine(i) == Coder(i).method = "copy" \/ i \notin bad
           Body(g, i) ==
              LET inputs == \A j \in InputsOf(i) : in[r][j] \in Coders => g[in[r][j]] IN
              CASE Coder(i).method = "copy" -> inputs
                [] Coder(i).method # "copy" /\ node[r][i].st = "open" -> inputs /\ i \notin bad
                [] Coder(i).method = "ppmd" /\ node[r][i].st = "nil" -> TRUE
                [] OTHER -> FALSE
           Oks(g) == g = [i \in Coders |-> Body(g, i)]
<1>1. ASSUME NEW g, NEW i \in Coders
      PROVE  Body(g, i) = ((\A j \in InputsOf(i) : in[r][j] \in Coders => g[in[r][j]]) /\ Fine(i))
  <2>1. node[r][i].st = "open"
    BY DEF Whole
  <2>2. CASE Coder(i).method = "copy"
    BY <2>2
  <2>3. CASE Coder(i).method # "copy"
    BY <2>1, <2>3
  <2> QED BY <2>2, <2>3
<1>2. \E g : Oks(g)
  <2> DEFINE Shut(S) == \A i \in S : Fine(i) /\ \A j \in InputsOf(i) : in[r][j] \in Coders => in[r][j] \in S
             U == {i \in Coders : \E S \in SUBSET Coders : i \in S /\ Shut(S)}
             g == [i \in Coders |-> i \in U]
  <2>1. Shut(U)
    OBVIOUS
  <2>2. ASSUME NEW i \in Coders, Fine(i), \A j \in InputsOf(i) : in[r][j] \in Coders => in[r][j] \in U
        PROVE  i \in U
    <3>1. PICK S : S = U \cup {i}
      OBVIOUS
    <3>2. S \in SUBSET Coders /\ i \in S
      BY <3>1
    <3> HIDE DEF U, Fine
    <3>3. Shut(S)
      BY <2>1, <2>2, <3>1
    <3> HIDE DEF Shut
    <3> QED BY <3>2, <3>3 DEF U
  <2> HIDE DEF U
  <2>3. U \subseteq Coders
    BY DEF U
  <2>4. ASSUME NEW i \in Coders
        PROVE  (i \in U) = ((\A j \in InputsOf(i) : in[r][j] \in Coders => g[in[r][j]]) /\ Fine(i))
    <3>1. \A k \in Coders : g[k] = (k \in U)
      OBVIOUS
    <3>2. (\A j \in InputsOf(i) : in[r][j] \in Coders => g[in[r][j]]) <=>
             \A j \in InputsOf(i) : in[r][j] \in Coders => in[r][j] \in U
      BY <3>1
    <3> HIDE DEF g, Fine
    <3>3. i \in U => Fine(i) /\ \A j \in InputsOf(i) : in[r][j] \in Coders => in[r][j] \in U
      BY <2>1
    <3> QED BY <2>2, <3>2, <3>3
  <2>5. \A i \in Coders : (i \in U) = Body(g, i)
    BY <1>1, <2>4
  <2> HIDE DEF Body
  <2>6. Oks(g)
    BY <2>5
  <2> QED BY <2>6
<1>3. PICK g : /\ g = CHOOSE ok : Oks(ok)
               /\ Oks(g)
  BY <1>2
<1>4. CloseOk(r, bad) = g
  BY <1>3 DEF CloseOk
<1> HIDE DEF Body
<1>5. \A i \in Coders : g[i] = Body(g, i)
  BY <1>3
<1> DEFINE S == {i \in Coders : g[i] = TRUE}
<1>6. Coders \subseteq S
  <2>1. Root \in Coders => Root \in S
    BY <1>4
  <2>2. ASSUME NEW i \in Coders, NEW k \in Coders, NEW j \in InputsOf(k),
               k > i, in[r][j] = i, k \in S
        PROVE  i \in S
    <3>1. (\A l \in InputsOf(k) : in[r][l] \in Coders => g[in[r][l]]) /\ Fine(k)
      BY <1>1, <1>5, <2>2
    <3>2. g[i]
      BY <2>2, <3>1
    <3>3. g[i] \in BOOLEAN
      BY <1>1, <1>5
    <3> QED BY <3>2, <3>3
  <2> HIDE DEF S
  <2> QED BY <2>1, <2>2, TreeInduction
<1> QED BY <1>4, <1>6

-----------------------------------------------------------------------------
(* The theorems.                                                           *)

\* Every step of folderReader and Close keeps the invariant.
THEOREM Invariance == Spec => []Inv
<1>1. Inv /\ [Next]_vars => Inv'
  <2> SUFFICES ASSUME Inv, [Next]_vars PROVE Inv'
    OBVIOUS
  <2>1. ASSUME NEW r \in Readers, Start(r) PROVE Inv'
    BY <2>1, StartInv
  <2>2. ASSUME NEW r \in Readers, ConnectFails(r) \/ MakeFails(r) \/ ResetFails(r) PROVE Inv'
    BY <2>2, FailsInv
  <2>3. ASSUME NEW r \in Readers, MakePlain(r) \/ MakeReset(r) \/ MakeNew(r) PROVE Inv'
    BY <2>3, MakeInv
  <2>4. ASSUME NEW r \in Readers, Finish(r) PROVE Inv'
    BY <2>4, FinishInv
  <2>5. ASSUME NEW r \in Readers, Close(r) PROVE Inv'
    BY <2>5, CloseInv
  <2>6. CASE UNCHANGED vars
    <3>1. f' = f /\ phase' = phase /\ built' = built /\ in' = in /\ node' = node /\ shared' = shared
      BY <2>6 DEF vars
    <3>2. TypeOK' /\ Accepted' /\ NewUnbuilt'
      BY <3>1, FolderKept DEF Inv, TypeOK, Accepted, NewUnbuilt
    <3>3. Wired'
      BY <3>1, WiredReaderKept DEF Inv, Wired
    <3> QED BY <3>1, <3>2, <3>3, OwnersKept DEF Inv
  <2> QED BY <2>1, <2>2, <2>3, <2>4, <2>5, <2>6 DEF Next
<1> QED BY <1>1, InitInv, PTL DEF Spec

\* The state is well typed: a bind pair's index out of range never becomes a source.
THEOREM TypeCorrect == Spec => []TypeOK
<1>1. Inv => TypeOK
  BY DEF Inv
<1> QED BY <1>1, Invariance, PTL

\* A decoder of the shared pools has one owner, for any number of folder readers.
THEOREM DecodersHaveOneOwner == Spec => []DecodersExclusive
<1>1. Inv => DecodersExclusive
  BY DEF Inv
<1> QED BY <1>1, Invariance, PTL

\* Every folder that folderReader accepts, with its packed streams counted right,
\* is a tree that ends in the last coder.
THEOREM AcceptedAreTrees == Spec => []AcceptedIsTree
<1>1. Inv => AcceptedIsTree
  <2> SUFFICES ASSUME Inv, NEW r \in Readers, phase[r] \in {"open", "closed"}, PackedCounted
               PROVE  /\ Cardinality({j \in Inputs : in[r][j] = Packed}) = Len(f.packed)
                      /\ \A i \in Coders : \A j \in InputsOf(i) :
                            in[r][j] = Packed \/ in[r][j] \in 0 .. i - 1
                      /\ \A i \in Coders : Cardinality({j \in Inputs : in[r][j] = i}) =
                                             (IF i = Len(f.coder) - 1 THEN 0 ELSE 1)
                      /\ Root = Len(f.coder) - 1
    BY DEF AcceptedIsTree
  <2>1. Unbound = {Len(f.coder) - 1}
    BY TreeOf
  <2>2. Root = Len(f.coder) - 1
    BY <2>1 DEF Root
  <2> QED BY <2>2, TreeOf
<1> QED BY <1>1, Invariance, PTL

\* The folder reader's limit is the size its only file has: the unbound output is
\* the last coder's.
THEOREM FolderSizesAgree == Spec => []SizesAgree
<1>1. Inv => SizesAgree
  <2> SUFFICES ASSUME Inv, NEW r \in Readers, phase[r] \in {"open", "closed"}, PackedCounted
               PROVE  UnpackSize = FileSize
    BY DEF SizesAgree
  <2>1. Unbound = {Len(f.coder) - 1} /\ Len(f.coder) \in Nat
    BY TreeOf, FolderType DEF Inv
  <2>2. (CHOOSE o \in Unbound : \A q \in Unbound : q <= o) = Len(f.coder) - 1
    BY <2>1, SMTT(30)
  <2> QED BY <2>1, <2>2 DEF UnpackSize, FileSize
<1> QED BY <1>1, Invariance, PTL

\* The Close of a folder reader that succeeds closes every wrapper and puts every
\* pooled decoder back, whatever the tree of coders looks like.
THEOREM ClosesReleaseAll == Spec => CloseReleases
<1> DEFINE Releases ==
       \A r \in Readers :
          (/\ phase[r] = "open" /\ phase'[r] = "closed"
           /\ PackedCounted
           /\ \A i \in Coders : node[r][i].st = "open")
          => \A i \in Coders :
                /\ node'[r][i].st = "nil"
                /\ node[r][i].dec # NoDecoder => node[r][i].dec \in shared'
<1>1. Inv /\ Next => Releases
  <2> SUFFICES ASSUME Inv, NEW q \in Readers,
                      \/ Start(q) \/ ConnectFails(q)
                      \/ MakePlain(q) \/ MakeReset(q) \/ MakeNew(q) \/ MakeFails(q) \/ ResetFails(q)
                      \/ Finish(q) \/ Close(q),
                      NEW r \in Readers, phase[r] = "open", phase'[r] = "closed", Whole(r),
                      NEW c \in Coders
               PROVE  /\ node'[r][c].st = "nil"
                      /\ node[r][c].dec # NoDecoder => node[r][c].dec \in shared'
    BY DEF Next, Whole
  <2>1. Close(q)
    <3>1. phase \in [Readers -> {"new", "building", "open", "closed", "failed", "panic"}]
      BY DEF Inv, TypeOK
    <3>2. CASE Start(q) \/ ConnectFails(q) \/ MakeFails(q) \/ ResetFails(q) \/ Finish(q)
      <4>1. PICK s \in {"building", "open", "failed", "panic"} : phase' = [phase EXCEPT ![q] = s]
        BY <3>2 DEF Start, ConnectFails, MakeFails, ResetFails, Finish
      <4>2. phase'[q] = s /\ (q # r => phase'[r] = phase[r])
        BY <3>1, <4>1
      <4> QED BY <4>2
    <3>3. CASE MakePlain(q) \/ MakeReset(q) \/ MakeNew(q)
      <4>1. phase' = phase
        BY <3>3 DEF MakePlain, MakeReset, MakeNew, Made
      <4> QED BY <4>1
    <3> QED BY <3>2, <3>3
  <2>2. q = r
    BY <2>1 DEF Close, Inv, TypeOK
  <2>3. PICK bad \in SUBSET CanFail :
           \E ok \in {CloseOk(r, bad)} :
              \E released \in {Released(r, Called(r), ok)} :
                 /\ node' = [node EXCEPT ![r] = [i \in Coders |->
                                IF i \in released THEN [st |-> "nil", dec |-> NoDecoder]
                                ELSE node[r][i]]]
                 /\ shared' = shared \cup
                      {node[r][i].dec : i \in {k \in Called(r) :
                          Coder(k).method = "pooled" /\ node[r][k].st = "open" /\ ok[k]}}
                 /\ phase' = [phase EXCEPT ![r] = IF ok[Root] THEN "closed" ELSE "open"]
    <3>1. Close(r)
      BY <2>1, <2>2
    <3> QED BY <3>1 DEF Close
  <2>4. PICK ok : ok = CloseOk(r, bad)
    OBVIOUS
  <2>5. PICK released : released = Released(r, Called(r), ok)
    OBVIOUS
  <2>6. /\ node' = [node EXCEPT ![r] = [i \in Coders |->
                      IF i \in released THEN [st |-> "nil", dec |-> NoDecoder] ELSE node[r][i]]]
        /\ shared' = shared \cup
             {node[r][i].dec : i \in {k \in Called(r) :
                 Coder(k).method = "pooled" /\ node[r][k].st = "open" /\ ok[k]}}
        /\ phase' = [phase EXCEPT ![r] = IF ok[Root] THEN "closed" ELSE "open"]
    BY <2>3, <2>4, <2>5
  <2>7. Called(r) = Coders
    BY AllCalled
  <2>8. \A k \in Coders : ok[k]
    <3>1. ok[Root]
      BY <2>6 DEF Inv, TypeOK
    <3> QED BY <2>4, <3>1, AllClosed
  <2>9. c \in released
    BY <2>5, <2>7, <2>8 DEF Released, Whole
  <2>10. node'[r][c] = [st |-> "nil", dec |-> NoDecoder]
    BY <2>6, <2>9 DEF Inv, TypeOK
  <2>11. ASSUME node[r][c].dec # NoDecoder
         PROVE  node[r][c].dec \in shared'
    <3>1. Coder(c).method = "pooled" /\ node[r][c].st = "open"
      BY <2>11 DEF Inv, PooledHave, Whole
    <3> QED BY <2>6, <2>7, <2>8, <3>1
  <2> QED BY <2>10, <2>11
<1>2. UNCHANGED vars => Releases
  BY DEF vars
<1>3. Inv /\ [Next]_vars => [Releases]_vars
  BY <1>1, <1>2
<1> QED BY <1>3, Invariance, PTL DEF Spec, CloseReleases
=============================================================================
