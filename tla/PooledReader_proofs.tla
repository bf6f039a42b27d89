------------------------ MODULE PooledReader_proofs ------------------------
(***************************************************************************)
(* The pool's safety properties, and that pooled reading implements        *)
(* FileStreams, for every set of handles, every layout of the folder,      *)
(* every pool size and every number of folder readers.                     *)
(***************************************************************************)
EXTENDS PooledReader, SequenceLemmas

\* A handle inside Open .. Close has a file, and one that holds a reader has it.
HandlesBound ==
    \A h \in Handles : /\ pc[h] # "idle" => file[h] \in Files
                       /\ Holds(h) => rc[h] \in Rcs

\* The inductive invariant.  PoolIndexesPositions is what makes the reader Get
\* returns stand at its key; ExclusiveReaders is what keeps it there.
Inv == /\ TypeOK
       /\ HandlesBound
       /\ PoolIndexesPositions
       /\ ExclusiveReaders
       /\ ReaderAtCursor
       /\ NeverSeeksBackwards

USE DEF Holds

-----------------------------------------------------------------------------
\* What PushFront makes of the list: the new entry, then the old list.
LEMMA PushedProperties ==
    ASSUME NEW off \in Nat, NEW r \in Rcs, pool \in Seq(Entry)
    PROVE  /\ Pushed(off, r) \in Seq(Entry)
           /\ Len(Pushed(off, r)) = Len(pool) + 1
           /\ Pushed(off, r)[1] = [key |-> off, rc |-> r]
           /\ \A j \in 2 .. Len(pool) + 1 : Pushed(off, r)[j] = pool[j - 1]
<1>1. Len(pool) \in Nat
  BY LenProperties
<1>2. [key |-> off, rc |-> r] \in Entry
  BY DEF Entry
<1> QED BY <1>1, <1>2, SMT DEF Pushed

\* The entries of the pool, one by one.
LEMMA PoolEntries ==
    ASSUME Inv
    PROVE  /\ Len(pool) \in Nat
           /\ \A i \in 1 .. Len(pool) :
                 pool[i] \in Entry /\ pool[i].key \in Nat /\ pool[i].rc \in Rcs
<1>1. pool \in Seq(Entry)
  BY DEF Inv, TypeOK
<1>2. Len(pool) \in Nat /\ \A i \in 1 .. Len(pool) : pool[i] \in Entry
  BY <1>1, LenProperties
<1> QED BY <1>2 DEF Entry

\* The pool's size is a number, finite folder or not.
LEMMA PoolSizeNat == PoolSize \in Nat
BY SizesAssumption DEF PoolSize

-----------------------------------------------------------------------------
\* The initial state satisfies the invariant.
LEMMA InitInv == Init => Inv
<1> SUFFICES ASSUME Init PROVE Inv
  OBVIOUS
<1> USE HandlesAssumption, FilesAssumption, SizesAssumption, PoolSizeNat DEF Init, Return
<1>1. TypeOK
  BY DEF TypeOK
<1>2. HandlesBound
  BY DEF HandlesBound
<1>3. PoolIndexesPositions
  BY DEF PoolIndexesPositions
<1>4. ExclusiveReaders /\ ReaderAtCursor /\ NeverSeeksBackwards
  BY DEF ExclusiveReaders, ReaderAtCursor, NeverSeeksBackwards
<1> QED BY <1>1, <1>2, <1>3, <1>4 DEF Inv

-----------------------------------------------------------------------------
(* One lemma per action: it preserves the invariant.                       *)

\* What a handle leaves behind when its call ends it.
LEMMA HandleGoneType ==
    ASSUME Inv, NEW h \in Handles, HandleGone(h)
    PROVE  /\ pc' \in [Handles -> {"idle", "new", "seek", "open"}]
           /\ file' \in [Handles -> Files \cup {NoFile}]
           /\ rc' \in [Handles -> Rcs \cup {NoRc}]
           /\ n' \in [Handles -> Nat]
           /\ pc'[h] = "idle"
           /\ \A g \in Handles : g # h => /\ pc'[g] = pc[g] /\ file'[g] = file[g]
                                          /\ rc'[g] = rc[g] /\ n'[g] = n[g]
BY DEF Inv, TypeOK, HandleGone

\* The handles that still hold a reader are others, and as they were.
LEMMA HandleGoneHolds ==
    ASSUME Inv, NEW h \in Handles, HandleGone(h), NEW g \in Handles, pc'[g] # "idle"
    PROVE  /\ g # h /\ pc'[g] = pc[g] /\ file'[g] = file[g]
           /\ rc'[g] = rc[g] /\ n'[g] = n[g]
BY HandleGoneType

\* Closing the reader of a handle that ends, or one of the pool's, and dropping
\* entries of the pool leaves the other handles their readers.
LEMMA HandleGoneExclusive ==
    ASSUME Inv, NEW h \in Handles, HandleGone(h),
           \A g \in Handles : g # h /\ Holds(g) => st'[rc[g]] = st[rc[g]],
           \A j \in 1 .. Len(pool') : \A g \in Handles :
               g # h /\ Holds(g) => pool'[j].rc # rc[g]
    PROVE  ExclusiveReaders'
<1> SUFFICES ASSUME NEW g \in Handles, Holds(g)'
             PROVE  /\ st'[rc'[g]] = "open"
                    /\ \A k \in Handles : Holds(k)' /\ k # g => rc'[k] # rc'[g]
                    /\ \A j \in 1 .. Len(pool') : pool'[j].rc # rc'[g]
  BY DEF ExclusiveReaders
<1>1. g # h /\ Holds(g) /\ rc'[g] = rc[g]
  BY HandleGoneHolds
<1>2. \A k \in Handles : Holds(k)' => Holds(k) /\ rc'[k] = rc[k]
  BY HandleGoneHolds
<1>3. st'[rc'[g]] = "open"
  BY <1>1 DEF Inv, ExclusiveReaders
<1>4. \A k \in Handles : Holds(k)' /\ k # g => rc'[k] # rc'[g]
  BY <1>1, <1>2 DEF Inv, ExclusiveReaders
<1> QED BY <1>1, <1>3, <1>4

\* Likewise for where the other handles' readers are.
LEMMA HandleGoneCursors ==
    ASSUME Inv, NEW h \in Handles, HandleGone(h),
           \A g \in Handles : g # h /\ Holds(g) => pos'[rc[g]] = pos[rc[g]],
           ret'.res # "errSeekBackwards"
    PROVE  ReaderAtCursor' /\ NeverSeeksBackwards'
<1>1. ReaderAtCursor'
  <2> SUFFICES ASSUME NEW g \in Handles, pc'[g] = "open"
               PROVE  pos'[rc'[g]] + n'[g] = Offset[file'[g]] + Size[file'[g]]
    BY DEF ReaderAtCursor
  <2>1. /\ g # h /\ pc[g] = "open" /\ file'[g] = file[g]
        /\ rc'[g] = rc[g] /\ n'[g] = n[g]
    BY HandleGoneHolds
  <2> QED BY <2>1 DEF Inv, ReaderAtCursor
<1>2. NeverSeeksBackwards'
  <2> SUFFICES ASSUME NEW g \in Handles, pc'[g] = "seek"
               PROVE  pos'[rc'[g]] <= Offset[file'[g]]
    BY DEF NeverSeeksBackwards
  <2>1. g # h /\ pc[g] = "seek" /\ file'[g] = file[g] /\ rc'[g] = rc[g]
    BY HandleGoneHolds
  <2> QED BY <2>1 DEF Inv, NeverSeeksBackwards
<1> QED BY <1>1, <1>2

\* pool.Get hands the closest reader over to the handle.
LEMMA OpenHitInv ==
    ASSUME Inv, NEW h \in Handles, NEW f \in Files, OpenHit(h, f)
    PROVE  Inv'
<1> USE FilesAssumption, SizesAssumption, PoolSizeNat
<1>1. PICK i \in 1 .. Len(pool) :
          /\ IsClosest(i, Offset[f])
          /\ rc' = [rc EXCEPT ![h] = pool[i].rc]
          /\ pool' = RemoveAt(pool, i)
  BY DEF OpenHit
<1>2. /\ Len(pool) \in Nat
      /\ \A j \in 1 .. Len(pool) :
            pool[j] \in Entry /\ pool[j].key \in Nat /\ pool[j].rc \in Rcs
  BY PoolEntries
<1>3. /\ pool' \in Seq(Entry)
      /\ Len(pool') = Len(pool) - 1
      /\ \A j \in 1 .. Len(pool) - 1 : pool'[j] = IF j < i THEN pool[j] ELSE pool[j + 1]
  <2>1. pool \in Seq(Entry)
    BY DEF Inv, TypeOK
  <2>2. /\ RemoveAt(pool, i) \in Seq(Entry)
        /\ Len(RemoveAt(pool, i)) = Len(pool) - 1
        /\ \A j \in 1 .. Len(pool) - 1 :
              RemoveAt(pool, i)[j] = IF j < i THEN pool[j] ELSE pool[j + 1]
    BY ONLY <2>1, RemoveAtProperties, i \in 1 .. Len(pool)
  <2> QED BY ONLY <1>1, <2>2
<1>4. ASSUME NEW j \in 1 .. Len(pool')
      PROVE  \E m \in 1 .. Len(pool) :
                m = (IF j < i THEN j ELSE j + 1) /\ m # i /\ pool'[j] = pool[m]
  <2>1. j \in Nat /\ i \in Nat /\ j \in 1 .. Len(pool) - 1
    BY <1>2, <1>3
  <2>2. CASE j < i
    <3>1. j \in 1 .. Len(pool) /\ j # i
      BY <1>2, <2>1, <2>2
    <3>2. pool'[j] = pool[j]
      BY <1>3, <2>1, <2>2
    <3> QED BY <2>2, <3>1, <3>2
  <2>3. CASE ~(j < i)
    <3>1. j + 1 \in 1 .. Len(pool) /\ j + 1 # i
      BY <1>2, <2>1, <2>3
    <3>2. pool'[j] = pool[j + 1]
      BY <1>3, <2>1, <2>3
    <3> QED BY <2>3, <3>1, <3>2
  <2> QED BY <2>2, <2>3
<1>5. ASSUME NEW j \in 1 .. Len(pool), j # i
      PROVE  pool[j].rc # pool[i].rc
  <2>1. pool[j].key = pos[pool[j].rc] /\ pool[i].key = pos[pool[i].rc]
    BY DEF Inv, PoolIndexesPositions
  <2>2. pool[j].key # pool[i].key
    BY <1>5 DEF Inv, PoolIndexesPositions
  <2> QED BY ONLY <2>1, <2>2
<1>6. TypeOK'
  BY <1>1, <1>2, <1>3 DEF Inv, TypeOK, OpenHit
<1>7. HandlesBound'
  BY <1>1, <1>2 DEF Inv, TypeOK, HandlesBound, OpenHit
<1>8. PoolIndexesPositions'
  <2>1. \A j \in 1 .. Len(pool') :
          /\ st[pool'[j].rc] = "open"
          /\ pool'[j].key = pos[pool'[j].rc]
          /\ pool'[j].key < FolderSize
    BY <1>4 DEF Inv, PoolIndexesPositions
  <2>2. ASSUME NEW j \in 1 .. Len(pool'), NEW l \in 1 .. Len(pool'), j # l
        PROVE  pool'[j].key # pool'[l].key
    <3>1. PICK a \in 1 .. Len(pool) :
              a = (IF j < i THEN j ELSE j + 1) /\ pool'[j] = pool[a]
      BY <1>4
    <3>2. PICK b \in 1 .. Len(pool) :
              b = (IF l < i THEN l ELSE l + 1) /\ pool'[l] = pool[b]
      BY <1>4
    <3>3. j \in Nat /\ l \in Nat /\ i \in Nat
      BY <1>2, <1>3
    <3>4. a # b
      BY <2>2, <3>1, <3>2, <3>3
    <3>5. pool[a].key # pool[b].key
      BY <3>4 DEF Inv, PoolIndexesPositions
    <3> QED BY <3>1, <3>2, <3>5
  <2> QED BY <1>2, <1>3, <2>1, <2>2 DEF Inv, PoolIndexesPositions, OpenHit
<1>9. ExclusiveReaders'
  <2> SUFFICES ASSUME NEW g \in Handles, Holds(g)'
               PROVE  /\ st'[rc'[g]] = "open"
                      /\ \A k \in Handles : Holds(k)' /\ k # g => rc'[k] # rc'[g]
                      /\ \A j \in 1 .. Len(pool') : pool'[j].rc # rc'[g]
    BY DEF ExclusiveReaders
  <2>1. rc'[h] = pool[i].rc /\ pc'[h] = "seek" /\ st' = st
    BY <1>1 DEF Inv, TypeOK, OpenHit
  <2>2. \A k \in Handles : k # h => rc'[k] = rc[k] /\ pc'[k] = pc[k]
    BY <1>1 DEF Inv, TypeOK, OpenHit
  <2>3. st[pool[i].rc] = "open"
    BY DEF Inv, PoolIndexesPositions
  <2>4. \A k \in Handles : k # h /\ Holds(k)' => rc'[k] # pool[i].rc /\ st[rc'[k]] = "open"
    BY <2>2 DEF Inv, ExclusiveReaders
  <2>5. \A j \in 1 .. Len(pool') : pool'[j].rc # rc'[g]
    <3>1. CASE g = h
      BY <1>4, <1>5, <2>1, <3>1
    <3>2. CASE g # h
      <4>1. \A m \in 1 .. Len(pool) : pool[m].rc # rc'[g]
        BY <2>2, <3>2 DEF Inv, ExclusiveReaders
      <4> QED BY <1>4, <4>1
    <3> QED BY <3>1, <3>2
  <2>6. \A k \in Handles : Holds(k)' /\ k # g => rc'[k] # rc'[g]
    BY <2>1, <2>2, <2>4 DEF Inv, ExclusiveReaders
  <2> QED BY <2>1, <2>3, <2>4, <2>5, <2>6
<1>10. ReaderAtCursor'
  BY <1>1 DEF Inv, TypeOK, ReaderAtCursor, OpenHit
<1>11. NeverSeeksBackwards'
  <2>1. pos[pool[i].rc] <= Offset[f]
    BY <1>1 DEF Inv, PoolIndexesPositions, IsClosest, Candidates
  <2> QED BY <1>1, <2>1 DEF Inv, TypeOK, NeverSeeksBackwards, OpenHit
<1> QED BY <1>6, <1>7, <1>8, <1>9, <1>10, <1>11 DEF Inv

\* A miss touches only the handle.
LEMMA OpenMissInv ==
    ASSUME Inv, NEW h \in Handles, NEW f \in Files, OpenMiss(h, f)
    PROVE  Inv'
<1>1. TypeOK' /\ HandlesBound'
  BY DEF Inv, TypeOK, HandlesBound, OpenMiss
<1>2. PoolIndexesPositions'
  BY DEF Inv, PoolIndexesPositions, OpenMiss
<1>3. ExclusiveReaders'
  BY DEF Inv, TypeOK, ExclusiveReaders, OpenMiss
<1>4. ReaderAtCursor' /\ NeverSeeksBackwards'
  BY DEF Inv, TypeOK, ReaderAtCursor, NeverSeeksBackwards, OpenMiss
<1> QED BY <1>1, <1>2, <1>3, <1>4 DEF Inv

\* A new reader is nobody else's.
LEMMA NewFolderReaderInv ==
    ASSUME Inv, NEW h \in Handles, NewFolderReader(h)
    PROVE  Inv'
<1> USE FilesAssumption, SizesAssumption
<1>1. PICK r \in Rcs : /\ st[r] = "none"
                       /\ st' = [st EXCEPT ![r] = "open"]
                       /\ pos' = [pos EXCEPT ![r] = 0]
                       /\ rc' = [rc EXCEPT ![h] = r]
  BY DEF NewFolderReader
<1>2. \A i \in 1 .. Len(pool) : pool[i].rc \in Rcs /\ pool[i].rc # r
  BY <1>1, PoolEntries DEF Inv, PoolIndexesPositions
<1>3. \A g \in Handles : Holds(g) => rc[g] \in Rcs /\ rc[g] # r
  BY <1>1 DEF Inv, ExclusiveReaders, HandlesBound
<1>4. TypeOK' /\ HandlesBound'
  BY <1>1 DEF Inv, TypeOK, HandlesBound, NewFolderReader
<1>5. PoolIndexesPositions'
  BY <1>1, <1>2 DEF Inv, TypeOK, PoolIndexesPositions, NewFolderReader
<1>6. ExclusiveReaders'
  <2>1. pc'[h] = "seek" /\ rc'[h] = r /\ st'[r] = "open" /\ pool' = pool
    BY <1>1 DEF Inv, TypeOK, NewFolderReader
  <2>2. \A g \in Handles : g # h => pc'[g] = pc[g] /\ rc'[g] = rc[g]
    BY <1>1 DEF Inv, TypeOK, NewFolderReader
  <2>3. ASSUME NEW g \in Handles, g # h, Holds(g)'
        PROVE  rc'[g] # r /\ st'[rc'[g]] = "open"
    <3>1. Holds(g) /\ rc'[g] = rc[g]
      BY <2>2, <2>3
    <3>2. rc[g] \in Rcs /\ rc[g] # r
      BY <1>3, <3>1
    <3>3. st[rc[g]] = "open"
      BY <3>1 DEF Inv, ExclusiveReaders
    <3>4. st'[rc[g]] = st[rc[g]]
      BY <1>1, <3>2 DEF Inv, TypeOK
    <3> QED BY <3>1, <3>2, <3>3, <3>4
  <2> SUFFICES ASSUME NEW g \in Handles, Holds(g)'
               PROVE  /\ st'[rc'[g]] = "open"
                      /\ \A k \in Handles : Holds(k)' /\ k # g => rc'[k] # rc'[g]
                      /\ \A i \in 1 .. Len(pool') : pool'[i].rc # rc'[g]
    BY DEF ExclusiveReaders
  <2>4. CASE g = h
    BY ONLY <1>2, <2>1, <2>3, <2>4
  <2>5. CASE g # h
    <3>1. Holds(g) /\ rc'[g] = rc[g]
      BY <2>2, <2>5
    <3>2. \A i \in 1 .. Len(pool) : pool[i].rc # rc[g]
      BY <3>1 DEF Inv, ExclusiveReaders
    <3>3. \A k \in Handles : Holds(k) /\ k # g => rc[k] # rc[g]
      BY <3>1 DEF Inv, ExclusiveReaders
    <3>4. \A k \in Handles : Holds(k)' /\ k # g => rc'[k] # rc'[g]
      BY <2>1, <2>2, <2>3, <2>5, <3>1, <3>3
    <3> QED BY <2>1, <2>3, <2>5, <3>1, <3>2, <3>4
  <2> QED BY <2>4, <2>5
<1>7. ReaderAtCursor'
  BY <1>1, <1>3 DEF Inv, TypeOK, ReaderAtCursor, NewFolderReader
<1>8. NeverSeeksBackwards'
  <2>1. \A g \in Handles : pc'[g] = "seek" => pos'[rc'[g]] <= Offset[file'[g]]
    <3> SUFFICES ASSUME NEW g \in Handles, pc'[g] = "seek"
                 PROVE  pos'[rc'[g]] <= Offset[file'[g]]
      OBVIOUS
    <3>1. CASE g = h
      BY <1>1, <3>1 DEF Inv, TypeOK, HandlesBound, NewFolderReader
    <3>2. CASE g # h
      BY <1>1, <1>3, <3>2 DEF Inv, TypeOK, NeverSeeksBackwards, NewFolderReader
    <3> QED BY <3>1, <3>2
  <2> QED BY <2>1 DEF Inv, NeverSeeksBackwards, NewFolderReader
<1> QED BY <1>4, <1>5, <1>6, <1>7, <1>8 DEF Inv

\* A failed construction leaves only the handle.
LEMMA NewFolderReaderFailsInv ==
    ASSUME Inv, NEW h \in Handles, NewFolderReaderFails(h)
    PROVE  Inv'
<1>1. HandleGone(h) /\ pool' = pool /\ st' = st /\ pos' = pos
  BY DEF NewFolderReaderFails
<1>2. TypeOK' /\ HandlesBound'
  BY <1>1, HandleGoneType DEF Inv, TypeOK, HandlesBound, NewFolderReaderFails, Return
<1>3. PoolIndexesPositions'
  BY <1>1 DEF Inv, PoolIndexesPositions
<1>4. ExclusiveReaders'
  BY <1>1, HandleGoneExclusive DEF Inv, ExclusiveReaders
<1>5. ReaderAtCursor' /\ NeverSeeksBackwards'
  BY <1>1, HandleGoneCursors DEF NewFolderReaderFails, Return
<1> QED BY <1>2, <1>3, <1>4, <1>5 DEF Inv

\* Moving a reader one handle holds, and nothing else of the pool, disturbs no
\* pooled reader and no reader of another handle.
LEMMA HeldReaderAlone ==
    ASSUME Inv, NEW h \in Handles, Holds(h)
    PROVE  /\ rc[h] \in Rcs
           /\ \A i \in 1 .. Len(pool) : pool[i].rc \in Rcs /\ pool[i].rc # rc[h]
           /\ \A g \in Handles : Holds(g) /\ g # h => rc[g] \in Rcs /\ rc[g] # rc[h]
BY PoolEntries DEF Inv, HandlesBound, ExclusiveReaders

\* Seeking forward puts the reader at the file's first byte.
LEMMA SeekOKInv ==
    ASSUME Inv, NEW h \in Handles, SeekOK(h)
    PROVE  Inv'
<1> USE FilesAssumption, SizesAssumption
<1>1. Holds(h) /\ file[h] \in Files /\ pool' = pool /\ st' = st /\ file' = file /\ rc' = rc
  BY DEF SeekOK, Inv, HandlesBound
<1>2. /\ rc[h] \in Rcs
      /\ \A i \in 1 .. Len(pool) : pool[i].rc \in Rcs /\ pool[i].rc # rc[h]
      /\ \A g \in Handles : Holds(g) /\ g # h => rc[g] \in Rcs /\ rc[g] # rc[h]
  BY <1>1, HeldReaderAlone
<1>3. Offset[file[h]] \in 0 .. FolderSize /\ Size[file[h]] \in Nat
  BY <1>1 DEF SeekOK
<1>4. /\ pos'[rc[h]] = Offset[file[h]] /\ n'[h] = Size[file[h]] /\ pc'[h] = "open"
      /\ \A r \in Rcs : r # rc[h] => pos'[r] = pos[r]
      /\ \A g \in Handles : g # h => pc'[g] = pc[g] /\ n'[g] = n[g]
  BY <1>2 DEF Inv, TypeOK, SeekOK
<1>5. TypeOK'
  BY <1>1, <1>2, <1>3 DEF Inv, TypeOK, SeekOK, Return
<1>6. HandlesBound'
  BY <1>1, <1>4 DEF Inv, HandlesBound
<1>7. PoolIndexesPositions'
  BY <1>1, <1>2, <1>4 DEF Inv, PoolIndexesPositions
<1>8. ExclusiveReaders'
  BY <1>1, <1>2, <1>4 DEF Inv, ExclusiveReaders
<1>9. ReaderAtCursor'
  BY <1>1, <1>2, <1>3, <1>4 DEF Inv, ReaderAtCursor
<1>10. NeverSeeksBackwards'
  BY <1>1, <1>2, <1>4 DEF Inv, NeverSeeksBackwards, SeekOK, Return
<1> QED BY <1>5, <1>6, <1>7, <1>8, <1>9, <1>10 DEF Inv

\* A failed Seek moves at most the reader it drops; that it is never the
\* backwards one follows from the invariant.
LEMMA SeekFailsInv ==
    ASSUME Inv, NEW h \in Handles, SeekFails(h)
    PROVE  Inv'
<1> USE FilesAssumption, SizesAssumption
<1>1. Holds(h) /\ file[h] \in Files /\ pool' = pool /\ st' = st /\ HandleGone(h)
  BY DEF SeekFails, Inv, HandlesBound
<1>2. /\ rc[h] \in Rcs
      /\ \A i \in 1 .. Len(pool) : pool[i].rc \in Rcs /\ pool[i].rc # rc[h]
      /\ \A g \in Handles : Holds(g) /\ g # h => rc[g] \in Rcs /\ rc[g] # rc[h]
  BY <1>1, HeldReaderAlone
<1>3. pos[rc[h]] \in 0 .. FolderSize /\ Offset[file[h]] \in Nat
      /\ pos[rc[h]] <= Offset[file[h]]
  BY <1>1, <1>2 DEF Inv, TypeOK, NeverSeeksBackwards, SeekFails
<1>4. /\ ret' = Return(h, "err", 0, 0)
      /\ pos' \in [Rcs -> 0 .. FolderSize]
      /\ \A r \in Rcs : r # rc[h] => pos'[r] = pos[r]
  <2>1. ~SeekBackwards(h)
    BY <1>3 DEF SeekBackwards
  <2>2. CASE SeekPastEnd(h)
    BY <2>2 DEF SeekPastEnd, Inv, TypeOK
  <2>3. CASE SeekDecodeError(h)
    BY <1>2, <1>3, <2>3 DEF SeekDecodeError, Inv, TypeOK
  <2> QED BY <2>1, <2>2, <2>3 DEF SeekFails
<1>5. /\ pc' \in [Handles -> {"idle", "new", "seek", "open"}]
      /\ file' \in [Handles -> Files \cup {NoFile}]
      /\ rc' \in [Handles -> Rcs \cup {NoRc}]
      /\ n' \in [Handles -> Nat]
      /\ pc'[h] = "idle"
      /\ \A g \in Handles : g # h => /\ pc'[g] = pc[g] /\ file'[g] = file[g]
                                     /\ rc'[g] = rc[g] /\ n'[g] = n[g]
  BY <1>1, HandleGoneType
<1>6. TypeOK'
  BY <1>1, <1>4, <1>5 DEF Inv, TypeOK, Return
<1>7. HandlesBound'
  BY <1>5 DEF Inv, HandlesBound
<1>8. PoolIndexesPositions'
  BY <1>1, <1>2, <1>4 DEF Inv, PoolIndexesPositions
<1>9. ExclusiveReaders'
  BY <1>1, HandleGoneExclusive DEF Inv, ExclusiveReaders
<1>10. ReaderAtCursor' /\ NeverSeeksBackwards'
  <2>1. ret'.res = "err"
    BY <1>4 DEF Return
  <2> QED BY <1>1, <1>2, <1>4, <2>1, HandleGoneCursors
<1> QED BY <1>6, <1>7, <1>8, <1>9, <1>10 DEF Inv

\* Reading advances the handle's own reader by what it takes off n.
LEMMA ReadMoreInv ==
    ASSUME Inv, NEW h \in Handles, ReadMore(h)
    PROVE  Inv'
<1> USE FilesAssumption, SizesAssumption
<1>1. /\ Holds(h) /\ file[h] \in Files /\ pool' = pool /\ st' = st
      /\ file' = file /\ rc' = rc /\ pc' = pc
  BY DEF ReadMore, Inv, HandlesBound
<1>2. /\ rc[h] \in Rcs
      /\ \A i \in 1 .. Len(pool) : pool[i].rc \in Rcs /\ pool[i].rc # rc[h]
      /\ \A g \in Handles : Holds(g) /\ g # h => rc[g] \in Rcs /\ rc[g] # rc[h]
  BY <1>1, HeldReaderAlone
<1>3. PICK k \in ReadCounts(h), e \in {"nil", "EOF", "fail"} :
         /\ pos' = [pos EXCEPT ![rc[h]] = @ + k]
         /\ n' = [n EXCEPT ![h] = @ - k]
         /\ ret' = Return(h, ReadResult(h, k, e), pos[rc[h]], pos[rc[h]] + k)
  BY DEF ReadMore, ReadErrors
<1>4. /\ k \in Nat /\ pos[rc[h]] \in Nat /\ n[h] \in Nat
      /\ k <= n[h] /\ pos[rc[h]] + k <= FolderSize
  BY <1>2, <1>3 DEF ReadCounts, Inv, TypeOK
<1>5. ReadResult(h, k, e) \in {"ok", "eof", "err"}
  BY DEF ReadResult
<1>6. /\ pos'[rc[h]] = pos[rc[h]] + k /\ n'[h] = n[h] - k
      /\ \A r \in Rcs : r # rc[h] => pos'[r] = pos[r]
      /\ \A g \in Handles : g # h => n'[g] = n[g]
  BY <1>2, <1>3 DEF Inv, TypeOK
<1>7. TypeOK'
  <2>1. pos' \in [Rcs -> 0 .. FolderSize] /\ n' \in [Handles -> Nat]
    BY <1>2, <1>3, <1>4 DEF Inv, TypeOK
  <2>2. ret' \in [h : Handles, res : {"ok", "eof", "err", "errSeekBackwards"},
                  from : Nat, to : Nat]
    BY <1>3, <1>4, <1>5 DEF Return
  <2> QED BY <1>1, <2>1, <2>2 DEF Inv, TypeOK
<1>8. HandlesBound'
  BY <1>1 DEF Inv, HandlesBound
<1>9. PoolIndexesPositions'
  BY <1>1, <1>2, <1>6 DEF Inv, PoolIndexesPositions
<1>10. ExclusiveReaders'
  BY <1>1 DEF Inv, ExclusiveReaders
<1>11. ReaderAtCursor'
  <2>1. pos'[rc[h]] + n'[h] = pos[rc[h]] + n[h]
    BY <1>4, <1>6
  <2>2. \A g \in Handles : g # h /\ pc[g] = "open" =>
                            pos'[rc[g]] = pos[rc[g]] /\ n'[g] = n[g]
    BY <1>2, <1>6
  <2> QED BY <1>1, <2>1, <2>2 DEF Inv, ReaderAtCursor
<1>12. NeverSeeksBackwards'
  <2>1. pc[h] = "open"
    BY DEF ReadMore
  <2> QED BY <1>1, <1>2, <1>3, <1>5, <1>6, <2>1 DEF Inv, NeverSeeksBackwards, Return
<1> QED BY <1>7, <1>8, <1>9, <1>10, <1>11, <1>12 DEF Inv

\* At the end of the file only the answer changes.
LEMMA ReadAtEndInv ==
    ASSUME Inv, NEW h \in Handles, ReadAtEnd(h)
    PROVE  Inv'
<1> USE FilesAssumption
<1>1. file[h] \in Files
  BY DEF Inv, HandlesBound, ReadAtEnd
<1>2. TypeOK'
  BY <1>1 DEF Inv, TypeOK, ReadAtEnd, Return
<1>3. HandlesBound' /\ PoolIndexesPositions' /\ ExclusiveReaders' /\ ReaderAtCursor'
  BY DEF Inv, HandlesBound, PoolIndexesPositions, ExclusiveReaders, ReaderAtCursor, ReadAtEnd
<1>4. NeverSeeksBackwards'
  BY DEF Inv, NeverSeeksBackwards, ReadAtEnd, Return
<1> QED BY <1>2, <1>3, <1>4 DEF Inv

\* Closing a reader at the folder's end closes nobody else's.
LEMMA CloseAtEOFInv ==
    ASSUME Inv, NEW h \in Handles, CloseAtEOF(h)
    PROVE  Inv'
<1> USE FilesAssumption, SizesAssumption
<1>1. Holds(h) /\ pool' = pool /\ pos' = pos /\ HandleGone(h)
  BY DEF CloseAtEOF
<1>2. /\ rc[h] \in Rcs
      /\ \A i \in 1 .. Len(pool) : pool[i].rc \in Rcs /\ pool[i].rc # rc[h]
      /\ \A g \in Handles : Holds(g) /\ g # h => rc[g] \in Rcs /\ rc[g] # rc[h]
  BY <1>1, HeldReaderAlone
<1>3. /\ st' \in [Rcs -> {"none", "open", "closed"}]
      /\ \A r \in Rcs : r # rc[h] => st'[r] = st[r]
  BY <1>2 DEF CloseAtEOF, Inv, TypeOK
<1>4. PICK res \in {"ok", "err"} : ret' = Return(h, res, 0, 0)
  BY DEF CloseAtEOF, CloseResults
<1>5. /\ pc' \in [Handles -> {"idle", "new", "seek", "open"}]
      /\ file' \in [Handles -> Files \cup {NoFile}]
      /\ rc' \in [Handles -> Rcs \cup {NoRc}]
      /\ n' \in [Handles -> Nat]
      /\ pc'[h] = "idle"
      /\ \A g \in Handles : g # h => /\ pc'[g] = pc[g] /\ file'[g] = file[g]
                                     /\ rc'[g] = rc[g] /\ n'[g] = n[g]
  BY <1>1, HandleGoneType
<1>6. TypeOK'
  BY <1>1, <1>3, <1>4, <1>5 DEF Inv, TypeOK, Return
<1>7. HandlesBound'
  BY <1>5 DEF Inv, HandlesBound
<1>8. PoolIndexesPositions'
  BY <1>1, <1>2, <1>3 DEF Inv, PoolIndexesPositions
<1>9. ExclusiveReaders'
  BY <1>1, <1>2, <1>3, HandleGoneExclusive DEF Inv, ExclusiveReaders
<1>10. ReaderAtCursor' /\ NeverSeeksBackwards'
  <2>1. ret'.res # "errSeekBackwards"
    BY <1>4 DEF Return
  <2> QED BY <1>1, <2>1, HandleGoneCursors
<1> QED BY <1>6, <1>7, <1>8, <1>9, <1>10 DEF Inv

\* The pool invariant only depends on which entries are listed: each entry of
\* the new list is an old one or the one just put.
LEMMA ClosePutInv ==
    ASSUME Inv, NEW h \in Handles, ClosePut(h)
    PROVE  Inv'
<1> USE FilesAssumption, SizesAssumption, PoolSizeNat
<1> DEFINE off  == pos[rc[h]]
           list == Pushed(off, rc[h])
<1>1. pc[h] = "open" /\ Holds(h) /\ pos' = pos /\ HandleGone(h) /\ off # FolderSize
  BY DEF ClosePut
<1>2. /\ rc[h] \in Rcs
      /\ \A i \in 1 .. Len(pool) : pool[i].rc \in Rcs /\ pool[i].rc # rc[h]
      /\ \A g \in Handles : Holds(g) /\ g # h => rc[g] \in Rcs /\ rc[g] # rc[h]
  BY <1>1, HeldReaderAlone
<1>3. off \in 0 .. FolderSize /\ off < FolderSize /\ off \in Nat /\ st[rc[h]] = "open"
  BY <1>1, <1>2 DEF Inv, TypeOK, ExclusiveReaders
<1>4. Len(pool) \in Nat /\ pool \in Seq(Entry)
  BY PoolEntries DEF Inv, TypeOK
<1>5. /\ list \in Seq(Entry)
      /\ Len(list) = Len(pool) + 1
      /\ list[1] = [key |-> off, rc |-> rc[h]]
      /\ \A j \in 2 .. Len(pool) + 1 : list[j] = pool[j - 1]
  BY <1>2, <1>3, <1>4, PushedProperties
<1>6. /\ pc' \in [Handles -> {"idle", "new", "seek", "open"}]
      /\ file' \in [Handles -> Files \cup {NoFile}]
      /\ rc' \in [Handles -> Rcs \cup {NoRc}]
      /\ n' \in [Handles -> Nat]
      /\ pc'[h] = "idle"
      /\ \A g \in Handles : g # h => /\ pc'[g] = pc[g] /\ file'[g] = file[g]
                                     /\ rc'[g] = rc[g] /\ n'[g] = n[g]
  BY <1>1, HandleGoneType
<1>7. \E res \in {"ok", "err"} : ret' = Return(h, res, 0, 0)
  BY DEF ClosePut, CloseResults
<1>8. HandlesBound'
  BY <1>6 DEF Inv, HandlesBound
<1>9. ret'.res # "errSeekBackwards"
  BY <1>7 DEF Return
<1>10. ReaderAtCursor' /\ NeverSeeksBackwards'
  BY <1>1, <1>9, HandleGoneCursors
<1>11. CASE Pooled(off)
  <2>1. pool' = pool /\ st' = st
    BY <1>11 DEF ClosePut
  <2>2. TypeOK'
    BY <2>1, <1>1, <1>6, <1>7 DEF Inv, TypeOK, Return
  <2>3. PoolIndexesPositions'
    BY <2>1, <1>1 DEF Inv, PoolIndexesPositions
  <2>4. ExclusiveReaders'
    BY <2>1, <1>1, HandleGoneExclusive DEF Inv, ExclusiveReaders
  <2> QED BY <2>2, <2>3, <2>4, <1>8, <1>10 DEF Inv
<1> HIDE DEF list
<1>12. CASE ~Pooled(off)
  <2>1. \A i \in 1 .. Len(pool) : pool[i].key # off
    BY <1>12 DEF Pooled
  <2>2. \A i \in 1 .. Len(list) :
          /\ st[list[i].rc] = "open"
          /\ list[i].key = pos[list[i].rc]
          /\ list[i].key < FolderSize
          /\ list[i].rc \in Rcs
          /\ \A g \in Handles : Holds(g) /\ g # h => list[i].rc # rc[g]
    <3> SUFFICES ASSUME NEW i \in 1 .. Len(list)
                 PROVE  /\ st[list[i].rc] = "open"
                        /\ list[i].key = pos[list[i].rc]
                        /\ list[i].key < FolderSize
                        /\ list[i].rc \in Rcs
                        /\ \A g \in Handles : Holds(g) /\ g # h => list[i].rc # rc[g]
      OBVIOUS
    <3>1. CASE i = 1
      BY <3>1, <1>2, <1>3, <1>5
    <3>2. CASE i # 1
      <4>1. i - 1 \in 1 .. Len(pool) /\ list[i] = pool[i - 1]
        BY <3>2, <1>4, <1>5
      <4> QED BY <4>1, <1>2 DEF Inv, PoolIndexesPositions, ExclusiveReaders
    <3> QED BY <3>1, <3>2
  <2>3. \A i, j \in 1 .. Len(list) : i # j => list[i].key # list[j].key
    <3>1. ASSUME NEW i \in 1 .. Len(list), NEW j \in 1 .. Len(list), i < j
          PROVE  list[i].key # list[j].key
      <4>1. j - 1 \in 1 .. Len(pool) /\ list[j] = pool[j - 1]
        BY <3>1, <1>4, <1>5
      <4>2. CASE i = 1
        <5>1. list[i].key = off
          BY <4>2, <1>5
        <5> QED BY <5>1, <4>1, <2>1
      <4>3. CASE i # 1
        <5>1. i - 1 \in 1 .. Len(pool) /\ list[i] = pool[i - 1] /\ i - 1 # j - 1
          BY <4>3, <3>1, <1>4, <1>5
        <5> QED BY <4>1, <5>1 DEF Inv, PoolIndexesPositions
      <4> QED BY <4>2, <4>3
    <3>2. \A i, j \in 1 .. Len(list) : i # j => i < j \/ j < i
      BY <1>4, <1>5
    <3> QED BY <3>1, <3>2
  <2>4. CASE Len(list) <= PoolSize
    <3>1. pool' = list /\ st' = st
      BY <2>4, <1>12, <1>4, <1>5 DEF ClosePut, list
    <3>2. TypeOK'
      BY <3>1, <1>1, <1>5, <1>6, <1>7 DEF Inv, TypeOK, Return
    <3>3. PoolIndexesPositions'
      BY <3>1, <1>1, <2>2, <2>3, <2>4 DEF PoolIndexesPositions
    <3>4. ExclusiveReaders'
      BY <3>1, <1>1, <2>2, HandleGoneExclusive
    <3> QED BY <3>2, <3>3, <3>4, <1>8, <1>10 DEF Inv
  <2>5. CASE ~(Len(list) <= PoolSize)
    <3> DEFINE last == Len(list)
    <3>1. pool' = RemoveAt(list, last) /\ st' = [st EXCEPT ![list[last].rc] = "closed"]
      BY <2>5, <1>12, <1>4, <1>5 DEF ClosePut, list
    <3>2. last \in 1 .. Len(list) /\ last = Len(pool) + 1
      BY <1>4, <1>5
    <3>3. /\ pool' \in Seq(Entry)
          /\ Len(pool') = last - 1
          /\ \A j \in 1 .. last - 1 : pool'[j] = list[j]
      <4>1. /\ RemoveAt(list, last) \in Seq(Entry)
            /\ Len(RemoveAt(list, last)) = Len(list) - 1
            /\ \A j \in 1 .. Len(list) - 1 :
                  RemoveAt(list, last)[j] = IF j < last THEN list[j] ELSE list[j + 1]
        BY <3>2, <1>5, RemoveAtProperties
      <4>2. \A j \in 1 .. last - 1 : j < last
        BY <3>2, <1>4
      <4> QED BY <3>1, <4>1, <4>2
    <3>4. list[last].rc \in Rcs /\ \A j \in 1 .. last - 1 : list[j].rc # list[last].rc
      <4>1. \A j \in 1 .. last - 1 : j \in 1 .. Len(list) /\ j # last
        BY <3>2, <1>4
      <4> QED BY <4>1, <3>2, <2>2, <2>3
    <3>5. /\ st' \in [Rcs -> {"none", "open", "closed"}]
          /\ \A r \in Rcs : r # list[last].rc => st'[r] = st[r]
      BY <3>1, <3>4 DEF Inv, TypeOK
    <3>6. TypeOK'
      BY <3>3, <3>5, <1>1, <1>6, <1>7 DEF Inv, TypeOK, Return
    <3>7. \A j \in 1 .. Len(pool') : j \in 1 .. Len(list) /\ j \in 1 .. last - 1
      BY <3>2, <3>3, <1>4
    <3>8. PoolIndexesPositions'
      <4>1. Len(pool') <= PoolSize
        BY <3>2, <3>3 DEF Inv, PoolIndexesPositions
      <4>2. \A j \in 1 .. Len(pool') :
              /\ st'[pool'[j].rc] = "open"
              /\ pool'[j].key = pos[pool'[j].rc]
              /\ pool'[j].key < FolderSize
        <5> SUFFICES ASSUME NEW j \in 1 .. Len(pool')
                     PROVE  /\ st'[pool'[j].rc] = "open"
                            /\ pool'[j].key = pos[pool'[j].rc]
                            /\ pool'[j].key < FolderSize
          OBVIOUS
        <5>1. pool'[j] = list[j] /\ j \in 1 .. Len(list) /\ list[j].rc # list[last].rc
          BY <3>3, <3>4, <3>7
        <5>2. /\ st[list[j].rc] = "open" /\ list[j].rc \in Rcs
              /\ list[j].key = pos[list[j].rc] /\ list[j].key < FolderSize
          BY <5>1, <2>2
        <5>3. st'[list[j].rc] = st[list[j].rc]
          BY <5>1, <5>2, <3>5
        <5> QED BY <5>1, <5>2, <5>3
      <4>3. \A i, j \in 1 .. Len(pool') : i # j => pool'[i].key # pool'[j].key
        BY <3>3, <3>7, <2>3
      <4> QED BY <1>1, <4>1, <4>2, <4>3 DEF PoolIndexesPositions
    <3>9. ExclusiveReaders'
      <4>1. \A g \in Handles : g # h /\ Holds(g) => st'[rc[g]] = st[rc[g]]
        BY <3>2, <3>5, <1>2, <2>2
      <4>2. \A j \in 1 .. Len(pool') : \A g \in Handles :
               g # h /\ Holds(g) => pool'[j].rc # rc[g]
        BY <3>3, <3>7, <2>2
      <4> QED BY <1>1, <4>1, <4>2, HandleGoneExclusive
    <3> QED BY <3>6, <3>8, <3>9, <1>8, <1>10 DEF Inv
  <2> QED BY <2>4, <2>5
<1> QED BY <1>11, <1>12

\* Emptying the pool closes no reader that a handle holds.
LEMMA ReleasePoolInv ==
    ASSUME Inv, ReleasePool
    PROVE  Inv'
<1> USE SizesAssumption, PoolSizeNat
<1>1. TypeOK'
  BY DEF Inv, TypeOK, ReleasePool
<1>2. HandlesBound'
  BY DEF Inv, HandlesBound, ReleasePool
<1>3. PoolIndexesPositions'
  BY DEF PoolIndexesPositions, ReleasePool
<1>4. ExclusiveReaders'
  <2>1. \A g \in Handles : Holds(g) => rc[g] \in Rcs /\ st'[rc[g]] = st[rc[g]]
    BY DEF Inv, HandlesBound, ExclusiveReaders, ReleasePool
  <2> QED BY <2>1 DEF Inv, ExclusiveReaders, ReleasePool
<1>5. ReaderAtCursor' /\ NeverSeeksBackwards'
  BY DEF Inv, ReaderAtCursor, NeverSeeksBackwards, ReleasePool
<1> QED BY <1>1, <1>2, <1>3, <1>4, <1>5 DEF Inv

-----------------------------------------------------------------------------
\* Every step preserves the invariant.
LEMMA NextInv == Inv /\ [Next]_vars => Inv'
<1> SUFFICES ASSUME Inv, [Next]_vars PROVE Inv'
  OBVIOUS
<1>1. CASE \E h \in Handles, f \in Files : OpenHit(h, f) \/ OpenMiss(h, f)
  BY <1>1, OpenHitInv, OpenMissInv
<1>2. CASE \E h \in Handles : NewFolderReader(h) \/ NewFolderReaderFails(h)
  BY <1>2, NewFolderReaderInv, NewFolderReaderFailsInv
<1>3. CASE \E h \in Handles : SeekOK(h) \/ SeekFails(h)
  BY <1>3, SeekOKInv, SeekFailsInv
<1>4. CASE \E h \in Handles : ReadMore(h) \/ ReadAtEnd(h)
  BY <1>4, ReadMoreInv, ReadAtEndInv
<1>5. CASE \E h \in Handles : CloseAtEOF(h) \/ ClosePut(h)
  BY <1>5, CloseAtEOFInv, ClosePutInv
<1>6. CASE ReleasePool
  BY <1>6, ReleasePoolInv
<1>7. CASE UNCHANGED vars
  <2> USE <1>7 DEF vars
  <2>1. TypeOK' /\ HandlesBound'
    BY DEF Inv, TypeOK, HandlesBound
  <2>2. PoolIndexesPositions' /\ ExclusiveReaders'
    BY DEF Inv, PoolIndexesPositions, ExclusiveReaders
  <2>3. ReaderAtCursor' /\ NeverSeeksBackwards'
    BY DEF Inv, ReaderAtCursor, NeverSeeksBackwards
  <2> QED BY <2>1, <2>2, <2>3 DEF Inv
<1> QED BY <1>1, <1>2, <1>3, <1>4, <1>5, <1>6, <1>7 DEF Next

\* The inductive invariant holds in every reachable state of pooled reading.
THEOREM InvHolds == Spec => []Inv
BY InitInv, NextInv, PTL DEF Spec

\* Every variable of pooled reading keeps its type.
THEOREM TypeCorrect == Spec => []TypeOK
<1>1. Inv => TypeOK
  BY DEF Inv
<1> QED BY <1>1, InvHolds, PTL

\* The pool always indexes live readers by their true positions.
THEOREM PoolCorrect == Spec => []PoolIndexesPositions
<1>1. Inv => PoolIndexesPositions
  BY DEF Inv
<1> QED BY <1>1, InvHolds, PTL

\* No folder reader is ever used by two goroutines, or after it was closed.
THEOREM Exclusion == Spec => []ExclusiveReaders
<1>1. Inv => ExclusiveReaders
  BY DEF Inv
<1> QED BY <1>1, InvHolds, PTL

\* Every open handle's reader stands at the handle's next byte.
THEOREM CursorCorrect == Spec => []ReaderAtCursor
<1>1. Inv => ReaderAtCursor
  BY DEF Inv
<1> QED BY <1>1, InvHolds, PTL

\* Open never fails because the pool returned a reader past the file.
THEOREM ForwardOnly == Spec => []NeverSeeksBackwards
<1>1. Inv => NeverSeeksBackwards
  BY DEF Inv
<1> QED BY <1>1, InvHolds, PTL

-----------------------------------------------------------------------------
(* Refinement of FileStreams.                                              *)

\* A step of handle h alone changes h's component of the mapping only.
LEMMA AbsStep ==
    ASSUME Inv, NEW h \in Handles, NEW q \in {"idle", "new", "seek", "open"},
           pc' = [pc EXCEPT ![h] = q],
           \A g \in Handles : g # h => file'[g] = file[g] /\ n'[g] = n[g]
    PROVE  /\ AbsState' = [AbsState EXCEPT
                             ![h] = IF q \in {"new", "seek"} THEN "opening" ELSE q]
           /\ AbsRead' = [AbsRead EXCEPT
                             ![h] = IF q = "open" THEN Size[file'[h]] - n'[h] ELSE 0]
BY DEF Inv, TypeOK, AbsState, AbsRead

\* Open of a file starts: the abstract Open.
LEMMA OpenRefines ==
    ASSUME Inv, NEW h \in Handles, NEW f \in Files, OpenHit(h, f) \/ OpenMiss(h, f)
    PROVE  Streams!Open(h)
<1>1. PICK q \in {"new", "seek"} : pc' = [pc EXCEPT ![h] = q]
  BY DEF OpenHit, OpenMiss
<1>2. /\ pc[h] = "idle" /\ file' = [file EXCEPT ![h] = f] /\ n' = n /\ ret' = ret
  BY DEF OpenHit, OpenMiss
<1>3. AbsState' = [AbsState EXCEPT ![h] = "opening"] /\ AbsRead' = [AbsRead EXCEPT ![h] = 0]
  BY <1>1, <1>2, AbsStep DEF Inv, TypeOK
<1>4. AbsState[h] = "idle" /\ AbsRead[h] = 0
  BY <1>2 DEF AbsState, AbsRead
<1>5. AbsRead' = AbsRead
  BY <1>3, <1>4 DEF AbsRead
<1> QED BY <1>2, <1>3, <1>4, <1>5 DEF Streams!Open

\* Open returns a handle at the start of its file, or an error.
LEMMA OpenReturnsRefines ==
    ASSUME Inv, NEW h \in Handles,
           SeekOK(h) \/ SeekFails(h) \/ NewFolderReaderFails(h)
    PROVE  Streams!OpenReturns(h)
<1>1. pc[h] \in {"new", "seek"} /\ file[h] \in Files
  BY DEF SeekOK, SeekFails, NewFolderReaderFails, Inv, HandlesBound
<1>2. AbsState[h] = "opening" /\ AbsRead[h] = 0
  BY <1>1 DEF AbsState, AbsRead
<1>3. CASE SeekOK(h)
  <2>1. /\ pc' = [pc EXCEPT ![h] = "open"] /\ n' = [n EXCEPT ![h] = Size[file[h]]]
        /\ file' = file /\ ret' = Return(h, "ok", 0, 0)
    BY <1>3 DEF SeekOK
  <2>2. n'[h] = Size[file[h]] /\ \A g \in Handles : g # h => n'[g] = n[g]
    BY <2>1 DEF Inv, TypeOK
  <2>3. Size[file'[h]] - n'[h] = 0
    BY <1>1, <2>1, <2>2, FilesAssumption
  <2>4. AbsState' = [AbsState EXCEPT ![h] = "open"] /\ AbsRead' = [AbsRead EXCEPT ![h] = 0]
    BY <2>1, <2>2, <2>3, AbsStep
  <2>5. AbsRead' = AbsRead
    BY <1>2, <2>4 DEF AbsRead
  <2> QED BY <1>2, <2>1, <2>4, <2>5 DEF Streams!OpenReturns, Streams!Return, Return
<1>4. CASE SeekFails(h) \/ NewFolderReaderFails(h)
  <2>1. HandleGone(h) /\ ret' = Return(h, "err", 0, 0)
    <3>1. CASE NewFolderReaderFails(h)
      BY <3>1 DEF NewFolderReaderFails
    <3>2. CASE SeekFails(h)
      <4>1. ~SeekBackwards(h)
        BY <3>2, FilesAssumption, SizesAssumption
        DEF SeekFails, SeekBackwards, Inv, TypeOK, NeverSeeksBackwards, HandlesBound
      <4> QED BY <3>2, <4>1 DEF SeekFails, SeekPastEnd, SeekDecodeError
    <3> QED BY <1>4, <3>1, <3>2
  <2>2. /\ pc' = [pc EXCEPT ![h] = "idle"] /\ file' = [file EXCEPT ![h] = NoFile]
        /\ \A g \in Handles : g # h => file'[g] = file[g] /\ n'[g] = n[g]
    BY <2>1 DEF HandleGone, Inv, TypeOK
  <2>3. AbsState' = [AbsState EXCEPT ![h] = "idle"] /\ AbsRead' = [AbsRead EXCEPT ![h] = 0]
    BY <2>2, AbsStep
  <2>4. AbsRead' = AbsRead
    BY <1>2, <2>3 DEF AbsRead
  <2> QED BY <1>2, <2>1, <2>2, <2>3, <2>4 DEF Streams!OpenReturns, Streams!Return, Return
<1> QED BY <1>3, <1>4

\* Read returns the next bytes of the handle's own file.
LEMMA ReadRefines ==
    ASSUME Inv, NEW h \in Handles, ReadMore(h) \/ ReadAtEnd(h)
    PROVE  Streams!Read(h)
<1>1. /\ pc[h] = "open" /\ file[h] \in Files /\ rc[h] \in Rcs
      /\ pc' = pc /\ file' = file
  BY DEF ReadMore, ReadAtEnd, Inv, HandlesBound
<1>2. /\ Size[file[h]] \in Nat /\ Offset[file[h]] \in Nat
      /\ n[h] \in Nat /\ pos[rc[h]] \in Nat
      /\ pos[rc[h]] + n[h] = Offset[file[h]] + Size[file[h]]
  BY <1>1, FilesAssumption, SizesAssumption DEF Inv, TypeOK, ReaderAtCursor
<1>3. AbsState[h] = "open" /\ AbsRead[h] = Size[file[h]] - n[h] /\ AbsState' = AbsState
  BY <1>1 DEF AbsState, AbsRead
<1>4. \E k \in 0 .. n[h], r \in {"ok", "eof", "err"} :
        /\ r = "eof" => n[h] - k = 0
        /\ \A g \in Handles : n'[g] = IF g = h THEN n[h] - k ELSE n[g]
        /\ ret' = Return(h, r, Offset[file[h]] + AbsRead[h], Offset[file[h]] + AbsRead[h] + k)
  <2>1. CASE ReadMore(h)
    <3>1. PICK k \in ReadCounts(h), e \in {"nil", "EOF", "fail"} :
             /\ n' = [n EXCEPT ![h] = @ - k]
             /\ ret' = Return(h, ReadResult(h, k, e), pos[rc[h]], pos[rc[h]] + k)
      BY <2>1 DEF ReadMore, ReadErrors
    <3>2. k \in 0 .. n[h]
      BY DEF ReadCounts
    <3>3. /\ ReadResult(h, k, e) \in {"ok", "eof", "err"}
          /\ ReadResult(h, k, e) = "eof" => n[h] - k = 0
      BY <1>2, <3>2 DEF ReadResult
    <3>4. pos[rc[h]] = Offset[file[h]] + AbsRead[h]
      BY <1>2, <1>3
    <3>5. \A g \in Handles : n'[g] = IF g = h THEN n[h] - k ELSE n[g]
      BY <3>1 DEF Inv, TypeOK
    <3> QED BY <3>1, <3>2, <3>3, <3>4, <3>5
  <2>2. CASE ReadAtEnd(h)
    <3>1. n[h] = 0 /\ n' = n
      BY <2>2 DEF ReadAtEnd
    <3>2. Offset[file[h]] + Size[file[h]] = Offset[file[h]] + AbsRead[h]
      BY <1>2, <1>3, <3>1
    <3>3. ret' = Return(h, "eof", Offset[file[h]] + AbsRead[h], Offset[file[h]] + AbsRead[h] + 0)
      BY <2>2, <1>2, <1>3, <3>1, <3>2 DEF ReadAtEnd
    <3>4. /\ 0 \in 0 .. n[h] /\ n[h] - 0 = 0
          /\ \A g \in Handles : n'[g] = IF g = h THEN n[h] - 0 ELSE n[g]
      BY <1>2, <3>1
    <3> WITNESS 0 \in 0 .. n[h], "eof" \in {"ok", "eof", "err"}
    <3> QED BY <3>3, <3>4
  <2> QED BY <2>1, <2>2
<1>5. PICK k \in 0 .. n[h], r \in {"ok", "eof", "err"} :
        /\ r = "eof" => n[h] - k = 0
        /\ \A g \in Handles : n'[g] = IF g = h THEN n[h] - k ELSE n[g]
        /\ ret' = Return(h, r, Offset[file[h]] + AbsRead[h], Offset[file[h]] + AbsRead[h] + k)
  BY <1>4
<1>6. AbsRead' = [AbsRead EXCEPT ![h] = @ + k]
  <2>1. Size[file[h]] - n'[h] = AbsRead[h] + k
    BY <1>2, <1>3, <1>5
  <2> QED BY <1>1, <1>5, <2>1 DEF AbsRead
<1>7. k \in 0 .. Size[file[h]] - AbsRead[h]
  BY <1>2, <1>3
<1>8. r = "eof" => AbsRead[h] + k = Size[file[h]]
  BY <1>2, <1>3, <1>5
<1> QED BY <1>1, <1>3, <1>5, <1>6, <1>7, <1>8 DEF Streams!Read, Streams!Return, Return

\* Close ends the handle.
LEMMA CloseRefines ==
    ASSUME Inv, NEW h \in Handles, CloseAtEOF(h) \/ ClosePut(h)
    PROVE  Streams!Close(h)
<1>1. pc[h] = "open" /\ HandleGone(h)
  BY DEF CloseAtEOF, ClosePut
<1>2. \E r \in {"ok", "err"} : ret' = Return(h, r, 0, 0)
  BY DEF CloseAtEOF, ClosePut, CloseResults
<1>3. /\ pc' = [pc EXCEPT ![h] = "idle"] /\ file' = [file EXCEPT ![h] = NoFile]
      /\ \A g \in Handles : g # h => file'[g] = file[g] /\ n'[g] = n[g]
  BY <1>1 DEF HandleGone, Inv, TypeOK
<1>4. AbsState' = [AbsState EXCEPT ![h] = "idle"] /\ AbsRead' = [AbsRead EXCEPT ![h] = 0]
  BY <1>3, AbsStep
<1>5. AbsState[h] = "open"
  BY <1>1 DEF AbsState
<1> QED BY <1>2, <1>3, <1>4, <1>5 DEF Streams!Close, Streams!Return, Return

\* Every step of pooled reading is a step of FileStreams or a stutter.
LEMMA StepRefines == Inv /\ [Next]_vars => [Streams!Next]_Streams!vars
<1> SUFFICES ASSUME Inv, [Next]_vars PROVE [Streams!Next]_Streams!vars
  OBVIOUS
<1>1. CASE \E h \in Handles, f \in Files : OpenHit(h, f) \/ OpenMiss(h, f)
  BY <1>1, OpenRefines DEF Streams!Next
<1>2. CASE \E h \in Handles : SeekOK(h) \/ SeekFails(h) \/ NewFolderReaderFails(h)
  BY <1>2, OpenReturnsRefines DEF Streams!Next
<1>3. CASE \E h \in Handles : ReadMore(h) \/ ReadAtEnd(h)
  BY <1>3, ReadRefines DEF Streams!Next
<1>4. CASE \E h \in Handles : CloseAtEOF(h) \/ ClosePut(h)
  BY <1>4, CloseRefines DEF Streams!Next
<1>5. CASE \E h \in Handles : NewFolderReader(h)
  <2>1. PICK h \in Handles : NewFolderReader(h)
    BY <1>5
  <2>2. pc[h] = "new" /\ pc' = [pc EXCEPT ![h] = "seek"] /\ file' = file /\ n' = n /\ ret' = ret
    BY <2>1 DEF NewFolderReader
  <2>3. AbsState' = [AbsState EXCEPT ![h] = "opening"] /\ AbsRead' = [AbsRead EXCEPT ![h] = 0]
    BY <2>2, AbsStep
  <2>4. AbsState' = AbsState /\ AbsRead' = AbsRead
    BY <2>2, <2>3 DEF AbsState, AbsRead
  <2> QED BY <2>2, <2>4 DEF Streams!vars
<1>6. CASE ReleasePool \/ UNCHANGED vars
  <2>1. pc' = pc /\ file' = file /\ n' = n /\ ret' = ret
    BY <1>6 DEF ReleasePool, vars
  <2>2. AbsState' = AbsState /\ AbsRead' = AbsRead
    BY <2>1 DEF AbsState, AbsRead
  <2> QED BY <2>1, <2>2 DEF Streams!vars
<1> QED BY <1>1, <1>2, <1>3, <1>4, <1>5, <1>6 DEF Next

\* Pooled reading implements FileStreams: whatever the layout of the folder, the
\* size of the pool and the faults, every handle reads its own file.
THEOREM Refinement == Spec => FileStreamsSpec
<1>1. Init => Streams!Init
  BY DEF Init, Streams!Init, AbsState, AbsRead, Return, Streams!Return
<1> QED BY <1>1, InvHolds, StepRefines, PTL DEF Spec, FileStreamsSpec, Streams!Spec
=============================================================================
