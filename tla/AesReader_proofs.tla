-------------------------- MODULE AesReader_proofs --------------------------
(***************************************************************************)
(* Keys, key cache and IVs of encrypted folders, for any number of         *)
(* goroutines, folders, salts and passwords and any size of the cache.     *)
(***************************************************************************)
EXTENDS AesReader, SequenceLemmas

\* A name for the numbers in sequences of them.
Bytes == Nat

CacheKeys == [password : Seq(Bytes), cycles : Bytes, salt : Seq(Bytes)]
Entries == [ck : CacheKeys, key : Seq(Bytes)]

Types ==
    /\ password \in Passwords
    /\ props \in [Folders -> Seq(Bytes)]
    /\ cache \in Seq(Entries)
    /\ pc \in [Opens -> {"none", "made", "hashing", "ready", "error"}]
    /\ folder \in [Opens -> Folders]
    /\ own \in [Opens -> BOOLEAN]
    /\ DOMAIN iv = Opens
    /\ key \in [Opens -> Seq(Bytes)]

\* Whatever is written behind a folder's salt, its properties keep their length
\* and the salt.
SaltStays ==
    \A f \in Folders :
        /\ Len(props[f]) = Len(SaltOf[f]) + Len(IvOf[f])
        /\ \A i \in 1 .. Len(SaltOf[f]) : props[f][i] = SaltOf[f][i]

\* The properties hold the password behind the salt.
Holds(f) ==
    /\ Fits(f)
    /\ \A i \in 1 .. Len(password) : props[f][Len(SaltOf[f]) + i] = password[i]

\* While a goroutine hashes from the shared properties they hold the password,
\* and no other goroutine makes them hold anything else.
SharedHolds == \A o \in Opens : pc[o] = "hashing" /\ ~own[o] => Holds(folder[o])

\* A password that does not fit is never written to the properties.
LongUnwritten ==
    \A f \in Folders : Len(password) > Len(IvOf[f]) => props[f] = SaltOf[f] \o IvOf[f]

\* The inductive invariant.
Inv == /\ Types
       /\ SaltStays
       /\ SharedHolds
       /\ LongUnwritten
       /\ KeyOfFolder
       /\ CacheBounded
       /\ LongPasswordKeepsIV

-----------------------------------------------------------------------------
\* The types of the constants, folder by folder.
LEMMA ConstantTypes ==
    ASSUME NEW f \in Folders
    PROVE  /\ SaltOf[f] \in Seq(Bytes) /\ IvOf[f] \in Seq(Bytes) /\ CyclesOf[f] \in Bytes
           /\ Len(SaltOf[f]) \in Nat /\ Len(IvOf[f]) \in Nat
BY AesAssumption DEF Bytes

\* Types as members of the sets, with their lengths.
LEMMA StateTypes ==
    ASSUME Types
    PROVE  /\ password \in Seq(Bytes) /\ Len(password) \in Nat
           /\ Len(cache) \in Nat /\ DOMAIN cache = 1 .. Len(cache)
           /\ \A i \in 1 .. Len(cache) : cache[i] \in Entries
           /\ \A f \in Folders : props[f] \in Seq(Bytes) /\ Len(props[f]) \in Nat
           /\ \A o \in Opens : folder[o] \in Folders
BY AesAssumption DEF Types, Bytes

-----------------------------------------------------------------------------
\* The initial state satisfies the invariant.
LEMMA InitInv == Init => Inv
<1> SUFFICES ASSUME Init PROVE Inv
  OBVIOUS
<1> USE DEF Init
<1>1. ASSUME NEW f \in Folders
      PROVE  /\ props[f] = SaltOf[f] \o IvOf[f]
             /\ props[f] \in Seq(Bytes)
             /\ Len(props[f]) = Len(SaltOf[f]) + Len(IvOf[f])
             /\ \A i \in 1 .. Len(SaltOf[f]) : props[f][i] = SaltOf[f][i]
  <2>1. /\ SaltOf[f] \o IvOf[f] \in Seq(Bytes)
        /\ Len(SaltOf[f] \o IvOf[f]) = Len(SaltOf[f]) + Len(IvOf[f])
        /\ \A i \in 1 .. Len(SaltOf[f]) : (SaltOf[f] \o IvOf[f])[i] = SaltOf[f][i]
    BY ConstantTypes, InBack
  <2>2. props[f] = SaltOf[f] \o IvOf[f]
    OBVIOUS
  <2> QED BY ONLY <2>1, <2>2
<1>2. Types
  <2>1. cache \in Seq(Entries) /\ <<>> \in Seq(Bytes)
    BY EmptySeq
  <2> QED BY <1>1, <2>1 DEF Types, NoKey
<1>3. SaltStays /\ LongUnwritten
  BY <1>1 DEF SaltStays, LongUnwritten
<1>4. SharedHolds
  BY DEF SharedHolds
<1>5. KeyOfFolder /\ CacheBounded
  BY AesAssumption DEF KeyOfFolder, CacheBounded
<1>6. LongPasswordKeepsIV
  BY DEF LongPasswordKeepsIV
<1> QED BY <1>2, <1>3, <1>4, <1>5, <1>6 DEF Inv

\* NewReader gives the stored IV if no password was written over it.
LEMMA NewReaderInv ==
    ASSUME Inv, NEW o \in Opens, NewReader(o)
    PROVE  Inv'
<1> DEFINE f == folder[o]
           stored == SubSeq(props[f], Len(SaltOf[f]) + 1, Len(props[f]))
<1>1. /\ Types /\ SaltStays /\ SharedHolds /\ LongUnwritten
      /\ KeyOfFolder /\ CacheBounded /\ LongPasswordKeepsIV
  BY DEF Inv
<1>2. f \in Folders /\ props[f] \in Seq(Bytes) /\ Len(props[f]) = Len(SaltOf[f]) + Len(IvOf[f])
  BY <1>1, StateTypes DEF SaltStays
<1>3. Len(password) > Len(IvOf[f]) => stored = IvOf[f]
  <2>1. SubSeq(SaltOf[f] \o IvOf[f], Len(SaltOf[f]) + 1, Len(SaltOf[f]) + Len(IvOf[f])) = IvOf[f]
    BY <1>2, ConstantTypes, Behind
  <2> QED BY <1>1, <1>2, <2>1 DEF LongUnwritten
<1>4. /\ iv' = [iv EXCEPT ![o] = Pad(stored)] /\ pc' = [pc EXCEPT ![o] = "made"]
      /\ UNCHANGED <<password, props, cache, folder, own, key>>
  BY DEF NewReader
<1> HIDE DEF f, stored
<1>5. Types'
  BY <1>1, <1>4 DEF Types
<1>6. SaltStays' /\ LongUnwritten'
  BY <1>1, <1>4 DEF SaltStays, LongUnwritten
<1>7. SharedHolds' /\ KeyOfFolder' /\ CacheBounded'
  BY <1>1, <1>4 DEF SharedHolds, KeyOfFolder, CacheBounded, Types, Holds, Fits
<1>8. LongPasswordKeepsIV'
  BY <1>1, <1>3, <1>4 DEF LongPasswordKeepsIV, Types, f
<1> QED BY <1>5, <1>6, <1>7, <1>8 DEF Inv

-----------------------------------------------------------------------------
\* The cache as Get leaves it: the same entries, the one found in front.
LEMMA MovedProperties ==
    ASSUME Types, CacheBounded, NEW i \in 1 .. Len(cache)
    PROVE  LET c == <<cache[i]>> \o RemoveAt(cache, i)
           IN  /\ c \in Seq(Entries)
               /\ Len(c) = Len(cache)
               /\ \A j \in 1 .. Len(c) : \E l \in 1 .. Len(cache) : c[j] = cache[l]
               /\ \A j, l \in 1 .. Len(c) : j # l => c[j].ck # c[l].ck
<1> DEFINE r == RemoveAt(cache, i)
           c == <<cache[i]>> \o r
           at == [j \in 1 .. Len(cache) |-> IF j = 1 THEN i ELSE IF j - 1 < i THEN j - 1 ELSE j]
<1>1. /\ Len(cache) \in Nat /\ cache \in Seq(Entries) /\ cache[i] \in Entries
      /\ DOMAIN cache = 1 .. Len(cache)
  BY StateTypes DEF Types
<1>2. /\ r \in Seq(Entries) /\ Len(r) = Len(cache) - 1
      /\ \A j \in 1 .. Len(cache) - 1 : r[j] = IF j < i THEN cache[j] ELSE cache[j + 1]
  BY <1>1, RemoveAtProperties
<1> HIDE DEF r
<1>3. /\ c \in Seq(Entries) /\ Len(c) = Len(r) + 1 /\ c[1] = cache[i]
      /\ \A j \in 2 .. Len(r) + 1 : c[j] = r[j - 1]
  <2>1. PICK e \in Entries : e = cache[i]
    BY <1>1
  <2> QED BY <1>2, <2>1, InFront
<1> HIDE DEF c
<1>4. Len(c) = Len(cache)
  BY <1>1, <1>2, <1>3
<1>5. ASSUME NEW j \in 1 .. Len(cache)
      PROVE  at[j] \in 1 .. Len(cache) /\ c[j] = cache[at[j]]
  <2>1. CASE j = 1
    BY <1>3, <2>1
  <2>2. CASE j # 1
    <3>1. j \in 2 .. Len(r) + 1 /\ j - 1 \in 1 .. Len(cache) - 1 /\ (j - 1) + 1 = j
      BY <1>1, <1>2, <2>2
    <3>2. c[j] = r[j - 1] /\ r[j - 1] = IF j - 1 < i THEN cache[j - 1] ELSE cache[j]
      BY <1>2, <1>3, <3>1
    <3> QED BY <1>1, <2>2, <3>1, <3>2
  <2> QED BY <2>1, <2>2
<1>6. \A j, l \in 1 .. Len(cache) : j # l => at[j] # at[l]
  BY <1>1
<1> HIDE DEF at
<1>7. \A j, l \in 1 .. Len(cache) : j # l => c[j].ck # c[l].ck
  BY <1>1, <1>5, <1>6 DEF CacheBounded
<1> QED BY <1>3, <1>4, <1>5, <1>7 DEF c, r

\* Without the entry of a cache key the others are left, and none of that key.
LEMMA WithoutProperties ==
    ASSUME Types, CacheBounded, NEW ck
    PROVE  LET w == Without(ck)
           IN  /\ w \in Seq(Entries)
               /\ \A j \in 1 .. Len(w) : w[j].ck # ck /\ \E l \in 1 .. Len(cache) : w[j] = cache[l]
               /\ \A j, l \in 1 .. Len(w) : j # l => w[j].ck # w[l].ck
<1> DEFINE at == {i \in DOMAIN cache : cache[i].ck = ck}
<1>1. Len(cache) \in Nat /\ cache \in Seq(Entries) /\ DOMAIN cache = 1 .. Len(cache)
  BY StateTypes DEF Types
<1>2. CASE at = {}
  <2>1. Without(ck) = cache
    BY <1>2 DEF Without
  <2>2. \A j \in 1 .. Len(cache) : cache[j].ck # ck
    BY <1>1, <1>2
  <2> QED BY <1>1, <2>1, <2>2 DEF CacheBounded
<1>3. CASE at # {}
  <2> DEFINE i == CHOOSE k \in at : TRUE
             r == RemoveAt(cache, i)
             old == [j \in 1 .. Len(cache) - 1 |-> IF j < i THEN j ELSE j + 1]
  <2>1. Without(ck) = r
    BY <1>3 DEF Without
  <2>2. i \in 1 .. Len(cache) /\ cache[i].ck = ck
    BY <1>1, <1>3
  <2> HIDE DEF i
  <2>3. /\ r \in Seq(Entries) /\ Len(r) = Len(cache) - 1
        /\ \A j \in 1 .. Len(cache) - 1 : r[j] = IF j < i THEN cache[j] ELSE cache[j + 1]
    BY <1>1, <2>2, RemoveAtProperties
  <2> HIDE DEF r
  <2>4. ASSUME NEW j \in 1 .. Len(cache) - 1
        PROVE  old[j] \in 1 .. Len(cache) /\ old[j] # i /\ r[j] = cache[old[j]]
    BY <1>1, <2>2, <2>3
  <2>5. \A j, l \in 1 .. Len(cache) - 1 : j # l => old[j] # old[l]
    BY <1>1, <2>2
  <2> HIDE DEF old
  <2>6. ASSUME NEW j \in 1 .. Len(r)
        PROVE  r[j].ck # ck /\ \E l \in 1 .. Len(cache) : r[j] = cache[l]
    <3>1. PICK l \in 1 .. Len(cache) : l # i /\ r[j] = cache[l]
      BY <2>3, <2>4
    <3>2. cache[l].ck # cache[i].ck
      BY <1>1, <2>2, <3>1 DEF CacheBounded
    <3> QED BY <2>2, <3>1, <3>2
  <2>7. \A j, l \in 1 .. Len(r) : j # l => r[j].ck # r[l].ck
    BY <1>1, <2>3, <2>4, <2>5 DEF CacheBounded
  <2> QED BY <2>1, <2>3, <2>6, <2>7
<1> QED BY <1>2, <1>3

\* The cache as Add leaves it: the new entry and some of the others.
LEMMA CachedProperties ==
    ASSUME Types, CacheBounded, NEW ck \in CacheKeys, NEW k \in Seq(Bytes)
    PROVE  LET c == Cached(ck, k)
           IN  /\ c \in Seq(Entries)
               /\ Len(c) <= CacheSize
               /\ \A j \in 1 .. Len(c) :
                     \/ c[j] = [ck |-> ck, key |-> k]
                     \/ \E l \in 1 .. Len(cache) : c[j] = cache[l]
               /\ \A j, l \in 1 .. Len(c) : j # l => c[j].ck # c[l].ck
<1> DEFINE e == [ck |-> ck, key |-> k]
           w == Without(ck)
           all == <<e>> \o w
           n == IF Len(all) > CacheSize THEN CacheSize ELSE Len(all)
           c == SubSeq(all, 1, n)
<1>1. /\ w \in Seq(Entries)
      /\ \A j \in 1 .. Len(w) : w[j].ck # ck /\ \E l \in 1 .. Len(cache) : w[j] = cache[l]
      /\ \A j, l \in 1 .. Len(w) : j # l => w[j].ck # w[l].ck
  BY WithoutProperties
<1> HIDE DEF w
<1>2. e \in Entries /\ e.ck = ck /\ Len(w) \in Nat /\ CacheSize \in Nat /\ CacheSize > 0
  BY <1>1, AesAssumption DEF Entries
<1> HIDE DEF e
<1>3. /\ all \in Seq(Entries) /\ Len(all) = Len(w) + 1 /\ all[1] = e
      /\ \A j \in 2 .. Len(w) + 1 : all[j] = w[j - 1]
  BY <1>1, <1>2, InFront
<1> HIDE DEF all
<1>4. n \in Nat /\ n <= Len(all) /\ n <= CacheSize /\ n >= 1
  BY <1>2, <1>3
<1>5. Cached(ck, k) = c
  BY DEF Cached, c, n, all, e, w
<1> HIDE DEF n
<1>6. c \in Seq(Entries) /\ Len(c) = n /\ \A j \in 1 .. n : c[j] = all[j]
  BY <1>2, <1>3, <1>4
<1> HIDE DEF c
<1>7. ASSUME NEW j \in 1 .. n
      PROVE  \/ j = 1 /\ c[j] = e
             \/ j - 1 \in 1 .. Len(w) /\ c[j] = w[j - 1]
  BY <1>2, <1>3, <1>4, <1>6
<1>8. ASSUME NEW j \in 1 .. n, NEW l \in 1 .. n, j # l
      PROVE  c[j].ck # c[l].ck
  <2>1. CASE j = 1
    <3>1. c[j] = e /\ l - 1 \in 1 .. Len(w) /\ c[l] = w[l - 1]
      BY <1>2, <1>4, <1>7, <1>8, <2>1
    <3> QED BY <1>1, <1>2, <3>1
  <2>2. CASE l = 1
    <3>1. c[l] = e /\ j - 1 \in 1 .. Len(w) /\ c[j] = w[j - 1]
      BY <1>2, <1>4, <1>7, <1>8, <2>2
    <3> QED BY <1>1, <1>2, <3>1
  <2>3. CASE j # 1 /\ l # 1
    <3>1. /\ j - 1 \in 1 .. Len(w) /\ c[j] = w[j - 1]
          /\ l - 1 \in 1 .. Len(w) /\ c[l] = w[l - 1]
          /\ j - 1 # l - 1
      BY <1>4, <1>7, <1>8, <2>3
    <3> QED BY <1>1, <3>1
  <2> QED BY <2>1, <2>2, <2>3
<1>9. ASSUME NEW j \in 1 .. n
      PROVE  c[j] = e \/ \E l \in 1 .. Len(cache) : c[j] = cache[l]
  <2>1. CASE j = 1 /\ c[j] = e
    BY <2>1
  <2>2. CASE j - 1 \in 1 .. Len(w) /\ c[j] = w[j - 1]
    BY <1>1, <2>2
  <2> QED BY <1>7, <2>1, <2>2
<1> QED BY <1>4, <1>5, <1>6, <1>8, <1>9 DEF e

\* The key of a folder.
LEMMA KeyType ==
    ASSUME Types, NEW f \in Folders
    PROVE  /\ SaltOf[f] \o password \in Seq(Bytes)
           /\ Derive(CyclesOf[f], SaltOf[f] \o password) \in Seq(Bytes)
<1>1. SaltOf[f] \o password \in Seq(Bytes)
  BY ConstantTypes, StateTypes, ConcatProperties
<1>2. <<CyclesOf[f]>> \in Seq(Bytes)
  BY ConstantTypes
<1> HIDE DEF Derive
<1>3. <<CyclesOf[f]>> \o (SaltOf[f] \o password) \in Seq(Bytes)
  BY <1>1, <1>2, ConcatProperties
<1> QED BY <1>1, <1>3 DEF Derive

-----------------------------------------------------------------------------
\* A hit in the cache is the folder's key.
LEMMA PasswordCachedInv ==
    ASSUME Inv, NEW o \in Opens, PasswordCached(o)
    PROVE  Inv'
<1>1. /\ Types /\ SaltStays /\ SharedHolds /\ LongUnwritten
      /\ KeyOfFolder /\ CacheBounded /\ LongPasswordKeepsIV
  BY DEF Inv
<1>2. PICK i \in Hits(folder[o]) : /\ key' = [key EXCEPT ![o] = cache[i].key]
                                  /\ cache' = <<cache[i]>> \o RemoveAt(cache, i)
  BY DEF PasswordCached
<1>3. /\ pc' = [pc EXCEPT ![o] = "ready"] /\ pc[o] = "made"
      /\ UNCHANGED <<password, props, folder, iv, own>>
  BY DEF PasswordCached
<1>4. /\ DOMAIN cache = 1 .. Len(cache) /\ folder[o] \in Folders
      /\ i \in 1 .. Len(cache) /\ cache[i].ck = CacheKey(folder[o])
  BY <1>1, StateTypes DEF Hits
<1>5. /\ cache' \in Seq(Entries)
      /\ Len(cache') = Len(cache)
      /\ \A j \in 1 .. Len(cache') : \E l \in 1 .. Len(cache) : cache'[j] = cache[l]
      /\ \A j, l \in 1 .. Len(cache') : j # l => cache'[j].ck # cache'[l].ck
  BY <1>1, <1>2, <1>4, MovedProperties
<1>6. DOMAIN cache' = 1 .. Len(cache')
  BY <1>5, LenProperties
<1>7. cache[i].key = Derive(CyclesOf[folder[o]], SaltOf[folder[o]] \o password)
  BY <1>1, <1>4 DEF KeyOfFolder, CacheKey
<1>8. cache[i].key \in Seq(Bytes)
  BY <1>1, <1>4, StateTypes DEF Entries
<1>9. Types'
  BY <1>1, <1>2, <1>3, <1>5, <1>8 DEF Types
<1>10. SaltStays' /\ LongUnwritten'
  BY <1>1, <1>3 DEF SaltStays, LongUnwritten
<1>11. SharedHolds'
  BY <1>1, <1>3 DEF SharedHolds, Holds, Fits, Types
<1>12. CacheBounded'
  BY <1>1, <1>5, <1>6 DEF CacheBounded
<1>13. KeyOfFolder'
  <2>1. ASSUME NEW p \in Opens, pc'[p] = "ready"
        PROVE  key'[p] = Derive(CyclesOf[folder[p]], SaltOf[folder[p]] \o password)
    BY <1>1, <1>2, <1>3, <1>7, <2>1 DEF KeyOfFolder, Types
  <2>2. ASSUME NEW j \in DOMAIN cache'
        PROVE  cache'[j].key = Derive(cache'[j].ck.cycles, cache'[j].ck.salt \o password)
    <3>1. PICK l \in DOMAIN cache : cache'[j] = cache[l]
      BY <1>4, <1>5, <1>6
    <3> QED BY <1>1, <3>1 DEF KeyOfFolder
  <2> QED BY <1>3, <2>1, <2>2 DEF KeyOfFolder
<1>14. LongPasswordKeepsIV'
  BY <1>1, <1>3 DEF LongPasswordKeepsIV, Types
<1> QED BY <1>9, <1>10, <1>11, <1>12, <1>13, <1>14 DEF Inv

\* What calculateKey makes of the properties when the password fits.
LEMMA AppendedProps ==
    ASSUME Types, SaltStays, NEW f \in Folders, Fits(f)
    PROVE  LET s == SaltOf[f] \o password \o
                        SubSeq(props[f], Len(SaltOf[f]) + Len(password) + 1, Len(props[f]))
           IN  /\ s \in Seq(Bytes)
               /\ Len(s) = Len(props[f])
               /\ \A i \in 1 .. Len(SaltOf[f]) : s[i] = SaltOf[f][i]
               /\ \A i \in 1 .. Len(password) : s[Len(SaltOf[f]) + i] = password[i]
<1>1. /\ SaltOf[f] \in Seq(Bytes) /\ password \in Seq(Bytes) /\ props[f] \in Seq(Bytes)
      /\ Len(SaltOf[f]) + Len(password) <= Len(props[f])
  BY ConstantTypes, StateTypes DEF Fits
<1>2. Overwrites(SaltOf[f] \o password \o
                     SubSeq(props[f], Len(SaltOf[f]) + Len(password) + 1, Len(props[f])),
                 Bytes, SaltOf[f], password, props[f])
  BY ONLY <1>1, Overwritten, Zenon
<1> QED BY <1>2 DEF Overwrites

\* Writing the password to the properties writes what any other goroutine of the
\* folder reads from there.
LEMMA PasswordAppendedInv ==
    ASSUME Inv, NEW o \in Opens, PasswordAppended(o)
    PROVE  Inv'
<1>1. /\ Types /\ SaltStays /\ SharedHolds /\ LongUnwritten
      /\ KeyOfFolder /\ CacheBounded /\ LongPasswordKeepsIV
  BY DEF Inv
<1> DEFINE f == folder[o]
           s == SaltOf[f] \o password \o
                    SubSeq(props[f], Len(SaltOf[f]) + Len(password) + 1, Len(props[f]))
<1>2. f \in Folders /\ Len(SaltOf[f]) \in Nat /\ Len(IvOf[f]) \in Nat /\ Len(password) \in Nat
  BY <1>1, StateTypes, ConstantTypes
<1>3. /\ props' = IF Fits(f) THEN [props EXCEPT ![f] = s] ELSE props
      /\ own' = [own EXCEPT ![o] = ~Fits(f)]
      /\ pc' = [pc EXCEPT ![o] = "hashing"] /\ pc[o] = "made"
      /\ UNCHANGED <<password, cache, folder, iv, key>>
  BY DEF PasswordAppended
<1>4. Fits(f) => /\ s \in Seq(Bytes)
                 /\ Len(s) = Len(props[f])
                 /\ \A i \in 1 .. Len(SaltOf[f]) : s[i] = SaltOf[f][i]
                 /\ \A i \in 1 .. Len(password) : s[Len(SaltOf[f]) + i] = password[i]
  BY <1>1, <1>2, AppendedProps
<1> HIDE DEF s, f
<1>5. Types'
  <2>1. props' \in [Folders -> Seq(Bytes)]
    BY <1>1, <1>2, <1>3, <1>4 DEF Types
  <2>2. own' \in [Opens -> BOOLEAN]
    <3>1. Fits(f) \in BOOLEAN
      BY DEF Fits
    <3> QED BY <1>1, <1>3, <3>1 DEF Types
  <2> QED BY <1>1, <1>3, <2>1, <2>2 DEF Types
<1>6. ASSUME NEW g \in Folders
      PROVE  /\ g # f \/ ~Fits(f) => props'[g] = props[g]
             /\ g = f /\ Fits(f) => props'[g] = s
             /\ Len(props'[g]) = Len(props[g])
  BY <1>1, <1>2, <1>3, <1>4 DEF Types
<1>7. SaltStays'
  BY <1>1, <1>4, <1>6 DEF SaltStays
<1>8. SharedHolds'
  <2> SUFFICES ASSUME NEW p \in Opens, pc'[p] = "hashing", ~own'[p]
               PROVE  Holds(folder[p])'
    BY <1>3 DEF SharedHolds
  <2>1. folder[p] \in Folders
    BY <1>1, StateTypes
  <2>2. CASE Fits(f) /\ folder[p] = f
    BY <1>2, <1>3, <1>4, <1>6, <2>2 DEF Holds, Fits
  <2>3. CASE ~(Fits(f) /\ folder[p] = f)
    <3>1. p # o
      <4>1. ASSUME p = o PROVE FALSE
        BY <1>1, <1>3, <2>3, <4>1 DEF Types, f
      <4> QED BY <4>1
    <3>2. pc[p] = "hashing" /\ ~own[p]
      BY <1>1, <1>3, <3>1 DEF Types
    <3>3. Holds(folder[p]) /\ props'[folder[p]] = props[folder[p]]
      BY <1>1, <1>6, <2>1, <2>3, <3>2 DEF SharedHolds
    <3> QED BY <1>3, <3>3 DEF Holds, Fits
  <2> QED BY <2>2, <2>3
<1>9. LongUnwritten'
  <2> SUFFICES ASSUME NEW g \in Folders, Len(password) > Len(IvOf[g])
               PROVE  props'[g] = SaltOf[g] \o IvOf[g]
    BY <1>3 DEF LongUnwritten
  <2>1. ~(g = f /\ Fits(f))
    <3>1. Len(props[f]) = Len(SaltOf[f]) + Len(IvOf[f])
      BY <1>1, <1>2 DEF SaltStays
    <3> QED BY <1>2, <3>1 DEF Fits
  <2> QED BY <1>1, <1>6, <2>1 DEF LongUnwritten
<1>10. KeyOfFolder' /\ CacheBounded' /\ LongPasswordKeepsIV'
  BY <1>1, <1>3 DEF KeyOfFolder, CacheBounded, LongPasswordKeepsIV, Types
<1> QED BY <1>5, <1>7, <1>8, <1>9, <1>10 DEF Inv
-----------------------------------------------------------------------------
\* Whether the buffer is the goroutine's own or shared, it holds salt and password
\* when it is hashed.
LEMMA BufferHolds ==
    ASSUME Types, SaltStays, SharedHolds, NEW o \in Opens, pc[o] = "hashing"
    PROVE  Buffer(o) = SaltOf[folder[o]] \o password
<1>1. CASE own[o]
  BY <1>1 DEF Buffer
<1>2. CASE ~own[o]
  <2>1. folder[o] \in Folders /\ Holds(folder[o])
    BY <1>2, StateTypes DEF SharedHolds
  <2>2. PICK a \in Seq(Bytes), b \in Seq(Bytes), p \in Seq(Bytes) :
           a = SaltOf[folder[o]] /\ b = password /\ p = props[folder[o]]
    BY <2>1, ConstantTypes, StateTypes
  <2>3. /\ Len(a) + Len(b) <= Len(p)
        /\ \A i \in 1 .. Len(a) : p[i] = a[i]
        /\ \A i \in 1 .. Len(b) : p[Len(a) + i] = b[i]
    BY <2>1, <2>2 DEF Holds, Fits, SaltStays
  <2>4. SubSeq(p, 1, Len(a) + Len(b)) = a \o b
    BY <2>3, FrontIs
  <2> QED BY <1>2, <2>2, <2>4 DEF Buffer
<1> QED BY <1>1, <1>2

\* The key that is derived and cached is the folder's.
LEMMA PasswordHashedInv ==
    ASSUME Inv, NEW o \in Opens, PasswordHashed(o)
    PROVE  Inv'
<1> DEFINE f == folder[o]
           k == Derive(CyclesOf[f], SaltOf[f] \o password)
<1>1. /\ Types /\ SaltStays /\ SharedHolds /\ LongUnwritten
      /\ KeyOfFolder /\ CacheBounded /\ LongPasswordKeepsIV
  BY DEF Inv
<1>2. pc[o] = "hashing" /\ Buffer(o) = SaltOf[f] \o password
  BY <1>1, BufferHolds DEF PasswordHashed
<1>3. /\ key' = [key EXCEPT ![o] = k]
      /\ cache' = Cached(CacheKey(f), k)
      /\ pc' = [pc EXCEPT ![o] = "ready"]
      /\ UNCHANGED <<password, props, folder, iv, own>>
  BY <1>2 DEF PasswordHashed
<1>4. f \in Folders /\ k \in Seq(Bytes) /\ CacheKey(f) \in CacheKeys
  BY <1>1, StateTypes, ConstantTypes, KeyType DEF CacheKey, CacheKeys
<1>5. CacheKey(f).cycles = CyclesOf[f] /\ CacheKey(f).salt = SaltOf[f]
  BY DEF CacheKey
<1> DEFINE ck == CacheKey(f)
<1> HIDE DEF k, f, ck
<1>6. /\ cache' \in Seq(Entries)
      /\ Len(cache') <= CacheSize
      /\ \A j \in 1 .. Len(cache') :
            \/ cache'[j] = [ck |-> ck, key |-> k]
            \/ \E l \in 1 .. Len(cache) : cache'[j] = cache[l]
      /\ \A j, l \in 1 .. Len(cache') : j # l => cache'[j].ck # cache'[l].ck
  <2>1. ck \in CacheKeys /\ cache' = Cached(ck, k)
    BY <1>3, <1>4 DEF ck
  <2> QED BY <1>1, <1>4, <2>1, CachedProperties
<1>7. DOMAIN cache' = 1 .. Len(cache') /\ DOMAIN cache = 1 .. Len(cache)
  BY <1>1, <1>6, LenProperties DEF Types
<1>8. Types'
  BY <1>1, <1>3, <1>4, <1>6 DEF Types
<1>9. SaltStays' /\ LongUnwritten'
  BY <1>1, <1>3 DEF SaltStays, LongUnwritten
<1>10. SharedHolds'
  BY <1>1, <1>3 DEF SharedHolds, Holds, Fits, Types
<1>11. CacheBounded'
  BY <1>6, <1>7 DEF CacheBounded
<1>12. KeyOfFolder'
  <2>1. ASSUME NEW p \in Opens, pc'[p] = "ready"
        PROVE  key'[p] = Derive(CyclesOf[folder[p]], SaltOf[folder[p]] \o password)
    <3>1. CASE p = o
      BY <1>1, <1>3, <3>1 DEF Types, k, f
    <3>2. CASE p # o
      BY <1>1, <1>3, <2>1, <3>2 DEF KeyOfFolder, Types
    <3> QED BY <3>1, <3>2
  <2>2. ASSUME NEW j \in DOMAIN cache'
        PROVE  cache'[j].key = Derive(cache'[j].ck.cycles, cache'[j].ck.salt \o password)
    <3>1. CASE cache'[j] = [ck |-> ck, key |-> k]
      BY <1>5, <3>1 DEF ck, k
    <3>2. CASE \E l \in 1 .. Len(cache) : cache'[j] = cache[l]
      BY <1>1, <1>7, <3>2 DEF KeyOfFolder
    <3> QED BY <1>6, <1>7, <3>1, <3>2
  <2> QED BY <1>3, <2>1, <2>2 DEF KeyOfFolder
<1>13. LongPasswordKeepsIV'
  BY <1>1, <1>2, <1>3 DEF LongPasswordKeepsIV, Types
<1> QED BY <1>8, <1>9, <1>10, <1>11, <1>12, <1>13 DEF Inv

\* A refused open changes nothing but its own state.
LEMMA PasswordRefusedInv ==
    ASSUME Inv, NEW o \in Opens, PasswordRefused(o)
    PROVE  Inv'
<1> USE DEF Inv, PasswordRefused
<1>1. Types'
  BY DEF Types
<1>2. SaltStays' /\ LongUnwritten'
  BY DEF SaltStays, LongUnwritten
<1>3. SharedHolds'
  BY DEF SharedHolds, Holds, Fits, Types
<1>4. KeyOfFolder' /\ CacheBounded'
  BY DEF KeyOfFolder, CacheBounded, Types
<1>5. LongPasswordKeepsIV'
  BY DEF LongPasswordKeepsIV, Types
<1> QED BY <1>1, <1>2, <1>3, <1>4, <1>5

\* Every step preserves the invariant.
LEMMA NextInv == Inv /\ [Next]_vars => Inv'
<1> SUFFICES ASSUME Inv, [Next]_vars PROVE Inv'
  OBVIOUS
<1>1. CASE UNCHANGED vars
  BY <1>1 DEF Inv, vars, Types, SaltStays, SharedHolds, Holds, Fits, LongUnwritten,
              KeyOfFolder, CacheBounded, LongPasswordKeepsIV
<1>2. CASE Next
  BY <1>2, NewReaderInv, PasswordCachedInv, PasswordAppendedInv, PasswordHashedInv,
     PasswordRefusedInv DEF Next
<1> QED BY <1>1, <1>2

-----------------------------------------------------------------------------
\* Every reader that Password made ready decrypts with the key of its folder's salt
\* and cycles, and every key in the cache is the one its cache key stands for,
\* although goroutines write passwords to the properties they share.
THEOREM KeysAreRight == Spec => []KeyOfFolder
<1>1. Inv => KeyOfFolder
  BY DEF Inv
<1> QED BY InitInv, NextInv, <1>1, PTL DEF Spec

\* The key cache never holds more than cacheSize entries or two for one cache key.
THEOREM CacheIsBounded == Spec => []CacheBounded
<1>1. Inv => CacheBounded
  BY DEF Inv
<1> QED BY InitInv, NextInv, <1>1, PTL DEF Spec

\* With a password longer than a folder's IV every reader that NewReader makes of
\* the folder has the IV stored in the archive.
THEOREM LongPasswordsKeepIV == Spec => []LongPasswordKeepsIV
<1>1. Inv => LongPasswordKeepsIV
  BY DEF Inv
<1> QED BY InitInv, NextInv, <1>1, PTL DEF Spec
=============================================================================
