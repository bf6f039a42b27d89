----------------------------- MODULE AesReader -----------------------------
(***************************************************************************)
(* Opening encrypted folders (internal/aes7z): NewReader, Password and the *)
(* key cache, called by goroutines that open the same or different folders *)
(* of one archive.                                                         *)
(*                                                                         *)
(* A folder's coder properties are one array that all its readers share:   *)
(* salt and IV follow each other in it, and a reader's salt is a slice     *)
(* with room up to the array's end.  calculateKey writes the password      *)
(* behind the salt, in the array itself if it fits there.                  *)
(***************************************************************************)
EXTENDS Integers, SequencesExt

CONSTANTS Opens,      \* calls of folderReader, concurrent or one after the other
          Folders,    \* encrypted folders
          SaltOf,     \* each folder's salt, a sequence of bytes
          IvOf,       \* its IV as stored, not longer than a block
          CyclesOf,   \* its cycles power
          Passwords,  \* UTF-16 passwords the archive may have been opened with
          BlockSize,  \* aes.BlockSize (16)
          CacheSize,  \* cacheSize (10)
          MaxCycles,  \* maxCyclesPower (24)
          RawCycles   \* 0x3f: no hashing

ASSUME AesAssumption ==
    /\ SaltOf \in [Folders -> Seq(Nat)] /\ IvOf \in [Folders -> Seq(Nat)]
    /\ CyclesOf \in [Folders -> Nat]
    /\ Passwords \subseteq Seq(Nat)
    /\ CacheSize \in Nat \ {0}
    /\ \A f \in Folders : Len(IvOf[f]) <= BlockSize

VARIABLES password,  \* Reader.p
          props,     \* coder.properties of each folder, after its two size bytes
          cache,     \* entries [ck, key], most recently used first
          pc,        \* of each open: "none", "made", "hashing", "ready", "error"
          folder,    \* the folder it opens
          iv,        \* readCloser.iv
          own,       \* calculateKey's buffer is an array of its own
          key        \* the key of readCloser.cbc

vars == <<password, props, cache, pc, folder, iv, own, key>>

NoKey == <<>>

Init ==
    /\ password \in Passwords
    /\ props = [f \in Folders |-> SaltOf[f] \o IvOf[f]]
    /\ cache = <<>>
    /\ pc = [o \in Opens |-> "none"]
    /\ folder \in [Opens -> Folders]
    /\ iv = [o \in Opens |-> <<>>]
    /\ own = [o \in Opens |-> FALSE]
    /\ key = [o \in Opens |-> NoKey]

Pad(s) == s \o [i \in 1 .. BlockSize - Len(s) |-> 0]

\* Mutant: the salt is not part of the cache key.
CacheKeyNoSalt(f) == [password |-> password, cycles |-> CyclesOf[f], salt |-> <<>>]

CacheKey(f) == [password |-> password, cycles |-> CyclesOf[f], salt |-> SaltOf[f]]

Hits(f) == {i \in DOMAIN cache : cache[i].ck = CacheKey(f)}

\* The key for the bytes in calculateKey's buffer: hashed 2^cycles times, or as
\* they are.
Derive(cycles, bytes) == <<cycles>> \o bytes

\* NewReader: the reader has an IV of its own, as the properties have it now.
NewReader(o) ==
    LET f == folder[o]
    IN  /\ pc[o] = "none"
        /\ iv' = [iv EXCEPT ![o] = Pad(SubSeq(props[f], Len(SaltOf[f]) + 1, Len(props[f])))]
        /\ pc' = [pc EXCEPT ![o] = "made"]
        /\ UNCHANGED <<password, props, cache, folder, own, key>>

\* Password finds the key in the cache, which makes it the most recently used.
PasswordCached(o) ==
    /\ pc[o] = "made"
    /\ \E i \in Hits(folder[o]) :
          /\ key' = [key EXCEPT ![o] = cache[i].key]
          /\ cache' = <<cache[i]>> \o RemoveAt(cache, i)
    /\ pc' = [pc EXCEPT ![o] = "ready"]
    /\ UNCHANGED <<password, props, folder, iv, own>>

\* Mutant: the buffer never gets an array of its own.
FitsAlways(f) == TRUE

\* The password fits behind the salt.
Fits(f) == Len(SaltOf[f]) + Len(password) <= Len(props[f])

\* calculateKey appends the password to the salt.
PasswordAppended(o) ==
    LET f    == folder[o]
        room == SubSeq(props[f], Len(SaltOf[f]) + Len(password) + 1, Len(props[f]))
    IN  /\ pc[o] = "made"
        /\ Hits(f) = {}
        /\ props' = IF Fits(f) THEN [props EXCEPT ![f] = SaltOf[f] \o password \o room] ELSE props
        /\ own' = [own EXCEPT ![o] = ~Fits(f)]
        /\ pc' = [pc EXCEPT ![o] = "hashing"]
        /\ UNCHANGED <<password, cache, folder, iv, key>>

\* What the buffer holds by now.
Buffer(o) ==
    LET f == folder[o]
    IN  IF own[o] THEN SaltOf[f] \o password
        ELSE SubSeq(props[f], 1, Len(SaltOf[f]) + Len(password))

\* The cache without the entry of ck.
Without(ck) ==
    LET at == {i \in DOMAIN cache : cache[i].ck = ck}
    IN  IF at = {} THEN cache ELSE RemoveAt(cache, CHOOSE i \in at : TRUE)

\* Mutant: a full cache grows.
CachedUnbounded(ck, k) == <<[ck |-> ck, key |-> k]>> \o Without(ck)

\* An entry goes to the front of the cache, the oldest one out of a full cache; the
\* entry of another goroutine that was faster is replaced.
Cached(ck, k) ==
    LET all == <<[ck |-> ck, key |-> k]>> \o Without(ck)
    IN  SubSeq(all, 1, IF Len(all) > CacheSize THEN CacheSize ELSE Len(all))

TooManyCycles(f) == CyclesOf[f] > MaxCycles /\ CyclesOf[f] # RawCycles

\* The key is derived and cached.
PasswordHashed(o) ==
    LET f == folder[o]
        k == Derive(CyclesOf[f], Buffer(o))
    IN  /\ pc[o] = "hashing"
        /\ ~TooManyCycles(f)
        /\ key' = [key EXCEPT ![o] = k]
        /\ cache' = Cached(CacheKey(f), k)
        /\ pc' = [pc EXCEPT ![o] = "ready"]
        /\ UNCHANGED <<password, props, folder, iv, own>>

\* errCyclesPowerTooLarge: opening fails.
PasswordRefused(o) ==
    /\ pc[o] = "hashing"
    /\ TooManyCycles(folder[o])
    /\ pc' = [pc EXCEPT ![o] = "error"]
    /\ UNCHANGED <<password, props, cache, folder, iv, own, key>>

Next == \E o \in Opens :
    \/ NewReader(o) \/ PasswordCached(o) \/ PasswordAppended(o)
    \/ PasswordHashed(o) \/ PasswordRefused(o)

Spec == Init /\ [][Next]_vars

-----------------------------------------------------------------------------
(* Properties                                                              *)

\* A reader decrypts with the key of its own folder's salt and cycles, whether it
\* came from the cache or was derived while another goroutine wrote to the same
\* properties; and every cached key is the one its cache key stands for.
KeyOfFolder ==
    /\ \A o \in Opens : pc[o] = "ready" =>
          key[o] = Derive(CyclesOf[folder[o]], SaltOf[folder[o]] \o password)
    /\ \A i \in DOMAIN cache :
          cache[i].key = Derive(cache[i].ck.cycles, cache[i].ck.salt \o password)

\* The cache holds at most CacheSize keys, no two for the same cache key.
CacheBounded ==
    /\ Len(cache) <= CacheSize
    /\ \A i, j \in DOMAIN cache : i # j => cache[i].ck # cache[j].ck

\* A password longer than the folder's IV leaves every reader of the folder the
\* stored IV, however often and concurrently the folder is opened.
LongPasswordKeepsIV ==
    \A o \in Opens :
        pc[o] # "none" /\ Len(password) > Len(IvOf[folder[o]]) => iv[o] = Pad(IvOf[folder[o]])

\* "The Reader stays usable: the next File.Open simply starts a new folder reader"
\* (reader.go:607): every reader of a folder has the IV stored in the archive, and
\* so decrypts the folder's first block right.
EveryOpenHasIV ==
    \A o \in Opens : pc[o] = "ready" => iv[o] = Pad(IvOf[folder[o]])
=============================================================================
