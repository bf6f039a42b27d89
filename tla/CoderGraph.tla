----------------------------- MODULE CoderGraph -----------------------------
(***************************************************************************)
(* A folder's decoders: streamsInfo.folderReader connects the folder's     *)
(* coders through its bind pairs and packed streams, one coder after the   *)
(* other; coderReader makes each decoder with the constructor registered   *)
(* for it, wrapped in a LimitReadCloser; Close runs through the decoders   *)
(* from the last one to the packed streams.  Decoders of zstd, lz4, brotli *)
(* and deflate come from a sync.Pool that all folder readers share and go  *)
(* back to it in Close.                                                    *)
(*                                                                         *)
(* A folder is what readFolder may return, malformed ones included.  Input *)
(* and output streams and coders are numbered from 0, as in the code.      *)
(***************************************************************************)
EXTENDS Integers, Sequences, FiniteSets

CONSTANTS Folders,    \* folders to open: [coder, first, out, bindPair, packed, streams, size]
          Readers,    \* folder readers
          Decoders,   \* decoders of the shared sync.Pool
          NoDecoder,
          Bcj2In,     \* inputs bcj2 needs, 4 in the code
          Faults      \* TRUE: constructors and decoders' Close may fail

\* copy has no wrapper of its own.  A "filter" is bzip2, delta, aes7z or one of
\* bra: Close gives up when its input's Close fails.  lzma and lzma2 close both and
\* forget both; so does ppmd, which may be closed again.  "pooled" are zstd, lz4,
\* brotli and deflate.
Methods == {"copy", "filter", "bcj2", "pooled", "lzma", "ppmd", "unknown"}

\* A folder has coders, and numbers for indexes.  What readFolder computes from the
\* coders: the inputs before each of them, and the number of outputs, which is 1
\* more than that of the bind pairs.
ASSUME FoldersAssumption ==
    \A g \in Folders :
       /\ g.coder \in Seq([method : Methods, in : Nat, out : Nat])
       /\ g.bindPair \in Seq([in : Nat, out : Nat])
       /\ g.packed \in Seq(Nat) /\ g.out \in Nat
       /\ g.first \in [1 .. Len(g.coder) + 1 -> Nat]
       /\ g.first[1] = 0
       /\ \A i \in 1 .. Len(g.coder) : g.first[i + 1] = g.first[i] + g.coder[i].in
       /\ (\A i \in 1 .. Len(g.coder) : g.coder[i].out = 1) => g.out = Len(g.coder)
       /\ Len(g.bindPair) = g.out - 1
ASSUME Bcj2InAssumption == Bcj2In \in Nat \ {0}
ASSUME NoDecoderAssumption == NoDecoder \notin Decoders

VARIABLES f,       \* the folder
          phase,   \* of each reader: "new", "building", "open", "closed", "failed", "panic"
          built,   \* number of coders whose reader is made: out[0 .. built - 1]
          in,      \* the source of each input: an output, Packed or Nil
          node,    \* of each coder: [st, dec], the decoder's wrapper
          shared   \* the sync.Pool of decoders

vars == <<f, phase, built, in, node, shared>>

\* Sources of an input other than an output, and two reasons to have none.
Packed == -1
Nil == -2
Unavailable == -3
OutOfRange == -4

-----------------------------------------------------------------------------
(* The folder.                                                             *)

Coders == 0 .. Len(f.coder) - 1
Coder(i) == f.coder[i + 1]

\* The running sums over the coders' inputs and outputs: coder i reads from input
\* FirstIn(i) on, and f.in is FirstIn of the coder after the last.
FirstIn(i) == f.first[i + 1]
InputsOf(i) == FirstIn(i) .. FirstIn(i + 1) - 1

Inputs == 0 .. FirstIn(Len(f.coder)) - 1
Outputs == 0 .. f.out - 1

\* The bind pairs that a search by input or by output may find, and the one it
\* does find: the first.
InPairs(j) == {k \in 1 .. Len(f.bindPair) : f.bindPair[k].in = j}
OutPairs(o) == {k \in 1 .. Len(f.bindPair) : f.bindPair[k].out = o}
FirstOf(pairs) == CHOOSE k \in pairs : \A l \in pairs : k <= l

\* findInBindPair(j).out, where there is one.
BoundOut(j) == f.bindPair[FirstOf(InPairs(j))].out

Unbound == {o \in Outputs : OutPairs(o) = {}}

\* Mutant: the test is the wrong way round.
UnpackSizeBound == f.size[(CHOOSE o \in Outputs \ Unbound : TRUE) + 1]

\* unpackSize: the size of the last output no bind pair uses.
UnpackSize == f.size[(CHOOSE o \in Unbound : \A q \in Unbound : q <= o) + 1]

\* The size FileFolderAndSize gives to the only file of a folder.
FileSize == f.size[Len(f.coder)]

-----------------------------------------------------------------------------
(* Building                                                                *)

Init ==
    /\ f \in Folders
    /\ phase = [r \in Readers |-> "new"]
    /\ built = [r \in Readers |-> 0]
    /\ in = [r \in Readers |-> [j \in Inputs |-> Nil]]
    /\ node = [r \in Readers |-> [i \in Coders |-> [st |-> "nil", dec |-> NoDecoder]]]
    /\ shared = {}

\* folderReader up to its loop: packed streams go to their inputs.  A packed index
\* that is no input, or a missing pack size, is an index out of range.
Start(r) ==
    /\ phase[r] = "new"
    /\ IF Len(f.packed) > f.streams \/ \E i \in 1 .. Len(f.packed) : f.packed[i] \notin Inputs
       THEN phase' = [phase EXCEPT ![r] = "panic"] /\ UNCHANGED in
       ELSE /\ phase' = [phase EXCEPT ![r] = "building"]
            /\ in' = [in EXCEPT ![r] = [j \in Inputs |->
                          IF \E i \in 1 .. Len(f.packed) : f.packed[i] = j
                          THEN Packed ELSE Nil]]
    /\ UNCHANGED <<f, built, node, shared>>

\* Mutant: an output that is not there yet is taken.
SourceUnbuilt(r, j) ==
    CASE in[r][j] # Nil -> in[r][j]
      [] in[r][j] = Nil /\ InPairs(j) = {} -> Unavailable
      [] in[r][j] = Nil /\ InPairs(j) # {} /\ BoundOut(j) \notin Outputs -> OutOfRange
      [] OTHER -> BoundOut(j)

\* Mutant: neither its index nor its reader is checked.
SourceUnchecked(r, j) ==
    CASE in[r][j] # Nil -> in[r][j]
      [] in[r][j] = Nil /\ InPairs(j) = {} -> Unavailable
      [] OTHER -> BoundOut(j)

\* What input j of the next coder reads, or why there is nothing.
Source(r, j) ==
    CASE in[r][j] # Nil -> in[r][j]
      [] in[r][j] = Nil /\ InPairs(j) = {} -> Unavailable
      [] in[r][j] = Nil /\ InPairs(j) # {} /\ BoundOut(j) \notin Outputs -> OutOfRange
      [] in[r][j] = Nil /\ InPairs(j) # {} /\ BoundOut(j) \in Outputs
           /\ BoundOut(j) >= built[r] -> Unavailable
      [] OTHER -> BoundOut(j)

\* The first input of the next coder without a source decides how it ends.
Failures(r) == {j \in InputsOf(built[r]) : Source(r, j) \in {Unavailable, OutOfRange}}

Connects(r) ==
    /\ phase[r] = "building"
    /\ built[r] \in Coders
    /\ Coder(built[r]).out = 1
    /\ Failures(r) = {}

ConnectFails(r) ==
    /\ phase[r] = "building"
    /\ built[r] \in Coders
    /\ IF Coder(built[r]).out # 1
       THEN phase' = [phase EXCEPT ![r] = "failed"]
       ELSE /\ Failures(r) # {}
            /\ \E j \in Failures(r) :
                  /\ \A k \in Failures(r) : j <= k
                  /\ phase' = [phase EXCEPT ![r] =
                                 IF Source(r, j) = OutOfRange THEN "panic" ELSE "failed"]
    /\ UNCHANGED <<f, built, in, node, shared>>

\* NewReader is called with as many inputs as it needs.
InputsFit(c) == c.in = (IF c.method = "bcj2" THEN Bcj2In ELSE 1)

\* Mutant: Get leaves the decoder in the pool.
TakenKept(d) == UNCHANGED shared

\* sync.Pool.Get removes what it returns.
Taken(d) == shared' = shared \ {d}

\* Every decoder in use or pooled; a new one is another.
Held == {node[r][i].dec : r \in Readers, i \in Coders} \ {NoDecoder}

\* coderReader for the next coder, with decoder d.
Made(r, d) ==
    LET i == built[r] IN
    /\ in' = [in EXCEPT ![r] = [j \in Inputs |->
                 IF j \in InputsOf(i) THEN Source(r, j) ELSE in[r][j]]]
    /\ node' = [node EXCEPT ![r][i] = [st |-> "open", dec |-> d]]
    /\ built' = [built EXCEPT ![r] = @ + 1]
    /\ UNCHANGED <<f, phase>>

MakePlain(r) ==
    /\ Connects(r)
    /\ Coder(built[r]).method \notin {"unknown", "pooled"}
    /\ InputsFit(Coder(built[r]))
    /\ Made(r, NoDecoder)
    /\ UNCHANGED shared

\* The pool has a decoder, which is reset to the new input.
MakeReset(r) ==
    /\ Connects(r)
    /\ Coder(built[r]).method = "pooled"
    /\ InputsFit(Coder(built[r]))
    /\ \E d \in shared : Made(r, d) /\ Taken(d)

\* Get returns nothing, as sync.Pool may at any time: a new decoder.
MakeNew(r) ==
    /\ Connects(r)
    /\ Coder(built[r]).method = "pooled"
    /\ InputsFit(Coder(built[r]))
    /\ \E d \in Decoders \ (shared \cup Held) : Made(r, d)
    /\ UNCHANGED shared

\* No constructor is registered, it needs another number of inputs, or it fails.
MakeFails(r) ==
    /\ Connects(r)
    /\ \/ Coder(built[r]).method = "unknown"
       \/ ~InputsFit(Coder(built[r]))
       \/ Faults
    /\ phase' = [phase EXCEPT ![r] = "failed"]
    /\ UNCHANGED <<f, built, in, node, shared>>

\* Resetting the pooled decoder fails: it is dropped.
ResetFails(r) ==
    /\ Faults
    /\ Connects(r)
    /\ Coder(built[r]).method = "pooled"
    /\ InputsFit(Coder(built[r]))
    /\ \E d \in shared : Taken(d)
    /\ phase' = [phase EXCEPT ![r] = "failed"]
    /\ UNCHANGED <<f, built, in, node>>

\* The last check: exactly one output is unbound, and it is there.
Finish(r) ==
    /\ phase[r] = "building"
    /\ built[r] = Len(f.coder)
    /\ phase' = [phase EXCEPT ![r] =
                   IF Cardinality(Unbound) = 1 THEN "open" ELSE "failed"]
    /\ UNCHANGED <<f, built, in, node, shared>>

-----------------------------------------------------------------------------
(* Close                                                                   *)

Root == CHOOSE o \in Unbound : TRUE

\* Coder i's wrapper forwards Close to its inputs: copy always, others when open.
Forwards(r, i) == Coder(i).method = "copy" \/ node[r][i].st = "open"

\* The coders that read coder i's output.
Consumers(r, i) == {k \in Coders : \E j \in InputsOf(k) : in[r][j] = i}

\* Mutant: a wrapper does not close its inputs.
CalledRoot(r) == {Root}

\* The coders whose Close is called when the last one's is: its own, and those
\* of the coders that one with a forwarded Close reads.
Called(r) ==
    LET called[i \in Coders] ==
            i = Root \/ \E k \in Consumers(r, i) : k > i /\ called[k] /\ Forwards(r, k)
    IN {i \in Coders : called[i]}

\* The methods whose Close forgets its readers even when closing them fails.
ForgetsAlways == {"lzma", "ppmd"}

\* Whether Close of each coder returns nil, when the libraries refuse to close
\* the decoders in bad.
CloseOk(r, bad) ==
    LET ok[i \in Coders] ==
            LET inputs == \A j \in InputsOf(i) : in[r][j] \in Coders => ok[in[r][j]] IN
            CASE Coder(i).method = "copy" -> inputs
              [] Coder(i).method # "copy" /\ node[r][i].st = "open" -> inputs /\ i \notin bad
              [] Coder(i).method = "ppmd" /\ node[r][i].st = "nil" -> TRUE
              [] OTHER -> FALSE
    IN ok

\* The decoders whose own Close may fail: those of lzma, lzma2 and deflate.
CanFail == IF Faults THEN {i \in Coders : Coder(i).method \in {"lzma", "pooled"}} ELSE {}

\* The coders whose wrapper forgets its readers in this Close.
Released(r, called, ok) ==
    {i \in called : /\ node[r][i].st = "open"
                    /\ ok[i] \/ Coder(i).method \in ForgetsAlways}

\* Close of the folder reader; after an error it may be called again.
Close(r) ==
    /\ phase[r] = "open"
    /\ \E bad \in SUBSET CanFail :
          \E ok \in {CloseOk(r, bad)} :
             \E released \in {Released(r, Called(r), ok)} :
                /\ node' = [node EXCEPT ![r] = [i \in Coders |->
                               IF i \in released THEN [st |-> "nil", dec |-> NoDecoder]
                               ELSE node[r][i]]]
                /\ shared' = shared \cup
                     {node[r][i].dec : i \in {k \in Called(r) :
                         Coder(k).method = "pooled" /\ node[r][k].st = "open" /\ ok[k]}}
                /\ phase' = [phase EXCEPT ![r] = IF ok[Root] THEN "closed" ELSE "open"]
    /\ UNCHANGED <<f, built, in>>

Next ==
    \E r \in Readers :
       \/ Start(r) \/ ConnectFails(r)
       \/ MakePlain(r) \/ MakeReset(r) \/ MakeNew(r) \/ MakeFails(r) \/ ResetFails(r)
       \/ Finish(r) \/ Close(r)

Spec == Init /\ [][Next]_vars

-----------------------------------------------------------------------------
(* Properties                                                              *)

\* Every reader is in a phase of folderReader or Close, and every input that has a
\* source reads a packed stream or the output of a coder that exists: an index out
\* of range in a bind pair never becomes a source.
TypeOK ==
    /\ phase \in [Readers -> {"new", "building", "open", "closed", "failed", "panic"}]
    /\ built \in [Readers -> 0 .. Len(f.coder)]
    /\ in \in [Readers -> [Inputs -> {Nil, Packed} \cup Coders]]
    /\ node \in [Readers -> [Coders -> [st : {"nil", "open"}, dec : Decoders \cup {NoDecoder}]]]
    /\ shared \subseteq Decoders

\* Exactly the packed streams that readFolder counts are there: it does not check
\* this for a folder with one packed stream, where bind pairs with the same input
\* leave more inputs without a pair.
PackedCounted == Len(f.packed) = Cardinality(Inputs) - (f.out - 1)

\* An accepted folder is a tree: every input reads one packed stream or the output
\* of an earlier coder, no two inputs share one, and the last coder's output, the
\* only one that nobody reads, is what the folder reader delivers.
AcceptedIsTree ==
    \A r \in Readers : phase[r] \in {"open", "closed"} /\ PackedCounted =>
       /\ Cardinality({j \in Inputs : in[r][j] = Packed}) = Len(f.packed)
       /\ \A i \in Coders : \A j \in InputsOf(i) : in[r][j] = Packed \/ in[r][j] \in 0 .. i - 1
       /\ \A i \in Coders : Cardinality({j \in Inputs : in[r][j] = i}) =
                              (IF i = Len(f.coder) - 1 THEN 0 ELSE 1)
       /\ Root = Len(f.coder) - 1

\* The two sizes of a folder agree: unpackSize, the limit of the folder reader, and
\* the size of the last coder, which is the size of a folder's only file.
SizesAgree ==
    \A r \in Readers : phase[r] \in {"open", "closed"} /\ PackedCounted => UnpackSize = FileSize

\* A decoder of the shared pool has one owner: it is in the pool, or one wrapper
\* of one folder reader has it, whatever is built, closed and fails concurrently.
DecodersExclusive ==
    \A r, q \in Readers : \A i, k \in Coders :
       node[r][i].dec # NoDecoder =>
          /\ node[r][i].dec \notin shared
          /\ node[r][i].dec = node[q][k].dec => r = q /\ i = k

\* The first Close of a folder reader that succeeds reaches every decoder: all
\* wrappers are closed and every pooled decoder is back in the pool.
CloseReleases ==
    [][\A r \in Readers :
          (/\ phase[r] = "open" /\ phase'[r] = "closed"
           /\ PackedCounted
           /\ \A i \in Coders : node[r][i].st = "open")
          => \A i \in Coders :
                /\ node'[r][i].st = "nil"
                /\ node[r][i].dec # NoDecoder => node[r][i].dec \in shared']_vars
=============================================================================
