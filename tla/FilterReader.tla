---------------------------- MODULE FilterReader ----------------------------
(***************************************************************************)
(* The filters' Read methods: internal/delta, the branch reader of         *)
(* internal/bra with its five converters, internal/bcj2, and the block     *)
(* buffering of internal/aes7z, each behind the LimitReadCloser of         *)
(* coderReader.  A caller reads with buffers of any length; the input may  *)
(* deliver short pieces, may be cut short, and may fail.                   *)
(*                                                                         *)
(* One reader is modelled at a time: the initial state picks a kind of     *)
(* filter, a stream and its encoded form.  A Read is one step, since a     *)
(* reader belongs to one caller (PooledReader, ExclusiveReaders).          *)
(***************************************************************************)
EXTENDS Branch, SequencesExt

CONSTANTS Streams,      \* for each kind of filter, the streams to decode
          Lens,         \* lengths of the caller's buffers
          Distances,    \* property bytes of the delta filter
          BlockSize,    \* aes.BlockSize
          BufCap,       \* capacity bcj2 asks for its buffer, 1 << 16 in the code
          Cuts,         \* numbers of bytes the input may be short of
          Faults        \* TRUE: the input may fail

ASSUME LensAssumption == Lens \subseteq Nat \ {0}
ASSUME DistancesAssumption == Distances \subseteq 0 .. B - 1
ASSUME BoundsAssumption == /\ BlockSize \in Nat \ {0} /\ BufCap \in Nat
                           /\ Cuts \subseteq Nat \ {0} /\ Faults \in BOOLEAN

VARIABLES kind,     \* which filter
          data,     \* the decoded stream
          complete, \* nothing of the input is missing
          src,      \* what is left of the input
          rc,       \* the filter's readCloser
          out,      \* the bytes delivered so far
          res       \* result of the last Read: "ok", "eof", "err" or "hang"

vars == <<kind, data, complete, src, rc, out, res>>

Kinds == Aligned \cup {"bcj", "delta", "aes", "bcj2"}

Bytes == 0 .. B - 1

Take(s, n) == SubSeq(s, 1, Min({n, Len(s)}))
Drop(s, n) == SubSeq(s, n + 1, Len(s))

-----------------------------------------------------------------------------
(* The delta filter.  rc = [delta, state].                                 *)

\* NewReader: p[0] + 1 is a byte.
NewDelta(p0) == [delta |-> (p0 + 1) % B, state |-> [i \in 1 .. (p0 + 1) % B |-> 0]]

\* Reference: each byte is replaced by its difference to the one delta before.
DeltaEncode(s, d) ==
    [i \in 1 .. Len(s) |-> IF i <= d THEN s[i] ELSE (s[i] - s[i - d]) % B]

\* The bytes p after the loop: each is added to the byte delta places before it,
\* in the same piece or in the state.
DeltaDecode(d, state, p) ==
    LET dec[i \in 1 .. Len(p)] ==
            (p[i] + (IF i <= d THEN state[i] ELSE dec[i - d])) % B
    IN [i \in 1 .. Len(p) |-> dec[i]]

\* The local buffer after the loop: of every residue the last byte decoded.
DeltaBuffer(d, state, dec) ==
    [j \in 1 .. d |-> LET seen == {i \in 1 .. Len(dec) : (i - j) % d = 0}
                      IN IF seen = {} THEN state[j] ELSE dec[Max(seen)]]

\* Mutant: the state is not rotated to where the next byte goes.
DeltaStateUnrotated(d, state, dec) == DeltaBuffer(d, state, dec)

\* The new state: buffer[j:delta] and then buffer[:j].
DeltaState(d, state, dec) ==
    LET j == IF dec = <<>> THEN 0 ELSE Len(dec) % d
    IN Drop(DeltaBuffer(d, state, dec), j) \o Take(DeltaBuffer(d, state, dec), j)

\* With delta = 0 the loop of Read never ends.
DeltaRead(p) ==
    /\ kind = "delta"
    /\ \E n \in (IF src = <<>> THEN {0} ELSE 1 .. Min({p, Len(src)})) :
          IF n > 0 /\ rc.delta = 0
          THEN res' = "hang" /\ UNCHANGED <<src, rc, out>>
          ELSE \E dec \in {DeltaDecode(rc.delta, rc.state, Take(src, n))} :
                 /\ out' = out \o dec
                 /\ src' = Drop(src, n)
                 /\ rc' = [rc EXCEPT !.state = DeltaState(rc.delta, rc.state, dec)]
                 /\ res' = "ok"

\* The input fails after n bytes: they are returned as they are, undecoded.
DeltaReadFails(p) ==
    /\ kind = "delta"
    /\ \E n \in 0 .. Min({p, Len(src)}) :
          /\ out' = out \o Take(src, n)
          /\ src' = Drop(src, n)
    /\ UNCHANGED rc

-----------------------------------------------------------------------------
(* The branch filters.  rc = [buf, n, conv].                               *)

NewBra == [buf |-> <<>>, n |-> 0, conv |-> NewConverter]

BraKinds == Aligned \cup {"bcj"}

\* Mutant: at the end of the input the rest is not released.
ConvertedNoTail(buf, n, eof) == n

\* Mutant: at the end of the input a whole instruction counts as converted.
ConvertedWhole(buf, n, eof) == IF eof /\ Len(buf) < Size(kind) THEN Size(kind) ELSE n

\* rc.n before Convert: at the end of the input what is too short to convert
\* counts as converted.
Converted(buf, n, eof) == IF eof /\ Len(buf) < Size(kind) THEN Len(buf) ELSE n

\* Read after io.CopyN has filled the buffer.
BraDeliver(p, buf, n) ==
    \E r \in {Convert(kind, rc.conv, Drop(buf, n), FALSE)} :
       \E done \in {n + r.n} :
          \E k \in {Min({done, p})} :
             /\ out' = out \o Take(Take(buf, n) \o r.b, k)
             /\ rc' = [buf |-> Drop(Take(buf, n) \o r.b, k), n |-> done - k, conv |-> r.c]
             /\ res' = "ok"

BraRead(p) ==
    /\ kind \in BraKinds
    /\ \E want \in {Max({p, Size(kind)}) - Len(rc.buf)} :
          LET got == Min({Max({want, 0}), Len(src)})
              buf == rc.buf \o Take(src, got)
          IN /\ src' = Drop(src, got)
             /\ IF got < want /\ buf = <<>>
                THEN res' = "eof" /\ UNCHANGED <<rc, out>>
                ELSE BraDeliver(p, buf, Converted(buf, rc.n, got < want))

\* io.CopyN fails after some bytes: they stay in the buffer.
BraReadFails(p) ==
    /\ kind \in BraKinds
    /\ \E got \in 0 .. Min({Max({p, Size(kind)}) - Len(rc.buf), Len(src)}) :
          /\ rc' = [rc EXCEPT !.buf = @ \o Take(src, got)]
          /\ src' = Drop(src, got)
    /\ UNCHANGED out

-----------------------------------------------------------------------------
(* AES.  rc = [buf, last]: the decrypted bytes, and the previous block of  *)
(* the cipher text, which CBC chains.  The cipher is any permutation of    *)
(* the blocks, here a sum; blocks are numbers.                             *)

AesKey == 7
AesIV == 3
Blocks == B ^ BlockSize

NewAes == [buf |-> <<>>, last |-> AesIV]

BlockValue(s) == LET v[i \in 0 .. Len(s)] == IF i = 0 THEN 0 ELSE B * v[i - 1] + s[i]
                 IN v[Len(s)]
BlockBytes(v) == [i \in 1 .. BlockSize |-> (v \div B ^ (BlockSize - i)) % B]

\* Reference: cipher block chaining of the stream padded to whole blocks.
RECURSIVE CbcEncrypt(_, _)
CbcEncrypt(s, last) ==
    IF s = <<>> THEN <<>>
    ELSE LET p == Take(s \o [i \in 1 .. BlockSize |-> 0], BlockSize)
             c == (BlockValue(p) + last + AesKey) % Blocks
         IN BlockBytes(c) \o CbcEncrypt(Drop(s, BlockSize), c)

\* CryptBlocks on one block.
CryptBlock(c, last) == BlockBytes((c - AesKey - last) % Blocks)

\* Mutant: every block is chained to the initialisation vector.
AesBlocksUnchained(s, last, n) ==
    [i \in 1 .. n |-> CryptBlock(BlockValue(SubSeq(s, (i - 1) * BlockSize + 1, i * BlockSize)), AesIV)]

\* The first n blocks of s, decrypted.
AesBlocks(s, last, n) ==
    LET c[i \in 0 .. n] == IF i = 0 THEN last
                           ELSE BlockValue(SubSeq(s, (i - 1) * BlockSize + 1, i * BlockSize))
    IN [i \in 1 .. n |-> CryptBlock(c[i], c[i - 1])]

\* How many more blocks Read wants for a buffer of length p.
AesWanted(p) == (Max({p - Len(rc.buf), 0}) + BlockSize - 1) \div BlockSize

\* rc after n more blocks.
AesFilled(n) ==
    [buf |-> rc.buf \o FlattenSeq(AesBlocks(src, rc.last, n)),
     last |-> IF n = 0 THEN rc.last
              ELSE BlockValue(SubSeq(src, (n - 1) * BlockSize + 1, n * BlockSize))]

\* io.EOF between blocks ends the loop, an end inside a block is an error.
AesRead(p) ==
    /\ kind = "aes"
    /\ \E n \in {Min({AesWanted(p), Len(src) \div BlockSize})} :
          \E filled \in {AesFilled(n)} :
             IF n < AesWanted(p) /\ Len(src) > n * BlockSize
             THEN res' = "err" /\ rc' = filled /\ src' = <<>> /\ out' = out
             ELSE /\ res' = IF filled.buf = <<>> THEN "eof" ELSE "ok"
                  /\ out' = out \o Take(filled.buf, Min({p, Len(filled.buf)}))
                  /\ rc' = [filled EXCEPT !.buf = Drop(@, Min({p, Len(@)}))]
                  /\ src' = Drop(src, n * BlockSize)

\* io.ReadFull fails after n blocks.
AesReadFails(p) ==
    /\ kind = "aes"
    /\ \E n \in 0 .. Min({AesWanted(p) - 1, Len(src) \div BlockSize}) :
          rc' = AesFilled(n) /\ src' = Drop(src, n * BlockSize)
    /\ UNCHANGED out

-----------------------------------------------------------------------------
(***************************************************************************)
(* BCJ2.  src = [main, call, jump, rd, early], rc = [buf, previous,        *)
(* written].  The range coder is abstracted to what its two ends must      *)
(* agree on: rd holds the coded bits, each with the probability it was     *)
(* coded under, and decoding under another one gives any bit.  With early, *)
(* main is read through byteReadCloser and its reader returns the last     *)
(* byte together with io.EOF: ReadByte drops that byte.                    *)
(***************************************************************************)
NewBcj2 == [buf |-> <<>>, previous |-> 0, written |-> 0]

IsJcc(b0, b1) == b0 = 7 /\ b1 \in {8, 9}       \* 0f 8x

IsJ(b0, b1) == b1 \in CallOps \/ IsJcc(b0, b1)

\* The probability a jump's bit is coded under.
Index(b0, b1) == IF b1 = 12 THEN b0 ELSE IF b1 = 13 THEN B ELSE B + 1

\* decode(i): the bits it may return.
Decode(i) ==
    IF src.rd # <<>> /\ Head(src.rd).index = i THEN {Head(src.rd).bit} ELSE BOOLEAN

\* How many bytes ReadByte gets from main, and the byte before byte t of it.
Available == Len(src.main) - (IF src.early /\ src.main # <<>> THEN 1 ELSE 0)
Previous(t) == IF t = 1 THEN rc.previous ELSE src.main[t - 1]

Jumps == {t \in 1 .. Available : IsJ(Previous(t), src.main[t])}

\* rc after the first t bytes of main, none of them a jump.
Copied(t) == [buf |-> rc.buf \o Take(src.main, t),
              previous |-> IF t = 0 THEN rc.previous ELSE src.main[t],
              written |-> (rc.written + t) % Word]

\* read() that meets no jump: it stops when the buffer, which has room for
\* BufCap bytes or has grown, is full, or at the end of main.
PlainOutcomes ==
    {[rc |-> Copied(t), src |-> [src EXCEPT !.main = Drop(@, t)], err |-> FALSE] :
        t \in {u \in 1 .. Available : Len(rc.buf) + u >= BufCap /\ \A j \in Jumps : u < j}}
    \cup (IF Jumps # {} THEN {}
          ELSE {[rc |-> Copied(Available), src |-> [src EXCEPT !.main = <<>>], err |-> FALSE]})

\* Mutant: the operand is relative to its own start.
OperandAtStart(s, written) == (BigEndian(s) - written) % Word

\* The operand of a jump is relative to the end of the instruction.
Operand(s, written) == (BigEndian(s) - (written + 4)) % Word

\* read() at its first jump, byte t of main, once the bit is decoded.  An empty
\* call or jump stream is io.EOF, which Read ignores; the byte stays written.
JumpOutcome(t, bit) ==
    LET at == [Copied(t - 1) EXCEPT !.buf = Append(@, src.main[t]), !.written = (@ + 1) % Word]
        rest == [src EXCEPT !.main = Drop(@, t), !.rd = IF @ = <<>> THEN @ ELSE Tail(@)]
        stream == IF src.main[t] = 12 THEN "call" ELSE "jump"
        dest == Operand(src[stream], at.written)
    IN CASE ~bit ->
              [rc |-> [at EXCEPT !.previous = src.main[t]], src |-> rest, err |-> FALSE]
         [] bit /\ Len(src[stream]) >= 4 ->
              [rc |-> [buf |-> at.buf \o PutLittle(dest), previous |-> dest \div B ^ 3,
                       written |-> (at.written + 4) % Word],
               src |-> [rest EXCEPT ![stream] = Drop(@, 4)], err |-> FALSE]
         [] OTHER ->
              [rc |-> at, src |-> [rest EXCEPT ![stream] = <<>>],
               err |-> src[stream] # <<>>]

ReadOutcomes ==
    PlainOutcomes \cup
    (IF Jumps = {} THEN {}
     ELSE LET t == Min(Jumps)
          IN {JumpOutcome(t, bit) : bit \in Decode(Index(Previous(t), src.main[t]))})

Bcj2Read(p) ==
    /\ kind = "bcj2"
    /\ \E o \in ReadOutcomes :
          LET k == Min({p, Len(o.rc.buf)}) IN
          /\ src' = o.src
          /\ IF o.err THEN res' = "err" /\ rc' = o.rc /\ out' = out
             ELSE /\ res' = IF o.rc.buf = <<>> THEN "eof" ELSE "ok"
                  /\ rc' = [o.rc EXCEPT !.buf = Drop(@, k)]
                  /\ out' = out \o Take(o.rc.buf, k)

\* Reading main, or one of the other streams at the first jump, fails.
Bcj2ReadFails(p) ==
    /\ kind = "bcj2"
    /\ \E t \in 0 .. Available :
          /\ \A j \in Jumps : t < j
          /\ rc' = Copied(t)
          /\ src' = [src EXCEPT !.main = Drop(@, t)]
    /\ UNCHANGED out

\* Reference: the BCJ2 encodings of s from byte i on, where each jump with four
\* bytes after it may or may not be converted.
RECURSIVE Bcj2Encodings(_, _, _)
Bcj2Encodings(s, i, prev) ==
    IF i > Len(s) THEN {[main |-> <<>>, call |-> <<>>, jump |-> <<>>, rd |-> <<>>]}
    ELSE LET b == s[i]
             coded(bit) == IF IsJ(prev, b)
                           THEN <<[index |-> Index(prev, b), bit |-> bit]>> ELSE <<>>
             stream == IF b = 12 THEN "call" ELSE "jump"
             dest == (LittleEndian(SubSeq(s, i + 1, i + 4)) + i + 4) % Word
         IN {[e EXCEPT !.main = <<b>> \o @, !.rd = coded(FALSE) \o @] :
                e \in Bcj2Encodings(s, i + 1, b)}
            \cup (IF ~IsJ(prev, b) \/ i + 4 > Len(s) THEN {}
                  ELSE {[e EXCEPT !.main = <<b>> \o @, !.rd = coded(TRUE) \o @,
                                  ![stream] = PutBig(dest) \o @] :
                           e \in Bcj2Encodings(s, i + 5, s[i + 4])})

-----------------------------------------------------------------------------
(* The reader of one coder.                                                *)

\* The readers that NewReader may return for a stream, and their inputs.
Readers(k, s) ==
    CASE k \in BraKinds ->
           {[rc |-> NewBra, src |-> Convert(k, NewConverter, s, TRUE).b]}
      [] k = "delta" ->
           {[rc |-> NewDelta(p0), src |-> DeltaEncode(s, p0 + 1)] : p0 \in Distances}
      [] k = "aes" -> {[rc |-> NewAes, src |-> CbcEncrypt(s, AesIV)]}
      [] k = "bcj2" ->
           {[rc |-> NewBcj2, src |-> [early |-> early] @@ e] :
               early \in BOOLEAN, e \in Bcj2Encodings(s, 1, 0)}

\* The input, with n bytes missing at the end of it or of bcj2's call stream.
CutInput(k, s, n) ==
    IF k = "bcj2"
    THEN {[s EXCEPT !.main = Take(@, Max({Len(@) - n, 0}))],
          [s EXCEPT !.call = Take(@, Max({Len(@) - n, 0}))]}
    ELSE {Take(s, Max({Len(s) - n, 0}))}

Init ==
    /\ kind \in Kinds
    /\ data \in Streams[kind]
    /\ \E r \in Readers(kind, data) :
          /\ rc = r.rc
          /\ \/ complete = TRUE /\ src = r.src
             \/ complete = FALSE /\ \E n \in Cuts : src \in CutInput(kind, r.src, n)
    /\ out = <<>>
    /\ res = "ok"

\* Mutant: the reader is not limited to the coder's size.
LimitNone(p) == p

\* What io.LimitedReader leaves of a buffer of length p.
Limit(p) == Min({p, Len(data) - Len(out)})

\* The limit is reached: io.EOF without a Read of the filter.
LimitEOF ==
    /\ res = "ok"
    /\ Limit(1) = 0
    /\ res' = "eof"
    /\ UNCHANGED <<kind, data, complete, src, rc, out>>

\* A Read of the filter.
Read ==
    /\ res = "ok"
    /\ \E p \in {Limit(len) : len \in Lens} \ {0} :
          DeltaRead(p) \/ BraRead(p) \/ AesRead(p) \/ Bcj2Read(p)
    /\ UNCHANGED <<kind, data, complete>>

\* A Read of the filter whose input fails.
ReadFails ==
    /\ Faults
    /\ res = "ok"
    /\ res' = "err"
    /\ \E p \in {Limit(len) : len \in Lens} \ {0} :
          DeltaReadFails(p) \/ BraReadFails(p) \/ AesReadFails(p) \/ Bcj2ReadFails(p)
    /\ UNCHANGED <<kind, data, complete>>

Next == LimitEOF \/ Read \/ ReadFails

\* The caller reads until it is told to stop, as io.Copy does.
Fairness == WF_vars(LimitEOF \/ Read)

Spec == Init /\ [][Next]_vars /\ Fairness

-----------------------------------------------------------------------------
(* Properties                                                              *)

\* The readers' fields are of their types: only bytes are delivered, delta's state
\* is as long as its distance, and what bra counts as converted is in its buffer,
\* or rc.buf.Bytes()[rc.n:] would panic.
TypeOK ==
    /\ kind \in Kinds
    /\ data \in Seq(Bytes) /\ out \in Seq(Bytes)
    /\ complete \in BOOLEAN
    /\ res \in {"ok", "eof", "err", "hang"}
    /\ kind # "bcj2" => src \in Seq(Bytes)
    /\ kind # "delta" => rc.buf \in Seq(Bytes)
    /\ kind \in BraKinds => rc.n \in 0 .. Len(rc.buf)
    /\ kind = "delta" => Len(rc.state) = rc.delta

\* The inputs the filters decode: whole ones, delta's with a distance that fits
\* its byte, bcj2's whose main stream ends with an io.EOF of its own.
Sound ==
    /\ complete
    /\ kind = "delta" => rc.delta # 0
    /\ kind = "bcj2" => ~src.early

\* However the caller and the input cut the stream into pieces, the filters
\* deliver the stream that was encoded, and end it only where it ends.
Stream == INSTANCE ByteStream WITH sound <- Sound,
                                   res <- IF res = "hang" THEN "ok" ELSE res

DeliversStream == Stream!Spec

\* What a reader holds back is what comes next: the converted part of bra's
\* buffer, the decrypted blocks of aes7z, delta's last bytes.  So a byte is
\* never converted twice and never skipped between two calls of Read.
BufferedIsNext ==
    Sound /\ res # "err" =>
       /\ kind \in BraKinds => IsPrefix(out \o Take(rc.buf, rc.n), data)
       /\ kind = "aes" => IsPrefix(Take(out \o rc.buf, Len(data)), data)
       /\ kind = "bcj2" => IsPrefix(out \o rc.buf, data)
       /\ kind = "delta" =>
             rc.state = SubSeq([i \in 1 .. rc.delta |-> 0] \o out, Len(out) + 1,
                               Len(out) + rc.delta)

\* Delta never reports the end of its input, and loops for ever with distance 0.
Stalls == kind = "delta" /\ (~complete \/ rc.delta = 0)

\* Every other stream, complete or not, comes to an end or to an error.
Ends == ~Stalls => <>(res \in {"eof", "err"})
=============================================================================
