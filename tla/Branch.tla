------------------------------- MODULE Branch -------------------------------
(***************************************************************************)
(* The branch converters of internal/bra: arm, arm64, ppc, sparc and the   *)
(* x86 converter bcj.  Each turns the relative branch targets of machine   *)
(* code into absolute ones (encoding) or back.                             *)
(*                                                                         *)
(* Words keep their four bytes, but a byte has ByteBits = 4 bits instead   *)
(* of 8 and every field is scaled with it: an instruction keeps its opcode *)
(* field, its operand and the bits the converter must leave alone, and all *)
(* sums wrap at the width of a word.  The opcodes are the code's up to     *)
(* that scaling, and distinct from the bytes 00 and FF, as they are there. *)
(***************************************************************************)
EXTENDS Integers, Sequences, FiniteSetsExt

B == 16          \* values of a byte: 256 in the code
Word == B ^ 4    \* values of a uint32

LittleEndian(s) == s[1] + B * s[2] + B ^ 2 * s[3] + B ^ 3 * s[4]
BigEndian(s) == s[4] + B * s[3] + B ^ 2 * s[2] + B ^ 3 * s[1]

PutLittle(v) == [i \in 1 .. 4 |-> (v \div B ^ (i - 1)) % B]
PutBig(v) == [i \in 1 .. 4 |-> (v \div B ^ (4 - i)) % B]

\* v += d when encoding, v -= d when decoding, in a uint32.
Move(v, d, encoding) == IF encoding THEN (v + d) % Word ELSE (v - d) % Word

-----------------------------------------------------------------------------
(* One aligned instruction b at address ip.                                *)

ArmOp == 14      \* 0xeb, the last byte of a BL

ArmWord(b, ip, encoding) ==
    IF b[4] = ArmOp
    THEN PutLittle((Move(LittleEndian(b), ip \div 4, encoding) % B ^ 3) + ArmOp * B ^ 3)
    ELSE b

\* BL has a tag of 2 bits (6 in the code) and needs the low bits 01.
PpcWord(b, ip, encoding) ==
    IF b[1] \div 4 = 1 /\ b[4] % 4 = 1
    THEN PutBig((Move(BigEndian(b), ip, encoding) % 2 ^ 14) + 2 ^ 14)
    ELSE b

\* CALL has the tag 01 and a displacement whose top bits repeat its sign; the
\* sign bit is bit 12 once the word is shifted by 2 (bit 24 in the code).
SparcSign == 12

SparcWord(b, ip, encoding) ==
    LET v == BigEndian(b)
        flag == 2 ^ SparcSign
        z == ((Move((4 * v) % Word, ip, encoding) % (2 * flag)) - flag) % Word
        flipped == (Word \div flag - 1 - z \div flag) * flag + (z % flag)
    IN IF v \div 2 ^ (SparcSign - 2) \in {16, 31}
       THEN PutBig(flipped \div 4 + Word \div 4)
       ELSE b

(***************************************************************************)
(* arm64.  BL is 10010 and an operand of 11 bits (100101 and 26 bits).     *)
(* ADRP is 1, immlo (2 bits), 2 zero bits (5), immhi (8 bits, 19), Rd      *)
(* (3 bits, 5).  A page is 2 ^ PageBits bytes, 2 ^ 12 in the code.         *)
(***************************************************************************)
PageBits == 3
AdrpFlag == 2 ^ 8

IsAdrp(v) ==
    /\ v \div 2 ^ 15 = 1
    /\ (v \div 2 ^ 11) % 4 = 0
    /\ ((v + AdrpFlag) \div 2 ^ 9) % 4 = 0

AdrpWord(v, ip, encoding) ==
    LET u == (v - 2 ^ 15 + AdrpFlag) % Word
        imm == u - (u % 8) + ((u \div 2 ^ 12) % 8)
        z == Move(imm, 2 * (ip \div 2 ^ PageBits), encoding)
        high == ((z % (2 * AdrpFlag)) - AdrpFlag) % 2 ^ 11
    IN (u % 8) + 2 ^ 15 + ((z \div 2) % 4) * 2 ^ 13 + high - (high % 8)

Arm64Word(b, ip, encoding) ==
    LET v == LittleEndian(b) IN
    IF v \div 2 ^ 11 = 18
    THEN PutLittle((Move(v, ip \div 4, encoding) % 2 ^ 11) + 18 * 2 ^ 11)
    ELSE IF IsAdrp(v) THEN PutLittle(AdrpWord(v, ip, encoding)) ELSE b

-----------------------------------------------------------------------------
(* The converters.  c is a converter's state [ip, state].                  *)

NewConverter == [ip |-> 0, state |-> 0]

Aligned == {"arm", "arm64", "ppc", "sparc"}

Size(kind) == IF kind = "bcj" THEN 5 ELSE 4

ConvertWord(kind, b, ip, encoding) ==
    CASE kind = "arm" -> ArmWord(b, ip, encoding)
      [] kind = "arm64" -> Arm64Word(b, ip, encoding)
      [] kind = "ppc" -> PpcWord(b, ip, encoding)
      [] kind = "sparc" -> SparcWord(b, ip, encoding)

\* Mutant: the address starts again at every call.
FirstIpRestarts(kind, c) == IF kind = "arm" THEN 8 ELSE 0

\* The address of the first word of a call: arm starts at 4, and adds 4 to it
\* before the word instead of after it.
FirstIp(kind, c) ==
    IF kind # "arm" THEN c.ip ELSE IF c.ip = 0 THEN 8 ELSE (c.ip + 4) % Word

ConvertAligned(kind, c, b, encoding) ==
    LET words == Len(b) \div 4
        ip == FirstIp(kind, c)
        word(i) == ConvertWord(kind, SubSeq(b, 4 * i + 1, 4 * i + 4),
                               (ip + 4 * i) % Word, encoding)
        after == ip + 4 * words - (IF kind = "arm" THEN 4 ELSE 0)
    IN [n |-> 4 * words,
        b |-> [k \in 1 .. Len(b) |->
                  IF k <= 4 * words THEN word((k - 1) \div 4)[((k - 1) % 4) + 1] ELSE b[k]],
        c |-> [c EXCEPT !.ip = after % Word]]

-----------------------------------------------------------------------------
(* bcj.Convert: the bits of mask say which of the three bytes before the   *)
(* current one looked like an opcode and was not converted.                *)

CallOps == {12, 13}      \* 0xe8 and 0xe9

Test86MSByte(x) == x \in {0, B - 1}

\* The operand v of the opcode at b[p + 1], with its address cur and mask m.
BcjOperand(v, cur, m, encoding) ==
    LET moved == Move(v, cur, encoding)
        low == B ^ (m \div 2 + 1)
        flipped == moved - 2 * (moved % low) + low - 1
    IN IF m # 0 /\ Test86MSByte((moved \div B ^ (m \div 2)) % B)
       THEN Move(flipped, cur, encoding)
       ELSE moved

BcjConverted(b, p, ip, m, encoding) ==
    LET v == PutLittle(BcjOperand(LittleEndian(SubSeq(b, p + 2, p + 5)),
                                  (ip + 5 + p) % Word, m, encoding))
    IN [b EXCEPT ![p + 2] = v[1], ![p + 3] = v[2], ![p + 4] = v[3],
                 ![p + 5] = IF v[4] % 2 = 1 THEN B - 1 ELSE 0]

\* An opcode that follows other opcodes closely is skipped.
BcjSkips(b, p, m) ==
    m # 0 /\ (m > 4 \/ m = 3 \/ Test86MSByte(b[p + m \div 2 + 2]))

\* The next opcode at or after pos, or else the end of what can be looked at.
NextOp(b, pos) ==
    LET ops == {p \in pos .. Len(b) - 5 : b[p + 1] \in CallOps}
    IN IF ops = {} THEN Max({pos, Len(b) - 4}) ELSE Min(ops)

\* The bits of mask, d bytes later.
MaskAfter(mask, d) == IF d > 2 THEN 0 ELSE mask \div 2 ^ d

\* The variables of the loop of bcj.Convert.
BcjState == [b : Seq(0 .. B - 1), pos : Nat, mask : 0 .. 7, ip : Nat, encoding : BOOLEAN]

\* The loop over the bytes b from pos on.
BcjLoop[s \in BcjState] ==
    LET p == NextOp(s.b, s.pos)
        m == MaskAfter(s.mask, p - s.pos)
        skipped == [s EXCEPT !.pos = p + 1, !.mask = m \div 2 + 4]
    IN CASE p >= Len(s.b) - 4 -> [b |-> s.b, pos |-> p, state |-> m]
         [] p < Len(s.b) - 4 /\ ~BcjSkips(s.b, p, m) /\ Test86MSByte(s.b[p + 5]) ->
               BcjLoop[[s EXCEPT !.b = BcjConverted(@, p, s.ip, m, s.encoding),
                                 !.pos = p + 5, !.mask = 0]]
         [] OTHER -> BcjLoop[skipped]

ConvertX86(c, b, encoding) ==
    LET r == BcjLoop[[b |-> b, pos |-> 0, mask |-> c.state, ip |-> c.ip,
                      encoding |-> encoding]]
    IN [n |-> r.pos, b |-> r.b, c |-> [ip |-> (c.ip + r.pos) % Word, state |-> r.state]]

\* Convert(b, encoding): how many bytes are done, the bytes, the new state.
Convert(kind, c, b, encoding) ==
    CASE Len(b) < Size(kind) -> [n |-> 0, b |-> b, c |-> c]
      [] Len(b) >= Size(kind) /\ kind = "bcj" -> ConvertX86(c, b, encoding)
      [] OTHER -> ConvertAligned(kind, c, b, encoding)
=============================================================================
