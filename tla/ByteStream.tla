----------------------------- MODULE ByteStream -----------------------------
(***************************************************************************)
(* What a decoder promises its caller, whatever the sizes of the caller's  *)
(* buffers and of the pieces its input arrives in: successive pieces of    *)
(* one fixed sequence of bytes, io.EOF only after the last of them, and    *)
(* nothing after the end.  A decoder whose input is damaged promises only  *)
(* that it never goes on after an end or an error.                         *)
(***************************************************************************)
EXTENDS Integers, Sequences, SequencesExt

VARIABLES data,    \* the bytes of the stream
          sound,   \* the input is complete
          out,     \* the bytes delivered so far
          res      \* the result of the last Read: "ok", "eof", "err"

vars == <<data, sound, out, res>>

Init ==
    /\ out = <<>>
    /\ res = "ok"

Deliver ==
    /\ res = "ok"
    /\ res' = "ok"
    /\ IsPrefix(out, out')
    /\ sound => IsPrefix(out', data)

End ==
    /\ res = "ok"
    /\ sound => out = data
    /\ res' = "eof"
    /\ out' = out

Fail ==
    /\ res = "ok"
    /\ res' = "err"
    /\ IsPrefix(out, out')

Next == (Deliver \/ End \/ Fail) /\ UNCHANGED <<data, sound>>

Spec == Init /\ [][Next]_vars
=============================================================================
