---------------------------- MODULE FileStreams ----------------------------
(***************************************************************************)
(* What File.Open promises to its callers: every open handle is a cursor   *)
(* of its own over the bytes of its file, whatever the other handles do.   *)
(* Folder byte i is identified with its position i, so the range of folder *)
(* positions a Read returned says which bytes the caller was given.        *)
(***************************************************************************)
EXTENDS Integers

CONSTANTS Handles,   \* callers, each with at most one open file
          Files,     \* the non-empty files of one folder
          Offset,    \* File.offset: the file's first byte in the folder
          Size,      \* File.UncompressedSize
          NoFile     \* of a handle that is idle

VARIABLES state,     \* "idle", "opening" or "open"
          file,      \* the file the handle is about
          read,      \* bytes of it delivered so far
          ret        \* the last return: [h, res, from, to], bytes from .. to - 1

vars == <<state, file, read, ret>>

Return(h, res, from, to) == [h |-> h, res |-> res, from |-> from, to |-> to]

Init == /\ state = [h \in Handles |-> "idle"]
        /\ file = [h \in Handles |-> NoFile]
        /\ read = [h \in Handles |-> 0]
        /\ \E h \in Handles : ret = Return(h, "ok", 0, 0)

Open(h) ==
    /\ state[h] = "idle"
    /\ state' = [state EXCEPT ![h] = "opening"]
    /\ \E f \in Files : file' = [file EXCEPT ![h] = f]
    /\ UNCHANGED <<read, ret>>

OpenReturns(h) ==
    /\ state[h] = "opening"
    /\ \/ /\ state' = [state EXCEPT ![h] = "open"]
          /\ ret' = Return(h, "ok", 0, 0)
          /\ UNCHANGED file
       \/ /\ state' = [state EXCEPT ![h] = "idle"]
          /\ ret' = Return(h, "err", 0, 0)
          /\ file' = [file EXCEPT ![h] = NoFile]
    /\ UNCHANGED read

\* The next k bytes of the handle's own file, in order; io.EOF only at its end.
Read(h) ==
    /\ state[h] = "open"
    /\ \E k \in 0 .. Size[file[h]] - read[h], r \in {"ok", "eof", "err"} :
          LET from == Offset[file[h]] + read[h]
          IN  /\ r = "eof" => read[h] + k = Size[file[h]]
              /\ read' = [read EXCEPT ![h] = @ + k]
              /\ ret' = Return(h, r, from, from + k)
    /\ UNCHANGED <<state, file>>

Close(h) ==
    /\ state[h] = "open"
    /\ state' = [state EXCEPT ![h] = "idle"]
    /\ file' = [file EXCEPT ![h] = NoFile]
    /\ read' = [read EXCEPT ![h] = 0]
    /\ \E r \in {"ok", "err"} : ret' = Return(h, r, 0, 0)

Next == \E h \in Handles : Open(h) \/ OpenReturns(h) \/ Read(h) \/ Close(h)

Spec == Init /\ [][Next]_vars
=============================================================================
