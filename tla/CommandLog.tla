----------------------------- MODULE CommandLog -----------------------------
(***************************************************************************)
(* What /dev/aesdchar promises its writers.  The device keeps the most     *)
(* recent Capacity commands.  The bytes of a write extend the command      *)
(* under construction; the write that brings a newline completes it.  All  *)
(* writers share the one command under construction.                       *)
(***************************************************************************)
EXTENDS Naturals, Sequences

CONSTANTS Capacity,  \* the number of complete commands kept
          Chunk,     \* the buffers a caller may write
          NL         \* the newline byte

VARIABLES commands,  \* the complete commands, oldest first
          partial    \* the bytes of the command under construction

logVars == <<commands, partial>>

LogInit ==
    /\ commands = <<>>
    /\ partial = <<>>

HasNewline(bytes) == \E i \in DOMAIN bytes : bytes[i] = NL

Kept(cmds) == IF Len(cmds) = Capacity THEN Tail(cmds) ELSE cmds

(* One write, as one indivisible step. *)
Write(bytes) ==
    IF HasNewline(bytes)
    THEN /\ commands' = Append(Kept(commands), partial \o bytes)
         /\ partial' = <<>>
    ELSE /\ partial' = partial \o bytes
         /\ UNCHANGED commands

(* A write may take only the beginning of what it was given. *)
WriteSome == \E buf \in Chunk : \E n \in 0 .. Len(buf) : Write(SubSeq(buf, 1, n))

(* The module is unloaded, or loaded afresh. *)
Reset ==
    /\ commands' = <<>>
    /\ partial' = <<>>

LogNext == WriteSome \/ Reset

LogSpec == LogInit /\ [][LogNext]_logVars

=============================================================================
