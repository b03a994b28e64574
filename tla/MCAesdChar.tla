----------------------------- MODULE MCAesdChar -----------------------------
(***************************************************************************)
(* Model of the driver for TLC: the buffers passed to write(), and the     *)
(* properties stated over all bytes of the device in a row.                *)
(***************************************************************************)
EXTENDS AesdChar, SequencesExt

CONSTANTS a  \* a byte that is not a newline

(* A part of a command, its end, and an end with more behind it. *)
MCChunk    == {<<a>>, <<NL>>}
MCChunkMid == {<<a>>, <<NL, a>>}

MCLseekOffset == {-1, 0, 1}

Symmetry == Permutations(Proc) \cup Permutations(Buffptr)

(* The bytes a reader can reach, oldest command first. *)
Stored == FlattenSeq(Commands)

(* p returns from operation op in this step. *)
Returns(p, op) == pc[p] # "idle" /\ pc'[p] = "idle" /\ req[p].op = op

(* aesd_read hands out exactly the bytes of the concatenated commands from *)
(* f_pos on, whatever writers did before and in between, moves f_pos past  *)
(* them, and returns nothing only at the end, or when nothing was asked    *)
(* for or copied.                                                          *)
ExactRead(p) ==
    Returns(p, "read") /\ res'[p].err = "none" =>
      /\ Len(res'[p].data) = fpos'[p] - fpos[p]
      /\ \A i \in 1 .. Len(res'[p].data) :
            fpos[p] + i <= Len(Stored) /\ res'[p].data[i] = Stored[fpos[p] + i]
      /\ res'[p].data = <<>> /\ req[p].arg > 0 /\ ~CopyMayFault
           => fpos[p] >= Len(Stored)

ReadIsExact == [][\A p \in Proc : ExactRead(p)]_charVars

(* AESDCHAR_IOCSEEKTO from the start of the file, before the buffer has    *)
(* wrapped.  For the number of a slot it succeeds exactly for the bytes of *)
(* stored commands, and then the next read begins at that byte of that     *)
(* command.  For write_cmd = MaxOps, which both range checks of            *)
(* aesd_adjust_file_offset let through, whatever lies behind the array     *)
(* decides, and a seek that succeeds leaves nothing to read: it never      *)
(* shows a byte of another command.                                        *)
SeekHitsCommand(p) ==
    /\ Returns(p, "seekto")
    /\ res'[p].err # "ERESTARTSYS"
    /\ fpos[p] = 0 /\ out_offs = 0
    => LET cmd   == req[p].arg.write_cmd
           off   == req[p].arg.write_cmd_offset
           place == aesd_circular_buffer_find_entry_offset_for_fpos(fpos'[p])
       IN  /\ cmd < MaxOps => (res'[p].err = "none"
                                 <=> cmd < Count /\ off < Len(Commands[cmd + 1]))
           /\ res'[p].err = "none" =>
                place = IF cmd < MaxOps THEN [slot |-> cmd, offset |-> off]
                        ELSE NoEntry

SeekFromStart == [][\A p \in Proc : SeekHitsCommand(p)]_charVars

(* aesd_llseek with SEEK_SET or SEEK_END, which adds up the raw array:     *)
(* it succeeds exactly for the positions inside the device and its end,    *)
(* wrapped around or not, and a read from there finds data unless it is    *)
(* the end.                                                                *)
LseekStaysInside(p) ==
    /\ Returns(p, "llseek")
    /\ res'[p].err # "ERESTARTSYS"
    /\ req[p].arg.whence # "CUR"
    => LET end    == Len(Stored)
           target == req[p].arg.offset + IF req[p].arg.whence = "END" THEN end ELSE 0
       IN  /\ res'[p].err = "none" <=> target \in 0 .. end
           /\ res'[p].err = "none" =>
                /\ fpos'[p] = target
                /\ aesd_circular_buffer_find_entry_offset_for_fpos(target) = NoEntry
                     <=> target = end

LseekInside == [][\A p \in Proc : LseekStaysInside(p)]_charVars

-----------------------------------------------------------------------------
(* What the comments say and the code does not do. *)

(* aesd_ioctl.h: write_cmd is "The zero referenced write command to seek   *)
(* into": command 0 is the oldest the device holds, from which reads count *)
(* too, also after the buffer has wrapped.  (Then the code adds the sizes  *)
(* of other commands, which agrees only where these sizes do.)             *)
SeekCountsFromOldest ==
    [][\A p \in Proc :
         /\ Returns(p, "seekto")
         /\ res'[p].err = "none"
         /\ fpos[p] = 0
         /\ req[p].arg.write_cmd < MaxOps
         => aesd_circular_buffer_find_entry_offset_for_fpos(fpos'[p])
              = [slot   |-> SlotAt(req[p].arg.write_cmd),
                 offset |-> req[p].arg.write_cmd_offset]]_charVars

=============================================================================
