-------------------------- MODULE MCCircularBuffer --------------------------
(***************************************************************************)
(* Model of the circular buffer with the capacity the code uses, and the   *)
(* reference definition its search is compared with.                       *)
(***************************************************************************)
EXTENDS AesdCircularBuffer, SequencesExt

(* The bytes of all entries "concatenated end to end", each byte named by  *)
(* the slot and the offset it is stored at.                                *)
Concatenation ==
    FlattenSeq([i \in 1 .. Count |->
        [k \in 1 .. Contents[i].size |->
            [slot |-> SlotAt(i - 1), offset |-> k - 1]]])

(* aesd_circular_buffer_find_entry_offset_for_fpos finds, for every file   *)
(* position, the byte with that "zero referenced character index if all    *)
(* buffer strings were concatenated end to end", and NULL when "not enough *)
(* data is written".                                                       *)
FindMatchesConcatenation ==
    LET cat == Concatenation
    IN  \A off \in 0 .. Len(cat) + 1 :
            aesd_circular_buffer_find_entry_offset_for_fpos(off) =
                IF off < Len(cat) THEN cat[off + 1] ELSE NoEntry

=============================================================================
