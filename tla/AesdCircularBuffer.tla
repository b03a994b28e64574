------------------------- MODULE AesdCircularBuffer -------------------------
(***************************************************************************)
(* aesd-char-driver/aesd-circular-buffer.[ch]: a fixed array of entries    *)
(* {buffptr, size} with a write index, a read index and a full flag.       *)
(* The variables are the members of struct aesd_circular_buffer.  The      *)
(* module is used on its own (CBSpec: an arbitrary caller adds entries)    *)
(* and as the buffer inside the driver (module AesdChar).                  *)
(*                                                                         *)
(* Left out: the C integer widths.  in_offs and out_offs are uint8_t and   *)
(* stay below 10, and the sizes are bounded by what kmalloc can return, so *)
(* none of the additions below can overflow.                               *)
(***************************************************************************)
EXTENDS Naturals, Sequences

CONSTANTS MaxOps,   \* AESDCHAR_MAX_WRITE_OPERATIONS_SUPPORTED (10 in the code)
          Buffptr,  \* the addresses an allocation may return
          NULL,     \* the null pointer
          Size      \* the sizes an added entry may have

ASSUME MaxOpsAssumption == MaxOps \in Nat \ {0}
ASSUME NullAssumption   == NULL \notin Buffptr
ASSUME SizeAssumption   == Size \subseteq Nat \ {0}

VARIABLES entry,     \* the array entry[MaxOps]
          in_offs,   \* the slot the next entry is stored in
          out_offs,  \* the slot of the oldest entry
          full       \* TRUE when every slot is occupied

cbVars == <<entry, in_offs, out_offs, full>>

Slots == 0 .. MaxOps - 1

EmptyEntry == [buffptr |-> NULL, size |-> 0]

EntryType == [buffptr : Buffptr \cup {NULL}, size : Nat]

(* The entries a caller adds: allocated memory with at least one byte. *)
NewEntry == [buffptr : Buffptr, size : Size]

CBTypeOK ==
    /\ entry \in [Slots -> EntryType]
    /\ in_offs \in Slots
    /\ out_offs \in Slots
    /\ full \in BOOLEAN

-----------------------------------------------------------------------------
(* aesd_circular_buffer_init: memset of the whole structure to zero. *)
aesd_circular_buffer_init ==
    /\ entry = [i \in Slots |-> EmptyEntry]
    /\ in_offs = 0
    /\ out_offs = 0
    /\ full = FALSE

(* The pointer aesd_circular_buffer_add_entry returns: whatever the slot   *)
(* it is about to overwrite holds.                                         *)
OverwrittenPtr == entry[in_offs].buffptr

(* Slip: the full flag is not recomputed after the offsets have moved. *)
AddEntryStaleFull(e) ==
    /\ entry' = [entry EXCEPT ![in_offs] = e]
    /\ out_offs' = IF full THEN (out_offs + 1) % MaxOps ELSE out_offs
    /\ in_offs' = (in_offs + 1) % MaxOps
    /\ UNCHANGED full

(* Slip: the write index runs past the end of the array. *)
AddEntryNoWrap(e) ==
    /\ entry' = [entry EXCEPT ![in_offs] = e]
    /\ out_offs' = IF full THEN (out_offs + 1) % MaxOps ELSE out_offs
    /\ in_offs' = in_offs + 1
    /\ full' = (in_offs' = out_offs')

(* Slip: the read index stays behind when a full buffer is overwritten. *)
AddEntryStaleOut(e) ==
    /\ entry' = [entry EXCEPT ![in_offs] = e]
    /\ in_offs' = (in_offs + 1) % MaxOps
    /\ full' = (in_offs' = out_offs)
    /\ UNCHANGED out_offs

(* aesd_circular_buffer_add_entry *)
aesd_circular_buffer_add_entry(e) ==
    /\ entry' = [entry EXCEPT ![in_offs] = e]
    /\ out_offs' = IF full THEN (out_offs + 1) % MaxOps ELSE out_offs
    /\ in_offs' = (in_offs + 1) % MaxOps
    /\ full' = (in_offs' = out_offs')

-----------------------------------------------------------------------------
(* aesd_circular_buffer_find_entry_offset_for_fpos.  The do-while loop     *)
(* visits SlotAt(0), SlotAt(1), ... until it is back at in_offs; CharOffs  *)
(* is curr_char_offs at the start of each iteration.                       *)

SlotAt(i) == (out_offs + i) % MaxOps

(* How many slots the loop visits: the number of entries held. *)
Count ==
    IF in_offs = out_offs THEN (IF full THEN MaxOps ELSE 0)
    ELSE IF in_offs > out_offs THEN in_offs - out_offs
    ELSE in_offs + MaxOps - out_offs

CharOffs[i \in Nat] ==
    IF i = 0 THEN 0 ELSE CharOffs[i - 1] + entry[SlotAt(i - 1)].size

NoEntry == [slot |-> MaxOps, offset |-> 0]

(* Slip: an entry that ends exactly at the position is taken as a hit. *)
FindInclusive(char_offset) ==
    LET hits == {i \in 0 .. Count - 1 : CharOffs[i + 1] >= char_offset}
    IN  IF hits = {} THEN NoEntry
        ELSE LET first == CHOOSE i \in hits : \A j \in hits : i <= j
             IN  [slot   |-> SlotAt(first),
                  offset |-> char_offset - CharOffs[first]]

aesd_circular_buffer_find_entry_offset_for_fpos(char_offset) ==
    LET hits == {i \in 0 .. Count - 1 : CharOffs[i + 1] > char_offset}
    IN  IF hits = {} THEN NoEntry
        ELSE LET first == CHOOSE i \in hits : \A j \in hits : i <= j
             IN  [slot   |-> SlotAt(first),
                  offset |-> char_offset - CharOffs[first]]

(* AESD_CIRCULAR_BUFFER_FOREACH visits every slot of the array in index    *)
(* order, empty ones too.  ForeachSize[n] adds up the first n sizes, and   *)
(* the index is MaxOps when the loop has ended.                            *)
ForeachSize[n \in 0 .. MaxOps] ==
    IF n = 0 THEN 0 ELSE ForeachSize[n - 1] + entry[n - 1].size

ForeachEnd == MaxOps

-----------------------------------------------------------------------------
(* The buffer on its own, with an arbitrary caller. *)

CBNext == \E e \in NewEntry : aesd_circular_buffer_add_entry(e)

CBSpec == aesd_circular_buffer_init /\ [][CBNext]_cbVars

-----------------------------------------------------------------------------
(* The slots that hold an entry, as the two offsets and the flag say. *)
Occupied == {SlotAt(i) : i \in 0 .. Count - 1}

(* The two offsets and the full flag agree with the array at any moment:   *)
(* the flag is only set with equal offsets, and a slot holds an entry      *)
(* exactly when it lies between out_offs and in_offs.  Both the kfree of   *)
(* the overwritten pointer in aesd_write and the sums over                 *)
(* AESD_CIRCULAR_BUFFER_FOREACH depend on it.                              *)
RingShape ==
    /\ full => in_offs = out_offs
    /\ \A s \in Slots :
          /\ s \in Occupied     => entry[s] \in [buffptr : Buffptr, size : Nat \ {0}]
          /\ s \notin Occupied  => entry[s] = EmptyEntry

(* The entries held, oldest first. *)
Contents == [i \in 1 .. Count |-> entry[SlotAt(i - 1)]]

Fifo == INSTANCE BoundedFifo WITH Capacity <- MaxOps,
                                  Item     <- NewEntry,
                                  fifo     <- Contents

(* Through any number of wrap-arounds the buffer holds the last MaxOps     *)
(* entries added, in the order they were added ("overwrites the oldest     *)
(* entry and advances buffer->out_offs to the new start location").        *)
KeepsLatest == Fifo!FifoSpec

=============================================================================
