---------------------------- MODULE BoundedFifo ----------------------------
(***************************************************************************)
(* What the circular buffer of the driver promises: a queue that keeps the *)
(* most recent Capacity entries, oldest first.  Adding to a full queue     *)
(* drops the oldest entry.                                                 *)
(***************************************************************************)
EXTENDS Naturals, Sequences

CONSTANTS Capacity,  \* the number of entries the queue keeps
          Item       \* the entries that may be added

VARIABLE fifo

FifoInit == fifo = <<>>

Push(e) ==
    fifo' = IF Len(fifo) = Capacity THEN Append(Tail(fifo), e)
                                    ELSE Append(fifo, e)

FifoNext == \E e \in Item : Push(e)

FifoSpec == FifoInit /\ [][FifoNext]_fifo

=============================================================================
