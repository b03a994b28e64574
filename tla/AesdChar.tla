------------------------------ MODULE AesdChar ------------------------------
(***************************************************************************)
(* aesd-char-driver/main.c: the file operations of /dev/aesdchar.          *)
(*                                                                         *)
(* Every process has a file of its own (the server opens the device once   *)
(* per connection), so f_pos is private to a process; the device structure *)
(* is shared and guarded by device->lock.  The points at which a process   *)
(* may lose the processor inside a file operation are the ones where the   *)
(* kernel may sleep: the mutex, kmalloc(GFP_KERNEL) and the copies from    *)
(* and to user space.  Each is the boundary between two actions.           *)
(*                                                                         *)
(* Memory is the set of allocated blocks, with the size each was asked for *)
(* and the bytes stored in it; nothing stops a copy at the end of a block. *)
(* Left out: the null checks on filp, buf and f_pos (the kernel never      *)
(* passes null), and the debug output.                                     *)
(***************************************************************************)
EXTENDS AesdCircularBuffer, Integers

CONSTANTS Proc,          \* the processes that use the device
          NoOwner,       \* the value of an unlocked mutex
          Byte,          \* the bytes that are written
          NL,            \* '\n'
          Chunk,         \* the buffers passed to write()
          ReadCount,     \* the counts passed to read()
          SeekCmd,       \* the write_cmd values passed to AESDCHAR_IOCSEEKTO
          SeekOffset,    \* the write_cmd_offset values passed with them
          LseekOffset,   \* the offsets passed to lseek()
          AllocMayFail,  \* whether kmalloc and krealloc may return NULL
          CopyMayFault,  \* whether a copy from or to user space may stop early
          MaxPending,    \* bound: no newline-free write starts beyond this size
          MaxPos         \* bound: no AESDCHAR_IOCSEEKTO starts beyond this f_pos

ASSUME ProcAssumption  == NoOwner \notin Proc
ASSUME ByteAssumption  == NL \in Byte
ASSUME ChunkAssumption == Chunk \subseteq Seq(Byte) \ {<<>>}
ASSUME CallAssumption  ==
    /\ ReadCount \subseteq Nat
    /\ SeekCmd \subseteq Nat
    /\ SeekOffset \subseteq Nat
    /\ LseekOffset \subseteq Int
    /\ MaxPending \in Nat
    /\ MaxPos \in Nat
ASSUME FailureAssumption ==
    /\ AllocMayFail \in BOOLEAN
    /\ CopyMayFault \in BOOLEAN

VARIABLES pending,  \* device->circle_buff_entry, the command under construction
          live,     \* the allocated blocks
          mem,      \* the bytes stored in each block, <<>> when it is free
          room,     \* the size each block was allocated with, 0 when it is free
          lock,     \* the owner of device->lock
          loaded,   \* whether the module is loaded
          fpos,     \* f_pos of each process's file
          pc,       \* where each process is
          req,      \* the file operation a process is in, and its arguments
          found,    \* aesd_read: the entry, the offset in it and the count
          res       \* what the last file operation returned

devVars  == <<entry, in_offs, out_offs, full, pending>>
heapVars == <<live, mem, room>>
callVars == <<pc, req, found, res>>
charVars == <<devVars, heapVars, lock, loaded, fpos, callVars>>

-----------------------------------------------------------------------------
NoReq == [op |-> "none", arg |-> 0]

WriteReq == [op : {"write"}, arg : Chunk]
ReadReq  == [op : {"read"}, arg : ReadCount]
SeekReq  == [op : {"seekto"}, arg : [write_cmd : SeekCmd, write_cmd_offset : SeekOffset]]
LseekReq == [op : {"llseek"}, arg : [offset : LseekOffset, whence : {"SET", "CUR", "END"}]]
Request  == WriteReq \cup ReadReq \cup SeekReq \cup LseekReq

NoFound == [slot |-> MaxOps, offset |-> 0, count |-> 0]

Error  == {"none", "ERESTARTSYS", "ENOMEM", "EINVAL", "EFAULT", "ENOTTY"}
Result == [err : Error, ret : Nat, data : Seq(Byte)]

Ok(n)      == [err |-> "none", ret |-> n, data |-> <<>>]
Fail(e)    == [err |-> e, ret |-> 0, data |-> <<>>]
Bytes(s)   == [err |-> "none", ret |-> Len(s), data |-> s]

HasNewline(bytes) == \E i \in DOMAIN bytes : bytes[i] = NL

-----------------------------------------------------------------------------
(* How a file operation begins and ends. *)

Call(p, r) ==
    /\ pc[p] = "idle"
    /\ pc' = [pc EXCEPT ![p] = "waiting"]
    /\ req' = [req EXCEPT ![p] = r]
    /\ res' = [res EXCEPT ![p] = Ok(0)]
    /\ UNCHANGED <<devVars, heapVars, lock, loaded, fpos, found>>

Return(p, r) ==
    /\ pc' = [pc EXCEPT ![p] = "idle"]
    /\ req' = [req EXCEPT ![p] = NoReq]
    /\ found' = [found EXCEPT ![p] = NoFound]
    /\ res' = [res EXCEPT ![p] = r]

UnlockAndReturn(p, r) == lock' = NoOwner /\ Return(p, r)

(* p holds the mutex and is at the start of operation op. *)
Locked(p, op) == pc[p] = "locked" /\ req[p].op = op

mutex_lock_interruptible(p) ==
    /\ pc[p] = "waiting"
    /\ lock = NoOwner
    /\ lock' = p
    /\ pc' = [pc EXCEPT ![p] = "locked"]
    /\ UNCHANGED <<devVars, heapVars, loaded, fpos, req, found, res>>

(* A signal arrives while the process waits: the call ends at once. *)
LockInterrupted(p) ==
    /\ pc[p] = "waiting"
    /\ Return(p, Fail("ERESTARTSYS"))
    /\ UNCHANGED <<devVars, heapVars, lock, loaded, fpos>>

(* How many of n bytes a copy from or to user space moves. *)
CopiedOf(n) == IF CopyMayFault THEN 0 .. n ELSE {n}

-----------------------------------------------------------------------------
(* aesd_open, aesd_release *)

aesd_open(p) ==
    /\ loaded
    /\ pc[p] = "closed"
    /\ pc' = [pc EXCEPT ![p] = "idle"]
    /\ fpos' = [fpos EXCEPT ![p] = 0]
    /\ UNCHANGED <<devVars, heapVars, lock, loaded, req, found, res>>

aesd_release(p) ==
    /\ pc[p] = "idle"
    /\ pc' = [pc EXCEPT ![p] = "closed"]
    /\ fpos' = [fpos EXCEPT ![p] = 0]
    /\ res' = [res EXCEPT ![p] = Ok(0)]
    /\ UNCHANGED <<devVars, heapVars, lock, loaded, req, found>>

-----------------------------------------------------------------------------
(* aesd_write *)

WriteBegin(p) ==
    \E buf \in Chunk :
        /\ HasNewline(buf) \/ pending.size < MaxPending
        /\ Call(p, [op |-> "write", arg |-> buf])

(* count = 0: nothing to write, the mutex is not touched. *)
WriteNothing(p) ==
    /\ pc[p] = "idle"
    /\ Return(p, Ok(0))
    /\ UNCHANGED <<devVars, heapVars, lock, loaded, fpos>>

(* kmalloc(count), when the command under construction is empty. *)
WriteKmalloc(p) ==
    /\ Locked(p, "write")
    /\ pending.size = 0
    /\ \E b \in Buffptr \ live :
          /\ pending' = [pending EXCEPT !.buffptr = b]
          /\ live' = live \cup {b}
          /\ mem' = [mem EXCEPT ![b] = <<>>]
          /\ room' = [room EXCEPT ![b] = Len(req[p].arg)]
    /\ pc' = [pc EXCEPT ![p] = "copying"]
    /\ UNCHANGED <<cbVars, lock, loaded, fpos, req, found, res>>

WriteKmallocFails(p) ==
    /\ Locked(p, "write")
    /\ pending.size = 0
    /\ AllocMayFail \/ Buffptr \subseteq live
    /\ pending' = [pending EXCEPT !.buffptr = NULL]
    /\ UnlockAndReturn(p, Fail("ENOMEM"))
    /\ UNCHANGED <<cbVars, heapVars, loaded, fpos>>

(* Slip: the block is reallocated for the new part alone. *)
WriteKreallocCount(p) ==
    /\ Locked(p, "write")
    /\ pending.size # 0
    /\ \E b \in (Buffptr \ live) \cup ({pending.buffptr} \ {NULL}) :
       \E old \in IF pending.buffptr = NULL THEN [1 .. pending.size -> Byte]
                                            ELSE {mem[pending.buffptr]} :
          /\ pending' = [pending EXCEPT !.buffptr = b]
          /\ live' = (live \ {pending.buffptr}) \cup {b}
          /\ mem' = [q \in Buffptr |-> IF q = b THEN old
                                       ELSE IF q = pending.buffptr THEN <<>>
                                       ELSE mem[q]]
          /\ room' = [q \in Buffptr |-> IF q = b THEN Len(req[p].arg)
                                        ELSE IF q = pending.buffptr THEN 0
                                        ELSE room[q]]
    /\ pc' = [pc EXCEPT ![p] = "copying"]
    /\ UNCHANGED <<cbVars, lock, loaded, fpos, req, found, res>>

(* krealloc(size + count), when it is not.  The block grows in place or    *)
(* moves, and keeps its bytes; krealloc(NULL) returns a block of undefined *)
(* bytes.                                                                  *)
WriteKrealloc(p) ==
    /\ Locked(p, "write")
    /\ pending.size # 0
    /\ \E b \in (Buffptr \ live) \cup ({pending.buffptr} \ {NULL}) :
       \E old \in IF pending.buffptr = NULL THEN [1 .. pending.size -> Byte]
                                            ELSE {mem[pending.buffptr]} :
          /\ pending' = [pending EXCEPT !.buffptr = b]
          /\ live' = (live \ {pending.buffptr}) \cup {b}
          /\ mem' = [q \in Buffptr |-> IF q = b THEN old
                                       ELSE IF q = pending.buffptr THEN <<>>
                                       ELSE mem[q]]
          /\ room' = [q \in Buffptr |-> IF q = b THEN pending.size + Len(req[p].arg)
                                        ELSE IF q = pending.buffptr THEN 0
                                        ELSE room[q]]
    /\ pc' = [pc EXCEPT ![p] = "copying"]
    /\ UNCHANGED <<cbVars, lock, loaded, fpos, req, found, res>>

(* krealloc leaves the old block allocated when it fails, and its address  *)
(* is overwritten by the NULL it returns; the size stays.                  *)
WriteKreallocFails(p) ==
    /\ Locked(p, "write")
    /\ pending.size # 0
    /\ AllocMayFail \/ (pending.buffptr = NULL /\ Buffptr \subseteq live)
    /\ pending' = [pending EXCEPT !.buffptr = NULL]
    /\ UnlockAndReturn(p, Fail("ENOMEM"))
    /\ UNCHANGED <<cbVars, heapVars, loaded, fpos>>

(* Slip: the memory of the overwritten command is not freed. *)
CommitWithoutFree(cmd, bytes) ==
    /\ aesd_circular_buffer_add_entry(cmd)
    /\ mem' = [mem EXCEPT ![cmd.buffptr] = bytes]
    /\ pending' = EmptyEntry
    /\ UNCHANGED <<live, room>>

(* Slip: the command under construction is not cleaned. *)
CommitWithoutReset(cmd, bytes) ==
    /\ aesd_circular_buffer_add_entry(cmd)
    /\ live' = live \ {OverwrittenPtr}
    /\ mem' = [q \in Buffptr |-> IF q = cmd.buffptr THEN bytes
                                 ELSE IF q = OverwrittenPtr THEN <<>>
                                 ELSE mem[q]]
    /\ room' = [q \in Buffptr |-> IF q = OverwrittenPtr THEN 0 ELSE room[q]]
    /\ pending' = cmd

(* The command is complete: it becomes an entry of the circular buffer,    *)
(* the memory of the entry it overwrites is freed and the command under    *)
(* construction starts afresh.                                             *)
CommitCommand(cmd, bytes) ==
    /\ aesd_circular_buffer_add_entry(cmd)
    /\ live' = live \ {OverwrittenPtr}
    /\ mem' = [q \in Buffptr |-> IF q = cmd.buffptr THEN bytes
                                 ELSE IF q = OverwrittenPtr THEN <<>>
                                 ELSE mem[q]]
    /\ room' = [q \in Buffptr |-> IF q = OverwrittenPtr THEN 0 ELSE room[q]]
    /\ pending' = EmptyEntry

(* The command has no newline yet. *)
KeepPartial(cmd, bytes) ==
    /\ pending' = cmd
    /\ mem' = [mem EXCEPT ![cmd.buffptr] = bytes]
    /\ UNCHANGED <<cbVars, live, room>>

(* Slip: only the last byte is compared with '\n'. *)
WriteCopyLastByte(p) ==
    /\ pc[p] = "copying" /\ req[p].op = "write"
    /\ \E n \in CopiedOf(Len(req[p].arg)) :
          LET bytes == mem[pending.buffptr] \o SubSeq(req[p].arg, 1, n)
              cmd   == [pending EXCEPT !.size = @ + n]
          IN  /\ IF Len(bytes) > 0 /\ bytes[Len(bytes)] = NL
                 THEN CommitCommand(cmd, bytes)
                 ELSE KeepPartial(cmd, bytes)
              /\ UnlockAndReturn(p, Ok(n))
    /\ UNCHANGED <<loaded, fpos>>

(* copy_from_user behind the bytes already held, then memchr for '\n'. *)
WriteCopy(p) ==
    /\ pc[p] = "copying" /\ req[p].op = "write"
    /\ \E n \in CopiedOf(Len(req[p].arg)) :
          LET bytes == mem[pending.buffptr] \o SubSeq(req[p].arg, 1, n)
              cmd   == [pending EXCEPT !.size = @ + n]
          IN  /\ IF HasNewline(bytes) THEN CommitCommand(cmd, bytes)
                                      ELSE KeepPartial(cmd, bytes)
              /\ UnlockAndReturn(p, Ok(n))
    /\ UNCHANGED <<loaded, fpos>>

-----------------------------------------------------------------------------
(* aesd_read *)

ReadBegin(p) == \E count \in ReadCount : Call(p, [op |-> "read", arg |-> count])

(* Slip: the jump to the end of the function misses the unlock. *)
ReadPastEndLocked(p) ==
    /\ Locked(p, "read")
    /\ aesd_circular_buffer_find_entry_offset_for_fpos(fpos[p]) = NoEntry
    /\ Return(p, Ok(0))
    /\ UNCHANGED <<devVars, heapVars, lock, loaded, fpos>>

(* The position lies behind the last byte. *)
ReadPastEnd(p) ==
    /\ Locked(p, "read")
    /\ aesd_circular_buffer_find_entry_offset_for_fpos(fpos[p]) = NoEntry
    /\ UnlockAndReturn(p, Ok(0))
    /\ UNCHANGED <<devVars, heapVars, loaded, fpos>>

(* Slip: the mutex is given up before the copy to user space. *)
ReadFindUnlocks(p) ==
    /\ Locked(p, "read")
    /\ LET hit  == aesd_circular_buffer_find_entry_offset_for_fpos(fpos[p])
           left == entry[hit.slot].size - hit.offset
       IN  /\ hit # NoEntry
           /\ found' = [found EXCEPT ![p] =
                           [slot   |-> hit.slot,
                            offset |-> hit.offset,
                            count  |-> IF req[p].arg > left THEN left ELSE req[p].arg]]
    /\ pc' = [pc EXCEPT ![p] = "copying"]
    /\ lock' = NoOwner
    /\ UNCHANGED <<devVars, heapVars, loaded, fpos, req, res>>

(* The count is cut down to what is left of the entry. *)
ReadFind(p) ==
    /\ Locked(p, "read")
    /\ LET hit  == aesd_circular_buffer_find_entry_offset_for_fpos(fpos[p])
           left == entry[hit.slot].size - hit.offset
       IN  /\ hit # NoEntry
           /\ found' = [found EXCEPT ![p] =
                           [slot   |-> hit.slot,
                            offset |-> hit.offset,
                            count  |-> IF req[p].arg > left THEN left ELSE req[p].arg]]
    /\ pc' = [pc EXCEPT ![p] = "copying"]
    /\ UNCHANGED <<devVars, heapVars, lock, loaded, fpos, req, res>>

(* Slip: f_pos advances by the count asked for, whatever was copied. *)
ReadCopyFullAdvance(p) ==
    /\ pc[p] = "copying" /\ req[p].op = "read"
    /\ \E n \in CopiedOf(found[p].count) :
          LET block == mem[entry[found[p].slot].buffptr]
          IN  /\ fpos' = [fpos EXCEPT ![p] = @ + req[p].arg]
              /\ UnlockAndReturn(p, Bytes(SubSeq(block, found[p].offset + 1,
                                                        found[p].offset + n)))
    /\ UNCHANGED <<devVars, heapVars, loaded>>

(* copy_to_user, then f_pos advances by what was copied. *)
ReadCopy(p) ==
    /\ pc[p] = "copying" /\ req[p].op = "read"
    /\ \E n \in CopiedOf(found[p].count) :
          LET block == mem[entry[found[p].slot].buffptr]
          IN  /\ fpos' = [fpos EXCEPT ![p] = @ + n]
              /\ UnlockAndReturn(p, Bytes(SubSeq(block, found[p].offset + 1,
                                                        found[p].offset + n)))
    /\ UNCHANGED <<devVars, heapVars, loaded>>

-----------------------------------------------------------------------------
(* aesd_ioctl and aesd_adjust_file_offset *)

(* A foreign command number, a bad argument address. *)
IoctlRejected(p) ==
    /\ pc[p] = "idle"
    /\ \E e \in {"ENOTTY", "EFAULT"} : Return(p, Fail(e))
    /\ UNCHANGED <<devVars, heapVars, lock, loaded, fpos>>

SeekBegin(p) ==
    /\ fpos[p] <= MaxPos
    /\ \E cmd \in SeekCmd, offset \in SeekOffset :
          Call(p, [op  |-> "seekto",
                   arg |-> [write_cmd |-> cmd, write_cmd_offset |-> offset]])

(* The two checks on write_cmd let write_cmd = MaxOps pass.  The word read *)
(* as entry[MaxOps].size is then the one behind the array and the offsets: *)
(* circle_buff_entry.buffptr, 0 when it is NULL and larger than any offset *)
(* when it is an address.                                                  *)
SeekAccepts(write_cmd, write_cmd_offset) ==
    /\ write_cmd <= ForeachEnd
    /\ IF write_cmd < MaxOps THEN write_cmd_offset < entry[write_cmd].size
                             ELSE pending.buffptr # NULL

(* Slip: the sizes of the commands up to and including write_cmd. *)
SeekPosInclusive(p, write_cmd, write_cmd_offset) ==
    fpos[p] + ForeachSize[IF write_cmd < MaxOps THEN write_cmd + 1 ELSE MaxOps] + write_cmd_offset

(* The sizes of slots 0 .. write_cmd - 1 and the offset, added to f_pos. *)
SeekPos(p, write_cmd, write_cmd_offset) ==
    fpos[p] + ForeachSize[write_cmd] + write_cmd_offset

aesd_adjust_file_offset(p) ==
    /\ Locked(p, "seekto")
    /\ LET cmd == req[p].arg.write_cmd
           off == req[p].arg.write_cmd_offset
       IN  \/ /\ SeekAccepts(cmd, off)
              /\ fpos' = [fpos EXCEPT ![p] = SeekPos(p, cmd, off)]
              /\ UnlockAndReturn(p, Ok(0))
           \/ /\ ~SeekAccepts(cmd, off)
              /\ UnlockAndReturn(p, Fail("EINVAL"))
              /\ UNCHANGED fpos
    /\ UNCHANGED <<devVars, heapVars, loaded>>

-----------------------------------------------------------------------------
(* aesd_llseek *)

LseekBegin(p) ==
    \E offset \in LseekOffset, whence \in {"SET", "CUR", "END"} :
        Call(p, [op |-> "llseek", arg |-> [offset |-> offset, whence |-> whence]])

(* fixed_size_llseek of the kernel: the position asked for.  SEEK_CUR with *)
(* offset 0 only reports f_pos.                                            *)
LseekTarget(p, total) ==
    LET offset == req[p].arg.offset
    IN  CASE req[p].arg.whence = "SET" -> offset
          [] req[p].arg.whence = "CUR" -> fpos[p] + offset
          [] req[p].arg.whence = "END" -> total + offset

LseekAccepts(p, total) ==
    \/ LseekTarget(p, total) \in 0 .. total
    \/ req[p].arg.whence = "CUR" /\ req[p].arg.offset = 0

(* Slip: only the slots below in_offs are added up. *)
TotalToInOffs == ForeachSize[in_offs]

TotalSize == ForeachSize[MaxOps]

aesd_llseek(p) ==
    /\ Locked(p, "llseek")
    /\ LET total == TotalSize
       IN  \/ /\ LseekAccepts(p, total)
              /\ fpos' = [fpos EXCEPT ![p] = LseekTarget(p, total)]
              /\ UnlockAndReturn(p, Ok(LseekTarget(p, total)))
           \/ /\ ~LseekAccepts(p, total)
              /\ UnlockAndReturn(p, Fail("EINVAL"))
              /\ UNCHANGED fpos
    /\ UNCHANGED <<devVars, heapVars, loaded>>

-----------------------------------------------------------------------------
(* aesd_init_module and aesd_cleanup_module *)

(* memset and aesd_circular_buffer_init; adding the device may fail. *)
aesd_init_module ==
    /\ ~loaded
    /\ entry' = [i \in Slots |-> EmptyEntry]
    /\ in_offs' = 0
    /\ out_offs' = 0
    /\ full' = FALSE
    /\ pending' = EmptyEntry
    /\ lock' = NoOwner
    /\ loaded' \in BOOLEAN
    /\ UNCHANGED <<heapVars, fpos, callVars>>

(* The blocks aesd_cleanup_module passes to kfree. *)
OwnedBlocks ==
    ({pending.buffptr} \cup {entry[s].buffptr : s \in Slots}) \ {NULL}

(* The kernel unloads a module only when no file of it is open. *)
aesd_cleanup_module ==
    /\ loaded
    /\ \A p \in Proc : pc[p] = "closed"
    /\ live' = live \ OwnedBlocks
    /\ mem' = [q \in Buffptr |-> IF q \in OwnedBlocks THEN <<>> ELSE mem[q]]
    /\ room' = [q \in Buffptr |-> IF q \in OwnedBlocks THEN 0 ELSE room[q]]
    /\ loaded' = FALSE
    /\ UNCHANGED <<devVars, lock, fpos, callVars>>

-----------------------------------------------------------------------------
CharInit ==
    /\ aesd_circular_buffer_init
    /\ pending = EmptyEntry
    /\ live = {}
    /\ mem = [b \in Buffptr |-> <<>>]
    /\ room = [b \in Buffptr |-> 0]
    /\ lock = NoOwner
    /\ loaded = FALSE
    /\ fpos = [p \in Proc |-> 0]
    /\ pc = [p \in Proc |-> "closed"]
    /\ req = [p \in Proc |-> NoReq]
    /\ found = [p \in Proc |-> NoFound]
    /\ res = [p \in Proc |-> Ok(0)]

(* The process is inside a file operation and holds the mutex. *)
Body(p) ==
    \/ WriteKmalloc(p) \/ WriteKmallocFails(p)
    \/ WriteKrealloc(p) \/ WriteKreallocFails(p)
    \/ WriteCopy(p)
    \/ ReadPastEnd(p) \/ ReadFind(p) \/ ReadCopy(p)
    \/ aesd_adjust_file_offset(p)
    \/ aesd_llseek(p)

Begin(p) ==
    \/ aesd_open(p) \/ aesd_release(p)
    \/ WriteBegin(p) \/ WriteNothing(p)
    \/ ReadBegin(p)
    \/ SeekBegin(p) \/ IoctlRejected(p)
    \/ LseekBegin(p)

CharNext ==
    \/ \E p \in Proc :
          \/ Begin(p)
          \/ mutex_lock_interruptible(p) \/ LockInterrupted(p)
          \/ Body(p)
    \/ aesd_init_module
    \/ aesd_cleanup_module

CharSpec == CharInit /\ [][CharNext]_charVars

(* A process that holds the mutex runs on.  A kernel mutex hands itself to *)
(* a waiter that has been passed over, so a waiter that finds it free      *)
(* again and again gets it in the end.                                     *)
CharFairness ==
    \A p \in Proc : /\ WF_charVars(Body(p))
                    /\ SF_charVars(mutex_lock_interruptible(p))

CharFairSpec == CharSpec /\ CharFairness

-----------------------------------------------------------------------------
(* The device, the memory and the progress of the file operations. *)
DevTypeOK ==
    /\ CBTypeOK
    /\ pending \in EntryType
    /\ live \subseteq Buffptr
    /\ mem \in [Buffptr -> Seq(Byte)]
    /\ room \in [Buffptr -> Nat]
    /\ lock \in Proc \cup {NoOwner}
    /\ loaded \in BOOLEAN
    /\ pc \in [Proc -> {"closed", "idle", "waiting", "locked", "copying"}]
    /\ req \in [Proc -> Request \cup {NoReq}]

(* The files and the results. *)
FileTypeOK ==
    /\ fpos \in [Proc -> Nat]
    /\ found \in [Proc -> [slot : 0 .. MaxOps, offset : Nat, count : Nat]]
    /\ res \in [Proc -> Result]

CharTypeOK == DevTypeOK /\ FileTypeOK

(* Every block the device refers to is allocated and has one owner, at     *)
(* every step of every file operation and whichever allocations or copies  *)
(* fail.  So each kfree of aesd_write and aesd_cleanup_module frees memory *)
(* nobody else refers to: no double free and no use after free.            *)
Ownership ==
    loaded =>
      /\ OwnedBlocks \subseteq live
      /\ \A s, t \in Slots :
            s # t /\ entry[s].buffptr # NULL => entry[s].buffptr # entry[t].buffptr
      /\ \A s \in Slots :
            entry[s].buffptr # NULL => entry[s].buffptr # pending.buffptr

(* The size kept for each block is the number of bytes written to it. *)
SizesAgree ==
    loaded =>
      /\ \A s \in Slots :
            entry[s].buffptr # NULL => Len(mem[entry[s].buffptr]) = entry[s].size
      /\ pending.buffptr # NULL => Len(mem[pending.buffptr]) = pending.size

(* No block has been written to behind the end of its allocation. *)
WithinBlocks == \A b \in Buffptr : Len(mem[b]) <= room[b]

(* What aesd_write asks kmalloc and krealloc for is enough for what it     *)
(* then copies, and the sizes it keeps are those of the bytes copied, also *)
(* after allocations that failed and copies that stopped early: no copy to *)
(* or from a block passes the end of the allocation.                       *)
SizesExact == SizesAgree /\ WithinBlocks

(* While aesd_read copies to user space, writers cannot evict or free what *)
(* it copies: the entry it found before the copy is still allocated, and   *)
(* still the one that holds its file position.                             *)
ReaderEntryStable ==
    \A p \in Proc :
        pc[p] = "copying" /\ req[p].op = "read" =>
            /\ found[p].slot \in Slots
            /\ entry[found[p].slot].buffptr \in live
            /\ aesd_circular_buffer_find_entry_offset_for_fpos(fpos[p])
                 = [slot |-> found[p].slot, offset |-> found[p].offset]

(* What memchr decides in aesd_write: whenever the mutex is free, every    *)
(* entry of the buffer holds a newline and the command under construction  *)
(* holds none, however the writes of several processes were cut up.        *)
CommandsTerminated ==
    loaded /\ lock = NoOwner =>
      /\ \A s \in Slots :
            entry[s].buffptr # NULL => HasNewline(mem[entry[s].buffptr])
      /\ pending.buffptr # NULL => ~HasNewline(mem[pending.buffptr])

(* As long as no allocation fails and no copy faults, every allocated      *)
(* block is one the device still refers to, and unloading the module frees *)
(* all of them.                                                            *)
NoLeak ==
    ~AllocMayFail /\ ~CopyMayFault =>
        live = IF loaded THEN OwnedBlocks ELSE {}

-----------------------------------------------------------------------------
(* The device seen by its writers. *)

Commands ==
    IF loaded THEN [i \in 1 .. Count |-> mem[entry[SlotAt(i - 1)].buffptr]] ELSE <<>>

Partial ==
    IF loaded /\ pending.buffptr # NULL THEN mem[pending.buffptr] ELSE <<>>

Log == INSTANCE CommandLog WITH Capacity <- MaxOps,
                                commands <- Commands,
                                partial  <- Partial

(* With any number of concurrent writers and with copies that stop early,  *)
(* aesd_write behaves as one indivisible write to a log of the last MaxOps *)
(* commands (as long as no allocation fails).                              *)
ImplementsLog == Log!LogSpec

(* Every file operation that has been called returns: nobody returns with  *)
(* the mutex held, and no waiter is passed over for ever.                  *)
CallReturns == \A p \in Proc : pc[p] = "waiting" ~> pc[p] = "idle"

=============================================================================
