--------------------------- MODULE AesdCharLogProofs ---------------------------
(***************************************************************************)
(* What the driver does with memory and bytes, for every number of         *)
(* processes and every capacity: nothing is leaked, commands end with a    *)
(* newline, aesd_write implements the command log of CommandLog, and reads *)
(* and seeks agree with the bytes of that log put end to end.              *)
(***************************************************************************)
EXTENDS MCAesdChar, AesdCharProofs

(* A write is between its allocation and its copy. *)
Copying == \E p \in Proc : pc[p] = "copying" /\ req[p].op = "write"

(* Without a failing allocation there is a block wherever there is a size; *)
(* without a fault, too, the block of an empty command is one that is      *)
(* about to be written to.                                                 *)
HeapInv ==
    /\ ~AllocMayFail => (pending.size # 0 => pending.buffptr # NULL)
    /\ ~AllocMayFail /\ ~CopyMayFault =>
          /\ pending.size = 0 /\ pending.buffptr # NULL => Copying
          /\ live = IF loaded THEN OwnedBlocks ELSE {}

(* CommandsTerminated while the mutex is held as well.  After a failed     *)
(* krealloc the next one may hand out a block with a newline in it, which  *)
(* the copy that follows commits at once.                                  *)
NewlineInv ==
    loaded =>
      /\ \A s \in Slots :
            entry[s].buffptr # NULL => HasNewline(mem[entry[s].buffptr])
      /\ pending.buffptr # NULL /\ (AllocMayFail => ~Copying)
            => ~HasNewline(mem[pending.buffptr])

MemoryInv == DriverInv /\ HeapInv /\ NewlineInv

-----------------------------------------------------------------------------

LEMMA MemoryInvInit == CharInit => MemoryInv
<1> SUFFICES ASSUME CharInit PROVE MemoryInv
  OBVIOUS
<1>1. HeapInv
  BY DEF CharInit, HeapInv, EmptyEntry
<1>2. NewlineInv
  BY DEF CharInit, NewlineInv
<1> QED BY <1>1, <1>2, DriverInvInit DEF MemoryInv

(* The steps that leave the device and the memory alone.  A process may    *)
(* stop being at its copy only by the copy itself.                         *)
LEMMA CallKeepsMemory ==
    ASSUME MemoryInv, UNCHANGED <<devVars, heapVars, loaded>>, Copying <=> Copying'
    PROVE  HeapInv' /\ NewlineInv'
BY DEF MemoryInv, HeapInv, NewlineInv, OwnedBlocks, devVars, heapVars

(* Only the holder of the mutex can be at a copy. *)
CopyingHolds ==
    /\ \A p \in Proc : lock = p => (Copying <=> pc[p] = "copying" /\ req[p].op = "write")
    /\ lock = NoOwner => ~Copying

LEMMA DriverCopyingHolds == DriverInv => CopyingHolds
BY ProcAssumption DEF DriverInv, DevTypeOK, CallInv, Copying, CopyingHolds

LEMMA DriverCopyingHoldsPrime == DriverInv' => CopyingHolds'
BY DriverCopyingHolds, PTL

(* Every step but those of aesd_write, and of loading and unloading.       *)
OutsideWrite(p) ==
    \/ Begin(p) \/ mutex_lock_interruptible(p) \/ LockInterrupted(p)
    \/ ReadPastEnd(p) \/ ReadFind(p) \/ ReadCopy(p)
    \/ aesd_adjust_file_offset(p) \/ aesd_llseek(p)

LEMMA OutsideWriteKeeps ==
    ASSUME DriverInv, NEW p \in Proc, OutsideWrite(p)
    PROVE  UNCHANGED <<devVars, heapVars, loaded>> /\ (Copying <=> Copying')
<1>1. UNCHANGED <<devVars, heapVars, loaded>>
  BY DEF OutsideWrite, Begin, aesd_open, aesd_release, WriteBegin, WriteNothing, ReadBegin,
         SeekBegin, IoctlRejected, LseekBegin, Call, mutex_lock_interruptible,
         LockInterrupted, ReadPastEnd, ReadFind, ReadCopy, aesd_adjust_file_offset, aesd_llseek
<1>2. \A q \in Proc \ {p} : pc'[q] = pc[q] /\ req'[q] = req[q]
  BY DEF DriverInv, DevTypeOK, OutsideWrite, Begin, aesd_open, aesd_release, WriteBegin,
         WriteNothing, ReadBegin, SeekBegin, IoctlRejected, LseekBegin, Call,
         mutex_lock_interruptible, LockInterrupted, ReadPastEnd, ReadFind, ReadCopy,
         aesd_adjust_file_offset, aesd_llseek, UnlockAndReturn, Return
<1>3. ~(pc[p] = "copying" /\ req[p].op = "write")
  BY DEF OutsideWrite, Begin, aesd_open, aesd_release, WriteBegin, WriteNothing, ReadBegin,
         SeekBegin, IoctlRejected, LseekBegin, Call, mutex_lock_interruptible,
         LockInterrupted, ReadPastEnd, ReadFind, ReadCopy, aesd_adjust_file_offset,
         aesd_llseek, Locked, Return
<1>4. ~(pc'[p] = "copying" /\ req'[p].op = "write")
  BY DEF DriverInv, DevTypeOK, OutsideWrite, Begin, aesd_open, aesd_release, WriteBegin,
         WriteNothing, ReadBegin, SeekBegin, IoctlRejected, LseekBegin, Call,
         mutex_lock_interruptible, LockInterrupted, ReadPastEnd, ReadFind, ReadCopy,
         aesd_adjust_file_offset, aesd_llseek, UnlockAndReturn, Return, Locked
<1> QED BY <1>1, <1>2, <1>3, <1>4 DEF Copying

-----------------------------------------------------------------------------
(* The entries of the buffer while a write is under way: their blocks are  *)
(* allocated and are not that of the command under construction.           *)
LEMMA EntryBlock ==
    ASSUME DriverInv, loaded, NEW s \in Slots, entry[s].buffptr # NULL
    PROVE  /\ entry[s].buffptr \in Buffptr
           /\ entry[s].buffptr \in live
           /\ entry[s].buffptr # pending.buffptr
BY EntryIsOwned DEF DriverInv, DevTypeOK, CBTypeOK, EntryType, Ownership

(* The allocation of aesd_write. *)
LEMMA AllocKeepsMemory ==
    ASSUME MemoryInv, NEW p \in Proc,
           \/ WriteKmalloc(p) \/ WriteKmallocFails(p)
           \/ WriteKrealloc(p) \/ WriteKreallocFails(p)
    PROVE  HeapInv' /\ NewlineInv'
<1>1. /\ UNCHANGED <<cbVars, loaded>> /\ loaded /\ lock = p /\ pc[p] = "locked"
      /\ req[p].op = "write" /\ DriverInv /\ DriverInv'
  BY AllocKeepsDriverInv
     DEF MemoryInv, DriverInv, CallInv, Locked, WriteKmalloc, WriteKmallocFails, WriteKrealloc,
         WriteKreallocFails
<1>2. /\ pending.size \in Nat /\ pending.buffptr \in Buffptr \cup {NULL}
      /\ pending = [buffptr |-> pending.buffptr, size |-> pending.size]
      /\ live \subseteq Buffptr /\ mem \in [Buffptr -> Seq(Byte)]
      /\ pc \in [Proc -> {"closed", "idle", "waiting", "locked", "copying"}]
      /\ entry \in [Slots -> EntryType]
  BY <1>1 DEF DriverInv, DevTypeOK, CBTypeOK, EntryType
<1>3. ~Copying
  BY <1>1, DriverCopyingHolds DEF CopyingHolds
<1>4. \A s \in Slots : entry[s].buffptr # NULL =>
         /\ entry[s].buffptr \in Buffptr /\ entry[s].buffptr \in live
         /\ entry[s].buffptr # pending.buffptr
         /\ HasNewline(mem[entry[s].buffptr])
  BY <1>1, EntryBlock DEF MemoryInv, NewlineInv
<1>5. pending.buffptr # NULL =>
         Len(mem[pending.buffptr]) = pending.size /\ ~HasNewline(mem[pending.buffptr])
  BY <1>1, <1>3 DEF MemoryInv, DriverInv, SizesAgree, NewlineInv
<1>6. CASE WriteKmalloc(p)
  <2>1. PICK b \in Buffptr \ live :
           /\ pending' = [pending EXCEPT !.buffptr = b]
           /\ live' = live \cup {b}
           /\ mem' = [mem EXCEPT ![b] = <<>>]
    BY <1>6 DEF WriteKmalloc
  <2>2. /\ pending.size = 0 /\ pc' = [pc EXCEPT ![p] = "copying"] /\ req' = req
        /\ pending' = [buffptr |-> b, size |-> 0] /\ b # NULL
    BY <1>2, <1>6, <2>1, NullAssumption DEF WriteKmalloc
  <2>3. Copying'
    BY <1>1, <1>2, <2>2 DEF Copying
  <2>4. HeapInv'
    BY <1>1, <1>2, <1>3, <2>1, <2>2, <2>3
       DEF MemoryInv, HeapInv, OwnedBlocks, cbVars
  <2>5. ~HasNewline(mem'[pending'.buffptr])
    BY <1>2, <2>1, <2>2 DEF HasNewline
  <2>6. NewlineInv'
    BY <1>1, <1>2, <1>4, <2>1, <2>5 DEF NewlineInv, cbVars
  <2> QED BY <2>4, <2>6
<1>7. CASE WriteKmallocFails(p) \/ WriteKreallocFails(p)
  <2>1. /\ pending' = [pending EXCEPT !.buffptr = NULL] /\ UNCHANGED heapVars
        /\ (AllocMayFail \/ pending.size = 0 \/ pending.buffptr = NULL)
    BY <1>7 DEF WriteKmallocFails, WriteKreallocFails
  <2>2. pending' = [buffptr |-> NULL, size |-> pending.size]
    BY <1>2, <2>1
  <2>3. ~AllocMayFail => pending.size = 0
    BY <2>1 DEF MemoryInv, HeapInv
  <2>4. ~AllocMayFail /\ ~CopyMayFault => pending.buffptr = NULL
    BY <1>3, <2>3 DEF MemoryInv, HeapInv
  <2>5. HeapInv'
    BY <1>1, <1>2, <2>1, <2>2, <2>3, <2>4 DEF MemoryInv, HeapInv, OwnedBlocks, cbVars, heapVars
  <2>6. NewlineInv'
    BY <1>1, <1>4, <2>1, <2>2 DEF NewlineInv, cbVars, heapVars
  <2> QED BY <2>5, <2>6
<1>8. CASE WriteKrealloc(p)
  <2>1. PICK b \in (Buffptr \ live) \cup ({pending.buffptr} \ {NULL}),
             old \in IF pending.buffptr = NULL THEN [1 .. pending.size -> Byte]
                                               ELSE {mem[pending.buffptr]} :
           /\ pending' = [pending EXCEPT !.buffptr = b]
           /\ live' = (live \ {pending.buffptr}) \cup {b}
           /\ mem' = [q \in Buffptr |-> IF q = b THEN old
                                        ELSE IF q = pending.buffptr THEN <<>>
                                        ELSE mem[q]]
    BY <1>8 DEF WriteKrealloc
  <2>2. /\ pending.size # 0 /\ pc' = [pc EXCEPT ![p] = "copying"] /\ req' = req
        /\ pending' = [buffptr |-> b, size |-> pending.size] /\ b \in Buffptr /\ b # NULL
    BY <1>2, <1>8, <2>1, NullAssumption DEF WriteKrealloc
  <2>3. Copying'
    BY <1>1, <1>2, <2>2 DEF Copying
  <2>4. HeapInv'
    BY <1>1, <1>2, <1>4, <2>1, <2>2 DEF MemoryInv, HeapInv, OwnedBlocks, cbVars
  <2>5. ~AllocMayFail => ~HasNewline(mem'[pending'.buffptr])
    BY <1>5, <2>1, <2>2 DEF MemoryInv, HeapInv
  <2>6. \A s \in Slots : entry[s].buffptr # NULL =>
           mem'[entry[s].buffptr] = mem[entry[s].buffptr]
    BY <1>4, <2>1
  <2>7. NewlineInv'
    BY <1>1, <1>4, <2>3, <2>5, <2>6 DEF NewlineInv, cbVars
  <2> QED BY <2>4, <2>7
<1> QED BY <1>6, <1>7, <1>8

(* What the copy of aesd_write does, for later use: n bytes of the buffer  *)
(* go behind the ones already held, and a newline commits them.            *)
LEMMA CopyEffect ==
    ASSUME MemoryInv, NEW p \in Proc, WriteCopy(p)
    PROVE  \E n \in 0 .. Len(req[p].arg) :
             LET new   == SubSeq(req[p].arg, 1, n)
                 bytes == mem[pending.buffptr] \o new
                 cmd   == [pending EXCEPT !.size = @ + n]
             IN  /\ req[p].arg \in Chunk /\ new \in Seq(Byte)
                 /\ ~CopyMayFault => n = Len(req[p].arg) /\ n # 0
                 /\ mem[pending.buffptr] \in Seq(Byte)
                 /\ bytes \in Seq(Byte) /\ Len(bytes) = cmd.size
                 /\ cmd.buffptr = pending.buffptr /\ cmd.size = pending.size + n
                 /\ cmd \in EntryType
                 /\ pending.buffptr \in live /\ pending.buffptr \in Buffptr
                 /\ HasNewline(bytes)  => CommitCommand(cmd, bytes) /\ cmd.size \in Nat \ {0}
                 /\ ~HasNewline(bytes) => KeepPartial(cmd, bytes)
                 /\ UnlockAndReturn(p, Ok(n))
<1>1. /\ pc[p] = "copying" /\ lock = p /\ loaded /\ req[p].op = "write"
      /\ pending.buffptr \in Buffptr /\ pending.buffptr # NULL /\ DriverInv
  BY NullAssumption DEF MemoryInv, DriverInv, CallInv, WriteCopy
<1>2. PICK n \in CopiedOf(Len(req[p].arg)) :
        LET bytes == mem[pending.buffptr] \o SubSeq(req[p].arg, 1, n)
            cmd   == [pending EXCEPT !.size = @ + n]
        IN  /\ IF HasNewline(bytes) THEN CommitCommand(cmd, bytes)
                                    ELSE KeepPartial(cmd, bytes)
            /\ UnlockAndReturn(p, Ok(n))
  BY DEF WriteCopy
<1> DEFINE new   == SubSeq(req[p].arg, 1, n)
           bytes == mem[pending.buffptr] \o new
           cmd   == [pending EXCEPT !.size = @ + n]
<1>3. req[p].arg \in Chunk
  BY <1>1, WriteArg
<1>4. req[p].arg \in Seq(Byte) /\ req[p].arg # <<>> /\ Len(req[p].arg) \in Nat
  BY <1>3, ChunkAssumption
<1>5. n \in 0 .. Len(req[p].arg) /\ (~CopyMayFault => n = Len(req[p].arg) /\ n # 0)
  BY <1>4 DEF CopiedOf
<1>6. new \in Seq(Byte) /\ Len(new) = n
  BY <1>4, <1>5
<1>7. mem[pending.buffptr] \in Seq(Byte) /\ Len(mem[pending.buffptr]) = pending.size
  BY <1>1 DEF DriverInv, DevTypeOK, SizesAgree
<1>8. bytes \in Seq(Byte) /\ Len(bytes) = pending.size + n
  BY <1>6, <1>7
<1>9. /\ cmd.buffptr = pending.buffptr /\ cmd.size = pending.size + n
      /\ cmd \in EntryType
  <2>1. pending \in EntryType
    BY <1>1 DEF DriverInv, DevTypeOK
  <2> QED BY <1>1, <1>5, <2>1 DEF EntryType
<1>10. pending.buffptr \in live
  BY <1>1 DEF DriverInv, Ownership, OwnedBlocks
<1> HIDE DEF bytes, new
<1>11. HasNewline(bytes) => cmd.size \in Nat \ {0}
  BY <1>8, <1>9 DEF HasNewline, EntryType
<1>12. /\ HasNewline(bytes) => CommitCommand(cmd, bytes)
       /\ ~HasNewline(bytes) => KeepPartial(cmd, bytes)
       /\ UnlockAndReturn(p, Ok(n))
  BY <1>2, Zenon DEF bytes, new
<1> HIDE DEF cmd
<1> QED
  BY <1>1, <1>3, <1>5, <1>6, <1>7, <1>8, <1>9, <1>10, <1>11, <1>12, Zenon DEF bytes, new, cmd

(* The copy of aesd_write. *)
LEMMA CopyKeepsMemory ==
    ASSUME MemoryInv, NEW p \in Proc, WriteCopy(p)
    PROVE  HeapInv' /\ NewlineInv'
<1>1. PICK n \in 0 .. Len(req[p].arg) :
             LET new   == SubSeq(req[p].arg, 1, n)
                 bytes == mem[pending.buffptr] \o new
                 cmd   == [pending EXCEPT !.size = @ + n]
             IN  /\ req[p].arg \in Chunk /\ new \in Seq(Byte)
                 /\ ~CopyMayFault => n = Len(req[p].arg) /\ n # 0
                 /\ mem[pending.buffptr] \in Seq(Byte)
                 /\ bytes \in Seq(Byte) /\ Len(bytes) = cmd.size
                 /\ cmd.buffptr = pending.buffptr /\ cmd.size = pending.size + n
                 /\ cmd \in EntryType
                 /\ pending.buffptr \in live /\ pending.buffptr \in Buffptr
                 /\ HasNewline(bytes)  => CommitCommand(cmd, bytes) /\ cmd.size \in Nat \ {0}
                 /\ ~HasNewline(bytes) => KeepPartial(cmd, bytes)
                 /\ UnlockAndReturn(p, Ok(n))
  BY CopyEffect
<1> DEFINE bytes == mem[pending.buffptr] \o SubSeq(req[p].arg, 1, n)
           cmd   == [pending EXCEPT !.size = @ + n]
<1>2. /\ cmd.buffptr = pending.buffptr /\ cmd.size = pending.size + n
      /\ pending.buffptr \in live /\ pending.buffptr \in Buffptr
      /\ ~CopyMayFault => n # 0
      /\ HasNewline(bytes)  => CommitCommand(cmd, bytes)
      /\ ~HasNewline(bytes) => KeepPartial(cmd, bytes)
  BY <1>1
<1> HIDE DEF bytes, cmd
<1>3. loaded /\ UNCHANGED loaded /\ DriverInv /\ pending.size \in Nat
  BY DEF MemoryInv, DriverInv, CallInv, DevTypeOK, EntryType, WriteCopy
<1>4. \A s \in Slots : entry[s].buffptr # NULL =>
         /\ entry[s].buffptr \in Buffptr /\ entry[s].buffptr \in live
         /\ entry[s].buffptr # pending.buffptr
         /\ HasNewline(mem[entry[s].buffptr])
         /\ \A t \in Slots : s # t => entry[s].buffptr # entry[t].buffptr
  BY <1>3, EntryBlock DEF MemoryInv, NewlineInv, DriverInv, Ownership
<1>5. /\ in_offs \in Slots /\ entry \in [Slots -> EntryType] /\ live \subseteq Buffptr
      /\ mem \in [Buffptr -> Seq(Byte)]
  BY <1>3 DEF DriverInv, DevTypeOK, CBTypeOK
<1>6. CASE HasNewline(bytes)
  <2>1. /\ entry' = [entry EXCEPT ![in_offs] = cmd]
        /\ live' = live \ {OverwrittenPtr}
        /\ mem' = [q \in Buffptr |-> IF q = cmd.buffptr THEN bytes
                                     ELSE IF q = OverwrittenPtr THEN <<>>
                                     ELSE mem[q]]
        /\ pending'.buffptr = NULL /\ pending'.size = 0
    BY <1>2, <1>6 DEF CommitCommand, aesd_circular_buffer_add_entry, EmptyEntry
  <2>2. \A s \in Slots : entry'[s] = IF s = in_offs THEN cmd ELSE entry[s]
    BY <1>5, <2>1
  <2>3. OwnedBlocks' = (OwnedBlocks \ {OverwrittenPtr}) \cup {pending.buffptr}
    BY <1>2, <1>4, <1>5, <2>1, <2>2, NullAssumption DEF OwnedBlocks, OverwrittenPtr
  <2>4. HeapInv'
    <3>1. OverwrittenPtr # pending.buffptr
      BY <1>2, <1>4, <1>5, NullAssumption DEF OverwrittenPtr
    <3>2. pending.buffptr \in OwnedBlocks
      BY <1>2, NullAssumption DEF OwnedBlocks
    <3> QED BY <1>3, <2>1, <2>3, <3>1, <3>2 DEF HeapInv, MemoryInv
  <2>5. NewlineInv'
    <3> SUFFICES ASSUME NEW s \in Slots, entry'[s].buffptr # NULL
                 PROVE  HasNewline(mem'[entry'[s].buffptr])
      BY <2>1 DEF NewlineInv
    <3>1. CASE s = in_offs
      <4>1. mem'[cmd.buffptr] = bytes
        BY <1>2, <2>1
      <4> QED BY <3>1, <4>1, <2>2, <1>6
    <3>2. CASE s # in_offs
      <4>1. mem'[entry[s].buffptr] = mem[entry[s].buffptr]
        BY <3>2, <1>2, <1>4, <1>5, <2>1, <2>2 DEF OverwrittenPtr
      <4> QED BY <3>2, <4>1, <1>4, <2>2
    <3> QED BY <3>1, <3>2
  <2> QED BY <2>4, <2>5
<1>7. CASE ~HasNewline(bytes)
  <2>1. /\ pending' = cmd /\ UNCHANGED <<cbVars, live>>
        /\ mem' = [mem EXCEPT ![pending.buffptr] = bytes]
    BY <1>2, <1>7 DEF KeepPartial
  <2>2. HeapInv'
    BY <1>2, <1>3, <2>1, NullAssumption DEF HeapInv, MemoryInv, OwnedBlocks, cbVars
  <2>3. ~HasNewline(mem'[pending'.buffptr])
    BY <1>2, <1>5, <1>7, <2>1
  <2>4. \A s \in Slots : entry[s].buffptr # NULL =>
           mem'[entry[s].buffptr] = mem[entry[s].buffptr]
    BY <1>4, <1>5, <2>1
  <2>5. NewlineInv'
    BY <1>3, <1>4, <2>1, <2>3, <2>4 DEF NewlineInv, cbVars
  <2> QED BY <2>2, <2>5
<1> QED BY <1>6, <1>7

(* aesd_init_module, and aesd_cleanup_module, which frees what there is.   *)
LEMMA ModuleKeepsMemory ==
    ASSUME MemoryInv, aesd_init_module \/ aesd_cleanup_module
    PROVE  HeapInv' /\ NewlineInv'
<1>1. CASE aesd_init_module
  <2>1. /\ pending'.buffptr = NULL /\ pending'.size = 0 /\ ~loaded /\ live' = live
        /\ \A s \in Slots : entry'[s].buffptr = NULL
    BY <1>1 DEF aesd_init_module, EmptyEntry, heapVars
  <2>2. OwnedBlocks' = {}
    BY <2>1 DEF OwnedBlocks
  <2>3. HeapInv'
    BY <2>1, <2>2 DEF MemoryInv, HeapInv
  <2>4. NewlineInv'
    BY <2>1 DEF NewlineInv
  <2> QED BY <2>3, <2>4
<1>2. CASE aesd_cleanup_module
  <2>1. /\ loaded /\ ~loaded' /\ live' = live \ OwnedBlocks
        /\ UNCHANGED <<devVars, pc, req>>
    BY <1>2, Zenon DEF aesd_cleanup_module, callVars
  <2>2. HeapInv'
    BY <2>1 DEF MemoryInv, HeapInv, Copying, devVars
  <2>3. NewlineInv'
    BY <2>1 DEF NewlineInv
  <2> QED BY <2>2, <2>3
<1> QED BY <1>1, <1>2

LEMMA MemoryInvStep == MemoryInv /\ [CharNext]_charVars => MemoryInv'
<1> SUFFICES ASSUME MemoryInv, [CharNext]_charVars PROVE MemoryInv'
  OBVIOUS
<1>1. DriverInv /\ DriverInv'
  BY DriverInvStep DEF MemoryInv
<1>2. CASE \E p \in Proc : OutsideWrite(p)
  BY <1>1, <1>2, OutsideWriteKeeps, CallKeepsMemory DEF MemoryInv
<1>3. CASE \E p \in Proc : \/ WriteKmalloc(p) \/ WriteKmallocFails(p)
                           \/ WriteKrealloc(p) \/ WriteKreallocFails(p)
  BY <1>1, <1>3, AllocKeepsMemory DEF MemoryInv
<1>4. CASE \E p \in Proc : WriteCopy(p)
  BY <1>1, <1>4, CopyKeepsMemory DEF MemoryInv
<1>5. CASE aesd_init_module \/ aesd_cleanup_module
  BY <1>1, <1>5, ModuleKeepsMemory DEF MemoryInv
<1>6. CASE UNCHANGED charVars
  <2>1. UNCHANGED <<devVars, heapVars, loaded>> /\ (Copying <=> Copying')
    BY <1>6 DEF charVars, callVars, Copying
  <2> QED BY <1>1, <2>1, CallKeepsMemory DEF MemoryInv
<1> QED BY <1>2, <1>3, <1>4, <1>5, <1>6 DEF CharNext, Body, OutsideWrite

(* The blocks and the bytes of the device under every interleaving of the  *)
(* file operations and every failure of aesd_write: the invariant behind   *)
(* the theorems below.                                                     *)
THEOREM DriverMemory == CharSpec => []MemoryInv
BY MemoryInvInit, MemoryInvStep, PTL DEF CharSpec

(* NoLeak for every instance: unless an allocation fails or a copy faults, *)
(* every block that is allocated is one the device refers to, and          *)
(* aesd_cleanup_module frees all of them.                                  *)
THEOREM DriverNoLeak == CharSpec => []NoLeak
<1>1. MemoryInv => NoLeak
  BY DEF MemoryInv, HeapInv, NoLeak
<1> QED BY DriverMemory, <1>1, PTL

(* CommandsTerminated for every instance: whenever the mutex is free, each *)
(* stored command has its newline and the one under construction has none, *)
(* whatever fails.                                                         *)
THEOREM DriverCommands == CharSpec => []CommandsTerminated
<1>1. MemoryInv => CommandsTerminated
  BY DriverCopyingHolds DEF MemoryInv, NewlineInv, CommandsTerminated, CopyingHolds
<1> QED BY DriverMemory, <1>1, PTL

-----------------------------------------------------------------------------
(* The refinement of the command log. *)

(* The commands of the log are the bytes of the entries held, oldest       *)
(* first, and each of them has a block of its own.                         *)
LEMMA CommandsType ==
    ASSUME DriverInv, loaded
    PROVE  /\ Commands \in Seq(Seq(Byte))
           /\ Len(Commands) = Count
           /\ \A i \in 1 .. Count :
                 /\ Contents[i].buffptr \in Buffptr
                 /\ Commands[i] = mem[Contents[i].buffptr]
                 /\ Contents[i].buffptr \in {entry[s].buffptr : s \in Slots}
<1>1. CBTypeOK /\ RingShape /\ mem \in [Buffptr -> Seq(Byte)]
  BY DEF DriverInv, DevTypeOK
<1>2. /\ Count \in 0 .. MaxOps
      /\ \A i \in 1 .. Count : SlotAt(i - 1) \in Slots /\ Contents[i] = entry[SlotAt(i - 1)]
  BY <1>1, CountType, ContentsType
<1>3. Commands = [i \in 1 .. Count |-> mem[entry[SlotAt(i - 1)].buffptr]]
  BY DEF Commands
<1>4. ASSUME NEW i \in 1 .. Count PROVE entry[SlotAt(i - 1)].buffptr \in Buffptr
  <2>1. SlotAt(i - 1) \in Occupied
    BY <1>2 DEF Occupied
  <2> QED BY <1>1, <1>2, <2>1 DEF RingShape
<1>5. Commands \in [1 .. Count -> Seq(Byte)]
  BY <1>1, <1>3, <1>4
<1>6. Commands \in Seq(Seq(Byte)) /\ Len(Commands) = Count
  BY <1>2, <1>3, <1>5
<1>7. ASSUME NEW i \in 1 .. Count
      PROVE  /\ Contents[i].buffptr \in Buffptr
             /\ Commands[i] = mem[Contents[i].buffptr]
             /\ Contents[i].buffptr \in {entry[s].buffptr : s \in Slots}
  BY <1>2, <1>3, <1>4
<1> QED BY <1>6, <1>7

(* The slot a full buffer overwrites is that of its oldest entry, so the   *)
(* younger ones keep their blocks; the slot of a buffer that is not full   *)
(* is empty.                                                               *)
LEMMA OverwrittenIsOldest ==
    ASSUME DriverInv, loaded
    PROVE  /\ Count # MaxOps => OverwrittenPtr = NULL
           /\ Count = MaxOps =>
                 \A i \in 2 .. MaxOps : Contents[i].buffptr # OverwrittenPtr
<1>1. CBTypeOK /\ RingShape
  BY DEF DriverInv, DevTypeOK
<1>2. /\ Count \in 0 .. MaxOps
      /\ \A i \in 1 .. Count : SlotAt(i - 1) \in Slots /\ Contents[i] = entry[SlotAt(i - 1)]
  BY <1>1, CountType, ContentsType
<1>3. CASE Count # MaxOps
  <2>1. ~full
    BY <1>1, <1>3, MaxOpsAssumption DEF Count, CBTypeOK, RingShape, Slots
  <2>2. ~Between(in_offs)
    BY <1>1, <2>1, MaxOpsAssumption DEF Between, CBTypeOK, Slots
  <2>3. in_offs \in Slots /\ in_offs \notin Occupied
    BY <1>1, <2>2, OccupiedBetween DEF CBTypeOK
  <2> QED BY <1>1, <1>3, <2>3 DEF RingShape, EmptyEntry, OverwrittenPtr
<1>4. CASE Count = MaxOps
  <2>1. in_offs = out_offs
    BY <1>1, <1>4, MaxOpsAssumption DEF Count, CBTypeOK, Slots
  <2> SUFFICES ASSUME NEW i \in 2 .. MaxOps PROVE Contents[i].buffptr # OverwrittenPtr
    BY <1>4
  <2>2. i \in 1 .. Count /\ i - 1 \in 1 .. MaxOps - 1 /\ i - 1 \in 0 .. MaxOps
    BY <1>4, MaxOpsAssumption
  <2>3. SlotAt(i - 1) # in_offs
    <3>1. SlotAt(i - 1) = IF out_offs + (i - 1) < MaxOps THEN out_offs + (i - 1)
                                                         ELSE out_offs + (i - 1) - MaxOps
      BY <1>1, <2>2, ModPlus DEF SlotAt, CBTypeOK
    <3> QED BY <1>1, <2>1, <2>2, <3>1, MaxOpsAssumption DEF CBTypeOK, Slots
  <2>4. SlotAt(i - 1) \in Slots /\ Contents[i] = entry[SlotAt(i - 1)] /\ in_offs \in Slots
    BY <1>1, <1>2, <2>2 DEF CBTypeOK
  <2>5. Contents[i].buffptr \in Buffptr
    BY <2>2, CommandsType
  <2> QED
    BY <2>3, <2>4, <2>5, NullAssumption DEF OverwrittenPtr, DriverInv, Ownership
<1> QED BY <1>3, <1>4

(* The commit is the completing write of the log. *)
LEMMA CommitAppends ==
    ASSUME DriverInv, loaded, UNCHANGED loaded,
           NEW cmd, NEW bytes \in Seq(Byte), CommitCommand(cmd, bytes),
           cmd \in EntryType, cmd.size # 0,
           cmd.buffptr = pending.buffptr, pending.buffptr \in Buffptr
    PROVE  Commands' = Append(Log!Kept(Commands), bytes)
<1>1. CBTypeOK /\ RingShape /\ mem \in [Buffptr -> Seq(Byte)]
  BY DEF DriverInv, DevTypeOK
<1>2. cmd \in [buffptr : Buffptr, size : Nat \ {0}]
  BY DEF EntryType
<1>3. /\ aesd_circular_buffer_add_entry(cmd)
      /\ mem' = [q \in Buffptr |-> IF q = cmd.buffptr THEN bytes
                                   ELSE IF q = OverwrittenPtr THEN <<>>
                                   ELSE mem[q]]
  BY DEF CommitCommand
<1>4. CBTypeOK' /\ RingShape'
  BY <1>1, <1>2, <1>3, AddEntryInv
<1>5. Contents' = IF Count = MaxOps
                  THEN [i \in 1 .. MaxOps |-> IF i = MaxOps THEN cmd ELSE Contents[i + 1]]
                  ELSE [i \in 1 .. Count + 1 |-> IF i = Count + 1 THEN cmd ELSE Contents[i]]
  BY <1>1, <1>2, <1>3, AddEntryContents
<1>6. Count' = IF Count = MaxOps THEN MaxOps ELSE Count + 1
  BY <1>1, <1>3, <1>4, CountStep
<1>7. Count \in 0 .. MaxOps
  BY <1>1, CountType
<1>8. Commands' = [i \in 1 .. Count' |-> mem'[Contents'[i].buffptr]]
  BY DEF Commands, Contents
<1>9. /\ Commands \in Seq(Seq(Byte)) /\ Len(Commands) = Count
      /\ \A i \in 1 .. Count : /\ Contents[i].buffptr \in Buffptr
                               /\ Commands[i] = mem[Contents[i].buffptr]
                               /\ Contents[i].buffptr # pending.buffptr
  BY CommandsType, EntryBlock, NullAssumption
<1>10. ASSUME NEW i \in 1 .. Count, Contents[i].buffptr # OverwrittenPtr
       PROVE  mem'[Contents[i].buffptr] = Commands[i]
  BY <1>3, <1>9, <1>10
<1>11. mem'[cmd.buffptr] = bytes
  BY <1>3
<1>12. CASE Count = MaxOps
  <2>1. ASSUME NEW i \in 1 .. MaxOps
        PROVE  mem'[Contents'[i].buffptr] = IF i = MaxOps THEN bytes ELSE Commands[i + 1]
    <3>1. CASE i = MaxOps
      <4>1. Contents'[i] = cmd
        BY <1>5, <1>12, <3>1, MaxOpsAssumption
      <4> QED BY <3>1, <4>1, <1>11
    <3>2. CASE i # MaxOps
      <4>1. i + 1 \in 2 .. MaxOps /\ i + 1 \in 1 .. Count
        BY <1>12, <3>2, MaxOpsAssumption
      <4>2. Contents'[i] = Contents[i + 1]
        BY <1>5, <1>12, <3>2
      <4>3. Contents[i + 1].buffptr # OverwrittenPtr
        BY <1>12, <4>1, OverwrittenIsOldest
      <4> QED BY <3>2, <4>1, <4>2, <4>3, <1>10
    <3> QED BY <3>1, <3>2
  <2>2. Commands' = [i \in 1 .. MaxOps |-> IF i = MaxOps THEN bytes ELSE Commands[i + 1]]
    BY <1>6, <1>8, <1>12, <2>1
  <2>3. Append(Tail(Commands), bytes)
          = [i \in 1 .. Len(Commands) |-> IF i = Len(Commands) THEN bytes ELSE Commands[i + 1]]
    <3>1. \A s \in Seq(Seq(Byte)) : Len(s) # 0 =>
             Append(Tail(s), bytes)
               = [i \in 1 .. Len(s) |-> IF i = Len(s) THEN bytes ELSE s[i + 1]]
      BY TailAppendElements, Zenon
    <3>2. Len(Commands) # 0
      BY <1>9, <1>12, MaxOpsAssumption
    <3> QED BY <1>9, <3>1, <3>2
  <2> QED BY <1>9, <1>12, <2>2, <2>3 DEF Log!Kept
<1>13. CASE Count # MaxOps
  <2>1. OverwrittenPtr = NULL
    BY <1>13, OverwrittenIsOldest
  <2>2. ASSUME NEW i \in 1 .. Count + 1
        PROVE  mem'[Contents'[i].buffptr] = IF i = Count + 1 THEN bytes ELSE Commands[i]
    <3>1. CASE i = Count + 1
      <4>1. Contents'[i] = cmd
        BY <1>5, <1>7, <1>13, <3>1
      <4> QED BY <3>1, <4>1, <1>11
    <3>2. CASE i # Count + 1
      <4>1. i \in 1 .. Count
        BY <1>7, <3>2
      <4>2. Contents'[i] = Contents[i]
        BY <1>5, <1>13, <3>2
      <4>3. Contents[i].buffptr # OverwrittenPtr
        BY <2>1, <4>1, <1>9, NullAssumption
      <4> QED BY <3>2, <4>1, <4>2, <4>3, <1>10
    <3> QED BY <3>1, <3>2
  <2>3. Commands' = [i \in 1 .. Count + 1 |-> IF i = Count + 1 THEN bytes ELSE Commands[i]]
    BY <1>6, <1>8, <1>13, <2>2
  <2>4. Append(Commands, bytes)
          = [i \in 1 .. Len(Commands) + 1 |-> IF i = Len(Commands) + 1 THEN bytes ELSE Commands[i]]
    BY <1>9, AppendElements
  <2> QED BY <1>9, <1>13, <2>3, <2>4 DEF Log!Kept
<1> QED BY <1>12, <1>13

(* Commands and Partial look at nothing but these.                         *)
LEMMA LogUnchanged ==
    ASSUME UNCHANGED <<devVars, mem, loaded>>
    PROVE  UNCHANGED <<Commands, Partial>>
BY DEF devVars, Commands, Partial, Count, SlotAt

(* An allocation that cannot fail moves the command under construction at  *)
(* most: its bytes stay, and so do those of the entries.                   *)
LEMMA AllocKeepsLog ==
    ASSUME MemoryInv, ~AllocMayFail, NEW p \in Proc,
           \/ WriteKmalloc(p) \/ WriteKmallocFails(p)
           \/ WriteKrealloc(p) \/ WriteKreallocFails(p)
    PROVE  UNCHANGED <<Commands, Partial>>
<1>1. /\ UNCHANGED <<cbVars, loaded>> /\ loaded /\ lock = p /\ pc[p] = "locked"
      /\ DriverInv
  BY DEF MemoryInv, DriverInv, CallInv, Locked, WriteKmalloc, WriteKmallocFails, WriteKrealloc,
         WriteKreallocFails
<1>2. /\ pending.size \in Nat /\ pending.buffptr \in Buffptr \cup {NULL}
      /\ pending = [buffptr |-> pending.buffptr, size |-> pending.size]
      /\ live \subseteq Buffptr /\ mem \in [Buffptr -> Seq(Byte)]
  BY <1>1 DEF DriverInv, DevTypeOK, EntryType
<1>3. pending.size # 0 => pending.buffptr # NULL
  BY DEF MemoryInv, HeapInv
<1>4. pending.buffptr # NULL => Len(mem[pending.buffptr]) = pending.size
  BY <1>1 DEF DriverInv, SizesAgree
<1>5. \A s \in Slots : entry[s].buffptr # NULL =>
         /\ entry[s].buffptr \in Buffptr /\ entry[s].buffptr \in live
         /\ entry[s].buffptr # pending.buffptr
  BY <1>1, EntryBlock
<1>6. pending.size = 0 => Partial = <<>>
  BY <1>1, <1>2, <1>4, EmptySeq DEF Partial
<1>7. (\A s \in Slots : entry[s].buffptr # NULL =>
          mem'[entry[s].buffptr] = mem[entry[s].buffptr]) => UNCHANGED Commands
  <2>1. /\ Len(Commands) = Count
        /\ \A i \in 1 .. Count :
              Contents[i].buffptr \in Buffptr /\ Contents[i].buffptr \in {entry[s].buffptr : s \in Slots}
    BY <1>1, CommandsType
  <2>2. Commands' = [i \in 1 .. Count |-> mem'[Contents[i].buffptr]]
    BY <1>1 DEF Commands, Contents, cbVars, Count, SlotAt
  <2>3. Commands = [i \in 1 .. Count |-> mem[Contents[i].buffptr]]
    BY <1>1 DEF Commands, Contents
  <2> QED BY <2>1, <2>2, <2>3, NullAssumption
<1>8. CASE WriteKmalloc(p)
  <2>1. PICK b \in Buffptr \ live :
           /\ pending' = [pending EXCEPT !.buffptr = b]
           /\ mem' = [mem EXCEPT ![b] = <<>>]
    BY <1>8 DEF WriteKmalloc
  <2>2. UNCHANGED Commands
    BY <1>2, <1>5, <1>7, <2>1
  <2>3. pending.size = 0
    BY <1>8 DEF WriteKmalloc
  <2>4. Partial' = <<>>
    BY <1>2, <2>1 DEF Partial
  <2> QED BY <1>6, <2>2, <2>3, <2>4
<1>9. CASE WriteKmallocFails(p) \/ WriteKreallocFails(p)
  <2>1. /\ pending' = [pending EXCEPT !.buffptr = NULL] /\ UNCHANGED mem
        /\ pending.size = 0 \/ pending.buffptr = NULL
    BY <1>9 DEF WriteKmallocFails, WriteKreallocFails, heapVars
  <2>2. Partial' = <<>>
    BY <1>2, <2>1 DEF Partial
  <2>3. Partial = <<>>
    BY <1>3, <1>6, <2>1
  <2>4. UNCHANGED Commands
    BY <1>7, <2>1
  <2> QED BY <2>2, <2>3, <2>4
<1>10. CASE WriteKrealloc(p)
  <2>1. pending.size # 0 /\ pending.buffptr # NULL
    BY <1>3, <1>10 DEF WriteKrealloc
  <2>2. PICK b \in (Buffptr \ live) \cup ({pending.buffptr} \ {NULL}) :
           /\ pending' = [pending EXCEPT !.buffptr = b]
           /\ mem' = [q \in Buffptr |-> IF q = b THEN mem[pending.buffptr]
                                        ELSE IF q = pending.buffptr THEN <<>>
                                        ELSE mem[q]]
    BY <1>10, <2>1 DEF WriteKrealloc
  <2>3. b \in Buffptr /\ b # NULL /\ pending'.buffptr = b
    BY <1>2, <2>1, <2>2, NullAssumption
  <2>4. UNCHANGED Commands
    BY <1>2, <1>5, <1>7, <2>2
  <2>5. Partial' = mem[pending.buffptr] /\ Partial = mem[pending.buffptr]
    BY <1>1, <2>1, <2>2, <2>3 DEF Partial
  <2> QED BY <2>4, <2>5
<1> QED BY <1>8, <1>9, <1>10

LEMMA NewlineOfConcat ==
    ASSUME NEW s \in Seq(Byte), NEW t \in Seq(Byte)
    PROVE  HasNewline(s \o t) <=> HasNewline(s) \/ HasNewline(t)
<1>1. /\ Len(s) \in Nat /\ Len(t) \in Nat /\ Len(s \o t) = Len(s) + Len(t)
      /\ DOMAIN s = 1 .. Len(s) /\ DOMAIN t = 1 .. Len(t) /\ DOMAIN (s \o t) = 1 .. Len(s) + Len(t)
      /\ \A i \in 1 .. Len(s) + Len(t) :
            (s \o t)[i] = IF i <= Len(s) THEN s[i] ELSE t[i - Len(s)]
  BY ConcatProperties
<1>2. ASSUME NEW i \in 1 .. Len(t) PROVE i + Len(s) \in 1 .. Len(s) + Len(t) /\ ~(i + Len(s) <= Len(s))
  BY <1>1
<1>3. ASSUME NEW i \in 1 .. Len(t) PROVE (s \o t)[i + Len(s)] = t[i]
  BY <1>1, <1>2
<1>4. ASSUME NEW i \in DOMAIN (s \o t), (s \o t)[i] = NL
      PROVE  HasNewline(s) \/ HasNewline(t)
  <2>1. CASE i <= Len(s)
    BY <1>1, <1>4, <2>1 DEF HasNewline
  <2>2. CASE ~(i <= Len(s))
    <3>1. i - Len(s) \in DOMAIN t /\ t[i - Len(s)] = NL
      BY <1>1, <1>4, <2>2
    <3> QED BY <3>1 DEF HasNewline
  <2> QED BY <2>1, <2>2
<1>5. HasNewline(s) => HasNewline(s \o t)
  BY <1>1 DEF HasNewline
<1>6. HasNewline(t) => HasNewline(s \o t)
  BY <1>1, <1>2, <1>3 DEF HasNewline
<1>7. HasNewline(s \o t) => HasNewline(s) \/ HasNewline(t)
  BY <1>4, Zenon DEF HasNewline
<1> QED BY <1>5, <1>6, <1>7

(* The copy of aesd_write is one write to the log: the bytes held before   *)
(* it contain no newline, so memchr finds one exactly when the bytes just  *)
(* copied do.                                                              *)
LEMMA CopyIsLogWrite ==
    ASSUME MemoryInv, ~AllocMayFail, NEW p \in Proc, WriteCopy(p)
    PROVE  Log!WriteSome
<1>1. PICK n \in 0 .. Len(req[p].arg) :
             LET new   == SubSeq(req[p].arg, 1, n)
                 bytes == mem[pending.buffptr] \o new
                 cmd   == [pending EXCEPT !.size = @ + n]
             IN  /\ req[p].arg \in Chunk /\ new \in Seq(Byte)
                 /\ ~CopyMayFault => n = Len(req[p].arg) /\ n # 0
                 /\ mem[pending.buffptr] \in Seq(Byte)
                 /\ bytes \in Seq(Byte) /\ Len(bytes) = cmd.size
                 /\ cmd.buffptr = pending.buffptr /\ cmd.size = pending.size + n
                 /\ cmd \in EntryType
                 /\ pending.buffptr \in live /\ pending.buffptr \in Buffptr
                 /\ HasNewline(bytes)  => CommitCommand(cmd, bytes) /\ cmd.size \in Nat \ {0}
                 /\ ~HasNewline(bytes) => KeepPartial(cmd, bytes)
                 /\ UnlockAndReturn(p, Ok(n))
  BY CopyEffect
<1> DEFINE new   == SubSeq(req[p].arg, 1, n)
           held  == mem[pending.buffptr]
           bytes == held \o new
           cmd   == [pending EXCEPT !.size = @ + n]
<1>2. /\ req[p].arg \in Chunk /\ new \in Seq(Byte) /\ held \in Seq(Byte)
      /\ bytes \in Seq(Byte)
      /\ cmd.buffptr = pending.buffptr /\ cmd \in EntryType
      /\ pending.buffptr \in Buffptr
      /\ HasNewline(bytes)  => CommitCommand(cmd, bytes) /\ cmd.size # 0
      /\ ~HasNewline(bytes) => KeepPartial(cmd, bytes)
  BY <1>1
<1>3. loaded /\ UNCHANGED loaded /\ DriverInv
  BY DEF MemoryInv, DriverInv, CallInv, WriteCopy
<1>4. Partial = held
  BY <1>2, <1>3, NullAssumption DEF Partial
<1>5. ~HasNewline(held)
  BY <1>2, <1>3, NullAssumption DEF MemoryInv, NewlineInv
<1>6. HasNewline(bytes) <=> HasNewline(new)
  BY <1>2, <1>5, NewlineOfConcat DEF HasNewline
<1>7. SUFFICES Log!Write(new)
  BY <1>1, <1>2 DEF Log!WriteSome
<1>8. mem \in [Buffptr -> Seq(Byte)]
  BY <1>3 DEF DriverInv, DevTypeOK
<1> HIDE DEF new, held, bytes, cmd
<1>9. bytes = Partial \o new
  BY <1>4 DEF bytes
<1>10. CASE HasNewline(new)
  <2>1. Commands' = Append(Log!Kept(Commands), bytes)
    BY <1>2, <1>3, <1>6, <1>10, CommitAppends
  <2>2. Partial' = <<>>
    BY <1>2, <1>6, <1>10 DEF CommitCommand, EmptyEntry, Partial
  <2>3. Log!HasNewline(new)
    BY <1>10 DEF HasNewline, Log!HasNewline
  <2> QED BY <1>9, <2>1, <2>2, <2>3 DEF Log!Write
<1>11. CASE ~HasNewline(new)
  <2>1. /\ pending' = cmd /\ UNCHANGED cbVars
        /\ mem' = [mem EXCEPT ![pending.buffptr] = bytes]
    BY <1>2, <1>6, <1>11 DEF KeepPartial
  <2>2. Partial' = bytes
    BY <1>2, <1>3, <1>8, <2>1, NullAssumption DEF Partial
  <2>3. UNCHANGED Commands
    <3>1. /\ Len(Commands) = Count
          /\ \A i \in 1 .. Count :
                /\ Contents[i].buffptr \in Buffptr
                /\ Contents[i].buffptr # pending.buffptr
      BY <1>3, CommandsType, EntryBlock, NullAssumption
    <3>2. Commands' = [i \in 1 .. Count |-> mem'[Contents[i].buffptr]]
      BY <1>3, <2>1 DEF Commands, Contents, cbVars, Count, SlotAt
    <3>3. Commands = [i \in 1 .. Count |-> mem[Contents[i].buffptr]]
      BY <1>3 DEF Commands, Contents
    <3> QED BY <1>8, <2>1, <3>1, <3>2, <3>3
  <2>4. ~Log!HasNewline(new)
    BY <1>11 DEF HasNewline, Log!HasNewline
  <2> QED BY <1>9, <2>2, <2>3, <2>4 DEF Log!Write
<1> QED BY <1>10, <1>11

(* Loading and unloading start the log afresh.                             *)
LEMMA ModuleResetsLog ==
    ASSUME MemoryInv, aesd_init_module \/ aesd_cleanup_module
    PROVE  Log!Reset
<1>1. CASE aesd_init_module
  <2>1. Count' = 0 /\ pending'.buffptr = NULL
    BY <1>1 DEF aesd_init_module, Count, EmptyEntry
  <2> QED BY <2>1 DEF Log!Reset, Commands, Partial
<1>2. CASE aesd_cleanup_module
  BY <1>2 DEF aesd_cleanup_module, Log!Reset, Commands, Partial
<1> QED BY <1>1, <1>2

LEMMA StepIsLogStep ==
    MemoryInv /\ ~AllocMayFail /\ [CharNext]_charVars => [Log!LogNext]_Log!logVars
<1> SUFFICES ASSUME MemoryInv, ~AllocMayFail, [CharNext]_charVars
             PROVE  Log!LogNext \/ UNCHANGED <<Commands, Partial>>
  BY DEF Log!logVars
<1>1. DriverInv
  BY DEF MemoryInv
<1>2. CASE \E p \in Proc : OutsideWrite(p)
  BY <1>1, <1>2, OutsideWriteKeeps, LogUnchanged DEF heapVars
<1>3. CASE \E p \in Proc : \/ WriteKmalloc(p) \/ WriteKmallocFails(p)
                           \/ WriteKrealloc(p) \/ WriteKreallocFails(p)
  BY <1>3, AllocKeepsLog
<1>4. CASE \E p \in Proc : WriteCopy(p)
  BY <1>4, CopyIsLogWrite DEF Log!LogNext
<1>5. CASE aesd_init_module \/ aesd_cleanup_module
  BY <1>5, ModuleResetsLog DEF Log!LogNext
<1>6. CASE UNCHANGED charVars
  BY <1>6, LogUnchanged DEF charVars, heapVars
<1> QED BY <1>2, <1>3, <1>4, <1>5, <1>6 DEF CharNext, Body, OutsideWrite

(* ImplementsLog for every instance: as long as no allocation fails, any   *)
(* number of writers, whose copies may stop early, use the device as the   *)
(* command log, in which a write is one indivisible step.                  *)
THEOREM DriverImplementsLog == ~AllocMayFail /\ CharSpec => ImplementsLog
<1>1. CharInit => Log!LogInit
  BY DEF CharInit, Log!LogInit, Commands, Partial
<1>2. ~AllocMayFail /\ CharSpec => [][Log!LogNext]_Log!logVars
  <2>1. ASSUME ~AllocMayFail
        PROVE  MemoryInv /\ [CharNext]_charVars => [Log!LogNext]_Log!logVars
    BY <2>1, StepIsLogStep
  <2>2. CASE ~AllocMayFail
    BY <2>1, <2>2, DriverMemory, PTL DEF CharSpec
  <2> QED BY <2>2
<1> QED BY <1>1, <1>2, PTL DEF CharSpec, ImplementsLog, Log!LogSpec

-----------------------------------------------------------------------------
(* Reads and seeks against the bytes of all commands in a row. *)

(* A process outside its calls has no request. *)
IdleInv == \A p \in Proc : pc[p] \in {"closed", "idle"} => req[p] = NoReq

OpsInv == FileInv /\ IdleInv

LEMMA OpsInvInit == CharInit => OpsInv
BY FileInvInit DEF CharInit, OpsInv, IdleInv

LEMMA IdleInvStep ==
    ASSUME OpsInv, [CharNext]_charVars
    PROVE  IdleInv'
<1>1. DriverInv /\ FileTypeOK /\ IdleInv /\ req \in [Proc -> Request \cup {NoReq}]
      /\ pc \in [Proc -> {"closed", "idle", "waiting", "locked", "copying"}]
  BY DEF OpsInv, FileInv, DriverInv, DevTypeOK
<1>2. ASSUME NEW p \in Proc, ProcStep(p) PROVE IdleInv'
  <2>1. pc'[p] \in {"closed", "idle"} => req'[p] = NoReq
    BY <1>1, <1>2
       DEF IdleInv, ProcStep, Body, Begin, aesd_open, aesd_release,
           WriteBegin, WriteNothing, ReadBegin, SeekBegin, IoctlRejected, LseekBegin, Call,
           mutex_lock_interruptible, LockInterrupted, WriteKmalloc, WriteKmallocFails,
           WriteKrealloc, WriteKreallocFails, WriteCopy, ReadPastEnd, ReadFind, ReadCopy,
           aesd_adjust_file_offset, aesd_llseek, UnlockAndReturn, Return, Locked
  <2>2. \A q \in Proc \ {p} : pc'[q] = pc[q] /\ req'[q] = req[q]
    BY <1>1, <1>2, OthersKept
  <2> QED BY <1>1, <2>1, <2>2 DEF IdleInv
<1>3. CASE aesd_init_module \/ aesd_cleanup_module \/ UNCHANGED charVars
  <2>1. UNCHANGED <<pc, req>>
    BY <1>3 DEF aesd_init_module, aesd_cleanup_module, charVars, callVars
  <2> QED BY <1>1, <2>1 DEF IdleInv
<1> QED BY <1>2, <1>3 DEF CharNext, ProcStep

LEMMA DriverOps == CharSpec => []OpsInv
<1>1. OpsInv /\ [CharNext]_charVars => OpsInv'
  BY FileInvStep, IdleInvStep DEF OpsInv
<1> QED BY <1>1, OpsInvInit, PTL DEF CharSpec

(* A call on the device that ends without having been interrupted ends     *)
(* with a step of its own process that holds the mutex.                    *)
LEMMA ReturnIsBody ==
    ASSUME OpsInv, [CharNext]_charVars, NEW p \in Proc, NEW op, Returns(p, op),
           op # "none", res'[p].err # "ERESTARTSYS"
    PROVE  Body(p) /\ loaded
<1>1. DriverInv /\ FileTypeOK /\ IdleInv /\ pc[p] \notin {"idle"} /\ pc'[p] = "idle" /\ req[p].op = op
  BY DEF OpsInv, FileInv, Returns
<1>2. pc[p] # "closed"
  BY <1>1 DEF IdleInv, NoReq
<1>3. loaded
  BY <1>1, <1>2 DEF DriverInv, CallInv
<1>4. \E q \in Proc : ProcStep(q)
  <2>1. ~UNCHANGED pc
    BY <1>1
  <2> QED BY <2>1 DEF CharNext, ProcStep, aesd_init_module, aesd_cleanup_module, charVars, callVars
<1>5. ProcStep(p)
  <2>1. PICK q \in Proc : ProcStep(q)
    BY <1>4
  <2>2. q = p
    BY <1>1, <2>1, OthersKept
  <2> QED BY <2>1, <2>2
<1>6. ~Begin(p)
  BY <1>1, <1>2 DEF Begin, aesd_open, aesd_release, WriteBegin, WriteNothing, ReadBegin,
                    SeekBegin, IoctlRejected, LseekBegin, Call
<1>7. ~mutex_lock_interruptible(p)
  BY <1>1 DEF mutex_lock_interruptible, DriverInv, DevTypeOK
<1>8. ~LockInterrupted(p)
  BY <1>1 DEF LockInterrupted, Return, Fail, FileTypeOK
<1> QED BY <1>3, <1>5, <1>6, <1>7, <1>8 DEF ProcStep

(* Where the bytes of the entries are among those of all commands.         *)
LEMMA StoredBytes ==
    ASSUME DriverInv, loaded
    PROVE  /\ Len(Stored) = CharOffs[Count]
           /\ \A i \in 0 .. Count - 1 :
                 /\ entry[SlotAt(i)].size \in Nat \ {0}
                 /\ Len(Commands[i + 1]) = entry[SlotAt(i)].size
                 /\ \A k \in 1 .. entry[SlotAt(i)].size :
                       Stored[CharOffs[i] + k] = mem[entry[SlotAt(i)].buffptr][k]
<1>1. CBTypeOK /\ RingShape /\ Count \in Nat
  BY CountType, MaxOpsAssumption DEF DriverInv, DevTypeOK
<1>2. /\ Commands \in Seq(Seq(Byte)) /\ Len(Commands) = Count
      /\ \A i \in 1 .. Count : Commands[i] = mem[Contents[i].buffptr]
  BY CommandsType
<1>3. ASSUME NEW i \in 0 .. Count - 1
      PROVE  /\ i \in Nat /\ i + 1 \in 1 .. Count
             /\ entry[SlotAt(i)].size \in Nat \ {0}
             /\ Commands[i + 1] = mem[entry[SlotAt(i)].buffptr]
             /\ Len(Commands[i + 1]) = entry[SlotAt(i)].size
  <2>1. i \in Nat /\ i + 1 \in 1 .. Count /\ (i + 1) - 1 = i
    BY <1>1
  <2>2. SlotAt(i) \in Slots /\ SlotAt(i) \in Occupied
    BY <1>1, <2>1, SlotSize DEF Occupied
  <2>3. entry[SlotAt(i)].buffptr \in Buffptr /\ entry[SlotAt(i)].size \in Nat \ {0}
    BY <1>1, <2>2 DEF RingShape
  <2>4. Contents[i + 1] = entry[SlotAt(i)]
    BY <2>1 DEF Contents
  <2>5. Commands[i + 1] = mem[entry[SlotAt(i)].buffptr]
    BY <1>2, <2>1, <2>4
  <2>6. Len(mem[entry[SlotAt(i)].buffptr]) = entry[SlotAt(i)].size
    BY <2>2, <2>3, NullAssumption DEF DriverInv, SizesAgree
  <2> QED BY <2>1, <2>3, <2>5, <2>6
<1>4. CharOffs[0] = 0 /\ \A i \in 0 .. Len(Commands) : CharOffs[i] \in Nat
  <2>1. CharOffs \in [Nat -> Nat] /\ CharOffs[0] = 0
    BY <1>1, CharOffsValues
  <2>2. \A i \in 0 .. Len(Commands) : i \in Nat
    BY <1>1, <1>2
  <2> QED BY <2>1, <2>2
<1>5. ASSUME NEW i \in 1 .. Len(Commands) PROVE CharOffs[i] = CharOffs[i - 1] + Len(Commands[i])
  <2>1. i - 1 \in Nat /\ i - 1 \in 0 .. Count - 1 /\ (i - 1) + 1 = i
    BY <1>1, <1>2
  <2>2. CharOffs[(i - 1) + 1] = CharOffs[i - 1] + entry[SlotAt(i - 1)].size
    BY <1>1, <2>1, CharOffsAt
  <2>3. Len(Commands[(i - 1) + 1]) = entry[SlotAt(i - 1)].size
    BY <1>3, <2>1
  <2> QED BY <2>1, <2>2, <2>3
<1>6. /\ Len(Stored) = CharOffs[Count]
      /\ \A i \in 1 .. Count : \A k \in 1 .. Len(Commands[i]) :
            Stored[CharOffs[i - 1] + k] = Commands[i][k]
  <2> DEFINE offs == CharOffs
             seqs == Commands
             T    == Byte
  <2>1. /\ seqs \in Seq(Seq(T)) /\ offs[0] = 0
        /\ \A i \in 0 .. Len(seqs) : offs[i] \in Nat
        /\ \A i \in 1 .. Len(seqs) : offs[i] = offs[i - 1] + Len(seqs[i])
    BY <1>2, <1>4, <1>5
  <2>2. Stored = FlattenSeq(seqs)
    BY DEF Stored
  <2> HIDE DEF offs, seqs, T
  <2>3. /\ Len(FlattenSeq(seqs)) = offs[Len(seqs)]
        /\ \A i \in 1 .. Len(seqs) : \A k \in 1 .. Len(seqs[i]) :
              FlattenSeq(seqs)[offs[i - 1] + k] = seqs[i][k]
    BY <2>1, FlattenElements
  <2> QED BY <1>2, <2>2, <2>3 DEF offs, seqs
<1>7. ASSUME NEW i \in 0 .. Count - 1, NEW k \in 1 .. entry[SlotAt(i)].size
      PROVE  Stored[CharOffs[i] + k] = mem[entry[SlotAt(i)].buffptr][k]
  <2>1. i + 1 \in 1 .. Count /\ (i + 1) - 1 = i /\ k \in 1 .. Len(Commands[i + 1])
    BY <1>3
  <2>2. Stored[CharOffs[(i + 1) - 1] + k] = Commands[i + 1][k]
    BY <1>6, <2>1
  <2> QED BY <1>3, <2>1, <2>2
<1> QED BY <1>3, <1>6, <1>7

(* What the search returns, in terms of these bytes. *)
LEMMA FindStored ==
    ASSUME DriverInv, loaded, NEW off \in Nat, NEW hit,
           hit = aesd_circular_buffer_find_entry_offset_for_fpos(off)
    PROVE  /\ Len(Stored) \in Nat
           /\ hit = NoEntry <=> off >= Len(Stored)
           /\ hit # NoEntry =>
                \A k \in 1 .. entry[hit.slot].size - hit.offset :
                   /\ off + k <= Len(Stored)
                   /\ Stored[off + k] = mem[entry[hit.slot].buffptr][hit.offset + k]
<1>1. CBTypeOK /\ Count \in 0 .. MaxOps /\ Count \in Nat /\ MaxOps \in Nat
  BY CountType, MaxOpsAssumption DEF DriverInv, DevTypeOK
<1>2. /\ Len(Stored) = CharOffs[Count] /\ CharOffs[Count] \in Nat
      /\ \A i \in 0 .. Count - 1 : \A k \in 1 .. entry[SlotAt(i)].size :
            Stored[CharOffs[i] + k] = mem[entry[SlotAt(i)].buffptr][k]
  BY <1>1, StoredBytes, CharOffsAt
<1>3. \/ /\ hit = NoEntry
         /\ \A i \in 0 .. Count - 1 : CharOffs[i + 1] <= off
      \/ \E i \in 0 .. Count - 1 :
            /\ CharOffs[i] <= off /\ off < CharOffs[i + 1]
            /\ hit = [slot |-> SlotAt(i), offset |-> off - CharOffs[i]]
  BY <1>1, FindResult
<1>4. CASE hit = NoEntry /\ \A i \in 0 .. Count - 1 : CharOffs[i + 1] <= off
  <2>1. off >= CharOffs[Count]
    <3>1. CASE Count = 0
      <4>1. CharOffs[0] = 0
        BY <1>1, CharOffsValues
      <4> QED BY <3>1, <4>1
    <3>2. CASE Count # 0
      <4>1. Count - 1 \in 0 .. Count - 1 /\ (Count - 1) + 1 = Count
        BY <1>1, <3>2
      <4>2. CharOffs[(Count - 1) + 1] <= off
        BY <1>4, <4>1
      <4> QED BY <1>2, <4>1, <4>2
    <3> QED BY <3>1, <3>2
  <2> QED BY <1>2, <1>4, <2>1
<1>5. CASE \E i \in 0 .. Count - 1 :
            /\ CharOffs[i] <= off /\ off < CharOffs[i + 1]
            /\ hit = [slot |-> SlotAt(i), offset |-> off - CharOffs[i]]
  <2>1. PICK i \in 0 .. Count - 1 :
            /\ CharOffs[i] <= off /\ off < CharOffs[i + 1]
            /\ hit = [slot |-> SlotAt(i), offset |-> off - CharOffs[i]]
    BY <1>5
  <2> DEFINE size == entry[SlotAt(i)].size
             start == CharOffs[i]
  <2>2. i \in Nat /\ i + 1 \in Nat /\ i + 1 <= Count
    BY <1>1
  <2>3. /\ start \in Nat /\ size \in Nat /\ CharOffs[i + 1] = start + size
        /\ SlotAt(i) \in Slots
    BY <1>1, <2>2, CharOffsAt, SlotSize
  <2>4. CharOffs[i + 1] <= CharOffs[Count]
    BY <1>1, <2>2, CharOffsGrows
  <2>5. hit.slot = SlotAt(i) /\ hit.offset = off - start
    BY <2>1
  <2>6. \A k \in 1 .. size : Stored[start + k] = mem[entry[SlotAt(i)].buffptr][k]
    BY <1>2
  <2>7. hit # NoEntry
    BY <1>1, <2>3, <2>5 DEF NoEntry, Slots
  <2>8. start <= off /\ off < start + size
    BY <2>1, <2>3
  <2>9. start + size <= Len(Stored)
    BY <1>2, <2>3, <2>4
  <2> HIDE DEF size, start
  <2>10. ASSUME NEW k \in 1 .. size - (off - start)
         PROVE  /\ off + k <= Len(Stored)
                /\ Stored[off + k] = mem[entry[SlotAt(i)].buffptr][(off - start) + k]
    <3>1. /\ (off - start) + k \in 1 .. size /\ start + ((off - start) + k) = off + k
          /\ off + k <= start + size
      BY <2>3, <2>8
    <3>2. Stored[start + ((off - start) + k)] = mem[entry[SlotAt(i)].buffptr][(off - start) + k]
      BY <2>6, <3>1
    <3> QED BY <1>2, <2>3, <2>9, <3>1, <3>2
  <2>11. ~(off >= Len(Stored))
    BY <1>2, <2>3, <2>8, <2>9
  <2>12. entry[hit.slot].size - hit.offset = size - (off - start)
    BY <2>5 DEF size
  <2> QED BY <1>2, <2>5, <2>7, <2>10, <2>11, <2>12
<1> QED BY <1>3, <1>4, <1>5

(* The bytes of one entry that aesd_read copies. *)
LEMMA CopyIsStored ==
    ASSUME FileInv, NEW p \in Proc, ReadCopy(p)
    PROVE  \E n \in Nat :
             /\ fpos'[p] = fpos[p] + n
             /\ res'[p].err = "none" /\ Len(res'[p].data) = n
             /\ \A i \in 1 .. n : /\ fpos[p] + i <= Len(Stored)
                                  /\ res'[p].data[i] = Stored[fpos[p] + i]
             /\ n = 0 /\ ~CopyMayFault => ~(req[p].arg > 0)
<1>1. /\ DriverInv /\ FileTypeOK /\ ReadInv
      /\ loaded /\ fpos[p] \in Nat /\ found[p].count \in Nat
      /\ pc[p] = "copying" /\ req[p].op = "read"
  BY DEF FileInv, DriverInv, CallInv, FileTypeOK, ReadCopy
<1> DEFINE hit   == aesd_circular_buffer_find_entry_offset_for_fpos(fpos[p])
           block == mem[entry[found[p].slot].buffptr]
           from  == found[p].offset
           data(n) == SubSeq(block, from + 1, from + n)
<1> HIDE DEF hit, block, from
<1>2. /\ hit # NoEntry /\ hit.slot = found[p].slot /\ hit.offset = from
      /\ found[p].count <= entry[hit.slot].size - hit.offset
      /\ req[p].arg > 0 => found[p].count > 0
  <2>1. /\ hit # NoEntry /\ hit = [slot |-> found[p].slot, offset |-> found[p].offset]
        /\ found[p].count <= entry[hit.slot].size - hit.offset
        /\ req[p].arg > 0 => found[p].count > 0
    BY <1>1, Zenon DEF ReadInv, hit
  <2> QED BY <2>1 DEF from
<1>3. /\ hit.offset \in Nat /\ entry[hit.slot].size \in Nat
      /\ block \in Seq(Byte) /\ Len(block) = entry[hit.slot].size
  BY <1>1, <1>2, HitIsEntry DEF hit, block
<1>4. \A k \in 1 .. entry[hit.slot].size - hit.offset :
         fpos[p] + k <= Len(Stored) /\ Stored[fpos[p] + k] = block[from + k]
  BY <1>1, <1>2, FindStored DEF hit, block
<1>5. PICK n \in CopiedOf(found[p].count) :
        /\ fpos' = [fpos EXCEPT ![p] = @ + n]
        /\ UnlockAndReturn(p, Bytes(data(n)))
  BY DEF ReadCopy, block, from
<1>6. n \in Nat /\ n <= found[p].count /\ (~CopyMayFault => n = found[p].count)
  BY <1>1, <1>5 DEF CopiedOf
<1>7. Len(data(n)) = n /\ \A i \in 1 .. n : data(n)[i] = block[from + i]
  <2>1. from \in Nat /\ from + n <= Len(block)
    BY <1>1, <1>2, <1>3, <1>6
  <2> DEFINE m == from + 1
             k == from + n
  <2>2. m \in 1 .. Len(block) + 1 /\ m \in Int /\ k \in Int /\ k <= Len(block)
    BY <1>3, <1>6, <2>1
  <2>3. \A i \in m .. k : block[i] \in Byte
    BY <1>3, <2>1, <2>2
  <2> HIDE DEF m, k
  <2>4. /\ Len(SubSeq(block, m, k)) = IF m <= k THEN k - m + 1 ELSE 0
        /\ \A i \in 1 .. k - m + 1 : SubSeq(block, m, k)[i] = block[m + i - 1]
    BY <1>3, <2>2, <2>3, SubSeqProperties
  <2>5. k - m + 1 = n /\ (m <= k <=> n # 0) /\ \A i \in 1 .. n : m + i - 1 = from + i
    BY <1>6, <2>1 DEF m, k
  <2>6. Len(SubSeq(block, m, k)) = n /\ \A i \in 1 .. n : SubSeq(block, m, k)[i] = block[from + i]
    BY <1>6, <2>4, <2>5
  <2> QED BY <2>6 DEF m, k
<1> HIDE DEF data
<1>8. fpos'[p] = fpos[p] + n /\ res'[p].err = "none" /\ res'[p].data = data(n)
  BY <1>1, <1>5 DEF UnlockAndReturn, Return, Bytes, FileTypeOK
<1>9. ASSUME NEW i \in 1 .. n
      PROVE  fpos[p] + i <= Len(Stored) /\ data(n)[i] = Stored[fpos[p] + i]
  <2>1. i \in 1 .. entry[hit.slot].size - hit.offset
    BY <1>1, <1>2, <1>3, <1>6
  <2> QED BY <1>4, <1>7, <2>1
<1>10. n = 0 /\ ~CopyMayFault => ~(req[p].arg > 0)
  BY <1>1, <1>2, <1>6
<1> QED BY <1>6, <1>7, <1>8, <1>9, <1>10

LEMMA ReadReturnsExact ==
    ASSUME OpsInv, [CharNext]_charVars, NEW p \in Proc
    PROVE  ExactRead(p)
<1> SUFFICES ASSUME Returns(p, "read"), res'[p].err = "none"
             PROVE  /\ Len(res'[p].data) = fpos'[p] - fpos[p]
                    /\ \A i \in 1 .. Len(res'[p].data) :
                          /\ fpos[p] + i <= Len(Stored)
                          /\ res'[p].data[i] = Stored[fpos[p] + i]
                    /\ res'[p].data = <<>> /\ req[p].arg > 0 /\ ~CopyMayFault
                          => fpos[p] >= Len(Stored)
  BY Zenon DEF ExactRead
<1>1. FileInv /\ DriverInv /\ FileTypeOK /\ fpos[p] \in Nat /\ Body(p) /\ loaded
  BY ReturnIsBody DEF OpsInv, FileInv, FileTypeOK
<1>2. ReadPastEnd(p) \/ ReadCopy(p)
  BY <1>1 DEF Returns, Body, WriteKmalloc, WriteKmallocFails, WriteKrealloc, WriteKreallocFails,
              WriteCopy, ReadFind, aesd_adjust_file_offset, aesd_llseek, Locked,
              DriverInv, DevTypeOK
<1>3. CASE ReadPastEnd(p)
  <2>1. /\ fpos'[p] = fpos[p] /\ res'[p].data = <<>>
        /\ aesd_circular_buffer_find_entry_offset_for_fpos(fpos[p]) = NoEntry
    BY <1>1, <1>3 DEF ReadPastEnd, UnlockAndReturn, Return, Ok, FileTypeOK
  <2>2. fpos[p] >= Len(Stored)
    BY <1>1, <2>1, FindStored
  <2>3. Len(res'[p].data) = 0 /\ fpos'[p] - fpos[p] = 0
    BY <1>1, <2>1
  <2> QED BY <2>2, <2>3
<1>4. CASE ReadCopy(p)
  <2>1. PICK n \in Nat :
             /\ fpos'[p] = fpos[p] + n
             /\ res'[p].err = "none" /\ Len(res'[p].data) = n
             /\ \A i \in 1 .. n : /\ fpos[p] + i <= Len(Stored)
                                  /\ res'[p].data[i] = Stored[fpos[p] + i]
             /\ n = 0 /\ ~CopyMayFault => ~(req[p].arg > 0)
    BY <1>1, <1>4, CopyIsStored
  <2>2. fpos'[p] - fpos[p] = n
    BY <1>1, <2>1
  <2>3. res'[p].data = <<>> => n = 0
    BY <2>1
  <2> QED BY <2>1, <2>2, <2>3
<1> QED BY <1>2, <1>3, <1>4

(* ReadIsExact for every instance: through every interleaving, eviction    *)
(* and failure, a read returns the bytes of the stored commands in a row   *)
(* from f_pos on and moves f_pos behind them; it returns nothing only at   *)
(* the end, when nothing was asked for, or when the copy faulted.          *)
THEOREM DriverReadsExactly == CharSpec => ReadIsExact
<1>1. OpsInv /\ [CharNext]_charVars => \A p \in Proc : ExactRead(p)
  BY ReadReturnsExact
<1>2. CharSpec => [][\A p \in Proc : ExactRead(p)]_charVars
  BY <1>1, DriverOps, PTL DEF CharSpec
<1> QED BY <1>2 DEF ReadIsExact

LEMMA LseekReturnsInside ==
    ASSUME OpsInv, [CharNext]_charVars, NEW p \in Proc
    PROVE  LseekStaysInside(p)
<1> DEFINE end    == Len(Stored)
           target == req[p].arg.offset + IF req[p].arg.whence = "END" THEN end ELSE 0
<1> SUFFICES ASSUME Returns(p, "llseek"), res'[p].err # "ERESTARTSYS", req[p].arg.whence # "CUR"
             PROVE  /\ res'[p].err = "none" <=> target \in 0 .. end
                    /\ res'[p].err = "none" =>
                         /\ fpos'[p] = target
                         /\ aesd_circular_buffer_find_entry_offset_for_fpos(target) = NoEntry
                              <=> target = end
  BY Zenon DEF LseekStaysInside
<1>1. DriverInv /\ FileTypeOK /\ Body(p) /\ loaded
  BY ReturnIsBody DEF OpsInv, FileInv
<1>2. aesd_llseek(p)
  BY <1>1 DEF Returns, Body, WriteKmalloc, WriteKmallocFails, WriteKrealloc, WriteKreallocFails,
              WriteCopy, ReadPastEnd, ReadFind, ReadCopy, aesd_adjust_file_offset, Locked,
              DriverInv, DevTypeOK
<1>3. req[p].arg.offset \in Int /\ req[p].arg.whence \in {"SET", "END"}
  <2>1. req[p] \in Request \cup {NoReq} /\ req[p].op = "llseek"
    BY <1>1, <1>2 DEF DriverInv, DevTypeOK, aesd_llseek, Locked
  <2>2. req[p].arg \in [offset : LseekOffset, whence : {"SET", "CUR", "END"}]
    BY <2>1 DEF Request, WriteReq, ReadReq, SeekReq, LseekReq, NoReq
  <2> QED BY <2>2, CallAssumption
<1>4. TotalSize = end /\ end \in Nat
  <2>1. ForeachSize[MaxOps] = CharOffs[Count] /\ Len(Stored) = CharOffs[Count]
    BY <1>1, ForeachIsRing, StoredBytes DEF DriverInv, DevTypeOK
  <2>2. CharOffs[Count] \in Nat
    BY <1>1, CountType, CharOffsValues, MaxOpsAssumption DEF DriverInv, DevTypeOK
  <2> QED BY <2>1, <2>2 DEF TotalSize
<1> HIDE DEF end
<1>5. LseekTarget(p, end) = target
  <2>1. CASE req[p].arg.whence = "SET"
    BY <1>3, <2>1 DEF LseekTarget
  <2>2. CASE req[p].arg.whence = "END"
    BY <1>3, <1>4, <2>2 DEF LseekTarget
  <2> QED BY <1>3, <2>1, <2>2
<1>6. target \in Int
  BY <1>3, <1>4
<1> HIDE DEF target
<1>7. LseekAccepts(p, end) <=> target \in 0 .. end
  BY <1>3, <1>5 DEF LseekAccepts
<1>8. \/ /\ LseekAccepts(p, end) /\ fpos' = [fpos EXCEPT ![p] = target]
         /\ UnlockAndReturn(p, Ok(target))
      \/ ~LseekAccepts(p, end) /\ UnlockAndReturn(p, Fail("EINVAL"))
  BY <1>2, <1>4, <1>5 DEF aesd_llseek
<1>9. CASE LseekAccepts(p, end) /\ fpos' = [fpos EXCEPT ![p] = target]
           /\ UnlockAndReturn(p, Ok(target))
  <2>1. fpos'[p] = target /\ res'[p].err = "none"
    BY <1>1, <1>9 DEF UnlockAndReturn, Return, Ok, FileTypeOK
  <2>2. target \in 0 .. end /\ target \in Nat
    BY <1>4, <1>7, <1>9
  <2>3. aesd_circular_buffer_find_entry_offset_for_fpos(target) = NoEntry <=> target >= end
    BY <1>1, <2>2, FindStored DEF end
  <2>4. target >= end <=> target = end
    BY <1>4, <2>2
  <2> QED BY <2>1, <2>2, <2>3, <2>4
<1>10. CASE ~LseekAccepts(p, end) /\ UnlockAndReturn(p, Fail("EINVAL"))
  <2>1. res'[p].err = "EINVAL"
    BY <1>1, <1>10 DEF UnlockAndReturn, Return, Fail, FileTypeOK
  <2> QED BY <1>7, <1>10, <2>1
<1> QED BY <1>8, <1>9, <1>10

(* LseekInside for every instance: what aesd_llseek adds up over the raw   *)
(* array, wrapped around or not, is the number of bytes readers see, and a *)
(* position it accepts holds a byte unless it is the end.                  *)
THEOREM DriverLseekInside == CharSpec => LseekInside
<1>1. OpsInv /\ [CharNext]_charVars => \A p \in Proc : LseekStaysInside(p)
  BY LseekReturnsInside
<1>2. CharSpec => [][\A p \in Proc : LseekStaysInside(p)]_charVars
  BY <1>1, DriverOps, PTL DEF CharSpec
<1> QED BY <1>2 DEF LseekInside

(* Before the buffer has wrapped, slot numbers count from the oldest. *)
LEMMA UnwrappedRing ==
    ASSUME DriverInv, loaded, out_offs = 0
    PROVE  /\ \A i \in Slots : SlotAt(i) = i
           /\ \A n \in 0 .. MaxOps : CharOffs[n] = ForeachSize[n]
           /\ \A i \in Slots : i >= Count => entry[i].size = 0
<1>1. CBTypeOK /\ RingShape /\ MaxOps \in Nat \ {0} /\ Slots = 0 .. MaxOps - 1 /\ Count \in 0 .. MaxOps
  BY CountType, MaxOpsAssumption DEF DriverInv, DevTypeOK, Slots
<1>2. ASSUME NEW i \in Slots PROVE SlotAt(i) = i
  <2>1. out_offs \in Slots /\ i \in 0 .. MaxOps /\ out_offs + i < MaxOps /\ out_offs + i = i
    BY <1>1 DEF CBTypeOK
  <2>2. (out_offs + i) % MaxOps = IF out_offs + i < MaxOps THEN out_offs + i
                                                           ELSE out_offs + i - MaxOps
    BY <2>1, ModPlus
  <2> QED BY <2>1, <2>2 DEF SlotAt
<1>3. ASSUME NEW n \in 0 .. MaxOps PROVE CharOffs[n] = ForeachSize[n]
  <2>1. n \in 0 .. MaxOps - out_offs /\ 0 + n = n /\ n \in Nat
    BY <1>1
  <2>2. CharOffs[n] + ForeachSize[out_offs] = ForeachSize[out_offs + n]
    BY <1>1, <2>1, RingSumToEnd
  <2>3. ForeachSize[0] = 0 /\ CharOffs[n] \in Nat
    BY <1>1, <2>1, ForeachSizeValues, CharOffsAt
  <2> QED BY <2>1, <2>2, <2>3
<1>4. ASSUME NEW i \in Slots, i >= Count PROVE entry[i].size = 0
  <2>1. i \in Count .. MaxOps - 1
    BY <1>1, <1>4
  <2>2. entry[SlotAt(i)] = EmptyEntry
    BY <1>1, <2>1, BehindIsEmpty
  <2> QED BY <1>2, <2>2 DEF EmptyEntry
<1> QED BY <1>2, <1>3, <1>4

LEMMA SeekReturnsCommand ==
    ASSUME OpsInv, [CharNext]_charVars, NEW p \in Proc
    PROVE  SeekHitsCommand(p)
<1> DEFINE cmd == req[p].arg.write_cmd
           off == req[p].arg.write_cmd_offset
<1> SUFFICES ASSUME Returns(p, "seekto"), res'[p].err # "ERESTARTSYS",
                    fpos[p] = 0, out_offs = 0
             PROVE  /\ cmd < MaxOps => (res'[p].err = "none"
                                          <=> cmd < Count /\ off < Len(Commands[cmd + 1]))
                    /\ res'[p].err = "none" =>
                         aesd_circular_buffer_find_entry_offset_for_fpos(fpos'[p])
                           = IF cmd < MaxOps THEN [slot |-> cmd, offset |-> off] ELSE NoEntry
  BY Zenon DEF SeekHitsCommand
<1>1. DriverInv /\ FileTypeOK /\ Body(p) /\ loaded /\ CBTypeOK /\ RingShape
  BY ReturnIsBody DEF OpsInv, FileInv, DriverInv, DevTypeOK
<1>2. aesd_adjust_file_offset(p)
  BY <1>1 DEF Returns, Body, WriteKmalloc, WriteKmallocFails, WriteKrealloc, WriteKreallocFails,
              WriteCopy, ReadPastEnd, ReadFind, ReadCopy, aesd_llseek, Locked,
              DriverInv, DevTypeOK
<1>3. cmd \in Nat /\ off \in Nat
  <2>1. req[p] \in Request \cup {NoReq} /\ req[p].op = "seekto"
    BY <1>1, <1>2 DEF DriverInv, DevTypeOK, aesd_adjust_file_offset, Locked
  <2>2. req[p].arg \in [write_cmd : SeekCmd, write_cmd_offset : SeekOffset]
    BY <2>1 DEF Request, WriteReq, ReadReq, SeekReq, LseekReq, NoReq
  <2> QED BY <2>2, CallAssumption
<1>4. \/ /\ SeekAccepts(cmd, off) /\ fpos' = [fpos EXCEPT ![p] = SeekPos(p, cmd, off)]
         /\ UnlockAndReturn(p, Ok(0))
      \/ ~SeekAccepts(cmd, off) /\ UnlockAndReturn(p, Fail("EINVAL"))
  BY <1>2 DEF aesd_adjust_file_offset
<1> HIDE DEF cmd, off
<1>5. res'[p].err = "none" <=> SeekAccepts(cmd, off)
  <2>1. CASE SeekAccepts(cmd, off) /\ UnlockAndReturn(p, Ok(0))
    BY <1>1, <2>1 DEF UnlockAndReturn, Return, Ok, FileTypeOK
  <2>2. CASE ~SeekAccepts(cmd, off) /\ UnlockAndReturn(p, Fail("EINVAL"))
    BY <1>1, <2>2 DEF UnlockAndReturn, Return, Fail, FileTypeOK
  <2> QED BY <1>4, <2>1, <2>2
<1>6. SeekAccepts(cmd, off) => fpos'[p] = ForeachSize[cmd] + off
  <2> SUFFICES ASSUME SeekAccepts(cmd, off) PROVE fpos'[p] = ForeachSize[cmd] + off
    OBVIOUS
  <2>1. cmd \in 0 .. MaxOps
    BY <1>3, MaxOpsAssumption DEF SeekAccepts, ForeachEnd
  <2>2. ForeachSize[cmd] \in Nat
    BY <1>1, <2>1, ForeachSizeValues
  <2>3. fpos'[p] = SeekPos(p, cmd, off)
    BY <1>1, <1>4 DEF FileTypeOK
  <2> QED BY <1>3, <2>2, <2>3 DEF SeekPos
<1>7. MaxOps \in Nat \ {0} /\ Slots = 0 .. MaxOps - 1 /\ Count \in 0 .. MaxOps
  BY <1>1, CountType, MaxOpsAssumption DEF Slots
<1>8. /\ \A i \in Slots : SlotAt(i) = i
      /\ \A n \in 0 .. MaxOps : CharOffs[n] = ForeachSize[n]
      /\ \A i \in Slots : i >= Count => entry[i].size = 0
  BY <1>1, UnwrappedRing
<1>9. CASE cmd < MaxOps
  <2>1. CASE cmd < Count
    <3>1. cmd \in 0 .. Count - 1 /\ cmd \in Slots /\ SlotAt(cmd) = cmd /\ cmd \in 0 .. MaxOps
      BY <1>3, <1>7, <1>8, <1>9, <2>1
    <3>2. Len(Commands[cmd + 1]) = entry[SlotAt(cmd)].size /\ entry[SlotAt(cmd)].size \in Nat
      BY <1>1, <3>1, StoredBytes
    <3>3. SeekAccepts(cmd, off) <=> off < Len(Commands[cmd + 1])
      BY <1>3, <1>7, <1>9, <3>1, <3>2 DEF SeekAccepts, ForeachEnd
    <3>4. ASSUME SeekAccepts(cmd, off)
          PROVE  aesd_circular_buffer_find_entry_offset_for_fpos(fpos'[p])
                   = [slot |-> cmd, offset |-> off]
      <4>1. off \in 0 .. entry[SlotAt(cmd)].size - 1
        BY <1>3, <3>2, <3>3, <3>4
      <4>2. aesd_circular_buffer_find_entry_offset_for_fpos(CharOffs[cmd] + off)
              = [slot |-> SlotAt(cmd), offset |-> off]
        BY <1>1, <3>1, <4>1, FindExact
      <4>3. fpos'[p] = CharOffs[cmd] + off
        BY <1>6, <1>8, <3>1, <3>4
      <4> QED BY <3>1, <4>2, <4>3
    <3> QED BY <1>5, <1>9, <2>1, <3>3, <3>4
  <2>2. CASE ~(cmd < Count)
    <3>1. cmd \in Slots /\ cmd >= Count
      BY <1>3, <1>7, <1>9, <2>2
    <3>2. entry[cmd].size = 0
      BY <1>8, <3>1
    <3>3. ~SeekAccepts(cmd, off)
      BY <1>3, <1>9, <3>2 DEF SeekAccepts
    <3> QED BY <1>5, <2>2, <3>3
  <2> QED BY <2>1, <2>2
<1>10. CASE ~(cmd < MaxOps)
  <2> SUFFICES ASSUME SeekAccepts(cmd, off)
               PROVE  aesd_circular_buffer_find_entry_offset_for_fpos(fpos'[p]) = NoEntry
    BY <1>5, <1>10
  <2>1. cmd = MaxOps
    BY <1>3, <1>7, <1>10 DEF SeekAccepts, ForeachEnd
  <2>2. ForeachSize[MaxOps] = CharOffs[Count] /\ CharOffs[Count] \in Nat
    BY <1>1, <1>7, ForeachIsRing, CharOffsValues
  <2>3. fpos'[p] = CharOffs[Count] + off
    BY <1>6, <2>1, <2>2
  <2>4. fpos'[p] \in Nat /\ fpos'[p] >= CharOffs[Count]
    BY <1>3, <2>2, <2>3
  <2> QED BY <1>1, <2>4, FindExact
<1> QED BY <1>9, <1>10

(* SeekFromStart for every instance: before the buffer has wrapped,        *)
(* AESDCHAR_IOCSEEKTO from position 0 succeeds exactly for the bytes of    *)
(* stored commands and finds the byte it names; with the number behind the *)
(* last slot it never finds a byte.                                        *)
THEOREM DriverSeekFromStart == CharSpec => SeekFromStart
<1>1. OpsInv /\ [CharNext]_charVars => \A p \in Proc : SeekHitsCommand(p)
  BY SeekReturnsCommand
<1>2. CharSpec => [][\A p \in Proc : SeekHitsCommand(p)]_charVars
  BY <1>1, DriverOps, PTL DEF CharSpec
<1> QED BY <1>2 DEF SeekFromStart

=============================================================================
