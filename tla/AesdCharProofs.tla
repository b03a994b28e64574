--------------------------- MODULE AesdCharProofs ---------------------------
(***************************************************************************)
(* The driver is safe for every number of processes, every capacity and    *)
(* every set of write buffers, with allocations and copies that may fail.  *)
(***************************************************************************)
EXTENDS AesdChar, AesdCircularBufferProofs

(* How far a process is in its file operation, and what it holds then. *)
CallInv ==
    \A p \in Proc :
        /\ lock = p <=> pc[p] \in {"locked", "copying"}
        /\ pc[p] # "closed" => loaded
        /\ pc[p] = "copying" /\ req[p].op = "write" => pending.buffptr \in Buffptr

(* The inductive invariant.  The commit of a command needs all of it: the  *)
(* newline memchr found makes the command non-empty only because its size  *)
(* is the length of its block, and the slot it overwrites is free to reuse *)
(* only because each block has one owner.                                  *)
DriverInv == DevTypeOK /\ RingShape /\ CallInv /\ Ownership /\ SizesAgree

LEMMA RingUnchanged == UNCHANGED cbVars /\ RingShape => RingShape'
BY DEF cbVars, RingShape, Occupied, Count, SlotAt

LEMMA OwnershipUnchanged ==
    UNCHANGED devVars /\ UNCHANGED live /\ UNCHANGED loaded /\ Ownership => Ownership'
BY DEF devVars, Ownership, OwnedBlocks

LEMMA SizesUnchanged ==
    UNCHANGED devVars /\ UNCHANGED mem /\ UNCHANGED loaded /\ SizesAgree => SizesAgree'
BY DEF devVars, SizesAgree

LEMMA EntryIsOwned ==
    ASSUME NEW s \in Slots, entry[s].buffptr # NULL
    PROVE  entry[s].buffptr \in OwnedBlocks
BY DEF OwnedBlocks

LEMMA DriverInvInit == CharInit => DriverInv
<1> SUFFICES ASSUME CharInit PROVE DriverInv
  OBVIOUS
<1>1. CBTypeOK /\ RingShape
  BY CBInitInv DEF CharInit
<1>2. DevTypeOK
  <2>1. loaded \in BOOLEAN
    BY Zenon DEF CharInit
  <2>2. mem \in [Buffptr -> Seq(Byte)]
    BY DEF CharInit
  <2>3. pending \in EntryType
    BY DEF CharInit, EmptyEntry, EntryType
  <2>4. QED
    BY <1>1, <2>1, <2>2, <2>3 DEF CharInit, DevTypeOK
<1>3. CallInv
  BY ProcAssumption DEF CharInit, CallInv
<1>4. Ownership /\ SizesAgree
  BY DEF CharInit, Ownership, SizesAgree
<1>5. QED
  BY <1>1, <1>2, <1>3, <1>4 DEF DriverInv

(* The steps that leave the device and the memory alone. *)
LEMMA CallKeepsDriverInv ==
    ASSUME DriverInv, NEW p \in Proc,
           UNCHANGED <<devVars, heapVars, loaded>>,
           \/ aesd_open(p) \/ aesd_release(p)
           \/ \E r \in Request : Call(p, r)
           \/ mutex_lock_interruptible(p)
           \/ \E r : /\ pc[p] \in {"idle", "waiting"} /\ Return(p, r) /\ UNCHANGED lock
           \/ \E r : /\ lock = p /\ UnlockAndReturn(p, r)
           \/ ReadFind(p)
    PROVE  DriverInv'
<1>1. RingShape' /\ Ownership' /\ SizesAgree'
  BY RingUnchanged, OwnershipUnchanged, SizesUnchanged DEF devVars, cbVars, heapVars, DriverInv
<1>2. DevTypeOK'
  BY DEF DriverInv, DevTypeOK, CBTypeOK, devVars, heapVars, aesd_open, aesd_release, Call,
         mutex_lock_interruptible, Return, UnlockAndReturn, ReadFind
<1>3. CallInv'
  BY ProcAssumption
     DEF DriverInv, DevTypeOK, CallInv, devVars, heapVars, aesd_open, aesd_release, Call,
         mutex_lock_interruptible, Return, UnlockAndReturn, ReadFind, Locked,
         Request, WriteReq, ReadReq, SeekReq, LseekReq, NoReq
<1>4. QED
  BY <1>1, <1>2, <1>3 DEF DriverInv

(* What is passed to aesd_write. *)
LEMMA WriteArg ==
    ASSUME DriverInv, NEW p \in Proc, req[p].op = "write"
    PROVE  /\ req[p].arg \in Chunk
           /\ req[p].arg \in Seq(Byte) /\ Len(req[p].arg) \in Nat
<1>1. req[p] \in Request \cup {NoReq}
  BY DEF DriverInv, DevTypeOK
<1>2. req[p].arg \in Chunk
  BY <1>1 DEF Request, WriteReq, ReadReq, SeekReq, LseekReq, NoReq
<1> QED BY <1>2, ChunkAssumption

(* The steps of aesd_write before the copy. *)
LEMMA AllocKeepsDriverInv ==
    ASSUME DriverInv, NEW p \in Proc,
           \/ WriteKmalloc(p) \/ WriteKmallocFails(p)
           \/ WriteKrealloc(p) \/ WriteKreallocFails(p)
    PROVE  DriverInv'
<1>1. UNCHANGED cbVars /\ UNCHANGED loaded /\ lock = p /\ loaded /\ pc[p] = "locked"
  BY DEF DriverInv, CallInv, Locked, WriteKmalloc, WriteKmallocFails, WriteKrealloc,
         WriteKreallocFails
<1>2. RingShape'
  BY <1>1, RingUnchanged DEF DriverInv
<1>3. CBTypeOK'
  BY <1>1 DEF DriverInv, DevTypeOK, CBTypeOK, cbVars
<1>4. ASSUME NEW s \in Slots, entry[s].buffptr # NULL
      PROVE  entry[s].buffptr \in live /\ entry[s].buffptr # pending.buffptr
  BY <1>1, <1>4, EntryIsOwned DEF DriverInv, Ownership
<1>5. ASSUME NEW s \in Slots, entry[s].buffptr # NULL
      PROVE  entry[s].buffptr \in Buffptr /\ Len(mem[entry[s].buffptr]) = entry[s].size
  BY <1>1, <1>5 DEF DriverInv, DevTypeOK, CBTypeOK, EntryType, SizesAgree
<1>6. CASE WriteKmalloc(p)
  <2>1. PICK b \in Buffptr \ live :
           /\ pending' = [pending EXCEPT !.buffptr = b]
           /\ live' = live \cup {b}
           /\ mem' = [mem EXCEPT ![b] = <<>>]
           /\ room' = [room EXCEPT ![b] = Len(req[p].arg)]
    BY <1>6 DEF WriteKmalloc
  <2>2. DevTypeOK'
    <3>1. Len(req[p].arg) \in Nat
      BY <1>6, WriteArg DEF WriteKmalloc, Locked
    <3>2. room' \in [Buffptr -> Nat] /\ mem' \in [Buffptr -> Seq(Byte)]
      BY <2>1, <3>1 DEF DriverInv, DevTypeOK
    <3>3. QED
      BY <1>1, <1>3, <1>6, <2>1, <3>2 DEF DriverInv, DevTypeOK, WriteKmalloc, EntryType
  <2>3. CallInv'
    BY <1>1, <1>6, <2>1 DEF DriverInv, DevTypeOK, EntryType, CallInv, WriteKmalloc
  <2>4. Ownership'
    BY <1>1, <1>4, <2>1
       DEF DriverInv, DevTypeOK, EntryType, Ownership, OwnedBlocks, cbVars
  <2>5. SizesAgree'
    <3>1. Len(mem'[b]) = 0 /\ pending'.buffptr = b /\ pending'.size = 0
      BY <1>6, <2>1 DEF DriverInv, DevTypeOK, EntryType, WriteKmalloc
    <3>2. ASSUME NEW s \in Slots, entry[s].buffptr # NULL
          PROVE  mem'[entry[s].buffptr] = mem[entry[s].buffptr]
      BY <1>4, <1>5, <2>1, <3>2 DEF DriverInv, DevTypeOK
    <3>3. QED
      BY <1>1, <1>5, <3>1, <3>2 DEF SizesAgree, cbVars
  <2>6. QED
    BY <1>2, <2>2, <2>3, <2>4, <2>5 DEF DriverInv
<1>7. CASE WriteKmallocFails(p) \/ WriteKreallocFails(p)
  <2>1. /\ pending' = [pending EXCEPT !.buffptr = NULL]
        /\ UnlockAndReturn(p, Fail("ENOMEM"))
        /\ UNCHANGED heapVars
    BY <1>7 DEF WriteKmallocFails, WriteKreallocFails
  <2>2. DevTypeOK'
    BY <1>1, <1>3, <2>1
       DEF DriverInv, DevTypeOK, EntryType, heapVars, UnlockAndReturn, Return
  <2>3. CallInv'
    BY <1>1, <2>1, ProcAssumption
       DEF DriverInv, DevTypeOK, CallInv, UnlockAndReturn, Return
  <2>4. Ownership'
    BY <1>1, <1>4, <2>1
       DEF DriverInv, DevTypeOK, EntryType, Ownership, OwnedBlocks, cbVars, heapVars
  <2>5. SizesAgree'
    BY <1>1, <1>5, <2>1 DEF DriverInv, DevTypeOK, EntryType, SizesAgree, cbVars, heapVars
  <2>6. QED
    BY <1>2, <2>2, <2>3, <2>4, <2>5 DEF DriverInv
<1>8. CASE WriteKrealloc(p)
  <2>1. PICK b \in (Buffptr \ live) \cup ({pending.buffptr} \ {NULL}),
             old \in IF pending.buffptr = NULL THEN [1 .. pending.size -> Byte]
                                               ELSE {mem[pending.buffptr]} :
           /\ pending' = [pending EXCEPT !.buffptr = b]
           /\ live' = (live \ {pending.buffptr}) \cup {b}
           /\ mem' = [q \in Buffptr |-> IF q = b THEN old
                                        ELSE IF q = pending.buffptr THEN <<>>
                                        ELSE mem[q]]
           /\ room' = [q \in Buffptr |-> IF q = b THEN pending.size + Len(req[p].arg)
                                         ELSE IF q = pending.buffptr THEN 0
                                         ELSE room[q]]
    BY <1>8 DEF WriteKrealloc
  <2>2. b \in Buffptr /\ old \in Seq(Byte)
    <3>1. pending.size \in Nat /\ pending.buffptr \in Buffptr \cup {NULL}
      BY DEF DriverInv, DevTypeOK, EntryType
    <3>2. CASE pending.buffptr = NULL
      <4>1. old \in [1 .. pending.size -> Byte]
        BY <3>2
      <4>2. QED
        BY <3>1, <3>2, <4>1
    <3>3. CASE pending.buffptr # NULL
      BY <3>1, <3>3 DEF DriverInv, DevTypeOK
    <3>4. QED
      BY <3>2, <3>3
  <2>3. DevTypeOK'
    <3>1. mem' \in [Buffptr -> Seq(Byte)]
      BY <2>1, <2>2 DEF DriverInv, DevTypeOK
    <3>2. pending' \in EntryType /\ live' \subseteq Buffptr
      BY <2>1, <2>2 DEF DriverInv, DevTypeOK, EntryType
    <3>3. room' \in [Buffptr -> Nat]
      <4>1. pending.size \in Nat /\ Len(req[p].arg) \in Nat
        BY <1>8, WriteArg DEF WriteKrealloc, Locked, DriverInv, DevTypeOK, EntryType
      <4>2. QED
        BY <2>1, <4>1 DEF DriverInv, DevTypeOK
    <3>4. QED
      BY <1>1, <1>3, <1>8, <3>1, <3>2, <3>3 DEF DriverInv, DevTypeOK, WriteKrealloc
  <2>4. CallInv'
    BY <1>1, <1>8, <2>1, <2>2 DEF DriverInv, DevTypeOK, EntryType, CallInv, WriteKrealloc
  <2>5. Ownership'
    BY <1>1, <1>4, <2>1, <2>2
       DEF DriverInv, DevTypeOK, EntryType, Ownership, OwnedBlocks, cbVars
  <2>6. SizesAgree'
    <3>1. Len(old) = pending.size
      <4>1. pending.size \in Nat
        BY DEF DriverInv, DevTypeOK, EntryType
      <4>2. CASE pending.buffptr = NULL
        <5>1. old \in [1 .. pending.size -> Byte]
          BY <4>2
        <5>2. QED
          BY <4>1, <5>1
      <4>3. CASE pending.buffptr # NULL
        BY <1>1, <4>3 DEF DriverInv, SizesAgree
      <4>4. QED
        BY <4>2, <4>3
    <3>2. mem'[b] = old /\ pending'.buffptr = b /\ pending'.size = pending.size
      BY <2>1, <2>2 DEF DriverInv, DevTypeOK, EntryType
    <3>3. ASSUME NEW s \in Slots, entry[s].buffptr # NULL
          PROVE  mem'[entry[s].buffptr] = mem[entry[s].buffptr]
      BY <1>4, <1>5, <2>1, <3>3
    <3>4. QED
      BY <1>1, <1>5, <3>1, <3>2, <3>3 DEF SizesAgree, cbVars
  <2>7. QED
    BY <1>2, <2>3, <2>4, <2>5, <2>6 DEF DriverInv
<1>9. QED
  BY <1>6, <1>7, <1>8

(* The copy from user space, with and without a newline. *)
LEMMA CopyKeepsDriverInv ==
    ASSUME DriverInv, NEW p \in Proc, WriteCopy(p)
    PROVE  DriverInv'
<1>1. /\ pc[p] = "copying" /\ lock = p /\ loaded /\ UNCHANGED loaded
      /\ req[p].op = "write"
      /\ pending.buffptr \in Buffptr
  BY DEF DriverInv, CallInv, WriteCopy
<1>2. PICK n \in CopiedOf(Len(req[p].arg)) :
        LET bytes == mem[pending.buffptr] \o SubSeq(req[p].arg, 1, n)
            cmd   == [pending EXCEPT !.size = @ + n]
        IN  /\ IF HasNewline(bytes) THEN CommitCommand(cmd, bytes)
                                    ELSE KeepPartial(cmd, bytes)
            /\ UnlockAndReturn(p, Ok(n))
  BY DEF WriteCopy
<1> DEFINE bytes == mem[pending.buffptr] \o SubSeq(req[p].arg, 1, n)
           cmd   == [pending EXCEPT !.size = @ + n]
<1>3. /\ req[p].arg \in Seq(Byte)
      /\ n \in 0 .. Len(req[p].arg)
  <2>1. req[p].arg \in Seq(Byte) /\ Len(req[p].arg) \in Nat
    BY <1>1, WriteArg
  <2>2. QED
    BY <2>1 DEF CopiedOf
<1>4. SubSeq(req[p].arg, 1, n) \in Seq(Byte) /\ Len(SubSeq(req[p].arg, 1, n)) = n
  BY <1>3
<1>5. /\ mem[pending.buffptr] \in Seq(Byte)
      /\ bytes \in Seq(Byte)
      /\ Len(bytes) = Len(mem[pending.buffptr]) + n
  <2>1. mem[pending.buffptr] \in Seq(Byte)
    BY <1>1 DEF DriverInv, DevTypeOK
  <2>2. QED
    BY <1>4, <2>1
<1>6. /\ cmd \in EntryType
      /\ cmd.buffptr = pending.buffptr
      /\ cmd.size = pending.size + n
      /\ pending.size \in Nat
  <2>1. pending \in EntryType
    BY DEF DriverInv, DevTypeOK
  <2>2. QED
    BY <1>3, <2>1 DEF EntryType
<1>7. ASSUME NEW s \in Slots, entry[s].buffptr # NULL
      PROVE  entry[s].buffptr \in live /\ entry[s].buffptr # pending.buffptr
  BY <1>1, <1>7, EntryIsOwned DEF DriverInv, Ownership
<1>8. pending.buffptr \in live
  BY <1>1, NullAssumption DEF DriverInv, Ownership, OwnedBlocks
<1>9. pc' = [pc EXCEPT ![p] = "idle"] /\ req' = [req EXCEPT ![p] = NoReq] /\ lock' = NoOwner
  BY <1>2 DEF UnlockAndReturn, Return
<1>10. ASSUME NEW q \in Proc PROVE ~(pc'[q] \in {"locked", "copying"})
  BY <1>1, <1>9, ProcAssumption DEF DriverInv, DevTypeOK, CallInv
<1>11. CallInv'
  BY <1>1, <1>9, <1>10, ProcAssumption DEF CallInv
<1>12. Len(bytes) = cmd.size
  BY <1>1, <1>5, <1>6, NullAssumption DEF DriverInv, SizesAgree
<1>13. ASSUME NEW s \in Slots, entry[s].buffptr # NULL
       PROVE  entry[s].buffptr \in Buffptr /\ Len(mem[entry[s].buffptr]) = entry[s].size
  BY <1>1, <1>13 DEF DriverInv, DevTypeOK, CBTypeOK, EntryType, SizesAgree
<1> HIDE DEF bytes, cmd
<1>14. CASE HasNewline(bytes)
  <2>1. CommitCommand(cmd, bytes)
    BY <1>2, <1>14 DEF bytes, cmd
  <2>2. cmd \in [buffptr : Buffptr, size : Nat \ {0}]
    <3>1. DOMAIN bytes # {}
      BY <1>14 DEF HasNewline
    <3>2. Len(bytes) # 0
      BY <1>5, <3>1
    <3>3. QED
      BY <1>1, <1>6, <1>12, <3>2 DEF EntryType
  <2>3. CBTypeOK' /\ RingShape'
    BY <2>1, <2>2, AddEntryInv DEF CommitCommand, DriverInv, DevTypeOK
  <2>4. /\ entry' = [entry EXCEPT ![in_offs] = cmd]
        /\ live' = live \ {OverwrittenPtr}
        /\ mem' = [q \in Buffptr |-> IF q = cmd.buffptr THEN bytes
                                     ELSE IF q = OverwrittenPtr THEN <<>>
                                     ELSE mem[q]]
        /\ pending' = EmptyEntry
    BY <2>1 DEF CommitCommand, aesd_circular_buffer_add_entry
  <2>5. DevTypeOK'
    <3>1. mem' \in [Buffptr -> Seq(Byte)]
      BY <1>5, <2>4 DEF DriverInv, DevTypeOK
    <3>2. pending' \in EntryType /\ live' \subseteq Buffptr /\ room' \in [Buffptr -> Nat]
      BY <2>1, <2>4 DEF CommitCommand, DriverInv, DevTypeOK, EmptyEntry, EntryType
    <3>3. QED
      BY <1>1, <1>9, <2>3, <3>1, <3>2 DEF DriverInv, DevTypeOK
  <2>6. in_offs \in Slots /\ entry \in [Slots -> EntryType]
    BY DEF DriverInv, DevTypeOK, CBTypeOK
  <2>7. ASSUME NEW s \in Slots, entry'[s].buffptr # NULL
        PROVE  /\ entry'[s].buffptr \in live'
               /\ Len(mem'[entry'[s].buffptr]) = entry'[s].size
               /\ \A t \in Slots : s # t => entry'[s].buffptr # entry'[t].buffptr
    <3>1. CASE s = in_offs
      <4>1. entry'[s] = cmd
        BY <2>4, <2>6, <3>1
      <4>2. cmd.buffptr # OverwrittenPtr
        BY <1>6, <1>7, <2>2, <2>6, NullAssumption DEF OverwrittenPtr
      <4>3. ASSUME NEW t \in Slots, s # t PROVE cmd.buffptr # entry'[t].buffptr
        BY <1>6, <1>7, <2>2, <2>4, <2>6, <3>1, <4>3, NullAssumption
      <4>4. QED
        BY <1>6, <1>8, <1>12, <2>2, <2>4, <4>1, <4>2, <4>3
    <3>2. CASE s # in_offs
      <4>1. entry'[s] = entry[s] /\ entry[s].buffptr # NULL
        BY <2>4, <2>6, <2>7, <3>2
      <4>2. /\ entry[s].buffptr # cmd.buffptr
            /\ entry[s].buffptr # OverwrittenPtr
            /\ entry[s].buffptr \in live
        BY <1>1, <1>6, <1>7, <2>6, <3>2, <4>1 DEF OverwrittenPtr, DriverInv, Ownership
      <4>3. ASSUME NEW t \in Slots, s # t PROVE entry[s].buffptr # entry'[t].buffptr
        <5>1. CASE t = in_offs
          BY <2>4, <2>6, <4>2, <5>1
        <5>2. CASE t # in_offs
          BY <1>1, <2>4, <2>6, <4>1, <4>3, <5>2 DEF DriverInv, Ownership
        <5>3. QED
          BY <5>1, <5>2
      <4>4. QED
        BY <1>13, <2>4, <4>1, <4>2, <4>3
    <3>3. QED
      BY <3>1, <3>2
  <2>8. Ownership'
    <3>1. pending'.buffptr = NULL
      BY <2>4 DEF EmptyEntry
    <3>2. QED
      BY <2>7, <3>1 DEF Ownership, OwnedBlocks
  <2>9. SizesAgree'
    <3>1. pending'.buffptr = NULL
      BY <2>4 DEF EmptyEntry
    <3>2. QED
      BY <2>7, <3>1 DEF SizesAgree
  <2>10. QED
    BY <1>11, <2>3, <2>5, <2>8, <2>9 DEF DriverInv
<1>15. CASE ~HasNewline(bytes)
  <2>1. KeepPartial(cmd, bytes)
    BY <1>2, <1>15 DEF bytes, cmd
  <2>2. RingShape'
    BY <2>1, RingUnchanged DEF KeepPartial, DriverInv
  <2>3. DevTypeOK'
    BY <1>1, <1>5, <1>6, <1>9, <2>1
       DEF DriverInv, DevTypeOK, CBTypeOK, KeepPartial, cbVars
  <2>4. Ownership'
    BY <1>1, <1>6, <1>7, <1>8, <2>1
       DEF DriverInv, DevTypeOK, Ownership, OwnedBlocks, KeepPartial, cbVars
  <2>5. SizesAgree'
    <3>1. mem'[pending.buffptr] = bytes /\ pending' = cmd
      BY <1>1, <1>6, <2>1 DEF KeepPartial, DriverInv, DevTypeOK
    <3>2. ASSUME NEW s \in Slots, entry[s].buffptr # NULL
          PROVE  mem'[entry[s].buffptr] = mem[entry[s].buffptr]
      BY <1>6, <1>7, <1>13, <2>1, <3>2 DEF KeepPartial, DriverInv, DevTypeOK
    <3>3. QED
      BY <1>6, <1>12, <1>13, <2>1, <3>1, <3>2 DEF SizesAgree, KeepPartial, cbVars
  <2>6. QED
    BY <1>11, <2>2, <2>3, <2>4, <2>5 DEF DriverInv
<1>16. QED
  BY <1>14, <1>15

LEMMA CBInitInvPrime == aesd_circular_buffer_init' => CBTypeOK' /\ RingShape'
BY CBInitInv, PTL

(* Loading and unloading the module. *)
LEMMA ModuleKeepsDriverInv ==
    ASSUME DriverInv, aesd_init_module \/ aesd_cleanup_module
    PROVE  DriverInv'
<1>1. CASE aesd_init_module
  <2>1. \A p \in Proc : pc[p] = "closed"
    BY <1>1 DEF DriverInv, CallInv, aesd_init_module
  <2>2. aesd_circular_buffer_init'
    BY <1>1 DEF aesd_init_module, aesd_circular_buffer_init
  <2>3. CBTypeOK' /\ RingShape'
    BY <2>2, CBInitInvPrime
  <2>4. DevTypeOK'
    BY <1>1, <2>3
       DEF DriverInv, DevTypeOK, aesd_init_module, EmptyEntry, EntryType, heapVars, callVars
  <2>5. CallInv'
    BY <1>1, <2>1, ProcAssumption DEF CallInv, aesd_init_module, callVars
  <2>6. Ownership' /\ SizesAgree'
    BY <1>1 DEF Ownership, OwnedBlocks, SizesAgree, EmptyEntry, aesd_init_module
  <2>7. QED
    BY <2>3, <2>4, <2>5, <2>6 DEF DriverInv
<1>2. CASE aesd_cleanup_module
  <2>1. RingShape'
    BY <1>2, RingUnchanged DEF aesd_cleanup_module, devVars, cbVars, DriverInv
  <2>2. loaded' \in BOOLEAN /\ ~loaded'
    BY <1>2, Zenon DEF aesd_cleanup_module
  <2>3. DevTypeOK'
    BY <1>2, <2>2 DEF DriverInv, DevTypeOK, CBTypeOK, aesd_cleanup_module, devVars, callVars
  <2>4. CallInv'
    BY <1>2 DEF DriverInv, CallInv, aesd_cleanup_module, devVars, callVars
  <2>5. Ownership' /\ SizesAgree'
    BY <2>2 DEF Ownership, SizesAgree
  <2>6. QED
    BY <2>1, <2>3, <2>4, <2>5 DEF DriverInv
<1>3. QED
  BY <1>1, <1>2

LEMMA DriverInvStep == DriverInv /\ [CharNext]_charVars => DriverInv'
<1> SUFFICES ASSUME DriverInv, [CharNext]_charVars PROVE DriverInv'
  OBVIOUS
<1>1. ASSUME NEW p \in Proc, Begin(p) PROVE DriverInv'
  <2>1. UNCHANGED <<devVars, heapVars, loaded>>
    BY <1>1 DEF Begin, aesd_open, aesd_release, WriteBegin, WriteNothing, ReadBegin, SeekBegin,
                IoctlRejected, LseekBegin, Call
  <2>2. CASE aesd_open(p) \/ aesd_release(p)
    BY <2>1, <2>2, CallKeepsDriverInv
  <2>3. CASE WriteBegin(p) \/ ReadBegin(p) \/ SeekBegin(p) \/ LseekBegin(p)
    <3>1. \E r \in Request : Call(p, r)
      BY <2>3 DEF WriteBegin, ReadBegin, SeekBegin, LseekBegin, Request, WriteReq, ReadReq,
                  SeekReq, LseekReq
    <3>2. QED
      BY <2>1, <3>1, CallKeepsDriverInv
  <2>4. CASE WriteNothing(p) \/ IoctlRejected(p)
    <3>1. \E r : pc[p] \in {"idle", "waiting"} /\ Return(p, r) /\ UNCHANGED lock
      BY <2>4 DEF WriteNothing, IoctlRejected
    <3>2. QED
      BY <2>1, <3>1, CallKeepsDriverInv
  <2>5. QED
    BY <1>1, <2>2, <2>3, <2>4 DEF Begin
<1>2. ASSUME NEW p \in Proc, mutex_lock_interruptible(p) PROVE DriverInv'
  BY <1>2, CallKeepsDriverInv DEF mutex_lock_interruptible
<1>3. ASSUME NEW p \in Proc, LockInterrupted(p) PROVE DriverInv'
  BY <1>3, CallKeepsDriverInv DEF LockInterrupted
<1>4. ASSUME NEW p \in Proc, Body(p) PROVE DriverInv'
  <2>1. CASE ReadPastEnd(p) \/ ReadCopy(p) \/ aesd_adjust_file_offset(p) \/ aesd_llseek(p)
    <3>1. UNCHANGED <<devVars, heapVars, loaded>> /\ \E r : UnlockAndReturn(p, r)
      BY <2>1 DEF ReadPastEnd, ReadCopy, aesd_adjust_file_offset, aesd_llseek
    <3>2. lock = p
      BY <2>1 DEF ReadPastEnd, ReadCopy, aesd_adjust_file_offset, aesd_llseek, Locked,
                  DriverInv, CallInv
    <3>3. QED
      BY <3>1, <3>2, CallKeepsDriverInv
  <2>2. CASE ReadFind(p)
    BY <2>2, CallKeepsDriverInv DEF ReadFind
  <2>3. QED
    BY <1>4, <2>1, <2>2, AllocKeepsDriverInv, CopyKeepsDriverInv DEF Body
<1>5. CASE UNCHANGED charVars
  <2>1. UNCHANGED <<devVars, heapVars, lock, loaded, pc, req>>
    BY <1>5 DEF charVars, callVars
  <2>2. RingShape' /\ Ownership' /\ SizesAgree'
    BY <2>1, RingUnchanged, OwnershipUnchanged, SizesUnchanged
       DEF devVars, heapVars, cbVars, DriverInv
  <2>3. DevTypeOK' /\ CallInv'
    BY <2>1 DEF devVars, heapVars, DriverInv, DevTypeOK, CBTypeOK, CallInv
  <2>4. QED
    BY <2>2, <2>3 DEF DriverInv
<1>6. QED
  BY <1>1, <1>2, <1>3, <1>4, <1>5, ModuleKeepsDriverInv DEF CharNext

(* Ownership for every instance: through every interleaving of the file    *)
(* operations, and whichever allocations and copies fail, each block the   *)
(* driver refers to is allocated and has exactly one owner, so no kfree of *)
(* main.c is a double free and no copy of it touches freed memory.         *)
THEOREM DriverOwnership == CharSpec => []Ownership
<1>1. CharInit => DriverInv
  BY DriverInvInit
<1>2. DriverInv => Ownership
  BY DEF DriverInv
<1>3. QED
  BY <1>1, <1>2, DriverInvStep, PTL DEF CharSpec

(* The block of a copy from user space was allocated with room for all of  *)
(* it: what kmalloc and krealloc were asked for is what was held and what  *)
(* is about to be copied.                                                  *)
CopyFits ==
    \A p \in Proc :
        pc[p] = "copying" /\ req[p].op = "write" =>
            pending.size + Len(req[p].arg) <= room[pending.buffptr]

RoomInv == WithinBlocks /\ CopyFits

(* Only one process copies at a time: the one that holds the mutex.        *)
LEMMA OneCopies ==
    ASSUME DriverInv, NEW p \in Proc, pc[p] \in {"locked", "copying"},
           NEW q \in Proc, q # p
    PROVE  pc[q] \notin {"locked", "copying"}
BY ProcAssumption DEF DriverInv, CallInv

(* A step that leaves the memory and the command under construction alone  *)
(* and begins no copy from user space.                                     *)
LEMMA RoomKept ==
    ASSUME RoomInv, UNCHANGED <<pending, mem, room>>,
           \A q \in Proc : pc'[q] = "copying" /\ req'[q].op = "write" =>
                               /\ pc[q] = "copying" /\ req[q].op = "write"
                               /\ req'[q].arg = req[q].arg
    PROVE  RoomInv'
BY DEF RoomInv, WithinBlocks, CopyFits

(* What kmalloc and krealloc are asked for is enough.                      *)
LEMMA AllocKeepsRoom ==
    ASSUME DriverInv, RoomInv, NEW p \in Proc,
           WriteKmalloc(p) \/ WriteKrealloc(p)
    PROVE  RoomInv'
<1>1. /\ pc[p] = "locked" /\ req[p].op = "write" /\ loaded
      /\ pc' = [pc EXCEPT ![p] = "copying"] /\ UNCHANGED req
  BY DEF WriteKmalloc, WriteKrealloc, Locked, DriverInv, CallInv
<1>2. Len(req[p].arg) \in Nat /\ pending.size \in Nat
  BY <1>1, WriteArg DEF DriverInv, DevTypeOK, EntryType
<1>3. PICK b \in Buffptr :
        /\ pending'.buffptr = b /\ pending'.size = pending.size
        /\ room'[b] = pending.size + Len(req[p].arg)
        /\ Len(mem'[b]) <= room'[b]
        /\ \A q \in Buffptr : q # b => Len(mem'[q]) <= room'[q]
  <2>1. CASE WriteKmalloc(p)
    <3>1. PICK b \in Buffptr \ live :
             /\ pending' = [pending EXCEPT !.buffptr = b]
             /\ mem' = [mem EXCEPT ![b] = <<>>]
             /\ room' = [room EXCEPT ![b] = Len(req[p].arg)]
      BY <2>1 DEF WriteKmalloc
    <3>2. pending.size = 0
      BY <2>1 DEF WriteKmalloc
    <3>3. /\ mem'[b] = <<>> /\ room'[b] = Len(req[p].arg)
          /\ \A q \in Buffptr : q # b => mem'[q] = mem[q] /\ room'[q] = room[q]
          /\ pending'.buffptr = b /\ pending'.size = pending.size
      BY <3>1 DEF DriverInv, DevTypeOK, EntryType
    <3> QED BY <1>2, <3>2, <3>3 DEF RoomInv, WithinBlocks
  <2>2. CASE WriteKrealloc(p)
    <3>1. PICK b \in (Buffptr \ live) \cup ({pending.buffptr} \ {NULL}),
               old \in IF pending.buffptr = NULL THEN [1 .. pending.size -> Byte]
                                                 ELSE {mem[pending.buffptr]} :
             /\ pending' = [pending EXCEPT !.buffptr = b]
             /\ mem' = [q \in Buffptr |-> IF q = b THEN old
                                          ELSE IF q = pending.buffptr THEN <<>>
                                          ELSE mem[q]]
             /\ room' = [q \in Buffptr |-> IF q = b THEN pending.size + Len(req[p].arg)
                                           ELSE IF q = pending.buffptr THEN 0
                                           ELSE room[q]]
      BY <2>2 DEF WriteKrealloc
    <3>2. b \in Buffptr
      BY <3>1 DEF DriverInv, DevTypeOK, EntryType
    <3>3. Len(old) = pending.size
      <4>1. CASE pending.buffptr = NULL
        <5>1. old \in [1 .. pending.size -> Byte]
          BY <3>1, <4>1
        <5> QED BY <1>2, <5>1
      <4>2. CASE pending.buffptr # NULL
        BY <1>1, <3>1, <4>2 DEF DriverInv, SizesAgree
      <4> QED BY <4>1, <4>2
    <3>4. /\ mem'[b] = old /\ room'[b] = pending.size + Len(req[p].arg)
          /\ pending'.buffptr = b /\ pending'.size = pending.size
      BY <3>1, <3>2 DEF DriverInv, DevTypeOK, EntryType
    <3>5. ASSUME NEW q \in Buffptr, q # b PROVE Len(mem'[q]) <= room'[q]
      <4>1. CASE q = pending.buffptr
        <5>1. mem'[q] = <<>> /\ room'[q] = 0
          BY <3>1, <3>5, <4>1
        <5> QED BY <5>1
      <4>2. CASE q # pending.buffptr
        BY <3>1, <3>5, <4>2 DEF RoomInv, WithinBlocks
      <4> QED BY <4>1, <4>2
    <3> QED BY <1>2, <3>2, <3>3, <3>4, <3>5
  <2> QED BY <2>1, <2>2
<1>4. WithinBlocks'
  BY <1>3 DEF WithinBlocks
<1>5. CopyFits'
  <2> SUFFICES ASSUME NEW q \in Proc, pc'[q] = "copying", req'[q].op = "write"
               PROVE  pending'.size + Len(req'[q].arg) <= room'[pending'.buffptr]
    BY DEF CopyFits
  <2>1. q = p
    BY <1>1, OneCopies DEF DriverInv, DevTypeOK
  <2> QED BY <1>1, <1>2, <1>3, <2>1
<1> QED BY <1>4, <1>5 DEF RoomInv

(* The copy from user space stays inside its block.                        *)
LEMMA CopyKeepsRoom ==
    ASSUME DriverInv, RoomInv, NEW p \in Proc, WriteCopy(p)
    PROVE  RoomInv'
<1>1. /\ pc[p] = "copying" /\ req[p].op = "write" /\ loaded
      /\ pending.buffptr \in Buffptr
  BY DEF DriverInv, CallInv, WriteCopy
<1>2. PICK n \in CopiedOf(Len(req[p].arg)) :
        LET bytes == mem[pending.buffptr] \o SubSeq(req[p].arg, 1, n)
            cmd   == [pending EXCEPT !.size = @ + n]
        IN  /\ IF HasNewline(bytes) THEN CommitCommand(cmd, bytes)
                                    ELSE KeepPartial(cmd, bytes)
            /\ UnlockAndReturn(p, Ok(n))
  BY DEF WriteCopy
<1> DEFINE bytes == mem[pending.buffptr] \o SubSeq(req[p].arg, 1, n)
           cmd   == [pending EXCEPT !.size = @ + n]
<1>3. /\ req[p].arg \in Seq(Byte) /\ Len(req[p].arg) \in Nat
      /\ n \in 0 .. Len(req[p].arg)
  BY <1>1, WriteArg DEF CopiedOf
<1>4. SubSeq(req[p].arg, 1, n) \in Seq(Byte) /\ Len(SubSeq(req[p].arg, 1, n)) = n
  BY <1>3
<1>5. /\ mem[pending.buffptr] \in Seq(Byte)
      /\ Len(mem[pending.buffptr]) = pending.size
      /\ room[pending.buffptr] \in Nat
      /\ pending.size \in Nat
  BY <1>1, NullAssumption DEF DriverInv, DevTypeOK, EntryType, SizesAgree
<1>6. Len(bytes) = pending.size + n
  BY <1>4, <1>5
<1>7. pending.size + Len(req[p].arg) <= room[pending.buffptr]
  BY <1>1 DEF RoomInv, CopyFits
<1>8. cmd.buffptr = pending.buffptr
  BY DEF DriverInv, DevTypeOK, EntryType
<1> HIDE DEF bytes, cmd
<1>9. Len(bytes) <= room[pending.buffptr]
  BY <1>3, <1>5, <1>6, <1>7
<1>10. CopyFits'
  <2>1. pc' = [pc EXCEPT ![p] = "idle"]
    BY <1>2 DEF UnlockAndReturn, Return
  <2>2. ASSUME NEW q \in Proc PROVE pc'[q] # "copying"
    BY <1>1, <2>1, OneCopies DEF DriverInv, DevTypeOK
  <2> QED BY <2>2 DEF CopyFits
<1>11. WithinBlocks'
  <2>1. CASE HasNewline(bytes)
    <3>1. CommitCommand(cmd, bytes)
      BY <1>2, <2>1 DEF bytes, cmd
    <3>2. OverwrittenPtr # pending.buffptr
      <4>1. CASE entry[in_offs].buffptr = NULL
        BY <1>1, <4>1, NullAssumption DEF OverwrittenPtr
      <4>2. CASE entry[in_offs].buffptr # NULL
        BY <1>1, <4>2, NullAssumption
           DEF OverwrittenPtr, DriverInv, DevTypeOK, CBTypeOK, Ownership
      <4> QED BY <4>1, <4>2
    <3>3. ASSUME NEW q \in Buffptr PROVE Len(mem'[q]) <= room'[q]
      <4>1. CASE q = pending.buffptr
        <5>1. mem'[q] = bytes /\ room'[q] = room[q]
          BY <1>8, <3>1, <3>2, <4>1 DEF CommitCommand
        <5> QED BY <1>9, <4>1, <5>1
      <4>2. CASE q # pending.buffptr /\ q = OverwrittenPtr
        <5>1. mem'[q] = <<>> /\ room'[q] = 0
          BY <1>8, <3>1, <4>2 DEF CommitCommand
        <5> QED BY <5>1
      <4>3. CASE q # pending.buffptr /\ q # OverwrittenPtr
        <5>1. mem'[q] = mem[q] /\ room'[q] = room[q]
          BY <1>8, <3>1, <4>3 DEF CommitCommand
        <5> QED BY <5>1 DEF RoomInv, WithinBlocks
      <4> QED BY <4>1, <4>2, <4>3
    <3> QED BY <3>3 DEF WithinBlocks
  <2>2. CASE ~HasNewline(bytes)
    <3>1. mem' = [mem EXCEPT ![pending.buffptr] = bytes] /\ UNCHANGED room
      BY <1>2, <1>8, <2>2 DEF KeepPartial, bytes, cmd
    <3>2. ASSUME NEW q \in Buffptr PROVE Len(mem'[q]) <= room'[q]
      BY <1>9, <3>1 DEF RoomInv, WithinBlocks, DriverInv, DevTypeOK
    <3> QED BY <3>2 DEF WithinBlocks
  <2> QED BY <2>1, <2>2
<1> QED BY <1>10, <1>11 DEF RoomInv

LEMMA RoomInvStep == DriverInv /\ RoomInv /\ [CharNext]_charVars => RoomInv'
<1> SUFFICES ASSUME DriverInv, RoomInv, [CharNext]_charVars PROVE RoomInv'
  OBVIOUS
<1>1. ASSUME NEW p \in Proc, Begin(p) PROVE RoomInv'
  <2>1. UNCHANGED <<pending, mem, room>>
    BY <1>1 DEF Begin, aesd_open, aesd_release, WriteBegin, WriteNothing, ReadBegin, SeekBegin,
                IoctlRejected, LseekBegin, Call, devVars, heapVars
  <2>2. ASSUME NEW q \in Proc, pc'[q] = "copying"
        PROVE  pc[q] = "copying" /\ req'[q] = req[q]
    BY <1>1, <2>2
       DEF Begin, aesd_open, aesd_release, WriteBegin, WriteNothing, ReadBegin, SeekBegin,
           IoctlRejected, LseekBegin, Call, Return, DriverInv, DevTypeOK
  <2> QED BY <2>1, <2>2, RoomKept
<1>2. ASSUME NEW p \in Proc, mutex_lock_interruptible(p) \/ LockInterrupted(p) PROVE RoomInv'
  <2>1. UNCHANGED <<pending, mem, room>>
    BY <1>2 DEF mutex_lock_interruptible, LockInterrupted, devVars, heapVars
  <2>2. ASSUME NEW q \in Proc, pc'[q] = "copying"
        PROVE  pc[q] = "copying" /\ req'[q] = req[q]
    BY <1>2, <2>2
       DEF mutex_lock_interruptible, LockInterrupted, Return, DriverInv, DevTypeOK
  <2> QED BY <2>1, <2>2, RoomKept
<1>3. ASSUME NEW p \in Proc, Body(p) PROVE RoomInv'
  <2>1. CASE ReadPastEnd(p) \/ ReadCopy(p) \/ aesd_adjust_file_offset(p) \/ aesd_llseek(p)
    <3>1. UNCHANGED <<pending, mem, room>> /\ \E r : UnlockAndReturn(p, r)
      BY <2>1 DEF ReadPastEnd, ReadCopy, aesd_adjust_file_offset, aesd_llseek, devVars, heapVars
    <3>2. ASSUME NEW q \in Proc, pc'[q] = "copying"
          PROVE  pc[q] = "copying" /\ req'[q] = req[q]
      BY <3>1, <3>2 DEF UnlockAndReturn, Return, DriverInv, DevTypeOK
    <3> QED BY <3>1, <3>2, RoomKept
  <2>2. CASE ReadFind(p)
    <3>1. /\ UNCHANGED <<pending, mem, room, req>> /\ req[p].op = "read"
          /\ pc' = [pc EXCEPT ![p] = "copying"]
      BY <2>2 DEF ReadFind, Locked, devVars, heapVars
    <3>2. ASSUME NEW q \in Proc, pc'[q] = "copying", req'[q].op = "write"
          PROVE  pc[q] = "copying" /\ req'[q] = req[q]
      BY <3>1, <3>2 DEF DriverInv, DevTypeOK
    <3> QED BY <3>1, <3>2, RoomKept
  <2>3. CASE WriteKmallocFails(p) \/ WriteKreallocFails(p)
    <3>1. /\ UNCHANGED <<mem, room>> /\ \E r : UnlockAndReturn(p, r)
          /\ pc[p] = "locked"
      BY <2>3 DEF WriteKmallocFails, WriteKreallocFails, Locked, heapVars
    <3>2. ASSUME NEW q \in Proc PROVE pc'[q] # "copying"
      BY <3>1, OneCopies DEF UnlockAndReturn, Return, DriverInv, DevTypeOK
    <3> QED BY <3>1, <3>2 DEF RoomInv, WithinBlocks, CopyFits
  <2> QED BY <1>3, <2>1, <2>2, <2>3, AllocKeepsRoom, CopyKeepsRoom DEF Body
<1>4. CASE aesd_init_module
  <2>1. \A p \in Proc : pc'[p] # "copying"
    BY <1>4 DEF DriverInv, CallInv, aesd_init_module, callVars
  <2> QED BY <1>4, <2>1 DEF RoomInv, WithinBlocks, CopyFits, aesd_init_module, heapVars
<1>5. CASE aesd_cleanup_module
  <2>1. \A p \in Proc : pc'[p] # "copying"
    BY <1>5 DEF aesd_cleanup_module, callVars
  <2>2. ASSUME NEW q \in Buffptr PROVE Len(mem'[q]) <= room'[q]
    <3>1. CASE q \in OwnedBlocks
      <4>1. mem'[q] = <<>> /\ room'[q] = 0
        BY <1>5, <3>1 DEF aesd_cleanup_module
      <4> QED BY <4>1
    <3>2. CASE q \notin OwnedBlocks
      BY <1>5, <3>2 DEF aesd_cleanup_module, RoomInv, WithinBlocks
    <3> QED BY <3>1, <3>2
  <2> QED BY <2>1, <2>2 DEF RoomInv, WithinBlocks, CopyFits
<1>6. CASE UNCHANGED charVars
  BY <1>6, RoomKept DEF charVars, devVars, heapVars, callVars
<1> QED BY <1>1, <1>2, <1>3, <1>4, <1>5, <1>6 DEF CharNext

(* SizesExact for every instance: through every sequence of writes, short  *)
(* copies and failed allocations, the size kept for a block is what was    *)
(* copied into it, and what kmalloc and krealloc were asked for is never   *)
(* less, so that no copy of aesd_read or aesd_write passes the end of a    *)
(* block.                                                                  *)
THEOREM DriverSizes == CharSpec => []SizesExact
<1>1. CharInit => DriverInv /\ RoomInv
  <2>1. CharInit => RoomInv
    BY DEF CharInit, RoomInv, WithinBlocks, CopyFits
  <2> QED BY <2>1, DriverInvInit
<1>2. DriverInv /\ RoomInv => SizesExact
  BY DEF DriverInv, RoomInv, SizesExact
<1>3. QED
  BY <1>1, <1>2, DriverInvStep, RoomInvStep, PTL DEF CharSpec

(* RingShape for the buffer inside the driver: what aesd_write passes to   *)
(* aesd_circular_buffer_add_entry keeps the array and the offsets in       *)
(* agreement.                                                              *)
THEOREM DriverRingShape == CharSpec => [](DevTypeOK /\ RingShape)
<1>1. CharInit => DriverInv
  BY DriverInvInit
<1>2. DriverInv => DevTypeOK /\ RingShape
  BY DEF DriverInv
<1>3. QED
  BY <1>1, <1>2, DriverInvStep, PTL DEF CharSpec

-----------------------------------------------------------------------------
(* The files: what aesd_read holds on to across its copy, and the types of *)
(* the positions and the results.                                          *)

(* What aesd_read found before its copy is what the search returns, and    *)
(* the count stays inside the entry and is 0 only if nothing was asked for. *)
ReadInv ==
    \A p \in Proc :
        pc[p] = "copying" /\ req[p].op = "read" =>
            LET hit == aesd_circular_buffer_find_entry_offset_for_fpos(fpos[p])
            IN  /\ hit # NoEntry
                /\ hit = [slot |-> found[p].slot, offset |-> found[p].offset]
                /\ found[p].count <= entry[hit.slot].size - hit.offset
                /\ req[p].arg > 0 => found[p].count > 0

FileInv == DriverInv /\ FileTypeOK /\ ReadInv

LEMMA FindUnchanged ==
    UNCHANGED cbVars => \A off : aesd_circular_buffer_find_entry_offset_for_fpos(off)'
                                   = aesd_circular_buffer_find_entry_offset_for_fpos(off)
BY DEF cbVars, CharOffs, SlotAt, Count, aesd_circular_buffer_find_entry_offset_for_fpos, NoEntry

(* An entry that holds a position is one of the device's, allocated, with  *)
(* the position inside its block.                                          *)
LEMMA HitIsEntry ==
    ASSUME DriverInv, loaded, NEW off \in Nat, NEW hit,
           hit = aesd_circular_buffer_find_entry_offset_for_fpos(off), hit # NoEntry
    PROVE  /\ hit = [slot |-> hit.slot, offset |-> hit.offset]
           /\ hit.slot \in Slots /\ hit.offset \in Nat
           /\ entry[hit.slot].size \in Nat /\ hit.offset < entry[hit.slot].size
           /\ entry[hit.slot].buffptr \in Buffptr /\ entry[hit.slot].buffptr \in live
           /\ mem[entry[hit.slot].buffptr] \in Seq(Byte)
           /\ Len(mem[entry[hit.slot].buffptr]) = entry[hit.slot].size
<1>1. CBTypeOK /\ RingShape /\ mem \in [Buffptr -> Seq(Byte)]
  BY DEF DriverInv, DevTypeOK
<1>2. PICK i \in 0 .. Count - 1 :
        /\ CharOffs[i] <= off /\ off < CharOffs[i + 1]
        /\ hit = [slot |-> SlotAt(i), offset |-> off - CharOffs[i]]
  BY <1>1, FindResult
<1>3. i \in Nat /\ SlotAt(i) \in Occupied
  BY <1>1, CountType, MaxOpsAssumption DEF Occupied
<1>4. /\ CharOffs[i] \in Nat /\ CharOffs[i + 1] \in Nat
      /\ CharOffs[i + 1] = CharOffs[i] + entry[SlotAt(i)].size
      /\ SlotAt(i) \in Slots /\ entry[SlotAt(i)].size \in Nat
  BY <1>1, <1>3, CharOffsAt, SlotSize
<1>5. /\ hit.slot = SlotAt(i) /\ hit.offset = off - CharOffs[i]
      /\ hit = [slot |-> hit.slot, offset |-> hit.offset]
  BY <1>2
<1>6. hit.offset \in Nat /\ hit.offset < entry[SlotAt(i)].size
  BY <1>2, <1>4, <1>5
<1>7. entry[SlotAt(i)].buffptr \in Buffptr /\ entry[SlotAt(i)].buffptr # NULL
  BY <1>1, <1>3, <1>4, NullAssumption DEF RingShape
<1>8. entry[SlotAt(i)].buffptr \in live
  BY <1>4, <1>7, EntryIsOwned DEF DriverInv, Ownership
<1>9. /\ mem[entry[SlotAt(i)].buffptr] \in Seq(Byte)
      /\ Len(mem[entry[SlotAt(i)].buffptr]) = entry[SlotAt(i)].size
  BY <1>1, <1>4, <1>7 DEF DriverInv, SizesAgree
<1> QED BY <1>4, <1>5, <1>6, <1>7, <1>8, <1>9

LEMMA FileInvInit == CharInit => FileInv
<1> SUFFICES ASSUME CharInit PROVE FileInv
  OBVIOUS
<1>1. FileTypeOK
  <2>1. Ok(0) \in Result
    BY DEF Ok, Result, Error
  <2>2. NoFound \in [slot : 0 .. MaxOps, offset : Nat, count : Nat]
    BY MaxOpsAssumption DEF NoFound
  <2> QED BY <2>1, <2>2 DEF CharInit, FileTypeOK
<1>2. ReadInv
  BY DEF CharInit, ReadInv
<1> QED BY <1>1, <1>2, DriverInvInit DEF FileInv

(* The step of process p in the driver.                                    *)
ProcStep(p) == Begin(p) \/ mutex_lock_interruptible(p) \/ LockInterrupted(p) \/ Body(p)

(* A process changes nothing of another one's file operation, and the      *)
(* buffer only while it holds the mutex.                                   *)
LEMMA OthersKept ==
    ASSUME DriverInv, FileTypeOK, NEW p \in Proc, ProcStep(p), NEW q \in Proc, q # p
    PROVE  /\ pc'[q] = pc[q] /\ req'[q] = req[q]
           /\ found'[q] = found[q] /\ fpos'[q] = fpos[q]
           /\ pc[q] = "copying" => UNCHANGED cbVars
<1>1. /\ pc'[q] = pc[q] /\ req'[q] = req[q]
      /\ found'[q] = found[q] /\ fpos'[q] = fpos[q]
  BY DEF DriverInv, DevTypeOK, FileTypeOK, ProcStep, Body, Begin, aesd_open, aesd_release,
         WriteBegin, WriteNothing, ReadBegin, SeekBegin, IoctlRejected, LseekBegin, Call,
         mutex_lock_interruptible, LockInterrupted, WriteKmalloc, WriteKmallocFails,
         WriteKrealloc, WriteKreallocFails, WriteCopy, ReadPastEnd, ReadFind, ReadCopy,
         aesd_adjust_file_offset, aesd_llseek, UnlockAndReturn, Return
<1>2. ~WriteCopy(p) => UNCHANGED cbVars
  BY DEF ProcStep, Body, Begin, aesd_open, aesd_release, devVars, cbVars,
         WriteBegin, WriteNothing, ReadBegin, SeekBegin, IoctlRejected, LseekBegin, Call,
         mutex_lock_interruptible, LockInterrupted, WriteKmalloc, WriteKmallocFails,
         WriteKrealloc, WriteKreallocFails, ReadPastEnd, ReadFind, ReadCopy,
         aesd_adjust_file_offset, aesd_llseek
<1>3. WriteCopy(p) => pc[q] # "copying"
  BY DEF WriteCopy, DriverInv, CallInv
<1> QED BY <1>1, <1>2, <1>3

(* aesd_read between the search and the copy.                              *)
LEMMA ReadFindKeepsFile ==
    ASSUME FileInv, NEW p \in Proc, ReadFind(p)
    PROVE  FileTypeOK' /\ ReadInv'
<1> DEFINE hit  == aesd_circular_buffer_find_entry_offset_for_fpos(fpos[p])
           left == entry[hit.slot].size - hit.offset
           n    == IF req[p].arg > left THEN left ELSE req[p].arg
<1>1. /\ DriverInv /\ FileTypeOK /\ loaded /\ fpos[p] \in Nat /\ hit # NoEntry
      /\ UNCHANGED <<devVars, fpos, req, res>>
      /\ found' = [found EXCEPT ![p] = [slot |-> hit.slot, offset |-> hit.offset, count |-> n]]
      /\ pc' = [pc EXCEPT ![p] = "copying"] /\ pc[p] = "locked" /\ req[p].op = "read"
  BY DEF FileInv, DriverInv, CallInv, FileTypeOK, ReadFind, Locked
<1> HIDE DEF hit
<1>2. /\ hit = [slot |-> hit.slot, offset |-> hit.offset] /\ hit.slot \in Slots
      /\ hit.offset \in Nat /\ entry[hit.slot].size \in Nat /\ hit.offset < entry[hit.slot].size
  BY <1>1, HitIsEntry DEF hit
<1>3. req[p].arg \in Nat
  <2>1. req[p] \in Request \cup {NoReq}
    BY <1>1 DEF DriverInv, DevTypeOK
  <2>2. req[p].arg \in ReadCount
    BY <1>1, <2>1 DEF Request, WriteReq, ReadReq, SeekReq, LseekReq, NoReq
  <2> QED BY <2>2, CallAssumption
<1>4. left \in Nat /\ n \in Nat /\ n <= left /\ (req[p].arg > 0 => n > 0)
  BY <1>2, <1>3
<1> HIDE DEF n, left
<1>5. FileTypeOK'
  <2>1. [slot |-> hit.slot, offset |-> hit.offset, count |-> n]
          \in [slot : 0 .. MaxOps, offset : Nat, count : Nat]
    BY <1>2, <1>4, MaxOpsAssumption DEF Slots
  <2> QED BY <1>1, <2>1 DEF FileTypeOK
<1>6. ReadInv'
  <2> SUFFICES ASSUME NEW q \in Proc, pc'[q] = "copying" /\ req'[q].op = "read"
               PROVE  LET h == aesd_circular_buffer_find_entry_offset_for_fpos(fpos[q])'
                      IN  /\ h # NoEntry
                          /\ h = [slot |-> found'[q].slot, offset |-> found'[q].offset]
                          /\ found'[q].count <= entry'[h.slot].size - h.offset
                          /\ req'[q].arg > 0 => found'[q].count > 0
    BY Zenon DEF ReadInv, NoEntry
  <2>1. /\ UNCHANGED <<cbVars, fpos>>
        /\ aesd_circular_buffer_find_entry_offset_for_fpos(fpos[q])'
             = aesd_circular_buffer_find_entry_offset_for_fpos(fpos[q])
        /\ entry' = entry
    BY <1>1, FindUnchanged DEF devVars, cbVars
  <2>2. CASE q = p
    <3>1. /\ found'[q].slot = hit.slot /\ found'[q].offset = hit.offset /\ found'[q].count = n
      BY <1>1, <2>2 DEF FileTypeOK
    <3>2. aesd_circular_buffer_find_entry_offset_for_fpos(fpos[q])' = hit
      BY <2>1, <2>2 DEF hit
    <3>3. req'[q].arg > 0 => n > 0
      BY <1>1, <1>4, <2>2
    <3> QED BY <1>1, <1>2, <1>4, <2>1, <3>1, <3>2, <3>3 DEF left
  <2>3. CASE q # p
    <3>1. /\ found'[q] = found[q] /\ req'[q] = req[q]
          /\ pc[q] = "copying" /\ req[q].op = "read"
      BY <1>1, <2>3 DEF FileTypeOK, DriverInv, DevTypeOK
    <3> QED BY <2>1, <3>1 DEF FileInv, ReadInv
  <2> QED BY <2>2, <2>3
<1> QED BY <1>5, <1>6

(* No other step of a process begins a copy of aesd_read. *)
LEMMA ReadInvKept ==
    ASSUME FileInv, NEW p \in Proc, ProcStep(p), ~ReadFind(p)
    PROVE  ReadInv'
<1>1. DriverInv /\ FileTypeOK /\ ReadInv
  BY DEF FileInv
<1>2. ~(pc'[p] = "copying" /\ req'[p].op = "read")
  BY <1>1
     DEF DriverInv, DevTypeOK, ProcStep, Body, Begin, aesd_open, aesd_release,
         WriteBegin, WriteNothing, ReadBegin, SeekBegin, IoctlRejected, LseekBegin, Call,
         mutex_lock_interruptible, LockInterrupted, WriteKmalloc, WriteKmallocFails,
         WriteKrealloc, WriteKreallocFails, WriteCopy, ReadPastEnd, ReadCopy, Locked,
         aesd_adjust_file_offset, aesd_llseek, UnlockAndReturn, Return
<1> SUFFICES ASSUME NEW q \in Proc, pc'[q] = "copying" /\ req'[q].op = "read"
             PROVE  LET h == aesd_circular_buffer_find_entry_offset_for_fpos(fpos[q])'
                    IN  /\ h # NoEntry
                        /\ h = [slot |-> found'[q].slot, offset |-> found'[q].offset]
                        /\ found'[q].count <= entry'[h.slot].size - h.offset
                        /\ req'[q].arg > 0 => found'[q].count > 0
  BY Zenon DEF ReadInv, NoEntry
<1>3. /\ q # p /\ pc[q] = "copying" /\ req[q].op = "read"
      /\ found'[q] = found[q] /\ fpos'[q] = fpos[q] /\ req'[q] = req[q] /\ UNCHANGED cbVars
  BY <1>1, <1>2, OthersKept
<1>4. /\ aesd_circular_buffer_find_entry_offset_for_fpos(fpos[q])'
           = aesd_circular_buffer_find_entry_offset_for_fpos(fpos[q])
      /\ entry' = entry
  <2>1. \A off : aesd_circular_buffer_find_entry_offset_for_fpos(off)'
                   = aesd_circular_buffer_find_entry_offset_for_fpos(off)
    BY <1>3, FindUnchanged
  <2> QED BY <1>3, <2>1 DEF cbVars
<1> QED BY <1>1, <1>3, <1>4 DEF ReadInv

LEMMA ResultTypes ==
    /\ \A n \in Nat : Ok(n) \in Result
    /\ \A e \in Error : Fail(e) \in Result
    /\ \A s \in Seq(Byte) : Bytes(s) \in Result
BY DEF Ok, Fail, Bytes, Result, Error

(* A step that returns keeps the types of the files when its result and    *)
(* the new position have theirs.                                           *)
LEMMA ReturnKeepsTypes ==
    ASSUME FileTypeOK, NEW p \in Proc, NEW r \in Result, Return(p, r),
           NEW pos \in Nat, fpos' = fpos \/ fpos' = [fpos EXCEPT ![p] = pos]
    PROVE  FileTypeOK'
<1>1. NoFound \in [slot : 0 .. MaxOps, offset : Nat, count : Nat]
  BY MaxOpsAssumption DEF NoFound
<1> QED BY <1>1 DEF FileTypeOK, Return

(* copy_to_user moves bytes of the entry that holds the position. *)
LEMMA ReadCopyTypes ==
    ASSUME FileInv, NEW p \in Proc, ReadCopy(p)
    PROVE  FileTypeOK'
<1>1. /\ DriverInv /\ FileTypeOK /\ ReadInv
      /\ loaded /\ fpos[p] \in Nat /\ found[p].count \in Nat
      /\ pc[p] = "copying" /\ req[p].op = "read"
  BY DEF FileInv, DriverInv, CallInv, FileTypeOK, ReadCopy
<1> DEFINE hit   == aesd_circular_buffer_find_entry_offset_for_fpos(fpos[p])
           block == mem[entry[found[p].slot].buffptr]
           from  == found[p].offset
<1> HIDE DEF hit, block, from
<1>2. /\ hit # NoEntry /\ hit.slot = found[p].slot /\ hit.offset = from
      /\ found[p].count <= entry[hit.slot].size - hit.offset
  <2>1. /\ hit # NoEntry /\ hit = [slot |-> found[p].slot, offset |-> found[p].offset]
        /\ found[p].count <= entry[hit.slot].size - hit.offset
    BY <1>1, Zenon DEF ReadInv, hit
  <2> QED BY <2>1 DEF from
<1>3. /\ hit.offset \in Nat /\ entry[hit.slot].size \in Nat
      /\ block \in Seq(Byte) /\ Len(block) = entry[hit.slot].size
  BY <1>1, <1>2, HitIsEntry DEF hit, block
<1>4. PICK n \in CopiedOf(found[p].count) :
        /\ fpos' = [fpos EXCEPT ![p] = @ + n]
        /\ UnlockAndReturn(p, Bytes(SubSeq(block, from + 1, from + n)))
  BY DEF ReadCopy, block, from
<1>5. n \in Nat /\ n <= found[p].count
  BY <1>1, <1>4 DEF CopiedOf
<1>6. from \in Nat /\ from + n <= Len(block)
  BY <1>1, <1>2, <1>3, <1>5
<1>7. SubSeq(block, from + 1, from + n) \in Seq(Byte)
  <2>1. \A i \in 1 .. n : from + i \in 1 .. Len(block)
    BY <1>5, <1>6
  <2>2. from + 1 \in Nat /\ from + n \in Nat
    BY <1>5, <1>6
  <2>3. ASSUME NEW i \in from + 1 .. from + n PROVE block[i] \in Byte
    BY <1>3, <1>5, <1>6, <2>3
  <2> QED BY <1>3, <1>6, <2>2, <2>3, SubSeqProperties
<1>8. Bytes(SubSeq(block, from + 1, from + n)) \in Result
  BY <1>7, ResultTypes
<1>9. Return(p, Bytes(SubSeq(block, from + 1, from + n)))
  BY <1>4, Zenon DEF UnlockAndReturn
<1>10. fpos[p] + n \in Nat /\ fpos' = [fpos EXCEPT ![p] = fpos[p] + n]
  BY <1>1, <1>4, <1>5
<1> QED BY <1>1, <1>8, <1>9, <1>10, ReturnKeepsTypes

(* Both seeks leave a position that is not negative.                       *)
LEMMA SeekTypes ==
    ASSUME FileInv, NEW p \in Proc, aesd_adjust_file_offset(p) \/ aesd_llseek(p)
    PROVE  FileTypeOK'
<1>1. /\ DriverInv /\ FileTypeOK /\ CBTypeOK /\ fpos[p] \in Nat
      /\ req[p] \in Request \cup {NoReq}
  BY DEF FileInv, DriverInv, DevTypeOK, FileTypeOK
<1>2. ForeachSize \in [0 .. MaxOps -> Nat]
  BY <1>1, ForeachSizeValues
<1>3. Ok(0) \in Result /\ Fail("EINVAL") \in Result
  BY ResultTypes DEF Error
<1>4. CASE aesd_adjust_file_offset(p)
  <2> DEFINE cmd == req[p].arg.write_cmd
             off == req[p].arg.write_cmd_offset
  <2>1. req[p] \in SeekReq
    BY <1>1, <1>4 DEF aesd_adjust_file_offset, Locked, Request, WriteReq, ReadReq, LseekReq, NoReq
  <2>2. cmd \in Nat /\ off \in Nat
    BY <2>1, CallAssumption DEF SeekReq
  <2>3. \/ /\ SeekAccepts(cmd, off)
           /\ fpos' = [fpos EXCEPT ![p] = SeekPos(p, cmd, off)]
           /\ UnlockAndReturn(p, Ok(0))
        \/ UnlockAndReturn(p, Fail("EINVAL")) /\ UNCHANGED fpos
    BY <1>4 DEF aesd_adjust_file_offset
  <2> HIDE DEF cmd, off
  <2>4. CASE /\ SeekAccepts(cmd, off)
             /\ fpos' = [fpos EXCEPT ![p] = SeekPos(p, cmd, off)]
             /\ UnlockAndReturn(p, Ok(0))
    <3>1. cmd \in 0 .. MaxOps
      BY <2>2, <2>4, MaxOpsAssumption DEF SeekAccepts, ForeachEnd
    <3>2. SeekPos(p, cmd, off) \in Nat
      BY <1>1, <1>2, <2>2, <3>1 DEF SeekPos
    <3> QED BY <1>1, <1>3, <2>4, <3>2, ReturnKeepsTypes DEF UnlockAndReturn
  <2>5. CASE UnlockAndReturn(p, Fail("EINVAL")) /\ UNCHANGED fpos
    BY <1>1, <1>3, <2>5, ReturnKeepsTypes DEF UnlockAndReturn
  <2> QED BY <2>3, <2>4, <2>5
<1>5. CASE aesd_llseek(p)
  <2> DEFINE total  == TotalSize
             target == LseekTarget(p, total)
  <2>1. req[p] \in LseekReq
    BY <1>1, <1>5 DEF aesd_llseek, Locked, Request, WriteReq, ReadReq, SeekReq, NoReq
  <2>2. /\ req[p].arg.offset \in Int /\ total \in Nat
        /\ req[p].arg.whence \in {"SET", "CUR", "END"}
    <3>1. MaxOps \in 0 .. MaxOps
      BY MaxOpsAssumption
    <3>2. total \in Nat
      BY <1>2, <3>1 DEF TotalSize
    <3>3. req[p].arg \in [offset : LseekOffset, whence : {"SET", "CUR", "END"}]
      BY <2>1 DEF LseekReq
    <3> QED BY <3>2, <3>3, CallAssumption
  <2>3. \/ /\ LseekAccepts(p, total)
           /\ fpos' = [fpos EXCEPT ![p] = target]
           /\ UnlockAndReturn(p, Ok(target))
        \/ UnlockAndReturn(p, Fail("EINVAL")) /\ UNCHANGED fpos
    BY <1>5 DEF aesd_llseek
  <2> HIDE DEF total
  <2>4. CASE /\ LseekAccepts(p, total)
             /\ fpos' = [fpos EXCEPT ![p] = target]
             /\ UnlockAndReturn(p, Ok(target))
    <3>1. target \in Nat
      <4>1. CASE target \in 0 .. total
        BY <2>2, <4>1
      <4>2. CASE req[p].arg.whence = "CUR" /\ req[p].arg.offset = 0
        BY <1>1, <4>2 DEF LseekTarget
      <4> QED BY <2>4, <4>1, <4>2 DEF LseekAccepts
    <3> HIDE DEF target
    <3>2. Ok(target) \in Result
      BY <3>1, ResultTypes
    <3> QED BY <1>1, <2>4, <3>1, <3>2, ReturnKeepsTypes DEF UnlockAndReturn
  <2>5. CASE UnlockAndReturn(p, Fail("EINVAL")) /\ UNCHANGED fpos
    BY <1>1, <1>3, <2>5, ReturnKeepsTypes DEF UnlockAndReturn
  <2> QED BY <2>3, <2>4, <2>5
<1> QED BY <1>4, <1>5

LEMMA ProcStepTypes ==
    ASSUME FileInv, NEW p \in Proc, ProcStep(p)
    PROVE  FileTypeOK'
<1>1. DriverInv /\ FileTypeOK /\ 0 \in Nat
  BY DEF FileInv
<1>2. /\ Ok(0) \in Result
      /\ \A e \in Error : Fail(e) \in Result
  BY ResultTypes
<1>3. CASE aesd_open(p) \/ aesd_release(p) \/ \E r : Call(p, r)
  BY <1>1, <1>2, <1>3 DEF FileTypeOK, aesd_open, aesd_release, Call
<1>4. CASE WriteNothing(p) \/ IoctlRejected(p) \/ LockInterrupted(p)
  <2>1. \E r \in Result : Return(p, r) /\ fpos' = fpos
    BY <1>2, <1>4 DEF WriteNothing, IoctlRejected, LockInterrupted, Error
  <2> QED BY <1>1, <2>1, ReturnKeepsTypes
<1>5. CASE \/ mutex_lock_interruptible(p) \/ WriteKmalloc(p) \/ WriteKrealloc(p)
  BY <1>1, <1>5 DEF FileTypeOK, mutex_lock_interruptible, WriteKmalloc, WriteKrealloc
<1>6. CASE WriteKmallocFails(p) \/ WriteKreallocFails(p) \/ ReadPastEnd(p)
  <2>1. \E r \in Result : Return(p, r) /\ fpos' = fpos
    BY <1>2, <1>6 DEF WriteKmallocFails, WriteKreallocFails, ReadPastEnd, UnlockAndReturn, Error
  <2> QED BY <1>1, <2>1, ReturnKeepsTypes
<1>7. CASE WriteCopy(p)
  <2>1. req[p].arg \in Seq(Byte)
    <3>1. req[p] \in Request \cup {NoReq} /\ req[p].op = "write"
      BY <1>1, <1>7 DEF DriverInv, DevTypeOK, WriteCopy
    <3>2. req[p].arg \in Chunk
      BY <3>1 DEF Request, WriteReq, ReadReq, SeekReq, LseekReq, NoReq
    <3> QED BY <3>2, ChunkAssumption
  <2>2. PICK n \in CopiedOf(Len(req[p].arg)) : UnlockAndReturn(p, Ok(n)) /\ fpos' = fpos
    BY <1>7 DEF WriteCopy
  <2>3. Len(req[p].arg) \in Nat
    BY <2>1
  <2>4. n \in Nat
    BY <2>3, <2>2 DEF CopiedOf
  <2>5. Ok(n) \in Result
    BY <2>4, ResultTypes
  <2> QED BY <1>1, <2>2, <2>5, ReturnKeepsTypes DEF UnlockAndReturn
<1> QED
  <2>1. CASE Begin(p)
    BY <1>3, <1>4, <2>1 DEF Begin, WriteBegin, ReadBegin, SeekBegin, LseekBegin
  <2>2. CASE Body(p)
    BY <1>5, <1>6, <1>7, <2>2, ReadFindKeepsFile, ReadCopyTypes, SeekTypes DEF Body
  <2> QED BY <1>4, <1>5, <2>1, <2>2 DEF ProcStep

LEMMA FileInvStep == FileInv /\ [CharNext]_charVars => FileInv'
<1> SUFFICES ASSUME FileInv, [CharNext]_charVars PROVE FileInv'
  OBVIOUS
<1>1. DriverInv'
  BY DriverInvStep DEF FileInv
<1> SUFFICES FileTypeOK' /\ ReadInv'
  BY <1>1 DEF FileInv
<1>2. ASSUME NEW p \in Proc, ProcStep(p) PROVE FileTypeOK' /\ ReadInv'
  BY <1>2, ProcStepTypes, ReadFindKeepsFile, ReadInvKept
<1>3. CASE aesd_init_module \/ aesd_cleanup_module
  <2>1. UNCHANGED <<fpos, callVars>>
    BY <1>3 DEF aesd_init_module, aesd_cleanup_module
  <2>2. FileTypeOK'
    BY <2>1 DEF FileInv, FileTypeOK, callVars
  <2>3. \A p \in Proc : pc'[p] = "closed"
    BY <1>3, <2>1 DEF FileInv, DriverInv, DevTypeOK, CallInv, callVars,
                      aesd_init_module, aesd_cleanup_module
  <2> QED BY <2>2, <2>3 DEF ReadInv
<1>4. CASE UNCHANGED charVars
  <2>1. UNCHANGED <<cbVars, fpos, pc, req, found, res>> /\ entry' = entry
    BY <1>4 DEF charVars, callVars, devVars, cbVars
  <2>2. \A off : aesd_circular_buffer_find_entry_offset_for_fpos(off)'
                   = aesd_circular_buffer_find_entry_offset_for_fpos(off)
    BY <2>1, FindUnchanged
  <2>3. FileTypeOK'
    BY <2>1 DEF FileInv, FileTypeOK
  <2>4. ReadInv'
    <3> SUFFICES ASSUME NEW q \in Proc, pc'[q] = "copying" /\ req'[q].op = "read"
                 PROVE  LET h == aesd_circular_buffer_find_entry_offset_for_fpos(fpos[q])'
                        IN  /\ h # NoEntry
                            /\ h = [slot |-> found'[q].slot, offset |-> found'[q].offset]
                            /\ found'[q].count <= entry'[h.slot].size - h.offset
                            /\ req'[q].arg > 0 => found'[q].count > 0
      BY Zenon DEF ReadInv, NoEntry
    <3>1. aesd_circular_buffer_find_entry_offset_for_fpos(fpos[q])'
            = aesd_circular_buffer_find_entry_offset_for_fpos(fpos[q])
      BY <2>1, <2>2
    <3> QED BY <2>1, <3>1 DEF FileInv, ReadInv
  <2> QED BY <2>3, <2>4
<1> QED BY <1>2, <1>3, <1>4 DEF CharNext, ProcStep

LEMMA FileInvImplies == FileInv => CharTypeOK /\ ReaderEntryStable
<1> SUFFICES ASSUME FileInv PROVE CharTypeOK /\ ReaderEntryStable
  OBVIOUS
<1>1. CharTypeOK
  BY DEF FileInv, DriverInv, CharTypeOK
<1>2. ASSUME NEW p \in Proc, pc[p] = "copying", req[p].op = "read"
      PROVE  /\ found[p].slot \in Slots
             /\ entry[found[p].slot].buffptr \in live
             /\ aesd_circular_buffer_find_entry_offset_for_fpos(fpos[p])
                  = [slot |-> found[p].slot, offset |-> found[p].offset]
  <2> DEFINE hit == aesd_circular_buffer_find_entry_offset_for_fpos(fpos[p])
  <2> HIDE DEF hit
  <2>1. /\ hit # NoEntry
        /\ hit = [slot |-> found[p].slot, offset |-> found[p].offset]
    BY <1>2, Zenon DEF FileInv, ReadInv, hit
  <2>2. DriverInv /\ loaded /\ fpos[p] \in Nat
    BY <1>2 DEF FileInv, DriverInv, CallInv, FileTypeOK
  <2>3. hit.slot \in Slots /\ entry[hit.slot].buffptr \in live
    BY <2>1, <2>2, HitIsEntry DEF hit
  <2>4. hit.slot = found[p].slot
    BY <2>1
  <2> QED BY <2>1, <2>3, <2>4 DEF hit
<1> QED BY <1>1, <1>2, Zenon DEF ReaderEntryStable

(* The types for every instance: no seek, read or interrupted call leaves  *)
(* a negative position, and what a read returns are bytes.                 *)
THEOREM DriverTypeOK == CharSpec => []CharTypeOK
BY FileInvInit, FileInvStep, FileInvImplies, PTL DEF CharSpec

(* ReaderEntryStable for every instance: from the search to the end of the *)
(* copy to user space, no step of another process evicts, moves or frees   *)
(* the entry aesd_read copies from.                                        *)
THEOREM DriverReaderStable == CharSpec => []ReaderEntryStable
BY FileInvInit, FileInvStep, FileInvImplies, PTL DEF CharSpec

=============================================================================
