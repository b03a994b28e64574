---------------------- MODULE AesdCircularBufferProofs ----------------------
(***************************************************************************)
(* The circular buffer is correct for every capacity: its offsets and flag *)
(* describe the array, it implements a bounded first-in first-out queue,   *)
(* and its search finds the byte at every position.                        *)
(***************************************************************************)
EXTENDS MCCircularBuffer, DataInduction, SequenceTheorems, TLAPS

(* Advancing an index by one with % MaxOps, without the modulus. *)
LEMMA ModSucc ==
    ASSUME NEW s \in Slots
    PROVE  (s + 1) % MaxOps = IF s = MaxOps - 1 THEN 0 ELSE s + 1
BY MaxOpsAssumption DEF Slots

(* The slot i places after slot o, without the modulus. *)
LEMMA ModPlus ==
    ASSUME NEW o \in Slots, NEW i \in 0 .. MaxOps
    PROVE  (o + i) % MaxOps = IF o + i < MaxOps THEN o + i ELSE o + i - MaxOps
BY MaxOpsAssumption DEF Slots


LEMMA CountType ==
    ASSUME CBTypeOK
    PROVE  Count \in 0 .. MaxOps
BY MaxOpsAssumption DEF CBTypeOK, Count, Slots

(* Membership in Occupied in terms of the offsets alone. *)
Between(s) ==
    IF in_offs = out_offs THEN full
    ELSE IF in_offs > out_offs THEN out_offs <= s /\ s < in_offs
    ELSE out_offs <= s \/ s < in_offs

LEMMA OccupiedBetween ==
    CBTypeOK => \A s \in Slots : s \in Occupied <=> Between(s)
<1> SUFFICES ASSUME CBTypeOK, NEW s \in Slots
             PROVE  s \in Occupied <=> Between(s)
  OBVIOUS
<1>1. Count \in 0 .. MaxOps
  BY CountType
<1>2. ASSUME s \in Occupied PROVE Between(s)
  <2>1. PICK i \in 0 .. Count - 1 : s = SlotAt(i)
    BY <1>2 DEF Occupied
  <2> i \in 0 .. MaxOps
    BY <1>1, MaxOpsAssumption
  <2>2. s = IF out_offs + i < MaxOps THEN out_offs + i ELSE out_offs + i - MaxOps
    BY <2>1, ModPlus DEF SlotAt, CBTypeOK
  <2>3. QED
    BY <1>1, <2>2, MaxOpsAssumption DEF Between, Count, CBTypeOK, Slots
<1>3. ASSUME Between(s) PROVE s \in Occupied
  <2> DEFINE i == IF out_offs <= s THEN s - out_offs ELSE s + MaxOps - out_offs
  <2>1. i \in 0 .. Count - 1
    BY <1>3, MaxOpsAssumption DEF Between, Count, CBTypeOK, Slots
  <2>2. i \in 0 .. MaxOps
    BY <1>1, <2>1, MaxOpsAssumption
  <2>3. SlotAt(i) = IF out_offs + i < MaxOps THEN out_offs + i ELSE out_offs + i - MaxOps
    BY <2>2, ModPlus DEF SlotAt, CBTypeOK
  <2>4. SlotAt(i) = s
    BY <2>3, MaxOpsAssumption DEF CBTypeOK, Slots
  <2>5. QED
    BY <2>1, <2>4 DEF Occupied
<1>4. QED
  BY <1>2, <1>3

LEMMA OccupiedBetweenPrime ==
    CBTypeOK' => (\A s \in Slots : s \in Occupied <=> Between(s))'
BY OccupiedBetween, PTL

-----------------------------------------------------------------------------

LEMMA CBInitInv == aesd_circular_buffer_init => CBTypeOK /\ RingShape
<1> SUFFICES ASSUME aesd_circular_buffer_init PROVE CBTypeOK /\ RingShape
  OBVIOUS
<1>1. CBTypeOK
  <2>1. full \in BOOLEAN
    BY Zenon DEF aesd_circular_buffer_init
  <2>2. /\ entry \in [Slots -> EntryType]
        /\ in_offs \in Slots
        /\ out_offs \in Slots
    BY MaxOpsAssumption DEF aesd_circular_buffer_init, EntryType, EmptyEntry, Slots
  <2>3. QED
    BY <2>1, <2>2 DEF CBTypeOK
<1>2. ASSUME NEW s \in Slots PROVE s \notin Occupied
  BY <1>1, OccupiedBetween DEF Between, aesd_circular_buffer_init
<1>3. QED
  BY <1>1, <1>2 DEF RingShape, aesd_circular_buffer_init

(* Adding an entry of at least one byte keeps the offsets, the flag and    *)
(* the array in agreement.                                                 *)
LEMMA AddEntryInv ==
    ASSUME CBTypeOK, RingShape,
           NEW e \in [buffptr : Buffptr, size : Nat \ {0}],
           aesd_circular_buffer_add_entry(e)
    PROVE  CBTypeOK' /\ RingShape'
<1>1. /\ in_offs' = IF in_offs = MaxOps - 1 THEN 0 ELSE in_offs + 1
      /\ out_offs' = IF full THEN (IF out_offs = MaxOps - 1 THEN 0 ELSE out_offs + 1)
                             ELSE out_offs
      /\ full' <=> in_offs' = out_offs'
      /\ entry' = [entry EXCEPT ![in_offs] = e]
  BY ModSucc DEF aesd_circular_buffer_add_entry, CBTypeOK
<1>2. CBTypeOK'
  <2>1. full' \in BOOLEAN
    BY Zenon DEF aesd_circular_buffer_add_entry
  <2>2. QED
    BY <1>1, <2>1, MaxOpsAssumption DEF CBTypeOK, EntryType, Slots
<1>3. ASSUME NEW s \in Slots
      PROVE  (s \in Occupied)' <=> s \in Occupied \/ s = in_offs
  <2>1. (s \in Occupied)' <=> Between(s)'
    BY <1>2, OccupiedBetweenPrime
  <2>2. s \in Occupied <=> Between(s)
    BY OccupiedBetween
  <2>3. Between(s)' <=> Between(s) \/ s = in_offs
    <3>1. CASE full
      BY <1>1, <3>1, MaxOpsAssumption DEF Between, CBTypeOK, RingShape, Slots
    <3>2. CASE ~full
      BY <1>1, <3>2, MaxOpsAssumption DEF Between, CBTypeOK, Slots
    <3>3. QED
      BY <3>1, <3>2
  <2>4. QED
    BY <1>2, <2>1, <2>2, <2>3
<1>4. ASSUME NEW s \in Slots
      PROVE  /\ (s \in Occupied)' => entry'[s] \in [buffptr : Buffptr, size : Nat \ {0}]
             /\ (s \notin Occupied)' => entry'[s] = EmptyEntry
  BY <1>1, <1>3 DEF RingShape, CBTypeOK
<1>5. QED
  BY <1>1, <1>2, <1>4 DEF RingShape

(* The type invariant and RingShape hold of the buffer for every capacity, *)
(* however many entries aesd_circular_buffer_add_entry has stored.         *)
THEOREM CBShape == CBSpec => [](CBTypeOK /\ RingShape)
<1>1. CBTypeOK /\ RingShape /\ [CBNext]_cbVars => CBTypeOK' /\ RingShape'
  <2> SUFFICES ASSUME CBTypeOK, RingShape, [CBNext]_cbVars
               PROVE  CBTypeOK' /\ RingShape'
    OBVIOUS
  <2>1. CASE CBNext
    <3>1. PICK e \in NewEntry : aesd_circular_buffer_add_entry(e)
      BY <2>1 DEF CBNext
    <3>2. e \in [buffptr : Buffptr, size : Nat \ {0}]
      BY SizeAssumption DEF NewEntry
    <3>3. QED
      BY <3>1, <3>2, AddEntryInv
  <2>2. CASE UNCHANGED cbVars
    BY <2>2 DEF cbVars, CBTypeOK, RingShape, Occupied, Count, SlotAt
  <2>3. QED
    BY <2>1, <2>2
<1>2. QED
  BY CBInitInv, <1>1, PTL DEF CBSpec

-----------------------------------------------------------------------------
(* Implementation of the bounded queue. *)

LEMMA CountStep ==
    ASSUME CBTypeOK, RingShape, NEW e, aesd_circular_buffer_add_entry(e), CBTypeOK'
    PROVE  Count' = IF Count = MaxOps THEN MaxOps ELSE Count + 1
<1>1. /\ in_offs' = IF in_offs = MaxOps - 1 THEN 0 ELSE in_offs + 1
      /\ out_offs' = IF full THEN (IF out_offs = MaxOps - 1 THEN 0 ELSE out_offs + 1)
                             ELSE out_offs
      /\ full' <=> in_offs' = out_offs'
  BY ModSucc DEF aesd_circular_buffer_add_entry, CBTypeOK
<1>2. CASE full
  BY <1>1, <1>2, MaxOpsAssumption DEF Count, RingShape, CBTypeOK, Slots
<1>3. CASE ~full
  BY <1>1, <1>3, MaxOpsAssumption DEF Count, RingShape, CBTypeOK, Slots
<1>4. QED
  BY <1>2, <1>3

(* Append and Append after Tail, element by element. *)
LEMMA AppendElements ==
    ASSUME NEW S, NEW s \in Seq(S), NEW e \in S
    PROVE  Append(s, e) = [i \in 1 .. Len(s) + 1 |-> IF i = Len(s) + 1 THEN e ELSE s[i]]
<1>1. /\ Append(s, e) \in Seq(S)
      /\ Len(Append(s, e)) = Len(s) + 1
      /\ Append(s, e)[Len(s) + 1] = e
      /\ \A i \in 1 .. Len(s) : Append(s, e)[i] = s[i]
  BY AppendProperties
<1>2. Append(s, e) \in [1 .. Len(s) + 1 -> S]
  BY <1>1, LenProperties
<1>3. ASSUME NEW i \in 1 .. Len(s) + 1
      PROVE  Append(s, e)[i] = IF i = Len(s) + 1 THEN e ELSE s[i]
  <2>1. Len(s) \in Nat
    OBVIOUS
  <2>2. i = Len(s) + 1 \/ i \in 1 .. Len(s)
    BY <2>1
  <2>3. QED
    BY <1>1, <2>1, <2>2
<1>4. QED
  BY <1>2, <1>3

LEMMA ShiftElements ==
    ASSUME NEW S, NEW s \in Seq(S), NEW t \in Seq(S), NEW e \in S,
           Len(t) = Len(s) - 1,
           \A i \in 1 .. Len(t) : t[i] = s[i + 1]
    PROVE  Append(t, e) = [i \in 1 .. Len(s) |-> IF i = Len(s) THEN e ELSE s[i + 1]]
<1>1. Len(s) \in Nat /\ Len(t) + 1 = Len(s)
  OBVIOUS
<1>2. Append(t, e) = [i \in 1 .. Len(t) + 1 |-> IF i = Len(t) + 1 THEN e ELSE t[i]]
  BY AppendElements
<1>3. ASSUME NEW i \in 1 .. Len(s), i # Len(s)
      PROVE  t[i] = s[i + 1]
  <2>1. i \in 1 .. Len(t)
    BY <1>1, <1>3
  <2>2. QED
    BY <2>1
<1>4. QED
  BY <1>1, <1>2, <1>3

LEMMA TailAppendElements ==
    ASSUME NEW S, NEW s \in Seq(S), NEW e \in S, Len(s) # 0
    PROVE  Append(Tail(s), e) = [i \in 1 .. Len(s) |-> IF i = Len(s) THEN e ELSE s[i + 1]]
<1>1. s # << >>
  OBVIOUS
<1>2. /\ Tail(s) \in Seq(S)
      /\ Len(Tail(s)) = Len(s) - 1
      /\ \A i \in 1 .. Len(Tail(s)) : Tail(s)[i] = s[i + 1]
  BY <1>1, HeadTailProperties
<1>3. \A t \in Seq(S) :
         /\ Len(t) = Len(s) - 1
         /\ \A i \in 1 .. Len(t) : t[i] = s[i + 1]
         => Append(t, e) = [i \in 1 .. Len(s) |-> IF i = Len(s) THEN e ELSE s[i + 1]]
  BY ShiftElements
<1>4. QED
  BY <1>2, <1>3, Zenon

(* The entries held before and after aesd_circular_buffer_add_entry.       *)
LEMMA ContentsType ==
    ASSUME CBTypeOK
    PROVE  /\ Contents \in Seq(EntryType)
           /\ Len(Contents) = Count
           /\ \A i \in 1 .. Count : SlotAt(i - 1) \in Slots /\ Contents[i] = entry[SlotAt(i - 1)]
<1>1. Count \in 0 .. MaxOps
  BY CountType
<1>2. ASSUME NEW i \in 1 .. Count PROVE SlotAt(i - 1) \in Slots
  BY <1>1, MaxOpsAssumption DEF SlotAt, CBTypeOK, Slots
<1>3. Contents \in [1 .. Count -> EntryType]
  BY <1>2 DEF Contents, CBTypeOK
<1>4. QED
  BY <1>1, <1>2, <1>3 DEF Contents

LEMMA AddEntryContents ==
    ASSUME CBTypeOK, RingShape,
           NEW e \in [buffptr : Buffptr, size : Nat \ {0}],
           aesd_circular_buffer_add_entry(e)
    PROVE  Contents' = IF Count = MaxOps
                       THEN [i \in 1 .. MaxOps |-> IF i = MaxOps THEN e ELSE Contents[i + 1]]
                       ELSE [i \in 1 .. Count + 1 |-> IF i = Count + 1 THEN e ELSE Contents[i]]
<1>1. CBTypeOK' /\ RingShape'
  BY AddEntryInv
<1>2. Count \in 0 .. MaxOps
  BY CountType
<1>3. Count' = IF Count = MaxOps THEN MaxOps ELSE Count + 1
  BY <1>1, CountStep
<1>4. ASSUME NEW i \in 0 .. MaxOps
      PROVE  /\ SlotAt(i) = IF out_offs + i < MaxOps THEN out_offs + i
                                                     ELSE out_offs + i - MaxOps
             /\ SlotAt(i)' = IF out_offs' + i < MaxOps THEN out_offs' + i
                                                       ELSE out_offs' + i - MaxOps
  BY <1>1, ModPlus DEF SlotAt, CBTypeOK
<1>5. /\ entry' = [entry EXCEPT ![in_offs] = e]
      /\ out_offs' = IF full THEN (IF out_offs = MaxOps - 1 THEN 0 ELSE out_offs + 1)
                             ELSE out_offs
  BY ModSucc DEF aesd_circular_buffer_add_entry, CBTypeOK
<1>6. CASE Count = MaxOps
  <2>1. full /\ in_offs = out_offs
    BY <1>6, MaxOpsAssumption DEF Count, CBTypeOK, RingShape, Slots
  <2>2. ASSUME NEW i \in 1 .. MaxOps, i # MaxOps
        PROVE  SlotAt(i - 1)' = SlotAt(i) /\ SlotAt(i) \in Slots /\ SlotAt(i) # in_offs
    BY <1>4, <1>5, <2>1, <2>2, MaxOpsAssumption DEF CBTypeOK, Slots
  <2>3. SlotAt(MaxOps - 1)' = in_offs
    BY <1>4, <1>5, <2>1, MaxOpsAssumption DEF CBTypeOK, Slots
  <2>4. Contents' = [i \in 1 .. MaxOps |-> entry'[SlotAt(i - 1)']]
    BY <1>3, <1>6 DEF Contents
  <2>5. Contents = [i \in 1 .. MaxOps |-> entry[SlotAt(i - 1)]]
    BY <1>6 DEF Contents
  <2>6. ASSUME NEW i \in 1 .. MaxOps
        PROVE  entry'[SlotAt(i - 1)'] = IF i = MaxOps THEN e ELSE Contents[i + 1]
    <3>1. CASE i = MaxOps
      BY <3>1, <1>5, <2>3, MaxOpsAssumption DEF CBTypeOK
    <3>2. CASE i # MaxOps
      <4>1. entry'[SlotAt(i)] = entry[SlotAt(i)]
        BY <3>2, <1>5, <2>2 DEF CBTypeOK
      <4>2. Contents[i + 1] = entry[SlotAt(i)]
        BY <3>2, <2>5, MaxOpsAssumption
      <4>3. QED
        BY <3>2, <2>2, <4>1, <4>2
    <3>3. QED
      BY <3>1, <3>2
  <2>7. Contents' = [i \in 1 .. MaxOps |-> IF i = MaxOps THEN e ELSE Contents[i + 1]]
    BY <2>4, <2>6
  <2>8. QED
    BY <1>6, <2>7
<1>7. CASE Count # MaxOps
  <2>1. ~full
    BY <1>7, MaxOpsAssumption DEF Count, CBTypeOK, RingShape, Slots
  <2>2. ASSUME NEW i \in 1 .. Count
        PROVE  SlotAt(i - 1)' = SlotAt(i - 1) /\ SlotAt(i - 1) \in Slots /\ SlotAt(i - 1) # in_offs
    <3>1. i - 1 \in 0 .. MaxOps
      BY <1>2, MaxOpsAssumption
    <3>2. out_offs' = out_offs
      BY <1>5, <2>1
    <3>3. QED
      BY <1>4, <1>2, <2>1, <3>1, <3>2, MaxOpsAssumption DEF CBTypeOK, Slots, Count
  <2>3. ASSUME NEW n \in 0 .. MaxOps, n = Count
        PROVE  SlotAt(n)' = in_offs
    <3>1. out_offs' = out_offs
      BY <1>5, <2>1
    <3>2. QED
      BY <1>4, <2>1, <2>3, <3>1, MaxOpsAssumption DEF CBTypeOK, Slots, Count
  <2>4. Contents' = [i \in 1 .. Count + 1 |-> entry'[SlotAt(i - 1)']]
    BY <1>3, <1>7 DEF Contents
  <2>5. ASSUME NEW i \in 1 .. Count + 1
        PROVE  entry'[SlotAt(i - 1)'] = IF i = Count + 1 THEN e ELSE Contents[i]
    <3>1. CASE i = Count + 1
      <4>1. i - 1 = Count
        BY <3>1, <1>2
      <4>2. SlotAt(i - 1)' = in_offs
        BY <4>1, <1>2, <2>3
      <4>3. QED
        BY <3>1, <4>2, <1>5 DEF CBTypeOK
    <3>2. CASE i # Count + 1
      <4>1. i \in 1 .. Count
        BY <3>2, <1>2
      <4>2. entry'[SlotAt(i - 1)] = entry[SlotAt(i - 1)]
        BY <4>1, <1>5, <2>2 DEF CBTypeOK
      <4>3. Contents[i] = entry[SlotAt(i - 1)]
        BY <4>1 DEF Contents
      <4>4. QED
        BY <3>2, <4>1, <2>2, <4>2, <4>3
    <3>3. QED
      BY <3>1, <3>2
  <2>6. Contents' = [i \in 1 .. Count + 1 |-> IF i = Count + 1 THEN e ELSE Contents[i]]
    BY <2>4, <2>5
  <2>7. QED
    BY <1>7, <2>6
<1>8. QED
  BY <1>6, <1>7

(* One aesd_circular_buffer_add_entry is one Push of the bounded queue. *)
LEMMA AddEntryIsPush ==
    ASSUME CBTypeOK, RingShape,
           NEW e \in [buffptr : Buffptr, size : Nat \ {0}],
           aesd_circular_buffer_add_entry(e)
    PROVE  Fifo!Push(e)
<1>1. Count \in 0 .. MaxOps /\ Contents \in Seq(EntryType) /\ Len(Contents) = Count
  BY CountType, ContentsType
<1>2. e \in EntryType
  BY DEF EntryType
<1>3. CASE Count = MaxOps
  <2>1. Contents' = [i \in 1 .. MaxOps |-> IF i = MaxOps THEN e ELSE Contents[i + 1]]
    BY <1>3, AddEntryContents
  <2>2. Append(Tail(Contents), e)
          = [i \in 1 .. MaxOps |-> IF i = MaxOps THEN e ELSE Contents[i + 1]]
    <3>1. Append(Tail(Contents), e)
            = [i \in 1 .. Len(Contents) |-> IF i = Len(Contents) THEN e ELSE Contents[i + 1]]
      BY <1>1, <1>2, <1>3, MaxOpsAssumption, TailAppendElements
    <3>2. QED
      BY <1>1, <1>3, <3>1
  <2>3. QED
    BY <1>1, <1>3, <2>1, <2>2 DEF Fifo!Push
<1>4. CASE Count # MaxOps
  <2>1. Contents' = [i \in 1 .. Count + 1 |-> IF i = Count + 1 THEN e ELSE Contents[i]]
    BY <1>4, AddEntryContents
  <2>2. Append(Contents, e)
          = [i \in 1 .. Count + 1 |-> IF i = Count + 1 THEN e ELSE Contents[i]]
    BY <1>1, <1>2, AppendElements
  <2>3. QED
    BY <1>1, <1>4, <2>1, <2>2 DEF Fifo!Push
<1>5. QED
  BY <1>3, <1>4

(* KeepsLatest for every capacity: the circular buffer implements the      *)
(* bounded queue, so what aesd_circular_buffer_add_entry leaves behind is  *)
(* always the last MaxOps entries in the order they were added.            *)
THEOREM CBRefinesFifo == CBSpec => KeepsLatest
<1>1. aesd_circular_buffer_init => Fifo!FifoInit
  <2> SUFFICES ASSUME aesd_circular_buffer_init PROVE Contents = << >>
    BY DEF Fifo!FifoInit
  <2>1. Count = 0
    BY DEF aesd_circular_buffer_init, Count
  <2>2. QED
    BY <2>1 DEF Contents
<1>2. CBTypeOK /\ RingShape /\ [CBNext]_cbVars => [Fifo!FifoNext]_Contents
  <2> SUFFICES ASSUME CBTypeOK, RingShape, [CBNext]_cbVars
               PROVE  [Fifo!FifoNext]_Contents
    OBVIOUS
  <2>1. CASE CBNext
    BY <2>1, AddEntryIsPush, SizeAssumption DEF CBNext, NewEntry, Fifo!FifoNext
  <2>2. CASE UNCHANGED cbVars
    BY <2>2 DEF cbVars, Contents, Count, SlotAt
  <2>3. QED
    BY <2>1, <2>2
<1>3. QED
  BY <1>1, <1>2, CBShape, PTL DEF CBSpec, KeepsLatest, Fifo!FifoSpec

-----------------------------------------------------------------------------
(* What the search and the sums over the entries compute. *)

(* curr_char_offs is a number at the start of each iteration, and grows by *)
(* the size of the entry visited.                                          *)
LEMMA CharOffsValues ==
    ASSUME CBTypeOK
    PROVE  /\ CharOffs \in [Nat -> Nat]
           /\ CharOffs[0] = 0
           /\ \A i \in Nat : CharOffs[i + 1] = CharOffs[i] + entry[SlotAt(i)].size
<1> DEFINE size == [i \in Nat |-> entry[SlotAt(i)].size]
           Sum(f) == f = [i \in Nat |-> IF i = 0 THEN 0 ELSE f[i - 1] + entry[SlotAt(i - 1)].size]
<1>1. ASSUME NEW i \in Nat PROVE entry[SlotAt(i)].size \in Nat
  BY MaxOpsAssumption DEF CBTypeOK, SlotAt, Slots, EntryType
<1>2. size \in [Nat -> Nat] /\ \A i \in Nat : size[i] = entry[SlotAt(i)].size
  BY <1>1
<1> HIDE DEF size
<1>3. PICK f \in [Nat -> Nat] : IsSum(f, size, Nat)
  BY <1>2, SumExists
<1>4. Sum(f)
  <2>1. ASSUME NEW i \in Nat
        PROVE  f[i] = IF i = 0 THEN 0 ELSE f[i - 1] + entry[SlotAt(i - 1)].size
    <3>1. i # 0 => i - 1 \in Nat
      OBVIOUS
    <3> QED BY <1>2, <1>3, <3>1 DEF IsSum
  <2> QED BY <2>1
<1>5. CharOffs = CHOOSE g : Sum(g)
  BY Zenon DEF CharOffs
<1> HIDE DEF Sum
<1>6. Sum(CharOffs)
  BY <1>4, <1>5, Zenon
<1>7. CharOffs = [i \in Nat |-> IF i = 0 THEN 0 ELSE CharOffs[i - 1] + entry[SlotAt(i - 1)].size]
  BY <1>6 DEF Sum
<1>8. ASSUME NEW i \in Nat PROVE CharOffs[i + 1] = CharOffs[i] + entry[SlotAt(i)].size
  <2>1. i + 1 \in Nat /\ i + 1 # 0 /\ (i + 1) - 1 = i
    OBVIOUS
  <2> QED BY <1>7, <2>1
<1>9. CharOffs[0] = 0
  BY <1>7
<1>10. IsSum(CharOffs, size, Nat)
  <2>1. ASSUME NEW i \in Nat, i # 0 PROVE CharOffs[i] = CharOffs[i - 1] + size[i - 1]
    <3>1. i - 1 \in Nat
      BY <2>1
    <3> QED BY <1>2, <1>7, <2>1, <3>1
  <2> QED BY <1>9, <2>1 DEF IsSum
<1>11. \A i \in Nat : CharOffs[i] \in Nat
  BY <1>2, <1>10, SumTypeNat
<1> QED BY <1>7, <1>8, <1>9, <1>11

(* The same for the sum over AESD_CIRCULAR_BUFFER_FOREACH.                 *)
LEMMA ForeachSizeValues ==
    ASSUME CBTypeOK
    PROVE  /\ ForeachSize \in [0 .. MaxOps -> Nat]
           /\ ForeachSize[0] = 0
           /\ \A n \in Slots : ForeachSize[n + 1] = ForeachSize[n] + entry[n].size
<1> DEFINE size == [n \in 0 .. MaxOps - 1 |-> entry[n].size]
           Sum(f) == f = [n \in 0 .. MaxOps |-> IF n = 0 THEN 0 ELSE f[n - 1] + entry[n - 1].size]
<1>1. /\ size \in [0 .. MaxOps - 1 -> Nat] /\ MaxOps \in Nat
      /\ \A n \in 0 .. MaxOps - 1 : size[n] = entry[n].size
  BY MaxOpsAssumption DEF CBTypeOK, Slots, EntryType
<1> HIDE DEF size
<1>2. PICK f : f = [n \in 0 .. MaxOps |-> IF n = 0 THEN 0 ELSE f[n - 1] + size[n - 1]]
  BY <1>1, SumExistsUpTo
<1>3. Sum(f)
  <2>1. ASSUME NEW n \in 0 .. MaxOps
        PROVE  f[n] = IF n = 0 THEN 0 ELSE f[n - 1] + entry[n - 1].size
    <3>1. n # 0 => n - 1 \in 0 .. MaxOps - 1
      BY <1>1
    <3> QED BY <1>1, <1>2, <3>1
  <2> QED BY <1>2, <2>1
<1>4. ForeachSize = CHOOSE g : Sum(g)
  BY Zenon DEF ForeachSize
<1> HIDE DEF Sum
<1>5. Sum(ForeachSize)
  BY <1>3, <1>4, Zenon
<1>6. ForeachSize = [n \in 0 .. MaxOps |-> IF n = 0 THEN 0 ELSE ForeachSize[n - 1] + entry[n - 1].size]
  BY <1>5 DEF Sum
<1>7. ASSUME NEW n \in Slots PROVE ForeachSize[n + 1] = ForeachSize[n] + entry[n].size
  <2>1. n + 1 \in 0 .. MaxOps /\ n + 1 # 0 /\ (n + 1) - 1 = n
    BY <1>1 DEF Slots
  <2> QED BY <1>6, <2>1
<1>8. ForeachSize[0] = 0
  <2>1. 0 \in 0 .. MaxOps
    BY <1>1
  <2> QED BY <1>6, <2>1
<1>9. IsSum(ForeachSize, size, 0 .. MaxOps)
  <2>1. ASSUME NEW n \in 0 .. MaxOps, n # 0
        PROVE  ForeachSize[n] = ForeachSize[n - 1] + size[n - 1]
    <3>1. n - 1 \in 0 .. MaxOps - 1
      BY <1>1, <2>1
    <3> QED BY <1>1, <1>6, <2>1, <3>1
  <2> QED BY <1>8, <2>1 DEF IsSum
<1>10. \A n \in 0 .. MaxOps : ForeachSize[n] \in Nat
  BY <1>1, <1>9, SumType
<1> QED BY <1>6, <1>7, <1>8, <1>10

(* What the search returns: NULL when the position lies behind the last    *)
(* byte, and otherwise the slot whose bytes contain it, and the offset in  *)
(* them.                                                                   *)
LEMMA FindResult ==
    ASSUME CBTypeOK, NEW off \in Nat
    PROVE  LET hit == aesd_circular_buffer_find_entry_offset_for_fpos(off)
           IN  \/ /\ hit = NoEntry
                  /\ \A i \in 0 .. Count - 1 : CharOffs[i + 1] <= off
               \/ \E i \in 0 .. Count - 1 :
                     /\ CharOffs[i] <= off /\ off < CharOffs[i + 1]
                     /\ hit = [slot |-> SlotAt(i), offset |-> off - CharOffs[i]]
<1> DEFINE hits == {i \in 0 .. Count - 1 : CharOffs[i + 1] > off}
           first == CHOOSE i \in hits : \A j \in hits : i <= j
           hit == aesd_circular_buffer_find_entry_offset_for_fpos(off)
<1>1. Count \in Nat
  BY CountType, MaxOpsAssumption
<1>2. CharOffs \in [Nat -> Nat] /\ CharOffs[0] = 0
  BY CharOffsValues
<1>3. hit = IF hits = {} THEN NoEntry
            ELSE [slot |-> SlotAt(first), offset |-> off - CharOffs[first]]
  BY Zenon DEF aesd_circular_buffer_find_entry_offset_for_fpos
<1> HIDE DEF hit
<1>4. CASE hits = {}
  <2>1. ASSUME NEW i \in 0 .. Count - 1 PROVE CharOffs[i + 1] <= off
    <3>1. i + 1 \in Nat
      BY <1>1
    <3>2. ~(CharOffs[i + 1] > off)
      BY <1>4, Zenon
    <3> QED BY <1>2, <3>1, <3>2
  <2> QED BY <1>3, <1>4, <2>1 DEF hit
<1>5. CASE hits # {}
  <2>1. \E i \in hits : \A j \in hits : i <= j
    <3>1. hits \in SUBSET Nat
      BY <1>1
    <3> HIDE DEF hits
    <3> QED BY <1>5, <3>1, NatLeast
  <2>2. first \in hits /\ \A j \in hits : first <= j
    <3> HIDE DEF hits
    <3> QED BY <2>1, Zenon
  <2>3. first \in 0 .. Count - 1 /\ off < CharOffs[first + 1]
    <3> HIDE DEF first
    <3>1. first \in 0 .. Count - 1 /\ CharOffs[first + 1] > off /\ first + 1 \in Nat
      BY <2>2
    <3> QED BY <1>2, <3>1
  <2>4. CharOffs[first] <= off
    <3> HIDE DEF first
    <3>1. CASE first = 0
      BY <1>2, <3>1
    <3>2. CASE first # 0
      <4>1. first - 1 \in 0 .. Count - 1 /\ (first - 1) + 1 = first /\ ~(first <= first - 1)
        BY <1>1, <2>3, <3>2
      <4>2. ~(CharOffs[first] > off)
        BY <2>2, <4>1
      <4> QED BY <1>2, <2>3, <4>2
    <3> QED BY <3>1, <3>2
  <2> HIDE DEF first
  <2> QED BY <1>3, <1>5, <2>3, <2>4 DEF hit
<1> QED BY <1>4, <1>5

LEMMA SlotSize ==
    ASSUME CBTypeOK, NEW i \in Nat
    PROVE  SlotAt(i) \in Slots /\ entry[SlotAt(i)].size \in Nat
BY MaxOpsAssumption DEF CBTypeOK, SlotAt, Slots, EntryType

LEMMA CharOffsAt ==
    ASSUME CBTypeOK, NEW i \in Nat
    PROVE  /\ CharOffs[i] \in Nat /\ CharOffs[i + 1] \in Nat
           /\ CharOffs[i + 1] = CharOffs[i] + entry[SlotAt(i)].size
BY CharOffsValues

LEMMA CharOffsGrows ==
    ASSUME CBTypeOK, NEW i \in Nat, NEW j \in Nat, i <= j
    PROVE  CharOffs[i] <= CharOffs[j]
<1> DEFINE S == {k \in i .. j : CharOffs[i] <= CharOffs[k]}
<1>1. CharOffs \in [Nat -> Nat] /\ \A k \in Nat : CharOffs[k + 1] = CharOffs[k] + entry[SlotAt(k)].size
  BY CharOffsValues
<1>2. ASSUME NEW k \in Nat PROVE entry[SlotAt(k)].size \in Nat
  BY SlotSize
<1>3. i \in S
  BY <1>1
<1>4. ASSUME NEW k \in i .. j, k \in S, k + 1 <= j PROVE k + 1 \in S
  <2>1. k \in Nat /\ k + 1 \in i .. j /\ CharOffs[k + 1] = CharOffs[k] + entry[SlotAt(k)].size
    BY <1>1, <1>4
  <2> QED BY <1>1, <1>2, <1>4, <2>1
<1> HIDE DEF S
<1>5. i .. j \subseteq S
  BY <1>3, <1>4, UpToInduction
<1> QED BY <1>5 DEF S

(* The search is exact: every byte of every entry is found at the position *)
(* it has when the entries are put end to end, and behind the last byte    *)
(* there is nothing.                                                       *)
LEMMA FindExact ==
    ASSUME CBTypeOK
    PROVE  /\ \A i \in 0 .. Count - 1 : \A k \in 0 .. entry[SlotAt(i)].size - 1 :
                 aesd_circular_buffer_find_entry_offset_for_fpos(CharOffs[i] + k)
                   = [slot |-> SlotAt(i), offset |-> k]
           /\ \A off \in Nat : off >= CharOffs[Count] =>
                 aesd_circular_buffer_find_entry_offset_for_fpos(off) = NoEntry
<1>1. /\ CharOffs \in [Nat -> Nat]
      /\ \A i \in Nat : CharOffs[i + 1] = CharOffs[i] + entry[SlotAt(i)].size
  BY CharOffsValues
<1>2. Count \in Nat
  BY CountType, MaxOpsAssumption
<1>3. ASSUME NEW i \in 0 .. Count - 1, NEW k \in 0 .. entry[SlotAt(i)].size - 1
      PROVE  aesd_circular_buffer_find_entry_offset_for_fpos(CharOffs[i] + k)
               = [slot |-> SlotAt(i), offset |-> k]
  <2> DEFINE off == CharOffs[i] + k
             hit == aesd_circular_buffer_find_entry_offset_for_fpos(off)
  <2>1. i \in Nat /\ entry[SlotAt(i)].size \in Nat
    BY <1>2, SlotSize
  <2>2. off \in Nat /\ CharOffs[i] <= off /\ off < CharOffs[i + 1] /\ off - CharOffs[i] = k
    BY <1>1, <2>1
  <2>3. \/ /\ hit = NoEntry
           /\ \A j \in 0 .. Count - 1 : CharOffs[j + 1] <= off
        \/ \E j \in 0 .. Count - 1 :
              /\ CharOffs[j] <= off /\ off < CharOffs[j + 1]
              /\ hit = [slot |-> SlotAt(j), offset |-> off - CharOffs[j]]
    BY <2>2, FindResult
  <2> HIDE DEF hit, off
  <2>4. CharOffs[i + 1] \in Nat
    BY <1>1, <2>1
  <2>5. PICK j \in 0 .. Count - 1 :
              /\ CharOffs[j] <= off /\ off < CharOffs[j + 1]
              /\ hit = [slot |-> SlotAt(j), offset |-> off - CharOffs[j]]
    BY <2>2, <2>3, <2>4
  <2>6. j = i
    <3>1. j \in Nat /\ CharOffs[j] \in Nat /\ CharOffs[j + 1] \in Nat /\ CharOffs[i] \in Nat
      BY <1>1, <1>2, <2>1
    <3>2. CASE j < i
      <4>1. CharOffs[j + 1] <= CharOffs[i]
        BY <2>1, <3>1, <3>2, CharOffsGrows
      <4> QED BY <2>2, <2>5, <3>1, <4>1
    <3>3. CASE i < j
      <4>1. CharOffs[i + 1] <= CharOffs[j]
        BY <2>1, <3>1, <3>3, CharOffsGrows
      <4> QED BY <2>2, <2>4, <2>5, <3>1, <4>1
    <3> QED BY <2>1, <3>1, <3>2, <3>3
  <2> QED BY <2>2, <2>5, <2>6 DEF hit, off
<1>4. ASSUME NEW off \in Nat, off >= CharOffs[Count]
      PROVE  aesd_circular_buffer_find_entry_offset_for_fpos(off) = NoEntry
  <2> DEFINE hit == aesd_circular_buffer_find_entry_offset_for_fpos(off)
  <2>1. ASSUME NEW j \in 0 .. Count - 1 PROVE ~(off < CharOffs[j + 1])
    <3>1. j + 1 \in Nat /\ j + 1 <= Count
      BY <1>2
    <3>2. CharOffs[j + 1] <= CharOffs[Count]
      BY <1>2, <3>1, CharOffsGrows
    <3> QED BY <1>1, <1>2, <1>4, <3>1, <3>2
  <2>2. \/ /\ hit = NoEntry
           /\ \A j \in 0 .. Count - 1 : CharOffs[j + 1] <= off
        \/ \E j \in 0 .. Count - 1 :
              /\ CharOffs[j] <= off /\ off < CharOffs[j + 1]
              /\ hit = [slot |-> SlotAt(j), offset |-> off - CharOffs[j]]
    BY FindResult
  <2> HIDE DEF hit
  <2>3. hit = NoEntry
    BY <2>1, <2>2
  <2> QED BY <2>3 DEF hit
<1> QED BY <1>3, <1>4

(* Where the bytes of the entries are in Concatenation.                    *)
LEMMA ConcatenationBytes ==
    ASSUME CBTypeOK
    PROVE  /\ Len(Concatenation) = CharOffs[Count]
           /\ \A i \in 0 .. Count - 1 : \A k \in 0 .. entry[SlotAt(i)].size - 1 :
                 Concatenation[CharOffs[i] + k + 1] = [slot |-> SlotAt(i), offset |-> k]
<1> DEFINE Place == [slot : Slots, offset : Nat]
           bytes(i) == [k \in 1 .. Contents[i].size |-> [slot |-> SlotAt(i - 1), offset |-> k - 1]]
           seqs == [i \in 1 .. Count |-> bytes(i)]
<1>1. Count \in Nat
  BY CountType, MaxOpsAssumption
<1>2. \A i \in Nat : SlotAt(i) \in Slots /\ entry[SlotAt(i)].size \in Nat
  BY SlotSize
<1>3. ASSUME NEW i \in 1 .. Count
      PROVE  /\ i - 1 \in Nat
             /\ bytes(i) \in Seq(Place) /\ Len(bytes(i)) = entry[SlotAt(i - 1)].size
             /\ \A k \in 1 .. Len(bytes(i)) : bytes(i)[k] = [slot |-> SlotAt(i - 1), offset |-> k - 1]
  <2>1. i - 1 \in Nat /\ Contents[i].size = entry[SlotAt(i - 1)].size
    BY <1>1 DEF Contents
  <2>2. Contents[i].size \in Nat /\ SlotAt(i - 1) \in Slots
    BY <1>2, <2>1
  <2>3. ASSUME NEW k \in 1 .. Contents[i].size
        PROVE  [slot |-> SlotAt(i - 1), offset |-> k - 1] \in Place
    BY <2>2
  <2> HIDE DEF Place
  <2>4. bytes(i) \in [1 .. Contents[i].size -> Place]
    BY <2>3
  <2>5. bytes(i) \in Seq(Place) /\ Len(bytes(i)) = Contents[i].size
    <3> HIDE DEF bytes
    <3> QED BY <2>2, <2>4
  <2> QED BY <2>1, <2>5
<1> HIDE DEF Place, bytes
<1>4. seqs \in Seq(Seq(Place)) /\ Len(seqs) = Count /\ \A i \in 1 .. Count : seqs[i] = bytes(i)
  <2>1. seqs \in [1 .. Count -> Seq(Place)]
    BY <1>3
  <2> QED BY <1>1, <2>1
<1>5. Concatenation = FlattenSeq(seqs)
  BY Zenon DEF Concatenation, bytes
<1> HIDE DEF seqs
<1>6. /\ CharOffs[0] = 0
      /\ \A i \in 0 .. Len(seqs) : CharOffs[i] \in Nat
  BY <1>1, <1>4, CharOffsValues
<1>7. ASSUME NEW i \in 1 .. Len(seqs) PROVE CharOffs[i] = CharOffs[i - 1] + Len(seqs[i])
  <2>1. i - 1 \in Nat /\ (i - 1) + 1 = i /\ Len(seqs[i]) = entry[SlotAt(i - 1)].size
    BY <1>3, <1>4
  <2>2. CharOffs[(i - 1) + 1] = CharOffs[i - 1] + entry[SlotAt(i - 1)].size
    BY <2>1, CharOffsAt
  <2> QED BY <2>1, <2>2
<1>8. /\ Len(Concatenation) = CharOffs[Count]
      /\ \A i \in 1 .. Len(seqs) : \A k \in 1 .. Len(seqs[i]) :
            Concatenation[CharOffs[i - 1] + k] = seqs[i][k]
  <2> DEFINE offs == CharOffs
             T == Place
  <2>1. /\ seqs \in Seq(Seq(T)) /\ offs[0] = 0
        /\ \A i \in 0 .. Len(seqs) : offs[i] \in Nat
        /\ \A i \in 1 .. Len(seqs) : offs[i] = offs[i - 1] + Len(seqs[i])
    BY <1>4, <1>6, <1>7
  <2> HIDE DEF offs, T
  <2>2. /\ Len(FlattenSeq(seqs)) = offs[Len(seqs)]
        /\ \A i \in 1 .. Len(seqs) : \A k \in 1 .. Len(seqs[i]) :
              FlattenSeq(seqs)[offs[i - 1] + k] = seqs[i][k]
    BY <2>1, FlattenElements
  <2> QED BY <1>4, <1>5, <2>2 DEF offs
<1>9. ASSUME NEW i \in 0 .. Count - 1, NEW k \in 0 .. entry[SlotAt(i)].size - 1
      PROVE  Concatenation[CharOffs[i] + k + 1] = [slot |-> SlotAt(i), offset |-> k]
  <2>1. i \in Nat /\ i + 1 \in 1 .. Count /\ (i + 1) - 1 = i /\ entry[SlotAt(i)].size \in Nat
    BY <1>1, <1>2
  <2>2. seqs[i + 1] = bytes(i + 1) /\ Len(bytes(i + 1)) = entry[SlotAt(i)].size
    BY <1>3, <1>4, <2>1
  <2>3. k + 1 \in 1 .. Len(seqs[i + 1]) /\ (k + 1) - 1 = k
    BY <2>1, <2>2
  <2>4. Concatenation[CharOffs[i] + (k + 1)] = bytes(i + 1)[k + 1]
    BY <1>4, <1>8, <2>1, <2>2, <2>3
  <2>5. bytes(i + 1)[k + 1] = [slot |-> SlotAt(i), offset |-> k]
    BY <1>3, <2>1, <2>2, <2>3
  <2>6. CharOffs[i] \in Nat
    BY <2>1, CharOffsAt
  <2>7. CharOffs[i] + (k + 1) = CharOffs[i] + k + 1
    BY <2>3, <2>6
  <2> QED BY <2>4, <2>5, <2>7
<1> QED BY <1>8, <1>9

(* FindMatchesConcatenation for every capacity and every size of entry.    *)
LEMMA FindIsConcatenation == CBTypeOK => FindMatchesConcatenation
<1> SUFFICES ASSUME CBTypeOK, NEW off \in 0 .. Len(Concatenation) + 1
             PROVE  aesd_circular_buffer_find_entry_offset_for_fpos(off) =
                      IF off < Len(Concatenation) THEN Concatenation[off + 1] ELSE NoEntry
  BY Zenon DEF FindMatchesConcatenation
<1> DEFINE hit == aesd_circular_buffer_find_entry_offset_for_fpos(off)
<1>1. /\ CharOffs \in [Nat -> Nat] /\ CharOffs[0] = 0
      /\ \A i \in Nat : CharOffs[i + 1] = CharOffs[i] + entry[SlotAt(i)].size
  BY CharOffsValues
<1>2. Count \in Nat
  BY CountType, MaxOpsAssumption
<1>3. /\ Len(Concatenation) = CharOffs[Count] /\ CharOffs[Count] \in Nat /\ off \in Nat
      /\ \A i \in 0 .. Count - 1 : \A k \in 0 .. entry[SlotAt(i)].size - 1 :
            Concatenation[CharOffs[i] + k + 1] = [slot |-> SlotAt(i), offset |-> k]
  <2>1. Len(Concatenation) = CharOffs[Count] /\ CharOffs[Count] \in Nat
    BY <1>1, <1>2, ConcatenationBytes
  <2>2. off \in Nat
    BY <2>1
  <2> QED BY <2>1, <2>2, ConcatenationBytes, Zenon
<1>4. \/ /\ hit = NoEntry
         /\ \A i \in 0 .. Count - 1 : CharOffs[i + 1] <= off
      \/ \E i \in 0 .. Count - 1 :
            /\ CharOffs[i] <= off /\ off < CharOffs[i + 1]
            /\ hit = [slot |-> SlotAt(i), offset |-> off - CharOffs[i]]
  BY <1>3, FindResult
<1>5. CASE off < Len(Concatenation)
  <2> HIDE DEF hit
  <2>1. ~(\A i \in 0 .. Count - 1 : CharOffs[i + 1] <= off)
    <3>1. Count # 0
      BY <1>1, <1>3, <1>5
    <3>2. Count - 1 \in 0 .. Count - 1 /\ (Count - 1) + 1 = Count
      BY <1>2, <3>1
    <3>3. ~(CharOffs[Count] <= off)
      BY <1>3, <1>5
    <3> QED BY <3>2, <3>3
  <2>2. PICK i \in 0 .. Count - 1 :
            /\ CharOffs[i] <= off /\ off < CharOffs[i + 1]
            /\ hit = [slot |-> SlotAt(i), offset |-> off - CharOffs[i]]
    BY <1>4, <2>1
  <2>3. i \in Nat /\ CharOffs[i] \in Nat /\ CharOffs[i + 1] = CharOffs[i] + entry[SlotAt(i)].size
    <3>1. i \in Nat
      BY <1>2
    <3> QED BY <3>1, CharOffsAt
  <2>4. entry[SlotAt(i)].size \in Nat
    BY <2>3, SlotSize
  <2>5. /\ off - CharOffs[i] \in 0 .. entry[SlotAt(i)].size - 1
        /\ CharOffs[i] + (off - CharOffs[i]) + 1 = off + 1
    BY <1>3, <2>2, <2>3, <2>4
  <2>6. Concatenation[off + 1] = [slot |-> SlotAt(i), offset |-> off - CharOffs[i]]
    BY <1>3, <2>5
  <2> QED BY <1>5, <2>2, <2>6 DEF hit
<1>6. CASE ~(off < Len(Concatenation))
  <2>1. off >= CharOffs[Count]
    BY <1>3, <1>6
  <2> QED BY <1>3, <1>6, <2>1, FindExact
<1> QED BY <1>5, <1>6

(* The two ways to add up sizes.  From out_offs to the end of the array    *)
(* the search adds up what AESD_CIRCULAR_BUFFER_FOREACH does ...           *)
LEMMA RingSumToEnd ==
    ASSUME CBTypeOK
    PROVE  \A n \in 0 .. MaxOps - out_offs :
              CharOffs[n] + ForeachSize[out_offs] = ForeachSize[out_offs + n]
<1> DEFINE o == out_offs
           S == {n \in 0 .. MaxOps - o : CharOffs[n] + ForeachSize[o] = ForeachSize[o + n]}
<1>1. MaxOps \in Nat /\ o \in Slots /\ o \in Nat /\ MaxOps - o \in Nat /\ Slots = 0 .. MaxOps - 1
  BY MaxOpsAssumption DEF CBTypeOK, Slots
<1> HIDE DEF o
<1>2. /\ ForeachSize \in [0 .. MaxOps -> Nat]
      /\ \A n \in Slots : ForeachSize[n + 1] = ForeachSize[n] + entry[n].size
  BY ForeachSizeValues
<1>3. 0 \in S
  <2>1. o \in 0 .. MaxOps /\ o + 0 = o /\ 0 \in 0 .. MaxOps - o
    BY <1>1
  <2>2. CharOffs[0] = 0 /\ ForeachSize[o] \in Nat
    BY <1>2, <2>1, CharOffsValues
  <2> QED BY <2>1, <2>2
<1>4. ASSUME NEW n \in 0 .. MaxOps - o, n \in S, n + 1 <= MaxOps - o PROVE n + 1 \in S
  <2>1. /\ n \in Nat /\ n \in 0 .. MaxOps /\ o + n \in Slots /\ o + n < MaxOps
        /\ o + (n + 1) = (o + n) + 1 /\ o + n \in 0 .. MaxOps /\ o \in 0 .. MaxOps
        /\ n + 1 \in 0 .. MaxOps - o
    BY <1>1, <1>4
  <2>2. SlotAt(n) = o + n
    BY <1>1, <2>1, ModPlus DEF SlotAt, o
  <2>3. /\ CharOffs[n + 1] = CharOffs[n] + entry[o + n].size
        /\ CharOffs[n] \in Nat /\ entry[o + n].size \in Nat
    BY <2>1, <2>2, CharOffsAt, SlotSize
  <2>4. ForeachSize[(o + n) + 1] = ForeachSize[o + n] + entry[o + n].size
    BY <1>2, <2>1
  <2>5. ForeachSize[o] \in Nat /\ ForeachSize[o + n] \in Nat
    BY <1>2, <2>1
  <2>6. CharOffs[n] + ForeachSize[o] = ForeachSize[o + n]
    BY <1>4
  <2>7. CharOffs[n + 1] + ForeachSize[o] = ForeachSize[o + (n + 1)]
    BY <2>1, <2>3, <2>4, <2>5, <2>6
  <2> QED BY <2>1, <2>7
<1> HIDE DEF S
<1>5. 0 .. MaxOps - o \subseteq S
  BY <1>1, <1>3, <1>4, UpToInduction
<1> QED BY <1>5 DEF S, o

(* ... and from there on what it does from the start of the array, so that *)
(* once around the ring both have seen every slot.                         *)
LEMMA RingSumAll ==
    ASSUME CBTypeOK
    PROVE  CharOffs[MaxOps] = ForeachSize[MaxOps]
<1> DEFINE o == out_offs
           e == MaxOps - o
           S == {n \in e .. MaxOps : CharOffs[n] = CharOffs[e] + ForeachSize[n - e]}
<1>1. MaxOps \in Nat /\ o \in Slots /\ o \in Nat /\ e \in Nat /\ e <= MaxOps /\ MaxOps - e = o
      /\ Slots = 0 .. MaxOps - 1
  BY MaxOpsAssumption DEF CBTypeOK, Slots
<1>2. /\ ForeachSize \in [0 .. MaxOps -> Nat] /\ ForeachSize[0] = 0
      /\ \A n \in Slots : ForeachSize[n + 1] = ForeachSize[n] + entry[n].size
  BY ForeachSizeValues
<1>3. CharOffs[e] + ForeachSize[o] = ForeachSize[o + e] /\ o + e = MaxOps
  <2>1. e \in 0 .. MaxOps - out_offs
    BY <1>1
  <2> QED BY <1>1, <2>1, RingSumToEnd
<1> HIDE DEF o, e
<1>4. e \in S
  <2>1. e - e = 0 /\ CharOffs[e] \in Nat /\ e \in e .. MaxOps
    BY <1>1, CharOffsAt
  <2> QED BY <1>2, <2>1
<1>5. ASSUME NEW n \in e .. MaxOps, n \in S, n + 1 <= MaxOps PROVE n + 1 \in S
  <2>1. /\ n \in Nat /\ n \in 0 .. MaxOps /\ n - e \in Slots /\ (n + 1) - e = (n - e) + 1
        /\ n + 1 \in e .. MaxOps /\ n - e \in 0 .. MaxOps
    BY <1>1, <1>5
  <2>2. SlotAt(n) = n - e
    <3>1. SlotAt(n) = IF o + n < MaxOps THEN o + n ELSE o + n - MaxOps
      BY <1>1, <2>1, ModPlus DEF SlotAt, o
    <3>2. ~(o + n < MaxOps) /\ o + n - MaxOps = n - e
      BY <1>1, <1>5
    <3> QED BY <3>1, <3>2
  <2>3. /\ CharOffs[n + 1] = CharOffs[n] + entry[n - e].size
        /\ CharOffs[n] \in Nat /\ entry[n - e].size \in Nat /\ CharOffs[e] \in Nat
    BY <1>1, <2>1, <2>2, CharOffsAt, SlotSize
  <2>4. /\ ForeachSize[(n - e) + 1] = ForeachSize[n - e] + entry[n - e].size
        /\ ForeachSize[n - e] \in Nat
    BY <1>2, <2>1
  <2>5. CharOffs[n] = CharOffs[e] + ForeachSize[n - e]
    BY <1>5
  <2>6. CharOffs[n + 1] = CharOffs[e] + ForeachSize[(n + 1) - e]
    BY <2>1, <2>3, <2>4, <2>5
  <2> QED BY <2>1, <2>6
<1> HIDE DEF S
<1>6. e .. MaxOps \subseteq S
  BY <1>1, <1>4, <1>5, UpToInduction
<1>7. CharOffs[MaxOps] = CharOffs[e] + ForeachSize[o]
  <2>1. MaxOps \in S
    BY <1>1, <1>6
  <2> QED BY <1>1, <2>1 DEF S
<1> QED BY <1>3, <1>7

(* The slots the search does not visit are empty.                          *)
LEMMA BehindIsEmpty ==
    ASSUME CBTypeOK, RingShape, NEW n \in Count .. MaxOps - 1
    PROVE  entry[SlotAt(n)] = EmptyEntry
<1>1. MaxOps \in Nat /\ Count \in 0 .. MaxOps /\ out_offs \in Slots /\ n \in 0 .. MaxOps
  BY CountType, MaxOpsAssumption DEF CBTypeOK
<1>2. SlotAt(n) \in Slots
  BY <1>1, SlotSize
<1>3. ASSUME NEW i \in 0 .. Count - 1 PROVE SlotAt(i) # SlotAt(n)
  <2>1. i \in 0 .. MaxOps
    BY <1>1
  <2>2. /\ SlotAt(i) = IF out_offs + i < MaxOps THEN out_offs + i ELSE out_offs + i - MaxOps
        /\ SlotAt(n) = IF out_offs + n < MaxOps THEN out_offs + n ELSE out_offs + n - MaxOps
    BY <1>1, <2>1, ModPlus DEF SlotAt
  <2>3. i < n /\ n < MaxOps /\ out_offs \in Nat
    BY <1>1 DEF Slots
  <2> QED BY <1>1, <2>1, <2>2, <2>3
<1>4. SlotAt(n) \notin Occupied
  BY <1>3 DEF Occupied
<1> QED BY <1>2, <1>4 DEF RingShape

(* What aesd_llseek adds up is what the search and the readers see: the    *)
(* bytes of all entries.                                                   *)
LEMMA ForeachIsRing ==
    ASSUME CBTypeOK, RingShape
    PROVE  ForeachSize[MaxOps] = CharOffs[Count]
<1> DEFINE S == {n \in Count .. MaxOps : CharOffs[n] = CharOffs[Count]}
<1>1. MaxOps \in Nat /\ Count \in 0 .. MaxOps /\ Count \in Nat
  BY CountType, MaxOpsAssumption
<1>2. Count \in S
  BY <1>1
<1>3. ASSUME NEW n \in Count .. MaxOps, n \in S, n + 1 <= MaxOps PROVE n + 1 \in S
  <2>1. n \in Nat /\ n \in Count .. MaxOps - 1 /\ n + 1 \in Count .. MaxOps
    BY <1>1, <1>3
  <2>2. entry[SlotAt(n)].size = 0
    BY <2>1, BehindIsEmpty DEF EmptyEntry
  <2>3. CharOffs[n + 1] = CharOffs[n] + entry[SlotAt(n)].size /\ CharOffs[n] \in Nat
    BY <2>1, CharOffsAt
  <2>4. CharOffs[n] = CharOffs[Count]
    BY <1>3
  <2> QED BY <2>1, <2>2, <2>3, <2>4
<1> HIDE DEF S
<1>4. Count .. MaxOps \subseteq S
  BY <1>1, <1>2, <1>3, UpToInduction
<1>5. CharOffs[MaxOps] = CharOffs[Count]
  BY <1>1, <1>4 DEF S
<1> QED BY <1>5, RingSumAll

(* The types of the buffer on its own: both offsets stay inside the array. *)
THEOREM CBTypes == CBSpec => []CBTypeOK
BY CBShape, PTL

(* The search of the buffer on its own, for every capacity: however many   *)
(* entries have been added and overwritten, it returns the byte that lies  *)
(* at the position when the entries are put end to end, and NULL behind    *)
(* the last one.                                                           *)
THEOREM CBFindExact == CBSpec => []FindMatchesConcatenation
BY CBShape, FindIsConcatenation, PTL

=============================================================================
