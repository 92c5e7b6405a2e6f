------------------------ MODULE LoadStoreQueueProofs ------------------------
(***************************************************************************)
(* The load/store queue, proved for every number of entries, of registers  *)
(* and of values: its type invariant, and that it is a store queue.        *)
(***************************************************************************)
EXTENDS LoadStoreQueue, CircularIndexProofs

LEMMA InitTypes == Init => TypeOK
  BY LsqSizeAssumption, LsqDomainAssumption
  DEF Init, TypeOK, LsqSlot, LsqEntry, ClearEntry, RingIndices

LEMMA EntryKeepsTypes ==
  ASSUME TypeOK, NEW insn \in Dispatched, lsq_Entry(insn)
  PROVE  TypeOK'
<1>. USE LsqSizeAssumption
<1>1. lsq_tail' \in 0 .. lsq_SIZE - 1 /\ lsq_head' \in 0 .. lsq_SIZE - 1
  BY RingNext DEF lsq_Entry, TypeOK, RingIndices
<1>2. lsq[lsq_tail'] \in LsqEntry
  BY <1>1 DEF TypeOK, LsqSlot
<1>3. Occupied(lsq[lsq_tail'], insn) \in LsqEntry
  BY <1>2, LsqDomainAssumption DEF Dispatched, LsqEntry, Occupied
<1>4. lsq' \in [LsqSlot -> LsqEntry]
  BY <1>1, <1>3 DEF lsq_Entry, TypeOK, LsqSlot
<1>. QED BY <1>1, <1>4 DEF TypeOK, RingIndices

LEMMA UpdateKeepsTypes ==
  ASSUME TypeOK, NEW prd, NEW result \in Word, lsq_update(prd, result)
  PROVE  TypeOK'
<1>1. \A e \in LsqEntry : [e EXCEPT !.prs1_value = result, !.data_valid_Bit = 1] \in LsqEntry
  BY DEF LsqEntry
<1>2. lsq' \in [LsqSlot -> LsqEntry]
  BY <1>1 DEF lsq_update, TypeOK
<1>. QED BY <1>2 DEF lsq_update, TypeOK, RingIndices

LEMMA AddressKeepsTypes ==
  ASSUME TypeOK, NEW i \in 0 .. lsq_SIZE - 1, NEW address \in Word, AddressSet(i, address),
         UNCHANGED <<lsq_head, lsq_tail>>
  PROVE  TypeOK'
<1>1. i \in LsqSlot /\ lsq[i] \in LsqEntry
  BY LsqSizeAssumption DEF LsqSlot, TypeOK
<1>2. [lsq[i] EXCEPT !.mem_address = address, !.mem_address_vBit = 1] \in LsqEntry
  BY <1>1 DEF LsqEntry
<1>3. lsq' \in [LsqSlot -> LsqEntry]
  BY <1>1, <1>2 DEF AddressSet, TypeOK
<1>. QED BY <1>3 DEF TypeOK, RingIndices

(* What APEX_issue does to the indices: nothing, or a removal, or the      *)
(* removal from an empty queue that changes nothing.                       *)
Removal == LET after == lsq_to_mem(lsq_head, lsq_tail)
           IN  lsq_head' = after.head /\ lsq_tail' = after.tail

LEMMA RemovalIs ==
  ASSUME TypeOK, Removal
  PROVE  /\ RingIndices(lsq_head', lsq_tail', lsq_SIZE)
         /\ lsq_head = -1 => UNCHANGED <<lsq_head, lsq_tail>>
         /\ lsq_head # -1 =>
              /\ lsq_head' = IF lsq_head = lsq_tail THEN -1 ELSE (lsq_head + 1) % lsq_SIZE
              /\ lsq_tail' = IF lsq_head = lsq_tail THEN -1 ELSE lsq_tail
<1>1. lsq_head = -1 \/ lsq_head = lsq_tail \/ (lsq_head + 1) % lsq_SIZE \in 0 .. lsq_SIZE - 1
  BY LsqSizeAssumption, RingNext DEF TypeOK, RingIndices
<1>. QED BY <1>1, LsqSizeAssumption DEF Removal, lsq_to_mem, TypeOK, RingIndices

(* Marking the head changes only the field allocated.                      *)
LEMMA MarkedIs ==
  ASSUME TypeOK, NEW before, NEW head \in LsqSlot, lsq' = HeadMarked(head, before)
  PROVE  /\ lsq' \in [LsqSlot -> LsqEntry]
         /\ \A i \in LsqSlot : lsq'[i] = [lsq[i] EXCEPT !.allocated = lsq'[i].allocated]
<1>. DEFINE bit == IF (IF head = -1 THEN before ELSE lsq[head].mem_address_vBit) # 0
                   THEN 1 ELSE lsq[head].allocated
            marked == [lsq EXCEPT ![head].allocated = bit]
<1>1. lsq' = marked
  BY DEF HeadMarked
<1>2. bit \in {0, 1}
  BY DEF TypeOK, LsqEntry
<1>. HIDE DEF bit
<1>3. \A i \in LsqSlot : marked[i] = IF i = head THEN [lsq[i] EXCEPT !.allocated = bit] ELSE lsq[i]
  BY DEF TypeOK
<1>4. \A i \in LsqSlot : lsq[i] \in LsqEntry
  BY DEF TypeOK
<1>5. \A e \in LsqEntry : /\ [e EXCEPT !.allocated = bit] \in LsqEntry
                          /\ [e EXCEPT !.allocated = bit].allocated = bit
                          /\ e = [e EXCEPT !.allocated = e.allocated]
  BY <1>2 DEF LsqEntry
<1>6. marked = [i \in LsqSlot |-> IF i = head THEN [lsq[i] EXCEPT !.allocated = bit] ELSE lsq[i]]
  BY DEF TypeOK
<1>. HIDE DEF marked
<1>7. marked \in [LsqSlot -> LsqEntry]
  BY <1>4, <1>5, <1>6
<1>8. \A i \in LsqSlot : marked[i] = [lsq[i] EXCEPT !.allocated = marked[i].allocated]
  BY <1>3, <1>4, <1>5
<1>. QED BY <1>1, <1>7, <1>8

LEMMA IssueKeepsTypes == TypeOK /\ Issue => TypeOK'
<1>. SUFFICES ASSUME TypeOK, NEW before \in {0, 1},
                     UNCHANGED <<lsq_head, lsq_tail>> \/ Removal,
                     lsq' = HeadMarked(lsq_head', before)
              PROVE  TypeOK'
  BY DEF Issue, Removal
<1>1. RingIndices(lsq_head', lsq_tail', lsq_SIZE)
  BY RemovalIs DEF TypeOK, RingIndices
<1>2. lsq_head' \in LsqSlot
  BY <1>1 DEF RingIndices, LsqSlot
<1>3. lsq' \in [LsqSlot -> LsqEntry]
  BY <1>2, MarkedIs
<1>. QED BY <1>1, <1>3 DEF TypeOK

(* The indices stay inside the array and are -1 together, and every slot   *)
(* holds an entry.                                                         *)
THEOREM TypeCorrect == Spec => []TypeOK
<1>1. TypeOK /\ [Next]_lsqVars => TypeOK'
  <2>. SUFFICES ASSUME TypeOK, [Next]_lsqVars PROVE TypeOK'
    OBVIOUS
  <2>1. CASE Enter
    BY <2>1, EntryKeepsTypes DEF Enter
  <2>2. CASE Report
    BY <2>2, UpdateKeepsTypes DEF Report
  <2>3. CASE Address
    BY <2>3, AddressKeepsTypes DEF Address
  <2>4. CASE Issue
    BY <2>4, IssueKeepsTypes
  <2>5. CASE UNCHANGED lsqVars
    BY <2>5 DEF lsqVars, TypeOK, RingIndices
  <2>. QED BY <2>1, <2>2, <2>3, <2>4, <2>5 DEF Next
<1>. QED
  BY InitTypes, <1>1, PTL DEF Spec

----------------------------------------------------------------------------
(* The refinement *)

(* What a slot says of the instruction in it.                              *)
Seen(e) == [insn |-> [pc |-> e.pc_value, store |-> e.lsBit = 1,
                      reg |-> IF e.lsBit = 1 THEN e.prs1 ELSE 0],
            data |-> IF e.lsBit = 1 /\ e.data_valid_Bit = 1 THEN e.prs1_value ELSE NoData]

SlotOf(k) == RingSlot(lsq_head, k, lsq_SIZE)

(* The instructions that wait are as many as the indices say, each in a    *)
(* slot of its own.                                                        *)
WaitingShape ==
  /\ LsqCount \in 0 .. lsq_SIZE
  /\ Waiting = [k \in 1 .. LsqCount |-> Seen(lsq[SlotOf(k)])]
  /\ Waiting \in Seq({Seen(e) : e \in LsqEntry})
  /\ Len(Waiting) = LsqCount
  /\ \A k \in 1 .. LsqCount : /\ SlotOf(k) \in LsqSlot \ {-1}
                              /\ SlotOf(k) \in RingSlots(lsq_head, lsq_tail, lsq_SIZE)
                              /\ Waiting[k] = Seen(lsq[SlotOf(k)])

LEMMA WaitingIsSeq == TypeOK => WaitingShape
<1>. SUFFICES ASSUME TypeOK PROVE WaitingShape
  OBVIOUS
<1>1. LsqCount \in 0 .. lsq_SIZE
  BY RingCountBounds, LsqSizeAssumption DEF LsqCount, TypeOK
<1>2. ASSUME NEW k \in 1 .. LsqCount
      PROVE  /\ SlotOf(k) \in LsqSlot \ {-1}
             /\ SlotOf(k) \in RingSlots(lsq_head, lsq_tail, lsq_SIZE)
  BY RingSlotInUse, LsqSizeAssumption DEF LsqCount, TypeOK, SlotOf, LsqSlot
<1>3. Waiting = [k \in 1 .. LsqCount |-> Seen(lsq[SlotOf(k)])]
  BY DEF Waiting, Seen, SlotOf
<1>4. Waiting \in [1 .. LsqCount -> {Seen(e) : e \in LsqEntry}]
  BY <1>2, <1>3 DEF TypeOK
<1>. QED BY <1>1, <1>2, <1>3, <1>4, SeqDef, LenProperties DEF WaitingShape

LEMMA WaitingIsSeqNext == TypeOK' => WaitingShape'
  BY WaitingIsSeq, PTL

LEMMA EntryEnters ==
  ASSUME TypeOK, TypeOK', NEW insn \in Dispatched, ~lsq_checkFull, lsq_Entry(insn)
  PROVE  Abstract!Next
<1>. USE LsqSizeAssumption
<1>. DEFINE what == [pc |-> insn.pc, store |-> insn.opcode = "STORE",
                     reg |-> IF insn.opcode = "STORE" THEN insn.prs1 ELSE 0]
            data == IF insn.opcode = "STORE" /\ insn.prs1_valid = 1 THEN insn.rs1_value ELSE NoData
            new  == [insn |-> what, data |-> data]
<1>1. LsqCount \in 0 .. lsq_SIZE - 1
  BY RingCountBounds DEF TypeOK, lsq_checkFull, LsqCount
<1>2. /\ lsq_tail' \in LsqSlot
      /\ LsqCount' = LsqCount + 1
      /\ lsq_tail' \notin RingSlots(lsq_head, lsq_tail, lsq_SIZE)
      /\ RingSlot(lsq_head', LsqCount + 1, lsq_SIZE) = lsq_tail'
      /\ \A k \in 1 .. LsqCount : SlotOf(k)' = SlotOf(k)
  <2>1. /\ lsq_head' = IF lsq_head = -1 THEN 0 ELSE lsq_head
        /\ lsq_tail' = (lsq_tail + 1) % lsq_SIZE
    BY DEF lsq_Entry
  <2>2. /\ RingIndices(lsq_head, lsq_tail, lsq_SIZE)
        /\ RingCount(lsq_head, lsq_tail, lsq_SIZE) < lsq_SIZE
    BY <1>1 DEF TypeOK, LsqCount
  <2>3. /\ lsq_tail' \in 0 .. lsq_SIZE - 1
        /\ RingCount(lsq_head', lsq_tail', lsq_SIZE) = RingCount(lsq_head, lsq_tail, lsq_SIZE) + 1
        /\ lsq_tail' \notin RingSlots(lsq_head, lsq_tail, lsq_SIZE)
        /\ RingSlot(lsq_head', RingCount(lsq_head, lsq_tail, lsq_SIZE) + 1, lsq_SIZE) = lsq_tail'
        /\ \A k \in 1 .. RingCount(lsq_head, lsq_tail, lsq_SIZE) :
             RingSlot(lsq_head', k, lsq_SIZE) = RingSlot(lsq_head, k, lsq_SIZE)
    BY <2>1, <2>2, RingInsert
  <2>. QED
    BY <2>3 DEF LsqCount, SlotOf, LsqSlot
<1>3. /\ Len(Waiting) = LsqCount
      /\ Len(Waiting') = LsqCount + 1
      /\ \A k \in 1 .. LsqCount + 1 : Waiting'[k] = Seen(lsq'[SlotOf(k)'])
  BY <1>2, WaitingIsSeq, WaitingIsSeqNext DEF WaitingShape
<1>4. ASSUME NEW k \in 1 .. LsqCount
      PROVE  Waiting'[k] = Waiting[k]
  <2>1. k \in 1 .. LsqCount + 1
    BY <1>1
  <2>2. /\ SlotOf(k) \in LsqSlot
        /\ SlotOf(k) # lsq_tail'
        /\ Waiting[k] = Seen(lsq[SlotOf(k)])
    BY <1>2, WaitingIsSeq DEF WaitingShape
  <2>3. lsq'[SlotOf(k)] = lsq[SlotOf(k)]
    BY <2>2 DEF lsq_Entry, TypeOK
  <2>. QED BY <1>2, <1>3, <2>1, <2>2, <2>3
<1>5. Waiting'[LsqCount + 1] = new
  <2>1. LsqCount + 1 \in 1 .. LsqCount + 1
    BY <1>1
  <2>2. Waiting'[LsqCount + 1] = Seen(lsq'[lsq_tail'])
    BY <1>2, <1>3, <2>1 DEF SlotOf
  <2>3. lsq'[lsq_tail'] = Occupied(lsq[lsq_tail'], insn) /\ lsq[lsq_tail'] \in LsqEntry
    BY <1>2 DEF lsq_Entry, TypeOK
  <2>4. \A e \in LsqEntry : Seen(Occupied(e, insn)) = new
    BY DEF Seen, Dispatched, LsqEntry, Occupied
  <2>. QED BY <2>2, <2>3, <2>4
<1>6. Waiting' = Append(Waiting, new)
  <2>. DEFINE S == {Seen(e) : e \in LsqEntry}
  <2>1. Waiting \in Seq(S) /\ Waiting' \in Seq(S)
    BY WaitingIsSeq, WaitingIsSeqNext DEF WaitingShape
  <2>2. Waiting' \in [1 .. Len(Waiting) + 1 -> S]
    BY <1>3, <2>1, LenProperties
  <2>3. new \in S
    BY <1>1, <1>3, <1>5, <2>2
  <2>. HIDE DEF S, new
  <2>. QED BY <1>3, <1>4, <1>5, <2>1, <2>2, <2>3, AppendIs
<1>7. /\ what \in [pc : InsnPc, store : BOOLEAN, reg : PregTag]
      /\ data \in Word \cup {NoData}
      /\ ~what.store => data = NoData
  BY LsqDomainAssumption DEF Dispatched
<1>8. Abstract!Enter(what, data)
  BY <1>1, <1>3, <1>6, <1>7 DEF Abstract!Enter
<1>. QED
  BY <1>7, <1>8 DEF Abstract!Next

LEMMA UpdateReports ==
  ASSUME TypeOK, TypeOK', NEW prd \in PregTag, NEW result \in Word, lsq_update(prd, result)
  PROVE  Abstract!Next
<1>1. /\ LsqCount' = LsqCount
      /\ \A k : SlotOf(k)' = SlotOf(k)
  BY DEF lsq_update, LsqCount, SlotOf
<1>2. /\ Waiting' = [k \in 1 .. LsqCount |-> Seen(lsq'[SlotOf(k)])]
      /\ Len(Waiting) = LsqCount
  BY <1>1, WaitingIsSeq, WaitingIsSeqNext DEF WaitingShape
<1>3. ASSUME NEW k \in 1 .. LsqCount
      PROVE  Seen(lsq'[SlotOf(k)]) =
               IF Waiting[k].insn.store /\ Waiting[k].insn.reg = prd
               THEN [Waiting[k] EXCEPT !.data = result] ELSE Waiting[k]
  <2>. DEFINE e == lsq[SlotOf(k)]
  <2>1. /\ SlotOf(k) \in LsqSlot
        /\ SlotOf(k) \in RingSlots(lsq_head, lsq_tail, lsq_SIZE)
        /\ Waiting[k] = Seen(e)
    BY WaitingIsSeq DEF WaitingShape
  <2>2. lsq'[SlotOf(k)] = IF e.prs1 = prd
                          THEN [e EXCEPT !.prs1_value = result, !.data_valid_Bit = 1] ELSE e
    BY <2>1 DEF lsq_update
  <2>3. e \in LsqEntry
    BY <2>1 DEF TypeOK
  <2>. HIDE DEF e
  <2>4. CASE e.prs1 = prd
    <3>1. lsq'[SlotOf(k)] = [e EXCEPT !.prs1_value = result, !.data_valid_Bit = 1]
      BY <2>2, <2>4
    <3>2. Seen(lsq'[SlotOf(k)]) = IF e.lsBit = 1 THEN [Seen(e) EXCEPT !.data = result] ELSE Seen(e)
      BY <2>3, <3>1 DEF Seen, LsqEntry
    <3>3. Seen(e).insn.store = (e.lsBit = 1) /\ (e.lsBit = 1 => Seen(e).insn.reg = prd)
      BY <2>4 DEF Seen
    <3>. QED BY <2>1, <3>2, <3>3
  <2>5. CASE e.prs1 # prd
    <3>1. Seen(e).insn.store = (e.lsBit = 1) /\ (e.lsBit = 1 => Seen(e).insn.reg = e.prs1)
      BY DEF Seen
    <3>. QED BY <2>1, <2>2, <2>5, <3>1
  <2>. QED BY <2>4, <2>5
<1>4. Abstract!Report(prd, result)
  BY <1>2, <1>3 DEF Abstract!Report
<1>5. prd \in {insn.reg : insn \in [pc : InsnPc, store : BOOLEAN, reg : PregTag]}
  <2>1. PICK p \in InsnPc : TRUE
    BY LsqDomainAssumption
  <2>2. [pc |-> p, store |-> TRUE, reg |-> prd] \in [pc : InsnPc, store : BOOLEAN, reg : PregTag]
    BY <2>1
  <2>3. [pc |-> p, store |-> TRUE, reg |-> prd].reg = prd
    OBVIOUS
  <2>. QED BY <2>2, <2>3
<1>. QED BY <1>4, <1>5 DEF Abstract!Next

LEMMA AddressDoesNotShow ==
  ASSUME TypeOK, NEW i \in 0 .. lsq_SIZE - 1, NEW address, AddressSet(i, address),
         UNCHANGED <<lsq_head, lsq_tail>>
  PROVE  UNCHANGED Waiting
<1>1. ASSUME NEW j \in LsqSlot PROVE Seen(lsq'[j]) = Seen(lsq[j])
  <2>1. lsq[j] \in LsqEntry
    BY DEF TypeOK
  <2>2. \/ lsq'[j] = lsq[j]
        \/ lsq'[j] = [lsq[j] EXCEPT !.mem_address = address, !.mem_address_vBit = 1]
    BY DEF AddressSet, TypeOK
  <2>. QED BY <2>1, <2>2 DEF Seen, LsqEntry
<1>2. LsqCount' = LsqCount /\ \A k : SlotOf(k)' = SlotOf(k)
  BY DEF LsqCount, SlotOf
<1>3. Waiting' = [k \in 1 .. LsqCount |-> Seen(lsq'[SlotOf(k)])]
  BY <1>2 DEF Waiting, Seen, SlotOf
<1>. QED BY <1>1, <1>3, WaitingIsSeq DEF WaitingShape

LEMMA IssueLeaves ==
  ASSUME TypeOK, TypeOK', Issue
  PROVE  UNCHANGED Waiting \/ Abstract!Leave
<1>. USE LsqSizeAssumption
<1>1. ASSUME NEW j \in LsqSlot PROVE Seen(lsq'[j]) = Seen(lsq[j])
  <2>1. PICK before \in {0, 1} : lsq' = HeadMarked(lsq_head', before)
    BY DEF Issue
  <2>2. lsq_head' \in LsqSlot
    BY DEF TypeOK, RingIndices, LsqSlot
  <2>3. lsq'[j] = [lsq[j] EXCEPT !.allocated = lsq'[j].allocated]
    BY <2>1, <2>2, MarkedIs
  <2>4. lsq[j] \in LsqEntry
    BY DEF TypeOK
  <2>. QED BY <2>3, <2>4 DEF Seen, LsqEntry
<1>2. CASE UNCHANGED <<lsq_head, lsq_tail>>
  <2>1. LsqCount' = LsqCount /\ \A k : SlotOf(k)' = SlotOf(k)
    BY <1>2 DEF LsqCount, SlotOf
  <2>2. Waiting' = [k \in 1 .. LsqCount |-> Seen(lsq'[SlotOf(k)])]
    BY <2>1, WaitingIsSeqNext DEF WaitingShape
  <2>. QED BY <1>1, <2>2, WaitingIsSeq DEF WaitingShape
<1>3. CASE lsq_head # -1 /\ Removal /\ (LoadReady \/ StoreReady)
  <2>1. /\ lsq_head' = IF lsq_head = lsq_tail THEN -1 ELSE (lsq_head + 1) % lsq_SIZE
        /\ lsq_tail' = IF lsq_head = lsq_tail THEN -1 ELSE lsq_tail
    BY <1>3, RemovalIs
  <2>2. /\ LsqCount' = LsqCount - 1
        /\ \A k \in 1 .. LsqCount - 1 : SlotOf(k)' = SlotOf(k + 1)
    BY <1>3, <2>1, RingRemove DEF LsqCount, SlotOf, TypeOK
  <2>3. LsqCount \in 1 .. lsq_SIZE
    BY <1>3, RingCountBounds DEF LsqCount, TypeOK
  <2>4. /\ Waiting \in Seq({Seen(e) : e \in LsqEntry})
        /\ Waiting' \in Seq({Seen(e) : e \in LsqEntry})
        /\ Len(Waiting) = LsqCount
        /\ Len(Waiting') = LsqCount - 1
    BY <2>2, WaitingIsSeq, WaitingIsSeqNext DEF WaitingShape
  <2>5. ASSUME NEW k \in 1 .. LsqCount - 1
        PROVE  Waiting'[k] = Waiting[k + 1]
    <3>1. k \in 1 .. LsqCount' /\ k + 1 \in 1 .. LsqCount
      BY <2>2, <2>3
    <3>2. /\ Waiting'[k] = Seen(lsq'[SlotOf(k)'])
          /\ Waiting[k + 1] = Seen(lsq[SlotOf(k + 1)])
          /\ SlotOf(k + 1) \in LsqSlot
      BY <3>1, WaitingIsSeq, WaitingIsSeqNext DEF WaitingShape
    <3>. QED BY <1>1, <2>2, <3>2
  <2>6. Waiting # << >> /\ Waiting' = Tail(Waiting)
    BY <2>3, <2>4, <2>5
  <2>7. Waiting[1].insn.store => Waiting[1].data # NoData
    <3>1. SlotOf(1) = lsq_head /\ 1 \in 1 .. LsqCount
      BY <1>3, <2>3, RingSlotIs DEF SlotOf, TypeOK, RingIndices
    <3>. DEFINE e == lsq[lsq_head]
    <3>2. Waiting[1] = Seen(e) /\ e \in LsqEntry
      BY <3>1, WaitingIsSeq DEF WaitingShape, TypeOK, LsqSlot
    <3>3. e.lsBit = 0 \/ (e.lsBit = 1 /\ e.data_valid_Bit = 1)
      BY <1>3 DEF LoadReady, StoreReady
    <3>. HIDE DEF e
    <3>4. CASE e.lsBit = 0
      <4>1. e.lsBit # 1
        BY <3>4
      <4>2. ~Seen(e).insn.store
        BY <4>1 DEF Seen
      <4>. QED BY <3>2, <4>2
    <3>5. CASE e.lsBit = 1 /\ e.data_valid_Bit = 1
      <4>1. Seen(e).data = e.prs1_value
        BY <3>5 DEF Seen
      <4>2. e.prs1_value \in Word
        BY <3>2 DEF LsqEntry
      <4>3. e.prs1_value # NoData
        BY <4>2, LsqDomainAssumption
      <4>. QED BY <3>2, <4>1, <4>3
    <3>. QED BY <3>3, <3>4, <3>5
  <2>. QED BY <2>6, <2>7 DEF Abstract!Leave
<1>. QED BY <1>2, <1>3, RemovalIs DEF Issue, Removal

LEMMA StepRefines ==
  TypeOK /\ TypeOK' /\ [Next]_lsqVars => [Abstract!Next]_Waiting
<1>. SUFFICES ASSUME TypeOK, TypeOK', [Next]_lsqVars PROVE [Abstract!Next]_Waiting
  OBVIOUS
<1>1. CASE Enter
  BY <1>1, EntryEnters DEF Enter
<1>2. CASE Report
  BY <1>2, UpdateReports DEF Report
<1>3. CASE Address
  BY <1>3, AddressDoesNotShow DEF Address
<1>4. CASE Issue
  BY <1>4, IssueLeaves DEF Abstract!Next
<1>5. CASE UNCHANGED lsqVars
  BY <1>5 DEF lsqVars, Waiting, LsqCount
<1>. QED BY <1>1, <1>2, <1>3, <1>4, <1>5 DEF Next

(* For every size of the queue: loads and stores leave in program order,   *)
(* and a store with the last value its register was given, whatever its    *)
(* slot held before.                                                       *)
THEOREM Refinement == Spec => ImplementsStoreQueue
<1>1. Init => Abstract!Empty
  <2>. SUFFICES ASSUME Init PROVE Abstract!Empty
    OBVIOUS
  <2>1. LsqCount = 0
    BY DEF Init, LsqCount, RingCount
  <2>. QED BY <2>1, InitTypes, WaitingIsSeq DEF WaitingShape, Abstract!Empty
<1>. QED
  BY <1>1, TypeCorrect, StepRefines, PTL DEF Spec, ImplementsStoreQueue, Abstract!Spec
=============================================================================
