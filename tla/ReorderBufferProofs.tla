------------------------ MODULE ReorderBufferProofs ------------------------
(***************************************************************************)
(* The reorder buffer, proved for every number of entries, of addresses    *)
(* and of values: its type invariant, and that it is a retirement queue.   *)
(***************************************************************************)
EXTENDS ReorderBuffer, CircularIndexProofs

LEMMA InitTypes == Init => TypeOK
  BY RobSizeAssumption, RobDomainAssumption
  DEF Init, TypeOK, RobSlot, RobEntry, RingIndices

LEMMA EntryKeepsTypes ==
  ASSUME TypeOK, NEW insn \in Dispatched, rob_Entry(insn)
  PROVE  TypeOK'
<1>. USE RobSizeAssumption
<1>1. rob_tail' \in 0 .. rob_SIZE - 1 /\ rob_head' \in 0 .. rob_SIZE - 1
  BY RingNext DEF rob_Entry, TypeOK, RingIndices
<1>2. rob[rob_tail'] \in RobEntry
  BY <1>1 DEF TypeOK, RobSlot
<1>3. [allocated |-> 0, opcode |-> insn.opcode, pc_value |-> insn.pc, rd |-> insn.rd,
       lsqindex |-> insn.lsqIndex, result |-> rob[rob_tail'].result] \in RobEntry
  BY <1>2 DEF Dispatched, RobEntry
<1>4. rob' \in [RobSlot -> RobEntry]
  BY <1>1, <1>3 DEF rob_Entry, TypeOK, RobSlot
<1>. QED BY <1>1, <1>4 DEF TypeOK, RingIndices

LEMMA UpdateKeepsTypes ==
  ASSUME TypeOK, NEW pc, NEW result \in Word, rob_update(pc, result)
  PROVE  TypeOK'
<1>1. \A e \in RobEntry : [e EXCEPT !.result = result, !.allocated = 1] \in RobEntry
  BY DEF RobEntry
<1>2. rob' \in [RobSlot -> RobEntry]
  BY <1>1 DEF rob_update, TypeOK
<1>. QED BY <1>2 DEF rob_update, TypeOK, RingIndices

LEMMA CommitmentKeepsTypes ==
  ASSUME TypeOK, rob_Commitment
  PROVE  TypeOK'
<1>1. rob_head = -1 \/ rob_head = rob_tail \/ (rob_head + 1) % rob_SIZE \in 0 .. rob_SIZE - 1
  BY RobSizeAssumption, RingNext DEF TypeOK, RingIndices
<1>. QED
  BY <1>1, RobSizeAssumption DEF rob_Commitment, rob_checkEmpty, TypeOK, RingIndices

(* The indices stay inside the array and are -1 together, and every slot   *)
(* holds an entry.                                                         *)
THEOREM TypeCorrect == Spec => []TypeOK
<1>1. TypeOK /\ [Next]_robVars => TypeOK'
  <2>. SUFFICES ASSUME TypeOK, [Next]_robVars PROVE TypeOK'
    OBVIOUS
  <2>1. CASE Enter
    BY <2>1, EntryKeepsTypes DEF Enter
  <2>2. CASE Report
    BY <2>2, UpdateKeepsTypes DEF Report
  <2>3. CASE Commit
    BY <2>3, CommitmentKeepsTypes DEF Commit
  <2>4. CASE UNCHANGED robVars
    BY <2>4 DEF robVars, TypeOK, RingIndices
  <2>. QED BY <2>1, <2>2, <2>3, <2>4 DEF Next
<1>. QED
  BY InitTypes, <1>1, PTL DEF Spec

----------------------------------------------------------------------------
(* The refinement *)

(* What a slot says of the instruction in it.                              *)
Seen(e) == [insn   |-> [opcode |-> e.opcode, pc |-> e.pc_value,
                        rd |-> e.rd, lsqIndex |-> e.lsqindex],
            result |-> IF e.allocated = 1 THEN e.result ELSE NoResult]

SlotOf(k) == RingSlot(rob_head, k, rob_SIZE)

(* The instructions in flight are as many as the indices say, each in a    *)
(* slot of its own.                                                        *)
InFlightShape ==
  /\ RobCount \in 0 .. rob_SIZE
  /\ InFlight \in Seq({Seen(e) : e \in RobEntry})
  /\ Len(InFlight) = RobCount
  /\ \A k \in 1 .. RobCount : /\ SlotOf(k) \in RobSlot \ {-1}
                              /\ SlotOf(k) \in RingSlots(rob_head, rob_tail, rob_SIZE)
                              /\ InFlight[k] = Seen(rob[SlotOf(k)])

LEMMA InFlightIsSeq == TypeOK => InFlightShape
<1>. SUFFICES ASSUME TypeOK PROVE InFlightShape
  OBVIOUS
<1>1. RobCount \in 0 .. rob_SIZE
  BY RingCountBounds, RobSizeAssumption DEF RobCount, TypeOK
<1>2. ASSUME NEW k \in 1 .. RobCount
      PROVE  /\ SlotOf(k) \in RobSlot \ {-1}
             /\ SlotOf(k) \in RingSlots(rob_head, rob_tail, rob_SIZE)
  BY RingSlotInUse, RobSizeAssumption DEF RobCount, TypeOK, SlotOf, RobSlot
<1>3. InFlight = [k \in 1 .. RobCount |-> Seen(rob[SlotOf(k)])]
  BY DEF InFlight, Seen, SlotOf
<1>4. InFlight \in [1 .. RobCount -> {Seen(e) : e \in RobEntry}]
  BY <1>2, <1>3 DEF TypeOK
<1>. QED BY <1>1, <1>2, <1>3, <1>4, SeqDef, LenProperties DEF InFlightShape

LEMMA InFlightIsSeqNext == TypeOK' => InFlightShape'
  BY InFlightIsSeq, PTL

LEMMA EntryEnters ==
  ASSUME TypeOK, TypeOK', NEW insn \in Dispatched, ~rob_checkFull, rob_Entry(insn)
  PROVE  Abstract!Enter
<1>. USE RobSizeAssumption
<1>. DEFINE new == [insn |-> insn, result |-> NoResult]
<1>1. RobCount \in 0 .. rob_SIZE - 1
  BY RingCountBounds DEF TypeOK, rob_checkFull, RobCount
<1>2. /\ rob_tail' \in RobSlot
      /\ RobCount' = RobCount + 1
      /\ rob_tail' \notin RingSlots(rob_head, rob_tail, rob_SIZE)
      /\ RingSlot(rob_head', RobCount + 1, rob_SIZE) = rob_tail'
      /\ \A k \in 1 .. RobCount : SlotOf(k)' = SlotOf(k)
  <2>1. /\ rob_head' = IF rob_head = -1 THEN 0 ELSE rob_head
        /\ rob_tail' = (rob_tail + 1) % rob_SIZE
    BY DEF rob_Entry
  <2>2. /\ RingIndices(rob_head, rob_tail, rob_SIZE)
        /\ RingCount(rob_head, rob_tail, rob_SIZE) < rob_SIZE
    BY <1>1 DEF TypeOK, RobCount
  <2>3. /\ rob_tail' \in 0 .. rob_SIZE - 1
        /\ RingCount(rob_head', rob_tail', rob_SIZE) = RingCount(rob_head, rob_tail, rob_SIZE) + 1
        /\ rob_tail' \notin RingSlots(rob_head, rob_tail, rob_SIZE)
        /\ RingSlot(rob_head', RingCount(rob_head, rob_tail, rob_SIZE) + 1, rob_SIZE) = rob_tail'
        /\ \A k \in 1 .. RingCount(rob_head, rob_tail, rob_SIZE) :
             RingSlot(rob_head', k, rob_SIZE) = RingSlot(rob_head, k, rob_SIZE)
    BY <2>1, <2>2, RingInsert
  <2>. QED
    BY <2>3 DEF RobCount, SlotOf, RobSlot
<1>3. /\ Len(InFlight) = RobCount
      /\ Len(InFlight') = RobCount + 1
      /\ \A k \in 1 .. RobCount + 1 : InFlight'[k] = Seen(rob'[SlotOf(k)'])
  BY <1>2, InFlightIsSeq, InFlightIsSeqNext DEF InFlightShape
<1>4. ASSUME NEW k \in 1 .. RobCount
      PROVE  InFlight'[k] = InFlight[k]
  <2>1. k \in 1 .. RobCount + 1
    BY <1>1
  <2>2. /\ SlotOf(k) \in RobSlot
        /\ SlotOf(k) # rob_tail'
        /\ InFlight[k] = Seen(rob[SlotOf(k)])
    BY <1>2, InFlightIsSeq DEF InFlightShape
  <2>3. rob'[SlotOf(k)] = rob[SlotOf(k)]
    BY <2>2 DEF rob_Entry, TypeOK
  <2>. QED BY <1>2, <1>3, <2>1, <2>2, <2>3
<1>5. InFlight'[RobCount + 1] = new
  <2>1. RobCount + 1 \in 1 .. RobCount + 1
    BY <1>1
  <2>2. InFlight'[RobCount + 1] = Seen(rob'[rob_tail'])
    BY <1>2, <1>3, <2>1 DEF SlotOf
  <2>3. rob'[rob_tail'] = [allocated |-> 0, opcode |-> insn.opcode, pc_value |-> insn.pc,
                           rd |-> insn.rd, lsqindex |-> insn.lsqIndex,
                           result |-> rob[rob_tail'].result]
    BY <1>2 DEF rob_Entry, TypeOK
  <2>. QED BY <2>2, <2>3 DEF Seen, Dispatched
<1>6. InFlight' = Append(InFlight, new)
  <2>. DEFINE S == {Seen(e) : e \in RobEntry}
  <2>1. InFlight \in Seq(S) /\ InFlight' \in Seq(S)
    BY InFlightIsSeq, InFlightIsSeqNext DEF InFlightShape
  <2>2. InFlight' \in [1 .. Len(InFlight) + 1 -> S]
    BY <1>3, <2>1, LenProperties
  <2>3. new \in S
    BY <1>1, <1>3, <1>5, <2>2
  <2>. HIDE DEF S, new
  <2>. QED BY <1>3, <1>4, <1>5, <2>1, <2>2, <2>3, AppendIs
<1>7. new \in [insn : Dispatched, result : {NoResult}]
  OBVIOUS
<1>. QED
  BY <1>1, <1>3, <1>5, <1>6, <1>7 DEF Abstract!Enter

LEMMA UpdateCompletes ==
  ASSUME TypeOK, TypeOK', NEW pc, NEW result \in Word, rob_update(pc, result)
  PROVE  Abstract!Complete
<1>1. /\ RobCount' = RobCount
      /\ \A k : SlotOf(k)' = SlotOf(k)
  BY DEF rob_update, RobCount, SlotOf
<1>2. Len(InFlight') = Len(InFlight) /\ Len(InFlight) = RobCount
  BY <1>1, InFlightIsSeq, InFlightIsSeqNext DEF InFlightShape
<1>3. ASSUME NEW k \in 1 .. RobCount, InFlight'[k] # InFlight[k]
      PROVE  /\ InFlight[k].insn.pc = pc
             /\ InFlight'[k].insn = InFlight[k].insn
             /\ InFlight'[k].result = result
  <2>. DEFINE e == rob[SlotOf(k)]
  <2>1. /\ SlotOf(k) \in RobSlot
        /\ InFlight[k] = Seen(e)
        /\ InFlight'[k] = Seen(rob'[SlotOf(k)])
    BY <1>1, InFlightIsSeq, InFlightIsSeqNext DEF InFlightShape
  <2>2. rob'[SlotOf(k)] = IF SlotOf(k) \in Scanned /\ e.pc_value = pc
                          THEN [e EXCEPT !.result = result, !.allocated = 1] ELSE e
    BY <2>1 DEF rob_update
  <2>3. e \in RobEntry
    BY <2>1 DEF TypeOK
  <2>4. e.pc_value = pc /\ rob'[SlotOf(k)] = [e EXCEPT !.result = result, !.allocated = 1]
    BY <1>3, <2>1, <2>2
  <2>. HIDE DEF e
  <2>. QED BY <2>1, <2>3, <2>4 DEF Seen, RobEntry
<1>. QED
  BY <1>2, <1>3 DEF Abstract!Complete

(* A report for one slot, as the memory stages of the processor make it.   *)
LEMMA SlotCompletes ==
  ASSUME TypeOK, TypeOK', NEW i \in RobSlot,
         rob' = [rob EXCEPT ![i] = rob'[i]], rob'[i].allocated = 1,
         rob'[i].opcode = rob[i].opcode, rob'[i].pc_value = rob[i].pc_value,
         rob'[i].rd = rob[i].rd, rob'[i].lsqindex = rob[i].lsqindex,
         UNCHANGED <<rob_head, rob_tail>>
  PROVE  Abstract!Complete
<1>1. /\ RobCount' = RobCount
      /\ \A k : SlotOf(k)' = SlotOf(k)
  BY DEF RobCount, SlotOf
<1>2. Len(InFlight') = Len(InFlight) /\ Len(InFlight) = RobCount
  BY <1>1, InFlightIsSeq, InFlightIsSeqNext DEF InFlightShape
<1>3. ASSUME NEW k \in 1 .. RobCount, InFlight'[k] # InFlight[k]
      PROVE  /\ InFlight[k].insn.pc = rob[i].pc_value
             /\ InFlight'[k].insn = InFlight[k].insn
             /\ InFlight'[k].result = rob'[i].result
  <2>1. /\ SlotOf(k) \in RobSlot
        /\ InFlight[k] = Seen(rob[SlotOf(k)])
        /\ InFlight'[k] = Seen(rob'[SlotOf(k)])
    BY <1>1, InFlightIsSeq, InFlightIsSeqNext DEF InFlightShape
  <2>2. SlotOf(k) = i
    <3>1. SlotOf(k) # i => rob'[SlotOf(k)] = rob[SlotOf(k)]
      BY <2>1 DEF TypeOK
    <3>. QED BY <1>3, <2>1, <3>1
  <2>. QED BY <2>1, <2>2 DEF Seen
<1>4. rob'[i].result \in Word
  BY DEF TypeOK, RobEntry
<1>. QED
  BY <1>2, <1>3, <1>4 DEF Abstract!Complete

LEMMA CommitmentRetires ==
  ASSUME TypeOK, TypeOK', rob[rob_head].allocated = 1, rob_Commitment
  PROVE  UNCHANGED InFlight \/ Abstract!Retire
<1>. USE RobSizeAssumption
<1>1. CASE rob_checkEmpty
  BY <1>1 DEF rob_Commitment, rob_checkEmpty, TypeOK, RingIndices, InFlight, RobCount
<1>2. CASE ~rob_checkEmpty
  <2>1. /\ rob_head # -1
        /\ rob_head' = IF rob_head = rob_tail THEN -1 ELSE (rob_head + 1) % rob_SIZE
        /\ rob_tail' = IF rob_head = rob_tail THEN -1 ELSE rob_tail
        /\ UNCHANGED rob
    BY <1>2 DEF rob_Commitment, rob_checkEmpty
  <2>2. /\ RobCount' = RobCount - 1
        /\ \A k \in 1 .. RobCount - 1 : SlotOf(k)' = SlotOf(k + 1)
    BY <2>1, RingRemove DEF RobCount, SlotOf, TypeOK
  <2>3. RobCount \in 1 .. rob_SIZE
    BY <2>1, RingCountBounds DEF RobCount, TypeOK
  <2>4. /\ InFlight \in Seq({Seen(e) : e \in RobEntry})
        /\ InFlight' \in Seq({Seen(e) : e \in RobEntry})
        /\ Len(InFlight) = RobCount
        /\ Len(InFlight') = RobCount - 1
    BY <2>2, InFlightIsSeq, InFlightIsSeqNext DEF InFlightShape
  <2>5. \A k \in 1 .. RobCount - 1 : InFlight'[k] = InFlight[k + 1]
    <3>1. ASSUME NEW k \in 1 .. RobCount - 1
          PROVE  InFlight'[k] = InFlight[k + 1]
      <4>1. k \in 1 .. RobCount' /\ k + 1 \in 1 .. RobCount
        BY <2>2, <2>3
      <4>2. InFlight'[k] = Seen(rob'[SlotOf(k)']) /\ InFlight[k + 1] = Seen(rob[SlotOf(k + 1)])
        BY <4>1, InFlightIsSeq, InFlightIsSeqNext DEF InFlightShape
      <4>. QED BY <2>1, <2>2, <4>2
    <3>. QED BY <3>1
  <2>6. InFlight # << >> /\ InFlight' = Tail(InFlight)
    BY <2>3, <2>4, <2>5
  <2>7. InFlight[1].result # NoResult
    <3>1. SlotOf(1) = rob_head /\ 1 \in 1 .. RobCount
      BY <2>1, <2>3, RingSlotIs DEF SlotOf, TypeOK, RingIndices
    <3>2. InFlight[1] = Seen(rob[rob_head]) /\ rob[rob_head] \in RobEntry
      BY <3>1, InFlightIsSeq DEF InFlightShape, TypeOK, RobSlot
    <3>. QED BY <3>2, RobDomainAssumption DEF Seen, RobEntry
  <2>. QED BY <2>6, <2>7 DEF Abstract!Retire
<1>. QED BY <1>1, <1>2

LEMMA StepRefines ==
  TypeOK /\ TypeOK' /\ [Next]_robVars => [Abstract!Next]_InFlight
<1>. SUFFICES ASSUME TypeOK, TypeOK', [Next]_robVars PROVE [Abstract!Next]_InFlight
  OBVIOUS
<1>1. CASE Enter
  BY <1>1, EntryEnters DEF Enter, Abstract!Next
<1>2. CASE Report
  BY <1>2, UpdateCompletes DEF Report, Abstract!Next
<1>3. CASE Commit
  BY <1>3, CommitmentRetires DEF Commit, Abstract!Next
<1>4. CASE UNCHANGED robVars
  BY <1>4 DEF robVars, InFlight, RobCount
<1>. QED BY <1>1, <1>2, <1>3, <1>4 DEF Next

(* For every size of the buffer: instructions leave in the order they      *)
(* entered, each with a result that was reported after it entered.         *)
THEOREM Refinement == Spec => ImplementsRetireQueue
<1>1. Init => Abstract!Empty
  <2>. SUFFICES ASSUME Init PROVE Abstract!Empty
    OBVIOUS
  <2>1. RobCount = 0
    BY DEF Init, RobCount, RingCount
  <2>. QED BY <2>1, InitTypes, InFlightIsSeq DEF InFlightShape, Abstract!Empty
<1>. QED
  BY <1>1, TypeCorrect, StepRefines, PTL DEF Spec, ImplementsRetireQueue, Abstract!Spec
=============================================================================
