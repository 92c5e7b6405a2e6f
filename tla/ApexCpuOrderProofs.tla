------------------------- MODULE ApexCpuOrderProofs -------------------------
(***************************************************************************)
(* Program order, proved for every program without branches, every size of *)
(* the queues and of the register files, and every memory layout: the      *)
(* reorder buffer holds instructions in program order and retires them in  *)
(* it; loads and stores start in it, stores when they are the oldest, and  *)
(* none of them is lost, as long as SlotsFresh holds; every instruction    *)
(* retires, and once, as long as NothingSkipped holds.                     *)
(*                                                                         *)
(* The argument is over two views of the state, RobView and LsqView: what  *)
(* the two queues hold, oldest first, without where they hold it.          *)
(***************************************************************************)
EXTENDS ApexCpuProofs

----------------------------------------------------------------------------
(* The two queues, oldest first *)

(* What program order needs to know of the instructions in the rob and in  *)
(* the lsq: where each comes from, and what links the two queues.          *)
RobPlace(k) == RingSlot(rob_head, k, rob_SIZE)
RobRow(e) == [pc |-> e.pc_value, opcode |-> e.opcode, index |-> e.lsqindex,
              done |-> e.allocated]
RobView == [k \in 1 .. RobCount |-> RobRow(rob[RobPlace(k)])]

LsqCount == RingCount(lsq_head, lsq_tail, lsq_SIZE)
LsqPlace(j) == RingSlot(lsq_head, j, lsq_SIZE)
LsqRow(e, i) == [slot |-> i, pc |-> e.pc_value, store |-> e.lsBit]
LsqView == [j \in 1 .. LsqCount |-> LsqRow(lsq[LsqPlace(j)], LsqPlace(j))]

RobRows == [pc : InsnPc \cup {0, -1}, opcode : Opcode, index : -1 .. lsq_SIZE - 1, done : {0, 1}]
LsqRows == [slot : 0 .. lsq_SIZE - 1, pc : InsnPc \cup {0}, store : {0, 1}]

ViewsFit ==
  /\ RobCount \in Nat /\ (RobCount = 0 <=> rob_head = -1)
  /\ RobView \in [1 .. RobCount -> RobRows]
  /\ \A k \in 1 .. RobCount : RobPlace(k) \in 0 .. rob_SIZE - 1
  /\ RobCount # 0 => RobPlace(1) = rob_head /\ RobPlace(RobCount) = rob_tail
  /\ LsqCount \in Nat /\ (LsqCount = 0 <=> lsq_head = -1)
  /\ LsqView \in [1 .. LsqCount -> LsqRows]
  /\ \A j \in 1 .. LsqCount : LsqPlace(j) \in 0 .. lsq_SIZE - 1
  /\ LsqCount # 0 => LsqPlace(1) = lsq_head /\ LsqPlace(LsqCount) = lsq_tail

(* The types make the views what they should be.                           *)
LEMMA ViewsHaveTypes == TypeInv => ViewsFit
<1>. SUFFICES ASSUME TypeInv PROVE ViewsFit
  OBVIOUS
<1>1. /\ RingIndices(rob_head, rob_tail, rob_SIZE) /\ RingIndices(lsq_head, lsq_tail, lsq_SIZE)
      /\ rob_SIZE \in Nat \ {0} /\ lsq_SIZE \in Nat \ {0}
  BY SizesAssumption DEF TypeInv, RoomInv, RobIndices, LsqTypes
<1>2. /\ RobCount \in 0 .. rob_SIZE /\ (RobCount = 0 <=> rob_head = -1)
      /\ \A k \in 1 .. RobCount : RobPlace(k) \in 0 .. rob_SIZE - 1
      /\ RobCount # 0 => RobPlace(1) = rob_head /\ RobPlace(RobCount) = rob_tail
  <2>1. RobCount \in 0 .. rob_SIZE /\ (RobCount = 0 <=> rob_head = -1)
    BY <1>1, RingCountBounds DEF RobCount
  <2>2. \A k \in 1 .. RobCount : RobPlace(k) \in 0 .. rob_SIZE - 1
    BY <1>1, RingSlotInUse DEF RobCount, RobPlace
  <2>3. RobCount # 0 => RobPlace(1) = rob_head /\ RobPlace(RobCount) = rob_tail
    BY <1>1, <2>1, RingPlaces DEF RobCount, RobPlace
  <2>. QED BY <2>1, <2>2, <2>3
<1>3. /\ LsqCount \in 0 .. lsq_SIZE /\ (LsqCount = 0 <=> lsq_head = -1)
      /\ \A j \in 1 .. LsqCount : LsqPlace(j) \in 0 .. lsq_SIZE - 1
      /\ LsqCount # 0 => LsqPlace(1) = lsq_head /\ LsqPlace(LsqCount) = lsq_tail
  BY <1>1, RingCountBounds, RingSlotInUse, RingPlaces DEF LsqCount, LsqPlace
<1>4. ASSUME NEW e \in ROB!RobEntry PROVE RobRow(e) \in RobRows
  BY DEF ROB!RobEntry, RobRow, RobRows
<1>5. ASSUME NEW e \in LSQ!LsqEntry, NEW i \in 0 .. lsq_SIZE - 1 PROVE LsqRow(e, i) \in LsqRows
  BY DEF LSQ!LsqEntry, LsqRow, LsqRows
<1>6. /\ \A i \in 0 .. rob_SIZE - 1 : rob[i] \in ROB!RobEntry
      /\ \A i \in 0 .. lsq_SIZE - 1 : lsq[i] \in LSQ!LsqEntry
  BY <1>1 DEF TypeInv, RobTypes, LsqTypes, ROB!RobSlot, LSQ!LsqSlot
<1>7. RobView \in [1 .. RobCount -> RobRows]
  BY <1>2, <1>4, <1>6 DEF RobView
<1>8. LsqView \in [1 .. LsqCount -> LsqRows]
  BY <1>3, <1>5, <1>6 DEF LsqView
<1>. QED BY <1>2, <1>3, <1>7, <1>8 DEF ViewsFit

(* The same after a step.                                                  *)
LEMMA ViewsHaveTypesNext == TypeInv' => ViewsFit'
  BY ViewsHaveTypes, PTL

(* What a step does to the two views.                                      *)
RobSame == RobCount' = RobCount /\ RobView' = RobView
LsqSame == LsqCount' = LsqCount /\ LsqView' = LsqView

(* A step that leaves the rob alone leaves its view alone.                 *)
LEMMA RobUnchanged == ASSUME UNCHANGED robVars PROVE RobSame
  BY DEF robVars, RobSame, RobView, RobCount, RobPlace

(* A step that leaves the lsq alone leaves its view alone.                 *)
LEMMA LsqUnchanged == ASSUME UNCHANGED lsqVars PROVE LsqSame
  BY DEF lsqVars, LsqSame, LsqView, LsqCount, LsqPlace

(* rob_Entry puts the instruction behind the others.                       *)
LEMMA RobEntered ==
  ASSUME TypeInv, NEW insn, ROB!rob_Entry(insn), ~ROB!rob_checkFull
  PROVE  /\ RobCount' = RobCount + 1
         /\ RobView' = [k \in 1 .. RobCount + 1 |->
                          IF k = RobCount + 1
                          THEN [pc |-> insn.pc, opcode |-> insn.opcode, index |-> insn.lsqIndex,
                                done |-> 0]
                          ELSE RobView[k]]
         /\ rob'[-1] = rob[-1]
<1>1. /\ RingIndices(rob_head, rob_tail, rob_SIZE) /\ rob_SIZE \in Nat \ {0}
      /\ rob \in [ROB!RobSlot -> ROB!RobEntry]
  BY SizesAssumption DEF TypeInv, RoomInv, RobIndices, RobTypes
<1>2. RobCount < rob_SIZE
  BY <1>1, RingCountBounds DEF RobCount, ROB!rob_checkFull
<1>3. PICK t : t = rob_tail'
  OBVIOUS
<1>4. /\ rob_head' = IF rob_head = -1 THEN 0 ELSE rob_head
      /\ t = (rob_tail + 1) % rob_SIZE
  BY <1>3 DEF ROB!rob_Entry
<1>5. /\ t \in 0 .. rob_SIZE - 1 /\ RobCount' = RobCount + 1
      /\ RingSlot(rob_head', RobCount + 1, rob_SIZE) = t
      /\ \A k \in 1 .. RobCount : RingSlot(rob_head', k, rob_SIZE) = RobPlace(k)
      /\ t \notin RingSlots(rob_head, rob_tail, rob_SIZE)
  BY <1>1, <1>2, <1>3, <1>4, RingInsert DEF RobCount, RobPlace
<1>6. \A k \in 1 .. RobCount : RobPlace(k) # t /\ RobPlace(k) \in ROB!RobSlot
  BY <1>1, <1>5, RingSlotInUse DEF RobCount, RobPlace, ROB!RobSlot
<1>7. PICK e : /\ e = [allocated |-> 0, opcode |-> insn.opcode, pc_value |-> insn.pc,
                       rd |-> insn.rd, lsqindex |-> insn.lsqIndex, result |-> rob[t].result]
               /\ rob' = [rob EXCEPT ![t] = e]
  BY <1>1, <1>3, <1>5 DEF ROB!rob_Entry, ROB!RobSlot
<1>8. RobRow(e) = [pc |-> insn.pc, opcode |-> insn.opcode, index |-> insn.lsqIndex, done |-> 0]
  BY <1>7 DEF RobRow
<1>9. t \in ROB!RobSlot /\ -1 # t
  BY <1>1, <1>5 DEF ROB!RobSlot
<1>10. /\ rob'[t] = e /\ rob'[-1] = rob[-1]
       /\ \A k \in 1 .. RobCount : rob'[RobPlace(k)] = rob[RobPlace(k)]
  BY <1>1, <1>6, <1>7, <1>9
<1>11. RobCount \in Nat
  BY ViewsHaveTypes DEF ViewsFit
<1>12. RobView' = [k \in 1 .. RobCount' |-> RobRow(rob'[RingSlot(rob_head', k, rob_SIZE)])]
  BY DEF RobView, RobPlace, RobRow
<1>13. \A k \in 1 .. RobCount' :
         RobRow(rob'[RingSlot(rob_head', k, rob_SIZE)])
           = IF k = RobCount + 1
                          THEN [pc |-> insn.pc, opcode |-> insn.opcode, index |-> insn.lsqIndex,
                                done |-> 0]
                          ELSE RobView[k]
  BY <1>5, <1>8, <1>10, <1>11 DEF RobView
<1>. QED BY <1>5, <1>10, <1>12, <1>13

(* rob_Commitment removes the oldest.                                      *)
LEMMA RobCommitted ==
  ASSUME TypeInv, ROB!rob_Commitment
  PROVE  /\ RobCount = 0 => RobSame
         /\ RobCount # 0 => /\ RobCount' = RobCount - 1
                            /\ RobView' = [k \in 1 .. RobCount - 1 |-> RobView[k + 1]]
         /\ rob' = rob
<1>1. /\ RingIndices(rob_head, rob_tail, rob_SIZE) /\ rob_SIZE \in Nat \ {0}
      /\ ViewsFit
  BY SizesAssumption, ViewsHaveTypes DEF TypeInv, RoomInv, RobIndices
<1>2. rob' = rob
  BY DEF ROB!rob_Commitment
<1>3. CASE RobCount = 0
  <2>1. UNCHANGED robVars
    BY <1>1, <1>2, <1>3 DEF ViewsFit, ROB!rob_Commitment, ROB!rob_checkEmpty, robVars, RingIndices
  <2>. QED BY <1>2, <1>3, <2>1, RobUnchanged
<1>4. CASE RobCount # 0
  <2>1. rob_head # -1
    BY <1>1, <1>4 DEF ViewsFit
  <2>2. /\ rob_head' = IF rob_head = rob_tail THEN -1 ELSE (rob_head + 1) % rob_SIZE
        /\ rob_tail' = IF rob_head = rob_tail THEN -1 ELSE rob_tail
    BY <2>1 DEF ROB!rob_Commitment, ROB!rob_checkEmpty
  <2>3. /\ RobCount' = RobCount - 1
        /\ \A k \in 1 .. RobCount - 1 : RingSlot(rob_head', k, rob_SIZE) = RobPlace(k + 1)
    BY <1>1, <2>1, <2>2, RingRemove DEF RobCount, RobPlace
  <2>4. RobCount \in Nat
    BY <1>1 DEF ViewsFit
  <2>5. RobView' = [k \in 1 .. RobCount' |-> RobRow(rob'[RingSlot(rob_head', k, rob_SIZE)])]
    BY DEF RobView, RobPlace, RobRow
  <2>6. \A k \in 1 .. RobCount - 1 : RobRow(rob'[RingSlot(rob_head', k, rob_SIZE)]) = RobView[k + 1]
    BY <1>2, <2>3, <2>4 DEF RobView
  <2>. QED BY <1>2, <1>4, <2>3, <2>5, <2>6
<1>. QED BY <1>2, <1>3, <1>4

(* rob_update marks what was fetched from p; with an empty rob it may mark *)
(* the slot in front.                                                      *)
LEMMA RobUpdated ==
  ASSUME TypeInv, NEW p, NEW result, ROB!rob_update(p, result)
  PROVE  /\ RobCount' = RobCount
         /\ RobView' = [k \in 1 .. RobCount |-> IF RobView[k].pc = p
                                                THEN [RobView[k] EXCEPT !.done = 1] ELSE RobView[k]]
         /\ rob'[-1].opcode = rob[-1].opcode /\ rob'[-1].pc_value = rob[-1].pc_value
<1>1. /\ RingIndices(rob_head, rob_tail, rob_SIZE) /\ rob_SIZE \in Nat \ {0}
      /\ rob \in [ROB!RobSlot -> ROB!RobEntry] /\ ViewsFit
  BY SizesAssumption, ViewsHaveTypes DEF TypeInv, RoomInv, RobIndices, RobTypes
<1>2. /\ rob_head' = rob_head /\ rob_tail' = rob_tail
      /\ rob' = [i \in ROB!RobSlot |->
                   IF i \in ROB!Scanned /\ rob[i].pc_value = p
                   THEN [rob[i] EXCEPT !.result = result, !.allocated = 1]
                   ELSE rob[i]]
  BY DEF ROB!rob_update
<1>3. RobCount' = RobCount
  BY <1>2 DEF RobCount
<1>4. -1 \in ROB!RobSlot
  BY <1>1 DEF ROB!RobSlot
<1>5. rob'[-1].opcode = rob[-1].opcode /\ rob'[-1].pc_value = rob[-1].pc_value
  BY <1>1, <1>2, <1>4 DEF ROB!RobEntry
<1>6. ASSUME NEW k \in 1 .. RobCount
      PROVE  RobRow(rob'[RobPlace(k)]) = IF RobView[k].pc = p
                                         THEN [RobView[k] EXCEPT !.done = 1] ELSE RobView[k]
  <2>1. RobPlace(k) \in RingSlots(rob_head, rob_tail, rob_SIZE)
        /\ RobPlace(k) \in 0 .. rob_SIZE - 1
    BY <1>1, RingSlotInUse DEF RobCount, RobPlace
  <2>2. RobPlace(k) \in ROB!Scanned /\ RobPlace(k) \in ROB!RobSlot
    BY <1>1, <2>1 DEF ROB!Scanned, ROB!rob_checkEmpty, RingSlots, ROB!RingSlots, ROB!RobSlot
  <2>3. PICK e : e = rob[RobPlace(k)]
    OBVIOUS
  <2>4. e \in ROB!RobEntry
    BY <1>1, <2>2, <2>3
  <2>5. RobView[k] = RobRow(e) /\ RobView[k].pc = e.pc_value
    BY <2>3 DEF RobView, RobRow
  <2>6. rob'[RobPlace(k)] = IF e.pc_value = p THEN [e EXCEPT !.result = result, !.allocated = 1]
                            ELSE e
    BY <1>2, <2>2, <2>3
  <2>7. RobRow([e EXCEPT !.result = result, !.allocated = 1]) = [RobRow(e) EXCEPT !.done = 1]
    BY <2>4 DEF RobRow, ROB!RobEntry
  <2>. QED BY <2>5, <2>6, <2>7
<1>7. RobView' = [k \in 1 .. RobCount' |-> RobRow(rob'[RingSlot(rob_head', k, rob_SIZE)])]
  BY DEF RobView, RobPlace, RobRow
<1>. QED BY <1>2, <1>3, <1>5, <1>6, <1>7 DEF RobPlace

(* memoryForward marks one of them.                                        *)
LEMMA RobMarked ==
  ASSUME TypeInv, NEW k \in 1 .. RobCount, NEW result,
         \/ rob' = [rob EXCEPT ![RobPlace(k)].allocated = 1]
         \/ rob' = [rob EXCEPT ![RobPlace(k)].allocated = 1, ![RobPlace(k)].result = result],
         UNCHANGED <<rob_head, rob_tail>>
  PROVE  /\ RobCount' = RobCount
         /\ RobView' = [j \in 1 .. RobCount |-> IF j = k THEN [RobView[j] EXCEPT !.done = 1]
                                                ELSE RobView[j]]
         /\ rob'[-1] = rob[-1]
<1>1. /\ RingIndices(rob_head, rob_tail, rob_SIZE) /\ rob_SIZE \in Nat \ {0}
      /\ rob \in [ROB!RobSlot -> ROB!RobEntry] /\ ViewsFit
  BY SizesAssumption, ViewsHaveTypes DEF TypeInv, RoomInv, RobIndices, RobTypes
<1>2. RobCount' = RobCount
  BY DEF RobCount
<1>3. PICK i : i = RobPlace(k)
  OBVIOUS
<1>4. i \in 0 .. rob_SIZE - 1 /\ i \in ROB!RobSlot
  BY <1>1, <1>3 DEF ViewsFit, ROB!RobSlot
<1>5. PICK e : e = rob[i]
  OBVIOUS
<1>6. e \in ROB!RobEntry
  BY <1>1, <1>4, <1>5
<1>7. PICK f : /\ \/ f = [e EXCEPT !.allocated = 1]
                  \/ f = [e EXCEPT !.allocated = 1, !.result = result]
               /\ rob' = [rob EXCEPT ![i] = f]
  BY <1>1, <1>3, <1>4, <1>5
<1>8. RobRow(f) = [RobRow(e) EXCEPT !.done = 1]
  <2>1. /\ f.allocated = 1 /\ f.pc_value = e.pc_value /\ f.opcode = e.opcode
        /\ f.lsqindex = e.lsqindex
    BY <1>6, <1>7 DEF ROB!RobEntry
  <2>. QED BY <2>1 DEF RobRow
<1>9. rob'[-1] = rob[-1]
  BY <1>1, <1>4, <1>7
<1>10. ASSUME NEW j \in 1 .. RobCount
       PROVE  RobRow(rob'[RobPlace(j)]) = IF j = k THEN [RobView[j] EXCEPT !.done = 1]
                                          ELSE RobView[j]
  <2>1. RobPlace(j) \in ROB!RobSlot /\ (RobPlace(j) = i => j = k)
    BY <1>1, <1>3, RingPlaces DEF ViewsFit, ROB!RobSlot, RobPlace, RobCount
  <2>2. rob'[RobPlace(j)] = IF j = k THEN f ELSE rob[RobPlace(j)]
    BY <1>1, <1>3, <1>4, <1>7, <2>1
  <2>3. RobView[j] = RobRow(rob[RobPlace(j)])
    BY DEF RobView
  <2>. QED BY <1>3, <1>5, <1>8, <2>2, <2>3
<1>11. RobView' = [j \in 1 .. RobCount' |-> RobRow(rob'[RingSlot(rob_head', j, rob_SIZE)])]
  BY DEF RobView, RobPlace, RobRow
<1>. QED BY <1>2, <1>9, <1>10, <1>11 DEF RobPlace

(* The pcs in the rob are all different, and the search for one finds it.  *)
Distinct == \A j, k \in 1 .. RobCount : RobView[j].pc = RobView[k].pc => j = k

(* The loops of APEX_issue and memoryForward over the rob stop at the      *)
(* instruction they look for.                                              *)
LEMMA SearchFinds ==
  ASSUME TypeInv, Distinct, NEW k \in 1 .. RobCount
  PROVE  ROB!SearchStop(RobView[k].pc) = RobPlace(k)
<1>1. ViewsFit
  BY ViewsHaveTypes
<1>2. PICK p : p = RobView[k].pc
  OBVIOUS
<1>3. PICK hits : hits = {j \in 1 .. ROB!RobCount - 1 :
                            rob[ROB!RingSlot(rob_head, j, rob_SIZE)].pc_value = p}
  OBVIOUS
<1>4. ROB!RobCount = RobCount /\ \A j : ROB!RingSlot(rob_head, j, rob_SIZE) = RobPlace(j)
  BY DEF ROB!RobCount, ROB!RingCount, RobCount, RingCount, ROB!RingSlot, RobPlace, RingSlot
<1>5. \A j \in 1 .. RobCount : RobView[j].pc = rob[RobPlace(j)].pc_value
  BY DEF RobView, RobRow
<1>6. RobCount \in Nat /\ k \in 1 .. RobCount
  BY <1>1 DEF ViewsFit
<1>7. hits = IF k = RobCount THEN {} ELSE {k}
  BY <1>2, <1>3, <1>4, <1>5, <1>6 DEF Distinct
<1>8. CASE k = RobCount
  <2>1. ROB!SearchStop(p) = rob_tail
    BY <1>3, <1>7, <1>8 DEF ROB!SearchStop
  <2>. QED BY <1>1, <1>2, <1>6, <1>8, <2>1 DEF ViewsFit
<1>9. CASE k # RobCount
  <2>1. PICK c : c = CHOOSE i \in hits : \A j \in hits : i <= j
    OBVIOUS
  <2>2. c = k
    BY <1>6, <1>7, <1>9, <2>1
  <2>3. ROB!SearchStop(p) = ROB!RingSlot(rob_head, c, rob_SIZE)
    BY <1>3, <1>7, <1>9, <2>1 DEF ROB!SearchStop
  <2>. QED BY <1>2, <1>4, <2>2, <2>3
<1>. QED BY <1>8, <1>9

(* Looking for what is not in the rob they stop at the youngest.           *)
LEMMA SearchMisses ==
  ASSUME NEW p, \A k \in 1 .. RobCount : RobView[k].pc # p, RobCount \in Nat
  PROVE  ROB!SearchStop(p) = rob_tail
<1>1. PICK hits : hits = {j \in 1 .. ROB!RobCount - 1 :
                            rob[ROB!RingSlot(rob_head, j, rob_SIZE)].pc_value = p}
  OBVIOUS
<1>2. ROB!RobCount = RobCount /\ \A j : ROB!RingSlot(rob_head, j, rob_SIZE) = RobPlace(j)
  BY DEF ROB!RobCount, ROB!RingCount, RobCount, RingCount, ROB!RingSlot, RobPlace, RingSlot
<1>3. \A j \in 1 .. RobCount : RobView[j].pc = rob[RobPlace(j)].pc_value
  BY DEF RobView, RobRow
<1>4. hits = {}
  BY <1>1, <1>2, <1>3
<1>. QED BY <1>1, <1>4 DEF ROB!SearchStop

(* lsq_Entry, if there is room, puts the instruction behind the others.    *)
LEMMA LsqEntered ==
  ASSUME TypeInv, NEW insn, LSQ!lsq_Entry(insn), LsqCount < lsq_SIZE,
         insn.opcode \in {"LOAD", "STORE"}
  PROVE  /\ LsqCount' = LsqCount + 1
         /\ LsqView' = [j \in 1 .. LsqCount + 1 |->
                          IF j = LsqCount + 1
                          THEN [slot |-> (lsq_tail + 1) % lsq_SIZE, pc |-> insn.pc,
                                store |-> IF insn.opcode = "STORE" THEN 1 ELSE 0]
                          ELSE LsqView[j]]
         /\ \A j \in 1 .. LsqCount : LsqView[j].slot # (lsq_tail + 1) % lsq_SIZE
         /\ lsq'[-1] = lsq[-1]
<1>1. /\ RingIndices(lsq_head, lsq_tail, lsq_SIZE) /\ lsq_SIZE \in Nat \ {0}
      /\ lsq \in [LSQ!LsqSlot -> LSQ!LsqEntry]
  BY SizesAssumption DEF TypeInv, LsqTypes
<1>3. PICK t : t = lsq_tail'
  OBVIOUS
<1>4. /\ lsq_head' = IF lsq_head = -1 THEN 0 ELSE lsq_head
      /\ t = (lsq_tail + 1) % lsq_SIZE
  BY <1>3 DEF LSQ!lsq_Entry
<1>5. /\ t \in 0 .. lsq_SIZE - 1 /\ LsqCount' = LsqCount + 1
      /\ RingSlot(lsq_head', LsqCount + 1, lsq_SIZE) = t
      /\ \A k \in 1 .. LsqCount : RingSlot(lsq_head', k, lsq_SIZE) = LsqPlace(k)
      /\ t \notin RingSlots(lsq_head, lsq_tail, lsq_SIZE)
  BY <1>1, <1>3, <1>4, RingInsert DEF LsqCount, LsqPlace
<1>6. \A k \in 1 .. LsqCount : LsqPlace(k) # t /\ LsqPlace(k) \in LSQ!LsqSlot
  BY <1>1, <1>5, RingSlotInUse DEF LsqCount, LsqPlace, LSQ!LsqSlot
<1>7. PICK e : e = LSQ!Occupied(lsq[t], insn) /\ lsq' = [lsq EXCEPT ![t] = e]
  BY <1>1, <1>3, <1>5 DEF LSQ!lsq_Entry, LSQ!LsqSlot
<1>9. t \in LSQ!LsqSlot /\ -1 # t
  BY <1>1, <1>5 DEF LSQ!LsqSlot
<1>8. LsqRow(e, t) = [slot |-> t, pc |-> insn.pc, store |-> IF insn.opcode = "STORE" THEN 1 ELSE 0]
  <2>1. lsq[t] \in LSQ!LsqEntry
    BY <1>1, <1>9
  <2>. QED BY <1>7, <2>1 DEF LsqRow, LSQ!Occupied, LSQ!LsqEntry
<1>10. /\ lsq'[t] = e /\ lsq'[-1] = lsq[-1]
       /\ \A k \in 1 .. LsqCount : lsq'[LsqPlace(k)] = lsq[LsqPlace(k)]
  BY <1>1, <1>6, <1>7, <1>9
<1>11. LsqCount \in Nat
  BY ViewsHaveTypes DEF ViewsFit
<1>12. LsqView' = [k \in 1 .. LsqCount' |->
                     LsqRow(lsq'[RingSlot(lsq_head', k, lsq_SIZE)],
                            RingSlot(lsq_head', k, lsq_SIZE))]
  BY DEF LsqView, LsqPlace, LsqRow
<1>13. \A k \in 1 .. LsqCount' :
         LsqRow(lsq'[RingSlot(lsq_head', k, lsq_SIZE)], RingSlot(lsq_head', k, lsq_SIZE))
           = IF k = LsqCount + 1
             THEN [slot |-> t, pc |-> insn.pc, store |-> IF insn.opcode = "STORE" THEN 1 ELSE 0]
             ELSE LsqView[k]
  BY <1>5, <1>8, <1>10, <1>11 DEF LsqView
<1>14. \A j \in 1 .. LsqCount : LsqView[j].slot # t
  BY <1>6 DEF LsqView, LsqRow
<1>. QED BY <1>4, <1>5, <1>10, <1>12, <1>13, <1>14

(* A step that keeps where the entries come from keeps the view.           *)
LEMMA LsqRowsKept ==
  ASSUME UNCHANGED <<lsq_head, lsq_tail>>,
         \A j \in 1 .. LsqCount : /\ lsq'[LsqPlace(j)].pc_value = lsq[LsqPlace(j)].pc_value
                                  /\ lsq'[LsqPlace(j)].lsBit = lsq[LsqPlace(j)].lsBit
  PROVE  LsqSame
<1>1. LsqCount' = LsqCount
  BY DEF LsqCount
<1>2. LsqView' = [j \in 1 .. LsqCount' |->
                    LsqRow(lsq'[RingSlot(lsq_head', j, lsq_SIZE)],
                           RingSlot(lsq_head', j, lsq_SIZE))]
  BY DEF LsqView, LsqPlace, LsqRow
<1>3. \A j \in 1 .. LsqCount :
        LsqRow(lsq'[LsqPlace(j)], LsqPlace(j)) = LsqRow(lsq[LsqPlace(j)], LsqPlace(j))
  BY DEF LsqRow
<1>. QED BY <1>1, <1>2, <1>3 DEF LsqSame, LsqView, LsqPlace

(* The fields APEX_IUforward writes are not among the view's.              *)
LEMMA LsqReported ==
  ASSUME TypeInv, APEX_IUforward
  PROVE  /\ LsqSame
         /\ lsq'[-1].pc_value = lsq[-1].pc_value /\ lsq'[-1].lsBit = lsq[-1].lsBit
<1>0. /\ lsq \in [LSQ!LsqSlot -> LSQ!LsqEntry] /\ ViewsFit /\ -1 \in LSQ!LsqSlot
      /\ \A j \in 1 .. LsqCount : LsqPlace(j) \in LSQ!LsqSlot
  BY ViewsHaveTypes, SizesAssumption DEF TypeInv, LsqTypes, LSQ!LsqSlot, ViewsFit
<1>1. lsq_head' = lsq_head /\ lsq_tail' = lsq_tail
  BY DEF APEX_IUforward, LSQ!lsq_update
<1>2. ASSUME NEW i \in LSQ!LsqSlot
      PROVE  lsq'[i].pc_value = lsq[i].pc_value /\ lsq'[i].lsBit = lsq[i].lsBit
  <2>1. lsq[i] \in LSQ!LsqEntry
    BY <1>0
  <2>2. PICK v, w : v = latch.IUforward.prd /\ w = latch.IUforward.result_buffer
    OBVIOUS
  <2>3. CASE LSQ!lsq_update(v, w)
    <3>1. lsq'[i] \in {lsq[i], [lsq[i] EXCEPT !.prs1_value = w, !.data_valid_Bit = 1]}
      BY <1>0, <2>3 DEF LSQ!lsq_update
    <3>. QED BY <2>1, <3>1 DEF LSQ!LsqEntry
  <2>4. PICK e, a : e = latch.IUforward.lsqIndex /\ a = latch.IUforward.memory_address
    OBVIOUS
  <2>5. CASE LSQ!AddressSet(e, a)
    <3>1. lsq' = [lsq EXCEPT ![e].mem_address = a, ![e].mem_address_vBit = 1]
      BY <2>5 DEF LSQ!AddressSet
    <3>2. lsq'[i] \in {lsq[i], [lsq[i] EXCEPT !.mem_address = a, !.mem_address_vBit = 1]}
      BY <1>0, <3>1
    <3>. QED BY <2>1, <3>2 DEF LSQ!LsqEntry
  <2>. QED BY <2>2, <2>3, <2>4, <2>5 DEF APEX_IUforward
<1>. QED BY <1>0, <1>1, <1>2, LsqRowsKept

(* The removal of the oldest load or store.                                *)
LEMMA LsqRemoved ==
  ASSUME TypeInv, LsqCount # 0,
         lsq_head' = LSQ!lsq_to_mem(lsq_head, lsq_tail).head,
         lsq_tail' = LSQ!lsq_to_mem(lsq_head, lsq_tail).tail,
         \A i \in LSQ!LsqSlot : lsq'[i].pc_value = lsq[i].pc_value /\ lsq'[i].lsBit = lsq[i].lsBit
  PROVE  /\ LsqCount' = LsqCount - 1
         /\ LsqView' = [j \in 1 .. LsqCount - 1 |-> LsqView[j + 1]]
<1>1. /\ RingIndices(lsq_head, lsq_tail, lsq_SIZE) /\ lsq_SIZE \in Nat \ {0} /\ ViewsFit
  BY SizesAssumption, ViewsHaveTypes DEF TypeInv, LsqTypes
<1>2. lsq_head # -1 /\ LsqCount \in Nat
  BY <1>1 DEF ViewsFit
<1>3. /\ lsq_head' = IF lsq_head = lsq_tail THEN -1 ELSE (lsq_head + 1) % lsq_SIZE
      /\ lsq_tail' = IF lsq_head = lsq_tail THEN -1 ELSE lsq_tail
  BY <1>2 DEF LSQ!lsq_to_mem
<1>4. /\ LsqCount' = LsqCount - 1
      /\ \A k \in 1 .. LsqCount - 1 : RingSlot(lsq_head', k, lsq_SIZE) = LsqPlace(k + 1)
  BY <1>1, <1>2, <1>3, RingRemove DEF LsqCount, LsqPlace
<1>5. LsqView' = [j \in 1 .. LsqCount' |->
                    LsqRow(lsq'[RingSlot(lsq_head', j, lsq_SIZE)],
                           RingSlot(lsq_head', j, lsq_SIZE))]
  BY DEF LsqView, LsqPlace, LsqRow
<1>6. ASSUME NEW i \in LSQ!LsqSlot PROVE LsqRow(lsq'[i], i) = LsqRow(lsq[i], i)
  BY DEF LsqRow
<1>7. \A k \in 1 .. LsqCount - 1 : k + 1 \in 1 .. LsqCount /\ LsqPlace(k + 1) \in LSQ!LsqSlot
  BY <1>1, <1>2 DEF ViewsFit, LSQ!LsqSlot
<1>8. ASSUME NEW k \in 1 .. LsqCount - 1
      PROVE  LsqRow(lsq'[RingSlot(lsq_head', k, lsq_SIZE)], RingSlot(lsq_head', k, lsq_SIZE))
               = LsqView[k + 1]
  BY <1>4, <1>6, <1>7 DEF LsqView
<1>. QED BY <1>4, <1>5, <1>8

(* Marking the head of the lsq changes neither pc nor kind of any entry.   *)
LEMMA LsqMarked ==
  ASSUME TypeInv, NEW h \in LSQ!LsqSlot, NEW before, lsq' = LSQ!HeadMarked(h, before)
  PROVE  \A i \in LSQ!LsqSlot : lsq'[i].pc_value = lsq[i].pc_value /\ lsq'[i].lsBit = lsq[i].lsBit
<1>1. lsq \in [LSQ!LsqSlot -> LSQ!LsqEntry]
  BY DEF TypeInv, LsqTypes
<1>2. PICK a : a = IF (IF h = -1 THEN before ELSE lsq[h].mem_address_vBit) # 0 THEN 1
                   ELSE lsq[h].allocated
  OBVIOUS
<1>3. lsq' = [lsq EXCEPT ![h] = [lsq[h] EXCEPT !.allocated = a]]
  BY <1>1, <1>2 DEF LSQ!HeadMarked, LSQ!LsqEntry
<1>4. ASSUME NEW i \in LSQ!LsqSlot
      PROVE  lsq'[i].pc_value = lsq[i].pc_value /\ lsq'[i].lsBit = lsq[i].lsBit
  <2>1. lsq[i] \in LSQ!LsqEntry
    BY <1>1
  <2>2. lsq'[i] \in {lsq[i], [lsq[i] EXCEPT !.allocated = a]}
    BY <1>1, <1>3
  <2>. QED BY <2>1, <2>2 DEF LSQ!LsqEntry
<1>. QED BY <1>4

----------------------------------------------------------------------------
(* Program order *)

(* The instructions of the program, by their address.                      *)
Address == {3996 + 4 * k : k \in 1 .. Len(code)}
OpAt(p) == code[CodeIndex(p)].opcode
Right(x) == x.pc \in Address /\ x.opcode = OpAt(x.pc)

Mem == {"LOAD", "STORE"}

(* The address of the oldest instruction that is not in the queues yet.    *)
Front == IF latch.RD2.has_insn THEN latch.RD2.pc
         ELSE IF latch.DR1.has_insn THEN latch.DR1.pc ELSE pc

FrontOrder ==
  /\ ~fetch_from_next_cycle
  /\ pc \in {4000 + 4 * n : n \in 0 .. Len(code)}
  /\ latch.DR1.has_insn => Right(latch.DR1) /\ latch.DR1.pc < pc
  /\ latch.RD2.has_insn => Right(latch.RD2) /\ latch.RD2.pc < pc
  /\ latch.RD2.has_insn /\ latch.DR1.has_insn => latch.RD2.pc < latch.DR1.pc

(* What is in a unit, or waits for one, is an instruction of the program   *)
(* that the unit is for; the branch unit, which reports the pc it holds    *)
(* with or without an instruction, holds one of a branch or 0.             *)
UnitsRight ==
  /\ \A k \in 1 .. Len(iq) : Right(iq[k])
  /\ \A s \in {"IU", "IUforward"} : latch[s].has_insn => Right(latch[s])
  /\ \A s \in {"MU", "MUforward"} : latch[s].has_insn =>
       Right(latch[s]) /\ fuType(latch[s].opcode) = 1
  /\ latch.BU.has_insn => Right(latch.BU)
  /\ latch.BU.pc # 0 => Right(latch.BU) /\ fuType(latch.BU.opcode) = 2

(* The instructions in the rob are in program order.                       *)
RobOrder ==
  \A k \in 1 .. RobCount :
    /\ Right(RobView[k])
    /\ RobView[k].pc < Front
    /\ \A j \in 1 .. RobCount : j < k => RobView[j].pc < RobView[k].pc

(* A load or a store the rob still waits for.                              *)
Awaited(e) == e.opcode \in Mem /\ e.done = 0

(* Every entry of the lsq is that of an awaited instruction of the rob     *)
(* with the same address, which knows its slot; no other instruction of    *)
(* the rob has the number of that slot.                                    *)
Owns(e, q) == /\ Awaited(e) /\ e.pc = q.pc /\ e.index = q.slot
              /\ q.store = 1 <=> e.opcode = "STORE"
Owned == \A j \in 1 .. LsqCount : \E k \in 1 .. RobCount : Owns(RobView[k], LsqView[j])
SlotKnown ==
  \A k \in 1 .. RobCount, j \in 1 .. LsqCount :
    RobView[k].opcode \in Mem /\ RobView[k].index = LsqView[j].slot
      => RobView[k].pc = LsqView[j].pc
LsqOrder == \A i, j \in 1 .. LsqCount : i < j => LsqView[i].pc < LsqView[j].pc
Indexed == \A k \in 1 .. RobCount : RobView[k].opcode \in Mem <=> RobView[k].index # -1
Linked == Owned /\ SlotKnown /\ LsqOrder /\ Indexed

(* What lies in front of the two arrays is of no instruction.              *)
BeforeQueues == /\ lsq[-1].pc_value = 0 /\ lsq[-1].lsBit = 0
                /\ rob[-1].opcode = "ADD" /\ rob[-1].pc_value \in {0, -1}

(* The addresses of the program start at 4000, so that the pc 0 of an      *)
(* empty latch and what lies in front of the queues is none.               *)
LEMMA AddressIsPositive ==
  ASSUME TypeInv, NEW p \in Address
  PROVE  p \in Int /\ p >= 4000
<1>1. Len(code) \in Nat
  BY LenProperties DEF TypeInv, ControlTypes
<1>. QED BY <1>1 DEF Address

(* In program order, no instruction is in the rob twice.                   *)
LEMMA OrderIsDistinct ==
  ASSUME TypeInv, RobOrder
  PROVE  /\ Distinct
         /\ \A k \in 1 .. RobCount : RobView[k].pc \in Int /\ RobView[k].pc >= 4000
<1>1. \A k \in 1 .. RobCount : RobView[k].pc \in Int /\ RobView[k].pc >= 4000
  BY AddressIsPositive DEF RobOrder, Right
<1>2. ASSUME NEW j \in 1 .. RobCount, NEW k \in 1 .. RobCount, RobView[j].pc = RobView[k].pc
      PROVE  j = k
  <2>1. ~(j < k) /\ ~(k < j)
    BY <1>1, <1>2 DEF RobOrder
  <2>. QED BY <2>1, ViewsHaveTypes DEF ViewsFit
<1>. QED BY <1>1, <1>2 DEF Distinct

(* What APEX_issue does for the memory unit.                               *)
Started(l, op) == latch' = [l EXCEPT !.issue = op, !.memory = op]

StartsOldest(l) ==
  /\ is_MEM_free /\ LsqCount # 0
  /\ LsqCount' = LsqCount - 1
  /\ LsqView' = [j \in 1 .. LsqCount - 1 |-> LsqView[j + 1]]
  /\ \E k \in 1 .. RobCount : \E op :
       /\ Awaited(RobView[k]) /\ RobView[k].pc = LsqView[1].pc
       /\ op.has_insn = l.issue.has_insn
       /\ op.pc = RobView[k].pc /\ op.opcode = RobView[k].opcode
       /\ op.opcode = "STORE" => k = 1
       /\ Started(l, op)

(* With both queues empty it may start an operation for the slot in front  *)
(* of the rob.                                                             *)
StartsNothing(l) ==
  /\ is_MEM_free /\ RobCount = 0 /\ LsqSame
  /\ lsq[-1].allocated = 1
  /\ \E op : /\ op.has_insn = l.issue.has_insn
             /\ op.pc = 0 /\ op.opcode = "ADD"
             /\ Started(l, op)

(* In order, all that APEX_issue can start is the memory operation at the  *)
(* head of the lsq, or, with both queues empty, nothing of the program.    *)
LEMMA StartIs ==
  ASSUME TypeInv, TypeInv', RobOrder, Linked, BeforeQueues,
         NEW l, l.issue \in Latch, MemoryPart(l)
  PROVE  /\ \/ latch' = l /\ LsqSame
            \/ StartsOldest(l)
            \/ StartsNothing(l)
         /\ lsq'[-1].pc_value = lsq[-1].pc_value /\ lsq'[-1].lsBit = lsq[-1].lsBit
<1>0. ViewsFit /\ Distinct /\ RobCount \in Nat /\ LsqCount \in Nat
      /\ \A k \in 1 .. RobCount : RobView[k].pc \in Int /\ RobView[k].pc >= 4000
  BY ViewsHaveTypes, OrderIsDistinct DEF ViewsFit
<1>1. \A i \in LSQ!LsqSlot : lsq'[i].pc_value = lsq[i].pc_value /\ lsq'[i].lsBit = lsq[i].lsBit
  <2>1. PICK h, before : h = lsq_head' /\ before = rob[rob_SIZE - 1].result
    OBVIOUS
  <2>2. h \in LSQ!LsqSlot
    BY <2>1 DEF TypeInv, LsqTypes, RingIndices, LSQ!LsqSlot
  <2>3. lsq' = LSQ!HeadMarked(h, before)
    BY <2>1 DEF MemoryPart
  <2>. QED BY <2>2, <2>3, LsqMarked
<1>2. /\ -1 \in LSQ!LsqSlot
      /\ \A j \in 1 .. LsqCount : LsqPlace(j) \in LSQ!LsqSlot
  BY <1>0, SizesAssumption DEF ViewsFit, LSQ!LsqSlot
<1>3. ASSUME UNCHANGED <<lsq_head, lsq_tail>> PROVE LsqSame
  BY <1>1, <1>2, <1>3, LsqRowsKept
<1>4. /\ \A j \in 1 .. LsqCount : /\ LsqView[j].pc = lsq[LsqPlace(j)].pc_value
                                  /\ LsqView[j].store = lsq[LsqPlace(j)].lsBit
                                  /\ LsqView[j].slot = LsqPlace(j)
      /\ \A k \in 1 .. RobCount : /\ RobView[k].pc = rob[RobPlace(k)].pc_value
                                  /\ RobView[k].opcode = rob[RobPlace(k)].opcode
                                  /\ RobView[k].index = rob[RobPlace(k)].lsqindex
  BY DEF LsqView, LsqRow, RobView, RobRow
<1>5. ASSUME NEW r, NEW e, StartMemory(l, r, e)
      PROVE  \E op : /\ op.has_insn = l.issue.has_insn
                     /\ op.pc = rob[r].pc_value /\ op.opcode = rob[r].opcode
                     /\ Started(l, op)
  <2>1. PICK op, m, v : /\ op = [l.issue EXCEPT !.memory_address = m, !.pc = rob[r].pc_value,
                                       !.opcode = rob[r].opcode, !.rs1_value = v]
                        /\ Started(l, op)
    BY <1>5 DEF StartMemory, Started
  <2>2. PICK p, o : p = rob[r].pc_value /\ o = rob[r].opcode
    OBVIOUS
  <2>3. op.has_insn = l.issue.has_insn /\ op.pc = p /\ op.opcode = o
    BY <2>1, <2>2 DEF Latch
  <2>. QED BY <2>1, <2>2, <2>3
(* The instruction of the oldest entry.                                    *)
<1>6. ASSUME LsqCount # 0
      PROVE  \E k \in 1 .. RobCount : Owns(RobView[k], LsqView[1])
  BY <1>0, <1>6 DEF Linked, Owned, SlotKnown, LsqOrder, Indexed
<1>7. CASE NothingToMemory(l)
  BY <1>1, <1>2, <1>3, <1>7 DEF NothingToMemory
<1>8. CASE is_MEM_free /\ StoreToMemory(l)
  <2>1. /\ lsq[lsq_head].lsBit = 1
        /\ rob[rob_head].lsqindex = lsq_head
        /\ StartMemory(l, rob_head, lsq_head)
        /\ lsq_head' = LSQ!lsq_to_mem(lsq_head, lsq_tail).head
        /\ lsq_tail' = LSQ!lsq_to_mem(lsq_head, lsq_tail).tail
    BY <1>8 DEF StoreToMemory, StoreMayStart, LSQ!StoreReady
  <2>2. LsqCount # 0 /\ LsqPlace(1) = lsq_head
    BY <1>0, <2>1 DEF BeforeQueues, ViewsFit
  <2>3. PICK k \in 1 .. RobCount : Owns(RobView[k], LsqView[1])
    BY <1>6, <2>2
  <2>4. RobCount # 0 /\ RobPlace(1) = rob_head /\ 1 \in 1 .. RobCount
    BY <1>0, <2>3 DEF ViewsFit
  <2>5. RobView[1].index = LsqView[1].slot /\ RobView[1].index # -1
    BY <1>0, <1>4, <2>1, <2>2, <2>4 DEF ViewsFit
  <2>6. RobView[1].pc = LsqView[1].pc
    BY <1>0, <2>2, <2>4, <2>5 DEF Linked, Owned, SlotKnown, LsqOrder, Indexed
  <2>7. k = 1
    BY <1>0, <2>3, <2>4, <2>6 DEF Distinct, Owns
  <2>8. PICK op : /\ op.has_insn = l.issue.has_insn
                  /\ op.pc = rob[rob_head].pc_value /\ op.opcode = rob[rob_head].opcode
                  /\ Started(l, op)
    BY <1>5, <2>1
  <2>9. op.pc = RobView[1].pc /\ op.opcode = RobView[1].opcode
    BY <1>4, <2>4, <2>8
  <2>10. StartsOldest(l)
    BY <1>1, <1>8, <2>1, <2>2, <2>3, <2>4, <2>6, <2>7, <2>8, <2>9, LsqRemoved DEF StartsOldest, Owns
  <2>. QED BY <1>1, <1>2, <2>10
<1>9. CASE is_MEM_free /\ LoadToMemory(l)
  <2>0. PICK p, r : p = lsq[lsq_head].pc_value /\ r = ROB!SearchStop(p)
    OBVIOUS
  <2>a. PICK one : one = IF r # rob_tail THEN LSQ!lsq_to_mem(lsq_head, lsq_tail)
                         ELSE [head |-> lsq_head, tail |-> lsq_tail]
    OBVIOUS
  <2>b. PICK left : left = IF rob[r].pc_value = lsq[one.tail].pc_value
                           THEN LSQ!lsq_to_mem(one.head, one.tail) ELSE one
    OBVIOUS
  <2>c. PICK e : e = IF rob[r].pc_value = lsq[one.tail].pc_value THEN one.head ELSE lsq_head
    OBVIOUS
  <2>d. /\ lsq[lsq_head].allocated = 1 /\ lsq[lsq_head].lsBit = 0
        /\ lsq_head' = left.head /\ lsq_tail' = left.tail
        /\ \/ /\ r # rob_tail \/ rob[r].pc_value = lsq[one.tail].pc_value
              /\ StartMemory(l, r, e)
           \/ /\ r = rob_tail /\ rob[r].pc_value # lsq[one.tail].pc_value
              /\ latch' = l
    BY <1>9, <2>0, <2>a, <2>b, <2>c DEF LoadToMemory, LSQ!LoadReady
  <2>1. /\ p = lsq[lsq_head].pc_value
        /\ r = ROB!SearchStop(p)
        /\ one = IF r # rob_tail THEN LSQ!lsq_to_mem(lsq_head, lsq_tail)
                 ELSE [head |-> lsq_head, tail |-> lsq_tail]
        /\ left = IF rob[r].pc_value = lsq[one.tail].pc_value
                  THEN LSQ!lsq_to_mem(one.head, one.tail) ELSE one
        /\ lsq[lsq_head].allocated = 1 /\ lsq[lsq_head].lsBit = 0
        /\ lsq_head' = left.head /\ lsq_tail' = left.tail
        /\ \/ /\ r # rob_tail \/ rob[r].pc_value = lsq[one.tail].pc_value
              /\ StartMemory(l, r, IF rob[r].pc_value = lsq[one.tail].pc_value THEN one.head
                                   ELSE lsq_head)
           \/ /\ r = rob_tail /\ rob[r].pc_value # lsq[one.tail].pc_value
              /\ latch' = l
    BY <2>0, <2>a, <2>b, <2>c, <2>d
  <2>2. CASE LsqCount # 0
    <3>1. LsqPlace(1) = lsq_head /\ LsqPlace(LsqCount) = lsq_tail /\ 1 \in 1 .. LsqCount
          /\ LsqCount \in 1 .. LsqCount
      BY <1>0, <2>2 DEF ViewsFit
    <3>2. PICK k \in 1 .. RobCount : Owns(RobView[k], LsqView[1])
      BY <1>6, <2>2
    <3>3. p = LsqView[1].pc /\ p = RobView[k].pc /\ p \in Int /\ p >= 4000
          /\ RobView[k].opcode = "LOAD"
      BY <1>0, <1>4, <2>1, <3>1, <3>2 DEF Owns, Awaited, Mem
    <3>4. r = RobPlace(k)
      BY <1>0, <2>1, <3>3, SearchFinds
    <3>5. rob[r].pc_value = p /\ rob[r].opcode = "LOAD"
      BY <1>4, <3>3, <3>4
    <3>6. rob_head # -1 /\ RobPlace(RobCount) = rob_tail /\ RobCount \in 1 .. RobCount
      BY <1>0 DEF ViewsFit
    <3>7. r = rob_tail <=> k = RobCount
      <4>1. rob_SIZE \in Nat \ {0} /\ RingIndices(rob_head, rob_tail, rob_SIZE)
        BY SizesAssumption DEF TypeInv, RoomInv, RobIndices
      <4>. QED BY <3>4, <3>6, <4>1, RingPlaces DEF RobPlace, RobCount
    (* Either way one entry leaves, that of the load.                      *)
    <3>8. ASSUME k # RobCount
          PROVE  /\ lsq_head' = LSQ!lsq_to_mem(lsq_head, lsq_tail).head
                 /\ lsq_tail' = LSQ!lsq_to_mem(lsq_head, lsq_tail).tail
                 /\ StartMemory(l, r, lsq_head)
      <4>1. one = LSQ!lsq_to_mem(lsq_head, lsq_tail) /\ r # rob_tail
        BY <2>1, <3>7, <3>8
      <4>2. lsq[one.tail].pc_value # p
        <5>1. CASE lsq_head = lsq_tail
          <6>1. one.tail = -1
            BY <4>1, <5>1 DEF LSQ!lsq_to_mem
          <6>. QED BY <3>3, <6>1 DEF BeforeQueues
        <5>2. CASE lsq_head # lsq_tail
          <6>1. one.tail = lsq_tail
            BY <1>0, <2>2, <4>1, <5>2 DEF LSQ!lsq_to_mem, ViewsFit
          <6>2. 1 < LsqCount
            BY <1>0, <3>1, <5>2
          <6>3. LsqView[1].pc < LsqView[LsqCount].pc
            BY <3>1, <6>2 DEF Linked, Owned, SlotKnown, LsqOrder, Indexed
          <6>4. \E j \in 1 .. RobCount : RobView[j].pc = LsqView[LsqCount].pc
            BY <3>1 DEF Linked, Owned, SlotKnown, LsqOrder, Indexed, Owns
          <6>. QED BY <1>0, <1>4, <3>1, <3>3, <6>1, <6>3, <6>4
        <5>. QED BY <5>1, <5>2
      <4>3. left = one /\ StartMemory(l, r, lsq_head)
        BY <2>1, <3>5, <4>1, <4>2
      <4>4. /\ lsq_head' = LSQ!lsq_to_mem(lsq_head, lsq_tail).head
            /\ lsq_tail' = LSQ!lsq_to_mem(lsq_head, lsq_tail).tail
        BY <2>1, <4>1, <4>3
      <4>. QED BY <4>3, <4>4
    <3>9. ASSUME k = RobCount
          PROVE  /\ lsq_head' = LSQ!lsq_to_mem(lsq_head, lsq_tail).head
                 /\ lsq_tail' = LSQ!lsq_to_mem(lsq_head, lsq_tail).tail
                 /\ StartMemory(l, r, lsq_head)
      <4>1. one = [head |-> lsq_head, tail |-> lsq_tail] /\ r = rob_tail
        BY <2>1, <3>7, <3>9
      <4>2. PICK i \in 1 .. RobCount : Owns(RobView[i], LsqView[LsqCount])
        BY <3>1 DEF Linked, Owned, SlotKnown, LsqOrder, Indexed
      <4>3. RobView[i].pc <= RobView[k].pc
        BY <1>0, <3>9 DEF RobOrder
      <4>4. LsqCount = 1
        <5>1. ~(1 < LsqCount)
          <6>. SUFFICES ASSUME 1 < LsqCount PROVE FALSE
            OBVIOUS
          <6>1. LsqView[1].pc < LsqView[LsqCount].pc
            BY <3>1 DEF Linked, Owned, SlotKnown, LsqOrder, Indexed
          <6>. QED BY <1>0, <3>3, <4>2, <4>3, <6>1 DEF Owns
        <5>. QED BY <1>0, <2>2, <5>1
      <4>5. lsq_tail = lsq_head
        BY <3>1, <4>4
      <4>6. /\ one.head = lsq_head /\ one.tail = lsq_tail
        BY <4>1
      <4>7. rob[r].pc_value = lsq[one.tail].pc_value
        BY <2>1, <3>5, <4>5, <4>6
      <4>8. left = LSQ!lsq_to_mem(lsq_head, lsq_tail) /\ StartMemory(l, r, lsq_head)
        BY <2>1, <4>6, <4>7
      <4>. QED BY <2>1, <4>8
    <3>10. /\ lsq_head' = LSQ!lsq_to_mem(lsq_head, lsq_tail).head
           /\ lsq_tail' = LSQ!lsq_to_mem(lsq_head, lsq_tail).tail
           /\ StartMemory(l, r, lsq_head)
      BY <3>8, <3>9
    <3>11. PICK op : /\ op.has_insn = l.issue.has_insn
                     /\ op.pc = rob[r].pc_value /\ op.opcode = rob[r].opcode
                     /\ Started(l, op)
      BY <1>5, <3>10
    <3>12. op.pc = RobView[k].pc /\ op.opcode = RobView[k].opcode /\ op.opcode # "STORE"
      BY <3>3, <3>5, <3>11
    <3>13. StartsOldest(l)
      BY <1>1, <1>9, <2>2, <3>2, <3>3, <3>10, <3>11, <3>12, LsqRemoved DEF StartsOldest, Owns
    <3>. QED BY <1>1, <1>2, <3>13
  <2>3. CASE LsqCount = 0
    <3>1. lsq_head = -1 /\ lsq_tail = -1 /\ p = 0
      BY <1>0, <2>1, <2>3 DEF ViewsFit, TypeInv, LsqTypes, RingIndices, BeforeQueues
    <3>2. r = rob_tail
      BY <1>0, <2>1, <3>1, SearchMisses
    <3>3. one.head = -1 /\ one.tail = -1
      BY <2>1, <3>1, <3>2
    <3>4. left.head = -1 /\ left.tail = -1
      BY <2>1, <3>3 DEF LSQ!lsq_to_mem
    <3>5. LsqSame
      BY <1>3, <2>1, <3>1, <3>4
    <3>6. CASE rob[r].pc_value # lsq[one.tail].pc_value
      BY <1>1, <1>2, <2>1, <3>2, <3>5, <3>6
    <3>7. CASE rob[r].pc_value = lsq[one.tail].pc_value
      <4>1. rob[r].pc_value = 0
        BY <3>3, <3>7 DEF BeforeQueues
      <4>2. RobCount = 0
        <5>. SUFFICES ASSUME RobCount # 0 PROVE FALSE
          OBVIOUS
        <5>1. RobCount \in 1 .. RobCount /\ rob_tail = RobPlace(RobCount)
          BY <1>0 DEF ViewsFit
        <5>. QED BY <1>0, <1>4, <3>2, <4>1, <5>1
      <4>3. r = -1
        BY <1>0, <3>2, <4>2 DEF ViewsFit, TypeInv, RoomInv, RobIndices, RingIndices
      <4>4. PICK op : /\ op.has_insn = l.issue.has_insn
                      /\ op.pc = rob[r].pc_value /\ op.opcode = rob[r].opcode
                      /\ Started(l, op)
        BY <1>5, <2>1, <3>7
      <4>5. StartsNothing(l)
        BY <1>9, <2>1, <3>1, <3>5, <4>1, <4>2, <4>3, <4>4 DEF StartsNothing, BeforeQueues
      <4>. QED BY <1>1, <1>2, <4>5
    <3>. QED BY <3>6, <3>7
  <2>. QED BY <2>2, <2>3
<1>. QED BY <1>7, <1>8, <1>9 DEF MemoryPart

(* What is in the memory unit: nothing of the program, or what the rob     *)
(* awaits, in front of everything in the lsq, and a store only if it is    *)
(* the oldest instruction.  Whatever the rob awaits is in the lsq or here. *)
InMemory == {"memory", "memoryForward"}
Bogus(x) == x.pc = 0 /\ x.opcode = "ADD"
Serves(x, e, k) == /\ Awaited(e) /\ e.pc = x.pc /\ e.opcode = x.opcode
                   /\ x.opcode = "STORE" => k = 1

OneOperation == ~(latch.memory.has_insn /\ latch.memoryForward.has_insn)
Served ==
  \A s \in InMemory : latch[s].has_insn =>
    \/ Bogus(latch[s])
    \/ /\ \E k \in 1 .. RobCount : Serves(latch[s], RobView[k], k)
       /\ \A j \in 1 .. LsqCount : latch[s].pc < LsqView[j].pc
Pending ==
  \A k \in 1 .. RobCount : Awaited(RobView[k]) =>
    \/ \E j \in 1 .. LsqCount : LsqView[j].pc = RobView[k].pc
    \/ \E s \in InMemory : latch[s].has_insn /\ latch[s].pc = RobView[k].pc
(* Nothing older than what the unit did last is left to do.                *)
Past == latch.memory.pc < Front /\ \A j \in 1 .. LsqCount : latch.memory.pc < LsqView[j].pc
MemoryOrder == OneOperation /\ Served /\ Pending /\ Past

(* The order of the instructions on their way to the units and to the rob, *)
(* which depends on nothing else; and that of the loads and stores.        *)
InOrder == FrontOrder /\ UnitsRight /\ RobOrder
QueueOrder == Linked /\ BeforeQueues /\ MemoryOrder
ProgramOrder == InOrder /\ QueueOrder

(* Without a layout in which it is the rob's, no step changes the code.    *)
LEMMA CodeKept ==
  ASSUME BranchFree, [Next]_vars
  PROVE  code' = code /\ BranchFree'
<1>1. overlay = "none" /\ UNCHANGED <<code, overlay>>
  BY DEF BranchFree, Next, APEX_writeback, APEX_ROBcommit, APEX_memoryForward, APEX_MUforward,
         APEX_MU, APEX_BU, Overwritten, APEX_IUforward, APEX_IU, APEX_issue, APEX_memory,
         APEX_RD2, APEX_DR1, APEX_fetch, Prompt, APEX_cpu_stop, Idle, vars, hostVars
<1>. QED BY <1>1 DEF BranchFree

(* An address of the program stays one.                                    *)
LEMMA RightKept ==
  ASSUME code' = code
  PROVE  Address' = Address /\ \A p : OpAt(p)' = OpAt(p)
  BY DEF Address, OpAt

(* An instruction of a program without branches is none.                   *)
LEMMA NotBranch ==
  ASSUME TypeInv, BranchFree, NEW x, Right(x)
  PROVE  /\ x.opcode \notin {"BZ", "BNZ", "BP", "BNP"}
         /\ x.pc \in Int /\ x.pc >= 4000
<1>1. Len(code) \in Nat
  BY LenProperties DEF TypeInv, ControlTypes
<1>2. PICK k \in 1 .. Len(code) : x.pc = 3996 + 4 * k
  BY DEF Right, Address
<1>3. CodeIndex(x.pc) = k
  BY <1>1, <1>2 DEF CodeIndex
<1>. QED BY <1>1, <1>2, <1>3 DEF BranchFree, Right, OpAt

(* Fetch goes through the program from its first instruction to its last,  *)
(* and every stage passes on what it got.                                  *)
LEMMA FrontKept ==
  ASSUME TypeInv, TypeInv', BranchFree, InOrder, Schedule, [Next]_vars, code' = code
  PROVE  /\ FrontOrder'
         /\ Front \in Int /\ Front' \in Int /\ Front' >= Front
         /\ APEX_RD2 => latch.RD2.pc < Front' /\ latch.RD2.pc = Front
<1>0. /\ latch \in [LatchStage -> Latch] /\ latch' \in [LatchStage -> Latch]
      /\ latch.DR1 \in Latch /\ latch.RD2 \in Latch
      /\ pc \in Int /\ pc' \in Int /\ FrontOrder /\ Len(code) \in Nat
      /\ latch.RD2.has_insn \in BOOLEAN /\ latch.DR1.has_insn \in BOOLEAN
  <2>1. latch.DR1 \in Latch /\ latch.RD2 \in Latch
    BY LatchStages DEF TypeInv, LatchTypes, LatchesFit
  <2>2. latch.RD2.has_insn \in BOOLEAN /\ latch.DR1.has_insn \in BOOLEAN
    BY <2>1 DEF Latch
  <2>3. Len(code) \in Nat
    BY LenProperties DEF TypeInv, ControlTypes
  <2>. QED BY <2>1, <2>2, <2>3 DEF TypeInv, LatchTypes, LatchesFit, ControlTypes, InOrder
<1>1. /\ Address' = Address /\ \A p : OpAt(p)' = OpAt(p)
      /\ \A p \in Address : p \in Int /\ p >= 4000
  BY RightKept, AddressIsPositive
<1>2. /\ latch.DR1.has_insn => latch.DR1.pc \in Address
      /\ latch.RD2.has_insn => latch.RD2.pc \in Address
  BY <1>0 DEF FrontOrder, Right
<1>3. ASSUME pc' = pc, fetch_from_next_cycle' = fetch_from_next_cycle,
             latch'.DR1 = latch.DR1, latch'.RD2 = latch.RD2
      PROVE  FrontOrder' /\ Front' = Front
  BY <1>0, <1>1, <1>3 DEF FrontOrder, Right, Front
<1>4. Front \in Int
  BY <1>0, <1>1, <1>2 DEF Front
<1>5. CASE APEX_fetch
  <2>1. CASE FetchInsn
    <3>1. PICK n \in 0 .. Len(code) : pc = 4000 + 4 * n
      BY <1>0 DEF FrontOrder
    <3>2. CodeIndex(pc) = n + 1 /\ CodeIndex(pc) \in 1 .. Len(code)
      BY <1>0, <2>1, <3>1 DEF CodeIndex, FetchInsn
    <3>3. pc \in Address
      BY <1>0, <3>1, <3>2 DEF Address
    <3>4. pc' = pc + 4 /\ fetch_from_next_cycle' = fetch_from_next_cycle
      BY <2>1 DEF FetchInsn
    <3>5. pc' \in {4000 + 4 * m : m \in 0 .. Len(code)}
      <4>1. pc' = 4000 + 4 * (n + 1) /\ n + 1 \in 0 .. Len(code)
        BY <1>0, <3>1, <3>2, <3>4
      <4>. QED BY <4>1
    <3>6. latch'.DR1.has_insn = TRUE /\ latch'.DR1.pc = pc /\ latch'.DR1.opcode = OpAt(pc)
          /\ latch'.RD2 = latch.RD2
      <4>1. PICK o, a, b, c, i, d :
              /\ o = code[CodeIndex(pc)].opcode
              /\ d = [Bubble EXCEPT !.has_insn = TRUE, !.pc = pc, !.opcode = o, !.rd = a,
                                    !.rs1 = b, !.rs2 = c, !.imm = i]
              /\ latch' = [latch EXCEPT !.DR1 = d]
        BY <2>1 DEF FetchInsn
      <4>2. d.has_insn = TRUE /\ d.pc = pc /\ d.opcode = o
        BY <4>1 DEF Bubble
      <4>3. latch'.DR1 = d /\ latch'.RD2 = latch.RD2
        BY <1>0, <4>1, LatchStages
      <4>. QED BY <4>1, <4>2, <4>3 DEF OpAt
    <3>7. FrontOrder'
      BY <1>0, <1>1, <1>2, <3>3, <3>4, <3>5, <3>6 DEF FrontOrder, Right
    <3>8. Front' \in Int /\ Front' >= Front
      BY <1>0, <1>1, <1>2, <1>4, <3>3, <3>6 DEF Front, FrontOrder
    <3>. QED BY <1>4, <1>5, <3>7, <3>8, StageStep
  <2>2. CASE ~FetchInsn
    <3>1. UNCHANGED <<pc, fetch_from_next_cycle, latch>>
      BY <1>0, <1>5, <2>2 DEF APEX_fetch, SkipFetch, FrontOrder, fetchVars
    <3>. QED BY <1>3, <1>4, <1>5, <3>1, StageStep
  <2>. QED BY <2>1, <2>2
<1>6. CASE APEX_DR1
  <2>1. /\ pc' = pc /\ fetch_from_next_cycle' = fetch_from_next_cycle
        /\ latch.DR1.has_insn /\ ~latch.RD2.has_insn
    BY <1>6, StageStep DEF APEX_DR1, fetchVars, Schedule
  <2>2. CASE latch' = latch
    BY <1>3, <1>4, <1>6, <2>1, <2>2, StageStep
  <2>3. CASE latch' = [latch EXCEPT !.RD2 = Decoded(latch.DR1), !.DR1.has_insn = FALSE]
    <3>1. PICK d : d = Decoded(latch.DR1)
      OBVIOUS
    <3>2. d.has_insn = latch.DR1.has_insn /\ d.pc = latch.DR1.pc /\ d.opcode = latch.DR1.opcode
      BY <1>0, <3>1 DEF Decoded, Latch
    <3>3. latch'.RD2 = d /\ latch'.DR1 = [latch.DR1 EXCEPT !.has_insn = FALSE]
      BY <1>0, <2>3, <3>1, LatchStages
    <3>4. latch'.DR1.has_insn = FALSE
      BY <1>0, <3>3 DEF Latch
    <3>5. FrontOrder'
      BY <1>0, <1>1, <2>1, <3>2, <3>3, <3>4 DEF FrontOrder, Right
    <3>6. Front' = Front
      BY <2>1, <3>2, <3>3 DEF Front
    <3>. QED BY <1>4, <1>6, <3>5, <3>6, StageStep
  <2>. QED BY <1>6, <2>2, <2>3 DEF APEX_DR1
<1>7. CASE APEX_RD2
  <2>1. PICK v : latch' = [latch EXCEPT !.issue = v, !.RD2.has_insn = FALSE]
    BY <1>7 DEF APEX_RD2
  <2>2. latch'.DR1 = latch.DR1 /\ latch'.RD2.has_insn = FALSE
    <3>1. latch'.DR1 = latch.DR1 /\ latch'.RD2 = [latch.RD2 EXCEPT !.has_insn = FALSE]
      BY <1>0, <2>1, LatchStages
    <3>. QED BY <1>0, <3>1 DEF Latch
  <2>3. pc' = pc /\ fetch_from_next_cycle' = fetch_from_next_cycle /\ latch.RD2.has_insn
    BY <1>7 DEF APEX_RD2, fetchVars
  <2>4. FrontOrder'
    BY <1>0, <1>1, <2>2, <2>3 DEF FrontOrder, Right
  <2>5. latch.RD2.pc = Front /\ latch.RD2.pc < Front' /\ Front' \in Int
    BY <1>0, <1>1, <1>2, <2>2, <2>3 DEF Front, FrontOrder
  <2>. QED BY <1>4, <2>4, <2>5
<1>8. CASE APEX_BU
  <2>1. ~(latch.BU.has_insn /\ Taken(latch.BU))
    BY <1>8, NotBranch DEF InOrder, UnitsRight, Taken
  <2>2. UNCHANGED fetchVars /\ latch'.DR1 = latch.DR1 /\ latch'.RD2 = latch.RD2
    BY <1>0, <1>8, <2>1, LatchStages DEF APEX_BU
  <2>. QED BY <1>3, <1>4, <1>8, <2>2, StageStep DEF fetchVars
<1>9. CASE \/ APEX_writeback \/ APEX_ROBcommit \/ APEX_memoryForward \/ APEX_MUforward \/ APEX_MU
           \/ APEX_IUforward \/ APEX_IU \/ APEX_issue \/ APEX_memory
  <2>1. latch'.DR1 = latch.DR1 /\ latch'.RD2 = latch.RD2
    BY <1>0, <1>9, LatchFrame, LatchStages DEF Touches
  <2>2. UNCHANGED fetchVars
    BY <1>9 DEF APEX_writeback, APEX_ROBcommit, APEX_memoryForward, APEX_MUforward, APEX_MU,
         APEX_IUforward, APEX_IU, APEX_issue, APEX_memory
  <2>. QED BY <1>3, <1>4, <1>9, <2>1, <2>2, StageStep DEF fetchVars
<1>10. CASE Prompt \/ APEX_cpu_stop \/ Idle \/ UNCHANGED vars
  <2>1. UNCHANGED <<fetchVars, latch>>
    BY <1>10 DEF Prompt, APEX_cpu_stop, Idle, vars
  <2>2. ~APEX_RD2
    BY <1>10, StageStep, IdleStep, <2>1 DEF APEX_RD2, APEX_cpu_stop, vars, Idle, Runs
  <2>. QED BY <1>3, <1>4, <2>1, <2>2 DEF fetchVars
<1>. QED
  BY <1>5, <1>6, <1>7, <1>8, <1>9, <1>10 DEF Next

(* What APEX_issue does with the issue queue and the units: a unit gets an *)
(* instruction it is for from the list, or none does; then the memory part *)
(* runs.                                                                   *)
LEMMA IssueGives ==
  ASSUME TypeInv, IqShape, APEX_issue
  PROVE  /\ \A k \in 1 .. Len(iq') : \E j \in 1 .. Len(iq) :
              iq'[k].pc = iq[j].pc /\ iq'[k].opcode = iq[j].opcode
         /\ \E l \in [LatchStage -> Latch] :
              /\ MemoryPart(l) /\ l.issue.has_insn = TRUE
              /\ \/ l = latch
                 \/ \E fu \in IQ!Unit, e \in Latch, j \in 1 .. Len(iq) :
                      /\ l = [latch EXCEPT !.issue = e, ![UnitStage(fu)] = e]
                      /\ e.pc = iq[j].pc /\ e.opcode = iq[j].opcode /\ fuType(e.opcode) = fu
<1>0. /\ latch \in [LatchStage -> Latch] /\ latch.issue.has_insn = TRUE /\ latch.issue \in Latch
  <2>1. latch \in [LatchStage -> Latch] /\ latch.issue.has_insn
    BY DEF TypeInv, LatchTypes, LatchesFit, APEX_issue
  <2>2. latch.issue \in Latch
    BY <2>1, LatchStages
  <2>. QED BY <2>1, <2>2 DEF Latch
<1>1. PICK queue : queue = IQ!WithNextAllocated
  OBVIOUS
<1>2. /\ queue \in Seq(QueueEntry)
      /\ Len(queue) = Len(iq)
      /\ IQ!Allocated(queue) = 1 .. Len(queue)
      /\ \A k \in 1 .. Len(iq) : queue[k].opcode = iq[k].opcode /\ queue[k].pc = iq[k].pc
  BY <1>1, AllAllocated
<1>3. Len(iq) \in Nat
  BY QueueIs
<1>4. Len(<< >>) = 0 /\ 1 .. Len(<< >>) = {}
  BY EmptySeq
<1>5. CASE /\ \A fu \in IQ!Unit : ~CanStart(queue, fu)
           /\ iq' = queue
           /\ MemoryPart(latch)
  BY <1>0, <1>2, <1>5
<1>6. ASSUME NEW fu \in IQ!Unit, CanStart(queue, fu), iq' = IQ!Unlinked(queue),
             NEW entry, entry = IssueLatch(IQ!Selected(queue)),
             MemoryPart([latch EXCEPT !.issue = entry, ![UnitStage(fu)] = entry])
      PROVE  /\ \A k \in 1 .. Len(iq') : \E j \in 1 .. Len(iq) :
                   iq'[k].pc = iq[j].pc /\ iq'[k].opcode = iq[j].opcode
             /\ \E l \in [LatchStage -> Latch] :
                  /\ MemoryPart(l) /\ l.issue.has_insn = TRUE
                  /\ \E e \in Latch, j \in 1 .. Len(iq) :
                        /\ l = [latch EXCEPT !.issue = e, ![UnitStage(fu)] = e]
                        /\ e.pc = iq[j].pc /\ e.opcode = iq[j].opcode /\ fuType(e.opcode) = fu
  <2>1. IQ!Allocated(queue) # {} /\ \A k \in 1 .. Len(queue) : queue[k].fuType = fu
    BY <1>2, <1>6 DEF CanStart, IQ!Offered
  <2>2. PICK e : e = IQ!Selected(queue)
    OBVIOUS
  <2>3. PICK k \in 1 .. Len(iq) : e = queue[k]
    BY <1>2, <2>1, <2>2, SelectedIsEntry DEF IQ!Selected
  <2>4. e \in QueueEntry
    BY <1>2, <2>1, <2>2, SelectedIsEntry
  <2>5. /\ e.pc \in InsnPc /\ e.opcode \in Opcode /\ e.imm \in Int /\ e.prs1 \in PregTag
        /\ e.prs1Value \in Word /\ e.prs2Value \in Word /\ e.dest \in Preg
        /\ fuType(e.opcode) = fu
    BY <1>2, <2>1, <2>3, <2>4 DEF QueueEntry, IQ!Entry
  <2>6. entry = [latch.issue EXCEPT !.pc = e.pc, !.opcode = e.opcode, !.imm = e.imm,
                      !.prs1 = e.prs1, !.rs1_value = e.prs1Value,
                      !.rs2_value = e.prs2Value, !.prd = e.dest]
    BY <1>6, <2>2 DEF IssueLatch
  <2>7. /\ entry \in Latch /\ entry.has_insn = TRUE /\ entry.opcode = e.opcode
        /\ entry.pc = e.pc
    BY <1>0, <2>5, <2>6 DEF Latch
  <2>8. UnitStage(fu) \in LatchStage
    BY LatchStages DEF IQ!Unit, UnitStage
  <2>9. PICK l : l = [latch EXCEPT !.issue = entry, ![UnitStage(fu)] = entry]
    OBVIOUS
  <2>10. l \in [LatchStage -> Latch] /\ l.issue = entry
    BY <1>0, <2>7, <2>8, <2>9, LatchStages
  <2>11. entry.pc = iq[k].pc /\ entry.opcode = iq[k].opcode /\ fuType(entry.opcode) = fu
    BY <1>2, <2>3, <2>5, <2>7
  <2>12. IQ!Unlinked(queue) \in {queue, << >>}
    <3>1. CASE Len(queue) = 1
      <4>1. Tail(queue) = << >>
        BY <1>2, <3>1, TailOfOne
      <4>. QED BY <4>1 DEF IQ!Unlinked
    <3>2. CASE Len(queue) # 1
      <4>1. IQ!Allocated(queue) # {1}
        BY <1>2, <1>3, <3>2
      <4>. QED BY <4>1 DEF IQ!Unlinked
    <3>. QED BY <3>1, <3>2
  <2>13. \A j \in 1 .. Len(iq') : j \in 1 .. Len(iq) /\ iq'[j].pc = iq[j].pc
                                  /\ iq'[j].opcode = iq[j].opcode
    BY <1>2, <1>4, <1>6, <2>12
  <2>. QED BY <1>6, <2>7, <2>9, <2>10, <2>11, <2>13
<1>7. PICK entry : entry = IssueLatch(IQ!Selected(queue))
  OBVIOUS
<1>8. \/ \E fu \in IQ!Unit :
           /\ CanStart(queue, fu)
           /\ iq' = IQ!Unlinked(queue)
           /\ MemoryPart([latch EXCEPT !.issue = entry, ![UnitStage(fu)] = entry])
      \/ /\ \A fu \in IQ!Unit : ~CanStart(queue, fu)
         /\ iq' = queue
         /\ MemoryPart(latch)
  BY <1>1, <1>7 DEF APEX_issue
<1>9. CASE \E fu \in IQ!Unit :
             /\ CanStart(queue, fu)
             /\ iq' = IQ!Unlinked(queue)
             /\ MemoryPart([latch EXCEPT !.issue = entry, ![UnitStage(fu)] = entry])
  <2>1. PICK fu \in IQ!Unit :
             /\ CanStart(queue, fu)
             /\ iq' = IQ!Unlinked(queue)
             /\ MemoryPart([latch EXCEPT !.issue = entry, ![UnitStage(fu)] = entry])
    BY <1>9
  <2>2. /\ \A k \in 1 .. Len(iq') : \E j \in 1 .. Len(iq) :
                iq'[k].pc = iq[j].pc /\ iq'[k].opcode = iq[j].opcode
        /\ \E l \in [LatchStage -> Latch] :
             /\ MemoryPart(l) /\ l.issue.has_insn = TRUE
             /\ \E e \in Latch, j \in 1 .. Len(iq) :
                  /\ l = [latch EXCEPT !.issue = e, ![UnitStage(fu)] = e]
                  /\ e.pc = iq[j].pc /\ e.opcode = iq[j].opcode /\ fuType(e.opcode) = fu
    BY <1>6, <1>7, <2>1
  <2>. QED BY <2>2
<1>. QED BY <1>5, <1>8, <1>9

(* What the memory part does to the latches, whatever it starts.           *)
LEMMA MemoryPartLatches ==
  ASSUME NEW l \in [LatchStage -> Latch], MemoryPart(l)
  PROVE  /\ \A s \in LatchStage \ {"issue", "memory"} : latch'[s] = l[s]
         /\ latch' = l \/ is_MEM_free
<1>1. \/ latch' = l
      \/ is_MEM_free /\ \E op : latch' = [l EXCEPT !.issue = op, !.memory = op]
  BY DEF MemoryPart, LoadToMemory, StoreToMemory, NothingToMemory, StartMemory
<1>. QED BY <1>1

(* A unit keeps what it got until it passes it on.                         *)
LEMMA UnitsKept ==
  ASSUME TypeInv, TypeInv', BranchFree, InOrder, IqShape, [Next]_vars, code' = code
  PROVE  UnitsRight'
<1>0. /\ latch \in [LatchStage -> Latch] /\ latch' \in [LatchStage -> Latch]
      /\ \A s \in LatchStage : latch[s] \in Latch
      /\ \A s \in LatchStage : latch'[s] \in Latch
      /\ UnitsRight
  BY DEF TypeInv, LatchTypes, LatchesFit, InOrder
<1>1. Address' = Address /\ \A p : OpAt(p)' = OpAt(p)
  BY RightKept
(* The latches, then the list.                                             *)
<1>. DEFINE UnitLatches == {"IU", "IUforward", "MU", "MUforward", "BU"}
            LatchesRight ==
              /\ \A s \in {"IU", "IUforward"} : latch'[s].has_insn => Right(latch'[s])
              /\ \A s \in {"MU", "MUforward"} : latch'[s].has_insn =>
                   Right(latch'[s]) /\ fuType(latch'[s].opcode) = 1
              /\ latch'.BU.has_insn => Right(latch'.BU)
              /\ latch'.BU.pc # 0 => Right(latch'.BU) /\ fuType(latch'.BU.opcode) = 2
            ListRight == \A k \in 1 .. Len(iq') : Right(iq'[k])
<1>2. ASSUME LatchesRight, ListRight PROVE UnitsRight'
  BY <1>1, <1>2 DEF UnitsRight, Right
<1>3. ASSUME \A s \in UnitLatches : latch'[s] = latch[s] PROVE LatchesRight
  BY <1>0, <1>3 DEF UnitsRight
<1>4. ASSUME iq' = iq PROVE ListRight
  BY <1>0, <1>4 DEF UnitsRight
<1>5. ASSUME NEW prd, NEW result, IQ!IQupdate(prd, result) PROVE ListRight
  BY <1>0, <1>5, IQupdateKeepsList DEF UnitsRight, Right
(* A stage that clears a latch, and may pass the instruction on.           *)
<1>6. ASSUME NEW s \in UnitLatches, NEW t \in LatchStage,
             latch'[s] = [latch[s] EXCEPT !.has_insn = FALSE] \/ latch'[s] = latch[s]
      PROVE  /\ latch'[s].pc = latch[s].pc /\ latch'[s].opcode = latch[s].opcode
             /\ latch'[s].has_insn => latch[s].has_insn
  <2>1. latch[s] \in Latch
    BY <1>0, LatchStages
  <2>. QED BY <1>6, <2>1 DEF Latch
<1>7. CASE APEX_IU
  <2>1. PICK v : /\ latch' = [latch EXCEPT !.IUforward = v, !.IU.has_insn = FALSE]
                 /\ v = [latch.IU EXCEPT !.result_buffer = IUResult(latch.IU),
                                         !.memory_address = IUAddress(latch.IU)]
    BY <1>7 DEF APEX_IU
  <2>2. v.has_insn = latch.IU.has_insn /\ v.pc = latch.IU.pc /\ v.opcode = latch.IU.opcode
    BY <1>0, <2>1, LatchStages DEF Latch
  <2>3. latch'.IUforward = v /\ latch'.IU = [latch.IU EXCEPT !.has_insn = FALSE]
    BY <1>0, <2>1, LatchStages
  <2>4. \A s \in {"MU", "MUforward", "BU"} : latch'[s] = latch[s]
    BY <1>0, <1>7, LatchFrame, LatchStages DEF Touches
  <2>5. latch'.IU.has_insn = FALSE
    BY <1>0, <2>3, LatchStages DEF Latch
  <2>6. LatchesRight
    BY <1>0, <1>7, <2>2, <2>3, <2>4, <2>5 DEF UnitsRight, Right, APEX_IU
  <2>. QED BY <1>2, <1>4, <1>7, <2>6 DEF APEX_IU, iqVars
<1>8. CASE APEX_MU
  <2>1. iq' = iq
    BY <1>8 DEF APEX_MU, iqVars
  <2>2. \A s \in {"IU", "IUforward", "BU"} : latch'[s] = latch[s]
    BY <1>0, <1>8, LatchFrame, LatchStages DEF Touches
  <2>3. CASE latch' = latch
    BY <1>2, <1>3, <1>4, <2>1, <2>3
  <2>4. CASE latch' # latch
    <3>1. PICK v, w : /\ latch' = [latch EXCEPT !.MU.has_insn = FALSE, !.MUforward = v]
                      /\ v = [latch.MU EXCEPT !.result_buffer = w]
      BY <1>8, <2>4 DEF APEX_MU
    <3>2. v.has_insn = latch.MU.has_insn /\ v.pc = latch.MU.pc /\ v.opcode = latch.MU.opcode
      BY <1>0, <3>1, LatchStages DEF Latch
    <3>3. latch'.MUforward = v /\ latch'.MU = [latch.MU EXCEPT !.has_insn = FALSE]
      BY <1>0, <3>1, LatchStages
    <3>4. latch'.MU.has_insn = FALSE
      BY <1>0, <3>3, LatchStages DEF Latch
    <3>6. latch.MU.has_insn
      BY <1>8 DEF APEX_MU
    <3>7. Right(latch.MU) /\ fuType(latch.MU.opcode) = 1
      BY <1>0, <3>6 DEF UnitsRight
    <3>8. Right(v) /\ fuType(v.opcode) = 1
      BY <3>2, <3>7 DEF Right
    <3>9. \A s \in {"MU", "MUforward"} : latch'[s].has_insn =>
            Right(latch'[s]) /\ fuType(latch'[s].opcode) = 1
      BY <3>3, <3>4, <3>8
    <3>5. LatchesRight
      BY <1>0, <2>2, <3>9 DEF UnitsRight
    <3>. QED BY <1>2, <1>4, <2>1, <3>5
  <2>. QED BY <2>3, <2>4
<1>9. CASE APEX_BU
  <2>1. latch'.BU = [latch.BU EXCEPT !.has_insn = FALSE] \/ latch'.BU = latch.BU
    BY <1>0, <1>9, LatchStages DEF APEX_BU, Branch
  <2>2. /\ latch'.BU.pc = latch.BU.pc /\ latch'.BU.opcode = latch.BU.opcode
        /\ latch'.BU.has_insn => latch.BU.has_insn
    BY <1>6, <2>1, LatchStages
  <2>3. \A s \in {"IU", "IUforward", "MU", "MUforward"} : latch'[s] = latch[s]
    BY <1>0, <1>9, LatchFrame, LatchStages DEF Touches
  <2>4. LatchesRight
    BY <1>0, <2>2, <2>3 DEF UnitsRight, Right
  <2>. QED BY <1>2, <1>4, <1>9, <2>4 DEF APEX_BU, iqVars
<1>10. CASE APEX_IUforward
  <2>1. ~latch'.IUforward.has_insn
    BY <1>0, <1>10, LatchEmptied
  <2>2. \A s \in {"IU", "MU", "MUforward", "BU"} : latch'[s] = latch[s]
    BY <1>0, <1>10, LatchFrame, LatchStages DEF Touches
  <2>3. LatchesRight
    BY <1>0, <2>1, <2>2 DEF UnitsRight
  <2>4. iq' = iq \/ \E p, r : IQ!IQupdate(p, r)
    BY <1>10 DEF APEX_IUforward, iqVars
  <2>. QED BY <1>2, <1>4, <1>5, <2>3, <2>4
<1>11. CASE APEX_MUforward
  <2>1. ~latch'.MUforward.has_insn
    BY <1>0, <1>11, LatchEmptied
  <2>2. \A s \in {"IU", "IUforward", "MU", "BU"} : latch'[s] = latch[s]
    BY <1>0, <1>11, LatchFrame, LatchStages DEF Touches
  <2>3. LatchesRight
    BY <1>0, <2>1, <2>2 DEF UnitsRight
  <2>4. \E p, r : IQ!IQupdate(p, r)
    BY <1>11 DEF APEX_MUforward
  <2>. QED BY <1>2, <1>5, <2>3, <2>4
<1>12. CASE APEX_RD2
  <2>1. \A s \in UnitLatches : latch'[s] = latch[s]
    BY <1>0, <1>12, LatchFrame, LatchStages DEF Touches
  <2>2. ListRight
    <3>1. CASE iq' = iq
      BY <1>4, <3>1
    <3>2. CASE iq' # iq
      <4>1. PICK sent, i, f : /\ sent = [latch.RD2 EXCEPT !.lsqIndex = i]
                              /\ IQ!iqEntry(sent, f)
        BY <1>12, <3>2 DEF APEX_RD2, iqVars
      <4>2. sent.pc = latch.RD2.pc /\ sent.opcode = latch.RD2.opcode
        BY <1>0, <4>1, LatchStages DEF Latch
      <4>3. PICK e : /\ e.pc = sent.pc /\ e.opcode = sent.opcode /\ iq' = Append(iq, e)
        BY <4>1 DEF IQ!iqEntry
      <4>4. Len(iq) \in Nat /\ iq \in Seq(QueueEntry)
        BY QueueIs DEF TypeInv, IqTypes
      <4>5. /\ Len(iq') = Len(iq) + 1
            /\ \A k \in 1 .. Len(iq) : iq'[k] = iq[k]
            /\ iq'[Len(iq) + 1] = e
        BY <4>3, <4>4
      <4>6. Right(latch.RD2)
        BY <1>12 DEF APEX_RD2, InOrder, FrontOrder
      <4>7. Right(e)
        BY <4>2, <4>3, <4>6 DEF Right
      <4>. QED BY <1>0, <4>4, <4>5, <4>7 DEF UnitsRight
    <3>. QED BY <3>1, <3>2
  <2>. QED BY <1>2, <1>3, <2>1, <2>2
<1>13. CASE APEX_issue
  <2>1. ListRight
    <3>1. ASSUME NEW k \in 1 .. Len(iq') PROVE Right(iq'[k])
      <4>1. PICK j \in 1 .. Len(iq) : iq'[k].pc = iq[j].pc /\ iq'[k].opcode = iq[j].opcode
        BY <1>13, <3>1, IssueGives
      <4>2. Right(iq[j])
        BY <1>0 DEF UnitsRight
      <4>. QED BY <4>1, <4>2 DEF Right
    <3>. QED BY <3>1
  <2>2. PICK l \in [LatchStage -> Latch] :
          /\ MemoryPart(l)
          /\ \/ l = latch
             \/ \E fu \in IQ!Unit, e \in Latch, j \in 1 .. Len(iq) :
                  /\ l = [latch EXCEPT !.issue = e, ![UnitStage(fu)] = e]
                  /\ e.pc = iq[j].pc /\ e.opcode = iq[j].opcode /\ fuType(e.opcode) = fu
    BY <1>13, IssueGives
  <2>3. \A s \in UnitLatches : latch'[s] = l[s]
    BY <2>2, MemoryPartLatches, LatchStages
  <2>4. CASE l = latch
    BY <1>2, <1>3, <2>1, <2>3, <2>4
  <2>5. ASSUME NEW fu \in IQ!Unit, NEW e \in Latch, NEW j \in 1 .. Len(iq),
               l = [latch EXCEPT !.issue = e, ![UnitStage(fu)] = e],
               e.pc = iq[j].pc, e.opcode = iq[j].opcode, fuType(e.opcode) = fu
        PROVE  LatchesRight
    <3>1. Right(e)
      BY <1>0, <2>5 DEF UnitsRight, Right
    <3>2. \A s \in UnitLatches : l[s] = IF s = UnitStage(fu) THEN e ELSE latch[s]
      BY <1>0, <2>5, LatchStages DEF IQ!Unit, UnitStage
    <3>3. UnitStage(fu) \in {"IU", "MU", "BU"} /\ (UnitStage(fu) = "MU" <=> fu = 1)
          /\ (UnitStage(fu) = "BU" <=> fu = 2)
      BY DEF IQ!Unit, UnitStage
    <3>. QED BY <1>0, <2>3, <2>5, <3>1, <3>2, <3>3 DEF UnitsRight
  <2>. QED BY <1>2, <2>1, <2>2, <2>4, <2>5
<1>14. CASE APEX_writeback \/ APEX_ROBcommit \/ APEX_memoryForward \/ APEX_memory \/ APEX_DR1
            \/ APEX_fetch
  <2>1. \A s \in UnitLatches : latch'[s] = latch[s]
    BY <1>0, <1>14, LatchFrame, LatchStages DEF Touches
  <2>2. iq' = iq
    BY <1>14 DEF APEX_writeback, APEX_ROBcommit, APEX_memoryForward, APEX_memory, APEX_DR1,
         APEX_fetch, iqVars
  <2>. QED BY <1>2, <1>3, <1>4, <2>1, <2>2
<1>15. CASE Prompt \/ APEX_cpu_stop \/ Idle \/ UNCHANGED vars
  <2>1. UNCHANGED <<iqVars, latch>>
    BY <1>15 DEF Prompt, APEX_cpu_stop, Idle, vars
  <2>. QED BY <1>2, <1>3, <1>4, <2>1 DEF iqVars
<1>. QED
  BY <1>7, <1>8, <1>9, <1>10, <1>11, <1>12, <1>13, <1>14, <1>15 DEF Next

(* A step that keeps where the entries of the rob come from.               *)
LEMMA RobRowsKept ==
  ASSUME UNCHANGED <<rob_head, rob_tail>>,
         \A k \in 1 .. RobCount : /\ rob'[RobPlace(k)].pc_value = rob[RobPlace(k)].pc_value
                                  /\ rob'[RobPlace(k)].opcode = rob[RobPlace(k)].opcode
  PROVE  /\ RobCount' = RobCount
         /\ \A k \in 1 .. RobCount : RobView'[k].pc = RobView[k].pc
                                     /\ RobView'[k].opcode = RobView[k].opcode
<1>1. RobCount' = RobCount
  BY DEF RobCount
<1>2. RobView' = [k \in 1 .. RobCount' |-> RobRow(rob'[RingSlot(rob_head', k, rob_SIZE)])]
  BY DEF RobView, RobPlace, RobRow
<1>3. \A k \in 1 .. RobCount : RobView'[k] = RobRow(rob'[RobPlace(k)])
  BY <1>1, <1>2 DEF RobPlace
<1>. QED BY <1>1, <1>3 DEF RobView, RobRow

(* What memoryForward completes keeps its address.                         *)
LEMMA MemoryForwardKeepsRows ==
  ASSUME TypeInv, APEX_memoryForward
  PROVE  /\ UNCHANGED <<rob_head, rob_tail>>
         /\ \A i \in ROB!RobSlot : /\ rob'[i].pc_value = rob[i].pc_value
                                   /\ rob'[i].opcode = rob[i].opcode
<1>1. rob \in [ROB!RobSlot -> ROB!RobEntry]
  BY DEF TypeInv, RobTypes
<1>2. PICK r, v : \/ rob' = [rob EXCEPT ![r].allocated = 1, ![r].result = v]
                  \/ rob' = [rob EXCEPT ![rob_head].allocated = 1]
                  \/ rob' = rob
  BY DEF APEX_memoryForward
<1>3. ASSUME NEW i \in ROB!RobSlot
      PROVE  rob'[i].pc_value = rob[i].pc_value /\ rob'[i].opcode = rob[i].opcode
  <2>1. rob[i] \in ROB!RobEntry
    BY <1>1
  <2>2. rob'[i] \in {rob[i], [rob[i] EXCEPT !.allocated = 1, !.result = v],
                     [rob[i] EXCEPT !.allocated = 1]}
    BY <1>1, <1>2
  <2>. QED BY <2>1, <2>2 DEF ROB!RobEntry
<1>. QED BY <1>3 DEF APEX_memoryForward

(* What is to enter the queues next lies at or behind the first address.   *)
LEMMA FrontIsAddress ==
  ASSUME TypeInv, FrontOrder
  PROVE  Front \in Int /\ 4000 <= Front
<1>1. Len(code) \in Nat
  BY LenProperties DEF TypeInv, ControlTypes
<1>2. pc \in Int /\ 4000 <= pc
  BY <1>1 DEF FrontOrder
<1>. QED BY <1>2, AddressIsPositive DEF FrontOrder, Front, Right

(* What a step does to the rob and to writeback: it keeps both, RD2 enters *)
(* what it holds, or ROBcommit retires the oldest or, from an empty rob,   *)
(* the slot in front.                                                      *)
RobKept == /\ RobCount' = RobCount
           /\ \A k \in 1 .. RobCount : /\ RobView'[k].pc = RobView[k].pc
                                       /\ RobView'[k].opcode = RobView[k].opcode
RobGets(x) == /\ RobCount' = RobCount + 1
              /\ RobView'[RobCount + 1].pc = x.pc /\ RobView'[RobCount + 1].opcode = x.opcode
              /\ \A k \in 1 .. RobCount : RobView'[k] = RobView[k]
RobLoses == /\ RobCount # 0
            /\ RobCount' = RobCount - 1
            /\ \A k \in 1 .. RobCount - 1 : RobView'[k] = RobView[k + 1]
Writes(p, op) == /\ latch'.writeback.pc = p
                 /\ latch'.writeback.opcode = op
WritesNothing == /\ latch'.writeback.pc = latch.writeback.pc
                 /\ latch'.writeback.has_insn => latch.writeback.has_insn

RobStep ==
  \/ RobKept /\ WritesNothing
  \/ APEX_RD2 /\ latch.RD2.has_insn /\ RobGets(latch.RD2) /\ WritesNothing
  \/ /\ APEX_ROBcommit /\ MayRetire /\ RobKept /\ RobCount = 0
     /\ Writes(rob[-1].pc_value, rob[-1].opcode)
  \/ APEX_ROBcommit /\ RobLoses /\ Writes(RobView[1].pc, RobView[1].opcode)

(* What RD2 holds it puts into the rob, unless it is a DIV.                *)
LEMMA Dispatches ==
  ASSUME TypeInv, APEX_RD2, latch.RD2.opcode # "DIV"
  PROVE  RobGets(latch.RD2) /\ rob'[-1] = rob[-1]
<1>1. PICK x : x = latch.RD2
  OBVIOUS
<1>2. latch.RD2.has_insn /\ x \in Latch
  BY <1>1, LatchStages DEF APEX_RD2, TypeInv, LatchTypes, LatchesFit
<1>3. PICK sent, index : sent = [x EXCEPT !.lsqIndex = index] /\ ROB!rob_Entry(sent)
  BY <1>1 DEF APEX_RD2
<1>4. sent.pc = x.pc /\ sent.opcode = x.opcode
  BY <1>2, <1>3 DEF Latch
<1>5. ~ROB!rob_checkFull /\ RobCount \in Nat
  BY <1>2, ViewsHaveTypes DEF TypeInv, RoomInv, RobRoom, ViewsFit
<1>6. /\ RobCount' = RobCount + 1
      /\ RobView' = [k \in 1 .. RobCount + 1 |->
                       IF k = RobCount + 1
                       THEN [pc |-> sent.pc, opcode |-> sent.opcode, index |-> sent.lsqIndex,
                             done |-> 0]
                       ELSE RobView[k]]
      /\ rob'[-1] = rob[-1]
  BY <1>3, <1>5, RobEntered
<1>. QED BY <1>1, <1>4, <1>5, <1>6 DEF RobGets

(* A step of the processor enters an instruction at the end of the rob,    *)
(* takes the oldest away, marks one as done or leaves the rob alone; it    *)
(* never changes the pc in front of the array.                             *)
LEMMA EveryRobStep ==
  ASSUME TypeInv, TypeInv', [Next]_vars
  PROVE  RobStep /\ rob'[-1].pc_value = rob[-1].pc_value
<1>0. /\ ViewsFit /\ RobCount \in Nat /\ -1 \in ROB!RobSlot
      /\ latch \in [LatchStage -> Latch] /\ latch' \in [LatchStage -> Latch]
      /\ \A s \in LatchStage : latch[s] \in Latch
      /\ \A s \in LatchStage : latch'[s] \in Latch
  BY ViewsHaveTypes, SizesAssumption DEF ViewsFit, ROB!RobSlot, TypeInv, LatchTypes, LatchesFit
<1>1. ASSUME latch'.writeback = latch.writeback PROVE WritesNothing
  BY <1>1 DEF WritesNothing
<1>2. ASSUME UNCHANGED robVars, WritesNothing
      PROVE  RobStep /\ rob'[-1].pc_value = rob[-1].pc_value
  <2>1. RobCount' = RobCount /\ RobView' = RobView
    BY <1>2, RobUnchanged DEF RobSame
  <2>. QED BY <1>2, <2>1 DEF robVars, RobStep, RobKept
<1>3. ASSUME NEW p, NEW result, ROB!rob_update(p, result), latch'.writeback = latch.writeback
      PROVE  RobStep /\ rob'[-1].pc_value = rob[-1].pc_value
  <2>1. /\ RobCount' = RobCount
        /\ RobView' = [k \in 1 .. RobCount |-> IF RobView[k].pc = p
                                               THEN [RobView[k] EXCEPT !.done = 1] ELSE RobView[k]]
        /\ rob'[-1].pc_value = rob[-1].pc_value
    BY <1>3, RobUpdated
  <2>2. ASSUME NEW k \in 1 .. RobCount
        PROVE  RobView'[k].pc = RobView[k].pc /\ RobView'[k].opcode = RobView[k].opcode
    <3>1. RobView[k] \in RobRows
      BY <1>0 DEF ViewsFit
    <3>. QED BY <2>1, <3>1 DEF RobRows
  <2>. QED BY <1>1, <1>3, <2>1, <2>2 DEF RobStep, RobKept
<1>4. CASE APEX_IUforward \/ APEX_MUforward \/ APEX_BU
  <2>1. latch'.writeback = latch.writeback
    BY <1>0, <1>4, LatchFrame, LatchStages DEF Touches
  <2>2. UNCHANGED robVars \/ \E p, result : ROB!rob_update(p, result)
    BY <1>4 DEF APEX_IUforward, APEX_MUforward, APEX_BU
  <2>. QED BY <1>1, <1>2, <1>3, <2>1, <2>2
<1>5. CASE APEX_memoryForward
  <2>1. /\ UNCHANGED <<rob_head, rob_tail>>
        /\ \A i \in ROB!RobSlot : /\ rob'[i].pc_value = rob[i].pc_value
                                  /\ rob'[i].opcode = rob[i].opcode
    BY <1>5, MemoryForwardKeepsRows
  <2>2. \A k \in 1 .. RobCount : RobPlace(k) \in ROB!RobSlot
    BY <1>0 DEF ViewsFit, ROB!RobSlot
  <2>3. RobKept
    BY <2>1, <2>2, RobRowsKept DEF RobKept
  <2>4. latch'.writeback = latch.writeback
    BY <1>0, <1>5, LatchFrame, LatchStages DEF Touches
  <2>. QED BY <1>0, <1>1, <2>1, <2>3, <2>4 DEF RobStep
<1>6. CASE APEX_RD2
  <2>1. WritesNothing
    <3>1. latch'.writeback = latch.writeback
      BY <1>0, <1>6, LatchFrame, LatchStages DEF Touches
    <3>. QED BY <1>1, <3>1
  <2>2. CASE latch.RD2.opcode = "DIV"
    <3>1. UNCHANGED robVars
      BY <1>6, <2>2 DEF APEX_RD2
    <3>. QED BY <1>2, <2>1, <3>1
  <2>3. CASE latch.RD2.opcode # "DIV"
    <3>1. RobGets(latch.RD2) /\ rob'[-1] = rob[-1] /\ latch.RD2.has_insn
      BY <1>6, <2>3, Dispatches DEF APEX_RD2
    <3>. QED BY <1>6, <2>1, <3>1 DEF RobStep
  <2>. QED BY <2>2, <2>3
<1>7. CASE APEX_ROBcommit
  <2>1. CASE UNCHANGED <<latch, robVars>>
    <3>1. latch' = latch /\ UNCHANGED robVars
      BY <2>1
    <3>. QED BY <1>1, <1>2, <3>1
  <2>2. CASE ~UNCHANGED <<latch, robVars>>
    <3>1. PICK e : e = rob[rob_head]
      OBVIOUS
    <3>2. ROB!rob_Commitment /\ MayRetire
      BY <1>7, <2>2 DEF APEX_ROBcommit
    <3>3. PICK retired :
            /\ retired = [latch.ROBcommit EXCEPT !.result_buffer = e.result, !.rd = e.rd,
                                                 !.opcode = e.opcode, !.pc = e.pc_value]
            /\ latch' = [latch EXCEPT !.writeback = retired,
                           !.ROBcommit = [retired EXCEPT !.has_insn = (rob_head' # -1)]]
      BY <1>7, <2>2, <3>1 DEF APEX_ROBcommit
    <3>4. latch.ROBcommit \in Latch
      BY <1>0, LatchStages
    <3>5. latch'.writeback = retired
      BY <1>0, <3>3, LatchStages
    <3>6. Writes(e.pc_value, e.opcode)
      <4>1. PICK x : x = latch.ROBcommit
        OBVIOUS
      <4>2. retired = [x EXCEPT !.result_buffer = e.result, !.rd = e.rd,
                                !.opcode = e.opcode, !.pc = e.pc_value] /\ x \in Latch
        BY <3>3, <3>4, <4>1
      <4>3. retired.pc = e.pc_value /\ retired.opcode = e.opcode
        BY <4>2 DEF Latch
      <4>. QED BY <3>5, <4>3 DEF Writes
    <3>7. /\ RobCount = 0 => RobSame
          /\ RobCount # 0 => /\ RobCount' = RobCount - 1
                             /\ RobView' = [k \in 1 .. RobCount - 1 |-> RobView[k + 1]]
          /\ rob' = rob
      BY <3>2, RobCommitted
    <3>8. CASE RobCount = 0
      <4>1. e = rob[-1]
        BY <1>0, <3>1, <3>8 DEF ViewsFit
      <4>. QED BY <1>7, <3>2, <3>6, <3>7, <3>8, <4>1 DEF RobStep, RobKept, RobSame
    <3>9. CASE RobCount # 0
      <4>1. RobView[1] = RobRow(e)
        BY <1>0, <3>1, <3>9 DEF ViewsFit, RobView
      <4>2. RobLoses
        BY <3>7, <3>9 DEF RobLoses
      <4>. QED BY <1>7, <3>6, <3>7, <4>1, <4>2 DEF RobStep, RobRow
    <3>. QED BY <3>8, <3>9
  <2>. QED BY <2>1, <2>2
<1>8. CASE APEX_writeback
  <2>1. UNCHANGED robVars /\ latch' = [latch EXCEPT !.writeback.has_insn = FALSE]
    BY <1>8 DEF APEX_writeback
  <2>2. latch'.writeback = [latch.writeback EXCEPT !.has_insn = FALSE] /\ latch.writeback \in Latch
    BY <1>0, <2>1, LatchStages
  <2>3. WritesNothing
    BY <2>2 DEF WritesNothing, Latch
  <2>. QED BY <1>2, <2>1, <2>3
<1>9. CASE APEX_MU \/ APEX_IU \/ APEX_issue \/ APEX_memory \/ APEX_DR1
           \/ APEX_fetch
  <2>1. UNCHANGED robVars
    BY <1>9 DEF APEX_MU, APEX_IU, APEX_issue, APEX_memory, APEX_DR1, APEX_fetch
  <2>2. latch'.writeback = latch.writeback
    BY <1>0, <1>9, LatchFrame, LatchStages DEF Touches
  <2>. QED BY <1>1, <1>2, <2>1, <2>2
<1>10. CASE Prompt \/ APEX_cpu_stop \/ Idle \/ UNCHANGED vars
  <2>1. UNCHANGED <<robVars, latch>>
    BY <1>10 DEF Prompt, APEX_cpu_stop, Idle, vars
  <2>. QED BY <1>1, <1>2, <2>1
<1>. QED BY <1>4, <1>5, <1>6, <1>7, <1>8, <1>9, <1>10 DEF Next

(* The rob is filled in program order, and emptied from its oldest on.     *)
LEMMA RobOrderKept ==
  ASSUME TypeInv, TypeInv', BranchFree, InOrder, Schedule, [Next]_vars, code' = code
  PROVE  RobOrder'
<1>0. /\ RobCount \in Nat /\ RobStep
      /\ Front \in Int /\ Front' \in Int /\ Front <= Front'
      /\ APEX_RD2 => latch.RD2.pc < Front' /\ latch.RD2.pc = Front
      /\ Address' = Address /\ \A p : OpAt(p)' = OpAt(p)
  <2>1. RobCount \in Nat
    BY ViewsHaveTypes DEF ViewsFit
  <2>. QED BY <2>1, EveryRobStep, FrontKept, RightKept
<1>1. \A k \in 1 .. RobCount :
        /\ Right(RobView[k]) /\ RobView[k].pc < Front /\ RobView[k].pc < Front'
        /\ RobView[k].pc \in Int
        /\ \A j \in 1 .. RobCount : j < k => RobView[j].pc < RobView[k].pc
  <2>1. \A k \in 1 .. RobCount : RobView[k].pc \in Int /\ RobView[k].pc < Front
    BY OrderIsDistinct DEF InOrder, RobOrder
  <2>2. \A k \in 1 .. RobCount : RobView[k].pc < Front'
    BY <1>0, <2>1
  <2>. QED BY <2>1, <2>2 DEF InOrder, RobOrder
<1>2. ASSUME \A k \in 1 .. RobCount' :
               /\ Right(RobView'[k]) /\ RobView'[k].pc < Front'
               /\ \A j \in 1 .. RobCount' : j < k => RobView'[j].pc < RobView'[k].pc
      PROVE  RobOrder'
  BY <1>0, <1>2 DEF RobOrder, Right
<1>3. CASE RobKept
  <2>1. ASSUME NEW k \in 1 .. RobCount'
        PROVE  /\ Right(RobView'[k]) /\ RobView'[k].pc < Front'
               /\ \A j \in 1 .. RobCount' : j < k => RobView'[j].pc < RobView'[k].pc
    BY <1>1, <1>3 DEF Right, RobKept
  <2>. QED BY <1>2, <2>1
<1>4. CASE APEX_RD2 /\ latch.RD2.has_insn /\ RobGets(latch.RD2)
  <2>1. PICK x : x = latch.RD2
    OBVIOUS
  <2>2. Right(x) /\ x.pc = Front /\ x.pc < Front'
    BY <1>0, <1>4, <2>1 DEF FrontOrder, InOrder
  <2>3. ASSUME NEW k \in 1 .. RobCount'
        PROVE  /\ Right(RobView'[k]) /\ RobView'[k].pc < Front'
               /\ \A j \in 1 .. RobCount' : j < k => RobView'[j].pc < RobView'[k].pc
    <3>0. \A j \in 1 .. RobCount' : j < k => j \in 1 .. RobCount /\ RobView'[j] = RobView[j]
      BY <1>0, <1>4 DEF RobGets
    <3>1. CASE k = RobCount + 1
      <4>1. RobView'[k].pc = x.pc /\ RobView'[k].opcode = x.opcode
        BY <1>4, <2>1, <3>1 DEF RobGets
      <4>. QED BY <1>1, <2>2, <3>0, <4>1 DEF Right
    <3>2. CASE k # RobCount + 1
      <4>1. k \in 1 .. RobCount /\ RobView'[k] = RobView[k]
        BY <1>0, <1>4, <3>2 DEF RobGets
      <4>. QED BY <1>1, <3>0, <4>1
    <3>. QED BY <3>1, <3>2
  <2>. QED BY <1>2, <2>3
<1>5. CASE RobLoses
  <2>1. \A k \in 1 .. RobCount' : k + 1 \in 1 .. RobCount /\ RobView'[k] = RobView[k + 1]
    BY <1>0, <1>5 DEF RobLoses
  <2>2. \A j, k \in 1 .. RobCount' : j < k => j + 1 < k + 1
    BY <1>0, <1>5 DEF RobLoses
  <2>. QED BY <1>1, <1>2, <2>1, <2>2
<1>. QED BY <1>0, <1>3, <1>4, <1>5 DEF RobStep

(* What retired last lies behind everything that is still to retire.       *)
LastRetired == /\ latch.writeback.pc < Front
               /\ \A k \in 1 .. RobCount : latch.writeback.pc < RobView[k].pc
               /\ rob[-1].pc_value \in {0, -1}

(* A step that keeps the order keeps what retired last before the rest.    *)
LEMMA LastRetiredKept ==
  ASSUME TypeInv, TypeInv', BranchFree, InOrder, LastRetired, Schedule, [Next]_vars, code' = code
  PROVE  LastRetired'
<1>0. /\ RobCount \in Nat /\ RobStep /\ rob'[-1].pc_value \in {0, -1}
      /\ Front \in Int /\ 4000 <= Front /\ Front' \in Int /\ Front <= Front'
      /\ APEX_RD2 => latch.RD2.pc = Front
      /\ latch.writeback.pc \in Int
      /\ \A k \in 1 .. RobCount : RobView[k].pc \in Int
  <2>1. RobCount \in Nat
    BY ViewsHaveTypes DEF ViewsFit
  <2>2. latch.writeback.pc \in Int
    <3>1. latch.writeback \in Latch
      BY LatchStages DEF TypeInv, LatchTypes, LatchesFit
    <3>. QED BY <3>1, InsnPcIsInt DEF Latch
  <2>3. rob'[-1].pc_value \in {0, -1} /\ RobStep
    BY EveryRobStep DEF LastRetired
  <2>4. Front \in Int /\ 4000 <= Front
    BY FrontIsAddress DEF InOrder
  <2>5. Front' \in Int /\ Front <= Front' /\ (APEX_RD2 => latch.RD2.pc = Front)
    BY FrontKept
  <2>6. \A k \in 1 .. RobCount : RobView[k].pc \in Int
    BY OrderIsDistinct DEF InOrder
  <2>. QED BY <2>1, <2>2, <2>3, <2>4, <2>5, <2>6
<1>1. CASE RobKept /\ WritesNothing
  BY <1>0, <1>1 DEF LastRetired, RobKept, WritesNothing
<1>2. CASE APEX_RD2 /\ RobGets(latch.RD2) /\ WritesNothing
  <2>1. ASSUME NEW k \in 1 .. RobCount' PROVE latch'.writeback.pc < RobView'[k].pc
    BY <1>0, <1>2 DEF LastRetired, RobGets, WritesNothing
  <2>2. latch'.writeback.pc < Front'
    BY <1>0, <1>2 DEF LastRetired, WritesNothing
  <2>. QED BY <1>0, <2>1, <2>2 DEF LastRetired
<1>3. CASE RobKept /\ RobCount = 0 /\ Writes(rob[-1].pc_value, rob[-1].opcode)
  BY <1>0, <1>3 DEF LastRetired, RobKept, Writes
<1>4. CASE RobLoses /\ Writes(RobView[1].pc, RobView[1].opcode)
  <2>1. 1 \in 1 .. RobCount
    BY <1>0, <1>4 DEF RobLoses
  <2>2. ASSUME NEW k \in 1 .. RobCount' PROVE latch'.writeback.pc < RobView'[k].pc
    <3>1. k + 1 \in 1 .. RobCount /\ RobView'[k] = RobView[k + 1] /\ 1 < k + 1
      BY <1>0, <1>4 DEF RobLoses
    <3>2. RobView[1].pc < RobView[k + 1].pc
      BY <2>1, <3>1 DEF InOrder, RobOrder
    <3>. QED BY <1>4, <3>1, <3>2 DEF Writes
  <2>3. RobView[1].pc < Front
    BY <2>1 DEF InOrder, RobOrder
  <2>4. latch'.writeback.pc < Front'
    BY <1>0, <1>4, <2>1, <2>3 DEF Writes
  <2>. QED BY <1>0, <2>2, <2>4 DEF LastRetired
<1>. QED BY <1>0, <1>1, <1>2, <1>3, <1>4 DEF RobStep

(* A program that has no branch, or has one, keeps it so.                  *)
LEMMA CodeWasKept ==
  ASSUME BranchFree', [Next]_vars
  PROVE  BranchFree
<1>1. overlay' = overlay
  BY DEF Next, APEX_writeback, APEX_ROBcommit, APEX_memoryForward, APEX_MUforward,
         APEX_MU, APEX_BU, Overwritten, APEX_IUforward, APEX_IU, APEX_issue, APEX_memory,
         APEX_RD2, APEX_DR1, APEX_fetch, Prompt, APEX_cpu_stop, Idle, vars, hostVars
<1>2. overlay = "none"
  BY <1>1 DEF BranchFree
<1>3. code' = code
  BY <1>2 DEF Next, APEX_writeback, APEX_ROBcommit, APEX_memoryForward, APEX_MUforward,
         APEX_MU, APEX_BU, Overwritten, APEX_IUforward, APEX_IU, APEX_issue, APEX_memory,
         APEX_RD2, APEX_DR1, APEX_fetch, Prompt, APEX_cpu_stop, Idle, vars, hostVars
<1>. QED BY <1>2, <1>3 DEF BranchFree

(* Order is kept by every step, and holds in the beginning.                *)
LEMMA InOrderKept ==
  ASSUME TypeInv, TypeInv', BranchFree, InOrder, Schedule, IqShape, [Next]_vars
  PROVE  InOrder' /\ (LastRetired => LastRetired')
<1>1. code' = code
  BY CodeKept
<1>. QED BY <1>1, FrontKept, UnitsKept, RobOrderKept, LastRetiredKept DEF InOrder

(* Nothing is in flight at the start, which is in order.                   *)
LEMMA InitInOrder == Init => InOrder /\ LastRetired
<1>. SUFFICES ASSUME Init PROVE InOrder /\ LastRetired
  OBVIOUS
<1>1. TypeInv
  BY InitTypes
<1>2. \A s \in LatchStage : latch[s] = Bubble
  BY DEF Init, LatchStage
<1>3. /\ Bubble.has_insn = FALSE /\ Bubble.pc = 0
      /\ RobCount = 0 /\ Len(iq) = 0
  <2>1. rob_head = -1 /\ iq = << >>
    BY DEF Init, ROB!Init, IQ!Init
  <2>2. RobCount = 0
    BY <1>1, <2>1, ViewsHaveTypes DEF ViewsFit
  <2>. QED BY <2>1, <2>2, EmptySeq DEF Bubble
<1>4. ~latch.DR1.has_insn /\ ~latch.RD2.has_insn /\ latch.writeback.pc = 0
  BY <1>2, <1>3, LatchStages
<1>5. FrontOrder
  <2>1. Len(code) \in Nat
    BY <1>1, LenProperties DEF TypeInv, ControlTypes
  <2>2. pc \in {4000 + 4 * n : n \in 0 .. Len(code)}
    <3>1. pc = 4000 + 4 * 0 /\ 0 \in 0 .. Len(code)
      BY <2>1 DEF Init
    <3>. QED BY <3>1
  <2>. QED BY <1>4, <2>2 DEF FrontOrder, Init
<1>6. UnitsRight
  BY <1>2, <1>3, LatchStages DEF UnitsRight
<1>7. RobOrder
  BY <1>3 DEF RobOrder
<1>8. LastRetired
  <2>1. Front = 4000
    BY <1>4 DEF Front, Init
  <2>2. -1 \in ROB!RobSlot
    BY SizesAssumption DEF ROB!RobSlot
  <2>3. rob[-1].pc_value \in {0, -1}
    BY <2>2 DEF Init, ROB!Init
  <2>. QED BY <1>3, <1>4, <2>1, <2>3 DEF LastRetired
<1>. QED BY <1>5, <1>6, <1>7, <1>8 DEF InOrder

(* The code a program without branches has, the rob has in its order.      *)
LEMMA InOrderNow == ASSUME TypeInv, InOrder PROVE RobInProgramOrder
<1>0. /\ RobCount \in Nat /\ Front \in Int
      /\ \A s \in LatchStage : latch[s] \in Latch /\ latch[s].pc \in Int
      /\ FrontOrder /\ RobOrder
  <2>1. \A s \in LatchStage : latch[s] \in Latch
    BY DEF TypeInv, LatchTypes, LatchesFit
  <2>2. \A s \in LatchStage : latch[s].pc \in Int
    BY <2>1, InsnPcIsInt DEF Latch
  <2>. QED BY <2>1, <2>2, ViewsHaveTypes, FrontIsAddress DEF ViewsFit, InOrder
<1>1. \A k \in 1 .. RobCount : /\ RobView[k].pc = RobInsn(k).pc_value
                               /\ RobView[k].opcode = RobInsn(k).opcode
                               /\ RobView[k].pc \in Int
  BY OrderIsDistinct DEF RobView, RobRow, RobPlace, RobInsn, InOrder
<1>2. ASSUME NEW k \in 1 .. RobCount
      PROVE  /\ RobInsn(k).pc_value \in {3996 + 4 * n : n \in 1 .. Len(code)}
             /\ RobInsn(k).opcode = code[CodeIndex(RobInsn(k).pc_value)].opcode
  <2>1. Right(RobView[k])
    BY <1>0 DEF RobOrder
  <2>2. RobInsn(k).pc_value \in Address /\ RobInsn(k).opcode = OpAt(RobInsn(k).pc_value)
    BY <1>1, <2>1 DEF Right
  <2>. QED BY <2>2 DEF Address, OpAt
<1>3. ASSUME NEW k \in 1 .. RobCount, NEW s \in {"DR1", "RD2"}, latch[s].has_insn
      PROVE  RobInsn(k).pc_value < latch[s].pc
  <2>1. RobInsn(k).pc_value < Front /\ RobInsn(k).pc_value \in Int
    BY <1>0, <1>1 DEF RobOrder
  <2>2. Front <= latch[s].pc /\ latch[s].pc \in Int
    BY <1>0, <1>3, LatchStages DEF Front, FrontOrder
  <2>. QED BY <1>0, <2>1, <2>2
<1>4. ASSUME NEW k \in 1 .. RobCount, NEW j \in 1 .. k - 1
      PROVE  RobInsn(j).pc_value < RobInsn(k).pc_value
  <2>1. j \in 1 .. RobCount /\ j < k
    BY <1>0
  <2>. QED BY <1>0, <1>1, <2>1 DEF RobOrder
<1>. QED BY <1>2, <1>3, <1>4 DEF RobInProgramOrder

(* In a program without branches the reorder buffer holds instructions of  *)
(* the program, each at most once, in program order, whatever fetch        *)
(* overwrites in DR1, whatever RD2 does not dispatch and however often     *)
(* APEX_issue sends one.                                                   *)
THEOREM RobInProgramOrderHolds == Spec => []RobInProgramOrder
<1>. DEFINE Inv == BranchFree => InOrder
<1>1. Init => Inv
  BY InitInOrder
<1>2. TypeInv /\ TypeInv' /\ Schedule /\ IqShape /\ Inv /\ [Next]_vars => Inv'
  BY CodeWasKept, InOrderKept
<1>3. TypeInv /\ Inv => RobInProgramOrder
  <2>1. ~BranchFree => RobInProgramOrder
    BY DEF RobInProgramOrder
  <2>. QED BY <2>1, InOrderNow
<1>. HIDE DEF Inv
<1>. QED
  BY <1>1, <1>2, <1>3, TypesInvariant, ShapeInvariant, PTL DEF Spec

(* In a program without branches what APEX_ROBcommit retires is an         *)
(* instruction behind everything retired before, or the slot in front of   *)
(* an empty reorder buffer.                                                *)
THEOREM ProgramOrderOfRetirement == Spec => RetiresInProgramOrder
<1>. DEFINE Inv == BranchFree => InOrder /\ LastRetired
            Step == BranchFree /\ ~ROB!rob_checkEmpty /\ latch'.writeback.has_insn
                      /\ ~latch.writeback.has_insn
                    => /\ latch'.writeback.pc > latch.writeback.pc
                       /\ latch'.writeback.opcode = code[CodeIndex(latch'.writeback.pc)].opcode
<1>1. Init => Inv
  BY InitInOrder
<1>2. TypeInv /\ TypeInv' /\ Schedule /\ IqShape /\ Inv /\ [Next]_vars => Inv'
  BY CodeWasKept, InOrderKept
<1>3. TypeInv /\ TypeInv' /\ Inv /\ [Next]_vars => Step
  <2>. SUFFICES ASSUME TypeInv, TypeInv', BranchFree, InOrder, LastRetired, [Next]_vars,
                       ~ROB!rob_checkEmpty, latch'.writeback.has_insn, ~latch.writeback.has_insn
                PROVE  /\ latch'.writeback.pc > latch.writeback.pc
                       /\ latch'.writeback.opcode = code[CodeIndex(latch'.writeback.pc)].opcode
    OBVIOUS
  <2>1. RobCount # 0 /\ RobCount \in Nat
    BY ViewsHaveTypes DEF ViewsFit, ROB!rob_checkEmpty
  <2>2. RobStep
    BY EveryRobStep
  <2>3. ~WritesNothing
    BY DEF WritesNothing
  <2>4. Writes(RobView[1].pc, RobView[1].opcode)
    BY <2>1, <2>2, <2>3 DEF RobStep
  <2>5. Right(RobView[1]) /\ RobView[1].pc \in Int /\ latch.writeback.pc < RobView[1].pc
    BY <2>1, OrderIsDistinct DEF InOrder, RobOrder, LastRetired
  <2>6. latch.writeback.pc \in Int
    <3>1. latch.writeback \in Latch
      BY LatchStages DEF TypeInv, LatchTypes, LatchesFit
    <3>. QED BY <3>1, InsnPcIsInt DEF Latch
  <2>. QED BY <2>4, <2>5, <2>6 DEF Writes, Right, OpAt
<1>4. TypeInv /\ TypeInv' /\ Inv /\ [Next]_vars
      => [BranchFree /\ ~ROB!rob_checkEmpty /\ latch'.writeback.has_insn
            /\ ~latch.writeback.has_insn
          => /\ latch'.writeback.pc > latch.writeback.pc
             /\ latch'.writeback.opcode = code[CodeIndex(latch'.writeback.pc)].opcode]_vars
  BY <1>3
<1>. HIDE DEF Inv
<1>. QED
  BY <1>1, <1>2, <1>4, TypesInvariant, ShapeInvariant, PTL DEF Spec, RetiresInProgramOrder

(* What a step that keeps the program finds, and what its numbers are.     *)
Ordered == TypeInv /\ TypeInv' /\ RobOrder /\ Linked /\ MemoryOrder /\ code' = code
           /\ Front \in Int /\ Front' \in Int /\ 4000 <= Front /\ Front <= Front'

(* The types, signs and differences that such a step can rely on.          *)
LEMMA OrderedIs ==
  ASSUME Ordered
  PROVE  /\ ViewsFit /\ ViewsFit' /\ RobCount \in Nat /\ LsqCount \in Nat
         /\ \A k \in 1 .. RobCount : RobView[k].pc \in Int /\ RobView[k].pc >= 4000
         /\ \A k \in 1 .. RobCount : RobView[k] \in RobRows
         /\ \A j \in 1 .. LsqCount : LsqView[j] \in LsqRows /\ LsqView[j].pc \in Int
         /\ \A j, k \in 1 .. RobCount : RobView[j].pc = RobView[k].pc => j = k
         /\ \A s \in LatchStage : latch[s] \in Latch /\ latch'[s] \in Latch
                                  /\ latch[s].pc \in Int /\ latch'[s].pc \in Int
                                  /\ latch[s].has_insn \in BOOLEAN
                                  /\ latch'[s].has_insn \in BOOLEAN
         /\ Address' = Address /\ \A p : OpAt(p)' = OpAt(p)
         /\ \A j \in 1 .. LsqCount : LsqView[j].pc < Front
<1>1. ViewsFit /\ ViewsFit'
  BY ViewsHaveTypes, ViewsHaveTypesNext DEF Ordered
<1>2. \A k \in 1 .. RobCount : RobView[k] \in RobRows
  BY <1>1 DEF ViewsFit
<1>3. \A j \in 1 .. LsqCount : LsqView[j] \in LsqRows
  BY <1>1 DEF ViewsFit
<1>4. \A j \in 1 .. LsqCount : LsqView[j].pc \in Int
  BY <1>3, InsnPcIsInt DEF LsqRows
<1>5. \A s \in LatchStage : latch[s] \in Latch /\ latch'[s] \in Latch
  BY DEF Ordered, TypeInv, LatchTypes, LatchesFit
<1>6. \A s \in LatchStage : latch[s].pc \in Int /\ latch'[s].pc \in Int
  BY <1>5, InsnPcIsInt DEF Latch
<1>7. \A s \in LatchStage : latch[s].has_insn \in BOOLEAN /\ latch'[s].has_insn \in BOOLEAN
  BY <1>5 DEF Latch
<1>8. /\ \A k \in 1 .. RobCount : RobView[k].pc \in Int /\ RobView[k].pc >= 4000
      /\ \A j, k \in 1 .. RobCount : RobView[j].pc = RobView[k].pc => j = k
  BY OrderIsDistinct DEF Ordered, Distinct
<1>9. Address' = Address /\ \A p : OpAt(p)' = OpAt(p)
  BY RightKept DEF Ordered
<1>10. ASSUME NEW j \in 1 .. LsqCount PROVE LsqView[j].pc < Front
  <2>1. PICK k \in 1 .. RobCount : LsqView[j].pc = RobView[k].pc
    BY DEF Ordered, Linked, Owned, SlotKnown, LsqOrder, Indexed, Owns
  <2>. QED BY <2>1 DEF Ordered, RobOrder
<1>11. RobCount \in Nat /\ LsqCount \in Nat
  BY <1>1 DEF ViewsFit
<1>. QED BY <1>1, <1>2, <1>3, <1>4, <1>5, <1>6, <1>7, <1>8, <1>9, <1>10, <1>11

(* A step that may complete an instruction of another unit, or that passes *)
(* a memory operation on.                                                  *)
LEMMA ReportKeepsOrder ==
  ASSUME Ordered, BeforeQueues', LsqSame,
         RobCount' = RobCount,
         \A k \in 1 .. RobCount :
            /\ RobView'[k].pc = RobView[k].pc /\ RobView'[k].opcode = RobView[k].opcode
            /\ RobView'[k].index = RobView[k].index
            /\ RobView[k].opcode \in Mem => RobView'[k].done = RobView[k].done,
         \/ latch'.memory = latch.memory /\ latch'.memoryForward = latch.memoryForward
         \/ /\ latch.memory.has_insn = TRUE /\ latch'.memory.has_insn = FALSE
            /\ latch'.memoryForward.has_insn = TRUE
            /\ latch'.memoryForward.pc = latch.memory.pc
            /\ latch'.memoryForward.opcode = latch.memory.opcode
            /\ latch'.memory.pc = latch.memory.pc
  PROVE  QueueOrder'
<1>0. /\ RobCount \in Nat /\ LsqCount \in Nat /\ LsqCount' = LsqCount /\ LsqView' = LsqView
      /\ RobOrder /\ Linked /\ MemoryOrder /\ Front \in Int /\ Front' \in Int /\ Front <= Front'
  BY OrderedIs DEF LsqSame, Ordered
<1>1. \A k \in 1 .. RobCount : Awaited(RobView'[k]) <=> Awaited(RobView[k])
  BY DEF Awaited
<1>2. ASSUME NEW k \in 1 .. RobCount, NEW q PROVE Owns(RobView[k], q) => Owns(RobView'[k], q)
  BY <1>1 DEF Owns
<1>4. Linked'
  <2>1. ASSUME NEW j \in 1 .. LsqCount PROVE \E k \in 1 .. RobCount : Owns(RobView'[k], LsqView[j])
    BY <1>0, <1>2 DEF Linked, Owned, SlotKnown, LsqOrder, Indexed
  <2>2. ASSUME NEW k \in 1 .. RobCount, NEW j \in 1 .. LsqCount,
               RobView'[k].opcode \in Mem, RobView'[k].index = LsqView[j].slot
        PROVE  RobView'[k].pc = LsqView[j].pc
    BY <1>0, <2>2 DEF Linked, Owned, SlotKnown, LsqOrder, Indexed
  <2>3. \A k \in 1 .. RobCount : RobView'[k].opcode \in Mem <=> RobView'[k].index # -1
    BY <1>0 DEF Linked, Owned, SlotKnown, LsqOrder, Indexed
  <2>4. \A i, j \in 1 .. LsqCount : i < j => LsqView[i].pc < LsqView[j].pc
    BY <1>0 DEF Linked, Owned, SlotKnown, LsqOrder, Indexed
  <2>5. Owned'
    BY <1>0, <2>1 DEF Owned, Owns, Awaited
  <2>6. SlotKnown'
    BY <1>0, <2>2 DEF SlotKnown
  <2>7. LsqOrder' /\ Indexed'
    BY <1>0, <2>3, <2>4 DEF LsqOrder, Indexed
  <2>. QED BY <2>5, <2>6, <2>7 DEF Linked
<1>5. \A x, k : k \in 1 .. RobCount /\ Serves(x, RobView[k], k) => Serves(x, RobView'[k], k)
  BY <1>1 DEF Serves
<1>8. Past'
  <2>1. /\ latch'.memory.pc = latch.memory.pc /\ latch.memory.pc \in Int
        /\ latch.memory.pc < Front /\ \A j \in 1 .. LsqCount : latch.memory.pc < LsqView[j].pc
    BY <1>0, OrderedIs, LatchStages DEF MemoryOrder, Past
  <2>2. latch'.memory.pc < Front'
    BY <1>0, <2>1
  <2>. QED BY <1>0, <2>1, <2>2 DEF Past
<1>6. CASE latch'.memory = latch.memory /\ latch'.memoryForward = latch.memoryForward
  <2>1. \A s \in InMemory : latch'[s] = latch[s]
    BY <1>6 DEF InMemory
  <2>2. ~(latch'.memory.has_insn /\ latch'.memoryForward.has_insn)
    BY <1>0, <1>6 DEF MemoryOrder, OneOperation, Served, Pending
  <2>3. ASSUME NEW s \in InMemory, latch'[s].has_insn
        PROVE \/ Bogus(latch'[s])
              \/ /\ \E k \in 1 .. RobCount : Serves(latch'[s], RobView'[k], k)
                 /\ \A j \in 1 .. LsqCount : latch'[s].pc < LsqView[j].pc
    BY <1>0, <1>5, <2>1, <2>3 DEF MemoryOrder, OneOperation, Served, Pending
  <2>4. ASSUME NEW k \in 1 .. RobCount, Awaited(RobView'[k])
        PROVE  \/ \E j \in 1 .. LsqCount : LsqView[j].pc = RobView'[k].pc
               \/ \E s \in InMemory : latch'[s].has_insn /\ latch'[s].pc = RobView'[k].pc
    BY <1>0, <1>1, <2>1, <2>4 DEF MemoryOrder, OneOperation, Served, Pending
  <2>5. MemoryOrder'
    BY <1>0, <1>8, <2>2, <2>3, <2>4
    DEF MemoryOrder, OneOperation, Served, Pending, Bogus, Serves, Awaited
  <2>. QED BY <1>4, <2>5 DEF QueueOrder
<1>7. CASE /\ latch.memory.has_insn = TRUE /\ latch'.memory.has_insn = FALSE
           /\ latch'.memoryForward.has_insn = TRUE
           /\ latch'.memoryForward.pc = latch.memory.pc
           /\ latch'.memoryForward.opcode = latch.memory.opcode
  <2>1. /\ "memory" \in InMemory /\ "memoryForward" \in InMemory
        /\ ~latch.memoryForward.has_insn
    BY <1>0, <1>7 DEF InMemory, MemoryOrder, OneOperation, Served, Pending
  <2>2. \/ Bogus(latch.memory)
        \/ /\ \E k \in 1 .. RobCount : Serves(latch.memory, RobView[k], k)
           /\ \A j \in 1 .. LsqCount : latch.memory.pc < LsqView[j].pc
    BY <1>0, <1>7, <2>1 DEF MemoryOrder, OneOperation, Served, Pending
  <2>3. /\ Bogus(latch.memory) => Bogus(latch'.memoryForward)
        /\ \A k : Serves(latch.memory, RobView'[k], k)
                  => Serves(latch'.memoryForward, RobView'[k], k)
    BY <1>7 DEF Bogus, Serves
  <2>4. \/ Bogus(latch'.memoryForward)
        \/ /\ \E k \in 1 .. RobCount : Serves(latch'.memoryForward, RobView'[k], k)
           /\ \A j \in 1 .. LsqCount : latch'.memoryForward.pc < LsqView[j].pc
    BY <1>5, <1>7, <2>2, <2>3
  <2>5. ASSUME NEW s \in InMemory, latch'[s].has_insn
        PROVE \/ Bogus(latch'[s])
              \/ /\ \E k \in 1 .. RobCount : Serves(latch'[s], RobView'[k], k)
                 /\ \A j \in 1 .. LsqCount : latch'[s].pc < LsqView[j].pc
    <3>1. s = "memoryForward"
      BY <1>7, <2>5 DEF InMemory
    <3>. QED BY <2>4, <3>1
  <2>6. ASSUME NEW k \in 1 .. RobCount, Awaited(RobView'[k])
        PROVE  \/ \E j \in 1 .. LsqCount : LsqView[j].pc = RobView'[k].pc
               \/ \E s \in InMemory : latch'[s].has_insn /\ latch'[s].pc = RobView'[k].pc
    <3>1. \/ \E j \in 1 .. LsqCount : LsqView[j].pc = RobView[k].pc
          \/ \E s \in InMemory : latch[s].has_insn /\ latch[s].pc = RobView[k].pc
      BY <1>0, <1>1, <2>6 DEF MemoryOrder, OneOperation, Served, Pending
    <3>2. CASE \E s \in InMemory : latch[s].has_insn /\ latch[s].pc = RobView[k].pc
      <4>1. latch.memory.pc = RobView[k].pc
        BY <2>1, <3>2 DEF InMemory
      <4>. QED BY <1>7, <2>1, <4>1
    <3>. QED BY <3>1, <3>2
  <2>7. MemoryOrder'
    BY <1>0, <1>7, <1>8, <2>5, <2>6
    DEF MemoryOrder, OneOperation, Served, Pending, Bogus, Serves, Awaited
  <2>. QED BY <1>4, <2>7 DEF QueueOrder
<1>. QED BY <1>6, <1>7

(* Nothing happens to the queues and to what is in the memory unit.        *)
LEMMA NothingKeepsOrder ==
  ASSUME Ordered, BeforeQueues', RobSame, LsqSame,
         latch'.memory = latch.memory, latch'.memoryForward = latch.memoryForward
  PROVE  QueueOrder'
<1>1. RobCount' = RobCount /\ RobView' = RobView
  BY DEF RobSame
<1>. QED BY <1>1, ReportKeepsOrder

(* memoryForward completes what it serves, and its latch is empty.         *)
LEMMA ServiceKeepsOrder ==
  ASSUME Ordered, BeforeQueues', LsqSame, latch.memoryForward.has_insn = TRUE,
         NEW s \in 1 .. RobCount, Serves(latch.memoryForward, RobView[s], s),
         \A j \in 1 .. LsqCount : latch.memoryForward.pc < LsqView[j].pc,
         RobCount' = RobCount,
         RobView' = [k \in 1 .. RobCount |-> IF k = s THEN [RobView[k] EXCEPT !.done = 1]
                                             ELSE RobView[k]],
         latch'.memory = latch.memory, latch'.memoryForward.has_insn = FALSE
  PROVE  QueueOrder'
<1>0. /\ RobCount \in Nat /\ LsqCount \in Nat /\ LsqCount' = LsqCount /\ LsqView' = LsqView
      /\ RobOrder /\ Linked /\ MemoryOrder /\ Front \in Int /\ Front' \in Int /\ Front <= Front'
  BY OrderedIs DEF LsqSame, Ordered
<1>1. \A k \in 1 .. RobCount :
        /\ RobView'[k].pc = RobView[k].pc /\ RobView'[k].opcode = RobView[k].opcode
        /\ RobView'[k].index = RobView[k].index
        /\ k # s => RobView'[k].done = RobView[k].done
        /\ k = s => RobView'[k].done = 1
  BY OrderedIs DEF RobRows
<1>2. \A k \in 1 .. RobCount : Awaited(RobView'[k]) <=> (Awaited(RobView[k]) /\ k # s)
  BY <1>1 DEF Awaited
<1>4. latch.memoryForward.pc = RobView[s].pc /\ ~latch.memory.has_insn
  BY <1>0 DEF Serves, MemoryOrder, OneOperation, Served, Pending
<1>5. Linked'
  <2>1. ASSUME NEW j \in 1 .. LsqCount PROVE \E k \in 1 .. RobCount : Owns(RobView'[k], LsqView[j])
    <3>1. PICK k \in 1 .. RobCount : Owns(RobView[k], LsqView[j])
      BY <1>0 DEF Linked, Owned, SlotKnown, LsqOrder, Indexed
    <3>2. k # s
      <4>1. RobView[k].pc = LsqView[j].pc /\ RobView[s].pc < LsqView[j].pc
        BY <1>4, <3>1 DEF Owns
      <4>. QED BY <4>1, OrderedIs
    <3>. QED BY <1>1, <1>2, <3>1, <3>2 DEF Owns
  <2>2. ASSUME NEW k \in 1 .. RobCount, NEW j \in 1 .. LsqCount,
               RobView'[k].opcode \in Mem, RobView'[k].index = LsqView[j].slot
        PROVE  RobView'[k].pc = LsqView[j].pc
    <3>1. RobView[k].opcode \in Mem /\ RobView[k].index = LsqView[j].slot
      BY <1>1, <2>2
    <3>2. RobView[k].pc = LsqView[j].pc
      BY <1>0, <3>1 DEF Linked, Owned, SlotKnown, LsqOrder, Indexed
    <3>. QED BY <1>1, <3>2
  <2>3. \A k \in 1 .. RobCount : RobView'[k].opcode \in Mem <=> RobView'[k].index # -1
    BY <1>0, <1>1 DEF Linked, Owned, SlotKnown, LsqOrder, Indexed
  <2>4. \A i, j \in 1 .. LsqCount : i < j => LsqView[i].pc < LsqView[j].pc
    BY <1>0 DEF Linked, Owned, SlotKnown, LsqOrder, Indexed
  <2>5. Owned'
    BY <1>0, <2>1 DEF Owned, Owns, Awaited
  <2>6. SlotKnown'
    BY <1>0, <2>2 DEF SlotKnown
  <2>7. LsqOrder' /\ Indexed'
    BY <1>0, <2>3, <2>4 DEF LsqOrder, Indexed
  <2>. QED BY <2>5, <2>6, <2>7 DEF Linked
<1>6. \A x \in InMemory : ~latch'[x].has_insn
  BY <1>4 DEF InMemory
<1>7. ASSUME NEW k \in 1 .. RobCount, Awaited(RobView'[k])
      PROVE  \E j \in 1 .. LsqCount : LsqView[j].pc = RobView'[k].pc
  <2>1. \/ \E j \in 1 .. LsqCount : LsqView[j].pc = RobView[k].pc
        \/ \E x \in InMemory : latch[x].has_insn /\ latch[x].pc = RobView[k].pc
    BY <1>0, <1>2, <1>7 DEF MemoryOrder, OneOperation, Served, Pending
  <2>2. k # s
    BY <1>2, <1>7
  <2>3. RobView[k].pc # RobView[s].pc
    BY <2>2, OrderedIs
  <2>4. ~\E x \in InMemory : latch[x].has_insn /\ latch[x].pc = RobView[k].pc
    BY <1>4, <2>3 DEF InMemory
  <2>. QED BY <1>1, <2>1, <2>4
<1>9. Past'
  <2>1. /\ latch'.memory.pc = latch.memory.pc /\ latch.memory.pc \in Int
        /\ latch.memory.pc < Front /\ \A j \in 1 .. LsqCount : latch.memory.pc < LsqView[j].pc
    BY <1>0, OrderedIs, LatchStages DEF MemoryOrder, Past
  <2>2. latch'.memory.pc < Front'
    BY <1>0, <2>1
  <2>. QED BY <1>0, <2>1, <2>2 DEF Past
<1>8. MemoryOrder'
  BY <1>0, <1>4, <1>6, <1>7, <1>9
    DEF MemoryOrder, OneOperation, Served, Pending, Bogus, Serves, Awaited
<1>. QED BY <1>5, <1>8 DEF QueueOrder

(* What memoryForward finds is of no instruction: it completes nothing.    *)
LEMMA BogusKeepsOrder ==
  ASSUME Ordered, BeforeQueues', LsqSame, RobSame, latch.memoryForward.has_insn = TRUE,
         Bogus(latch.memoryForward),
         latch'.memory = latch.memory, latch'.memoryForward.has_insn = FALSE
  PROVE  QueueOrder'
<1>0. /\ RobCount \in Nat /\ LsqCount \in Nat /\ LsqCount' = LsqCount /\ LsqView' = LsqView
      /\ RobCount' = RobCount /\ RobView' = RobView
      /\ RobOrder /\ Linked /\ MemoryOrder /\ Front \in Int /\ Front' \in Int /\ Front <= Front'
  BY OrderedIs DEF LsqSame, Ordered, RobSame
<1>4. ~latch.memory.has_insn /\ latch.memoryForward.pc = 0
  BY <1>0 DEF Bogus, MemoryOrder, OneOperation, Served, Pending
<1>5. Linked'
  BY <1>0 DEF Linked, Owned, SlotKnown, LsqOrder, Indexed, Owns, Awaited
<1>6. \A x \in InMemory : ~latch'[x].has_insn
  BY <1>4 DEF InMemory
<1>7. ASSUME NEW k \in 1 .. RobCount, Awaited(RobView[k])
      PROVE  \E j \in 1 .. LsqCount : LsqView[j].pc = RobView[k].pc
  <2>1. \/ \E j \in 1 .. LsqCount : LsqView[j].pc = RobView[k].pc
        \/ \E x \in InMemory : latch[x].has_insn /\ latch[x].pc = RobView[k].pc
    BY <1>0, <1>7 DEF MemoryOrder, OneOperation, Served, Pending
  <2>2. RobView[k].pc # 0
    BY OrderedIs
  <2>. QED BY <1>4, <2>1, <2>2 DEF InMemory
<1>9. Past'
  <2>1. /\ latch'.memory.pc = latch.memory.pc /\ latch.memory.pc \in Int
        /\ latch.memory.pc < Front /\ \A j \in 1 .. LsqCount : latch.memory.pc < LsqView[j].pc
    BY <1>0, OrderedIs, LatchStages DEF MemoryOrder, Past
  <2>2. latch'.memory.pc < Front'
    BY <1>0, <2>1
  <2>. QED BY <1>0, <2>1, <2>2 DEF Past
<1>8. MemoryOrder'
  BY <1>0, <1>4, <1>6, <1>7, <1>9
    DEF MemoryOrder, OneOperation, Served, Pending, Bogus, Serves, Awaited
<1>. QED BY <1>5, <1>8 DEF QueueOrder

(* The oldest instruction, a completed one, leaves the rob.                *)
LEMMA RetirementKeepsOrder ==
  ASSUME Ordered, BeforeQueues', LsqSame, RobCount # 0, RobView[1].done = 1,
         RobCount' = RobCount - 1,
         RobView' = [k \in 1 .. RobCount - 1 |-> RobView[k + 1]],
         latch'.memory = latch.memory, latch'.memoryForward = latch.memoryForward
  PROVE  QueueOrder'
<1>0. /\ RobCount \in Nat /\ LsqCount \in Nat /\ LsqCount' = LsqCount /\ LsqView' = LsqView
      /\ RobOrder /\ Linked /\ MemoryOrder /\ Front \in Int /\ Front' \in Int /\ Front <= Front'
  BY OrderedIs DEF LsqSame, Ordered
<1>1. /\ \A k \in 1 .. RobCount' : k + 1 \in 1 .. RobCount /\ RobView'[k] = RobView[k + 1]
      /\ \A k \in 1 .. RobCount : k # 1 => k - 1 \in 1 .. RobCount' /\ RobView'[k - 1] = RobView[k]
  BY <1>0
<1>2. ~Awaited(RobView[1])
  BY DEF Awaited
<1>4. Linked'
  <2>1. ASSUME NEW j \in 1 .. LsqCount PROVE \E k \in 1 .. RobCount' : Owns(RobView'[k], LsqView[j])
    <3>1. PICK k \in 1 .. RobCount : Owns(RobView[k], LsqView[j])
      BY <1>0 DEF Linked, Owned, SlotKnown, LsqOrder, Indexed
    <3>2. k # 1
      BY <1>2, <3>1 DEF Owns
    <3>. QED BY <1>1, <3>1, <3>2
  <2>2. ASSUME NEW k \in 1 .. RobCount', NEW j \in 1 .. LsqCount,
               RobView'[k].opcode \in Mem, RobView'[k].index = LsqView[j].slot
        PROVE  RobView'[k].pc = LsqView[j].pc
    BY <1>0, <1>1, <2>2 DEF Linked, Owned, SlotKnown, LsqOrder, Indexed
  <2>3. \A k \in 1 .. RobCount' : RobView'[k].opcode \in Mem <=> RobView'[k].index # -1
    BY <1>0, <1>1 DEF Linked, Owned, SlotKnown, LsqOrder, Indexed
  <2>4. \A i, j \in 1 .. LsqCount : i < j => LsqView[i].pc < LsqView[j].pc
    BY <1>0 DEF Linked, Owned, SlotKnown, LsqOrder, Indexed
  <2>5. Owned'
    BY <1>0, <2>1 DEF Owned, Owns, Awaited
  <2>6. SlotKnown'
    BY <1>0, <2>2 DEF SlotKnown
  <2>7. LsqOrder' /\ Indexed'
    BY <1>0, <2>3, <2>4 DEF LsqOrder, Indexed
  <2>. QED BY <2>5, <2>6, <2>7 DEF Linked
<1>5. \A x \in InMemory : latch'[x] = latch[x]
  BY DEF InMemory
<1>6. ASSUME NEW x, NEW k \in 1 .. RobCount, Serves(x, RobView[k], k)
      PROVE  \E i \in 1 .. RobCount' : Serves(x, RobView'[i], i)
  <2>1. k # 1
    BY <1>2, <1>6 DEF Serves
  <2>2. x.opcode # "STORE"
    BY <1>6, <2>1 DEF Serves
  <2>3. k - 1 \in 1 .. RobCount' /\ RobView'[k - 1] = RobView[k]
    BY <1>1, <2>1
  <2>4. Serves(x, RobView'[k - 1], k - 1)
    BY <1>6, <2>2, <2>3 DEF Serves
  <2>. QED BY <2>3, <2>4
<1>7. ASSUME NEW s \in InMemory, latch'[s].has_insn
      PROVE \/ Bogus(latch'[s])
            \/ /\ \E k \in 1 .. RobCount' : Serves(latch'[s], RobView'[k], k)
               /\ \A j \in 1 .. LsqCount : latch'[s].pc < LsqView[j].pc
  BY <1>0, <1>5, <1>6, <1>7 DEF MemoryOrder, OneOperation, Served, Pending
<1>8. ASSUME NEW k \in 1 .. RobCount', Awaited(RobView'[k])
      PROVE  \/ \E j \in 1 .. LsqCount : LsqView[j].pc = RobView'[k].pc
             \/ \E s \in InMemory : latch'[s].has_insn /\ latch'[s].pc = RobView'[k].pc
  <2>1. k + 1 \in 1 .. RobCount /\ RobView'[k] = RobView[k + 1]
    BY <1>1
  <2>2. \/ \E j \in 1 .. LsqCount : LsqView[j].pc = RobView[k + 1].pc
        \/ \E s \in InMemory : latch[s].has_insn /\ latch[s].pc = RobView[k + 1].pc
    BY <1>0, <1>8, <2>1 DEF MemoryOrder, OneOperation, Served, Pending
  <2>. QED BY <1>5, <2>1, <2>2
<1>10. Past'
  <2>1. /\ latch'.memory.pc = latch.memory.pc /\ latch.memory.pc \in Int
        /\ latch.memory.pc < Front /\ \A j \in 1 .. LsqCount : latch.memory.pc < LsqView[j].pc
    BY <1>0, OrderedIs, LatchStages DEF MemoryOrder, Past
  <2>2. latch'.memory.pc < Front'
    BY <1>0, <2>1
  <2>. QED BY <1>0, <2>1, <2>2 DEF Past
<1>9. MemoryOrder'
  <2>1. OneOperation'
    BY <1>0 DEF MemoryOrder, OneOperation
  <2>2. Served'
    BY <1>0, <1>7 DEF Served, Bogus, Serves, Awaited
  <2>3. Pending'
    BY <1>0, <1>8 DEF Pending, Awaited
  <2>. QED BY <1>10, <2>1, <2>2, <2>3 DEF MemoryOrder
<1>. QED BY <1>4, <1>9 DEF QueueOrder

(* RD2 puts the instruction at the front of the program behind the others  *)
(* in the rob, and a load or a store behind the others in the lsq.         *)
DispatchKeepsOrder_Lsq(x, t) ==
  \/ x.opcode \notin Mem /\ LsqSame
  \/ /\ x.opcode \in Mem
     /\ LsqCount' = LsqCount + 1
     /\ LsqView' = [j \in 1 .. LsqCount + 1 |->
                      IF j = LsqCount + 1
                      THEN [slot |-> t, pc |-> x.pc, store |-> IF x.opcode = "STORE" THEN 1 ELSE 0]
                      ELSE LsqView[j]]
     /\ \A j \in 1 .. LsqCount : LsqView[j].slot # t
     /\ \A k \in 1 .. RobCount : RobView[k].opcode \in Mem => RobView[k].index # t

(* RD2 keeps the order of the two queues: what it enters is the youngest,  *)
(* and the slot of the lsq that a load or a store gets is that of no       *)
(* instruction in the rob, which is what SlotsFresh says.                  *)
LEMMA DispatchKeepsOrder ==
  ASSUME Ordered, BeforeQueues', NEW x, Right(x), x.pc = Front, Front < Front',
         NEW t \in Nat, DispatchKeepsOrder_Lsq(x, t),
         RobCount' = RobCount + 1,
         RobView' = [k \in 1 .. RobCount + 1 |->
                       IF k = RobCount + 1
                       THEN [pc |-> x.pc, opcode |-> x.opcode,
                             index |-> IF x.opcode \in Mem THEN t ELSE -1, done |-> 0]
                       ELSE RobView[k]],
         latch'.memory = latch.memory, latch'.memoryForward = latch.memoryForward
  PROVE  QueueOrder'
<1>0. /\ RobCount \in Nat /\ LsqCount \in Nat
      /\ RobOrder /\ Linked /\ MemoryOrder /\ Front \in Int /\ Front' \in Int /\ Front <= Front'
  BY OrderedIs DEF Ordered
<1>. DEFINE new == RobCount + 1
            last == LsqCount + 1
            isMem == x.opcode \in Mem
<1>1. /\ \A k \in 1 .. RobCount : k \in 1 .. new /\ k # new /\ RobView'[k] = RobView[k]
      /\ \A k \in 1 .. new : k = new \/ k \in 1 .. RobCount
      /\ new \in 1 .. new /\ RobCount' = new
      /\ RobView'[new].pc = x.pc /\ RobView'[new].opcode = x.opcode
      /\ RobView'[new].index = (IF isMem THEN t ELSE -1) /\ RobView'[new].done = 0
  BY <1>0
<1>2. /\ ~isMem => LsqCount' = LsqCount /\ LsqView' = LsqView
      /\ isMem => /\ LsqCount' = last
                  /\ LsqView'[last].slot = t /\ LsqView'[last].pc = x.pc
                  /\ LsqView'[last].store = IF x.opcode = "STORE" THEN 1 ELSE 0
                  /\ \A j \in 1 .. LsqCount : LsqView[j].slot # t
                  /\ \A k \in 1 .. RobCount : RobView[k].opcode \in Mem => RobView[k].index # t
      /\ \A j \in 1 .. LsqCount : j \in 1 .. LsqCount' /\ j # last /\ LsqView'[j] = LsqView[j]
      /\ \A j \in 1 .. LsqCount' : j \in 1 .. LsqCount \/ (isMem /\ j = last)
  <2>1. CASE ~isMem
    BY <1>0, <2>1 DEF DispatchKeepsOrder_Lsq, LsqSame
  <2>2. CASE isMem
    BY <1>0, <2>2 DEF DispatchKeepsOrder_Lsq
  <2>. QED BY <2>1, <2>2
<1>3. /\ \A k \in 1 .. RobCount : RobView[k].pc < x.pc /\ RobView[k].pc \in Int
      /\ \A j \in 1 .. LsqCount : LsqView[j].pc < x.pc /\ LsqView[j].pc \in Int
      /\ x.pc \in Int /\ x.pc < Front'
  BY <1>0, OrderedIs DEF RobOrder
<1>. HIDE DEF new, last, isMem
<1>5. Linked'
  <2>1. ASSUME NEW j \in 1 .. LsqCount' PROVE \E k \in 1 .. new : Owns(RobView'[k], LsqView'[j])
    <3>1. CASE j \in 1 .. LsqCount
      BY <1>0, <1>1, <1>2, <3>1 DEF Linked, Owned, SlotKnown, LsqOrder, Indexed
    <3>2. CASE isMem /\ j = last
      <4>1. Awaited(RobView'[new])
        BY <1>1, <3>2 DEF Awaited, isMem
      <4>2. Owns(RobView'[new], LsqView'[j])
        BY <1>1, <1>2, <3>2, <4>1 DEF Owns
      <4>. QED BY <1>1, <4>2
    <3>. QED BY <1>2, <3>1, <3>2
  <2>2. ASSUME NEW k \in 1 .. new, NEW j \in 1 .. LsqCount',
               RobView'[k].opcode \in Mem, RobView'[k].index = LsqView'[j].slot
        PROVE  RobView'[k].pc = LsqView'[j].pc
    <3>1. CASE k = new
      <4>1. isMem /\ RobView'[k].index = t
        BY <1>1, <2>2, <3>1 DEF isMem
      <4>2. j = last
        BY <1>2, <2>2, <4>1
      <4>. QED BY <1>1, <1>2, <3>1, <4>1, <4>2
    <3>2. CASE k \in 1 .. RobCount
      <4>1. RobView'[k] = RobView[k]
        BY <1>1, <3>2
      <4>2. j \in 1 .. LsqCount
        BY <1>2, <2>2, <3>2, <4>1
      <4>3. RobView[k].pc = LsqView[j].pc
        BY <1>0, <1>2, <2>2, <3>2, <4>1, <4>2 DEF Linked, Owned, SlotKnown, LsqOrder, Indexed
      <4>. QED BY <1>2, <4>1, <4>2, <4>3
    <3>. QED BY <1>1, <3>1, <3>2
  <2>3. ASSUME NEW k \in 1 .. new PROVE RobView'[k].opcode \in Mem <=> RobView'[k].index # -1
    <3>1. CASE k = new
      <4>1. t # -1
        OBVIOUS
      <4>. QED BY <1>1, <3>1, <4>1 DEF isMem
    <3>2. CASE k \in 1 .. RobCount
      BY <1>0, <1>1, <3>2 DEF Linked, Owned, SlotKnown, LsqOrder, Indexed
    <3>. QED BY <1>1, <3>1, <3>2
  <2>4. ASSUME NEW i \in 1 .. LsqCount', NEW j \in 1 .. LsqCount', i < j
        PROVE  LsqView'[i].pc < LsqView'[j].pc
    <3>1. i \in 1 .. LsqCount
      BY <1>0, <1>2, <2>4 DEF last
    <3>2. CASE j \in 1 .. LsqCount
      BY <1>0, <1>2, <2>4, <3>1, <3>2 DEF Linked, Owned, SlotKnown, LsqOrder, Indexed
    <3>3. CASE isMem /\ j = last
      BY <1>2, <1>3, <3>1, <3>3
    <3>. QED BY <1>2, <3>2, <3>3
  <2>5. Owned'
    BY <1>1, <2>1 DEF Owned, Owns, Awaited
  <2>6. SlotKnown'
    BY <1>1, <2>2 DEF SlotKnown
  <2>7. LsqOrder' /\ Indexed'
    BY <1>1, <2>3, <2>4 DEF LsqOrder, Indexed
  <2>. QED BY <2>5, <2>6, <2>7 DEF Linked
<1>6. \A s \in InMemory : latch'[s] = latch[s]
  BY DEF InMemory
<1>7. ASSUME NEW s \in InMemory, latch'[s].has_insn
      PROVE \/ Bogus(latch'[s])
            \/ /\ \E k \in 1 .. new : Serves(latch'[s], RobView'[k], k)
               /\ \A j \in 1 .. LsqCount' : latch'[s].pc < LsqView'[j].pc
  <2>1. CASE Bogus(latch[s])
    BY <1>6, <2>1
  <2>2. CASE /\ \E k \in 1 .. RobCount : Serves(latch[s], RobView[k], k)
             /\ \A j \in 1 .. LsqCount : latch[s].pc < LsqView[j].pc
    <3>1. PICK k \in 1 .. RobCount : Serves(latch[s], RobView[k], k)
      BY <2>2
    <3>2. Serves(latch'[s], RobView'[k], k) /\ k \in 1 .. new
      BY <1>1, <1>6, <3>1
    <3>3. latch'[s].pc < x.pc
      BY <1>3, <1>6, <3>1 DEF Serves
    <3>4. \A j \in 1 .. LsqCount' : latch'[s].pc < LsqView'[j].pc
      BY <1>2, <1>6, <2>2, <3>3
    <3>. QED BY <3>2, <3>4
  <2>. QED BY <1>0, <1>6, <1>7, <2>1, <2>2 DEF MemoryOrder, OneOperation, Served, Pending
<1>8. ASSUME NEW k \in 1 .. new, Awaited(RobView'[k])
      PROVE  \/ \E j \in 1 .. LsqCount' : LsqView'[j].pc = RobView'[k].pc
             \/ \E s \in InMemory : latch'[s].has_insn /\ latch'[s].pc = RobView'[k].pc
  <2>1. CASE k = new
    <3>1. isMem
      BY <1>1, <1>8, <2>1 DEF isMem, Awaited
    <3>2. LsqView'[last].pc = RobView'[k].pc /\ last \in 1 .. LsqCount'
      BY <1>0, <1>1, <1>2, <2>1, <3>1 DEF last
    <3>. QED BY <3>2
  <2>2. CASE k \in 1 .. RobCount
    <3>1. RobView'[k] = RobView[k]
      BY <1>1, <2>2
    <3>2. \/ \E j \in 1 .. LsqCount : LsqView[j].pc = RobView[k].pc
          \/ \E s \in InMemory : latch[s].has_insn /\ latch[s].pc = RobView[k].pc
      BY <1>0, <1>8, <2>2, <3>1 DEF MemoryOrder, OneOperation, Served, Pending
    <3>. QED BY <1>2, <1>6, <3>1, <3>2
  <2>. QED BY <1>1, <2>1, <2>2
<1>10. Past'
  <2>1. /\ latch'.memory.pc = latch.memory.pc /\ latch.memory.pc \in Int
        /\ latch.memory.pc < x.pc /\ \A j \in 1 .. LsqCount : latch.memory.pc < LsqView[j].pc
    BY <1>0, OrderedIs, LatchStages DEF MemoryOrder, Past
  <2>2. latch'.memory.pc < Front'
    BY <1>0, <1>3, <2>1
  <2>3. \A j \in 1 .. LsqCount' : latch'.memory.pc < LsqView'[j].pc
    BY <1>2, <2>1
  <2>. QED BY <2>2, <2>3 DEF Past
<1>9. MemoryOrder'
  <2>1. OneOperation'
    BY <1>0 DEF MemoryOrder, OneOperation
  <2>2. Served'
    BY <1>1, <1>7 DEF Served, Bogus, Serves, Awaited
  <2>3. Pending'
    BY <1>1, <1>8 DEF Pending, Awaited
  <2>. QED BY <1>10, <2>1, <2>2, <2>3 DEF MemoryOrder
<1>. QED BY <1>5, <1>9 DEF QueueOrder

(* The memory unit, which was empty, takes the head of the lsq.            *)
LEMMA StartKeepsOrder ==
  ASSUME Ordered, BeforeQueues', RobSame, LsqCount # 0,
         LsqCount' = LsqCount - 1,
         LsqView' = [j \in 1 .. LsqCount - 1 |-> LsqView[j + 1]],
         ~latch.memory.has_insn, ~latch.memoryForward.has_insn, ~latch'.memoryForward.has_insn,
         NEW s \in 1 .. RobCount, RobView[s].pc = LsqView[1].pc,
         Serves(latch'.memory, RobView[s], s), latch'.memory.has_insn
  PROVE  QueueOrder'
<1>0. /\ RobCount \in Nat /\ LsqCount \in Nat
      /\ RobCount' = RobCount /\ RobView' = RobView
      /\ RobOrder /\ Linked /\ MemoryOrder /\ Front \in Int /\ Front' \in Int /\ Front <= Front'
  BY OrderedIs DEF RobSame, Ordered
<1>1. /\ \A j \in 1 .. LsqCount' : j + 1 \in 1 .. LsqCount /\ LsqView'[j] = LsqView[j + 1]
      /\ \A j \in 1 .. LsqCount : j # 1 => j - 1 \in 1 .. LsqCount' /\ LsqView'[j - 1] = LsqView[j]
      /\ 1 \in 1 .. LsqCount
  BY <1>0
<1>2. \A j \in 1 .. LsqCount : j # 1 => LsqView[1].pc < LsqView[j].pc
  BY <1>0, <1>1 DEF Linked, Owned, SlotKnown, LsqOrder, Indexed
<1>4. Linked'
  <2>1. ASSUME NEW j \in 1 .. LsqCount' PROVE \E k \in 1 .. RobCount : Owns(RobView[k], LsqView'[j])
    BY <1>0, <1>1 DEF Linked, Owned, SlotKnown, LsqOrder, Indexed
  <2>2. ASSUME NEW k \in 1 .. RobCount, NEW j \in 1 .. LsqCount',
               RobView[k].opcode \in Mem, RobView[k].index = LsqView'[j].slot
        PROVE  RobView[k].pc = LsqView'[j].pc
    BY <1>0, <1>1, <2>2 DEF Linked, Owned, SlotKnown, LsqOrder, Indexed
  <2>3. \A k \in 1 .. RobCount : RobView[k].opcode \in Mem <=> RobView[k].index # -1
    BY <1>0 DEF Linked, Owned, SlotKnown, LsqOrder, Indexed
  <2>4. ASSUME NEW i \in 1 .. LsqCount', NEW j \in 1 .. LsqCount', i < j
        PROVE  LsqView'[i].pc < LsqView'[j].pc
    <3>1. /\ i + 1 \in 1 .. LsqCount /\ j + 1 \in 1 .. LsqCount /\ i + 1 < j + 1
          /\ LsqView'[i] = LsqView[i + 1] /\ LsqView'[j] = LsqView[j + 1]
      BY <1>0, <1>1, <2>4
    <3>. QED BY <1>0, <3>1 DEF Linked, Owned, SlotKnown, LsqOrder, Indexed
  <2>5. Owned'
    BY <1>0, <2>1 DEF Owned, Owns, Awaited
  <2>6. SlotKnown'
    BY <1>0, <2>2 DEF SlotKnown
  <2>7. LsqOrder' /\ Indexed'
    BY <1>0, <2>3, <2>4 DEF LsqOrder, Indexed
  <2>. QED BY <2>5, <2>6, <2>7 DEF Linked
<1>5. latch'.memory.pc = LsqView[1].pc
  BY DEF Serves
<1>6. \A j \in 1 .. LsqCount' : latch'.memory.pc < LsqView'[j].pc
  <2>1. ASSUME NEW j \in 1 .. LsqCount' PROVE LsqView[1].pc < LsqView'[j].pc
    <3>1. j + 1 \in 1 .. LsqCount /\ LsqView'[j] = LsqView[j + 1] /\ j + 1 # 1
      BY <1>0, <1>1
    <3>. QED BY <1>2, <3>1
  <2>. QED BY <1>5, <2>1
<1>7. ASSUME NEW x \in InMemory, latch'[x].has_insn
      PROVE \/ Bogus(latch'[x])
            \/ /\ \E k \in 1 .. RobCount : Serves(latch'[x], RobView[k], k)
               /\ \A j \in 1 .. LsqCount' : latch'[x].pc < LsqView'[j].pc
  <2>1. x = "memory"
    BY <1>7 DEF InMemory
  <2>. QED BY <1>6, <2>1
<1>8. ASSUME NEW k \in 1 .. RobCount, Awaited(RobView[k])
      PROVE  \/ \E j \in 1 .. LsqCount' : LsqView'[j].pc = RobView[k].pc
             \/ \E x \in InMemory : latch'[x].has_insn /\ latch'[x].pc = RobView[k].pc
  <2>1. PICK j \in 1 .. LsqCount : LsqView[j].pc = RobView[k].pc
    BY <1>0, <1>8 DEF MemoryOrder, OneOperation, Served, Pending, InMemory
  <2>2. CASE j = 1
    BY <1>5, <2>1, <2>2 DEF InMemory
  <2>3. CASE j # 1
    BY <1>1, <2>1, <2>3
  <2>. QED BY <2>2, <2>3
<1>9. MemoryOrder'
  <2>1. OneOperation'
    BY DEF OneOperation
  <2>2. Served'
    BY <1>0, <1>7 DEF Served, Bogus, Serves, Awaited
  <2>3. Pending'
    BY <1>0, <1>8 DEF Pending, Awaited
  <2>4. Past'
    <3>1. LsqView[1].pc < Front'
      BY <1>0, <1>1, OrderedIs
    <3>. QED BY <1>5, <1>6, <3>1 DEF Past
  <2>. QED BY <2>1, <2>2, <2>3, <2>4 DEF MemoryOrder
<1>. QED BY <1>4, <1>9 DEF QueueOrder

(* With both queues empty it may take what is no instruction.              *)
LEMMA BogusStartKeepsOrder ==
  ASSUME Ordered, BeforeQueues', RobSame, LsqSame, RobCount = 0,
         Bogus(latch'.memory), ~latch'.memoryForward.has_insn
  PROVE  QueueOrder'
<1>0. /\ RobCount' = 0 /\ LsqCount' = 0
  <2>1. LsqCount \in Nat /\ (\A j \in 1 .. LsqCount : \E k \in 1 .. RobCount : TRUE)
    BY OrderedIs DEF Ordered, Linked, Owned, SlotKnown, LsqOrder, Indexed
  <2>2. LsqCount = 0
    BY <2>1
  <2>. QED BY <2>2 DEF RobSame, LsqSame
<1>1. Linked'
  BY <1>0 DEF Linked, Owned, SlotKnown, LsqOrder, Indexed
<1>2. MemoryOrder'
  <2>1. OneOperation' /\ Served' /\ Pending'
    BY <1>0 DEF OneOperation, Served, Pending, InMemory, Bogus
  <2>2. Past'
    BY <1>0 DEF Past, Bogus, Ordered
  <2>. QED BY <2>1, <2>2 DEF MemoryOrder
<1>. QED BY <1>1, <1>2 DEF QueueOrder

(* No step disturbs the order of the queues.                               *)
LEMMA QueuesKept ==
  ASSUME TypeInv, TypeInv', BranchFree, ProgramOrder, SlotsFresh, Schedule, IqShape,
         [Next]_vars, code' = code
  PROVE  QueueOrder'
<1>0. /\ Ordered /\ BeforeQueues /\ FrontOrder /\ UnitsRight
      /\ APEX_RD2 => latch.RD2.pc < Front' /\ latch.RD2.pc = Front
  <2>1. /\ RobOrder /\ FrontOrder /\ UnitsRight /\ Linked /\ BeforeQueues /\ MemoryOrder
        /\ InOrder
    BY DEF ProgramOrder, InOrder, QueueOrder
  <2>2. 4000 <= Front
    BY <2>1, FrontIsAddress
  <2>. QED BY <2>1, <2>2, FrontKept DEF Ordered
<1>1. /\ latch \in [LatchStage -> Latch] /\ latch' \in [LatchStage -> Latch]
      /\ \A s \in LatchStage : latch[s] \in Latch /\ latch'[s] \in Latch
  BY DEF TypeInv, LatchTypes, LatchesFit
<1>2. \A k \in 1 .. RobCount : Right(RobView[k]) /\ RobView[k].pc \in Int /\ RobView[k].pc >= 4000
  BY <1>0, OrderedIs DEF Ordered, RobOrder
<1>3. ASSUME UNCHANGED robVars, LsqSame,
             lsq'[-1].pc_value = lsq[-1].pc_value, lsq'[-1].lsBit = lsq[-1].lsBit,
             latch'.memory = latch.memory, latch'.memoryForward = latch.memoryForward
      PROVE  QueueOrder'
  <2>1. BeforeQueues'
    BY <1>0, <1>3 DEF BeforeQueues, robVars
  <2>. QED BY <1>0, <1>3, <2>1, RobUnchanged, NothingKeepsOrder
<1>4. ASSUME UNCHANGED <<robVars, lsqVars>>,
             latch'.memory = latch.memory, latch'.memoryForward = latch.memoryForward
      PROVE  QueueOrder'
  BY <1>3, <1>4, LsqUnchanged DEF lsqVars
<1>5. ASSUME NEW p, NEW result, ROB!rob_update(p, result), LsqSame,
             lsq'[-1].pc_value = lsq[-1].pc_value, lsq'[-1].lsBit = lsq[-1].lsBit,
             \A k \in 1 .. RobCount : RobView[k].pc = p => RobView[k].opcode \notin Mem,
             latch'.memory = latch.memory, latch'.memoryForward = latch.memoryForward
      PROVE  QueueOrder'
  <2>1. /\ RobCount' = RobCount
        /\ RobView' = [k \in 1 .. RobCount |-> IF RobView[k].pc = p
                                               THEN [RobView[k] EXCEPT !.done = 1] ELSE RobView[k]]
        /\ rob'[-1].opcode = rob[-1].opcode /\ rob'[-1].pc_value = rob[-1].pc_value
    BY <1>5, RobUpdated
  <2>2. BeforeQueues'
    BY <1>0, <1>5, <2>1 DEF BeforeQueues
  <2>3. ASSUME NEW k \in 1 .. RobCount
        PROVE  /\ RobView'[k].pc = RobView[k].pc /\ RobView'[k].opcode = RobView[k].opcode
               /\ RobView'[k].index = RobView[k].index
               /\ RobView[k].opcode \in Mem => RobView'[k].done = RobView[k].done
    <3>1. PICK e : e = RobView[k]
      OBVIOUS
    <3>2. e \in RobRows /\ (e.pc = p => e.opcode \notin Mem)
      BY <1>0, <1>5, <3>1, OrderedIs
    <3>3. RobView'[k] = IF e.pc = p THEN [e EXCEPT !.done = 1] ELSE e
      BY <2>1, <3>1
    <3>. QED BY <3>1, <3>2, <3>3 DEF RobRows
  <2>. QED BY <1>0, <1>5, <2>1, <2>2, <2>3, ReportKeepsOrder
<1>6. CASE APEX_IUforward
  <2>1. PICK x : x = latch.IUforward
    OBVIOUS
  <2>2. Right(x) /\ OwnIndex(x)
    BY <1>0, <1>6, <2>1 DEF APEX_IUforward, UnitsRight, IqShape
  <2>3. latch'.memory = latch.memory /\ latch'.memoryForward = latch.memoryForward
    BY <1>1, <1>6, LatchFrame, LatchStages DEF Touches
  <2>4. LsqSame /\ lsq'[-1].pc_value = lsq[-1].pc_value /\ lsq'[-1].lsBit = lsq[-1].lsBit
    BY <1>6, LsqReported
  <2>5. CASE x.lsqIndex = -1
    <3>1. PICK result : result = x.result_buffer
      OBVIOUS
    <3>2. ROB!rob_update(x.pc, result)
      BY <1>6, <2>1, <2>5, <3>1 DEF APEX_IUforward
    <3>3. \A k \in 1 .. RobCount : RobView[k].pc = x.pc => RobView[k].opcode \notin Mem
      BY <1>2, <2>2, <2>5 DEF Right, OwnIndex, Mem
    <3>. QED BY <1>5, <2>3, <2>4, <3>2, <3>3
  <2>6. CASE x.lsqIndex # -1
    <3>1. UNCHANGED robVars
      BY <1>6, <2>1, <2>6 DEF APEX_IUforward
    <3>. QED BY <1>3, <2>3, <2>4, <3>1
  <2>. QED BY <2>5, <2>6
<1>7. CASE APEX_MUforward
  <2>1. PICK x, result : x = latch.MUforward /\ result = x.result_buffer
    OBVIOUS
  <2>2. Right(x) /\ fuType(x.opcode) = 1
    BY <1>0, <1>7, <2>1 DEF APEX_MUforward, UnitsRight
  <2>3. latch'.memory = latch.memory /\ latch'.memoryForward = latch.memoryForward
    BY <1>1, <1>7, LatchFrame, LatchStages DEF Touches
  <2>4. UNCHANGED lsqVars /\ ROB!rob_update(x.pc, result)
    BY <1>7, <2>1 DEF APEX_MUforward
  <2>5. \A k \in 1 .. RobCount : RobView[k].pc = x.pc => RobView[k].opcode \notin Mem
    BY <1>2, <2>2 DEF Right, fuType, Mem
  <2>. QED BY <1>5, <2>3, <2>4, <2>5, LsqUnchanged DEF lsqVars
<1>8. CASE APEX_BU
  <2>1. PICK x, result : x = latch.BU /\ result = x.result_buffer
    OBVIOUS
  <2>2. latch'.memory = latch.memory /\ latch'.memoryForward = latch.memoryForward
    BY <1>1, <1>8, LatchFrame, LatchStages DEF Touches
  <2>3. UNCHANGED lsqVars /\ (UNCHANGED robVars \/ ROB!rob_update(x.pc, result))
    BY <1>8, <2>1 DEF APEX_BU
  <2>4. x.pc # 0 => Right(x) /\ fuType(x.opcode) = 2
    BY <1>0, <2>1 DEF UnitsRight
  <2>5. \A k \in 1 .. RobCount : RobView[k].pc = x.pc => RobView[k].opcode \notin Mem
    BY <1>2, <2>4 DEF Right, fuType, Mem
  <2>6. CASE UNCHANGED robVars
    BY <1>4, <2>2, <2>3, <2>6
  <2>7. CASE ROB!rob_update(x.pc, result)
    BY <1>5, <2>2, <2>3, <2>5, <2>7, LsqUnchanged DEF lsqVars
  <2>. QED BY <2>3, <2>6, <2>7
<1>9. CASE APEX_RD2
  <2>1. PICK x : x = latch.RD2
    OBVIOUS
  <2>2. /\ Right(x) /\ x.pc = Front /\ x.pc < Front' /\ latch.RD2.has_insn
    BY <1>0, <1>9, <2>1 DEF APEX_RD2, FrontOrder
  <2>3. latch'.memory = latch.memory /\ latch'.memoryForward = latch.memoryForward
    BY <1>1, <1>9, LatchFrame, LatchStages DEF Touches
  <2>4. CASE x.opcode = "DIV"
    BY <1>4, <1>9, <2>1, <2>3, <2>4 DEF APEX_RD2
  <2>5. CASE x.opcode # "DIV"
    <3>1. PICK t : t = (lsq_tail + 1) % lsq_SIZE
      OBVIOUS
    <3>2. t \in 0 .. lsq_SIZE - 1 /\ t \in Nat
      BY <3>1, SizesAssumption DEF TypeInv, LsqTypes, RingIndices
    <3>3. PICK index : index = IF x.opcode \in Mem THEN lsq_tail' ELSE -1
      OBVIOUS
    <3>4. PICK sent : sent = [x EXCEPT !.lsqIndex = index]
      OBVIOUS
    <3>5. ROB!rob_Entry(sent)
      BY <1>9, <2>1, <2>5, <3>3, <3>4 DEF APEX_RD2, Mem
    <3>6. /\ x.opcode \in Mem => LSQ!lsq_Entry(x)
          /\ x.opcode \notin Mem => UNCHANGED lsqVars
      BY <1>9, <2>1 DEF APEX_RD2, Mem
    <3>7. index = IF x.opcode \in Mem THEN t ELSE -1
      BY <3>1, <3>3, <3>6 DEF LSQ!lsq_Entry
    <3>8. sent.pc = x.pc /\ sent.opcode = x.opcode /\ sent.lsqIndex = index
      BY <1>1, <2>1, <3>4, LatchStages DEF Latch
    <3>9. ~ROB!rob_checkFull
      BY <2>2 DEF TypeInv, RoomInv, RobRoom
    <3>10. /\ RobCount' = RobCount + 1
           /\ RobView' = [k \in 1 .. RobCount + 1 |->
                            IF k = RobCount + 1
                            THEN [pc |-> sent.pc, opcode |-> sent.opcode, index |-> sent.lsqIndex,
                                  done |-> 0]
                            ELSE RobView[k]]
           /\ rob'[-1] = rob[-1]
      BY <3>5, <3>9, RobEntered
    <3>11. RobView' = [k \in 1 .. RobCount + 1 |->
                         IF k = RobCount + 1
                         THEN [pc |-> x.pc, opcode |-> x.opcode,
                               index |-> IF x.opcode \in Mem THEN t ELSE -1, done |-> 0]
                         ELSE RobView[k]]
      BY <3>7, <3>8, <3>10
    <3>12. CASE x.opcode \notin Mem
      <4>1. UNCHANGED lsqVars
        BY <3>6, <3>12
      <4>2. BeforeQueues'
        BY <1>0, <3>10, <4>1 DEF BeforeQueues, lsqVars
      <4>3. DispatchKeepsOrder_Lsq(x, t)
        BY <3>12, <4>1, LsqUnchanged DEF DispatchKeepsOrder_Lsq
      <4>. QED BY <1>0, <2>2, <2>3, <3>2, <3>10, <3>11, <4>2, <4>3, DispatchKeepsOrder
    <3>13. CASE x.opcode \in Mem
      <4>1. ASSUME NEW k \in 1 .. RobCount, RobView[k].opcode \in Mem PROVE RobView[k].index # t
        <5>1. RobView[k].opcode = RobInsn(k).opcode /\ RobView[k].index = RobInsn(k).lsqindex
          BY DEF RobView, RobRow, RobInsn, RobPlace
        <5>. QED BY <2>1, <2>2, <3>1, <3>13, <4>1, <5>1 DEF SlotsFresh, Mem
      <4>2. \A j \in 1 .. LsqCount : LsqView[j].slot # t
        <5>. SUFFICES ASSUME NEW j \in 1 .. LsqCount, LsqView[j].slot = t PROVE FALSE
          OBVIOUS
        <5>1. PICK k \in 1 .. RobCount : Owns(RobView[k], LsqView[j])
          BY <1>0 DEF Ordered, Linked, Owned
        <5>. QED BY <4>1, <5>1 DEF Owns, Awaited
      <4>3. LsqCount < lsq_SIZE
        <5>1. /\ lsq_SIZE \in Nat \ {0} /\ RingIndices(lsq_head, lsq_tail, lsq_SIZE)
              /\ LsqCount \in 0 .. lsq_SIZE
          BY RingCountBounds, SizesAssumption DEF TypeInv, LsqTypes, LsqCount
        <5>2. ASSUME LsqCount = lsq_SIZE PROVE FALSE
          <6>1. lsq_head # -1
            BY <5>1, <5>2, RingCountBounds DEF LsqCount
          <6>2. t \in RingSlots(lsq_head, lsq_tail, lsq_SIZE)
            BY <3>1, <3>2, <5>1, <5>2, <6>1 DEF RingSlots, LsqCount, RingCount, RingIndices
          <6>3. PICK j \in 1 .. LsqCount : t = LsqPlace(j)
            BY <5>1, <6>2, RingPlaces DEF LsqCount, LsqPlace
          <6>4. LsqView[j].slot = t
            BY <6>3 DEF LsqView, LsqRow
          <6>. QED BY <4>2, <6>4
        <5>. QED BY <5>1, <5>2
      <4>4. /\ LsqCount' = LsqCount + 1
            /\ LsqView' = [j \in 1 .. LsqCount + 1 |->
                             IF j = LsqCount + 1
                             THEN [slot |-> (lsq_tail + 1) % lsq_SIZE, pc |-> x.pc,
                                   store |-> IF x.opcode = "STORE" THEN 1 ELSE 0]
                             ELSE LsqView[j]]
            /\ lsq'[-1] = lsq[-1]
        BY <3>6, <3>13, <4>3, LsqEntered DEF Mem
      <4>5. BeforeQueues'
        BY <1>0, <3>10, <4>4 DEF BeforeQueues
      <4>6. DispatchKeepsOrder_Lsq(x, t)
        BY <3>1, <3>13, <4>1, <4>2, <4>4 DEF DispatchKeepsOrder_Lsq
      <4>. QED BY <1>0, <2>2, <2>3, <3>2, <3>10, <3>11, <4>5, <4>6, DispatchKeepsOrder
    <3>. QED BY <3>12, <3>13
  <2>. QED BY <2>4, <2>5
<1>10. CASE APEX_ROBcommit
  <2>1. latch'.memory = latch.memory /\ latch'.memoryForward = latch.memoryForward
    BY <1>1, <1>10, LatchFrame, LatchStages DEF Touches
  <2>2. UNCHANGED lsqVars
    BY <1>10 DEF APEX_ROBcommit
  <2>3. CASE UNCHANGED robVars
    BY <1>4, <2>1, <2>2, <2>3
  <2>4. CASE MayRetire /\ ROB!rob_Commitment
    <3>1. /\ RobCount = 0 => RobSame
          /\ RobCount # 0 => /\ RobCount' = RobCount - 1
                             /\ RobView' = [k \in 1 .. RobCount - 1 |-> RobView[k + 1]]
          /\ rob' = rob
      BY <2>4, RobCommitted
    <3>2. BeforeQueues' /\ LsqSame
      BY <1>0, <2>2, <3>1, LsqUnchanged DEF BeforeQueues, lsqVars
    <3>3. CASE RobCount = 0
      BY <1>0, <2>1, <3>1, <3>2, <3>3, NothingKeepsOrder
    <3>4. CASE RobCount # 0
      <4>1. RobView[1].done = 1
        <5>1. RobCount \in Nat /\ RobPlace(1) = rob_head
          BY <1>0, <3>4, OrderedIs DEF ViewsFit
        <5>2. RobView[1] = RobRow(rob[rob_head])
          BY <3>4, <5>1 DEF RobView
        <5>. QED BY <2>4, <5>2 DEF MayRetire, RobRow
      <4>. QED BY <1>0, <2>1, <3>1, <3>2, <3>4, <4>1, RetirementKeepsOrder
    <3>. QED BY <3>3, <3>4
  <2>. QED BY <1>10, <2>3, <2>4 DEF APEX_ROBcommit
<1>11. CASE APEX_memory
  <2>1. UNCHANGED <<robVars, lsqVars>> /\ latch.memory.has_insn
    BY <1>11 DEF APEX_memory
  <2>2. CASE latch' = latch
    BY <1>4, <2>1, <2>2
  <2>3. CASE latch' # latch
    <3>1. PICK v :
            latch' = [latch EXCEPT !.memory.has_insn = FALSE,
                                   !.memoryForward = [latch.memory EXCEPT !.result_buffer = v]]
      BY <1>11, <2>3 DEF APEX_memory
    <3>2. /\ latch'.memory = [latch.memory EXCEPT !.has_insn = FALSE]
          /\ latch'.memoryForward = [latch.memory EXCEPT !.result_buffer = v]
      BY <1>1, <3>1, LatchStages
    <3>3. latch.memory \in Latch
      BY <1>1, LatchStages
    <3>4. /\ latch'.memory.has_insn = FALSE
          /\ latch'.memoryForward.has_insn = latch.memory.has_insn
          /\ latch'.memoryForward.pc = latch.memory.pc
          /\ latch'.memoryForward.opcode = latch.memory.opcode
          /\ latch'.memory.pc = latch.memory.pc
      BY <3>2, <3>3 DEF Latch
    <3>5. latch.memory.has_insn = TRUE
      BY <2>1, <3>3 DEF Latch
    <3>6. BeforeQueues' /\ RobSame /\ LsqSame
      BY <1>0, <2>1, RobUnchanged, LsqUnchanged DEF BeforeQueues, lsqVars, robVars
    <3>7. RobCount' = RobCount /\ RobView' = RobView
      BY <3>6 DEF RobSame
    <3>. QED BY <1>0, <3>4, <3>5, <3>6, <3>7, ReportKeepsOrder
  <2>. QED BY <2>2, <2>3
<1>12. CASE APEX_memoryForward
  <2>1. PICK x : x = latch.memoryForward
    OBVIOUS
  <2>2. /\ latch'.memory = latch.memory /\ x \in Latch
        /\ latch'.memoryForward.has_insn = FALSE /\ latch.memoryForward.has_insn = TRUE
    <3>1. latch'.memory = latch.memory
      BY <1>1, <1>12, LatchFrame, LatchStages DEF Touches
    <3>2. latch.memoryForward \in Latch /\ latch'.memoryForward \in Latch
      BY <1>1, LatchStages
    <3>3. latch.memoryForward.has_insn /\ ~latch'.memoryForward.has_insn
      BY <1>1, <1>12, LatchEmptied DEF APEX_memoryForward
    <3>. QED BY <2>1, <3>1, <3>2, <3>3 DEF Latch
  <2>3. LsqSame /\ lsq' = lsq /\ UNCHANGED <<rob_head, rob_tail>>
    BY <1>12, LsqUnchanged DEF APEX_memoryForward, lsqVars
  <2>4. CASE Bogus(x)
    <3>1. UNCHANGED robVars
      BY <1>12, <2>1, <2>4 DEF APEX_memoryForward, Bogus, robVars
    <3>2. BeforeQueues' /\ RobSame
      BY <1>0, <2>3, <3>1, RobUnchanged DEF BeforeQueues, robVars
    <3>. QED BY <1>0, <2>1, <2>2, <2>3, <2>4, <3>2, BogusKeepsOrder
  <2>5. ASSUME NEW s \in 1 .. RobCount, Serves(x, RobView[s], s),
               \A j \in 1 .. LsqCount : x.pc < LsqView[j].pc
        PROVE  QueueOrder'
    <3>1. x.pc = RobView[s].pc /\ x.opcode \in Mem /\ (x.opcode = "STORE" => s = 1)
      BY <2>5 DEF Serves, Awaited
    <3>2. PICK r, result : r = ROB!SearchStop(x.pc) /\ result = x.result_buffer
      OBVIOUS
    <3>3. r = RobPlace(s) /\ rob[r].pc_value = x.pc
      <4>1. Distinct
        BY <1>0, OrderedIs DEF Distinct
      <4>2. r = RobPlace(s)
        BY <3>1, <3>2, <4>1, SearchFinds
      <4>. QED BY <3>1, <4>2 DEF RobView, RobRow
    <3>4. x.opcode = "STORE" => rob_head = RobPlace(s)
      BY <1>0, <3>1, OrderedIs DEF ViewsFit
    <3>5. \/ rob' = [rob EXCEPT ![RobPlace(s)].allocated = 1]
          \/ rob' = [rob EXCEPT ![RobPlace(s)].allocated = 1, ![RobPlace(s)].result = result]
      BY <1>12, <2>1, <3>1, <3>2, <3>3, <3>4 DEF APEX_memoryForward, Mem
    <3>6. /\ RobCount' = RobCount
          /\ RobView' = [j \in 1 .. RobCount |-> IF j = s THEN [RobView[j] EXCEPT !.done = 1]
                                                ELSE RobView[j]]
          /\ rob'[-1] = rob[-1]
      BY <2>3, <3>5, RobMarked
    <3>7. BeforeQueues'
      BY <1>0, <2>3, <3>6 DEF BeforeQueues
    <3>. QED BY <1>0, <2>1, <2>2, <2>3, <2>5, <3>6, <3>7, ServiceKeepsOrder
  <2>6. \/ Bogus(x)
        \/ /\ \E s \in 1 .. RobCount : Serves(x, RobView[s], s)
           /\ \A j \in 1 .. LsqCount : x.pc < LsqView[j].pc
    BY <1>0, <2>1, <2>2 DEF Ordered, MemoryOrder, Served, InMemory
  <2>. QED BY <2>4, <2>5, <2>6
<1>13. CASE APEX_issue
  <2>1. PICK l \in [LatchStage -> Latch] :
          /\ MemoryPart(l) /\ l.issue.has_insn = TRUE
          /\ \/ l = latch
             \/ \E fu \in IQ!Unit, e \in Latch, j \in 1 .. Len(iq) :
                  /\ l = [latch EXCEPT !.issue = e, ![UnitStage(fu)] = e]
                  /\ e.pc = iq[j].pc /\ e.opcode = iq[j].opcode /\ fuType(e.opcode) = fu
    BY <1>13, IssueGives
  <2>2. l.memory = latch.memory /\ l.memoryForward = latch.memoryForward
    <3>1. ASSUME NEW fu \in IQ!Unit, NEW e \in Latch,
                 l = [latch EXCEPT !.issue = e, ![UnitStage(fu)] = e]
          PROVE  l.memory = latch.memory /\ l.memoryForward = latch.memoryForward
      BY <1>1, <3>1, LatchStages DEF IQ!Unit, UnitStage
    <3>. QED BY <2>1, <3>1
  <2>3. latch'.memoryForward = latch.memoryForward /\ ~latch.memoryForward.has_insn
    <3>1. latch'.memoryForward = l.memoryForward
      BY <2>1, MemoryPartLatches, LatchStages
    <3>2. ~latch.memoryForward.has_insn
      BY <1>13, StageStep DEF Schedule
    <3>. QED BY <2>2, <3>1, <3>2
  <2>4. is_MEM_free => ~latch.memory.has_insn
    BY DEF TypeInv, UnitTypes
  <2>5. l.issue \in Latch
    BY <2>1, LatchStages
  <2>6. UNCHANGED robVars
    BY <1>13 DEF APEX_issue
  <2>7. /\ \/ latch' = l /\ LsqSame
           \/ StartsOldest(l)
           \/ StartsNothing(l)
        /\ lsq'[-1].pc_value = lsq[-1].pc_value /\ lsq'[-1].lsBit = lsq[-1].lsBit
    <3>1. TypeInv /\ TypeInv' /\ RobOrder /\ Linked /\ BeforeQueues
      BY <1>0 DEF Ordered
    <3>2. MemoryPart(l)
      BY <2>1
    <3>. QED BY <2>5, <3>1, <3>2, StartIs
  <2>8. BeforeQueues' /\ RobSame
    BY <1>0, <2>6, <2>7, RobUnchanged DEF BeforeQueues, robVars
  <2>9. CASE latch' = l /\ LsqSame
    BY <1>3, <2>2, <2>6, <2>7, <2>9
  <2>10. CASE StartsOldest(l)
    <3>5. PICK k \in 1 .. RobCount : \E op :
            /\ Awaited(RobView[k]) /\ RobView[k].pc = LsqView[1].pc
            /\ op.has_insn = l.issue.has_insn
            /\ op.pc = RobView[k].pc /\ op.opcode = RobView[k].opcode
            /\ op.opcode = "STORE" => k = 1
            /\ Started(l, op)
      BY <2>10 DEF StartsOldest
    <3>1. PICK op :
            /\ Awaited(RobView[k]) /\ RobView[k].pc = LsqView[1].pc
            /\ op.has_insn = l.issue.has_insn
            /\ op.pc = RobView[k].pc /\ op.opcode = RobView[k].opcode
            /\ op.opcode = "STORE" => k = 1
            /\ Started(l, op)
      BY <3>5
    <3>2. latch'.memory = op
      BY <2>1, <3>1, LatchStages DEF Started
    <3>3. Serves(latch'.memory, RobView[k], k) /\ latch'.memory.has_insn
      BY <2>1, <3>1, <3>2 DEF Serves
    <3>4. /\ is_MEM_free /\ LsqCount # 0 /\ LsqCount' = LsqCount - 1
          /\ LsqView' = [j \in 1 .. LsqCount - 1 |-> LsqView[j + 1]]
      BY <2>10 DEF StartsOldest
    <3>. QED BY <1>0, <2>3, <2>4, <2>8, <3>1, <3>3, <3>4, StartKeepsOrder
  <2>11. CASE StartsNothing(l)
    <3>1. PICK op : /\ op.has_insn = l.issue.has_insn
                    /\ op.pc = 0 /\ op.opcode = "ADD"
                    /\ Started(l, op)
      BY <2>11 DEF StartsNothing
    <3>2. latch'.memory = op
      BY <2>1, <3>1, LatchStages DEF Started
    <3>3. RobCount = 0 /\ LsqSame /\ Bogus(latch'.memory)
      BY <2>11, <3>1, <3>2 DEF StartsNothing, Bogus
    <3>. QED BY <1>0, <2>3, <2>8, <3>3, BogusStartKeepsOrder
  <2>. QED BY <2>7, <2>9, <2>10, <2>11
<1>14. CASE APEX_writeback \/ APEX_MU \/ APEX_IU \/ APEX_DR1 \/ APEX_fetch
  <2>1. latch'.memory = latch.memory /\ latch'.memoryForward = latch.memoryForward
    BY <1>1, <1>14, LatchFrame, LatchStages DEF Touches
  <2>2. UNCHANGED <<robVars, lsqVars>>
    BY <1>14 DEF APEX_writeback, APEX_MU, APEX_IU, APEX_DR1, APEX_fetch
  <2>. QED BY <1>4, <2>1, <2>2
<1>15. CASE Prompt \/ APEX_cpu_stop \/ Idle \/ UNCHANGED vars
  <2>1. UNCHANGED <<robVars, lsqVars, latch>>
    BY <1>15 DEF Prompt, APEX_cpu_stop, Idle, vars
  <2>. QED BY <1>4, <2>1
<1>. QED
  BY <1>6, <1>7, <1>8, <1>9, <1>10, <1>11, <1>12, <1>13, <1>14, <1>15 DEF Next

(* Program order is kept, and holds in the beginning.                      *)
LEMMA ProgramOrderKept ==
  ASSUME TypeInv, TypeInv', BranchFree, ProgramOrder, SlotsFresh, Schedule, IqShape, [Next]_vars
  PROVE  ProgramOrder'
<1>1. code' = code
  BY CodeKept
<1>2. InOrder'
  BY InOrderKept DEF ProgramOrder
<1>3. QueueOrder'
  BY <1>1, QueuesKept
<1>. QED BY <1>2, <1>3 DEF ProgramOrder

(* Both queues and the memory unit are empty at the start.                 *)
LEMMA InitProgramOrder == Init => ProgramOrder
<1>. SUFFICES ASSUME Init PROVE ProgramOrder
  OBVIOUS
<1>1. TypeInv
  BY InitTypes
<1>2. \A s \in LatchStage : latch[s] = Bubble
  BY DEF Init, LatchStage
<1>3. /\ Bubble.has_insn = FALSE /\ Bubble.pc = 0
      /\ RobCount = 0 /\ LsqCount = 0
  <2>1. rob_head = -1 /\ lsq_head = -1
    BY DEF Init, ROB!Init, LSQ!Init
  <2>2. RobCount = 0 /\ LsqCount = 0
    BY <1>1, <2>1, ViewsHaveTypes DEF ViewsFit
  <2>. QED BY <2>2 DEF Bubble
<1>4. InOrder
  BY InitInOrder
<1>6. Linked
  BY <1>3 DEF Linked, Owned, SlotKnown, LsqOrder, Indexed
<1>7. MemoryOrder
  <2>1. OneOperation /\ Served /\ Pending
    BY <1>2, <1>3, LatchStages DEF OneOperation, Served, Pending, InMemory
  <2>2. latch.memory.pc = 0 /\ ~latch.DR1.has_insn /\ ~latch.RD2.has_insn
    BY <1>2, <1>3, LatchStages
  <2>3. Front = 4000
    BY <2>2 DEF Front, Init
  <2>4. Past
    BY <1>3, <2>2, <2>3 DEF Past
  <2>. QED BY <2>1, <2>4 DEF MemoryOrder
<1>8. BeforeQueues
  <2>1. -1 \in LSQ!LsqSlot /\ -1 \in ROB!RobSlot
    BY SizesAssumption DEF LSQ!LsqSlot, ROB!RobSlot
  <2>2. lsq[-1] = LSQ!ClearEntry
    BY <2>1 DEF Init, LSQ!Init
  <2>3. PICK before \in {0, -1} :
          rob[-1] = [allocated |-> 0, opcode |-> "ADD", rd |-> 0, lsqindex |-> 0,
                     result |-> 0, pc_value |-> before]
    BY <2>1 DEF Init, ROB!Init
  <2>. QED BY <2>2, <2>3 DEF BeforeQueues, LSQ!ClearEntry
<1>. QED BY <1>4, <1>6, <1>7, <1>8 DEF ProgramOrder, QueueOrder

(* A store that waits in the memory unit is the oldest of the rob.         *)
LEMMA StoreOldestNow == TypeInv /\ ProgramOrder => StoreIsOldest
<1>. SUFFICES ASSUME TypeInv, ProgramOrder,
                     NEW s \in {"memory", "memoryForward"}, latch[s].has_insn,
                     latch[s].opcode = "STORE"
              PROVE  /\ ~ROB!rob_checkEmpty
                     /\ rob[rob_head].pc_value = latch[s].pc
                     /\ rob[rob_head].allocated = 0
  BY DEF StoreIsOldest
<1>1. PICK k \in 1 .. RobCount : Serves(latch[s], RobView[k], k)
  BY DEF ProgramOrder, QueueOrder, MemoryOrder, Served, InMemory, Bogus
<1>2. k = 1 /\ RobView[1].pc = latch[s].pc /\ RobView[1].done = 0
  BY <1>1 DEF Serves, Awaited
<1>3. RobCount # 0 /\ rob_head # -1 /\ RobPlace(1) = rob_head
  BY <1>1, ViewsHaveTypes DEF ViewsFit
<1>4. RobView[1] = RobRow(rob[rob_head])
  BY <1>1, <1>2, <1>3 DEF RobView
<1>. QED BY <1>2, <1>3, <1>4 DEF RobRow, ROB!rob_checkEmpty

(* The inductive invariant of the two queues and the memory unit: in a     *)
(* program without branches they hold instructions in program order, as    *)
(* long as RD2 gives a load or a store a slot of the lsq that no           *)
(* instruction in the rob has.                                             *)
THEOREM ProgramOrderHolds == Spec /\ BranchFree /\ []SlotsFresh => []ProgramOrder
<1>1. Init => ProgramOrder
  BY InitProgramOrder
<1>2. /\ TypeInv /\ TypeInv' /\ Schedule /\ IqShape /\ SlotsFresh
      /\ BranchFree /\ ProgramOrder /\ [Next]_vars
      => BranchFree' /\ ProgramOrder'
  BY CodeKept, ProgramOrderKept
<1>. QED
  BY <1>1, <1>2, TypesInvariant, ShapeInvariant, PTL DEF Spec

(* In a program without branches APEX_issue starts a store when it is the  *)
(* oldest in the reorder buffer: memory is not written before its time.    *)
THEOREM StoreIsOldestHolds == Spec /\ BranchFree /\ []SlotsFresh => []StoreIsOldest
<1>1. TypeInv /\ ProgramOrder => StoreIsOldest
  BY StoreOldestNow
<1>. QED
  BY <1>1, TypesInvariant, ProgramOrderHolds, PTL

(* An operation that starts is behind the one before.                      *)
LEMMA StartsForward ==
  ASSUME TypeInv, TypeInv', ProgramOrder, IqShape, [Next]_vars,
         latch'.memory.has_insn, ~latch.memory.has_insn, latch'.memory.pc # 0
  PROVE  latch'.memory.pc > latch.memory.pc
<1>0. /\ latch \in [LatchStage -> Latch] /\ latch' \in [LatchStage -> Latch]
      /\ \A s \in LatchStage : latch[s] \in Latch /\ latch'[s] \in Latch
      /\ RobOrder /\ Linked /\ BeforeQueues /\ Past
  BY DEF TypeInv, LatchTypes, LatchesFit, ProgramOrder, InOrder, QueueOrder, MemoryOrder
<1>1. latch'.memory # latch.memory
  OBVIOUS
<1>2. CASE APEX_issue
  <2>1. PICK l \in [LatchStage -> Latch] :
          /\ MemoryPart(l) /\ l.issue.has_insn = TRUE
          /\ \/ l = latch
             \/ \E fu \in IQ!Unit, e \in Latch, j \in 1 .. Len(iq) :
                  /\ l = [latch EXCEPT !.issue = e, ![UnitStage(fu)] = e]
                  /\ e.pc = iq[j].pc /\ e.opcode = iq[j].opcode /\ fuType(e.opcode) = fu
    BY <1>2, IssueGives
  <2>2. l.memory = latch.memory
    <3>1. ASSUME NEW fu \in IQ!Unit, NEW e \in Latch,
                 l = [latch EXCEPT !.issue = e, ![UnitStage(fu)] = e]
          PROVE  l.memory = latch.memory
      BY <1>0, <3>1, LatchStages DEF IQ!Unit, UnitStage
    <3>. QED BY <2>1, <3>1
  <2>3. \/ latch' = l
        \/ StartsOldest(l)
        \/ StartsNothing(l)
    <3>1. MemoryPart(l) /\ l.issue \in Latch
      BY <2>1, LatchStages
    <3>. QED BY <1>0, <3>1, StartIs
  <2>4. CASE StartsOldest(l)
    <3>1. PICK op : /\ op.pc = LsqView[1].pc
                    /\ Started(l, op)
      BY <2>4 DEF StartsOldest
    <3>2. latch'.memory = op
      BY <2>1, <3>1, LatchStages DEF Started
    <3>3. 1 \in 1 .. LsqCount
      BY <2>4, ViewsHaveTypes DEF StartsOldest, ViewsFit
    <3>4. latch.memory.pc < latch'.memory.pc
      BY <1>0, <3>1, <3>2, <3>3 DEF Past
    <3>5. latch.memory.pc \in Int /\ latch'.memory.pc \in Int
      BY <1>0, LatchStages, InsnPcIsInt DEF Latch
    <3>. QED BY <3>4, <3>5
  <2>5. CASE StartsNothing(l)
    <3>1. PICK op : op.pc = 0 /\ Started(l, op)
      BY <2>5 DEF StartsNothing
    <3>2. latch'.memory = op
      BY <2>1, <3>1, LatchStages DEF Started
    <3>. QED BY <3>1, <3>2
  <2>. QED BY <1>1, <2>2, <2>3, <2>4, <2>5
<1>3. CASE APEX_memory
  <2>1. PICK v :
          \/ latch' = latch
          \/ latch' = [latch EXCEPT !.memory.has_insn = FALSE,
                                    !.memoryForward = [latch.memory EXCEPT !.result_buffer = v]]
    BY <1>3 DEF APEX_memory
  <2>2. latch'.memory = latch.memory \/ latch'.memory = [latch.memory EXCEPT !.has_insn = FALSE]
    BY <1>0, <2>1, LatchStages
  <2>3. latch.memory \in Latch
    BY <1>0, LatchStages
  <2>. QED BY <1>1, <2>2, <2>3 DEF Latch
<1>4. CASE \/ APEX_writeback \/ APEX_ROBcommit \/ APEX_memoryForward \/ APEX_MUforward \/ APEX_MU
           \/ APEX_BU \/ APEX_IUforward \/ APEX_IU \/ APEX_RD2 \/ APEX_DR1 \/ APEX_fetch
  BY <1>0, <1>1, <1>4, LatchFrame, LatchStages DEF Touches
<1>5. CASE Prompt \/ APEX_cpu_stop \/ Idle \/ UNCHANGED vars
  BY <1>1, <1>5 DEF Prompt, APEX_cpu_stop, Idle, vars
<1>. QED BY <1>2, <1>3, <1>4, <1>5 DEF Next

(* In a program without branches the memory operations that APEX_issue     *)
(* starts are loads and stores in program order, each once.                *)
THEOREM MemoryInOrderHolds == Spec /\ BranchFree /\ []SlotsFresh => MemoryInOrder
<1>1. TypeInv /\ TypeInv' /\ ProgramOrder /\ IqShape /\ [Next]_vars
      => [latch'.memory.has_insn /\ ~latch.memory.has_insn /\ latch'.memory.pc # 0 =>
            latch'.memory.pc > latch.memory.pc]_vars
  BY StartsForward
<1>. QED
  BY <1>1, TypesInvariant, ShapeInvariant, ProgramOrderHolds, PTL DEF Spec, MemoryInOrder

(* The operation in the unit, and in front of those that are queued.       *)
LEMMA UnitFirst ==
  ASSUME NEW n \in Nat, NEW q \in [1 .. n -> Int], NEW p \in Int
  PROVE  /\ Len(<< >> \o << >> \o q) = n
         /\ \A i \in 1 .. n : (<< >> \o << >> \o q)[i] = q[i]
         /\ \A s \in {<<p>> \o << >> \o q, << >> \o <<p>> \o q} :
              /\ Len(s) = n + 1 /\ s[1] = p
              /\ \A i \in 2 .. n + 1 : s[i] = q[i - 1]
<1>1. q \in Seq(Int) /\ Len(q) = n
  OBVIOUS
<1>2. << >> \in Seq(Int) /\ <<p>> \in Seq(Int) /\ Len(<<p>>) = 1 /\ <<p>>[1] = p
  OBVIOUS
<1>3. << >> \o << >> = << >> /\ << >> \o q = q
  BY <1>1, <1>2, ConcatEmptySeq
<1>4. <<p>> \o << >> = <<p>> /\ << >> \o <<p>> = <<p>>
  BY <1>2, ConcatEmptySeq
<1>5. /\ Len(<<p>> \o q) = n + 1
      /\ \A i \in 1 .. n + 1 : (<<p>> \o q)[i] = IF i <= 1 THEN p ELSE q[i - 1]
  BY <1>1, <1>2, ConcatProperties
<1>. QED BY <1>1, <1>3, <1>4, <1>5

(* The queues hold what the rob waits for if they rise, if each of theirs  *)
(* is awaited, and each that is awaited is theirs.                         *)
Rises(pending) ==
  /\ Len(pending) \in Nat
  /\ \A i \in 1 .. Len(pending) : pending[i] \in Int
  /\ \A i, j \in 1 .. Len(pending) : i < j => pending[i] < pending[j]
Holds(pending) ==
  /\ \A k \in 1 .. RobCount : Awaited(RobView[k]) =>
        \E i \in 1 .. Len(pending) : pending[i] = RobView[k].pc
  /\ \A i \in 1 .. Len(pending) : \E k \in 1 .. RobCount :
        Awaited(RobView[k]) /\ pending[i] = RobView[k].pc
Follows(pending, awaited) ==
  /\ \A k \in awaited : \E i \in 1 .. Len(pending) : pending[i] = RobInsn(k).pc_value
  /\ \A i \in 1 .. Len(pending) : \E k \in awaited : pending[i] = RobInsn(k).pc_value
  /\ \A i, j \in 1 .. Len(pending), k, m \in awaited :
       i < j /\ pending[i] = RobInsn(k).pc_value /\ pending[j] = RobInsn(m).pc_value
         => k < m

(* What rises, and holds what the rob still waits for, is in the order of  *)
(* the rob.                                                                *)
LEMMA PendingIsAwaited ==
  ASSUME TypeInv, RobOrder, NEW pending, Rises(pending), Holds(pending), NEW awaited,
         awaited = {k \in 1 .. RobCount : /\ RobInsn(k).opcode \in {"LOAD", "STORE"}
                                          /\ RobInsn(k).allocated = 0}
  PROVE  Follows(pending, awaited)
<1>1. \A k \in 1 .. RobCount : /\ RobView[k].pc = RobInsn(k).pc_value
                               /\ RobView[k].opcode = RobInsn(k).opcode
                               /\ RobView[k].done = RobInsn(k).allocated
  BY DEF RobView, RobRow, RobPlace, RobInsn
<1>2. awaited = {k \in 1 .. RobCount : Awaited(RobView[k])}
  BY <1>1 DEF Awaited, Mem
<1>3. ASSUME NEW k \in 1 .. RobCount, NEW m \in 1 .. RobCount, RobView[k].pc < RobView[m].pc
      PROVE  k < m
  <2>1. \A j \in 1 .. RobCount : RobView[j].pc \in Int
    BY OrderIsDistinct
  <2>2. ~(m < k)
    BY <1>3, <2>1 DEF RobOrder
  <2>3. m # k
    BY <1>3, <2>1
  <2>4. RobCount \in Nat
    BY ViewsHaveTypes DEF ViewsFit
  <2>. QED BY <2>2, <2>3, <2>4
<1>4. ASSUME NEW i \in 1 .. Len(pending), NEW j \in 1 .. Len(pending),
             NEW k \in awaited, NEW m \in awaited,
             i < j, pending[i] = RobInsn(k).pc_value, pending[j] = RobInsn(m).pc_value
      PROVE  k < m
  <2>1. k \in 1 .. RobCount /\ m \in 1 .. RobCount
    BY <1>2
  <2>2. RobView[k].pc < RobView[m].pc
    BY <1>1, <1>4, <2>1 DEF Rises
  <2>. QED BY <1>3, <2>1, <2>2
<1>5. ASSUME NEW k \in awaited PROVE \E i \in 1 .. Len(pending) : pending[i] = RobInsn(k).pc_value
  BY <1>1, <1>2 DEF Holds
<1>6. ASSUME NEW i \in 1 .. Len(pending) PROVE \E k \in awaited : pending[i] = RobInsn(k).pc_value
  <2>1. PICK k \in 1 .. RobCount : Awaited(RobView[k]) /\ pending[i] = RobView[k].pc
    BY DEF Holds
  <2>2. k \in awaited /\ RobView[k].pc = RobInsn(k).pc_value
    BY <1>1, <1>2, <2>1
  <2>. QED BY <2>1, <2>2
<1>. QED BY <1>4, <1>5, <1>6 DEF Follows

(* Program order leaves no load or store out of the memory unit and the    *)
(* lsq.                                                                    *)
LEMMA MemoryNotLostNow == ASSUME TypeInv, ProgramOrder PROVE MemoryNotLost
<1>0. /\ RobOrder /\ Linked /\ OneOperation /\ Served /\ Pending
      /\ RobCount \in Nat /\ LsqCount \in Nat
      /\ \A k \in 1 .. RobCount : RobView[k].pc \in Int /\ RobView[k].pc >= 4000
      /\ \A s \in LatchStage : latch[s] \in Latch
      /\ \A s \in LatchStage : latch[s].pc \in Int /\ latch[s].has_insn \in BOOLEAN
      /\ \A j \in 1 .. LsqCount : LsqView[j].pc \in Int
  <2>1. RobOrder /\ Linked /\ OneOperation /\ Served /\ Pending
    BY DEF ProgramOrder, InOrder, QueueOrder, MemoryOrder
  <2>2. ViewsFit
    BY ViewsHaveTypes
  <2>3. \A s \in LatchStage : latch[s] \in Latch
    BY DEF TypeInv, LatchTypes, LatchesFit
  <2>4. \A s \in LatchStage : latch[s].pc \in Int
    BY <2>3, InsnPcIsInt DEF Latch
  <2>5. \A s \in LatchStage : latch[s].has_insn \in BOOLEAN
    BY <2>3 DEF Latch
  <2>6. \A j \in 1 .. LsqCount : LsqView[j].pc \in Int
    <3>1. \A j \in 1 .. LsqCount : LsqView[j] \in LsqRows
      BY <2>2 DEF ViewsFit
    <3>. QED BY <3>1, InsnPcIsInt DEF LsqRows
  <2>7. \A k \in 1 .. RobCount : RobView[k].pc \in Int /\ RobView[k].pc >= 4000
    BY <2>1, OrderIsDistinct
  <2>. QED BY <2>1, <2>2, <2>3, <2>4, <2>5, <2>6, <2>7 DEF ViewsFit
<1>. DEFINE awaited == {k \in 1 .. RobCount : /\ RobInsn(k).opcode \in {"LOAD", "STORE"}
                                               /\ RobInsn(k).allocated = 0}
            In(s) == IF latch[s].has_insn /\ latch[s].pc # 0 THEN <<latch[s].pc>> ELSE << >>
            queued == [j \in 1 .. RingCount(lsq_head, lsq_tail, lsq_SIZE) |->
                         lsq[RingSlot(lsq_head, j, lsq_SIZE)].pc_value]
            pending == In("memoryForward") \o In("memory") \o queued
<1>1. Follows(pending, awaited) => MemoryNotLost
  BY DEF MemoryNotLost, Follows
<1>2. queued = [j \in 1 .. LsqCount |-> LsqView[j].pc]
  BY DEF LsqView, LsqRow, LsqPlace, LsqCount
<1>3. \A s \in InMemory :
        In(s) = IF latch[s].has_insn /\ latch[s].pc # 0 THEN <<latch[s].pc>> ELSE << >>
  OBVIOUS
<1>4. pending = In("memoryForward") \o In("memory") \o queued
  OBVIOUS
<1>11. awaited = {k \in 1 .. RobCount : /\ RobInsn(k).opcode \in {"LOAD", "STORE"}
                                       /\ RobInsn(k).allocated = 0}
  OBVIOUS
<1>. HIDE DEF awaited, In, queued, pending
<1>5. SUFFICES Rises(pending) /\ Holds(pending)
  BY <1>0, <1>1, <1>11, PendingIsAwaited
<1>6. \A j \in 1 .. LsqCount : \E k \in 1 .. RobCount :
        Awaited(RobView[k]) /\ RobView[k].pc = LsqView[j].pc
  BY <1>0 DEF Linked, Owned, Owns
<1>7. \A i, j \in 1 .. LsqCount : i < j => LsqView[i].pc < LsqView[j].pc
  BY <1>0 DEF Linked, LsqOrder
<1>8. queued \in [1 .. LsqCount -> Int]
  BY <1>0, <1>2
<1>9. CASE \A s \in InMemory : ~(latch[s].has_insn /\ latch[s].pc # 0)
  <2>1. pending = << >> \o << >> \o queued
    BY <1>3, <1>4, <1>9 DEF InMemory
  <2>2. Len(pending) = LsqCount /\ \A i \in 1 .. LsqCount : pending[i] = LsqView[i].pc
    <3>1. /\ Len(<< >> \o << >> \o queued) = LsqCount
          /\ \A i \in 1 .. LsqCount : (<< >> \o << >> \o queued)[i] = queued[i]
      BY <1>0, <1>8, UnitFirst
    <3>. QED BY <1>2, <2>1, <3>1
  <2>3. ASSUME NEW k \in 1 .. RobCount, Awaited(RobView[k])
        PROVE  \E i \in 1 .. LsqCount : LsqView[i].pc = RobView[k].pc
    <3>1. ~(RobView[k].pc = 0)
      BY <1>0
    <3>2. ~ \E s \in InMemory : latch[s].has_insn /\ latch[s].pc = RobView[k].pc
      BY <1>9, <3>1
    <3>. QED BY <1>0, <2>3, <3>2 DEF Pending
  <2>4. \A k \in 1 .. RobCount : Awaited(RobView[k]) =>
          \E i \in 1 .. Len(pending) : pending[i] = RobView[k].pc
    BY <2>2, <2>3
  <2>5. \A i \in 1 .. Len(pending) : \E k \in 1 .. RobCount :
          Awaited(RobView[k]) /\ pending[i] = RobView[k].pc
    BY <1>6, <2>2
  <2>6. \A i, j \in 1 .. Len(pending) : i < j => pending[i] < pending[j]
    BY <1>7, <2>2
  <2>7. Len(pending) \in Nat /\ \A i \in 1 .. Len(pending) : pending[i] \in Int
    BY <1>0, <2>2
  <2>. QED BY <2>4, <2>5, <2>6, <2>7 DEF Rises, Holds
<1>10. ASSUME NEW s \in InMemory, latch[s].has_insn, latch[s].pc # 0
       PROVE  Rises(pending) /\ Holds(pending)
  <2>1. PICK p : p = latch[s].pc
    OBVIOUS
  <2>2. /\ p \in Int
        /\ \E k \in 1 .. RobCount : Awaited(RobView[k]) /\ RobView[k].pc = p
        /\ \A j \in 1 .. LsqCount : p < LsqView[j].pc
    <3>1. ~Bogus(latch[s])
      BY <1>10 DEF Bogus
    <3>2. /\ \E k \in 1 .. RobCount : Serves(latch[s], RobView[k], k)
          /\ \A j \in 1 .. LsqCount : latch[s].pc < LsqView[j].pc
      BY <1>0, <1>10, <3>1 DEF Served
    <3>3. latch[s].pc \in Int
      BY <1>0, LatchStages DEF InMemory
    <3>. QED BY <2>1, <3>2, <3>3 DEF Serves
  <2>3. \A t \in InMemory : latch[t].has_insn => t = s
    BY <1>0, <1>10, LatchStages DEF OneOperation, InMemory
  <2>4. pending \in {<<p>> \o << >> \o queued, << >> \o <<p>> \o queued}
    <3>1. CASE s = "memory"
      <4>1. ~latch.memoryForward.has_insn
        BY <2>3, <3>1 DEF InMemory
      <4>. QED BY <1>3, <1>4, <1>10, <2>1, <3>1, <4>1 DEF InMemory
    <3>2. CASE s = "memoryForward"
      <4>1. ~latch.memory.has_insn
        BY <2>3, <3>2 DEF InMemory
      <4>. QED BY <1>3, <1>4, <1>10, <2>1, <3>2, <4>1 DEF InMemory
    <3>. QED BY <3>1, <3>2 DEF InMemory
  <2>5. /\ Len(pending) = LsqCount + 1 /\ pending[1] = p
        /\ \A i \in 2 .. LsqCount + 1 : pending[i] = LsqView[i - 1].pc
    <3>1. /\ Len(pending) = LsqCount + 1 /\ pending[1] = p
          /\ \A i \in 2 .. LsqCount + 1 : pending[i] = queued[i - 1]
      BY <1>0, <1>8, <2>2, <2>4, UnitFirst
    <3>. QED BY <1>0, <1>2, <3>1
  <2>6. ASSUME NEW k \in 1 .. RobCount, Awaited(RobView[k])
        PROVE  \E i \in 1 .. LsqCount + 1 : pending[i] = RobView[k].pc
    <3>1. CASE \E j \in 1 .. LsqCount : LsqView[j].pc = RobView[k].pc
      <4>1. PICK j \in 1 .. LsqCount : LsqView[j].pc = RobView[k].pc
        BY <3>1
      <4>2. j + 1 \in 2 .. LsqCount + 1 /\ (j + 1) - 1 = j /\ j + 1 \in 1 .. LsqCount + 1
        BY <1>0
      <4>3. pending[j + 1] = LsqView[j].pc
        BY <2>5, <4>2
      <4>. QED BY <4>1, <4>2, <4>3
    <3>2. CASE \E t \in InMemory : latch[t].has_insn /\ latch[t].pc = RobView[k].pc
      <4>1. pending[1] = RobView[k].pc /\ 1 \in 1 .. LsqCount + 1
        BY <1>0, <2>1, <2>3, <2>5, <3>2
      <4>. QED BY <4>1
    <3>. QED BY <1>0, <2>6, <3>1, <3>2 DEF Pending
  <2>7. ASSUME NEW i \in 1 .. LsqCount + 1
        PROVE  /\ pending[i] \in Int
               /\ \E k \in 1 .. RobCount : Awaited(RobView[k]) /\ pending[i] = RobView[k].pc
    <3>1. CASE i = 1
      BY <2>2, <2>5, <3>1
    <3>2. CASE i # 1
      <4>1. i - 1 \in 1 .. LsqCount /\ pending[i] = LsqView[i - 1].pc
        BY <1>0, <2>5, <3>2
      <4>2. LsqView[i - 1].pc \in Int
        BY <1>0, <4>1
      <4>. QED BY <1>6, <4>1, <4>2
    <3>. QED BY <3>1, <3>2
  <2>8. ASSUME NEW i \in 1 .. LsqCount + 1, NEW j \in 1 .. LsqCount + 1, i < j
        PROVE  pending[i] < pending[j]
    <3>1. j - 1 \in 1 .. LsqCount /\ pending[j] = LsqView[j - 1].pc
      BY <1>0, <2>5, <2>8
    <3>2. CASE i = 1
      BY <2>2, <2>5, <3>1, <3>2
    <3>3. CASE i # 1
      <4>1. i - 1 \in 1 .. LsqCount /\ pending[i] = LsqView[i - 1].pc /\ i - 1 < j - 1
        BY <1>0, <2>5, <2>8, <3>3
      <4>. QED BY <1>7, <3>1, <4>1
    <3>. QED BY <3>2, <3>3
  <2>9. Len(pending) = LsqCount + 1 /\ Len(pending) \in Nat
    BY <1>0, <2>5
  <2>10. Rises(pending)
    BY <2>7, <2>8, <2>9 DEF Rises
  <2>11. Holds(pending)
    BY <2>6, <2>7, <2>9 DEF Holds
  <2>. QED BY <2>10, <2>11
<1>. QED BY <1>9, <1>10

(* In a program without branches every load or store the reorder buffer    *)
(* waits for is in the memory unit, on its way out of it, or in the lsq,   *)
(* and nothing else is: none is lost, doubled or exchanged between the two *)
(* queues.                                                                 *)
THEOREM MemoryNotLostHolds == Spec /\ BranchFree /\ []SlotsFresh => []MemoryNotLost
<1>1. TypeInv /\ ProgramOrder => MemoryNotLost
  BY MemoryNotLostNow
<1>. QED
  BY <1>1, TypesInvariant, ProgramOrderHolds, PTL

(* What follows the instruction that retired last: the rob, RD2, DR1 and   *)
(* fetch hold the next ones, with no gap between them.                     *)
LastPc == IF latch.writeback.pc = 0 THEN 3996 ELSE latch.writeback.pc
FrontGapless ==
  /\ latch.RD2.has_insn /\ latch.DR1.has_insn => latch.DR1.pc = latch.RD2.pc + 4
  /\ latch.RD2.has_insn /\ ~latch.DR1.has_insn => pc = latch.RD2.pc + 4
  /\ latch.DR1.has_insn => pc = latch.DR1.pc + 4
RobGapless ==
  /\ latch.writeback.pc = 0 \/ latch.writeback.pc >= 4000
  /\ \A k \in 1 .. RobCount : RobView[k].pc = LastPc + 4 * k
  /\ Front = LastPc + 4 * (RobCount + 1)
Gapless == FrontGapless /\ RobGapless

(* The front end moves on by one instruction at a time, if nothing is      *)
(* skipped.                                                                *)
LEMMA FrontGaplessKept ==
  ASSUME TypeInv, TypeInv', BranchFree, InOrder, FrontGapless, NothingSkipped, Schedule,
         [Next]_vars
  PROVE  /\ FrontGapless'
         /\ APEX_RD2 => Front' = Front + 4
         /\ ~APEX_RD2 => Front' = Front
<1>0. /\ latch \in [LatchStage -> Latch] /\ latch' \in [LatchStage -> Latch]
      /\ latch.DR1 \in Latch /\ latch.RD2 \in Latch
      /\ pc \in Int /\ FrontOrder
      /\ latch.RD2.has_insn \in BOOLEAN /\ latch.DR1.has_insn \in BOOLEAN
      /\ latch.RD2.pc \in Int /\ latch.DR1.pc \in Int
  <2>1. latch.DR1 \in Latch /\ latch.RD2 \in Latch
    BY LatchStages DEF TypeInv, LatchTypes, LatchesFit
  <2>2. latch.RD2.has_insn \in BOOLEAN /\ latch.DR1.has_insn \in BOOLEAN
    BY <2>1 DEF Latch
  <2>3. latch.RD2.pc \in Int /\ latch.DR1.pc \in Int
    BY <2>1, InsnPcIsInt DEF Latch
  <2>. QED BY <2>1, <2>2, <2>3 DEF TypeInv, LatchTypes, LatchesFit, ControlTypes, InOrder
<1>1. ASSUME pc' = pc, latch'.DR1 = latch.DR1, latch'.RD2 = latch.RD2
      PROVE  FrontGapless' /\ Front' = Front
  BY <1>1 DEF FrontGapless, Front
<1>2. CASE APEX_fetch
  <2>1. CASE FetchInsn
    <3>1. ~latch.DR1.has_insn
      BY <1>2, <2>1 DEF FetchInsn, APEX_fetch, NothingSkipped
    <3>2. pc' = pc + 4 /\ latch'.RD2 = latch.RD2
          /\ latch'.DR1.has_insn = TRUE /\ latch'.DR1.pc = pc
      <4>1. PICK o, a, b, c, i, d :
              /\ d = [Bubble EXCEPT !.has_insn = TRUE, !.pc = pc, !.opcode = o, !.rd = a,
                                    !.rs1 = b, !.rs2 = c, !.imm = i]
              /\ latch' = [latch EXCEPT !.DR1 = d]
        BY <2>1 DEF FetchInsn
      <4>2. d.has_insn = TRUE /\ d.pc = pc
        BY <4>1 DEF Bubble
      <4>3. latch'.DR1 = d /\ latch'.RD2 = latch.RD2
        BY <1>0, <4>1, LatchStages
      <4>. QED BY <2>1, <4>2, <4>3 DEF FetchInsn
    <3>3. FrontGapless'
      BY <1>0, <3>1, <3>2 DEF FrontGapless
    <3>4. Front' = Front
      BY <3>1, <3>2 DEF Front
    <3>. QED BY <1>2, <3>3, <3>4, StageStep
  <2>2. CASE ~FetchInsn
    <3>1. UNCHANGED <<pc, latch>>
      BY <1>0, <1>2, <2>2 DEF APEX_fetch, SkipFetch, FrontOrder, fetchVars
    <3>. QED BY <1>1, <1>2, <3>1, StageStep
  <2>. QED BY <2>1, <2>2
<1>3. CASE APEX_DR1
  <2>1. pc' = pc /\ latch.DR1.has_insn /\ ~latch.RD2.has_insn
    BY <1>3, StageStep DEF APEX_DR1, fetchVars, Schedule
  <2>2. CASE latch' = latch
    BY <1>1, <1>3, <2>1, <2>2, StageStep
  <2>3. CASE latch' = [latch EXCEPT !.RD2 = Decoded(latch.DR1), !.DR1.has_insn = FALSE]
    <3>1. PICK d : d = Decoded(latch.DR1)
      OBVIOUS
    <3>2. d.has_insn = latch.DR1.has_insn /\ d.pc = latch.DR1.pc
      BY <1>0, <3>1 DEF Decoded, Latch
    <3>3. latch'.RD2 = d /\ latch'.DR1 = [latch.DR1 EXCEPT !.has_insn = FALSE]
      BY <1>0, <2>3, <3>1, LatchStages
    <3>4. latch'.DR1.has_insn = FALSE
      BY <1>0, <3>3 DEF Latch
    <3>5. FrontGapless' /\ Front' = Front
      BY <2>1, <3>2, <3>3, <3>4 DEF FrontGapless, Front
    <3>. QED BY <1>3, <3>5, StageStep
  <2>. QED BY <1>3, <2>2, <2>3 DEF APEX_DR1
<1>4. CASE APEX_RD2
  <2>1. PICK v : latch' = [latch EXCEPT !.issue = v, !.RD2.has_insn = FALSE]
    BY <1>4 DEF APEX_RD2
  <2>2. latch'.DR1 = latch.DR1 /\ latch'.RD2.has_insn = FALSE
    <3>1. latch'.DR1 = latch.DR1 /\ latch'.RD2 = [latch.RD2 EXCEPT !.has_insn = FALSE]
      BY <1>0, <2>1, LatchStages
    <3>. QED BY <1>0, <3>1 DEF Latch
  <2>3. pc' = pc /\ latch.RD2.has_insn
    BY <1>4 DEF APEX_RD2, fetchVars
  <2>4. FrontGapless' /\ Front' = Front + 4
    BY <1>0, <2>2, <2>3 DEF FrontGapless, Front
  <2>. QED BY <1>4, <2>4
<1>5. CASE APEX_BU
  <2>1. ~(latch.BU.has_insn /\ Taken(latch.BU))
    BY <1>5, NotBranch DEF InOrder, UnitsRight, Taken
  <2>2. UNCHANGED fetchVars /\ latch'.DR1 = latch.DR1 /\ latch'.RD2 = latch.RD2
    BY <1>0, <1>5, <2>1, LatchStages DEF APEX_BU
  <2>. QED BY <1>1, <1>5, <2>2, StageStep DEF fetchVars
<1>6. CASE \/ APEX_writeback \/ APEX_ROBcommit \/ APEX_memoryForward \/ APEX_MUforward \/ APEX_MU
           \/ APEX_IUforward \/ APEX_IU \/ APEX_issue \/ APEX_memory
  <2>1. latch'.DR1 = latch.DR1 /\ latch'.RD2 = latch.RD2
    BY <1>0, <1>6, LatchFrame, LatchStages DEF Touches
  <2>2. UNCHANGED fetchVars
    BY <1>6 DEF APEX_writeback, APEX_ROBcommit, APEX_memoryForward, APEX_MUforward, APEX_MU,
         APEX_IUforward, APEX_IU, APEX_issue, APEX_memory
  <2>. QED BY <1>1, <1>6, <2>1, <2>2, StageStep DEF fetchVars
<1>7. CASE Prompt \/ APEX_cpu_stop \/ Idle \/ UNCHANGED vars
  <2>1. UNCHANGED <<fetchVars, latch>>
    BY <1>7 DEF Prompt, APEX_cpu_stop, Idle, vars
  <2>2. ~APEX_RD2
    BY <1>7, StageStep, IdleStep, <2>1 DEF APEX_RD2, APEX_cpu_stop, vars, Idle, Runs
  <2>. QED BY <1>1, <2>1, <2>2 DEF fetchVars
<1>. QED BY <1>2, <1>3, <1>4, <1>5, <1>6, <1>7 DEF Next

(* No step opens a gap between what retired last, the rob and the front    *)
(* end, if nothing is skipped.                                             *)
LEMMA GaplessKept ==
  ASSUME TypeInv, TypeInv', BranchFree, InOrder, Gapless, NothingSkipped, Schedule, [Next]_vars
  PROVE  Gapless'
<1>0. /\ FrontGapless' /\ RobStep
      /\ APEX_RD2 => Front' = Front + 4
      /\ ~APEX_RD2 => Front' = Front
      /\ RobCount \in Nat /\ latch.writeback.pc \in Int
      /\ latch.writeback.pc = 0 \/ latch.writeback.pc >= 4000
      /\ \A k \in 1 .. RobCount : RobView[k].pc = LastPc + 4 * k
      /\ Front = LastPc + 4 * (RobCount + 1)
  <2>1. latch.writeback \in Latch
    BY LatchStages DEF TypeInv, LatchTypes, LatchesFit
  <2>2. latch.writeback.pc \in Int
    BY <2>1, InsnPcIsInt DEF Latch
  <2>. QED BY <2>2, EveryRobStep, FrontGaplessKept, ViewsHaveTypes DEF ViewsFit, Gapless, RobGapless
<1>1. LastPc \in Int /\ LastPc >= 3996
  BY <1>0 DEF LastPc
<1>2. WritesNothing => LastPc' = LastPc
  BY DEF WritesNothing, LastPc
<1>3. CASE APEX_RD2
  <2>1. PICK x : x = latch.RD2
    OBVIOUS
  <2>2. latch.RD2.has_insn /\ latch.RD2.opcode # "DIV"
    BY <1>3 DEF APEX_RD2, NothingSkipped
  <2>3. RobGets(x)
    BY <1>3, <2>1, <2>2, Dispatches
  <2>4. x.pc = Front
    BY <2>1, <2>2 DEF Front
  <2>5. WritesNothing
    <3>1. latch'.writeback = latch.writeback
      BY <1>3, LatchFrame, LatchStages DEF Touches, TypeInv, LatchTypes, LatchesFit
    <3>. QED BY <3>1 DEF WritesNothing
  <2>6. ASSUME NEW k \in 1 .. RobCount' PROVE RobView'[k].pc = LastPc' + 4 * k
    <3>1. CASE k = RobCount + 1
      BY <1>0, <1>2, <2>3, <2>4, <2>5, <3>1 DEF RobGets
    <3>2. CASE k # RobCount + 1
      <4>1. k \in 1 .. RobCount /\ RobView'[k] = RobView[k]
        BY <1>0, <2>3, <3>2 DEF RobGets
      <4>. QED BY <1>0, <1>2, <2>5, <4>1
    <3>. QED BY <3>1, <3>2
  <2>7. Front' = LastPc' + 4 * (RobCount' + 1)
    BY <1>0, <1>1, <1>2, <1>3, <2>3, <2>5 DEF RobGets
  <2>8. latch'.writeback.pc = 0 \/ latch'.writeback.pc >= 4000
    BY <1>0, <2>5 DEF WritesNothing
  <2>. QED BY <1>0, <2>6, <2>7, <2>8 DEF Gapless, RobGapless
<1>4. CASE ~APEX_RD2 /\ RobKept /\ WritesNothing
  <2>1. \A k \in 1 .. RobCount' : RobView'[k].pc = LastPc' + 4 * k
    BY <1>0, <1>2, <1>4 DEF RobKept
  <2>2. Front' = LastPc' + 4 * (RobCount' + 1)
    BY <1>0, <1>2, <1>4 DEF RobKept
  <2>3. latch'.writeback.pc = 0 \/ latch'.writeback.pc >= 4000
    BY <1>0, <1>4 DEF WritesNothing
  <2>. QED BY <1>0, <2>1, <2>2, <2>3 DEF Gapless, RobGapless
<1>5. ~(APEX_ROBcommit /\ MayRetire /\ RobCount = 0)
  <2>1. RobCount = 0 => ROB!rob_checkEmpty
    BY ViewsHaveTypes DEF ViewsFit, ROB!rob_checkEmpty
  <2>2. APEX_ROBcommit => at = "ROBcommit" /\ latch.ROBcommit.has_insn
    BY StageStep DEF APEX_ROBcommit
  <2>. QED BY <2>1, <2>2 DEF NothingSkipped
<1>6. CASE APEX_ROBcommit /\ RobLoses /\ Writes(RobView[1].pc, RobView[1].opcode)
  <2>1. ~APEX_RD2
    BY <1>6, StageStep
  <2>2. 1 \in 1 .. RobCount /\ RobCount' = RobCount - 1
    BY <1>0, <1>6 DEF RobLoses
  <2>3. latch'.writeback.pc = LastPc + 4 * 1
    BY <1>0, <1>6, <2>2 DEF Writes
  <2>4. latch'.writeback.pc >= 4000 /\ LastPc' = LastPc + 4
    BY <1>1, <2>3 DEF LastPc
  <2>5. ASSUME NEW k \in 1 .. RobCount' PROVE RobView'[k].pc = LastPc' + 4 * k
    <3>1. k + 1 \in 1 .. RobCount /\ RobView'[k] = RobView[k + 1]
      BY <1>0, <1>6 DEF RobLoses
    <3>2. RobView'[k].pc = LastPc + 4 * (k + 1)
      BY <1>0, <3>1
    <3>. QED BY <1>1, <2>2, <2>4, <3>2
  <2>6. Front' = LastPc' + 4 * (RobCount' + 1)
    BY <1>0, <1>1, <2>1, <2>2, <2>4
  <2>. QED BY <1>0, <2>4, <2>5, <2>6 DEF Gapless, RobGapless
<1>. QED BY <1>0, <1>3, <1>4, <1>5, <1>6, StageStep DEF RobStep

(* The first instruction is the next to retire at the start.               *)
LEMMA InitGapless == Init => Gapless
<1>. SUFFICES ASSUME Init PROVE Gapless
  OBVIOUS
<1>1. TypeInv
  BY InitTypes
<1>2. \A s \in LatchStage : latch[s] = Bubble
  BY DEF Init, LatchStage
<1>3. ~latch.DR1.has_insn /\ ~latch.RD2.has_insn /\ latch.writeback.pc = 0
  BY <1>2, LatchStages DEF Bubble
<1>4. RobCount = 0
  <2>1. rob_head = -1
    BY DEF Init, ROB!Init
  <2>. QED BY <1>1, <2>1, ViewsHaveTypes DEF ViewsFit
<1>5. Front = 4000 /\ LastPc = 3996
  BY <1>3 DEF Front, LastPc, Init
<1>6. FrontGapless
  BY <1>3 DEF FrontGapless
<1>7. RobGapless
  BY <1>3, <1>4, <1>5 DEF RobGapless
<1>. QED BY <1>6, <1>7 DEF Gapless

(* The next to retire is the next of the program.                          *)
LEMMA RetiresNext ==
  ASSUME TypeInv, TypeInv', Gapless, NothingSkipped, [Next]_vars,
         latch'.writeback.has_insn, ~latch.writeback.has_insn
  PROVE  \/ latch'.writeback.pc = latch.writeback.pc + 4
         \/ latch.writeback.pc = 0 /\ latch'.writeback.pc = 4000
<1>1. RobStep /\ ~WritesNothing
  BY EveryRobStep DEF WritesNothing
<1>2. ~(APEX_ROBcommit /\ MayRetire /\ RobCount = 0)
  <2>1. RobCount = 0 => ROB!rob_checkEmpty
    BY ViewsHaveTypes DEF ViewsFit, ROB!rob_checkEmpty
  <2>2. APEX_ROBcommit => at = "ROBcommit" /\ latch.ROBcommit.has_insn
    BY StageStep DEF APEX_ROBcommit
  <2>. QED BY <2>1, <2>2 DEF NothingSkipped
<1>3. RobLoses /\ Writes(RobView[1].pc, RobView[1].opcode)
  BY <1>1, <1>2 DEF RobStep
<1>4. 1 \in 1 .. RobCount
  BY <1>3, ViewsHaveTypes DEF ViewsFit, RobLoses
<1>5. latch'.writeback.pc = LastPc + 4 * 1
  BY <1>3, <1>4 DEF Gapless, RobGapless, Writes
<1>6. latch.writeback.pc \in Int
  <2>1. latch.writeback \in Latch
    BY LatchStages DEF TypeInv, LatchTypes, LatchesFit
  <2>. QED BY <2>1, InsnPcIsInt DEF Latch
<1>. QED BY <1>5, <1>6 DEF LastPc

(* In a program without branches the instructions retire one after the     *)
(* other, each once, whatever the units and the queues do: only fetch over *)
(* a waiting DR1, a DIV and an empty rob can skip one.                     *)
THEOREM RetiresEachOnceHolds == Spec /\ BranchFree /\ []NothingSkipped => RetiresEachOnce
<1>1. Init => InOrder /\ Gapless
  BY InitInOrder, InitGapless
<1>2. /\ TypeInv /\ TypeInv' /\ Schedule /\ IqShape /\ NothingSkipped
      /\ BranchFree /\ InOrder /\ Gapless /\ [Next]_vars
      => BranchFree' /\ InOrder' /\ Gapless'
  BY CodeKept, InOrderKept, GaplessKept
<1>3. TypeInv /\ TypeInv' /\ Gapless /\ NothingSkipped /\ [Next]_vars
      => [latch'.writeback.has_insn /\ ~latch.writeback.has_insn =>
            \/ latch'.writeback.pc = latch.writeback.pc + 4
            \/ latch.writeback.pc = 0 /\ latch'.writeback.pc = 4000]_vars
  BY RetiresNext
<1>. QED
  BY <1>1, <1>2, <1>3, TypesInvariant, ShapeInvariant, PTL DEF Spec, RetiresEachOnce

----------------------------------------------------------------------------
(* The registers that are lost *)

(* What a step does to the way of an instruction with its register: RD2,   *)
(* the issue queue, the integer unit and its forwarding stage.             *)
KeepsList == /\ Len(iq') = Len(iq)
             /\ \A k \in 1 .. Len(iq) : /\ iq'[k].pc = iq[k].pc
                                        /\ iq'[k].opcode = iq[k].opcode
                                        /\ iq'[k].dest = iq[k].dest
Gets(s, x, p) == /\ latch'[s].has_insn
                 /\ latch'[s].pc = x.pc
                 /\ latch'[s].opcode = x.opcode
                 /\ latch'[s].prd = p
Keeps(s) == IF latch[s].has_insn THEN Gets(s, latch[s], latch[s].prd) ELSE ~latch'[s].has_insn
KeepsFree == UNCHANGED flVars

QuietStep == KeepsList /\ Keeps("RD2") /\ Keeps("IU") /\ Keeps("IUforward") /\ KeepsFree

RenameStep ==
  /\ KeepsList /\ Keeps("IU") /\ Keeps("IUforward")
  /\ latch.DR1.has_insn /\ ~latch.RD2.has_insn
  /\ Gets("RD2", latch.DR1, latch'.RD2.prd)
  /\ \/ latch.DR1.opcode \notin HasDest /\ KeepsFree
     \/ /\ latch.DR1.opcode \in HasDest
        /\ FL_head # -1
        /\ latch'.RD2.prd = flQueue[FL_head]
        /\ flQueue' = flQueue
        /\ FL_head' = IF FL_head = FL_tail THEN -1 ELSE (FL_head + 1) % PREG_FILE_SIZE
        /\ FL_tail' = IF FL_head = FL_tail THEN -1 ELSE FL_tail

DispatchStep ==
  /\ Keeps("IU") /\ Keeps("IUforward") /\ KeepsFree
  /\ latch.RD2.has_insn /\ ~latch'.RD2.has_insn
  /\ \/ latch.RD2.opcode = "DIV" /\ KeepsList
     \/ /\ latch.RD2.opcode # "DIV"
        /\ \E e : /\ e.pc = latch.RD2.pc /\ e.opcode = latch.RD2.opcode /\ e.dest = latch.RD2.prd
                  /\ iq' = Append(iq, e)

IssueStep ==
  /\ Keeps("RD2") /\ Keeps("IUforward") /\ KeepsFree
  /\ Len(iq) = 1 /\ iq' = << >> /\ ~latch.IU.has_insn
  /\ \/ fuType(iq[1].opcode) = 0 /\ Gets("IU", iq[1], iq[1].dest)
     \/ fuType(iq[1].opcode) # 0 /\ ~latch'.IU.has_insn

ExecuteStep ==
  /\ KeepsList /\ Keeps("RD2") /\ KeepsFree
  /\ latch.IU.has_insn /\ ~latch.IUforward.has_insn
  /\ ~latch'.IU.has_insn /\ Gets("IUforward", latch.IU, latch.IU.prd)

PutBackStep ==
  /\ KeepsList /\ Keeps("RD2") /\ Keeps("IU")
  /\ latch.IUforward.has_insn /\ ~latch'.IUforward.has_insn
  /\ \/ latch.IUforward.opcode = "STORE" /\ KeepsFree
     \/ latch.IUforward.opcode # "STORE" /\ FL!put_physicalRegister_inFL(latch.IUforward.prd)

(* One unit at most gets an entry, and only a list of one gets shorter.    *)
LEMMA IssueIsStep ==
  ASSUME TypeInv, IqShape, Schedule, APEX_issue
  PROVE  QuietStep \/ IssueStep
<1>0. /\ latch \in [LatchStage -> Latch] /\ latch.issue.has_insn = TRUE /\ latch.issue \in Latch
      /\ latch'.RD2 = latch.RD2 /\ latch'.IUforward = latch.IUforward
      /\ ~latch.IU.has_insn /\ at = "issue" /\ KeepsFree
  <2>1. latch \in [LatchStage -> Latch] /\ latch.issue.has_insn
    BY DEF TypeInv, LatchTypes, LatchesFit, APEX_issue
  <2>2. latch.issue \in Latch
    BY <2>1, LatchStages
  <2>3. latch.issue.has_insn \in BOOLEAN
    BY <2>2 DEF Latch
  <2>4. latch'.RD2 = latch.RD2 /\ latch'.IUforward = latch.IUforward
    BY <2>1, LatchFrame, LatchStages DEF Touches
  <2>. QED BY <2>1, <2>2, <2>3, <2>4, StageStep DEF Schedule, APEX_issue, KeepsFree
<1>1. Keeps("RD2") /\ Keeps("IUforward")
  BY <1>0 DEF Keeps, Gets
<1>2. PICK queue : queue = IQ!WithNextAllocated
  OBVIOUS
<1>3. /\ queue \in Seq(QueueEntry)
      /\ Len(queue) = Len(iq)
      /\ IQ!Allocated(queue) = 1 .. Len(queue)
      /\ \A k \in 1 .. Len(iq) : /\ queue[k].opcode = iq[k].opcode /\ queue[k].pc = iq[k].pc
                                 /\ queue[k].dest = iq[k].dest
                                 /\ queue[k].fuType = iq[k].fuType
  BY <1>2, AllAllocated
<1>4. Len(iq) \in Nat
  BY QueueIs
<1>5. CASE iq' = queue /\ MemoryPart(latch)
  <2>1. latch'.IU = latch.IU
    BY <1>0, <1>5, MemoryPartLatches, LatchStages
  <2>2. Keeps("IU")
    BY <2>1 DEF Keeps, Gets
  <2>3. KeepsList
    BY <1>3, <1>5 DEF KeepsList
  <2>. QED BY <1>0, <1>1, <2>2, <2>3 DEF QuietStep
<1>6. ASSUME NEW fu \in IQ!Unit, CanStart(queue, fu), iq' = IQ!Unlinked(queue),
             NEW entry, entry = IssueLatch(IQ!Selected(queue)),
             MemoryPart([latch EXCEPT !.issue = entry, ![UnitStage(fu)] = entry])
      PROVE  QuietStep \/ IssueStep
  <2>1. IQ!Allocated(queue) # {} /\ \A k \in 1 .. Len(queue) : queue[k].fuType = fu
    BY <1>3, <1>6 DEF CanStart, IQ!Offered
  <2>2. PICK e : e = IQ!Selected(queue)
    OBVIOUS
  <2>3. PICK k \in 1 .. Len(iq) : e = queue[k]
    BY <1>3, <2>1, <2>2, SelectedIsEntry DEF IQ!Selected
  <2>4. e \in QueueEntry
    BY <1>3, <2>1, <2>2, SelectedIsEntry
  <2>5. /\ e.pc \in InsnPc /\ e.opcode \in Opcode /\ e.imm \in Int /\ e.prs1 \in PregTag
        /\ e.prs1Value \in Word /\ e.prs2Value \in Word /\ e.dest \in Preg
        /\ fuType(e.opcode) = fu
    BY <1>3, <2>1, <2>3, <2>4 DEF QueueEntry, IQ!Entry
  <2>6. entry = [latch.issue EXCEPT !.pc = e.pc, !.opcode = e.opcode, !.imm = e.imm,
                      !.prs1 = e.prs1, !.rs1_value = e.prs1Value,
                      !.rs2_value = e.prs2Value, !.prd = e.dest]
    BY <1>6, <2>2 DEF IssueLatch
  <2>14. /\ entry \in Latch /\ entry.has_insn = TRUE /\ entry.opcode = e.opcode
         /\ entry.pc = e.pc /\ entry.prd = e.dest
    BY <1>0, <2>5, <2>6 DEF Latch
  <2>7. /\ entry \in Latch /\ entry.has_insn = TRUE /\ entry.opcode = iq[k].opcode
        /\ entry.pc = iq[k].pc /\ entry.prd = iq[k].dest /\ fuType(iq[k].opcode) = fu
    BY <1>3, <2>3, <2>5, <2>14
  <2>8. UnitStage(fu) \in {"IU", "MU", "BU"} /\ (UnitStage(fu) = "IU" <=> fu = 0)
    BY DEF IQ!Unit, UnitStage
  <2>9. PICK l : l = [latch EXCEPT !.issue = entry, ![UnitStage(fu)] = entry]
    OBVIOUS
  <2>10. l \in [LatchStage -> Latch] /\ l.IU = IF fu = 0 THEN entry ELSE latch.IU
    BY <1>0, <2>7, <2>8, <2>9, LatchStages
  <2>11. latch'.IU = IF fu = 0 THEN entry ELSE latch.IU
    BY <1>6, <2>9, <2>10, MemoryPartLatches, LatchStages
  <2>12. CASE Len(queue) = 1
    <3>1. iq' = << >>
      <4>1. Tail(queue) = << >> /\ IQ!Allocated(queue) = {1}
        BY <1>3, <2>12, TailOfOne
      <4>. QED BY <1>6, <4>1 DEF IQ!Unlinked
    <3>2. k = 1 /\ Len(iq) = 1
      BY <1>3, <2>12
    <3>. QED BY <1>0, <1>1, <2>7, <2>11, <3>1, <3>2 DEF IssueStep, Gets
  <2>13. CASE Len(queue) # 1
    <3>1. IQ!Allocated(queue) # {1}
      BY <1>3, <1>4, <2>13
    <3>2. iq' = queue
      BY <1>6, <3>1 DEF IQ!Unlinked
    <3>3. fu # 0
      BY <1>3, <2>1, <2>3, <2>13 DEF IqShape, LoneEntry
    <3>4. Keeps("IU")
      BY <1>0, <2>11, <3>3 DEF Keeps
    <3>. QED BY <1>0, <1>1, <1>3, <3>2, <3>4 DEF QuietStep, KeepsList
  <2>. QED BY <2>12, <2>13
<1>7. PICK entry : entry = IssueLatch(IQ!Selected(queue))
  OBVIOUS
<1>8. \/ \E fu \in IQ!Unit :
           /\ CanStart(queue, fu)
           /\ iq' = IQ!Unlinked(queue)
           /\ MemoryPart([latch EXCEPT !.issue = entry, ![UnitStage(fu)] = entry])
      \/ iq' = queue /\ MemoryPart(latch)
  BY <1>2, <1>7 DEF APEX_issue
<1>. QED BY <1>5, <1>6, <1>7, <1>8

(* Every step is one of these.                                             *)
LEMMA EveryStepOnTheWay ==
  ASSUME TypeInv, TypeInv', BranchFree, InOrder, Schedule, IqShape, [Next]_vars
  PROVE  \/ QuietStep \/ RenameStep \/ DispatchStep \/ IssueStep \/ ExecuteStep \/ PutBackStep
<1>0. /\ latch \in [LatchStage -> Latch] /\ latch' \in [LatchStage -> Latch]
      /\ \A s \in LatchStage : latch[s] \in Latch /\ latch[s].has_insn \in BOOLEAN
  BY DEF TypeInv, LatchTypes, LatchesFit, Latch
<1>1. ASSUME NEW s \in LatchStage, latch'[s] = latch[s] PROVE Keeps(s)
  BY <1>1 DEF Keeps, Gets
<1>2. ASSUME UNCHANGED iqVars PROVE KeepsList
  BY <1>2 DEF KeepsList, iqVars
<1>3. ASSUME NEW p, NEW r, IQ!IQupdate(p, r) PROVE KeepsList
  BY <1>3, IQupdateKeepsList DEF KeepsList
<1>4. ASSUME latch'.RD2 = latch.RD2, latch'.IU = latch.IU, latch'.IUforward = latch.IUforward,
             UNCHANGED <<iqVars, flVars>>
      PROVE  QuietStep
  BY <1>1, <1>2, <1>4, LatchStages DEF QuietStep, KeepsFree
<1>5. CASE APEX_writeback \/ APEX_ROBcommit \/ APEX_memoryForward \/ APEX_MU \/ APEX_memory
           \/ APEX_fetch
  <2>1. /\ latch'.RD2 = latch.RD2
        /\ latch'.IU = latch.IU /\ latch'.IUforward = latch.IUforward
    BY <1>0, <1>5, LatchFrame, LatchStages DEF Touches
  <2>2. UNCHANGED <<iqVars, flVars>>
    BY <1>5 DEF APEX_writeback, APEX_ROBcommit, APEX_memoryForward, APEX_MU, APEX_memory,
                APEX_fetch
  <2>. QED BY <1>4, <2>1, <2>2
<1>6. CASE APEX_MUforward
  <2>1. /\ latch'.RD2 = latch.RD2
        /\ latch'.IU = latch.IU /\ latch'.IUforward = latch.IUforward
    BY <1>0, <1>6, LatchFrame, LatchStages DEF Touches
  <2>2. UNCHANGED flVars /\ \E p, r : IQ!IQupdate(p, r)
    BY <1>6 DEF APEX_MUforward
  <2>. QED BY <1>1, <1>3, <2>1, <2>2, LatchStages DEF QuietStep, KeepsFree
<1>7. CASE APEX_BU
  <2>1. ~(latch.BU.has_insn /\ Taken(latch.BU))
    BY <1>7, NotBranch DEF InOrder, UnitsRight, Taken
  <2>2. latch'.RD2 = latch.RD2 /\ latch'.IU = latch.IU /\ latch'.IUforward = latch.IUforward
    BY <1>0, <1>7, <2>1, LatchStages DEF APEX_BU
  <2>3. UNCHANGED <<iqVars, flVars>>
    BY <1>7 DEF APEX_BU
  <2>. QED BY <1>4, <2>2, <2>3
<1>8. CASE Prompt \/ Idle \/ APEX_cpu_stop \/ UNCHANGED vars
  BY <1>4, <1>8 DEF Prompt, Idle, APEX_cpu_stop, vars
<1>9. CASE APEX_issue
  BY <1>9, IssueIsStep
<1>10. CASE APEX_IU
  <2>1. PICK v : /\ latch' = [latch EXCEPT !.IUforward = v, !.IU.has_insn = FALSE]
                 /\ v = [latch.IU EXCEPT !.result_buffer = IUResult(latch.IU),
                                         !.memory_address = IUAddress(latch.IU)]
    BY <1>10 DEF APEX_IU
  <2>2. /\ v.has_insn = latch.IU.has_insn /\ v.pc = latch.IU.pc /\ v.opcode = latch.IU.opcode
        /\ v.prd = latch.IU.prd
    BY <1>0, <2>1, LatchStages DEF Latch
  <2>3. latch'.IUforward = v /\ latch'.RD2 = latch.RD2
    BY <1>0, <2>1, LatchStages
  <2>4. ~latch'.IU.has_insn /\ latch.IU.has_insn /\ ~latch.IUforward.has_insn
    BY <1>0, <1>10, LatchEmptied, StageStep DEF APEX_IU, Schedule
  <2>5. UNCHANGED <<iqVars, flVars>>
    BY <1>10 DEF APEX_IU
  <2>6. Keeps("RD2") /\ KeepsList
    BY <1>1, <1>2, <2>3, <2>5, LatchStages
  <2>. QED BY <2>2, <2>3, <2>4, <2>5, <2>6 DEF ExecuteStep, Gets, KeepsFree
<1>11. CASE APEX_IUforward
  <2>1. /\ latch'.RD2 = latch.RD2 /\ latch'.IU = latch.IU
        /\ ~latch'.IUforward.has_insn /\ latch.IUforward.has_insn
    BY <1>0, <1>11, LatchFrame, LatchEmptied, LatchStages DEF Touches, APEX_IUforward
  <2>2. KeepsList
    <3>1. UNCHANGED iqVars \/ \E p, r : IQ!IQupdate(p, r)
      BY <1>11 DEF APEX_IUforward
    <3>. QED BY <1>2, <1>3, <3>1
  <2>3. PutsBack(latch.IUforward) <=> latch.IUforward.opcode # "STORE"
    BY <2>1 DEF IqShape, OwnIndex, PutsBack
  <2>4. \/ latch.IUforward.opcode = "STORE" /\ KeepsFree
        \/ /\ latch.IUforward.opcode # "STORE"
           /\ FL!put_physicalRegister_inFL(latch.IUforward.prd)
    BY <1>11, <2>3 DEF APEX_IUforward, KeepsFree
  <2>. QED BY <1>1, <2>1, <2>2, <2>4, LatchStages DEF PutBackStep
<1>12. CASE APEX_RD2
  <2>1. /\ latch'.IU = latch.IU /\ latch'.IUforward = latch.IUforward
        /\ ~latch'.RD2.has_insn /\ latch.RD2.has_insn
    BY <1>0, <1>12, LatchFrame, LatchEmptied, LatchStages DEF Touches, APEX_RD2
  <2>2. UNCHANGED flVars
    BY <1>12 DEF APEX_RD2
  <2>3. CASE latch.RD2.opcode = "DIV"
    <3>1. UNCHANGED iqVars
      BY <1>12, <2>3 DEF APEX_RD2
    <3>. QED BY <1>1, <1>2, <2>1, <2>2, <2>3, <3>1, LatchStages DEF DispatchStep, KeepsFree
  <2>4. CASE latch.RD2.opcode # "DIV"
    <3>1. PICK sent, i, f : /\ sent = [latch.RD2 EXCEPT !.lsqIndex = i]
                            /\ IQ!iqEntry(sent, f)
      BY <1>12, <2>4 DEF APEX_RD2
    <3>2. sent.pc = latch.RD2.pc /\ sent.opcode = latch.RD2.opcode /\ sent.prd = latch.RD2.prd
      BY <1>0, <3>1, LatchStages DEF Latch
    <3>3. \E e : /\ e.pc = sent.pc /\ e.opcode = sent.opcode /\ e.dest = sent.prd
                 /\ iq' = Append(iq, e)
      BY <3>1 DEF IQ!iqEntry
    <3>. QED BY <1>1, <2>1, <2>2, <2>4, <3>2, <3>3, LatchStages DEF DispatchStep, KeepsFree
  <2>. QED BY <2>3, <2>4
<1>13. CASE APEX_DR1
  <2>1. /\ latch'.IU = latch.IU /\ latch'.IUforward = latch.IUforward
        /\ ~latch.RD2.has_insn /\ latch.DR1.has_insn
    BY <1>0, <1>13, LatchFrame, LatchStages, StageStep DEF Touches, APEX_DR1, Schedule
  <2>2. UNCHANGED iqVars
    BY <1>13 DEF APEX_DR1
  <2>3. CASE UNCHANGED <<latch, flVars>>
    BY <1>4, <2>2, <2>3
  <2>4. CASE /\ DR1_MayPass
             /\ latch' = [latch EXCEPT !.RD2 = Decoded(latch.DR1), !.DR1.has_insn = FALSE]
             /\ Rename(latch.DR1)
    <3>1. PICK d : d = Decoded(latch.DR1)
      OBVIOUS
    <3>2. latch'.RD2 = d
      BY <1>0, <2>4, <3>1, LatchStages
    <3>3. /\ d.has_insn = latch.DR1.has_insn /\ d.pc = latch.DR1.pc
          /\ d.opcode = latch.DR1.opcode
          /\ latch.DR1.opcode \in HasDest => d.prd = FL!FreeRegister
      BY <1>0, <3>1, LatchStages DEF Decoded, Latch
    <3>4. Gets("RD2", latch.DR1, latch'.RD2.prd)
      BY <2>1, <3>2, <3>3 DEF Gets
    <3>5. CASE latch.DR1.opcode \notin HasDest
      BY <1>1, <1>2, <2>1, <2>2, <2>4, <3>4, <3>5, LatchStages
      DEF RenameStep, Rename, KeepsFree
    <3>6. CASE latch.DR1.opcode \in HasDest
      <4>1. FL!get_free_physical_register /\ FL_head # -1 /\ flQueue' = flQueue
        BY <2>4, <3>6 DEF Rename, DR1_MayPass, FL!checkEmpty_FL, FL!get_free_physical_register
      <4>2. /\ FL_head' = IF FL_head = FL_tail THEN -1 ELSE (FL_head + 1) % PREG_FILE_SIZE
            /\ FL_tail' = IF FL_head = FL_tail THEN -1 ELSE FL_tail
        BY <4>1 DEF FL!get_free_physical_register, FL!checkEmpty_FL
      <4>3. latch'.RD2.prd = flQueue[FL_head]
        BY <3>2, <3>3, <3>6, <4>1 DEF FL!FreeRegister, FL!checkEmpty_FL
      <4>. QED BY <1>1, <1>2, <2>1, <2>2, <3>4, <3>6, <4>1, <4>2, <4>3, LatchStages
           DEF RenameStep
    <3>. QED BY <3>5, <3>6
  <2>. QED BY <1>13, <2>3, <2>4 DEF APEX_DR1
<1>. QED
  BY <1>5, <1>6, <1>7, <1>8, <1>9, <1>10, <1>11, <1>12, <1>13 DEF Next

(* The instructions that wait for a unit or are in the integer unit.       *)
InUnit == {"IU", "IUforward"}
InFlight(p) == \/ \E k \in 1 .. Len(iq) : iq[k].pc = p
               \/ \E s \in InUnit : latch[s].has_insn /\ latch[s].pc = p

(* Each of them is behind what is dispatched, and in one place.            *)
Flight ==
  /\ \A k \in 1 .. Len(iq) : iq[k].pc < Front /\ iq[k].opcode # "DIV"
  /\ \A s \in InUnit : latch[s].has_insn =>
       /\ latch[s].pc < Front
       /\ fuType(latch[s].opcode) = 0 /\ latch[s].opcode # "DIV"
       /\ \A k \in 1 .. Len(iq) : iq[k].pc # latch[s].pc
  /\ latch.IU.has_insn /\ latch.IUforward.has_insn => latch.IU.pc # latch.IUforward.pc

(* The instructions that have been dispatched and are there no more, and   *)
(* those of them that cost a register, or put P0 back in vain.             *)
Gone == {k \in 1 .. Len(code) : 3996 + 4 * k < Front /\ ~InFlight(3996 + 4 * k)}
Spent == {k \in Gone : code[k].opcode \in {"MUL", "JALR", "CMP", "NOP", "HALT"}}
Puts == {k \in Gone : code[k].opcode \in {"CMP", "NOP", "HALT"}}

(* A dispatched instruction does not come back.                            *)
LEMMA FlightKept ==
  ASSUME TypeInv, TypeInv', BranchFree, InOrder, Schedule, IqShape, Flight, [Next]_vars,
         code' = code
  PROVE  /\ Flight'
         /\ Gone \subseteq Gone'
<1>0. /\ Len(iq) \in Nat /\ Len(iq') \in Nat /\ iq \in Seq(QueueEntry)
      /\ \A k \in 1 .. Len(iq) : iq[k].pc \in Int
      /\ \A s \in LatchStage : latch[s].pc \in Int /\ latch[s].has_insn \in BOOLEAN
  <2>1. \A s \in LatchStage : latch[s] \in Latch
    BY DEF TypeInv, LatchTypes, LatchesFit
  <2>2. \A s \in LatchStage : latch[s].pc \in Int /\ latch[s].has_insn \in BOOLEAN
    BY <2>1, InsnPcIsInt DEF Latch
  <2>3. \A k \in 1 .. Len(iq) : iq[k].pc \in Int
    BY QueueIs, InsnPcIsInt DEF QueueEntry
  <2>4. iq \in Seq(QueueEntry) /\ iq' \in Seq(QueueEntry)
    BY DEF TypeInv, IqTypes
  <2>. QED BY <2>2, <2>3, <2>4, LenProperties
<1>1. /\ Front \in Int /\ Front' \in Int /\ Front <= Front'
      /\ latch.RD2.has_insn => latch.RD2.pc = Front
      /\ latch.RD2.has_insn /\ ~latch'.RD2.has_insn => latch.RD2.pc < Front'
  <2>1. /\ Front \in Int /\ Front' \in Int /\ Front <= Front'
        /\ APEX_RD2 => latch.RD2.pc < Front'
    BY FrontKept
  <2>2. latch.RD2.has_insn => latch.RD2.pc = Front
    BY DEF Front
  <2>3. latch.RD2.has_insn /\ ~latch'.RD2.has_insn => APEX_RD2
    <3>1. ASSUME latch.RD2.has_insn, ~latch'.RD2.has_insn, ~APEX_RD2 PROVE FALSE
      <4>1. latch'.RD2 # latch.RD2
        BY <3>1
      <4>2. latch \in [LatchStage -> Latch]
        BY DEF TypeInv, LatchTypes, LatchesFit
      <4>3. APEX_BU \/ APEX_DR1
        BY <3>1, <4>1, <4>2, LatchFrame, LatchStages
        DEF Next, Touches, Prompt, Idle, APEX_cpu_stop, vars
      <4>4. ~APEX_DR1
        BY <3>1, StageStep DEF Schedule
      <4>5. APEX_BU => latch'.RD2 = latch.RD2
        <5>1. ASSUME APEX_BU PROVE ~(latch.BU.has_insn /\ Taken(latch.BU))
          BY NotBranch DEF InOrder, UnitsRight, Taken
        <5>. QED BY <4>2, <5>1, LatchStages DEF APEX_BU
      <4>. QED BY <4>1, <4>3, <4>4, <4>5
    <3>. QED BY <3>1
  <2>. QED BY <2>1, <2>2, <2>3
(* What is in flight after a step was so before, or has left RD2.          *)
<1>2. ASSUME KeepsList PROVE \A k \in 1 .. Len(iq') : /\ k \in 1 .. Len(iq)
                                                     /\ iq'[k].pc = iq[k].pc
                                                     /\ iq'[k].opcode = iq[k].opcode
  BY <1>2 DEF KeepsList
<1>3. ASSUME NEW s \in LatchStage, Keeps(s)
      PROVE  latch'[s].has_insn => /\ latch[s].has_insn
                                   /\ latch'[s].pc = latch[s].pc
                                   /\ latch'[s].opcode = latch[s].opcode
  BY <1>3 DEF Keeps, Gets
<1>4. {"IU", "IUforward", "RD2"} \subseteq LatchStage
  BY LatchStages
<1>. DEFINE Kept == Flight' /\ \A p : InFlight(p)' => InFlight(p) \/ p = Front
(* A list and two latches with nothing that was not there before.          *)
<1>5. ASSUME \A k \in 1 .. Len(iq') : \E j \in 1 .. Len(iq) :
               iq'[k].pc = iq[j].pc /\ iq'[k].opcode = iq[j].opcode
      PROVE  \A k \in 1 .. Len(iq') : iq'[k].pc < Front' /\ iq'[k].opcode # "DIV"
  <2>1. ASSUME NEW k \in 1 .. Len(iq') PROVE iq'[k].pc < Front' /\ iq'[k].opcode # "DIV"
    <3>1. PICK j \in 1 .. Len(iq) : iq'[k].pc = iq[j].pc /\ iq'[k].opcode = iq[j].opcode
      BY <1>5
    <3>2. iq[j].pc < Front /\ iq[j].opcode # "DIV" /\ iq[j].pc \in Int
      BY <1>0 DEF Flight
    <3>. QED BY <1>1, <3>1, <3>2
  <2>. QED BY <2>1
<1>6. ASSUME KeepsList, Keeps("IU") \/ ~latch'.IU.has_insn,
             Keeps("IUforward") \/ ~latch'.IUforward.has_insn
      PROVE  Kept
  <2>1. \A s \in InUnit : latch'[s].has_insn => /\ latch[s].has_insn
                                               /\ latch'[s].pc = latch[s].pc
                                               /\ latch'[s].opcode = latch[s].opcode
    BY <1>3, <1>4, <1>6 DEF InUnit
  <2>2. \A k \in 1 .. Len(iq') : iq'[k].pc < Front' /\ iq'[k].opcode # "DIV"
    BY <1>2, <1>5, <1>6
  <2>3. ASSUME NEW s \in InUnit, latch'[s].has_insn
        PROVE  /\ latch'[s].pc < Front' /\ fuType(latch'[s].opcode) = 0
               /\ latch'[s].opcode # "DIV"
               /\ \A k \in 1 .. Len(iq') : iq'[k].pc # latch'[s].pc
    <3>1. s \in LatchStage /\ latch[s].pc < Front /\ latch[s].pc \in Int
      BY <1>0, <1>4, <2>1, <2>3 DEF Flight, InUnit
    <3>2. latch'[s].pc < Front'
      BY <1>1, <2>1, <2>3, <3>1
    <3>. QED BY <1>2, <1>6, <2>1, <2>3, <3>2 DEF Flight
  <2>4. latch'.IU.has_insn /\ latch'.IUforward.has_insn => latch'.IU.pc # latch'.IUforward.pc
    BY <2>1 DEF Flight, InUnit
  <2>5. Flight'
    BY <2>2, <2>3, <2>4 DEF Flight, InUnit
  <2>. QED BY <1>2, <1>6, <2>1, <2>5 DEF InFlight
<1>7. ASSUME IssueStep PROVE Kept
  <2>1. 1 .. Len(iq') = {} /\ 1 \in 1 .. Len(iq)
    BY <1>7, EmptySeq DEF IssueStep
  <2>2. /\ latch'.IUforward.has_insn => latch.IUforward.has_insn
                                 /\ latch'.IUforward.pc = latch.IUforward.pc
                                 /\ latch'.IUforward.opcode = latch.IUforward.opcode
        /\ latch'.IU.has_insn => latch'.IU.pc = iq[1].pc /\ latch'.IU.opcode = iq[1].opcode
                                 /\ fuType(iq[1].opcode) = 0
    BY <1>3, <1>4, <1>7 DEF IssueStep, Gets
  <2>3. iq[1].pc < Front /\ iq[1].opcode # "DIV" /\ iq[1].pc \in Int
    BY <1>0, <2>1 DEF Flight
  <2>4. latch'.IUforward.has_insn =>
          /\ latch.IUforward.pc < Front /\ latch.IUforward.pc \in Int
          /\ fuType(latch.IUforward.opcode) = 0 /\ latch.IUforward.opcode # "DIV"
          /\ iq[1].pc # latch.IUforward.pc
    BY <1>0, <1>4, <2>1, <2>2 DEF Flight, InUnit
  <2>5. ASSUME NEW s \in InUnit, latch'[s].has_insn
        PROVE  latch'[s].pc < Front' /\ fuType(latch'[s].opcode) = 0 /\ latch'[s].opcode # "DIV"
    <3>1. CASE s = "IU"
      BY <1>1, <2>2, <2>3, <2>5, <3>1
    <3>2. CASE s = "IUforward"
      BY <1>1, <2>2, <2>4, <2>5, <3>2
    <3>. QED BY <3>1, <3>2 DEF InUnit
  <2>6. Flight'
    BY <2>1, <2>2, <2>4, <2>5 DEF Flight
  <2>7. \A p : InFlight(p)' => InFlight(p)
    BY <2>1, <2>2 DEF InFlight, InUnit
  <2>. QED BY <2>6, <2>7
<1>8. ASSUME ExecuteStep PROVE Kept
  <2>1. /\ ~latch'.IU.has_insn /\ latch.IU.has_insn /\ KeepsList
        /\ latch'.IUforward.pc = latch.IU.pc /\ latch'.IUforward.opcode = latch.IU.opcode
    BY <1>8 DEF ExecuteStep, Gets
  <2>2. \A k \in 1 .. Len(iq') : iq'[k].pc < Front' /\ iq'[k].opcode # "DIV"
    BY <1>2, <1>5, <2>1
  <2>3. /\ latch.IU.pc < Front /\ latch.IU.pc \in Int
        /\ fuType(latch.IU.opcode) = 0 /\ latch.IU.opcode # "DIV"
        /\ \A k \in 1 .. Len(iq) : iq[k].pc # latch.IU.pc
    BY <1>0, <1>4, <2>1 DEF Flight, InUnit
  <2>4. ASSUME NEW s \in InUnit, latch'[s].has_insn
        PROVE  /\ latch'[s].pc < Front' /\ fuType(latch'[s].opcode) = 0
               /\ latch'[s].opcode # "DIV"
               /\ \A k \in 1 .. Len(iq') : iq'[k].pc # latch'[s].pc
    <3>1. s = "IUforward"
      BY <2>1, <2>4 DEF InUnit
    <3>2. latch'[s].pc < Front'
      BY <1>1, <2>1, <2>3, <3>1
    <3>. QED BY <1>2, <2>1, <2>3, <3>1, <3>2
  <2>5. Flight'
    BY <2>1, <2>2, <2>4 DEF Flight
  <2>6. \A p : InFlight(p)' => InFlight(p)
    BY <1>2, <2>1 DEF InFlight, InUnit
  <2>. QED BY <2>5, <2>6
<1>9. ASSUME DispatchStep PROVE Kept
  <2>1. CASE KeepsList
    BY <1>6, <1>9, <2>1 DEF DispatchStep
  <2>2. CASE ~KeepsList
    <3>1. PICK e : /\ e.pc = latch.RD2.pc /\ e.opcode = latch.RD2.opcode /\ e.opcode # "DIV"
                   /\ iq' = Append(iq, e)
      BY <1>9, <2>2 DEF DispatchStep
    <3>2. /\ Len(iq') = Len(iq) + 1
          /\ \A k \in 1 .. Len(iq) : iq'[k] = iq[k]
          /\ iq'[Len(iq) + 1] = e
      BY <1>0, <3>1
    <3>3. \A k \in 1 .. Len(iq') : k \in 1 .. Len(iq) \/ k = Len(iq) + 1
      BY <1>0, <3>2
    <3>4. e.pc = Front /\ e.pc < Front'
      BY <1>1, <1>9, <3>1 DEF DispatchStep
    <3>5. \A s \in InUnit : latch'[s].has_insn => /\ latch[s].has_insn
                                                 /\ latch'[s].pc = latch[s].pc
                                                 /\ latch'[s].opcode = latch[s].opcode
      BY <1>3, <1>4, <1>9 DEF DispatchStep, InUnit
    <3>6. \A k \in 1 .. Len(iq') : iq'[k].pc < Front' /\ iq'[k].opcode # "DIV"
      <4>1. ASSUME NEW k \in 1 .. Len(iq') PROVE iq'[k].pc < Front' /\ iq'[k].opcode # "DIV"
        <5>1. CASE k \in 1 .. Len(iq)
          BY <1>0, <1>1, <3>2, <5>1 DEF Flight
        <5>2. CASE k = Len(iq) + 1
          BY <3>1, <3>2, <3>4, <5>2
        <5>. QED BY <3>3, <5>1, <5>2
      <4>. QED BY <4>1
    <3>7. ASSUME NEW s \in InUnit, latch'[s].has_insn
          PROVE  /\ latch'[s].pc < Front' /\ fuType(latch'[s].opcode) = 0
                 /\ latch'[s].opcode # "DIV"
                 /\ \A k \in 1 .. Len(iq') : iq'[k].pc # latch'[s].pc
      <4>1. s \in LatchStage /\ latch[s].pc < Front /\ latch[s].pc \in Int
        BY <1>0, <1>4, <3>5, <3>7 DEF Flight, InUnit
      <4>. QED BY <1>0, <1>1, <3>2, <3>3, <3>4, <3>5, <3>7, <4>1 DEF Flight
    <3>8. Flight'
      BY <3>5, <3>6, <3>7 DEF Flight, InUnit
    <3>9. \A p : InFlight(p)' => InFlight(p) \/ p = Front
      BY <3>2, <3>3, <3>4, <3>5 DEF InFlight
    <3>. QED BY <3>8, <3>9
  <2>. QED BY <2>1, <2>2
<1>10. QuietStep \/ RenameStep \/ PutBackStep => Kept
  BY <1>6 DEF QuietStep, RenameStep, PutBackStep
<1>12. Kept
  BY <1>7, <1>8, <1>9, <1>10, EveryStepOnTheWay
<1>11. Gone \subseteq Gone'
  <2>1. Len(code) \in Nat
    BY LenProperties DEF TypeInv, ControlTypes
  <2>2. ASSUME NEW k \in Gone PROVE k \in Gone'
    <3>1. k \in 1 .. Len(code) /\ 3996 + 4 * k < Front /\ ~InFlight(3996 + 4 * k)
      BY DEF Gone
    <3>2. 3996 + 4 * k < Front' /\ 3996 + 4 * k # Front
      BY <1>1, <2>1, <3>1
    <3>3. ~InFlight(3996 + 4 * k)'
      BY <1>12, <3>1, <3>2
    <3>. QED BY <3>1, <3>2, <3>3 DEF Gone
  <2>. QED BY <2>2
<1>. QED BY <1>11, <1>12

(* Who holds a register it took, or P0: like Owners, without the           *)
(* instructions that took none and have the number of P0 all the same.     *)
FreeSlots == RingSlots(FL_head, FL_tail, PREG_FILE_SIZE)
Homes(p) ==
  {<<s, 0>> : s \in {s \in OwnerStage : /\ latch[s].has_insn /\ latch[s].opcode \in HasDest
                                        /\ latch[s].prd = p}}
    \cup {<<"free", k>> : k \in {k \in FreeSlots : flQueue[k] = p}}
    \cup {<<"waiting", k>> : k \in {k \in 1 .. Len(iq) : /\ iq[k].opcode \in HasDest
                                                        /\ iq[k].dest = p}}

(* The three ways to hold one.                                             *)
InLatch(p, a) == \E s \in OwnerStage : /\ latch[s].has_insn /\ latch[s].opcode \in HasDest
                                       /\ latch[s].prd = p /\ a = <<s, 0>>
InList(p, a) == \E k \in FreeSlots : flQueue[k] = p /\ a = <<"free", k>>
InQueue(p, a) == \E k \in 1 .. Len(iq) : /\ iq[k].opcode \in HasDest
                                        /\ iq[k].dest = p /\ a = <<"waiting", k>>
(* What holds a register: a latch, a slot of the free list, or an entry.   *)
LEMMA HoldIs ==
  ASSUME NEW p, NEW a
  PROVE  a \in Homes(p) <=> InLatch(p, a) \/ InList(p, a) \/ InQueue(p, a)
  BY DEF Homes, InLatch, InList, InQueue

(* The same of the next state.                                             *)
LEMMA HoldIsNext ==
  ASSUME NEW p, NEW a
  PROVE  a \in Homes(p)' <=> InLatch(p, a)' \/ InList(p, a)' \/ InQueue(p, a)'
  BY DEF Homes, InLatch, InList, InQueue

(* What a step may do: a register changes hands, an instruction that costs *)
(* its register leaves the queues, or one that took none puts P0 back.     *)
Moves(old, new) ==
  \A p \in Preg : \A a :
    a \in Homes(p)' <=> (a \in Homes(p) /\ a # old) \/ (a = new /\ old \in Homes(p))
Goes(k) == k \in Gone' /\ k \notin Gone
LosesOne == \E p \in Preg, k \in 1 .. Len(code) : \E a :
              /\ Goes(k) /\ code[k].opcode \in {"MUL", "JALR"}
              /\ Homes(p)' = Homes(p) \ {a}
              /\ \A q \in Preg \ {p} : Homes(q)' = Homes(q)
GetsOne == \E p \in Preg, k \in 1 .. Len(code) : \E a :
             /\ Goes(k) /\ code[k].opcode \in {"CMP", "NOP", "HALT"}
             /\ Homes(p)' = Homes(p) \cup {a}
             /\ \A q \in Preg \ {p} : Homes(q)' = Homes(q)
HoldsSame == \A p \in Preg : Homes(p)' = Homes(p)
(* A full free list drops what is put back.                                *)
DropsOne == /\ FL!FL_Full /\ UNCHANGED flVars
            /\ latch.IUforward.has_insn
            /\ latch.IUforward.prd \in Preg
            /\ \A p \in Preg : \A a : a \in Homes(p)' <=> a \in Homes(p) /\ a # <<"IUforward", 0>>

(* A latch that keeps its instruction holds what it held.                  *)
LEMMA LatchHolds ==
  ASSUME NEW s \in OwnerStage, Keeps(s), NEW p
  PROVE  /\ latch'[s].has_insn /\ latch'[s].opcode \in HasDest /\ latch'[s].prd = p
            <=> latch[s].has_insn /\ latch[s].opcode \in HasDest /\ latch[s].prd = p
  BY DEF Keeps, Gets

(* So does the issue queue that keeps its entries,                         *)
LEMMA QueueHolds ==
  ASSUME KeepsList, NEW p, NEW a
  PROVE  InQueue(p, a)' <=> InQueue(p, a)
  BY DEF KeepsList, InQueue

(* and the free list that keeps its slots.                                 *)
LEMMA ListHolds ==
  ASSUME KeepsFree, NEW p, NEW a
  PROVE  InList(p, a)' <=> InList(p, a)
  BY DEF KeepsFree, InList, flVars, FreeSlots

(* A step that keeps all three moves no register.                          *)
LEMMA QuietHolds ==
  ASSUME QuietStep
  PROVE  HoldsSame
<1>1. ASSUME NEW p, NEW a PROVE InLatch(p, a)' <=> InLatch(p, a)
  BY LatchHolds DEF QuietStep, InLatch, OwnerStage
<1>2. ASSUME NEW p, NEW a PROVE a \in Homes(p)' <=> a \in Homes(p)
  BY <1>1, QueueHolds, ListHolds, HoldIs, HoldIsNext DEF QuietStep
<1>. QED BY <1>2 DEF HoldsSame

(* The names of the places are different.                                  *)
LEMMA PlaceNames ==
  /\ OwnerStage = {"RD2", "IU", "IUforward"}
  /\ "free" \notin OwnerStage /\ "waiting" \notin OwnerStage /\ "free" # "waiting"
  BY DEF OwnerStage

(* Renaming moves the register at the head of the free list to RD2.        *)
LEMMA RenameHolds ==
  ASSUME TypeInv, RenameStep
  PROVE  HoldsSame \/ \E old, new : Moves(old, new)
<1>1. /\ KeepsList /\ Keeps("IU") /\ Keeps("IUforward")
      /\ latch.DR1.has_insn /\ ~latch.RD2.has_insn
      /\ latch'.RD2.has_insn /\ latch'.RD2.opcode = latch.DR1.opcode
  BY DEF RenameStep, Gets
<1>2. CASE latch.DR1.opcode \notin HasDest
  <2>1. ASSUME NEW p, NEW a PROVE InLatch(p, a)' <=> InLatch(p, a)
    BY <1>1, <1>2, LatchHolds DEF InLatch, OwnerStage
  <2>2. KeepsFree
    BY <1>2 DEF RenameStep
  <2>3. ASSUME NEW p, NEW a PROVE a \in Homes(p)' <=> a \in Homes(p)
    BY <1>1, <2>1, <2>2, QueueHolds, ListHolds, HoldIs, HoldIsNext
  <2>. QED BY <2>3 DEF HoldsSame
<1>3. CASE latch.DR1.opcode \in HasDest
  <2>1. /\ FL_head # -1 /\ latch'.RD2.prd = flQueue[FL_head] /\ flQueue' = flQueue
        /\ FL_head' = IF FL_head = FL_tail THEN -1 ELSE (FL_head + 1) % PREG_FILE_SIZE
        /\ FL_tail' = IF FL_head = FL_tail THEN -1 ELSE FL_tail
    BY <1>3 DEF RenameStep
  <2>2. RingIndices(FL_head, FL_tail, PREG_FILE_SIZE) /\ PREG_FILE_SIZE \in Nat \ {0}
    BY SizesAssumption DEF TypeInv, FlTypes
  <2>3. FreeSlots' = FreeSlots \ {FL_head}
    BY <2>1, <2>2, RingRemove DEF FreeSlots
  <2>4. FL_head \in FreeSlots
    BY <2>1, <2>2 DEF FreeSlots, RingSlots, RingIndices
  <2>5. ASSUME NEW p \in Preg, NEW a
        PROVE  a \in Homes(p)' <=> \/ a \in Homes(p) /\ a # <<"free", FL_head>>
                                   \/ a = <<"RD2", 0>> /\ <<"free", FL_head>> \in Homes(p)
    <3>1. InLatch(p, a)' <=> InLatch(p, a) \/ (a = <<"RD2", 0>> /\ flQueue[FL_head] = p)
      BY <1>1, <1>3, <2>1, LatchHolds DEF InLatch, OwnerStage
    <3>2. InList(p, a)' <=> InList(p, a) /\ a # <<"free", FL_head>>
      BY <2>1, <2>3 DEF InList
    <3>3. <<"free", FL_head>> \in Homes(p) <=> flQueue[FL_head] = p
      BY <2>4, PlaceNames, HoldIs DEF InLatch, InList, InQueue
    <3>4. ~InLatch(p, <<"free", FL_head>>) /\ ~InQueue(p, <<"free", FL_head>>)
      BY PlaceNames DEF InLatch, InQueue
    <3>5. InQueue(p, a)' <=> InQueue(p, a)
      BY <1>1, QueueHolds
    <3>. QED BY <3>1, <3>2, <3>3, <3>4, <3>5, HoldIs, HoldIsNext
  <2>6. Moves(<<"free", FL_head>>, <<"RD2", 0>>)
    BY <2>5 DEF Moves
  <2>. QED BY <2>6
<1>. QED BY <1>2, <1>3

(* Dispatch moves it to the entry of the issue queue; a DIV, which is not  *)
(* put in there, has taken none.                                           *)
LEMMA DispatchHolds ==
  ASSUME TypeInv, DispatchStep
  PROVE  HoldsSame \/ \E old, new : Moves(old, new)
<1>1. /\ Keeps("IU") /\ Keeps("IUforward") /\ KeepsFree
      /\ latch.RD2.has_insn /\ ~latch'.RD2.has_insn
  BY DEF DispatchStep
<1>2. CASE latch.RD2.opcode = "DIV" /\ KeepsList
  <2>1. latch.RD2.opcode \notin HasDest
    BY <1>2 DEF HasDest, TwoSource, OneSource
  <2>2. ASSUME NEW p, NEW a PROVE InLatch(p, a)' <=> InLatch(p, a)
    BY <1>1, <2>1, LatchHolds DEF InLatch, OwnerStage
  <2>3. ASSUME NEW p, NEW a PROVE a \in Homes(p)' <=> a \in Homes(p)
    BY <1>1, <1>2, <2>2, QueueHolds, ListHolds, HoldIs, HoldIsNext
  <2>. QED BY <2>3 DEF HoldsSame
<1>3. ASSUME NEW e, e.opcode = latch.RD2.opcode, e.dest = latch.RD2.prd, iq' = Append(iq, e)
      PROVE  Moves(<<"RD2", 0>>, <<"waiting", Len(iq) + 1>>)
  <2>1. Len(iq) \in Nat /\ iq \in Seq(QueueEntry)
    BY QueueIs DEF TypeInv, IqTypes
  <2>2. /\ \A k : k \in 1 .. Len(iq') <=> k \in 1 .. Len(iq) \/ k = Len(iq) + 1
        /\ \A k \in 1 .. Len(iq) : iq'[k] = iq[k]
        /\ iq'[Len(iq) + 1] = e
        /\ Len(iq) + 1 \notin 1 .. Len(iq)
    BY <1>3, <2>1
  <2>3. ASSUME NEW p \in Preg, NEW a
        PROVE  a \in Homes(p)' <=> \/ a \in Homes(p) /\ a # <<"RD2", 0>>
                                   \/ a = <<"waiting", Len(iq) + 1>> /\ <<"RD2", 0>> \in Homes(p)
    <3>1. InLatch(p, a)' <=> InLatch(p, a) /\ a # <<"RD2", 0>>
      BY <1>1, LatchHolds DEF InLatch, OwnerStage
    <3>2. <<"RD2", 0>> \in Homes(p) <=> latch.RD2.opcode \in HasDest /\ latch.RD2.prd = p
      BY <1>1, PlaceNames, HoldIs DEF InLatch, InList, InQueue
    <3>3. InQueue(p, a)' <=> \/ InQueue(p, a)
                             \/ a = <<"waiting", Len(iq) + 1>> /\ <<"RD2", 0>> \in Homes(p)
      BY <1>3, <2>2, <3>2 DEF InQueue
    <3>4. ~InList(p, <<"RD2", 0>>) /\ ~InQueue(p, <<"RD2", 0>>)
      BY PlaceNames DEF InList, InQueue
    <3>5. InList(p, a)' <=> InList(p, a)
      BY <1>1, ListHolds
    <3>. QED BY <3>1, <3>3, <3>4, <3>5, HoldIs, HoldIsNext
  <2>. QED BY <2>3 DEF Moves
<1>. QED BY <1>2, <1>3 DEF DispatchStep

(* Execution moves it to the forwarding stage.                             *)
LEMMA ExecuteHolds ==
  ASSUME ExecuteStep
  PROVE  Moves(<<"IU", 0>>, <<"IUforward", 0>>)
<1>1. /\ KeepsList /\ Keeps("RD2") /\ KeepsFree
      /\ latch.IU.has_insn /\ ~latch.IUforward.has_insn
      /\ ~latch'.IU.has_insn /\ latch'.IUforward.has_insn
      /\ latch'.IUforward.opcode = latch.IU.opcode /\ latch'.IUforward.prd = latch.IU.prd
  BY DEF ExecuteStep, Gets
<1>2. ASSUME NEW p \in Preg, NEW a
      PROVE  a \in Homes(p)' <=> \/ a \in Homes(p) /\ a # <<"IU", 0>>
                                 \/ a = <<"IUforward", 0>> /\ <<"IU", 0>> \in Homes(p)
  <2>1. <<"IU", 0>> \in Homes(p) <=> latch.IU.opcode \in HasDest /\ latch.IU.prd = p
    BY <1>1, PlaceNames, HoldIs DEF InLatch, InList, InQueue
  <2>2. InLatch(p, a)' <=> \/ InLatch(p, a) /\ a # <<"IU", 0>>
                           \/ a = <<"IUforward", 0>> /\ <<"IU", 0>> \in Homes(p)
    BY <1>1, <2>1, LatchHolds DEF InLatch, OwnerStage
  <2>3. ~InList(p, <<"IU", 0>>) /\ ~InQueue(p, <<"IU", 0>>)
    BY PlaceNames DEF InList, InQueue
  <2>4. (InList(p, a)' <=> InList(p, a)) /\ (InQueue(p, a)' <=> InQueue(p, a))
    BY <1>1, ListHolds, QueueHolds
  <2>. QED BY <2>2, <2>3, <2>4, HoldIs, HoldIsNext
<1>. QED BY <1>2 DEF Moves

(* Issue to the integer unit moves it there; issue to another unit loses   *)
(* it, that of a MUL or a JALR.                                            *)
LEMMA IssueHolds ==
  ASSUME TypeInv, InOrder, Flight, IssueStep, code' = code, Gone \subseteq Gone',
         Front \in Int, Front' \in Int, Front <= Front'
  PROVE  HoldsSame \/ (\E old, new : Moves(old, new)) \/ LosesOne
<1>1. /\ Keeps("RD2") /\ Keeps("IUforward") /\ KeepsFree
      /\ Len(iq) = 1 /\ iq' = << >> /\ ~latch.IU.has_insn
      /\ 1 \in 1 .. Len(iq) /\ 1 .. Len(iq') = {}
  BY EmptySeq DEF IssueStep
<1>2. ASSUME NEW p, NEW a PROVE ~InQueue(p, a)'
  BY <1>1 DEF InQueue
<1>3. ASSUME NEW p, NEW a
      PROVE  InQueue(p, a) <=> iq[1].opcode \in HasDest /\ iq[1].dest = p /\ a = <<"waiting", 1>>
  BY <1>1 DEF InQueue
<1>4. ASSUME NEW p, NEW a, a = <<"waiting", 1>> PROVE ~InLatch(p, a) /\ ~InList(p, a)
  BY <1>4, PlaceNames DEF InLatch, InList
<1>5. ASSUME fuType(iq[1].opcode) = 0, Gets("IU", iq[1], iq[1].dest)
      PROVE  Moves(<<"waiting", 1>>, <<"IU", 0>>)
  <2>1. /\ latch'.IU.has_insn /\ latch'.IU.opcode = iq[1].opcode
        /\ latch'.IU.prd = iq[1].dest
    BY <1>5 DEF Gets
  <2>2. ASSUME NEW p \in Preg, NEW a
        PROVE  a \in Homes(p)' <=> \/ a \in Homes(p) /\ a # <<"waiting", 1>>
                                   \/ a = <<"IU", 0>> /\ <<"waiting", 1>> \in Homes(p)
    <3>1. InLatch(p, a)' <=> InLatch(p, a) \/ (/\ iq[1].opcode \in HasDest
                                               /\ iq[1].dest = p /\ a = <<"IU", 0>>)
      BY <1>1, <2>1, LatchHolds DEF InLatch, OwnerStage
    <3>2. <<"waiting", 1>> \in Homes(p) <=> iq[1].opcode \in HasDest /\ iq[1].dest = p
      BY <1>3, <1>4, HoldIs
    <3>3. InList(p, a)' <=> InList(p, a)
      BY <1>1, ListHolds
    <3>. QED BY <1>2, <1>3, <1>4, <3>1, <3>2, <3>3, HoldIs, HoldIsNext
  <2>. QED BY <2>2 DEF Moves
<1>6. ASSUME fuType(iq[1].opcode) # 0, ~latch'.IU.has_insn
      PROVE  HoldsSame \/ LosesOne
  <2>1. ASSUME NEW p, NEW a PROVE InLatch(p, a)' <=> InLatch(p, a)
    BY <1>1, <1>6, LatchHolds DEF InLatch, OwnerStage
  <2>2. ASSUME NEW p, NEW a
        PROVE  a \in Homes(p)' <=> a \in Homes(p) /\ a # <<"waiting", 1>>
    BY <1>1, <1>2, <1>3, <1>4, <2>1, ListHolds, HoldIs, HoldIsNext
  <2>3. CASE iq[1].opcode \notin HasDest
    <3>1. ASSUME NEW p PROVE <<"waiting", 1>> \notin Homes(p)
      BY <1>3, <1>4, <2>3, HoldIs
    <3>. QED BY <2>2, <3>1 DEF HoldsSame
  <2>4. CASE iq[1].opcode \in HasDest
    <3>1. iq[1].opcode \in {"MUL", "JALR"}
      BY <1>6, <2>4 DEF HasDest, TwoSource, OneSource, fuType
    <3>2. iq[1].dest \in Preg /\ iq[1].pc < Front /\ Right(iq[1])
      BY <1>1, QueueIs DEF QueueEntry, Flight, InOrder, UnitsRight
    <3>3. PICK k \in 1 .. Len(code) : iq[1].pc = 3996 + 4 * k
      BY <3>2 DEF Right, Address
    <3>4. code[k].opcode = iq[1].opcode
      <4>1. Len(code) \in Nat
        BY LenProperties DEF TypeInv, ControlTypes
      <4>2. CodeIndex(iq[1].pc) = k
        BY <3>3, <4>1 DEF CodeIndex
      <4>. QED BY <3>2, <4>2 DEF Right, OpAt
    <3>5. k \notin Gone
      BY <1>1, <3>3 DEF Gone, InFlight
    <3>6. ~InFlight(3996 + 4 * k)'
      <4>1. latch'.IUforward.has_insn => latch.IUforward.has_insn
                                         /\ latch'.IUforward.pc = latch.IUforward.pc
        BY <1>1 DEF Keeps, Gets
      <4>2. latch.IUforward.has_insn => latch.IUforward.pc # iq[1].pc
        BY <1>1 DEF Flight, InUnit
      <4>. QED BY <1>1, <1>6, <3>3, <4>1, <4>2 DEF InFlight, InUnit
    <3>7. k \in Gone'
      <4>1. 3996 + 4 * k < Front'
        <5>1. Len(code) \in Nat /\ k \in Int
          BY LenProperties DEF TypeInv, ControlTypes
        <5>. QED BY <3>2, <3>3, <5>1
      <4>. QED BY <3>6, <4>1 DEF Gone
    <3>10. PICK p \in Preg : p = iq[1].dest
      BY <3>2
    <3>8. Homes(p)' = Homes(p) \ {<<"waiting", 1>>}
      BY <2>2
    <3>9. ASSUME NEW q \in Preg \ {p} PROVE Homes(q)' = Homes(q)
      <4>1. <<"waiting", 1>> \notin Homes(q)
        BY <1>3, <1>4, <3>10, HoldIs
      <4>. QED BY <2>2, <4>1
    <3>11. LosesOne
      <4>1. /\ Goes(k) /\ code[k].opcode \in {"MUL", "JALR"}
            /\ \A q \in Preg \ {p} : Homes(q)' = Homes(q)
        BY <3>1, <3>4, <3>5, <3>7, <3>9 DEF Goes
      <4>. QED BY <3>8, <4>1 DEF LosesOne
    <3>. QED BY <3>11
  <2>. QED BY <2>3, <2>4
<1>. QED BY <1>5, <1>6 DEF IssueStep

(* Putting a register back moves it to the tail of the free list, or drops *)
(* it when the list is full; an instruction that took none puts back P0.   *)
LEMMA PutBackHolds ==
  ASSUME TypeInv, InOrder, Flight, PutBackStep, code' = code,
         Front \in Int, Front' \in Int, Front <= Front'
  PROVE  HoldsSame \/ (\E old, new : Moves(old, new)) \/ GetsOne \/ DropsOne
<1>1. /\ KeepsList /\ Keeps("RD2") /\ Keeps("IU")
      /\ latch.IUforward.has_insn /\ ~latch'.IUforward.has_insn
  BY DEF PutBackStep
<1>2. PICK r \in Preg : r = latch.IUforward.prd
  <2>1. latch.IUforward \in Latch
    BY LatchStages DEF TypeInv, LatchTypes, LatchesFit
  <2>. QED BY <2>1 DEF Latch
<1>3. ASSUME NEW p, NEW a PROVE InLatch(p, a)' <=> InLatch(p, a) /\ a # <<"IUforward", 0>>
  BY <1>1, LatchHolds DEF InLatch, OwnerStage
<1>4. ASSUME NEW p, NEW a, a = <<"IUforward", 0>>
      PROVE  ~InList(p, a) /\ ~InQueue(p, a)
  BY <1>4, PlaceNames DEF InList, InQueue
<1>5. ASSUME NEW p
      PROVE  <<"IUforward", 0>> \in Homes(p) <=> latch.IUforward.opcode \in HasDest /\ r = p
  BY <1>1, <1>2, <1>4, PlaceNames, HoldIs DEF InLatch
<1>6. ASSUME NEW p, NEW a PROVE InQueue(p, a)' <=> InQueue(p, a)
  BY <1>1, QueueHolds
<1>7. ASSUME KeepsFree
      PROVE  \A p \in Preg : \A a : a \in Homes(p)' <=> a \in Homes(p) /\ a # <<"IUforward", 0>>
  BY <1>3, <1>4, <1>6, <1>7, ListHolds, HoldIs, HoldIsNext
<1>8. CASE latch.IUforward.opcode = "STORE" /\ KeepsFree
  <2>1. latch.IUforward.opcode \notin HasDest
    BY <1>8 DEF HasDest, TwoSource, OneSource
  <2>2. \A p \in Preg : \A a : a \in Homes(p)' <=> a \in Homes(p)
    BY <1>5, <1>7, <1>8, <2>1
  <2>. QED BY <2>2 DEF HoldsSame
<1>9. CASE FL!FL_Full /\ KeepsFree
  BY <1>1, <1>2, <1>7, <1>9 DEF DropsOne, KeepsFree
<1>10. CASE /\ latch.IUforward.opcode # "STORE"
            /\ ~FL!FL_Full
            /\ FL_head' = IF FL_head = -1 THEN 0 ELSE FL_head
            /\ FL_tail' = (FL_tail + 1) % PREG_FILE_SIZE
            /\ flQueue' = [flQueue EXCEPT ![FL_tail'] = r]
  <2>1. RingIndices(FL_head, FL_tail, PREG_FILE_SIZE) /\ PREG_FILE_SIZE \in Nat \ {0}
        /\ DOMAIN flQueue = 0 .. PREG_FILE_SIZE - 1
    BY SizesAssumption DEF TypeInv, FlTypes, Preg
  <2>2. RingCount(FL_head, FL_tail, PREG_FILE_SIZE) < PREG_FILE_SIZE
    BY <1>10, <2>1, RingCountBounds DEF FL!FL_Full
  <2>3. PICK t : t = FL_tail'
    OBVIOUS
  <2>4. /\ t \in 0 .. PREG_FILE_SIZE - 1
        /\ t \notin FreeSlots
        /\ FreeSlots' = FreeSlots \cup {t}
    BY <1>10, <2>1, <2>2, <2>3, RingInsert DEF FreeSlots
  <2>5. flQueue'[t] = r /\ \A k \in FreeSlots : flQueue'[k] = flQueue[k]
    <3>1. FreeSlots \subseteq 0 .. PREG_FILE_SIZE - 1
      BY <2>1 DEF FreeSlots, RingSlots, RingIndices
    <3>. QED BY <1>10, <2>1, <2>3, <2>4, <3>1
  <2>6. ASSUME NEW p \in Preg, NEW a
        PROVE  InList(p, a)' <=> InList(p, a) \/ (a = <<"free", t>> /\ r = p)
    BY <2>4, <2>5 DEF InList
  <2>7. CASE latch.IUforward.opcode \in HasDest
    <3>1. ASSUME NEW p \in Preg, NEW a
          PROVE  a \in Homes(p)' <=> \/ a \in Homes(p) /\ a # <<"IUforward", 0>>
                                     \/ a = <<"free", t>> /\ <<"IUforward", 0>> \in Homes(p)
      BY <1>3, <1>4, <1>5, <1>6, <2>6, <2>7, HoldIs, HoldIsNext
    <3>2. Moves(<<"IUforward", 0>>, <<"free", t>>)
      BY <3>1 DEF Moves
    <3>. QED BY <3>2
  <2>8. CASE latch.IUforward.opcode \notin HasDest
    <3>1. ASSUME NEW p \in Preg, NEW a
          PROVE  a \in Homes(p)' <=> a \in Homes(p) \/ (a = <<"free", t>> /\ r = p)
      BY <1>3, <1>4, <1>5, <1>6, <2>6, <2>8, HoldIs, HoldIsNext
    <3>2. /\ latch.IUforward.pc < Front /\ Right(latch.IUforward)
          /\ fuType(latch.IUforward.opcode) = 0 /\ latch.IUforward.opcode # "DIV"
          /\ \A k \in 1 .. Len(iq) : iq[k].pc # latch.IUforward.pc
          /\ latch.IU.has_insn => latch.IU.pc # latch.IUforward.pc
          /\ latch.IUforward.opcode \in Opcode
      <4>1. latch.IUforward \in Latch
        BY LatchStages DEF TypeInv, LatchTypes, LatchesFit
      <4>2. latch.IUforward.opcode \in Opcode
        BY <4>1 DEF Latch
      <4>. QED BY <1>1, <4>2 DEF Flight, InUnit, InOrder, UnitsRight
    <3>3. latch.IUforward.opcode \in {"CMP", "NOP", "HALT"}
      BY <1>10, <2>8, <3>2 DEF Opcode, HasDest, TwoSource, OneSource, fuType
    <3>4. PICK k \in 1 .. Len(code) : latch.IUforward.pc = 3996 + 4 * k
      BY <3>2 DEF Right, Address
    <3>5. Len(code) \in Nat /\ k \in Int
      BY LenProperties DEF TypeInv, ControlTypes
    <3>6. code[k].opcode = latch.IUforward.opcode
      <4>1. CodeIndex(latch.IUforward.pc) = k
        BY <3>4, <3>5 DEF CodeIndex
      <4>. QED BY <3>2, <4>1 DEF Right, OpAt
    <3>7. k \notin Gone
      BY <1>1, <3>4 DEF Gone, InFlight, InUnit
    <3>8. ~InFlight(3996 + 4 * k)'
      <4>1. latch'.IU.has_insn => latch.IU.has_insn /\ latch'.IU.pc = latch.IU.pc
        BY <1>1 DEF Keeps, Gets
      <4>2. \A j \in 1 .. Len(iq') : j \in 1 .. Len(iq) /\ iq'[j].pc = iq[j].pc
        BY <1>1 DEF KeepsList
      <4>. QED BY <1>1, <3>2, <3>4, <4>1, <4>2 DEF InFlight, InUnit
    <3>9. k \in Gone'
      <4>1. 3996 + 4 * k < Front'
        BY <3>2, <3>4, <3>5
      <4>. QED BY <3>8, <4>1 DEF Gone
    <3>10. Homes(r)' = Homes(r) \cup {<<"free", t>>}
      BY <3>1
    <3>11. \A q \in Preg \ {r} : Homes(q)' = Homes(q)
      BY <3>1
    <3>12. GetsOne
      <4>1. Goes(k) /\ code[k].opcode \in {"CMP", "NOP", "HALT"}
        BY <3>3, <3>6, <3>7, <3>9 DEF Goes
      <4>. QED BY <3>10, <3>11, <4>1 DEF GetsOne
    <3>. QED BY <3>12
  <2>. QED BY <2>7, <2>8
<1>. QED
  BY <1>2, <1>8, <1>9, <1>10
  DEF PutBackStep, FL!put_physicalRegister_inFL, FL!flVars, flVars, KeepsFree

(* Every step is one of these.                                             *)
LEMMA EveryHoldStep ==
  ASSUME TypeInv, TypeInv', BranchFree, InOrder, Schedule, IqShape, Flight, [Next]_vars,
         code' = code
  PROVE  HoldsSame \/ (\E old, new : Moves(old, new)) \/ LosesOne \/ GetsOne \/ DropsOne
<1>1. Front \in Int /\ Front' \in Int /\ Front <= Front' /\ Gone \subseteq Gone'
  BY FrontKept, FlightKept
<1>. QED
  BY <1>1, EveryStepOnTheWay, QuietHolds, RenameHolds, DispatchHolds, IssueHolds, ExecuteHolds,
     PutBackHolds

Lost == {p \in Preg \ {0} : Homes(p) = {}}

(* P0 is held once, and once more for each instruction that put it back    *)
(* without having taken it; each register that is lost was spent by an     *)
(* instruction of its own.                                                 *)
LossesSpent == /\ Cardinality(Homes(0)) <= 1 + Cardinality(Puts)
               /\ Cardinality(Lost) <= Cardinality(Spent)

(* A subset of a finite set has no more.                                   *)
LEMMA NotMore ==
  ASSUME NEW S, IsFiniteSet(S), NEW T, T \subseteq S
  PROVE  /\ IsFiniteSet(T) /\ Cardinality(T) \in Nat /\ Cardinality(S) \in Nat
         /\ Cardinality(T) <= Cardinality(S)
  BY FS_Subset, FS_CardinalityType

(* A set with one element more than another has at most one more.          *)
LEMMA OneMore ==
  ASSUME NEW S, IsFiniteSet(S), NEW T, NEW x, T \subseteq S \cup {x}
  PROVE  /\ IsFiniteSet(T) /\ Cardinality(T) \in Nat /\ Cardinality(S) \in Nat
         /\ Cardinality(T) <= Cardinality(S) + 1
<1>1. IsFiniteSet(S \cup {x}) /\ Cardinality(S \cup {x}) <= Cardinality(S) + 1
      /\ Cardinality(S) \in Nat
  BY FS_AddElement, FS_CardinalityType
<1>. QED BY <1>1, NotMore

(* A set that lacks an element of another has fewer.                       *)
LEMMA OneLess ==
  ASSUME NEW S, IsFiniteSet(S), NEW T \in SUBSET S, NEW x \in S, x \notin T
  PROVE  Cardinality(T) + 1 <= Cardinality(S)
<1>1. IsFiniteSet(T) /\ Cardinality(T) \in Nat /\ Cardinality(S) \in Nat
  BY NotMore
<1>2. Cardinality(T \cup {x}) = Cardinality(T) + 1
  BY <1>1, FS_AddElement
<1>3. Cardinality(T \cup {x}) <= Cardinality(S)
  BY NotMore
<1>. QED BY <1>1, <1>2, <1>3

(* The physical registers are finitely many.                               *)
LEMMA PregFinite ==
  /\ PREG_FILE_SIZE \in Nat \ {0} /\ 0 \in Preg
  /\ IsFiniteSet(Preg) /\ Cardinality(Preg) = PREG_FILE_SIZE
<1>1. PREG_FILE_SIZE \in Nat \ {0}
  BY SizesAssumption
<1>. QED BY <1>1, FS_Interval DEF Preg

(* The places of P0 are finitely many.                                     *)
LEMMA HoldsFinite == TypeInv => IsFiniteSet(Homes(0))
<1>. SUFFICES ASSUME TypeInv PROVE IsFiniteSet(Homes(0))
  OBVIOUS
<1>1. PICK S : S = (OwnerStage \cup {"free", "waiting"}) \X (0 .. PREG_FILE_SIZE + Len(iq))
  OBVIOUS
<1>2. IsFiniteSet(S)
  <2>1. IsFiniteSet(OwnerStage \cup {"free", "waiting"})
    <3>1. IsFiniteSet({"RD2"} \cup {"IU"})
      BY FS_Singleton, FS_AddElement
    <3>2. IsFiniteSet(({"RD2"} \cup {"IU"}) \cup {"IUforward"})
      BY <3>1, FS_AddElement
    <3>3. IsFiniteSet(OwnerStage)
      <4>1. OwnerStage = ({"RD2"} \cup {"IU"}) \cup {"IUforward"}
        BY DEF OwnerStage
      <4>. QED BY <3>2, <4>1
    <3>4. IsFiniteSet({"free"} \cup {"waiting"})
      BY FS_Singleton, FS_AddElement
    <3>5. IsFiniteSet(OwnerStage \cup ({"free"} \cup {"waiting"}))
      BY <3>3, <3>4, FS_Union
    <3>6. OwnerStage \cup {"free", "waiting"} = OwnerStage \cup ({"free"} \cup {"waiting"})
      OBVIOUS
    <3>. QED BY <3>5, <3>6
  <2>2. IsFiniteSet(0 .. PREG_FILE_SIZE + Len(iq))
    BY QueueIs, FS_Interval, SizesAssumption
  <2>. QED BY <1>1, <2>1, <2>2, FS_Product
<1>3. Homes(0) \subseteq S
  <2>1. PREG_FILE_SIZE \in Nat /\ Len(iq) \in Nat
    BY QueueIs, SizesAssumption
  <2>2. FreeSlots \subseteq 0 .. PREG_FILE_SIZE - 1
    BY SizesAssumption DEF TypeInv, FlTypes, FreeSlots, RingSlots, RingIndices
  <2>3. ASSUME NEW a \in Homes(0) PROVE a \in S
    <3>1. CASE InLatch(0, a)
      BY <1>1, <2>1, <3>1 DEF InLatch
    <3>2. CASE InList(0, a)
      <4>1. PICK k \in FreeSlots : a = <<"free", k>>
        BY <3>2 DEF InList
      <4>2. k \in 0 .. PREG_FILE_SIZE + Len(iq)
        BY <2>1, <2>2, <4>1
      <4>. QED BY <1>1, <4>1, <4>2
    <3>3. CASE InQueue(0, a)
      <4>1. PICK k \in 1 .. Len(iq) : a = <<"waiting", k>>
        BY <3>3 DEF InQueue
      <4>2. k \in 0 .. PREG_FILE_SIZE + Len(iq)
        BY <2>1, <4>1
      <4>. QED BY <1>1, <4>1, <4>2
    <3>. QED BY <3>1, <3>2, <3>3, HoldIs
  <2>. QED BY <2>3
<1>. QED BY <1>2, <1>3, NotMore

(* A full list has room for the registers but as many as it has copies of  *)
(* P0, one excepted.                                                       *)
LEMMA FullListMisses ==
  ASSUME TypeInv, OwnedOnce, FL!FL_Full,
         NEW U, U = {p \in Preg \ {0} : \A k \in FreeSlots : flQueue[k] # p}
  PROVE  Cardinality(U) + 1 <= Cardinality(Homes(0))
<1>. DEFINE N == PREG_FILE_SIZE
            NZ == {k \in FreeSlots : flQueue[k] # 0}
            Z == {k \in FreeSlots : flQueue[k] = 0}
            T == (Preg \ {0}) \ U
<1>1. N \in Nat \ {0} /\ RingIndices(FL_head, FL_tail, N)
      /\ \A k \in FreeSlots : flQueue[k] \in Preg
  <2>1. N \in Nat \ {0} /\ RingIndices(FL_head, FL_tail, N)
    BY SizesAssumption DEF TypeInv, FlTypes
  <2>2. FreeSlots \subseteq 0 .. N - 1
    BY <2>1 DEF FreeSlots, RingSlots, RingIndices
  <2>3. flQueue \in [0 .. N - 1 -> Preg]
    BY DEF TypeInv, FlTypes, Preg
  <2>. QED BY <2>1, <2>2, <2>3
<1>2. FreeSlots = 0 .. N - 1
  <2>1. CASE FL_head = FL_tail + 1
    <3>1. FL_head \in 0 .. N - 1 /\ FL_tail \in 0 .. N - 1
      BY <1>1, <2>1 DEF RingIndices
    <3>2. FreeSlots = (FL_head .. N - 1) \cup (0 .. FL_tail)
      BY <2>1, <3>1 DEF FreeSlots, RingSlots
    <3>3. \A k : k \in FreeSlots <=> k \in 0 .. N - 1
      BY <1>1, <2>1, <3>1, <3>2
    <3>. QED BY <3>3
  <2>2. CASE FL_head = 0 /\ FL_tail = N - 1
    BY <1>1, <2>2 DEF FreeSlots, RingSlots
  <2>. QED BY <2>1, <2>2 DEF FL!FL_Full
<1>3. IsFiniteSet(FreeSlots) /\ Cardinality(FreeSlots) = N
  BY <1>1, <1>2, FS_Interval
<1>4. IsFiniteSet(Preg \ {0}) /\ Cardinality(Preg \ {0}) = N - 1
  <2>1. IsFiniteSet(Preg) /\ Cardinality(Preg) = N /\ 0 \in Preg
    BY PregFinite
  <2>. QED BY <2>1, FS_RemoveElement
<1>5. /\ IsFiniteSet(NZ) /\ IsFiniteSet(Z)
      /\ Cardinality(NZ) \in Nat /\ Cardinality(Z) \in Nat
      /\ Cardinality(NZ) + Cardinality(Z) = N
  <2>1. IsFiniteSet(NZ) /\ Cardinality(NZ) \in Nat
    BY <1>3, NotMore
  <2>2. Z = FreeSlots \ NZ /\ FreeSlots \cap NZ = NZ
    OBVIOUS
  <2>3. IsFiniteSet(Z) /\ Cardinality(Z) = N - Cardinality(NZ)
    BY <1>3, <2>2, FS_Difference
  <2>4. Cardinality(Z) \in Nat
    BY <2>3, FS_CardinalityType
  <2>. QED BY <1>1, <2>1, <2>3, <2>4
<1>6. /\ IsFiniteSet(T) /\ Cardinality(U) \in Nat
      /\ Cardinality(T) = N - 1 - Cardinality(U)
  <2>1. U \subseteq Preg \ {0} /\ (Preg \ {0}) \cap U = U
    OBVIOUS
  <2>2. Cardinality(U) \in Nat
    BY <1>4, <2>1, NotMore
  <2>3. IsFiniteSet(T) /\ Cardinality(T) = Cardinality(Preg \ {0}) - Cardinality(U)
    BY <1>4, <2>1, FS_Difference
  <2>. QED BY <1>4, <2>2, <2>3
<1>7. Cardinality(NZ) <= Cardinality(T)
  <2>. DEFINE f == [k \in NZ |-> flQueue[k]]
  <2>1. \A k \in NZ : flQueue[k] \in T
    BY <1>1
  <2>2. ASSUME NEW j \in NZ, NEW k \in NZ, flQueue[j] = flQueue[k]
        PROVE  j = k
    <3>1. PICK p \in Preg \ {0} : p = flQueue[j]
      BY <1>1
    <3>2. <<"free", j>> \in Owners(p) /\ <<"free", k>> \in Owners(p)
      BY <2>2, <3>1, OwnerIs DEF FreeSlots
    <3>3. <<"free", j>> = <<"free", k>>
      BY <3>2 DEF OwnedOnce
    <3>. QED BY <3>3
  <2>3. f \in Injection(NZ, T)
    BY <2>1, <2>2 DEF Injection, IsInjective
  <2>. QED BY <1>6, <2>3, FS_Injection
<1>8. Cardinality(Z) <= Cardinality(Homes(0))
  <2>. DEFINE g == [k \in Z |-> <<"free", k>>]
  <2>1. \A k \in Z : <<"free", k>> \in Homes(0)
    BY HoldIs DEF InList
  <2>2. g \in Injection(Z, Homes(0))
    BY <2>1 DEF Injection, IsInjective
  <2>. QED BY <2>2, HoldsFinite, FS_Injection
<1>9. Cardinality(Homes(0)) \in Nat /\ Cardinality(T) \in Nat
  BY <1>6, HoldsFinite, FS_CardinalityType
<1>. HIDE DEF NZ, Z, T, N
<1>. QED BY <1>1, <1>5, <1>6, <1>7, <1>8, <1>9

(* What was spent stays spent.                                             *)
LEMMA SpentGrows ==
  ASSUME TypeInv, code' = code, Gone \subseteq Gone'
  PROVE  /\ Puts \subseteq Puts' /\ Spent \subseteq Spent'
         /\ Puts' \subseteq Spent'
         /\ IsFiniteSet(Puts') /\ IsFiniteSet(Spent')
         /\ Cardinality(Puts) \in Nat /\ Cardinality(Puts') \in Nat
         /\ Cardinality(Spent) \in Nat /\ Cardinality(Spent') \in Nat
         /\ Cardinality(Puts) <= Cardinality(Puts')
         /\ Cardinality(Spent) <= Cardinality(Spent')
         /\ Cardinality(Puts') <= Cardinality(Spent')
<1>1. Puts \subseteq Puts' /\ Spent \subseteq Spent' /\ Puts' \subseteq Spent'
  BY DEF Puts, Spent
<1>2. IsFiniteSet(Spent')
  <2>1. Len(code) \in Nat
    BY LenProperties DEF TypeInv, ControlTypes
  <2>2. IsFiniteSet(1 .. Len(code))
    BY <2>1, FS_Interval
  <2>3. Spent' \subseteq 1 .. Len(code)
    BY DEF Spent, Gone
  <2>. QED BY <2>2, <2>3, NotMore
<1>3. IsFiniteSet(Puts')
  BY <1>1, <1>2, NotMore
<1>. QED BY <1>1, <1>2, <1>3, NotMore

(* A register that is moved is held; one that is lost, and a P0 that is    *)
(* put back in vain, is charged to an instruction that goes now; and a     *)
(* full list can lack one only for a P0 it holds.                          *)
LEMMA LossesSpentKept ==
  ASSUME TypeInv, TypeInv', BranchFree, InOrder, Schedule, IqShape, Flight, OwnedOnce,
         LossesSpent, [Next]_vars, code' = code
  PROVE  LossesSpent'
<1>0. Gone \subseteq Gone'
  BY FlightKept
<1>1. /\ Puts \subseteq Puts' /\ Spent \subseteq Spent'
      /\ IsFiniteSet(Puts') /\ IsFiniteSet(Spent')
      /\ Cardinality(Puts) \in Nat /\ Cardinality(Puts') \in Nat
      /\ Cardinality(Spent) \in Nat /\ Cardinality(Spent') \in Nat
      /\ Cardinality(Puts) <= Cardinality(Puts')
      /\ Cardinality(Spent) <= Cardinality(Spent')
      /\ Cardinality(Puts') <= Cardinality(Spent')
  BY <1>0, SpentGrows
<1>2. /\ IsFiniteSet(Homes(0)) /\ Cardinality(Homes(0)) \in Nat
      /\ IsFiniteSet(Lost) /\ Cardinality(Lost) \in Nat
      /\ 0 \in Preg
  <2>1. IsFiniteSet(Preg) /\ 0 \in Preg
    BY PregFinite
  <2>2. IsFiniteSet(Lost)
    BY <2>1, NotMore DEF Lost
  <2>. QED BY <2>1, <2>2, HoldsFinite, FS_CardinalityType
<1>3. /\ Cardinality(Homes(0)) <= 1 + Cardinality(Puts)
      /\ Cardinality(Lost) <= Cardinality(Spent)
  BY DEF LossesSpent
(* The two counts, after what may happen to the two sets.                  *)
<1>4. ASSUME Cardinality(Homes(0)') \in Nat, Cardinality(Lost') \in Nat,
             Cardinality(Homes(0)') <= 1 + Cardinality(Puts'),
             Cardinality(Lost') <= Cardinality(Spent')
      PROVE  LossesSpent'
  BY <1>4 DEF LossesSpent
<1>5. ASSUME Homes(0)' \subseteq Homes(0)
      PROVE  /\ Cardinality(Homes(0)') \in Nat
             /\ Cardinality(Homes(0)') <= 1 + Cardinality(Puts')
  BY <1>1, <1>2, <1>3, <1>5, NotMore
<1>6. ASSUME Lost' \subseteq Lost
      PROVE  Cardinality(Lost') \in Nat /\ Cardinality(Lost') <= Cardinality(Spent')
  BY <1>1, <1>2, <1>3, <1>6, NotMore
<1>7. CASE HoldsSame
  <2>1. Homes(0)' \subseteq Homes(0)
    BY <1>2, <1>7 DEF HoldsSame
  <2>2. Lost' \subseteq Lost
    BY <1>7 DEF HoldsSame, Lost
  <2>. QED BY <1>4, <1>5, <1>6, <2>1, <2>2
<1>8. ASSUME NEW old, NEW new, Moves(old, new) PROVE LossesSpent'
  <2>1. Lost' \subseteq Lost
    <3>1. ASSUME NEW p \in Preg \ {0}, Homes(p)' = {} PROVE Homes(p) = {}
      <4>1. ASSUME NEW a \in Homes(p) PROVE FALSE
        <5>1. a # old => a \in Homes(p)'
          BY <1>8, <4>1 DEF Moves
        <5>2. a = old => new \in Homes(p)'
          BY <1>8, <4>1 DEF Moves
        <5>. QED BY <3>1, <5>1, <5>2
      <4>. QED BY <4>1
    <3>. QED BY <3>1 DEF Lost
  <2>2. CASE old \notin Homes(0)
    <3>1. Homes(0)' \subseteq Homes(0)
      BY <1>2, <1>8, <2>2 DEF Moves
    <3>. QED BY <1>4, <1>5, <1>6, <2>1, <3>1
  <2>3. CASE old \in Homes(0)
    <3>1. Homes(0)' \subseteq (Homes(0) \ {old}) \cup {new}
      BY <1>2, <1>8 DEF Moves
    <3>2. /\ IsFiniteSet(Homes(0) \ {old})
          /\ Cardinality(Homes(0) \ {old}) = Cardinality(Homes(0)) - 1
      BY <1>2, <2>3, FS_RemoveElement
    <3>3. /\ Cardinality(Homes(0)') \in Nat
          /\ Cardinality(Homes(0)') <= Cardinality(Homes(0) \ {old}) + 1
      BY <3>1, <3>2, OneMore
    <3>4. Cardinality(Homes(0)') <= 1 + Cardinality(Puts')
      BY <1>1, <1>2, <1>3, <3>2, <3>3
    <3>. QED BY <1>4, <1>6, <2>1, <3>3, <3>4
  <2>. QED BY <2>2, <2>3
<1>9. CASE LosesOne
  <2>0. PICK p \in Preg, k \in 1 .. Len(code) : \E a :
              /\ Goes(k) /\ code[k].opcode \in {"MUL", "JALR"}
              /\ Homes(p)' = Homes(p) \ {a}
              /\ \A q \in Preg \ {p} : Homes(q)' = Homes(q)
    BY <1>9 DEF LosesOne
  <2>1. PICK a : /\ Goes(k) /\ code[k].opcode \in {"MUL", "JALR"}
                 /\ Homes(p)' = Homes(p) \ {a}
                 /\ \A q \in Preg \ {p} : Homes(q)' = Homes(q)
    BY <2>0
  <2>2. Homes(0)' \subseteq Homes(0)
    <3>1. CASE p = 0
      BY <2>1, <3>1
    <3>2. CASE p # 0
      BY <1>2, <2>1, <3>2
    <3>. QED BY <3>1, <3>2
  <2>3. Lost' \subseteq Lost \cup {p}
    BY <2>1 DEF Lost
  <2>4. Cardinality(Spent) + 1 <= Cardinality(Spent')
    <3>1. k \in Spent' /\ k \notin Spent
      BY <2>1 DEF Goes, Spent
    <3>. QED BY <1>1, <3>1, OneLess
  <2>5. Cardinality(Lost') \in Nat /\ Cardinality(Lost') <= Cardinality(Lost) + 1
    BY <1>2, <2>3, OneMore
  <2>6. Cardinality(Lost') <= Cardinality(Spent')
    BY <1>1, <1>2, <1>3, <2>4, <2>5
  <2>. QED BY <1>4, <1>5, <2>2, <2>5, <2>6
<1>10. CASE GetsOne
  <2>0. PICK p \in Preg, k \in 1 .. Len(code) : \E a :
              /\ Goes(k) /\ code[k].opcode \in {"CMP", "NOP", "HALT"}
              /\ Homes(p)' = Homes(p) \cup {a}
              /\ \A q \in Preg \ {p} : Homes(q)' = Homes(q)
    BY <1>10 DEF GetsOne
  <2>1. PICK a : /\ Goes(k) /\ code[k].opcode \in {"CMP", "NOP", "HALT"}
                 /\ Homes(p)' = Homes(p) \cup {a}
                 /\ \A q \in Preg \ {p} : Homes(q)' = Homes(q)
    BY <2>0
  <2>2. Homes(0)' \subseteq Homes(0) \cup {a}
    <3>1. CASE p = 0
      BY <2>1, <3>1
    <3>2. CASE p # 0
      BY <1>2, <2>1, <3>2
    <3>. QED BY <3>1, <3>2
  <2>3. Lost' \subseteq Lost
    BY <2>1 DEF Lost
  <2>4. Cardinality(Puts) + 1 <= Cardinality(Puts')
    <3>1. k \in Puts' /\ k \notin Puts
      BY <2>1 DEF Goes, Puts
    <3>. QED BY <1>1, <3>1, OneLess
  <2>5. Cardinality(Homes(0)') \in Nat /\ Cardinality(Homes(0)') <= Cardinality(Homes(0)) + 1
    BY <1>2, <2>2, OneMore
  <2>6. Cardinality(Homes(0)') <= 1 + Cardinality(Puts')
    BY <1>1, <1>2, <1>3, <2>4, <2>5
  <2>. QED BY <1>4, <1>6, <2>3, <2>5, <2>6
<1>11. CASE DropsOne
  <2>1. PICK U : U = {p \in Preg \ {0} : \A k \in FreeSlots : flQueue[k] # p}
    OBVIOUS
  <2>2. Cardinality(U) + 1 <= Cardinality(Homes(0))
    BY <1>11, <2>1, FullListMisses DEF DropsOne
  <2>3. Lost' \subseteq U
    <3>1. ASSUME NEW p \in Preg \ {0}, Homes(p)' = {}, NEW k \in FreeSlots, flQueue[k] = p
          PROVE  FALSE
      <4>1. <<"free", k>> \in Homes(p) /\ <<"free", k>> # <<"IUforward", 0>>
        BY <3>1, HoldIs DEF InList
      <4>2. <<"free", k>> \in Homes(p)'
        BY <1>11, <4>1 DEF DropsOne
      <4>. QED BY <3>1, <4>2
    <3>. QED BY <2>1, <3>1 DEF Lost
  <2>4. IsFiniteSet(U) /\ Cardinality(U) \in Nat
    <3>1. IsFiniteSet(Preg)
      BY PregFinite
    <3>. QED BY <2>1, <3>1, NotMore
  <2>5. Cardinality(Lost') \in Nat /\ Cardinality(Lost') <= Cardinality(U)
    BY <2>3, <2>4, NotMore
  <2>6. Cardinality(Lost') <= Cardinality(Spent')
    BY <1>1, <1>2, <1>3, <2>2, <2>4, <2>5
  <2>7. Homes(0)' \subseteq Homes(0)
    BY <1>2, <1>11 DEF DropsOne
  <2>. QED BY <1>4, <1>5, <2>5, <2>6, <2>7
<1>. QED
  BY <1>7, <1>8, <1>9, <1>10, <1>11, EveryHoldStep

(* At the start every register is in its slot of the free list, P0 too.    *)
LEMMA InitLossesSpent == Init => Flight /\ LossesSpent
<1>. SUFFICES ASSUME Init PROVE Flight /\ LossesSpent
  OBVIOUS
<1>1. TypeInv
  BY InitTypes
<1>2. Len(iq) = 0 /\ 1 .. Len(iq) = {}
  BY DEF Init, IQ!Init
<1>3. ~latch.RD2.has_insn /\ ~latch.IU.has_insn /\ ~latch.IUforward.has_insn
  BY LatchStages DEF Init, LatchStage, Bubble
<1>4. Flight
  BY <1>2, <1>3 DEF Flight, InUnit
<1>5. FreeSlots = 0 .. PREG_FILE_SIZE - 1 /\ \A k \in FreeSlots : flQueue[k] = k
  BY SizesAssumption DEF Init, FL!Loaded, FL!Slot, FreeSlots, RingSlots
<1>6. ASSUME NEW p, NEW a
      PROVE  a \in Homes(p) <=> p \in FreeSlots /\ a = <<"free", p>>
  BY <1>2, <1>3, <1>5, HoldIs DEF InLatch, InList, InQueue, OwnerStage
<1>7. /\ Cardinality(Puts) \in Nat /\ Cardinality(Spent) \in Nat
  <2>1. Len(code) \in Nat
    BY <1>1, LenProperties DEF TypeInv, ControlTypes
  <2>2. IsFiniteSet(1 .. Len(code))
    BY <2>1, FS_Interval
  <2>3. Puts \subseteq 1 .. Len(code) /\ Spent \subseteq 1 .. Len(code)
    BY DEF Puts, Spent, Gone
  <2>. QED BY <2>2, <2>3, NotMore
<1>8. Cardinality(Homes(0)) = 1
  <2>1. Homes(0) = {<<"free", 0>>}
    BY <1>5, <1>6, PregFinite DEF Preg
  <2>. QED BY <2>1, FS_Singleton
<1>9. Cardinality(Lost) = 0
  <2>1. ASSUME NEW p \in Preg \ {0} PROVE <<"free", p>> \in Homes(p)
    BY <1>5, <1>6 DEF Preg
  <2>2. Lost = {}
    BY <2>1 DEF Lost
  <2>. QED BY <2>2, FS_EmptySet
<1>. QED BY <1>4, <1>7, <1>8, <1>9 DEF LossesSpent

(* Who holds a register owns it, and what is dispatched was fetched: the   *)
(* count of the lost registers and of the instructions that may have lost  *)
(* them is that of the property.                                           *)
LEMMA LostAccountedForNow ==
  ASSUME TypeInv, InOrder, LossesSpent
  PROVE  LostAccountedFor
<1>. DEFINE spends == {"MUL", "JALR", "CMP", "NOP", "HALT"}
            lost == {p \in Preg \ {0} : Owners(p) = {}}
            spent == {k \in 1 .. Len(code) : code[k].opcode \in spends /\ 3996 + 4 * k < pc}
<1>1. lost \subseteq Lost
  <2>1. ASSUME NEW p, NEW a \in Homes(p) PROVE a \in Owners(p)
    <3>1. InLatch(p, a) \/ InList(p, a) \/ InQueue(p, a)
      BY HoldIs
    <3>. QED BY <3>1, OwnerIs DEF InLatch, InList, InQueue, FreeSlots
  <2>. QED BY <2>1 DEF Lost
<1>2. Len(code) \in Nat
  BY LenProperties DEF TypeInv, ControlTypes
<1>3. Spent \subseteq spent
  <2>1. Front <= pc /\ Front \in Int /\ pc \in Int
    <3>1. latch.DR1 \in Latch /\ latch.RD2 \in Latch
      BY LatchStages DEF TypeInv, LatchTypes, LatchesFit
    <3>2. latch.DR1.pc \in Int /\ latch.RD2.pc \in Int
      BY <3>1, InsnPcIsInt DEF Latch
    <3>3. pc \in Int
      BY <1>2 DEF InOrder, FrontOrder
    <3>. QED BY <3>2, <3>3 DEF Front, InOrder, FrontOrder
  <2>2. ASSUME NEW k \in Spent PROVE k \in spent
    <3>1. /\ k \in 1 .. Len(code) /\ 3996 + 4 * k < Front
          /\ code[k].opcode \in spends
      BY DEF Spent, Gone
    <3>2. 3996 + 4 * k < pc
      BY <1>2, <2>1, <3>1
    <3>. QED BY <3>1, <3>2
  <2>. QED BY <2>2
<1>4. IsFiniteSet(spent)
  <2>1. IsFiniteSet(1 .. Len(code))
    BY <1>2, FS_Interval
  <2>2. spent \subseteq 1 .. Len(code)
    OBVIOUS
  <2>. QED BY <2>1, <2>2, NotMore
<1>5. /\ Cardinality(spent) \in Nat /\ Cardinality(Spent) \in Nat
      /\ Cardinality(Spent) <= Cardinality(spent)
  <2>. HIDE DEF spent
  <2>. QED BY <1>3, <1>4, NotMore
<1>6. /\ Cardinality(lost) \in Nat /\ Cardinality(Lost) \in Nat
      /\ Cardinality(lost) <= Cardinality(Lost)
  <2>1. IsFiniteSet(Lost)
    BY PregFinite, NotMore DEF Lost
  <2>. QED BY <1>1, <2>1, NotMore
<1>7. Cardinality(lost) <= Cardinality(spent)
  <2>1. Cardinality(Lost) <= Cardinality(Spent)
    BY DEF LossesSpent
  <2>. HIDE DEF lost, spent
  <2>. QED BY <1>5, <1>6, <2>1
<1>. QED BY <1>7 DEF LostAccountedFor

(* In a program without branches a physical register that nothing holds    *)
(* any more was lost to an instruction of its own: a product or a JALR,    *)
(* whose register is never put back, or an instruction that put back a P0  *)
(* it had not taken, for which a full free list dropped another one.       *)
THEOREM LostAccountedForHolds == Spec /\ BranchFree => []LostAccountedFor
<1>. DEFINE Inv == InOrder /\ Flight /\ OwnedOnce /\ LossesSpent
<1>1. Init => Inv
  BY InitInOrder, InitOwnedOnce, InitLossesSpent
<1>2. TypeInv /\ TypeInv' /\ Schedule /\ IqShape /\ BranchFree /\ Inv /\ [Next]_vars
      => BranchFree' /\ Inv'
  <2>. SUFFICES ASSUME TypeInv, TypeInv', Schedule, IqShape, BranchFree, Inv, [Next]_vars
                PROVE  BranchFree' /\ Inv'
    OBVIOUS
  <2>1. code' = code /\ BranchFree'
    BY CodeKept
  <2>2. InOrder' /\ OwnedOnce'
    BY InOrderKept, OwnersKept
  <2>3. Flight'
    BY <2>1, FlightKept
  <2>4. LossesSpent'
    BY <2>1, LossesSpentKept
  <2>. QED BY <2>1, <2>2, <2>3, <2>4
<1>3. TypeInv /\ Inv => LostAccountedFor
  BY LostAccountedForNow
<1>. HIDE DEF Inv
<1>. QED
  BY <1>1, <1>2, <1>3, TypesInvariant, ShapeInvariant, PTL DEF Spec
=============================================================================
