--------------------------- MODULE FreeListProofs ---------------------------
(***************************************************************************)
(* The free list, proved for every number of physical registers: its type  *)
(* invariant, what the filling loop leaves behind, and that it implements  *)
(* a bounded first-in first-out queue.                                     *)
(***************************************************************************)
EXTENDS FreeList, CircularIndexProofs, SequenceTheorems, TLAPS

(* While the list is being filled, slot i holds register i.                *)
FillInv == loaded <= PREG_FILE_SIZE => \A i \in 0 .. loaded - 1 : flQueue[i] = i

IInv == TypeOK /\ IndexInv /\ FillInv

LEMMA InitInv == Init => IInv
  BY PregFileSizeAssumption DEF Init, IInv, TypeOK, IndexInv, FillInv, Slot, Preg

(* A register that exists may be put into the list in any state of it.     *)
LEMMA PutKeepsTypes ==
  ASSUME TypeOK, IndexInv, NEW p \in Preg, put_physicalRegister_inFL(p)
  PROVE  /\ flQueue' \in [Slot -> Preg]
         /\ FL_head' \in -1 .. PREG_FILE_SIZE - 1
         /\ FL_tail' \in -1 .. PREG_FILE_SIZE - 1
         /\ FL_head' = -1 <=> FL_tail' = -1
<1>1. CASE FL_Full
  BY <1>1 DEF put_physicalRegister_inFL, flVars, TypeOK, IndexInv
<1>2. CASE ~FL_Full
  <2>1. FL_tail' \in Slot /\ FL_head' \in Slot
    BY <1>2, RingNext, PregFileSizeAssumption
    DEF put_physicalRegister_inFL, TypeOK, IndexInv, Slot
  <2>2. flQueue' = [flQueue EXCEPT ![FL_tail'] = p]
    BY <1>2 DEF put_physicalRegister_inFL
  <2>. QED
    BY <2>1, <2>2, PregFileSizeAssumption DEF TypeOK, Slot
<1>. QED BY <1>1, <1>2

LEMMA LoadStep == IInv /\ Load => IInv'
<1>. SUFFICES ASSUME IInv, Load PROVE IInv'
  OBVIOUS
<1>. USE PregFileSizeAssumption
<1>1. CASE loaded = PREG_FILE_SIZE
  (* The extra call: the list is full and nothing but the counter moves.   *)
  <2>1. FL_Full
    BY <1>1 DEF IInv, TypeOK, IndexInv, FL_Full
  <2>2. UNCHANGED flVars
    BY <2>1 DEF Load, put_physicalRegister_inFL
  <2>. QED
    BY <1>1, <2>2 DEF Load, IInv, TypeOK, IndexInv, FillInv, flVars
<1>2. CASE loaded < PREG_FILE_SIZE
  <2>1. ~FL_Full
    BY <1>2 DEF IInv, TypeOK, IndexInv, FL_Full
  <2>2. FL_head' = 0 /\ FL_tail' = loaded
    BY <1>2, <2>1, RingNext DEF Load, put_physicalRegister_inFL, IInv, TypeOK, IndexInv
  <2>3. flQueue' = [flQueue EXCEPT ![loaded] = loaded]
    BY <2>1, <2>2 DEF Load, put_physicalRegister_inFL
  <2>4. loaded \in Slot /\ loaded \in Preg
    BY <1>2 DEF IInv, TypeOK, Slot, Preg
  <2>5. TypeOK' /\ IndexInv'
    BY <1>2, <2>2, <2>3, <2>4 DEF Load, IInv, TypeOK, IndexInv, Slot
  <2>6. FillInv'
    BY <1>2, <2>3, <2>4 DEF Load, IInv, TypeOK, FillInv, Slot
  <2>. QED BY <2>5, <2>6 DEF IInv
<1>. QED
  BY <1>1, <1>2 DEF Load, IInv, TypeOK

LEMMA PutStep == IInv /\ Put => IInv'
<1>. SUFFICES ASSUME IInv, NEW p \in Preg, Ready, put_physicalRegister_inFL(p), UNCHANGED loaded
             PROVE  IInv'
  BY DEF Put
<1>. QED
  BY PutKeepsTypes, PregFileSizeAssumption DEF IInv, TypeOK, IndexInv, FillInv, Ready

LEMMA GetStep == IInv /\ Get => IInv'
  BY RingNext, PregFileSizeAssumption
  DEF Get, get_free_physical_register, checkEmpty_FL, IInv, TypeOK, IndexInv, FillInv, Ready

LEMMA NextInv == IInv /\ [Next]_vars => IInv'
<1>1. IInv /\ UNCHANGED vars => IInv'
  BY DEF vars, IInv, TypeOK, IndexInv, FillInv
<1>. QED
  BY <1>1, LoadStep, PutStep, GetStep DEF Next

LEMMA Inductive == Spec => []IInv
  BY InitInv, NextInv, PTL DEF Spec

(* For every number of registers the list only ever holds registers that   *)
(* exist, so the extra call of the filling loop is harmless.               *)
THEOREM TypeCorrect == Spec => []TypeOK
<1>1. IInv => TypeOK
  BY DEF IInv
<1>. QED BY <1>1, Inductive, PTL

(* FL_head and FL_tail say "empty" together.                               *)
THEOREM IndicesAgree == Spec => []IndexInv
<1>1. IInv => IndexInv
  BY DEF IInv
<1>. QED BY <1>1, Inductive, PTL

(* The filling loop leaves every register free exactly once.               *)
THEOREM LoadCorrect == Spec => LoadFillsList
<1>. DEFINE FillsList == Ready' /\ ~Ready => Loaded'
<1>1. IInv /\ [Next]_vars => [FillsList]_vars
  <2>. SUFFICES ASSUME IInv, Next, Ready', ~Ready
               PROVE  Loaded'
    BY DEF vars
  <2>. USE PregFileSizeAssumption
  <2>1. Load /\ loaded = PREG_FILE_SIZE
    BY DEF Next, Load, Put, Get, Ready, IInv, TypeOK
  <2>2. FL_Full
    BY <2>1 DEF IInv, TypeOK, IndexInv, FL_Full
  <2>3. UNCHANGED flVars
    BY <2>1, <2>2 DEF Load, put_physicalRegister_inFL
  <2>4. Loaded
    BY <2>1 DEF Loaded, IInv, TypeOK, IndexInv, FillInv, Slot
  <2>. QED BY <2>3, <2>4 DEF Loaded, flVars
<1>. QED
  BY <1>1, Inductive, PTL DEF Spec, LoadFillsList

----------------------------------------------------------------------------
(* The refinement.  Contents is the queue; it only changes when an element *)
(* enters at the back or leaves at the front.                              *)

LEMMA ContentsIsSeq ==
  ASSUME TypeOK, IndexInv
  PROVE  /\ RingIndices(FL_head, FL_tail, PREG_FILE_SIZE)
         /\ Contents \in Seq(Preg)
         /\ Len(Contents) = Count
         /\ Count \in 0 .. PREG_FILE_SIZE
<1>1. RingIndices(FL_head, FL_tail, PREG_FILE_SIZE)
  BY DEF TypeOK, IndexInv, RingIndices
<1>2. Count \in 0 .. PREG_FILE_SIZE
  BY <1>1, RingCountBounds, PregFileSizeAssumption DEF Count
<1>3. \A k \in 1 .. Count : flQueue[RingSlot(FL_head, k, PREG_FILE_SIZE)] \in Preg
  BY <1>1, RingSlotInUse, PregFileSizeAssumption DEF Count, TypeOK, Slot
<1>4. Contents \in [1 .. Count -> Preg]
  BY <1>3 DEF Contents
<1>. QED BY <1>1, <1>2, <1>4, SeqDef, LenProperties

LEMMA PutAppends ==
  ASSUME TypeOK, IndexInv, NEW p \in Preg, put_physicalRegister_inFL(p)
  PROVE  UNCHANGED Contents \/ Fifo!Enqueue(p)
<1>. USE PregFileSizeAssumption
<1>1. CASE FL_Full
  BY <1>1 DEF put_physicalRegister_inFL, flVars, Contents, Count
<1>2. CASE ~FL_Full
  <2>1. /\ FL_head' = IF FL_head = -1 THEN 0 ELSE FL_head
        /\ FL_tail' = (FL_tail + 1) % PREG_FILE_SIZE
        /\ flQueue' = [flQueue EXCEPT ![FL_tail'] = p]
    BY <1>2 DEF put_physicalRegister_inFL
  <2>2. Count < PREG_FILE_SIZE
    BY <1>2, ContentsIsSeq, RingCountBounds DEF FL_Full, Count
  <2>3. /\ FL_tail' \in Slot
        /\ Count' = Count + 1
        /\ FL_tail' \notin RingSlots(FL_head, FL_tail, PREG_FILE_SIZE)
        /\ RingSlot(FL_head', Count + 1, PREG_FILE_SIZE) = FL_tail'
        /\ \A k \in 1 .. Count : RingSlot(FL_head', k, PREG_FILE_SIZE)
                                 = RingSlot(FL_head, k, PREG_FILE_SIZE)
    BY <2>1, <2>2, ContentsIsSeq, RingInsert DEF Count, Slot
  <2>4. ASSUME NEW k \in 1 .. Count
        PROVE  Contents'[k] = Contents[k]
    <3>1. /\ RingSlot(FL_head, k, PREG_FILE_SIZE) \in Slot
          /\ RingSlot(FL_head, k, PREG_FILE_SIZE) # FL_tail'
      BY <2>3, ContentsIsSeq, RingSlotInUse DEF Count, Slot
    <3>2. k \in 1 .. Count'
      BY <2>3, ContentsIsSeq
    <3>. QED BY <2>1, <2>3, <3>1, <3>2 DEF Contents, TypeOK
  <2>5. Contents'[Count + 1] = p
    BY <2>1, <2>3, ContentsIsSeq DEF Contents, TypeOK
  <2>6. Contents' = Append(Contents, p)
    <3>1. Contents' = [k \in 1 .. Count + 1 |-> Contents'[k]]
      BY <2>3 DEF Contents
    <3>2. \A k \in 1 .. Count + 1 : Contents'[k] = IF k \in 1 .. Count THEN Contents[k] ELSE p
      BY <2>4, <2>5, ContentsIsSeq
    <3>3. /\ Append(Contents, p) \in Seq(Preg)
          /\ Len(Append(Contents, p)) = Count + 1
          /\ \A k \in 1 .. Count : Append(Contents, p)[k] = Contents[k]
          /\ Append(Contents, p)[Count + 1] = p
      BY ContentsIsSeq, AppendProperties
    <3>4. Append(Contents, p) = [k \in 1 .. Count + 1 |-> Append(Contents, p)[k]]
      <4>. DEFINE longer == Append(Contents, p)
      <4>1. longer \in [1 .. Len(longer) -> Preg]
        BY <3>3, LenProperties
      <4>2. longer \in [1 .. Count + 1 -> Preg]
        BY <3>3, <4>1
      <4>. HIDE DEF longer
      <4>. QED BY <4>2 DEF longer
    <3>5. \A k \in 1 .. Count + 1 : Append(Contents, p)[k] = IF k \in 1 .. Count THEN Contents[k] ELSE p
      BY <3>3, ContentsIsSeq
    <3>. QED BY <3>1, <3>2, <3>4, <3>5
  <2>. QED BY <2>2, <2>6, ContentsIsSeq DEF Fifo!Enqueue
<1>. QED BY <1>1, <1>2

LEMMA GetRemovesFront ==
  ASSUME TypeOK, IndexInv, get_free_physical_register
  PROVE  UNCHANGED Contents \/ Fifo!Dequeue
<1>. USE PregFileSizeAssumption
<1>1. CASE checkEmpty_FL
  BY <1>1 DEF get_free_physical_register, Contents, Count
<1>2. CASE ~checkEmpty_FL
  <2>1. /\ FL_head # -1
        /\ FL_head' = IF FL_head = FL_tail THEN -1 ELSE (FL_head + 1) % PREG_FILE_SIZE
        /\ FL_tail' = IF FL_head = FL_tail THEN -1 ELSE FL_tail
        /\ UNCHANGED flQueue
    BY <1>2 DEF get_free_physical_register, checkEmpty_FL
  <2>2. /\ Count' = Count - 1
        /\ \A k \in 1 .. Count - 1 : RingSlot(FL_head', k, PREG_FILE_SIZE)
                                     = RingSlot(FL_head, k + 1, PREG_FILE_SIZE)
    BY <2>1, ContentsIsSeq, RingRemove DEF Count
  <2>3. Contents # << >>
    BY <2>1, ContentsIsSeq, RingCountBounds DEF Count
  <2>4. \A k \in 1 .. Count - 1 : Contents'[k] = Contents[k + 1]
    BY <2>1, <2>2, ContentsIsSeq DEF Contents
  <2>5. Contents' = Tail(Contents)
    BY <2>2, <2>3, <2>4, ContentsIsSeq DEF Contents
  <2>. QED BY <2>3, <2>5 DEF Fifo!Dequeue
<1>. QED BY <1>1, <1>2

LEMMA StepRefines == IInv /\ [Next]_vars => [Fifo!Next]_Contents
<1>. SUFFICES ASSUME IInv, [Next]_vars PROVE [Fifo!Next]_Contents
  OBVIOUS
<1>1. CASE Load
  <2>1. CASE loaded = PREG_FILE_SIZE
    BY <1>1, <2>1, PregFileSizeAssumption
    DEF Load, IInv, TypeOK, IndexInv, FL_Full, put_physicalRegister_inFL, flVars, Contents, Count
  <2>2. CASE loaded < PREG_FILE_SIZE
    <3>1. loaded \in Preg
      BY <2>2, PregFileSizeAssumption DEF IInv, TypeOK, Preg
    <3>. QED BY <1>1, <3>1, PutAppends DEF Load, IInv, Fifo!Next
  <2>. QED BY <1>1, <2>1, <2>2, PregFileSizeAssumption DEF Load, IInv, TypeOK
<1>2. CASE Put
  BY <1>2, PutAppends DEF Put, IInv, Fifo!Next
<1>3. CASE Get
  BY <1>3, GetRemovesFront DEF Get, IInv, Fifo!Next
<1>4. CASE UNCHANGED vars
  BY <1>4 DEF vars, Contents, Count
<1>. QED BY <1>1, <1>2, <1>3, <1>4 DEF Next

(* For every number of registers the circular array is a bounded queue:    *)
(* registers are handed out in the order they were freed.                  *)
THEOREM Refinement == Spec => ImplementsFifo
<1>1. Init => Fifo!Empty
  BY InitInv, ContentsIsSeq, RingCountBounds, PregFileSizeAssumption
  DEF Init, IInv, Fifo!Empty, Count, Contents, RingCount
<1>. QED
  BY <1>1, Inductive, StepRefines, PTL DEF Spec, ImplementsFifo, Fifo!Spec
=============================================================================
