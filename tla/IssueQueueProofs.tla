-------------------------- MODULE IssueQueueProofs --------------------------
(***************************************************************************)
(* The issue queue, proved for every size, however long the list grows     *)
(* while the counter forgets: its type invariant, that the counter is      *)
(* never ahead of the list, and that a list with two allocated entries of  *)
(* different units is blocked for good.                                    *)
(***************************************************************************)
EXTENDS IssueQueue, SequenceTheorems, TLAPS

(* What a change of the entries that moves none of them leaves as it is.   *)
Keeps(q, r) ==
  /\ Len(r) = Len(q)
  /\ \A k \in 1 .. Len(q) :
       /\ r[k].fuType = q[k].fuType
       /\ q[k].allocatedBit = 1 => r[k].allocatedBit = 1
       /\ q[k].src1Ready = 1 => r[k].src1Ready = 1
       /\ q[k].src2Ready = 1 => r[k].src2Ready = 1

(* Allocation finds its entry inside the list, or there is none to find.   *)
LEMMA AllocationKeeps ==
  ASSUME iq \in Seq(Entry)
  PROVE  WithNextAllocated \in Seq(Entry) /\ Keeps(iq, WithNextAllocated)
<1>. DEFINE k0 == Min({k \in 1 .. Len(iq) : iq[k].allocatedBit = 0})
            r  == [iq EXCEPT ![k0].allocatedBit = 1]
<1>1. WithNextAllocated = iq \/ WithNextAllocated = r
  BY DEF WithNextAllocated
<1>2. CASE WithNextAllocated = iq
  BY <1>2 DEF Keeps
<1>3. CASE WithNextAllocated = r
  <2>. HIDE DEF k0
  <2>1. /\ Len(iq) \in Nat
        /\ iq \in [1 .. Len(iq) -> Entry]
    BY LenProperties
  <2>2. r = [k \in 1 .. Len(iq) |-> IF k = k0 THEN [iq[k] EXCEPT !.allocatedBit = 1] ELSE iq[k]]
    BY <2>1
  <2>3. \A e \in Entry : /\ [e EXCEPT !.allocatedBit = 1] \in Entry
                         /\ [e EXCEPT !.allocatedBit = 1].allocatedBit = 1
                         /\ [e EXCEPT !.allocatedBit = 1].fuType = e.fuType
                         /\ [e EXCEPT !.allocatedBit = 1].src1Ready = e.src1Ready
                         /\ [e EXCEPT !.allocatedBit = 1].src2Ready = e.src2Ready
    BY DEF Entry
  <2>. HIDE DEF r
  <2>4. r \in [1 .. Len(iq) -> Entry]
    BY <2>1, <2>2, <2>3
  <2>5. r \in Seq(Entry) /\ Len(r) = Len(iq)
    BY <2>1, <2>4, SeqDef, LenProperties
  <2>6. ASSUME NEW k \in 1 .. Len(iq)
        PROVE  /\ r[k].fuType = iq[k].fuType
               /\ iq[k].allocatedBit = 1 => r[k].allocatedBit = 1
               /\ iq[k].src1Ready = 1 => r[k].src1Ready = 1
               /\ iq[k].src2Ready = 1 => r[k].src2Ready = 1
    BY <2>1, <2>2, <2>3
  <2>. QED BY <1>3, <2>5, <2>6 DEF Keeps
<1>. QED BY <1>1, <1>2, <1>3

(* What is unlinked is the head, or nothing.                               *)
LEMMA UnlinkedIs ==
  ASSUME NEW q \in Seq(Entry)
  PROVE  /\ Unlinked(q) \in Seq(Entry)
         /\ Len(Unlinked(q)) \in {Len(q), Len(q) - 1}
<1>1. CASE Allocated(q) = {1}
  <2>1. q # << >>
    BY <1>1, LenProperties DEF Allocated
  <2>. QED BY <1>1, <2>1, HeadTailProperties DEF Unlinked
<1>2. CASE Allocated(q) # {1}
  BY <1>2 DEF Unlinked
<1>. QED BY <1>1, <1>2

LEMMA InitInv == Init => TypeOK /\ CounterNeverAhead
  BY IqSizeAssumption, EmptySeq DEF Init, TypeOK, CounterNeverAhead

LEMMA EnterKeeps ==
  ASSUME TypeOK, CounterNeverAhead, Enter
  PROVE  TypeOK' /\ CounterNeverAhead'
<1>1. PICK fu \in Unit, insn \in [pc : {0}, opcode : Opcode, imm : {0}, prs1 : PregTag,
                                  rs1_value : Word, prs2 : PregTag, rs2_value : Word,
                                  prd : {0}] :
        ~is_IQ_Full /\ iqEntry(insn, fu)
  BY DEF Enter
<1>. DEFINE new == [allocatedBit |-> 0, pc |-> insn.pc, opcode |-> insn.opcode,
                    fuType |-> fu, imm |-> insn.imm,
                    src1Ready |-> 1, prs1 |-> insn.prs1, prs1Value |-> insn.rs1_value,
                    src2Ready |-> 1, prs2 |-> insn.prs2, prs2Value |-> insn.rs2_value,
                    dest |-> insn.prd]
<1>2. new \in Entry
  BY IqDomainAssumption DEF Entry
<1>3. iq' = Append(iq, new) /\ curr_iqSize' = curr_iqSize + 1
  BY <1>1 DEF iqEntry
<1>. HIDE DEF new
<1>4. iq' \in Seq(Entry) /\ Len(iq') = Len(iq) + 1 /\ Len(iq) \in Nat
  BY <1>2, <1>3, AppendProperties, LenProperties DEF TypeOK
<1>5. curr_iqSize' <= iq_SIZE - 1
  BY <1>1, <1>3, IqSizeAssumption DEF is_IQ_Full, TypeOK
<1>. QED BY <1>3, <1>4, <1>5 DEF TypeOK, CounterNeverAhead

(* An update moves nothing and changes neither units nor allocation.       *)
LEMMA UpdateKeeps ==
  ASSUME TypeOK, Update
  PROVE  iq' \in Seq(Entry) /\ Keeps(iq, iq') /\ UNCHANGED curr_iqSize
<1>1. PICK prd \in PregTag, result \in Word : IQupdate(prd, result)
  BY DEF Update
<1>. DEFINE Upd(e) == [e EXCEPT !.prs1Value = IF e.prs1 = prd THEN result ELSE @,
                                !.src1Ready = IF e.prs1 = prd THEN 1 ELSE @,
                                !.prs2Value = IF e.prs2 = prd THEN result ELSE @,
                                !.src2Ready = IF e.prs2 = prd THEN 1 ELSE @]
<1>2. iq' = [k \in 1 .. Len(iq) |-> Upd(iq[k])] /\ UNCHANGED curr_iqSize
  BY <1>1 DEF IQupdate
<1>3. ASSUME NEW e \in Entry
      PROVE  /\ Upd(e) \in Entry
             /\ Upd(e).fuType = e.fuType
             /\ Upd(e).allocatedBit = e.allocatedBit
             /\ e.src1Ready = 1 => Upd(e).src1Ready = 1
             /\ e.src2Ready = 1 => Upd(e).src2Ready = 1
  BY DEF Entry
<1>. HIDE DEF Upd
<1>4. iq \in [1 .. Len(iq) -> Entry] /\ Len(iq) \in Nat
  BY LenProperties DEF TypeOK
<1>5. iq' \in [1 .. Len(iq) -> Entry]
  BY <1>2, <1>3, <1>4
<1>6. iq' \in Seq(Entry) /\ Len(iq') = Len(iq)
  BY <1>4, <1>5, SeqDef, LenProperties
<1>7. Keeps(iq, iq')
  <2>1. ASSUME NEW k \in 1 .. Len(iq)
        PROVE  /\ iq'[k].fuType = iq[k].fuType
               /\ iq[k].allocatedBit = 1 => iq'[k].allocatedBit = 1
               /\ iq[k].src1Ready = 1 => iq'[k].src1Ready = 1
               /\ iq[k].src2Ready = 1 => iq'[k].src2Ready = 1
    BY <1>2, <1>3, <1>4
  <2>. QED BY <1>6, <2>1 DEF Keeps
<1>. QED BY <1>2, <1>6, <1>7

LEMMA IssueKeeps ==
  ASSUME TypeOK, CounterNeverAhead, Issue
  PROVE  TypeOK' /\ CounterNeverAhead'
<1>1. /\ WithNextAllocated \in Seq(Entry)
      /\ Len(WithNextAllocated) = Len(iq)
      /\ Len(iq) \in Nat
  BY AllocationKeeps, LenProperties DEF TypeOK, Keeps
<1>2. \/ iq' = WithNextAllocated /\ UNCHANGED curr_iqSize
      \/ iq' = Unlinked(WithNextAllocated) /\ curr_iqSize' = curr_iqSize - 1
  BY DEF Issue
<1>3. /\ Unlinked(WithNextAllocated) \in Seq(Entry)
      /\ Len(Unlinked(WithNextAllocated)) \in {Len(iq), Len(iq) - 1}
  BY <1>1, UnlinkedIs
<1>. QED BY <1>1, <1>2, <1>3, IqSizeAssumption DEF TypeOK, CounterNeverAhead

LEMMA StepInv == TypeOK /\ CounterNeverAhead /\ [Next]_iqVars => TypeOK' /\ CounterNeverAhead'
<1>. SUFFICES ASSUME TypeOK, CounterNeverAhead, [Next]_iqVars
              PROVE  TypeOK' /\ CounterNeverAhead'
  OBVIOUS
<1>1. CASE Enter
  BY <1>1, EnterKeeps
<1>2. CASE Update
  BY <1>2, UpdateKeeps DEF TypeOK, CounterNeverAhead, Keeps
<1>3. CASE Issue
  BY <1>3, IssueKeeps
<1>4. CASE UNCHANGED iqVars
  BY <1>4 DEF iqVars, TypeOK, CounterNeverAhead
<1>. QED BY <1>1, <1>2, <1>3, <1>4 DEF Next

(* The list holds entries, and DR1's test bounds the counter.              *)
THEOREM TypeCorrect == Spec => []TypeOK
  BY InitInv, StepInv, PTL DEF Spec

(* For every size: the counter is at most the length of the list, so that  *)
(* DR1 never stalls for a place that is free.                              *)
THEOREM CounterHolds == Spec => []CounterNeverAhead
  BY InitInv, StepInv, PTL DEF Spec

----------------------------------------------------------------------------
(* The blocked queue *)

MixedIn(q) == \E j, k \in Allocated(q) : q[j].fuType # q[k].fuType

LEMMA KeptMixed ==
  ASSUME NEW q, NEW r, Keeps(q, r), MixedIn(q)
  PROVE  MixedIn(r)
<1>1. PICK j \in Allocated(q), k \in Allocated(q) : q[j].fuType # q[k].fuType
  BY DEF MixedIn
<1>2. j \in Allocated(r) /\ k \in Allocated(r)
  BY <1>1 DEF Allocated, Keeps
<1>3. r[j].fuType # r[k].fuType
  BY <1>1 DEF Allocated, Keeps
<1>. QED BY <1>2, <1>3 DEF MixedIn

LEMMA MixedNotOffered ==
  ASSUME NEW q, MixedIn(q)
  PROVE  \A fu \in Unit : ~Offered(q, fu)
  BY DEF MixedIn, Offered

LEMMA EnterStaysMixed ==
  ASSUME TypeOK, Enter, MixedIn(iq)
  PROVE  MixedIn(iq') /\ curr_iqSize' >= curr_iqSize
<1>1. PICK e : iq' = Append(iq, e) /\ curr_iqSize' = curr_iqSize + 1
  BY DEF Enter, iqEntry
<1>2. /\ Len(iq) \in Nat
      /\ Len(iq') = Len(iq) + 1
      /\ \A k \in 1 .. Len(iq) : iq'[k] = iq[k]
  BY <1>1, LenProperties DEF TypeOK
<1>3. PICK j \in Allocated(iq), k \in Allocated(iq) : iq[j].fuType # iq[k].fuType
  BY DEF MixedIn
<1>4. j \in Allocated(iq') /\ k \in Allocated(iq') /\ iq'[j].fuType # iq'[k].fuType
  BY <1>2, <1>3 DEF Allocated
<1>5. curr_iqSize' >= curr_iqSize
  BY <1>1 DEF TypeOK
<1>. QED BY <1>4, <1>5 DEF MixedIn

(* For every size, and however long the list: once two allocated entries   *)
(* wait for different units nothing is issued again.                       *)
THEOREM MixedBlocks == Spec => MixedIsForever
<1>1. TypeOK /\ [Next]_iqVars => [Mixed => Mixed' /\ curr_iqSize' >= curr_iqSize]_iqVars
  <2>. SUFFICES ASSUME TypeOK, Next, MixedIn(iq)
                PROVE  MixedIn(iq') /\ curr_iqSize' >= curr_iqSize
    BY DEF Mixed, MixedIn
  <2>1. CASE Enter
    BY <2>1, EnterStaysMixed
  <2>2. CASE Update
    BY <2>2, UpdateKeeps, KeptMixed DEF TypeOK
  <2>3. CASE Issue
    <3>1. MixedIn(WithNextAllocated)
      BY AllocationKeeps, KeptMixed DEF TypeOK
    <3>2. iq' = WithNextAllocated /\ UNCHANGED curr_iqSize
      BY <2>3, <3>1, MixedNotOffered DEF Issue
    <3>. QED BY <3>1, <3>2 DEF TypeOK
  <2>. QED BY <2>1, <2>2, <2>3 DEF Next
<1>. QED
  BY <1>1, TypeCorrect, PTL DEF Spec, MixedIsForever
=============================================================================
