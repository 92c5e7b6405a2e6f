----------------------------- MODULE IssueQueue -----------------------------
(***************************************************************************)
(* issue_queue.c: the linked list of dispatched instructions that wait for *)
(* a functional unit, and the counter curr_iqSize that DR1 compares with   *)
(* the size of the queue.  The list is a sequence here.                    *)
(*                                                                         *)
(* An entry is allocated by APEX_issue, one entry per cycle, and only then *)
(* offered to the units.  issue_Instruction keeps no memory of what it has *)
(* issued: an entry it fails to unlink is issued again.                    *)
(***************************************************************************)
EXTENDS Integers, Sequences, FiniteSetsExt

CONSTANTS
  iq_SIZE,   \* the size DR1 compares curr_iqSize with
  PregTag,   \* the values of a physical register field
  Word,      \* values of a register
  Opcode,    \* the operation codes
  MaxForgotten   \* bound: issues that may leave their entry in the list

ASSUME IqSizeAssumption == iq_SIZE \in Nat \ {0}
ASSUME IqDomainAssumption == 0 \in PregTag

VARIABLES
  iq,          \* the list behind iqPtr_head, the oldest entry first
  curr_iqSize  \* incremented by iqEntry, decremented by issue_Instruction

iqVars == <<iq, curr_iqSize>>

(* The units: 0 for integers, 1 for multiplication, 2 for branches.        *)
Unit == 0 .. 2

----------------------------------------------------------------------------
(* The operations of issue_queue.c *)

FullOffByOne == curr_iqSize + 1 > iq_SIZE

is_IQ_Full == ~(curr_iqSize + 1 <= iq_SIZE - 1)

(* The entry is appended, marked ready whatever the valid bits said.       *)
iqEntry(insn, fu) ==
  /\ curr_iqSize' = curr_iqSize + 1
  /\ iq' = Append(iq, [allocatedBit |-> 0, pc |-> insn.pc, opcode |-> insn.opcode,
                       fuType |-> fu, imm |-> insn.imm,
                       src1Ready |-> 1, prs1 |-> insn.prs1, prs1Value |-> insn.rs1_value,
                       src2Ready |-> 1, prs2 |-> insn.prs2, prs2Value |-> insn.rs2_value,
                       dest |-> insn.prd])

(* Mutant: the second source is not updated.                               *)
UpdateFirstSource(prd, result) ==
  /\ iq' = [k \in 1 .. Len(iq) |->
              [iq[k] EXCEPT !.prs1Value = IF iq[k].prs1 = prd THEN result ELSE @,
                            !.src1Ready = IF iq[k].prs1 = prd THEN 1 ELSE @]]
  /\ UNCHANGED curr_iqSize

(* Every entry that waits for prd, and every one whose tag is a leftover.  *)
IQupdate(prd, result) ==
  /\ iq' = [k \in 1 .. Len(iq) |->
              [iq[k] EXCEPT !.prs1Value = IF iq[k].prs1 = prd THEN result ELSE @,
                            !.src1Ready = IF iq[k].prs1 = prd THEN 1 ELSE @,
                            !.prs2Value = IF iq[k].prs2 = prd THEN result ELSE @,
                            !.src2Ready = IF iq[k].prs2 = prd THEN 1 ELSE @]]
  /\ UNCHANGED curr_iqSize

(* The first loop of APEX_issue: the oldest entry that is not allocated    *)
(* becomes so.                                                             *)
WithNextAllocated ==
  LET waiting == {k \in 1 .. Len(iq) : iq[k].allocatedBit = 0}
  IN  IF waiting = {} THEN iq ELSE [iq EXCEPT ![Min(waiting)].allocatedBit = 1]

Allocated(q) == {k \in 1 .. Len(q) : /\ q[k].allocatedBit = 1
                                     /\ q[k].src1Ready = 1
                                     /\ q[k].src2Ready = 1}

(* Mutant: an allocated entry of another unit does not end the search.     *)
AnyOffered(q, fu) == \E k \in Allocated(q) : q[k].fuType = fu

(* issue_Instruction(fu) returns an entry: one is allocated, and none that *)
(* is needs another unit.                                                  *)
Offered(q, fu) == /\ Allocated(q) # {}
                  /\ \A k \in Allocated(q) : q[k].fuType = fu

(* The entry it returns, the newest of the allocated ones.                 *)
Selected(q) == q[Max(Allocated(q))]

(* Mutants: the list is cut behind the issued entry, so that those in      *)
(* front of it are lost; nothing is unlinked.                              *)
CutBehind(q) == SubSeq(q, Max(Allocated(q)) + 1, Len(q))

NeverUnlink(q) == q

(* What it leaves: prevPtr is the newest allocated entry but the head, so  *)
(* an entry is unlinked only if the head is the one allocated entry;       *)
(* otherwise the list stays as it is.                                      *)
Unlinked(q) == IF Allocated(q) = {1} THEN Tail(q) ELSE q

(* Such an issue makes the counter fall behind the list, without end in    *)
(* the code; the model stops at MaxForgotten.                              *)
WithinBound(q) == Unlinked(q) = q => Len(q) - curr_iqSize < MaxForgotten

----------------------------------------------------------------------------
(* The queue on its own: RD2 enters an instruction when DR1 found room,    *)
(* APEX_issue offers the list to the units that are free.                  *)

Init == iq = << >> /\ curr_iqSize = 0

Enter == \E fu \in Unit, insn \in [pc : {0}, opcode : Opcode, imm : {0}, prs1 : PregTag,
                                   rs1_value : Word, prs2 : PregTag, rs2_value : Word,
                                   prd : {0}] :
           /\ ~is_IQ_Full
           /\ iqEntry(insn, fu)

Update == \E prd \in PregTag, result \in Word : IQupdate(prd, result)

(* At most one unit gets an entry.  The multiplier may be busy.            *)
Issue ==
  \/ /\ \A fu \in {0, 2} : ~Offered(WithNextAllocated, fu)
     /\ iq' = WithNextAllocated
     /\ UNCHANGED curr_iqSize
  \/ \E fu \in Unit : /\ Offered(WithNextAllocated, fu)
                      /\ WithinBound(WithNextAllocated)
                      /\ iq' = Unlinked(WithNextAllocated)
                      /\ curr_iqSize' = curr_iqSize - 1

Next == Enter \/ Update \/ Issue

Spec == Init /\ [][Next]_iqVars

----------------------------------------------------------------------------
(* Properties *)

Entry == [allocatedBit : {0, 1}, pc : Int, opcode : Opcode, fuType : Unit, imm : Int,
          src1Ready : {0, 1}, prs1 : PregTag, prs1Value : Word,
          src2Ready : {0, 1}, prs2 : PregTag, prs2Value : Word, dest : PregTag]

(* iq_SIZE bounds the counter, and never the list.                         *)
TypeOK == /\ iq \in Seq(Entry)
          /\ curr_iqSize \in Int
          /\ curr_iqSize <= iq_SIZE - 1

(* The counter never exceeds the list: DR1 may be told that there is room  *)
(* when there is none, never that there is none when there is.             *)
CounterNeverAhead == curr_iqSize <= Len(iq)

(* Two allocated entries of different units.                               *)
Mixed == \E j, k \in Allocated(iq) : iq[j].fuType # iq[k].fuType

(* Such a queue never issues again: issue_Instruction gives up on the      *)
(* first entry of another unit, for every unit, and the entries stay.      *)
MixedIsForever == [][Mixed => Mixed' /\ curr_iqSize' >= curr_iqSize]_iqVars
=============================================================================
