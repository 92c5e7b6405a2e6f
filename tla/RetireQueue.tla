---------------------------- MODULE RetireQueue ----------------------------
(***************************************************************************)
(* What a reorder buffer promises: instructions enter in program order     *)
(* while there is room, get their results in any order, and leave in the   *)
(* order they entered, each one only once it has a result and with the     *)
(* result it got since it entered.  ReorderBuffer (rob.c) on its own and   *)
(* the whole processor (ApexCpu) are both shown to implement it.           *)
(***************************************************************************)
EXTENDS Integers, Sequences

CONSTANTS
  Insn,      \* what identifies an instruction; insn.pc is where it is in the code
  Result,    \* what a functional unit may compute
  Capacity,  \* how many instructions there is room for
  NoResult   \* stands for a result that has not come, none of Result

VARIABLE q   \* the instructions in flight, the oldest first, with their results

Empty == q = << >>

(* One more instruction, without a result.                                 *)
Enter == /\ Len(q) < Capacity
         /\ Len(q') = Len(q) + 1
         /\ q'[Len(q')] \in [insn : Insn, result : {NoResult}]
         /\ q' = Append(q, q'[Len(q')])

(* A result comes for some instructions in flight fetched from one pc: a   *)
(* loop may have several of them in flight.                                *)
Complete ==
  /\ Len(q') = Len(q)
  /\ \A k \in 1 .. Len(q) : q'[k] # q[k] =>
       /\ q'[k].insn = q[k].insn
       /\ q'[k].result \in Result
       /\ \A j \in 1 .. Len(q) : q'[j] # q[j] =>
            /\ q[j].insn.pc = q[k].insn.pc
            /\ q'[j].result = q'[k].result

Retire == /\ q # << >>
          /\ q[1].result # NoResult
          /\ q' = Tail(q)

Next == Enter \/ Complete \/ Retire

Spec == Empty /\ [][Next]_q
=============================================================================
