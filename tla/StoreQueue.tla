----------------------------- MODULE StoreQueue -----------------------------
(***************************************************************************)
(* What a load/store queue promises: memory instructions leave in program  *)
(* order, and a store leaves only with the value of its register, known    *)
(* when it entered or reported since.                                      *)
(***************************************************************************)
EXTENDS Integers, Sequences

CONSTANTS
  Insn,      \* [pc, store, reg]: a memory instruction; reg holds what it stores
  Word,      \* values of a register
  Capacity,  \* how many instructions there is room for
  NoData     \* stands for a value that is not known yet

VARIABLE q   \* the instructions waiting for memory, the oldest first

Empty == q = << >>

(* A load stores nothing: it has no data to wait for and takes none.       *)
Enter(insn, data) ==
  /\ Len(q) < Capacity
  /\ ~insn.store => data = NoData
  /\ q' = Append(q, [insn |-> insn, data |-> data])

Report(reg, value) ==
  q' = [k \in 1 .. Len(q) |->
          IF q[k].insn.store /\ q[k].insn.reg = reg
          THEN [q[k] EXCEPT !.data = value] ELSE q[k]]

Leave == /\ q # << >>
         /\ q[1].insn.store => q[1].data # NoData
         /\ q' = Tail(q)

Next == \/ \E insn \in Insn, data \in Word \cup {NoData} : Enter(insn, data)
        \/ \E reg \in {insn.reg : insn \in Insn}, value \in Word : Report(reg, value)
        \/ Leave

Spec == Empty /\ [][Next]_q
=============================================================================
