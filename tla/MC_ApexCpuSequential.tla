------------------------ MODULE MC_ApexCpuSequential ------------------------
(* Programs for the processor at the sizes of apex_macros.h.                *)
EXTENDS MC_ApexCpu, ApexCpuSequential

(* The distances a program has to keep.  An instruction gets the result of *)
(* the one k places in front of it by one of two ways: from the register   *)
(* if k >= 4, or, with a register tag in its entry of the issue queue, by  *)
(* the forwarding stage, which finds it there only if k = 2; the data of a *)
(* store waits in the load/store queue and may come from k = 1 as well (at *)
(* k = 3 it waits for ever).  The result must be one of the integer unit.  *)
(* CMP and NOP forward to P0, which is taken for the tag of an instruction *)
(* that has none, two places behind one of them.  A memory instruction     *)
(* that takes a slot of the load/store queue again has a valid address     *)
(* before it is calculated (AddressIsCalculated in ApexCpuClaims): a load  *)
(* goes to memory with address 0 as soon as it is issued, a store does     *)
(* when the oldest instruction is one that had the same slot, four places  *)
(* in front of it.  A multiplication behind another one may wait for ever. *)
ByIU     == {"ADD", "SUB", "AND", "OR", "XOR", "MOVC", "ADDL", "SUBL"}
Memory   == {"LOAD", "STORE"}
Operands(i) ==
  CASE i.opcode \in TwoSource \cup {"CMP"} -> {[reg |-> i.rs1, near |-> {2}], [reg |-> i.rs2, near |-> {2}]}
    [] i.opcode = "STORE"   -> {[reg |-> i.rs1, near |-> {1, 2}], [reg |-> i.rs2, near |-> {2}]}
    [] i.opcode \in {"ADDL", "SUBL", "LOAD"} -> {[reg |-> i.rs1, near |-> {}]}
    [] OTHER -> {}

Producers(p, j, r) == {i \in 1 .. j - 1 : p[i].opcode \in HasDest /\ p[i].rd = r}
MaxOf(S) == CHOOSE x \in S : \A y \in S : y <= x

FarEnough(p) ==
  /\ \A j \in DOMAIN p : \A o \in Operands(p[j]) :
       LET from == Producers(p, j, o.reg)
           i    == MaxOf(from)
       IN  /\ from # {}
           /\ p[i].opcode \in ByIU
           /\ j - i >= 4 \/ j - i \in o.near
  /\ \A j \in 3 .. Len(p) :
       p[j].opcode \in {"ADDL", "SUBL", "LOAD"} => p[j - 2].opcode \notin {"CMP", "NOP"}
  /\ \A j \in DOMAIN p :
       LET before == {i \in 1 .. j - 1 : p[i].opcode \in Memory}
           apart  == IF before = {} THEN 0 ELSE j - MaxOf(before)
       IN  /\ p[j].opcode = "LOAD" => apart <= 3
           /\ p[j].opcode = "STORE" => apart # 4
  /\ \A i, j \in DOMAIN p : p[i].opcode = "MUL" /\ p[j].opcode = "MUL" => i = j

(* Every body of three instructions that keeps the distances, and pairs of *)
(* memory instructions further apart.                                      *)
Prologue == <<Const(0, 0), Const(3, 2), Const(1, 3), Const(2, 1), Const(0, 2)>>
Kinds == {I("ADD", 1, 1, 2, 0), I("SUB", 2, 3, 1, 0), I("XOR", 2, 1, 2, 0), I("OR", 1, 0, 3, 0),
          I("MUL", 0, 3, 3, 0),
          I("ADDL", 2, 1, 0, 3), I("SUBL", 1, 2, 0, 1), Const(1, 4),
          I("LOAD", 0, 3, 0, 1), I("STORE", 0, 1, 3, 1), I("STORE", 0, 2, 3, 0), I("CMP", 0, 1, 2, 0), NOP}
Access  == {I("LOAD", 0, 3, 0, 1), I("STORE", 0, 1, 3, 1), I("STORE", 0, 2, 3, 1)}
Between == {<<a>> \o n : a \in {I("MUL", 0, 3, 3, 0), Const(0, 4)},
                         n \in {<<Const(0, 1)>>, <<Const(0, 1), Const(0, 3)>>,
                                <<NOP, Const(0, 3), Const(0, 1)>>}}
Straights == {p \in {Prologue \o <<a, b, c, HALT>> : a, b, c \in Kinds}
                      \cup {Prologue \o <<Const(0, 3), a>> \o n \o <<b, HALT>> :
                               a, b \in Access, n \in Between} : FarEnough(p)}

(* A loop that counts down or up and branches back, and a forward branch;  *)
(* what stands in the delay slots and on the path not taken varies.        *)
Slot == {I("STORE", 0, 2, 3, 1), I("ADD", 0, 3, 3, 0), NOP}
Loops ==
  {<<Const(0, 0), Const(2, 1), Const(1, n), Const(3, 2), Const(0, 2), Const(0, 1),
     I("SUB", 1, 1, 2, 0), a, To("BNZ", -8), slot, HALT>> :
       n \in {1, 3}, slot \in Slot, a \in {I("STORE", 0, 1, 3, 0), I("XOR", 0, 2, 3, 0), NOP}}
  \cup
  {<<Const(0, 0), Const(2, 1), Const(1, 0), Const(3, 1), Const(0, 2), Const(0, 1),
     I("ADD", 1, 1, 2, 0), I("STORE", 0, 1, 3, 0), I("CMP", 0, 1, 3, 0), To("BNP", -12), a, b, HALT>> :
       a \in Slot, b \in Slot \ {I("STORE", 0, 2, 3, 1)}}
  \cup
  {<<Const(0, 0), Const(3, 1), Const(1, n), Const(2, 1), Const(0, 2), Const(0, 1),
     I("CMP", 0, 1, 3, 0), To(op, 20), a, I("STORE", 0, 1, 3, 0), NOP, NOP,
     I("SUB", 2, 3, 1, 0), NOP, I("STORE", 0, 2, 3, 1), HALT>> :
       n \in {0, 2}, op \in {"BP", "BNP", "BNZ"}, a \in Slot}

MCScheduled(p) == p \in Loops \/ FarEnough(p)

SequentialPrograms == Straights \cup Loops \cup LivePrograms
=============================================================================
