----------------------------- MODULE MC_ApexCpu -----------------------------
(* Small processors and sets of programs for ApexCpu.                       *)
EXTENDS ApexCpu
LOCAL INSTANCE Bitwise

Unsigned(x) == IF x < 0 THEN x + 2 * (INT_MAX + 1) ELSE x
MCAnd(x, y) == Wrap(Unsigned(x) & Unsigned(y))
MCOr(x, y)  == Wrap(Unsigned(x) | Unsigned(y))
MCXor(x, y) == Wrap(Unsigned(x) ^^ Unsigned(y))

I(op, rd, rs1, rs2, imm) ==
  [opcode |-> op, rd |-> rd, rs1 |-> rs1, rs2 |-> rs2, imm |-> imm]
Const(rd, imm) == I("MOVC", rd, 0, 0, imm)
To(op, imm) == I(op, 0, 0, 0, imm)
HALT == I("HALT", 0, 0, 0, 0)
NOP  == I("NOP", 0, 0, 0, 0)

(* Every program of three instructions of these kinds: results that are    *)
(* needed at once or later, in both registers, both kinds of memory        *)
(* access, and all latencies.                                              *)
Straight == {Const(0, 1), I("ADD", 1, 0, 1, 0), I("SUBL", 0, 1, 0, 2), I("MUL", 0, 1, 0, 0),
             I("LOAD", 1, 0, 0, 1), I("STORE", 0, 0, 1, 0), I("CMP", 0, 0, 1, 0), NOP}
ShortPrograms == {<<a, b, c, HALT>> : a, b, c \in Straight}

(* A register that is taken and never put back, and what comes after it.   *)
JalrPrograms == {<<a, I("JALR", 1, 0, 0, 0), b, HALT>> : a, b \in Straight}

(* Two loads or stores so far apart that the second gets a slot of the     *)
(* load/store queue that the first had, after the first retired.           *)
Accesses == {I("LOAD", 1, 0, 0, 1), I("STORE", 0, 0, 1, 0)}
Fillers == {NOP, Const(0, 1), I("ADDL", 0, 0, 0, 1)}
SpacedPrograms ==
  {<<Const(0, 1), a>> \o [k \in 1 .. n |-> c] \o <<b, HALT>> :
     a, b \in Accesses, c \in Fillers, n \in 7 .. 9}

StraightPrograms == ShortPrograms \cup JalrPrograms \cup SpacedPrograms

(* Programs that are longer than the queues of the processor.              *)
Stalling == {Const(1, 1), I("XOR", 0, 0, 1, 0), I("MUL", 1, 0, 1, 0), I("STORE", 0, 0, 1, 0)}
StallingPrograms == {<<a, b, c, d, HALT>> : a, b, c, d \in Stalling}

(* Loops, forward branches, a branch that leads between two instructions,  *)
(* the instructions without a meaning, and programs that end without a     *)
(* HALT or access memory that does not exist.  There are programs of every *)
(* length Overlay tells apart, and one with an ADD at its end.             *)
Body == {Const(0, 1), Const(0, 0), I("SUBL", 0, 0, 0, 1), I("ADDL", 0, 0, 0, 1),
         I("CMP", 0, 0, 1, 0), I("MUL", 0, 0, 1, 0), I("LOAD", 1, 0, 0, 1),
         I("STORE", 0, 1, 0, 0)}
LoopPrograms ==
  {<<a, b, To(op, -4), HALT>> : a, b \in Body, op \in {"BZ", "BNZ", "BP", "BNP"}}
    \cup {<<a, To(op, 8), b, HALT>> : a, b \in {Const(0, 0), I("SUBL", 0, 0, 0, 1)},
                                          op \in {"BZ", "BNZ", "BP", "BNP"}}
    \cup {<<Const(1, 3), a, I("OR", 1, 0, 1, 0), I("AND", 0, 0, 1, 0), HALT>> :
            a \in {I("DIV", 0, 0, 1, 0), To("JUMP", 4), I("JALR", 1, 1, 0, 4),
                   I("RET", 0, 1, 0, 0)}}
    \cup {<<a, To(op, -4), NOP>> : a \in {Const(0, 0), NOP}, op \in {"BZ", "BNZ"}}
    \cup {<<a, To(op, -6), HALT>> : a \in {Const(0, 0), NOP}, op \in {"BZ", "BNZ"}}
    \cup {<<a, To(op, -4)>> : a \in {Const(0, 0), NOP}, op \in {"BZ", "BNZ"}}
    \cup {<<a, I("SUBL", 1, 0, 0, 1), I("ADD", 0, 0, 1, 0)>> : a \in {Const(0, 1), NOP}}
    \cup {<<Const(0, -3), NOP, NOP, NOP, a, HALT>> :
            a \in {I("LOAD", 1, 0, 0, 0), I("STORE", 0, 1, 0, 0)}}

HazardPrograms == StallingPrograms \cup LoopPrograms

(* Straight-line programs that avoid what can make the processor wait for  *)
(* ever: a multiplication behind another, and a store of a register that   *)
(* was never written or has its value from a multiplication or a load.     *)
Live == {Const(0, 1), I("ADD", 0, 0, 1, 0), I("STORE", 0, 0, 1, 0), I("CMP", 0, 0, 1, 0), NOP}
LivePrograms == {<<Const(0, 1), a, b, c, HALT>> :
                   a, b \in Live,
                   c \in Live \cup {I("MUL", 1, 0, 1, 0), I("LOAD", 1, 0, 0, 1)}}
                  \cup {<<Const(0, 1), m, a, b, HALT>> :
                   a, b \in Live, m \in {I("MUL", 1, 0, 1, 0), I("LOAD", 1, 0, 0, 1)}}
=============================================================================
