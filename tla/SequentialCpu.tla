--------------------------- MODULE SequentialCpu ---------------------------
(***************************************************************************)
(* What a programmer sees of the processor: one instruction after the      *)
(* other reads the registers and the memory its predecessor left and       *)
(* writes its own result.  A taken branch has delay slots, because the     *)
(* processor executes what it has dispatched behind the branch.            *)
(***************************************************************************)
EXTENDS Integers, Sequences

CONSTANTS
  REG_FILE_SIZE, DATA_MEMORY_SIZE,
  Wrap(_),                                 \* arithmetic on words
  BitAnd(_, _), BitOr(_, _), BitXor(_, _)  \* the bitwise operators on words

VARIABLES
  code,       \* the program
  last,       \* the address of the last instruction executed, 0 before the first
  target,     \* where a taken branch goes, and the delay slots still to execute
  regs,
  memory,
  flags       \* what the branches test: [zero, positive]

vars == <<code, last, target, regs, memory, flags>>

NoTarget == [pc |-> 0, slots |-> 0]

(* The instructions behind a taken branch that are executed all the same.  *)
DelaySlots(opcode) == CASE opcode \in {"BNZ", "BP"} -> 1
                        [] opcode = "BNP"           -> 2
                        [] OTHER                    -> 0

Init == /\ last = 0
        /\ target = NoTarget
        /\ regs = [r \in 0 .. REG_FILE_SIZE - 1 |-> 0]
        /\ memory = [a \in 0 .. DATA_MEMORY_SIZE - 1 |-> 0]
        /\ flags = [zero |-> FALSE, positive |-> FALSE]

(* The next instruction and its operands.                                  *)
NextPc == IF last = 0 THEN 4000
          ELSE IF target.pc # 0 /\ target.slots = 0 THEN target.pc
          ELSE last + 4

Index(p) == (p - 4000) \div 4 + 1

Insn    == code[Index(NextPc)]
Address == Wrap((IF Insn.opcode = "LOAD" THEN regs[Insn.rs1] ELSE regs[Insn.rs2]) + Insn.imm)

(* The value of its destination.                                           *)
Result ==
  LET x == regs[Insn.rs1]
      y == regs[Insn.rs2]
  IN  CASE Insn.opcode = "ADD"  -> Wrap(x + y)
        [] Insn.opcode = "SUB"  -> Wrap(x - y)
        [] Insn.opcode = "MUL"  -> Wrap(x * y)
        [] Insn.opcode = "AND"  -> BitAnd(x, y)
        [] Insn.opcode = "OR"   -> BitOr(x, y)
        [] Insn.opcode = "XOR"  -> BitXor(x, y)
        [] Insn.opcode = "ADDL" -> Wrap(x + Insn.imm)
        [] Insn.opcode = "SUBL" -> Wrap(x - Insn.imm)
        [] Insn.opcode = "MOVC" -> Insn.imm
        [] Insn.opcode = "LOAD" -> memory[Address]

Arithmetic == {"ADD", "SUB", "MUL", "ADDL", "SUBL", "MOVC"}
Computes   == Arithmetic \cup {"AND", "OR", "XOR", "LOAD"}

NextFlags ==
  IF Insn.opcode \in Arithmetic THEN [flags EXCEPT !.zero = (Result = 0)]
  ELSE IF Insn.opcode = "CMP"
  THEN [zero     |-> flags.zero \/ regs[Insn.rs1] = regs[Insn.rs2],
        positive |-> flags.positive \/ regs[Insn.rs1] > regs[Insn.rs2]]
  ELSE flags

NextTarget ==
  IF \/ Insn.opcode = "BZ"  /\ flags.zero
     \/ Insn.opcode = "BNZ" /\ ~flags.zero
     \/ Insn.opcode = "BP"  /\ flags.positive
     \/ Insn.opcode = "BNP" /\ ~flags.positive
  THEN [pc |-> NextPc + Insn.imm, slots |-> DelaySlots(Insn.opcode)]
  ELSE IF target.slots > 0 THEN [target EXCEPT !.slots = @ - 1]
  ELSE NoTarget

----------------------------------------------------------------------------
Halted == last # 0 /\ code[Index(last)].opcode = "HALT"

Execute ==
  /\ ~Halted
  /\ Index(NextPc) \in 1 .. Len(code)
  /\ last' = NextPc
  /\ target' = NextTarget
  /\ flags' = NextFlags
  /\ regs' = IF Insn.opcode \in Computes THEN [regs EXCEPT ![Insn.rd] = Result] ELSE regs
  /\ memory' = IF Insn.opcode = "STORE"
               THEN [memory EXCEPT ![Address] = regs[Insn.rs1]] ELSE memory
  /\ UNCHANGED code

Spec == Init /\ [][Execute]_vars
=============================================================================
