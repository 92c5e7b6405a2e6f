------------------------------ MODULE ApexCpu ------------------------------
(***************************************************************************)
(* apex_cpu.c: the out-of-order pipeline.  APEX_cpu_run calls one function *)
(* per stage, from writeback back to fetch, in every clock cycle; here     *)
(* every stage function is an action and the variable at says which one is *)
(* called next.  The free list, the issue queue, the reorder buffer and    *)
(* the load/store queue are the component modules, whose operators the     *)
(* stages call as the functions of the code do.                            *)
(*                                                                         *)
(* Only the program is chosen (from Programs); from there on the simulator *)
(* is deterministic, except for what lies in front of the array rob and    *)
(* for the user, who may quit after any cycle.                             *)
(***************************************************************************)
EXTENDS CircularIndex, Sequences, FiniteSets

CONSTANTS
  REG_FILE_SIZE,     \* architectural registers
  PREG_FILE_SIZE,    \* physical registers
  iq_SIZE,           \* issue queue, reorder buffer and load/store queue entries
  rob_SIZE,
  lsq_SIZE,
  DATA_MEMORY_SIZE,  \* words of data memory
  INT_MAX,           \* the largest value of a word
  Programs,          \* the programs that may be loaded
  Overlays,          \* the memory layouts considered: values of overlay
  MaxForgotten,      \* bound: issues that may leave their entry in the issue queue
  NoValue,           \* stands for a value that is not there; not one of the code
  BitAnd(_, _), BitOr(_, _), BitXor(_, _)  \* the bitwise operators on words

Word == -INT_MAX - 1 .. INT_MAX
Wrap(x) == ((x + INT_MAX + 1) % (2 * (INT_MAX + 1))) - (INT_MAX + 1)

Reg  == 0 .. REG_FILE_SIZE - 1
Preg == 0 .. PREG_FILE_SIZE - 1

(* An entry of the rename table, and a source tag; -1 is "not renamed".    *)
PregTag == -1 .. PREG_FILE_SIZE - 1

Opcode == {"ADD", "SUB", "MUL", "DIV", "AND", "OR", "XOR", "MOVC", "LOAD", "STORE",
           "BZ", "BNZ", "HALT", "ADDL", "SUBL", "BP", "BNP", "CMP", "NOP", "JUMP",
           "JALR", "RET"}

(* An instruction of the code memory; calloc leaves 0 in the fields the    *)
(* parser does not fill.                                                   *)
Instruction == [opcode : Opcode, rd : Reg, rs1 : Reg, rs2 : Reg, imm : Int]

ASSUME SizesAssumption ==
  /\ {REG_FILE_SIZE, PREG_FILE_SIZE, iq_SIZE, rob_SIZE, lsq_SIZE} \subseteq Nat \ {0}
  /\ DATA_MEMORY_SIZE \in Nat \ {0}
  /\ INT_MAX \in Nat
  /\ MaxForgotten \in Nat
(* What is written over a register is a 1 (see Overwritten).               *)
ASSUME OverlaysAssumption ==
  /\ Overlays \subseteq {"none", "opcode", "rd", "rs1", "imm"}
  /\ Overlays \cap {"rd", "rs1"} # {} => 1 \in Reg
ASSUME BitwiseAssumption ==
  \A x, y \in Word : {BitAnd(x, y), BitOr(x, y), BitXor(x, y)} \subseteq Word
ASSUME NoValueAssumption == NoValue \notin Word
(* A file without a line is refused (file_parser.c:301), and what MOVC     *)
(* puts into a register is a literal an int has room for.                  *)
LiteralFits(insn) == insn.opcode = "MOVC" => insn.imm \in Word
ASSUME ProgramsAssumption ==
  /\ Programs \subseteq Seq(Instruction)
  /\ Programs # {}
  /\ << >> \notin Programs
  /\ \A p \in Programs : \A k \in DOMAIN p : LiteralFits(p[k])

(* What DR1 does with an instruction: read rs1 and rs2, or rs1 only, and   *)
(* take a new register for rd.                                             *)
TwoSource == {"ADD", "SUB", "OR", "AND", "XOR", "MUL"}
OneSource == {"ADDL", "SUBL", "LOAD", "JALR"}
HasDest   == TwoSource \cup OneSource \cup {"MOVC"}

(* The unit RD2 sends an instruction to: 0 integer, 1 multiplier, 2 branch.*)
(* There is no unit for DIV.                                               *)
fuType(opcode) ==
  IF opcode = "MUL" THEN 1
  ELSE IF opcode \in {"BZ", "BNZ", "BP", "BNP", "JUMP", "JALR", "RET"} THEN 2
  ELSE 0

(* The instructions whose result writeback puts into a register.           *)
WritesRegister == TwoSource \cup {"ADDL", "SUBL", "MOVC", "LOAD"}

(* The stages in the order APEX_cpu_run calls them, and what follows each. *)
StageOrder == <<"writeback", "ROBcommit", "memoryForward", "MUforward", "MU", "BU",
                "IUforward", "IU", "issue", "memory", "RD2", "DR1", "fetch", "prompt">>
Stages == {StageOrder[k] : k \in 1 .. Len(StageOrder)}
After(s) == CHOOSE t \in Stages :
              \E k \in 1 .. Len(StageOrder) : /\ StageOrder[k] = s
                                              /\ StageOrder[(k % Len(StageOrder)) + 1] = t

(* Where the simulation ends: HALT was retired, the user quit, main has    *)
(* returned, or the code did something whose effect C does not define.     *)
Ends == {"halted", "stopped", "exited", "undefined"}

VARIABLES
  at,            \* the stage function called next, or why there is none
  code,          \* code_memory
  overlay,       \* the field of code_memory a report to rob[-1] changes, if any
  heap_intact,   \* nothing was written over the size word in front of lsq
  pc,            \* 4000 and up, 4 per instruction
  fetching,      \* fetch.has_insn
  fetch_from_next_cycle,
  latch,         \* the latches of the other stages
  regs, pregs, renameTable, pr_valid_bit, data_memory,
  zero_flag, positive_flag,
  is_MU_free, is_MEM_free, MU_counter, MEM_counter,
  flQueue, FL_head, FL_tail,
  iq, curr_iqSize,
  rob, rob_head, rob_tail,
  lsq, lsq_head, lsq_tail

hostVars   == <<code, overlay, heap_intact>>
fetchVars  == <<pc, fetching, fetch_from_next_cycle>>
renameVars == <<renameTable, pr_valid_bit>>
flagVars   == <<zero_flag, positive_flag>>
MUVars     == <<is_MU_free, MU_counter>>
MEMVars    == <<is_MEM_free, MEM_counter>>
flVars     == <<flQueue, FL_head, FL_tail>>
iqVars     == <<iq, curr_iqSize>>
robVars    == <<rob, rob_head, rob_tail>>
lsqVars    == <<lsq, lsq_head, lsq_tail>>

vars == <<at, hostVars, fetchVars, latch, regs, pregs, renameVars, data_memory, flagVars,
          MUVars, MEMVars, flVars, iqVars, robVars, lsqVars>>

(* The addresses that are one of an instruction of the programs: a branch  *)
(* may lead between two of them, or a little in front of the first.        *)
InsnPc == UNION {3997 .. 3999 + 4 * Len(p) : p \in Programs}

FL  == INSTANCE FreeList WITH loaded <- PREG_FILE_SIZE + 1
IQ  == INSTANCE IssueQueue
ROB == INSTANCE ReorderBuffer WITH LsqIndex <- -1 .. lsq_SIZE - 1, NoResult <- NoValue
LSQ == INSTANCE LoadStoreQueue WITH Valid <- PregTag, NoData <- NoValue

----------------------------------------------------------------------------
(* get_code_memory_index_from_pc, counted from 1; C rounds towards zero.   *)
CodeIndex(p) == IF p >= 4000 THEN (p - 4000) \div 4 + 1 ELSE 1 - (4000 - p) \div 4

(* The latch calloc makes; fuType and lsBit follow from the opcode.        *)
Bubble == [has_insn |-> FALSE, pc |-> 0, opcode |-> "ADD", rd |-> 0, rs1 |-> 0,
           rs2 |-> 0, imm |-> 0, prd |-> 0, prs1 |-> 0, prs2 |-> 0, prs1_valid |-> 0,
           rs1_value |-> 0, rs2_value |-> 0, result_buffer |-> 0, memory_address |-> 0,
           lsqIndex |-> 0]

(* pregs[-1] is the word in front of pregs, the last of regs; that of      *)
(* pr_valid_bit is the last of renameTable.                                *)
pregs_at(tag) == IF tag = -1 THEN regs[REG_FILE_SIZE - 1] ELSE pregs[tag]
pr_valid_bit_at(tag) ==
  IF tag = -1 THEN renameTable[REG_FILE_SIZE - 1] ELSE pr_valid_bit[tag]

(* In memory the array rob follows the code memory, and slot -1 of it lies *)
(* over the end of that: which field of an instruction it shares depends   *)
(* on how far calloc rounds up a block of n instructions, if the allocator *)
(* puts the two next to each other.                                        *)
Overlay(n) == <<"rd", "opcode", "imm", "rs1">>[(n % 4) + 1]

(* APEX_cpu_init.  The pc_value of slot -1 is a word that calloc leaves 0, *)
(* except that over an rs1 it is the last opcode, which is 0 for ADD.      *)
Init ==
  /\ at = "writeback"
  /\ code \in Programs
  /\ overlay \in Overlays \cap {"none", Overlay(Len(code))}
  /\ heap_intact = TRUE
  /\ pc = 4000
  /\ fetching = TRUE
  /\ fetch_from_next_cycle = FALSE
  /\ latch = [s \in Stages \ {"fetch", "prompt"} |-> Bubble]
  /\ regs = [r \in Reg |-> 0]
  /\ pregs = [p \in Preg |-> 0]
  /\ renameTable = [r \in Reg |-> -1]
  /\ pr_valid_bit = [p \in Preg |-> 1]
  /\ data_memory = [a \in 0 .. DATA_MEMORY_SIZE - 1 |-> 0]
  /\ zero_flag = FALSE
  /\ positive_flag = FALSE
  /\ is_MU_free = TRUE
  /\ is_MEM_free = TRUE
  /\ MU_counter = 0
  /\ MEM_counter = 0
  /\ FL!Loaded
  /\ IQ!Init
  /\ ROB!Init
  /\ overlay \in {"opcode", "rd", "imm"} => rob[-1].pc_value = 0
  /\ overlay = "rs1" => (rob[-1].pc_value = 0 <=> code[Len(code)].opcode = "ADD")
  /\ LSQ!Init

(* The stage function s runs, and the next one is called.                  *)
Runs(s) == at = s /\ at' = After(s)

(* A stage whose latch holds no instruction does nothing.  APEX_BU has no  *)
(* such early return.                                                      *)
Idle == \E s \in Stages \ {"BU", "fetch", "prompt"} :
          /\ Runs(s)
          /\ ~latch[s].has_insn
          /\ UNCHANGED <<hostVars, fetchVars, latch, regs, pregs, renameVars, data_memory,
                         flagVars, MUVars, MEMVars, flVars, iqVars, robVars, lsqVars>>

----------------------------------------------------------------------------
(* The in-order front end *)

(* The bubble after a taken branch. *)
SkipFetch == /\ fetching
             /\ fetch_from_next_cycle
             /\ fetch_from_next_cycle' = FALSE
             /\ UNCHANGED <<pc, fetching, latch>>

(* The fetched instruction overwrites DR1, also one that is still there.   *)
FetchInsn ==
  /\ fetching
  /\ ~fetch_from_next_cycle
  /\ CodeIndex(pc) \in 1 .. Len(code)
  /\ LET insn == code[CodeIndex(pc)]
     IN  /\ latch' = [latch EXCEPT !.DR1 =
                        [Bubble EXCEPT !.has_insn = TRUE, !.pc = pc, !.opcode = insn.opcode,
                                       !.rd = insn.rd, !.rs1 = insn.rs1, !.rs2 = insn.rs2,
                                       !.imm = insn.imm]]
         /\ fetching' = (insn.opcode # "HALT")
  /\ pc' = pc + 4
  /\ UNCHANGED fetch_from_next_cycle

APEX_fetch ==
  /\ at = "fetch"
  /\ UNCHANGED <<hostVars, regs, pregs, renameVars, data_memory, flagVars, MUVars, MEMVars,
                 flVars, iqVars, robVars, lsqVars>>
  /\ \/ /\ at' = After("fetch")
        /\ \/ SkipFetch
           \/ FetchInsn
           \/ ~fetching /\ UNCHANGED <<fetchVars, latch>>
     \/ (* the code memory ends before this address *)
        /\ fetching
        /\ ~fetch_from_next_cycle
        /\ CodeIndex(pc) \notin 1 .. Len(code)
        /\ at' = "undefined"
        /\ UNCHANGED <<fetchVars, latch>>

(* Mutant: the room in the rob is not tested.                              *)
DR1_WithoutRobTest == ~IQ!is_IQ_Full /\ ~FL!checkEmpty_FL

(* There has to be room in three places, whatever the instruction.         *)
DR1_MayPass == ~IQ!is_IQ_Full /\ ~FL!checkEmpty_FL /\ ~ROB!rob_checkFull

(* What DR1 reads.  An instruction with one source gets its value but not  *)
(* its tag, except RET.                                                    *)
Decoded(insn) ==
  LET tag1 == renameTable[insn.rs1]
      tag2 == renameTable[insn.rs2]
      op   == insn.opcode
  IN  [insn EXCEPT
         !.prd = IF op \in HasDest THEN FL!FreeRegister ELSE @,
         !.prs1 = IF op \in TwoSource \cup {"CMP", "STORE", "RET"} THEN tag1 ELSE @,
         !.prs2 = IF op \in TwoSource \cup {"CMP", "STORE"} THEN tag2 ELSE @,
         !.rs1_value = IF op \in TwoSource \cup OneSource \cup {"CMP", "STORE", "RET"}
                       THEN pregs_at(tag1) ELSE @,
         !.prs1_valid = IF op \in TwoSource \cup OneSource \cup {"CMP", "STORE", "RET"}
                        THEN pr_valid_bit_at(tag1)
                        ELSE IF op = "MOVC" THEN 1 ELSE @,
         !.rs2_value = IF op \in TwoSource \cup {"CMP", "STORE"}
                       THEN pregs_at(tag2) ELSE @]

(* The destination is renamed after the sources are read.                  *)
Rename(insn) ==
  \/ /\ insn.opcode \in HasDest
     /\ FL!get_free_physical_register
     /\ renameTable' = [renameTable EXCEPT ![insn.rd] = FL!FreeRegister]
     /\ pr_valid_bit' = [pr_valid_bit EXCEPT ![FL!FreeRegister] = 0]
  \/ /\ insn.opcode \notin HasDest
     /\ UNCHANGED <<flVars, renameVars>>

(* Mutant: DR1 keeps what it has passed on.                                *)
DR1_KeepsInsn ==
  /\ Runs("DR1")
  /\ latch.DR1.has_insn
  /\ \/ /\ DR1_MayPass
        /\ latch' = [latch EXCEPT !.RD2 = Decoded(latch.DR1)]
        /\ Rename(latch.DR1)
     \/ /\ ~DR1_MayPass
        /\ UNCHANGED <<latch, flVars, renameVars>>
  /\ UNCHANGED <<hostVars, fetchVars, regs, pregs, data_memory, flagVars, MUVars, MEMVars,
                 iqVars, robVars, lsqVars>>

APEX_DR1 ==
  /\ Runs("DR1")
  /\ latch.DR1.has_insn
  /\ \/ /\ DR1_MayPass
        /\ latch' = [latch EXCEPT !.RD2 = Decoded(latch.DR1), !.DR1.has_insn = FALSE]
        /\ Rename(latch.DR1)
     \/ /\ ~DR1_MayPass
        /\ UNCHANGED <<latch, flVars, renameVars>>
  /\ UNCHANGED <<hostVars, fetchVars, regs, pregs, data_memory, flagVars, MUVars, MEMVars,
                 iqVars, robVars, lsqVars>>

(* Dispatch into the queues.  DIV is in no case of the switch and vanishes.*)
APEX_RD2 ==
  /\ Runs("RD2")
  /\ latch.RD2.has_insn
  /\ LET insn == latch.RD2
         sent == [insn EXCEPT !.lsqIndex = IF insn.opcode \in {"LOAD", "STORE"}
                                           THEN lsq_tail'
                                           ELSE IF insn.opcode = "DIV" THEN @ ELSE -1]
     IN  /\ \/ insn.opcode \in {"LOAD", "STORE"} /\ LSQ!lsq_Entry(insn)
            \/ insn.opcode \notin {"LOAD", "STORE"} /\ UNCHANGED lsqVars
         /\ \/ /\ insn.opcode # "DIV"
               /\ IQ!iqEntry(sent, fuType(insn.opcode))
               /\ ROB!rob_Entry(sent)
            \/ insn.opcode = "DIV" /\ UNCHANGED <<iqVars, robVars>>
         /\ latch' = [latch EXCEPT !.issue = sent, !.RD2.has_insn = FALSE]
  /\ UNCHANGED <<hostVars, fetchVars, regs, pregs, renameVars, data_memory, flagVars, MUVars,
                 MEMVars, flVars>>

----------------------------------------------------------------------------
(* APEX_issue *)

(* Mutant: the multiplier takes an entry while it is busy.                 *)
CanStartBusy(queue, fu) == IQ!Offered(queue, fu)

(* A unit gets an entry of queue; issue_Instruction sees to it that there  *)
(* is at most one such unit.  Only the multiplier is ever marked busy.     *)
CanStart(queue, fu) == IQ!Offered(queue, fu) /\ (fu = 1 => is_MU_free)

UnitStage(fu) == CASE fu = 0 -> "IU" [] fu = 1 -> "MU" [] fu = 2 -> "BU"

(* What the issue latch takes from the entry.  The index into the lsq is   *)
(* not among it: it stays that of the instruction RD2 sent last.           *)
IssueLatch(entry) ==
  [latch.issue EXCEPT !.pc = entry.pc, !.opcode = entry.opcode, !.imm = entry.imm,
                      !.prs1 = entry.prs1, !.rs1_value = entry.prs1Value,
                      !.rs2_value = entry.prs2Value, !.prd = entry.dest]

(* A memory operation starts for the instruction in slot r of the rob with *)
(* the address and the data in slot e of the lsq; l are the latches.       *)
StartMemory(l, r, e) ==
  LET op == [l.issue EXCEPT !.memory_address = lsq[e].mem_address,
                            !.pc = rob[r].pc_value, !.opcode = rob[r].opcode,
                            !.rs1_value = lsq[e].prs1_value]
  IN  /\ latch' = [l EXCEPT !.issue = op, !.memory = op]
      /\ is_MEM_free' = FALSE
      /\ MEM_counter' = 1

(* A load at the head of the lsq looks for itself in the rob.  When the    *)
(* entry where the search stopped has the pc of the newest memory          *)
(* instruction, an entry is taken (again).                                 *)
LoadToMemory(l) ==
  LET r     == ROB!SearchStop(lsq[lsq_head].pc_value)
      found == r # rob_tail
      one   == IF found THEN LSQ!lsq_to_mem(lsq_head, lsq_tail)
               ELSE [head |-> lsq_head, tail |-> lsq_tail]
      again == rob[r].pc_value = lsq[one.tail].pc_value
      left  == IF again THEN LSQ!lsq_to_mem(one.head, one.tail) ELSE one
  IN  /\ LSQ!LoadReady
      /\ lsq_head' = left.head
      /\ lsq_tail' = left.tail
      /\ \/ /\ found \/ again
            /\ StartMemory(l, r, IF again THEN one.head ELSE lsq_head)
         \/ /\ ~found /\ ~again
            /\ latch' = l
            /\ UNCHANGED MEMVars

(* Mutant: a store need not be the oldest instruction.                     *)
StoreMayStartEarly == LSQ!StoreReady

(* A store waits until it is the oldest instruction in the rob.            *)
StoreMayStart == LSQ!StoreReady /\ rob[rob_head].lsqindex = lsq_head

StoreToMemory(l) ==
  LET left == LSQ!lsq_to_mem(lsq_head, lsq_tail)
  IN  /\ ~LSQ!LoadReady
      /\ StoreMayStart
      /\ lsq_head' = left.head
      /\ lsq_tail' = left.tail
      /\ StartMemory(l, rob_head, lsq_head)

NothingToMemory(l) == /\ ~is_MEM_free \/ ~(LSQ!LoadReady \/ StoreMayStart)
                      /\ latch' = l
                      /\ UNCHANGED <<lsq_head, lsq_tail, MEMVars>>

(* The head of the lsq is then marked if its address is there.  On an      *)
(* empty queue the test reads the word in front of lsq that has the place  *)
(* of mem_address_vBit, which is the result of the last rob entry.         *)
MemoryPart(l) ==
  /\ \/ is_MEM_free /\ LoadToMemory(l)
     \/ is_MEM_free /\ StoreToMemory(l)
     \/ NothingToMemory(l)
  /\ lsq' = LSQ!HeadMarked(lsq_head', rob[rob_SIZE - 1].result)

APEX_issue ==
  /\ Runs("issue")
  /\ latch.issue.has_insn
  /\ LET queue == IQ!WithNextAllocated
         entry == IssueLatch(IQ!Selected(queue))
     IN  \/ \E fu \in IQ!Unit :
              /\ CanStart(queue, fu)
              /\ IQ!WithinBound(queue)
              /\ iq' = IQ!Unlinked(queue)
              /\ curr_iqSize' = curr_iqSize - 1
              /\ is_MU_free' = (is_MU_free /\ fu # 1)
              /\ MU_counter' = IF fu = 1 THEN 1 ELSE MU_counter
              /\ MemoryPart([latch EXCEPT !.issue = entry, ![UnitStage(fu)] = entry])
         \/ /\ \A fu \in IQ!Unit : ~CanStart(queue, fu)
            /\ iq' = queue
            /\ UNCHANGED <<curr_iqSize, MUVars>>
            /\ MemoryPart(latch)
  /\ UNCHANGED <<hostVars, fetchVars, regs, pregs, renameVars, data_memory, flagVars, flVars,
                 robVars>>

----------------------------------------------------------------------------
(* The functional units *)

(* What the integer unit computes into result_buffer.  The other opcodes   *)
(* leave it alone.                                                         *)
IUResult(insn) ==
  LET x == insn.rs1_value
      y == insn.rs2_value
  IN  CASE insn.opcode = "ADD"  -> Wrap(x + y)
        [] insn.opcode = "ADDL" -> Wrap(x + insn.imm)
        [] insn.opcode = "SUB"  -> Wrap(x - y)
        [] insn.opcode = "SUBL" -> Wrap(x - insn.imm)
        [] insn.opcode = "AND"  -> BitAnd(x, y)
        [] insn.opcode = "OR"   -> BitOr(x, y)
        [] insn.opcode = "XOR"  -> BitXor(x, y)
        [] insn.opcode = "MOVC" -> insn.imm
        [] OTHER                -> insn.result_buffer

IUAddress(insn) ==
  CASE insn.opcode = "LOAD"  -> Wrap(insn.rs1_value + insn.imm)
    [] insn.opcode = "STORE" -> Wrap(insn.rs2_value + insn.imm)
    [] OTHER                 -> insn.memory_address

(* CMP sets a flag and never clears one; AND, OR and XOR touch none.       *)
SetFlags(insn, result) ==
  IF insn.opcode \in {"ADD", "ADDL", "SUB", "SUBL", "MOVC", "MUL"}
  THEN zero_flag' = (result = 0) /\ UNCHANGED positive_flag
  ELSE IF insn.opcode = "CMP"
  THEN /\ zero_flag' = (zero_flag \/ insn.rs1_value = insn.rs2_value)
       /\ positive_flag' = (positive_flag \/ insn.rs1_value > insn.rs2_value)
  ELSE UNCHANGED flagVars

APEX_IU ==
  /\ Runs("IU")
  /\ latch.IU.has_insn
  /\ LET insn == latch.IU
         done == [insn EXCEPT !.result_buffer = IUResult(insn),
                              !.memory_address = IUAddress(insn)]
     IN  /\ latch' = [latch EXCEPT !.IUforward = done, !.IU.has_insn = FALSE]
         /\ SetFlags(insn, done.result_buffer)
  /\ UNCHANGED <<hostVars, fetchVars, regs, pregs, renameVars, data_memory, MUVars, MEMVars,
                 flVars, iqVars, robVars, lsqVars>>

(* The multiplier takes four calls.                                        *)
APEX_MU ==
  /\ Runs("MU")
  /\ latch.MU.has_insn
  /\ MU_counter' = MU_counter + 1
  /\ \/ /\ MU_counter % 4 = 0
        /\ LET insn   == latch.MU
               result == IF insn.opcode = "MUL" THEN Wrap(insn.rs1_value * insn.rs2_value)
                         ELSE insn.result_buffer
           IN  /\ latch' = [latch EXCEPT !.MU.has_insn = FALSE,
                                         !.MUforward = [insn EXCEPT !.result_buffer = result]]
               /\ SetFlags(insn, result)
        /\ is_MU_free' = TRUE
     \/ /\ MU_counter % 4 # 0
        /\ UNCHANGED <<latch, flagVars, is_MU_free>>
  /\ UNCHANGED <<hostVars, fetchVars, regs, pregs, renameVars, data_memory, MEMVars, flVars,
                 iqVars, robVars, lsqVars>>

(* JUMP, JALR and RET reach this unit and do nothing.                      *)
Taken(insn) == \/ insn.opcode = "BZ"  /\ zero_flag
               \/ insn.opcode = "BNZ" /\ ~zero_flag
               \/ insn.opcode = "BP"  /\ positive_flag
               \/ insn.opcode = "BNP" /\ ~positive_flag

(* A taken branch empties the front end, BNP except for RD2.  Instructions *)
(* that are in the queues stay there, and so does the renaming.            *)
Branch ==
  /\ pc' = latch.BU.pc + latch.BU.imm
  /\ fetching' = TRUE
  /\ fetch_from_next_cycle' = TRUE
  /\ latch' = [latch EXCEPT !.BU.has_insn = FALSE, !.DR1.has_insn = FALSE,
                            !.RD2.has_insn = @ /\ latch.BU.opcode = "BNP"]

(* A report for slot -1 of the rob: the 1 for allocated becomes the opcode *)
(* of the last instruction but one, SUB, or its rd or rs1; or the result   *)
(* becomes the literal of the last instruction.                            *)
Overwritten ==
  LET reached == Len(code) > 1 /\ ROB!rob_checkEmpty /\ rob[-1].pc_value = latch.BU.pc
  IN  \/ /\ ~reached \/ overlay = "none"
         /\ UNCHANGED code
      \/ /\ reached /\ overlay = "opcode"
         /\ code' = [code EXCEPT ![Len(code) - 1].opcode = "SUB"]
      \/ /\ reached /\ overlay = "rd"
         /\ code' = [code EXCEPT ![Len(code) - 1].rd = 1]
      \/ /\ reached /\ overlay = "rs1"
         /\ code' = [code EXCEPT ![Len(code) - 1].rs1 = 1]
      \/ /\ reached /\ overlay = "imm"
         /\ code' = [code EXCEPT ![Len(code)].imm = latch.BU.result_buffer]

(* Whether or not there is an instruction in its latch, the unit reports   *)
(* the pc in it as completed.  Only BZ flushes the issue queue, by freeing *)
(* the head of the list again and again: undefined unless it is empty.     *)
APEX_BU ==
  /\ at = "BU"
  /\ LET taken == latch.BU.has_insn /\ Taken(latch.BU)
         flush == taken /\ latch.BU.opcode = "BZ" /\ ~(iq = << >>)
     IN  \/ /\ ~flush
            /\ at' = After("BU")
            /\ ROB!rob_update(latch.BU.pc, latch.BU.result_buffer)
            /\ Overwritten
            /\ \/ taken /\ Branch
               \/ /\ ~taken
                  /\ latch' = [latch EXCEPT !.BU.has_insn = FALSE]
                  /\ UNCHANGED fetchVars
         \/ /\ flush
            /\ at' = "undefined"
            /\ UNCHANGED <<code, latch, fetchVars, robVars>>
  /\ UNCHANGED <<overlay, heap_intact, regs, pregs, renameVars, data_memory, flagVars, MUVars,
                 MEMVars, flVars, iqVars, lsqVars>>

----------------------------------------------------------------------------
(* Forwarding *)

(* Mutant: the register of a load is not put back with its address.        *)
PutsBackResult(insn) == insn.lsqIndex = -1

(* Whose register goes into the free list: that of every instruction with  *)
(* a result, P0 for one that has none, and with its address, long before   *)
(* its value, that of a load.                                              *)
PutsBack(insn) == insn.lsqIndex = -1 \/ insn.opcode = "LOAD"

(* A result goes to the register, the rob and the waiting instructions,    *)
(* and the register is put back into the free list although the rename     *)
(* table still maps to it.  An address goes to the lsq.  The lsqIndex of   *)
(* the latch tells which it is.  With an empty lsq the result of P0 is     *)
(* written into slot -1 of it: the place of prs1 there is 0, and that of   *)
(* prs1_value is the allocator's size word.                                *)
APEX_IUforward ==
  /\ Runs("IUforward")
  /\ latch.IUforward.has_insn
  /\ LET insn == latch.IUforward
     IN  \/ /\ insn.lsqIndex = -1
            /\ pregs' = [pregs EXCEPT ![insn.prd] = insn.result_buffer]
            /\ ROB!rob_update(insn.pc, insn.result_buffer)
            /\ pr_valid_bit' = [pr_valid_bit EXCEPT ![insn.prd] = 1]
            /\ IQ!IQupdate(insn.prd, insn.result_buffer)
            /\ LSQ!lsq_update(insn.prd, insn.result_buffer)
            /\ heap_intact' = (heap_intact /\ ~(LSQ!lsq_checkEmpty /\ insn.prd = 0))
         \/ /\ insn.lsqIndex # -1
            /\ LSQ!AddressSet(insn.lsqIndex, insn.memory_address)
            /\ UNCHANGED <<heap_intact, pregs, pr_valid_bit, iqVars, robVars, lsq_head,
                           lsq_tail>>
  /\ \/ /\ PutsBack(latch.IUforward)
        /\ FL!put_physicalRegister_inFL(latch.IUforward.prd)
     \/ /\ ~PutsBack(latch.IUforward)
        /\ UNCHANGED flVars
  /\ latch' = [latch EXCEPT !.ROBcommit.has_insn = TRUE, !.IUforward.has_insn = FALSE]
  /\ UNCHANGED <<code, overlay, fetchVars, regs, renameTable, data_memory, flagVars, MUVars,
                 MEMVars>>

(* The multiplier forwards to neither the lsq nor the free list.           *)
APEX_MUforward ==
  /\ Runs("MUforward")
  /\ latch.MUforward.has_insn
  /\ LET insn == latch.MUforward
     IN  /\ pregs' = [pregs EXCEPT ![insn.prd] = insn.result_buffer]
         /\ ROB!rob_update(insn.pc, insn.result_buffer)
         /\ pr_valid_bit' = [pr_valid_bit EXCEPT ![insn.prd] = 1]
         /\ IQ!IQupdate(insn.prd, insn.result_buffer)
  /\ latch' = [latch EXCEPT !.MUforward.has_insn = FALSE, !.ROBcommit.has_insn = TRUE]
  /\ UNCHANGED <<hostVars, fetchVars, regs, renameTable, data_memory, flagVars, MUVars, MEMVars,
                 flVars, lsqVars>>

(* Memory takes two calls.  What lies beyond data_memory is not modelled.  *)
APEX_memory ==
  /\ at = "memory"
  /\ latch.memory.has_insn
  /\ LET op      == latch.memory
         address == op.memory_address
         outside == op.opcode \in {"LOAD", "STORE"} /\ address \notin DOMAIN data_memory
     IN  \/ /\ MEM_counter % 2 # 0
            /\ at' = After("memory")
            /\ MEM_counter' = MEM_counter + 1
            /\ UNCHANGED <<latch, data_memory, is_MEM_free>>
         \/ /\ MEM_counter % 2 = 0
            /\ ~outside
            /\ at' = After("memory")
            /\ data_memory' = IF op.opcode = "STORE"
                              THEN [data_memory EXCEPT ![address] = op.rs1_value]
                              ELSE data_memory
            /\ latch' = [latch EXCEPT
                           !.memory.has_insn = FALSE,
                           !.memoryForward = [op EXCEPT !.result_buffer =
                              IF op.opcode = "LOAD" THEN data_memory[address] ELSE @]]
            /\ is_MEM_free' = TRUE
            /\ MEM_counter' = MEM_counter + 1
         \/ /\ MEM_counter % 2 = 0
            /\ outside
            /\ at' = "undefined"
            /\ UNCHANGED <<latch, data_memory, MEMVars>>
  /\ UNCHANGED <<hostVars, fetchVars, regs, pregs, renameVars, flagVars, MUVars, flVars, iqVars,
                 robVars, lsqVars>>

(* A load reports to the rob entry its pc is found in and to nothing else: *)
(* neither its register nor the instructions that wait for it.  A store    *)
(* reports to whatever is the oldest instruction.                          *)
APEX_memoryForward ==
  /\ Runs("memoryForward")
  /\ latch.memoryForward.has_insn
  /\ LET op == latch.memoryForward
         r  == ROB!SearchStop(op.pc)
     IN  \/ /\ op.opcode = "LOAD" /\ rob[r].pc_value = op.pc
            /\ rob' = [rob EXCEPT ![r].allocated = 1, ![r].result = op.result_buffer]
         \/ /\ op.opcode = "STORE"
            /\ rob' = [rob EXCEPT ![rob_head].allocated = 1]
         \/ /\ op.opcode # "STORE" /\ ~(op.opcode = "LOAD" /\ rob[r].pc_value = op.pc)
            /\ UNCHANGED rob
  /\ latch' = [latch EXCEPT !.memoryForward.has_insn = FALSE, !.ROBcommit.has_insn = TRUE]
  /\ UNCHANGED <<hostVars, fetchVars, regs, pregs, renameVars, data_memory, flagVars, MUVars,
                 MEMVars, flVars, iqVars, rob_head, rob_tail, lsqVars>>

----------------------------------------------------------------------------
(* Retirement *)

(* Mutant: an instruction is retired without its result.                   *)
MayRetireEarly == TRUE

MayRetire == rob[rob_head].allocated = 1

(* The oldest instruction leaves the rob for the writeback latch.          *)
APEX_ROBcommit ==
  /\ Runs("ROBcommit")
  /\ latch.ROBcommit.has_insn
  /\ \/ /\ MayRetire
        /\ ROB!rob_Commitment
        /\ LET e == rob[rob_head]
               retired == [latch.ROBcommit EXCEPT !.result_buffer = e.result, !.rd = e.rd,
                                                  !.opcode = e.opcode, !.pc = e.pc_value]
           IN  latch' = [latch EXCEPT !.writeback = retired,
                           !.ROBcommit = [retired EXCEPT !.has_insn = (rob_head' # -1)]]
     \/ /\ ~MayRetire
        /\ UNCHANGED <<latch, robVars>>
  /\ UNCHANGED <<hostVars, fetchVars, regs, pregs, renameVars, data_memory, flagVars, MUVars,
                 MEMVars, flVars, iqVars, lsqVars>>

APEX_writeback ==
  /\ at = "writeback"
  /\ latch.writeback.has_insn
  /\ LET insn == latch.writeback
     IN  /\ regs' = IF insn.opcode \in WritesRegister
                    THEN [regs EXCEPT ![insn.rd] = insn.result_buffer] ELSE regs
         /\ at' = IF insn.opcode = "HALT" THEN "halted" ELSE After("writeback")
  /\ latch' = [latch EXCEPT !.writeback.has_insn = FALSE]
  /\ UNCHANGED <<hostVars, fetchVars, pregs, renameVars, data_memory, flagVars, MUVars, MEMVars,
                 flVars, iqVars, robVars, lsqVars>>

(* The prompt after every cycle: any key, or q.                            *)
Prompt ==
  /\ at = "prompt"
  /\ at' \in {After("prompt"), "stopped"}
  /\ UNCHANGED <<hostVars, fetchVars, latch, regs, pregs, renameVars, data_memory, flagVars,
                 MUVars, MEMVars, flVars, iqVars, robVars, lsqVars>>

(* main frees the memory in the end.  Whether the allocator then comes     *)
(* across the damage and aborts depends on the size of the code memory.    *)
APEX_cpu_stop ==
  /\ at \in {"halted", "stopped"}
  /\ at' \in {"exited"} \cup (IF heap_intact THEN {} ELSE {"undefined"})
  /\ UNCHANGED <<hostVars, fetchVars, latch, regs, pregs, renameVars, data_memory, flagVars,
                 MUVars, MEMVars, flVars, iqVars, robVars, lsqVars>>

Next == \/ APEX_writeback
        \/ APEX_ROBcommit
        \/ APEX_memoryForward
        \/ APEX_MUforward
        \/ APEX_MU
        \/ APEX_BU
        \/ APEX_IUforward
        \/ APEX_IU
        \/ APEX_issue
        \/ APEX_memory
        \/ APEX_RD2
        \/ APEX_DR1
        \/ APEX_fetch
        \/ Prompt
        \/ APEX_cpu_stop
        \/ Idle

Spec == Init /\ [][Next]_vars

----------------------------------------------------------------------------
(* Properties *)

Latch == [has_insn : BOOLEAN, pc : InsnPc \cup {0, -1}, opcode : Opcode, rd : Reg,
          rs1 : Reg, rs2 : Reg, imm : Int, prd : Preg, prs1 : PregTag, prs2 : PregTag,
          prs1_valid : PregTag \cup {0, 1}, rs1_value : Word, rs2_value : Word,
          result_buffer : Word, memory_address : Word, lsqIndex : -1 .. lsq_SIZE - 1]

TypeOK ==
  /\ at \in Stages \cup Ends
  /\ code \in Seq(Instruction)
  /\ overlay \in Overlays
  /\ heap_intact \in BOOLEAN
  /\ pc \in Int
  /\ fetching \in BOOLEAN
  /\ fetch_from_next_cycle \in BOOLEAN
  /\ latch \in [Stages \ {"fetch", "prompt"} -> Latch]
  /\ regs \in [Reg -> Word]
  /\ pregs \in [Preg -> Word]
  /\ renameTable \in [Reg -> PregTag]
  /\ pr_valid_bit \in [Preg -> {0, 1}]
  /\ data_memory \in [0 .. DATA_MEMORY_SIZE - 1 -> Word]
  /\ {zero_flag, positive_flag, is_MU_free, is_MEM_free} \subseteq BOOLEAN
  /\ MU_counter \in 0 .. 5
  /\ MEM_counter \in 0 .. 3
  /\ FL!TypeOK
  /\ IQ!TypeOK
  /\ ROB!TypeOK
  /\ LSQ!TypeOK

(* DR1 let an instruction pass because the rob had room.  That room is     *)
(* still there when RD2 enters it, with no test, into the rob.             *)
RobRoom == latch.RD2.has_insn => ~ROB!rob_checkFull

(* The same for the issue queue, one entry of which is never used: the     *)
(* counter that stands for its length never reaches iq_SIZE.               *)
IqRoom == curr_iqSize + (IF latch.RD2.has_insn THEN 1 ELSE 0) <= iq_SIZE - 1

(* The stages that hold a register DR1 took from the free list and has not *)
(* been put back: the latches on the way to the forwarding stage and the   *)
(* issue queue, for an entry that has not been issued.                     *)
Owners(p) ==
  {<<s, 0>> : s \in {s \in {"RD2", "IU", "IUforward"} : latch[s].has_insn /\ latch[s].prd = p}}
    \cup {<<"free", k>> : k \in {k \in RingSlots(FL_head, FL_tail, PREG_FILE_SIZE) :
                                  flQueue[k] = p}}
    \cup {<<"waiting", k>> : k \in {k \in 1 .. Len(iq) : iq[k].dest = p}}

(* No physical register is free twice, or free and on its way to get a     *)
(* result.  P0 is left out: every instruction without a destination has    *)
(* its number and puts it back all the same.                               *)
OneOwner == \A p \in Preg \ {0} : Cardinality(Owners(p)) <= 1

(* In a program without branches, a physical register that is neither free *)
(* nor held by an instruction was lost in one of the ways the code has: a  *)
(* product's and a JALR's are never put back, and each instruction that    *)
(* puts back a P0 it did not take may fill the free list, which drops      *)
(* another one.                                                            *)
LostAccountedFor ==
  LET spends == {"MUL", "JALR", "CMP", "NOP", "HALT"}
      lost   == {p \in Preg \ {0} : Owners(p) = {}}
      spent  == {k \in 1 .. Len(code) : code[k].opcode \in spends /\ 3996 + 4 * k < pc}
  IN  Cardinality(lost) <= Cardinality(spent)

(* A latch gets an instruction only when the one it had has moved on,      *)
(* whatever the latencies of the units.  DR1 is left out, which fetch      *)
(* overwrites when it stalls, and the latches of issue and ROBcommit,      *)
(* which are scratch space.                                                *)
NoneOverwritten ==
  [][\A s \in DOMAIN latch \ {"DR1", "issue", "ROBcommit"} :
       latch[s].has_insn /\ latch'[s].has_insn => latch'[s] = latch[s]]_vars

(* The rob of the processor is a retirement queue: whatever branches,      *)
(* memory operations and repeated issues do, instructions leave it in      *)
(* the order RD2 entered them, with a result that was reported since.      *)
InOrderRetirement == ROB!ImplementsRetireQueue

(* apex_cpu.h:44: the lsq index is "-1 for non L/S instructions", by which *)
(* APEX_IUforward tells a result from an address.  APEX_issue does not     *)
(* copy it from the entry it issues: the index the issue latch happens to  *)
(* hold, of the instruction dispatched last, has to be the right one.      *)
LsqIndexIsOwn ==
  latch.IUforward.has_insn =>
    (latch.IUforward.lsqIndex = -1 <=> latch.IUforward.opcode \notin {"LOAD", "STORE"})

(* No instruction follows another but the next one: the program has no     *)
(* branch, which alone moves the pc (APEX_BU), and no code lies where the  *)
(* rob is overwritten.                                                     *)
BranchFree == /\ overlay = "none"
              /\ \A k \in 1 .. Len(code) : code[k].opcode \notin {"BZ", "BNZ", "BP", "BNP"}

(* The instruction that is the k-th of the rob, its oldest the first.      *)
RobCount == RingCount(rob_head, rob_tail, rob_SIZE)
RobInsn(k) == rob[RingSlot(rob_head, k, rob_SIZE)]

(* Without branches the rob holds instructions of the program, each at     *)
(* most once, in program order, and nothing that is still in front of it:  *)
(* whatever DR1 loses when it stalls, whatever DIV leaves out, and however *)
(* often an instruction is issued.                                         *)
RobInProgramOrder ==
  BranchFree =>
    \A k \in 1 .. RobCount :
      /\ RobInsn(k).pc_value \in {3996 + 4 * n : n \in 1 .. Len(code)}
      /\ RobInsn(k).opcode = code[CodeIndex(RobInsn(k).pc_value)].opcode
      /\ \A s \in {"DR1", "RD2"} : latch[s].has_insn => RobInsn(k).pc_value < latch[s].pc
      /\ \A j \in 1 .. k - 1 : RobInsn(j).pc_value < RobInsn(k).pc_value

(* Without branches instructions come to writeback in program order, none  *)
(* twice: a retirement, unless ROBcommit takes the slot in front of an     *)
(* empty rob for one, is of an instruction behind the last that retired.   *)
RetiresInProgramOrder ==
  [][BranchFree /\ ~ROB!rob_checkEmpty /\ latch'.writeback.has_insn /\ ~latch.writeback.has_insn
       => /\ latch'.writeback.pc > latch.writeback.pc
          /\ latch'.writeback.opcode = code[CodeIndex(latch'.writeback.pc)].opcode]_vars

(* The slot of the lsq that RD2 is about to give away is not one that an   *)
(* instruction still in the rob had: APEX_issue takes the number of the    *)
(* slot for the name of the instruction.  Nothing in the code sees to it;  *)
(* it is so as long as the loads and stores of a program are few, or far   *)
(* apart.                                                                  *)
SlotsFresh ==
  latch.RD2.has_insn /\ latch.RD2.opcode \in {"LOAD", "STORE"} =>
    \A k \in 1 .. RobCount :
      RobInsn(k).opcode \in {"LOAD", "STORE"} => RobInsn(k).lsqindex # (lsq_tail + 1) % lsq_SIZE

(* A store is in the memory unit only while it is the oldest instruction   *)
(* and not complete: memory is not written speculatively, as long as the   *)
(* slots are fresh.                                                        *)
StoreIsOldest ==
  \A s \in {"memory", "memoryForward"} :
    latch[s].has_insn /\ latch[s].opcode = "STORE" =>
      /\ ~ROB!rob_checkEmpty
      /\ rob[rob_head].pc_value = latch[s].pc
      /\ rob[rob_head].allocated = 0

(* No instruction is lost on its way to the rob, and none comes out of an  *)
(* empty one: DR1 has passed its instruction on when fetch writes its      *)
(* latch, RD2 has no DIV, which it does not dispatch, and ROBcommit does   *)
(* not take the slot in front of the rob for a finished instruction.  The  *)
(* code sees to none of them; the first is so as long as nothing stalls.   *)
NothingSkipped ==
  /\ at = "fetch" /\ fetching => ~latch.DR1.has_insn
  /\ latch.RD2.has_insn => latch.RD2.opcode # "DIV"
  /\ at = "ROBcommit" /\ latch.ROBcommit.has_insn /\ ROB!rob_checkEmpty => ~MayRetire

(* In a program without branches every instruction is retired once, in     *)
(* program order, none is skipped and none appears from nowhere, as long   *)
(* as nothing is skipped on the way to the rob.                            *)
RetiresEachOnce ==
  [][latch'.writeback.has_insn /\ ~latch.writeback.has_insn =>
       \/ latch'.writeback.pc = latch.writeback.pc + 4
       \/ latch.writeback.pc = 0 /\ latch'.writeback.pc = 4000]_vars

(* The loads and stores the reorder buffer still waits for are, in its     *)
(* order, the one that has come through memory or is in memory, and those  *)
(* in the load/store queue: the two queues, filled by one stage and        *)
(* emptied by different ones, never lose, duplicate or exchange one, as    *)
(* long as the slots are fresh.  An operation with pc 0 is none: memory    *)
(* may be started with an empty queue, for the slot in front of the rob.   *)
MemoryNotLost ==
  LET awaited == {k \in 1 .. RobCount : /\ RobInsn(k).opcode \in {"LOAD", "STORE"}
                                        /\ RobInsn(k).allocated = 0}
      In(s)   == IF latch[s].has_insn /\ latch[s].pc # 0 THEN <<latch[s].pc>> ELSE << >>
      queued  == [j \in 1 .. RingCount(lsq_head, lsq_tail, lsq_SIZE) |->
                    lsq[RingSlot(lsq_head, j, lsq_SIZE)].pc_value]
      pending == In("memoryForward") \o In("memory") \o queued
  IN  /\ \A k \in awaited : \E i \in 1 .. Len(pending) : pending[i] = RobInsn(k).pc_value
      /\ \A i \in 1 .. Len(pending) : \E k \in awaited : pending[i] = RobInsn(k).pc_value
      /\ \A i, j \in 1 .. Len(pending), k, m \in awaited :
           i < j /\ pending[i] = RobInsn(k).pc_value /\ pending[j] = RobInsn(m).pc_value
             => k < m

(* APEX_RD2 gives a load or a store the next slot of the lsq, with no test *)
(* for room (apex_cpu.c:393): one too many overwrites those that are still *)
(* there, and the rob waits for an instruction that is neither in the lsq  *)
(* nor in memory.  Without branches no later step makes up for it: the     *)
(* slots that come free never bring one back, and what is in the memory    *)
(* unit is not taken for it.                                               *)
AccessLost ==
  LET awaited  == {k \in 1 .. RobCount : /\ RobInsn(k).opcode \in {"LOAD", "STORE"}
                                         /\ RobInsn(k).allocated = 0}
      underway == {s \in {"memory", "memoryForward"} : latch[s].has_insn /\ latch[s].pc # 0}
  IN  Cardinality(awaited) > Cardinality(underway) + RingCount(lsq_head, lsq_tail, lsq_SIZE)

(* In a program without branches the memory operations start in program    *)
(* order, each once, as long as the slots are fresh.                       *)
MemoryInOrder ==
  [][latch'.memory.has_insn /\ ~latch.memory.has_insn /\ latch'.memory.pc # 0 =>
       latch'.memory.pc > latch.memory.pc]_vars

(* The program comes to its HALT, or the user quits: no instruction waits  *)
(* for ever for a unit, a register, a place in a queue or its data.        *)
Halts == <>(at \in {"halted", "stopped"})
=============================================================================
