------------------------- MODULE ApexCpuSequential -------------------------
(***************************************************************************)
(* The pipeline of ApexCpu next to the sequential machine: registers and   *)
(* memory are those of the processor, as far as it has retired; what no    *)
(* variable of the processor shows, where a taken branch is to go and the  *)
(* flags as of the last instruction retired (the processor's own are       *)
(* ahead), is kept in a history variable.                                  *)
(***************************************************************************)
EXTENDS ApexCpu

CONSTANT Scheduled(_)   \* the instructions of a program keep their distances

VARIABLE ghost       \* target and flags of the sequential machine; is the program Scheduled

(* A store is executed when it writes memory, while it is the oldest       *)
(* instruction; it is retired later.  Every other instruction is executed  *)
(* when it is retired.                                                     *)
StoreWritten ==
  IF latch.memoryForward.has_insn /\ latch.memoryForward.opcode = "STORE"
  THEN latch.memoryForward.pc
  ELSE IF ~ROB!rob_checkEmpty /\ rob[rob_head].opcode = "STORE" /\ rob[rob_head].allocated = 1
  THEN rob[rob_head].pc_value
  ELSE 0

LastExecuted == IF StoreWritten # 0 THEN StoreWritten ELSE latch.writeback.pc

(* The registers with the result that waits in the writeback latch.        *)
Retired ==
  LET insn == latch.writeback
  IN  IF insn.has_insn /\ insn.opcode \in WritesRegister
      THEN [regs EXCEPT ![insn.rd] = insn.result_buffer] ELSE regs

SEQ == INSTANCE SequentialCpu
         WITH last <- LastExecuted, target <- ghost.target, regs <- Retired,
              memory <- data_memory, flags <- ghost.flags

seqVars == <<vars, ghost>>

SeqInit == /\ Init
           /\ ghost = [scheduled |-> Scheduled(code),
                       target    |-> SEQ!NoTarget,
                       flags     |-> [zero |-> FALSE, positive |-> FALSE]]

SeqNext == /\ Next
           /\ ghost' = IF LastExecuted' # LastExecuted /\ ghost.scheduled
                       THEN [ghost EXCEPT !.target = SEQ!NextTarget, !.flags = SEQ!NextFlags]
                       ELSE ghost

(* The loop of APEX_cpu_run goes on by itself. *)
SeqSpec == SeqInit /\ [][SeqNext]_seqVars /\ WF_seqVars(SeqNext)

----------------------------------------------------------------------------
(* Properties *)

(* An instruction of the sequential machine, or nothing it would see.      *)
SeqStep == SEQ!Execute \/ UNCHANGED <<LastExecuted, ghost, Retired, data_memory, code>>

(* For a program whose instructions keep their distances, the out-of-order *)
(* processor is the sequential machine: renaming, forwarding, the queues   *)
(* and the latencies of the units do not show in registers, memory or the  *)
(* way a branch goes, at any point of the execution.                       *)
ComputesInOrder == SEQ!Init /\ [][ghost.scheduled => SeqStep]_seqVars
=============================================================================
