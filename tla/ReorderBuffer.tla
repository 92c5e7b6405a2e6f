--------------------------- MODULE ReorderBuffer ---------------------------
(***************************************************************************)
(* rob.c: the reorder buffer, a circular array rob with the indices        *)
(* rob_head and rob_tail, both -1 when it is empty.                        *)
(*                                                                         *)
(* None of the functions of rob.c tests for an empty buffer before it uses *)
(* an index, so slot -1, the memory in front of the array, is read and     *)
(* written too; the array of the model has that slot.  What it holds at    *)
(* the start is whatever the program loader left there.                    *)
(***************************************************************************)
EXTENDS CircularIndex, Sequences, FiniteSets

CONSTANTS
  rob_SIZE,   \* entries of the buffer
  InsnPc,     \* the addresses instructions are fetched from
  Opcode,     \* the operation codes; the one of number 0 is ADD
  Reg,        \* the architectural registers
  LsqIndex,   \* values of a lsqindex field
  Word,       \* values of a register
  NoResult    \* stands for a result that has not come; not a value of the code

ASSUME RobSizeAssumption == rob_SIZE \in Nat \ {0}
ASSUME RobDomainAssumption == /\ "ADD" \in Opcode
                              /\ 0 \in Reg \cap LsqIndex \cap Word
                              /\ NoResult \notin Word

VARIABLES
  rob,        \* the slots, from -1
  rob_head,   \* the slot of the oldest instruction, -1 when there is none
  rob_tail    \* the slot of the newest, -1 when there is none

robVars == <<rob, rob_head, rob_tail>>

RobSlot == -1 .. rob_SIZE - 1

(* The fields of ROBData that are ever read.  allocated tells whether the  *)
(* result has come.                                                        *)
RobEntry == [allocated : {0, 1}, opcode : Opcode, pc_value : InsnPc \cup {0, -1},
             rd : Reg, lsqindex : LsqIndex, result : Word]

----------------------------------------------------------------------------
(* The operations of rob.c *)

rob_checkEmpty == rob_head = -1

rob_checkFull == \/ rob_head = rob_tail + 1
                 \/ rob_head = 0 /\ rob_tail = rob_SIZE - 1

(* Mutants of the entry: the slot keeps the mark of its last occupant; the *)
(* head is not set by the first instruction.                               *)
EntryKeepingMark(insn) ==
  /\ rob_head' = IF rob_head = -1 THEN 0 ELSE rob_head
  /\ rob_tail' = (rob_tail + 1) % rob_SIZE
  /\ rob' = [rob EXCEPT ![rob_tail'] =
               [@ EXCEPT !.opcode = insn.opcode, !.pc_value = insn.pc,
                         !.rd = insn.rd, !.lsqindex = insn.lsqIndex]]

EntryWithoutHead(insn) ==
  /\ UNCHANGED rob_head
  /\ rob_tail' = (rob_tail + 1) % rob_SIZE
  /\ rob' = [rob EXCEPT ![rob_tail'] =
               [allocated |-> 0, opcode |-> insn.opcode, pc_value |-> insn.pc,
                rd |-> insn.rd, lsqindex |-> insn.lsqIndex, result |-> @.result]]

(* The caller has to know that there is room.  The slot keeps the result   *)
(* of its last occupant.                                                   *)
rob_Entry(insn) ==
  /\ rob_head' = IF rob_head = -1 THEN 0 ELSE rob_head
  /\ rob_tail' = (rob_tail + 1) % rob_SIZE
  /\ rob' = [rob EXCEPT ![rob_tail'] =
               [allocated |-> 0, opcode |-> insn.opcode, pc_value |-> insn.pc,
                rd |-> insn.rd, lsqindex |-> insn.lsqIndex, result |-> @.result]]

(* Mutant of the removal: the newest instruction is the one that leaves.   *)
CommitNewest ==
  /\ UNCHANGED rob
  /\ \/ rob_checkEmpty /\ UNCHANGED <<rob_head, rob_tail>>
     \/ /\ ~rob_checkEmpty
        /\ rob_head = rob_tail
        /\ rob_head' = -1
        /\ rob_tail' = -1
     \/ /\ rob_head # rob_tail
        /\ rob_tail' = (rob_tail + rob_SIZE - 1) % rob_SIZE
        /\ UNCHANGED rob_head

rob_Commitment ==
  /\ UNCHANGED rob
  /\ \/ rob_checkEmpty /\ UNCHANGED <<rob_head, rob_tail>>
     \/ /\ ~rob_checkEmpty
        /\ rob_head = rob_tail
        /\ rob_head' = -1
        /\ rob_tail' = -1
     \/ /\ rob_head # rob_tail
        /\ rob_head' = (rob_head + 1) % rob_SIZE
        /\ UNCHANGED rob_tail

(* The slots that the loop "from rob_head to rob_tail, then rob_tail"      *)
(* looks at; on an empty buffer that is slot -1.                           *)
Scanned == IF rob_checkEmpty THEN {-1} ELSE RingSlots(rob_head, rob_tail, rob_SIZE)

(* Mutants of the update: slots outside the queue are updated too; only    *)
(* the mark is set.                                                        *)
UpdateAllSlots(pc, result) ==
  /\ rob' = [i \in RobSlot |->
               IF rob[i].pc_value = pc
               THEN [rob[i] EXCEPT !.result = result, !.allocated = 1]
               ELSE rob[i]]
  /\ UNCHANGED <<rob_head, rob_tail>>

UpdateWholeQueue(pc, result) ==
  /\ rob' = [i \in RobSlot |->
               IF i \in Scanned
               THEN [rob[i] EXCEPT !.result = result, !.allocated = 1]
               ELSE rob[i]]
  /\ UNCHANGED <<rob_head, rob_tail>>

(* Every instruction in flight that was fetched from pc gets the result.   *)
rob_update(pc, result) ==
  /\ rob' = [i \in RobSlot |->
               IF i \in Scanned /\ rob[i].pc_value = pc
               THEN [rob[i] EXCEPT !.result = result, !.allocated = 1]
               ELSE rob[i]]
  /\ UNCHANGED <<rob_head, rob_tail>>

RobCount == RingCount(rob_head, rob_tail, rob_SIZE)

(* Where the search of APEX_issue and APEX_memoryForward for a pc stops:   *)
(* the oldest match before the newest instruction, or the newest.          *)
SearchStop(pc) ==
  LET hits == {k \in 1 .. RobCount - 1 :
                 rob[RingSlot(rob_head, k, rob_SIZE)].pc_value = pc}
  IN  IF hits = {} THEN rob_tail
      ELSE RingSlot(rob_head, CHOOSE k \in hits : \A j \in hits : k <= j, rob_SIZE)

----------------------------------------------------------------------------
(* The buffer on its own: RD2 enters instructions while DR1 found room,    *)
(* the functional units report results for any pc at any time (APEX_BU     *)
(* does so in every cycle, whatever its latch holds), and the commit stage *)
(* removes the oldest instruction once it has its result.                  *)

(* calloc clears the array; before it there is a 0 where slot -1 has its pc *)
(* field, or another number, written -1, that is no instruction's address. *)
Init == /\ \E before \in {0, -1} :
             rob = [i \in RobSlot |->
                      [allocated |-> 0, opcode |-> "ADD", rd |-> 0, lsqindex |-> 0,
                       result |-> 0, pc_value |-> IF i = -1 THEN before ELSE 0]]
        /\ rob_head = -1
        /\ rob_tail = -1

Dispatched == [opcode : Opcode, pc : InsnPc, rd : Reg, lsqIndex : LsqIndex]

Enter == \E insn \in Dispatched : ~rob_checkFull /\ rob_Entry(insn)

Report == \E pc \in InsnPc \cup {0}, result \in Word : rob_update(pc, result)

Commit == /\ rob[rob_head].allocated = 1
          /\ rob_Commitment

Next == Enter \/ Report \/ Commit

Spec == Init /\ [][Next]_robVars

----------------------------------------------------------------------------
(* Properties *)

TypeOK == /\ rob \in [RobSlot -> RobEntry]
          /\ RingIndices(rob_head, rob_tail, rob_SIZE)

(* The instructions in flight, each with the result it has got.            *)
InFlight ==
  [k \in 1 .. RobCount |->
     LET e == rob[RingSlot(rob_head, k, rob_SIZE)]
     IN  [insn   |-> [opcode |-> e.opcode, pc |-> e.pc_value,
                      rd |-> e.rd, lsqIndex |-> e.lsqindex],
          result |-> IF e.allocated = 1 THEN e.result ELSE NoResult]]

Abstract == INSTANCE RetireQueue
              WITH Insn <- Dispatched, Result <- Word, Capacity <- rob_SIZE,
                   q <- InFlight

(* The circular array is a retirement queue: instructions leave in the     *)
(* order they entered, each with a result reported after it entered, and   *)
(* neither the wrap-around of the indices, nor reports for instructions    *)
(* that are not in the buffer, nor what the slots held before, nor the     *)
(* accesses to slot -1 can show.                                           *)
ImplementsRetireQueue == Abstract!Spec
=============================================================================
