--------------------------- MODULE LoadStoreQueue ---------------------------
(***************************************************************************)
(* lsq.c: the queue of loads and stores that wait for memory, a circular   *)
(* array lsq with the indices lsq_head and lsq_tail, both -1 when it is    *)
(* empty.  APEX_issue looks at lsq[lsq_head] without a test for an empty   *)
(* queue, so the array of the model has the slot -1 in front of it.        *)
(***************************************************************************)
EXTENDS CircularIndex, Sequences

CONSTANTS
  lsq_SIZE,  \* entries of the queue
  InsnPc,    \* the addresses instructions are fetched from
  PregTag,   \* the values of a source register tag; 0 is in it
  Valid,     \* the values of a register's valid bit that DR1 may read
  Word,      \* values of a register
  NoData     \* stands for data that is not valid; not a value of the code

ASSUME LsqSizeAssumption == lsq_SIZE \in Nat \ {0}
ASSUME LsqDomainAssumption == /\ 0 \in PregTag \cap Word
                              /\ InsnPc # {}
                              /\ NoData \notin Word

VARIABLES
  lsq,        \* the slots, from -1
  lsq_head,   \* the slot of the oldest memory instruction, -1 when there is none
  lsq_tail    \* the slot of the newest, -1 when there is none

lsqVars == <<lsq, lsq_head, lsq_tail>>

LsqSlot == -1 .. lsq_SIZE - 1

(* The fields of LSQData that are read.  lsBit is 0 for a load and 1 for a *)
(* store; prs1, prs1_value and data_valid_Bit are the register a store     *)
(* takes its data from, the data, and whether it is there; allocated is    *)
(* set when the instruction may go to memory.                              *)
LsqEntry == [allocated : {0, 1}, lsBit : {0, 1}, mem_address_vBit : {0, 1},
             mem_address : Word, data_valid_Bit : Valid \cup {0, 1}, prs1 : PregTag,
             prs1_value : Word, pc_value : InsnPc \cup {0}]

ClearEntry == [allocated |-> 0, lsBit |-> 0, mem_address_vBit |-> 0,
               mem_address |-> 0, data_valid_Bit |-> 0, prs1 |-> 0,
               prs1_value |-> 0, pc_value |-> 0]

----------------------------------------------------------------------------
(* The operations of lsq.c *)

lsq_checkEmpty == lsq_head = -1

(* Defined and never called: the code does not test for room.              *)
lsq_checkFull == \/ lsq_head = lsq_tail + 1
                 \/ lsq_head = 0 /\ lsq_tail = lsq_SIZE - 1

(* What the entry of insn changes in its slot e.  A load leaves the store  *)
(* fields alone, and neither kind clears mem_address_vBit.                 *)
Occupied(e, insn) ==
  IF insn.opcode = "LOAD"
  THEN [e EXCEPT !.allocated = 0, !.mem_address = 0, !.pc_value = insn.pc,
                 !.lsBit = 0, !.data_valid_Bit = 1]
  ELSE [e EXCEPT !.allocated = 0, !.mem_address = 0, !.pc_value = insn.pc,
                 !.lsBit = 1, !.data_valid_Bit = insn.prs1_valid,
                 !.prs1 = insn.prs1, !.prs1_value = insn.rs1_value]

(* Mutants of the entry: a store is entered with valid data; the tail does *)
(* not wrap around to a queue that still has the head there.               *)
EntryTrustingData(insn) ==
  /\ lsq_head' = IF lsq_head = -1 THEN 0 ELSE lsq_head
  /\ lsq_tail' = (lsq_tail + 1) % lsq_SIZE
  /\ lsq' = [lsq EXCEPT ![lsq_tail'] = [Occupied(@, insn) EXCEPT !.data_valid_Bit = 1]]

EntryOffByOne(insn) ==
  /\ lsq_head' = IF lsq_head = -1 THEN 0 ELSE lsq_head
  /\ lsq_tail' = (lsq_tail + 1) % (lsq_SIZE + 1)
  /\ lsq' = [lsq EXCEPT ![lsq_tail'] = Occupied(@, insn)]

(* There is no test for a full queue: the newest entry then takes the slot *)
(* of the oldest.                                                          *)
lsq_Entry(insn) ==
  /\ lsq_head' = IF lsq_head = -1 THEN 0 ELSE lsq_head
  /\ lsq_tail' = (lsq_tail + 1) % lsq_SIZE
  /\ lsq' = [lsq EXCEPT ![lsq_tail'] = Occupied(@, insn)]

(* Mutant of the removal: the instruction stays unless it is the only one. *)
KeepUnlessLast(head, tail) ==
  IF head = -1 \/ head = tail THEN [head |-> -1, tail |-> -1]
  ELSE [head |-> head, tail |-> tail]

(* The indices after lsq_to_mem removes the oldest instruction; APEX_issue *)
(* may call it twice.                                                      *)
lsq_to_mem(head, tail) ==
  IF head = -1 \/ head = tail THEN [head |-> -1, tail |-> -1]
  ELSE [head |-> (head + 1) % lsq_SIZE, tail |-> tail]

(* Mutant of the update: it stops before the newest entry.                 *)
UpdateButTail(prd, result) ==
  /\ lsq' = [i \in LsqSlot |->
               IF /\ i \in RingSlots(lsq_head, lsq_tail, lsq_SIZE) \ {lsq_tail}
                  /\ lsq[i].prs1 = prd
               THEN [lsq[i] EXCEPT !.prs1_value = result, !.data_valid_Bit = 1]
               ELSE lsq[i]]
  /\ UNCHANGED <<lsq_head, lsq_tail>>

(* Every entry whose register tag is prd takes the result, a load too,     *)
(* whose tag is a leftover.  With an empty queue the loop reaches slot -1; *)
(* the fields it writes there are read by nothing in this file (ApexCpu    *)
(* has what one of them is).                                               *)
lsq_update(prd, result) ==
  /\ lsq' = [i \in LsqSlot |->
               IF /\ i \in RingSlots(lsq_head, lsq_tail, lsq_SIZE)
                  /\ lsq[i].prs1 = prd
               THEN [lsq[i] EXCEPT !.prs1_value = result, !.data_valid_Bit = 1]
               ELSE lsq[i]]
  /\ UNCHANGED <<lsq_head, lsq_tail>>

(* What APEX_IUforward writes into entry i, and what APEX_issue does to    *)
(* the entry at the head; before is the word that slot -1 has in place of  *)
(* its mem_address_vBit.                                                   *)
AddressSet(i, address) ==
  lsq' = [lsq EXCEPT ![i].mem_address = address, ![i].mem_address_vBit = 1]

HeadMarked(head, before) ==
  [lsq EXCEPT ![head].allocated =
     IF (IF head = -1 THEN before ELSE lsq[head].mem_address_vBit) # 0 THEN 1 ELSE @]

(* The entry at the head may go to memory (a store has to be the oldest    *)
(* instruction as well, which the reorder buffer knows).                   *)
LoadReady  == lsq[lsq_head].allocated = 1 /\ lsq[lsq_head].lsBit = 0

StoreReady == /\ lsq[lsq_head].allocated = 1
              /\ lsq[lsq_head].data_valid_Bit = 1
              /\ lsq[lsq_head].lsBit = 1

----------------------------------------------------------------------------
(* The queue on its own.  Nothing in the code keeps RD2 from entering an   *)
(* instruction into a full queue, or one that is there already (a load in  *)
(* a short loop, for which APEX_issue then removes two entries at once);   *)
(* here neither happens, and ApexCpu has both.                             *)

Init == /\ lsq = [i \in LsqSlot |-> ClearEntry]
        /\ lsq_head = -1
        /\ lsq_tail = -1

Dispatched == [opcode : {"LOAD", "STORE"}, pc : InsnPc, prs1 : PregTag,
               prs1_valid : Valid, rs1_value : Word]

Enter == \E insn \in Dispatched :
           /\ ~lsq_checkFull
           /\ \A i \in RingSlots(lsq_head, lsq_tail, lsq_SIZE) : lsq[i].pc_value # insn.pc
           /\ lsq_Entry(insn)

(* The forwarding stage of the integer unit: a result, or an address.      *)
Report == \E prd \in PregTag, result \in Word : lsq_update(prd, result)

Address == \E i \in 0 .. lsq_SIZE - 1, address \in Word :
             AddressSet(i, address) /\ UNCHANGED <<lsq_head, lsq_tail>>

(* The memory part of APEX_issue, with the memory unit free or busy.       *)
Issue == \E before \in {0, 1} :
           /\ \/ UNCHANGED <<lsq_head, lsq_tail>>
              \/ /\ LoadReady \/ StoreReady
                 /\ LET after == lsq_to_mem(lsq_head, lsq_tail)
                    IN  lsq_head' = after.head /\ lsq_tail' = after.tail
           /\ lsq' = HeadMarked(lsq_head', before)

Next == Enter \/ Report \/ Address \/ Issue

Spec == Init /\ [][Next]_lsqVars

----------------------------------------------------------------------------
(* Properties *)

TypeOK == /\ lsq \in [LsqSlot -> LsqEntry]
          /\ RingIndices(lsq_head, lsq_tail, lsq_SIZE)

LsqCount == RingCount(lsq_head, lsq_tail, lsq_SIZE)

Waiting ==
  [k \in 1 .. LsqCount |->
     LET e == lsq[RingSlot(lsq_head, k, lsq_SIZE)]
     IN  [insn |-> [pc    |-> e.pc_value,
                    store |-> e.lsBit = 1,
                    reg   |-> IF e.lsBit = 1 THEN e.prs1 ELSE 0],
          data |-> IF e.lsBit = 1 /\ e.data_valid_Bit = 1
                   THEN e.prs1_value ELSE NoData]]

Abstract == INSTANCE StoreQueue
              WITH Insn <- [pc : InsnPc, store : BOOLEAN, reg : PregTag],
                   Capacity <- lsq_SIZE, q <- Waiting

(* As long as it is not overfilled the queue keeps program order, and a    *)
(* store leaves it only with the value its register had when it entered or *)
(* was last given: what a slot held before, and the updates that hit loads *)
(* and slots out of use, do not show.                                      *)
ImplementsStoreQueue == Abstract!Spec
=============================================================================
