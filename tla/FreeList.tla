------------------------------ MODULE FreeList ------------------------------
(***************************************************************************)
(* free_list.c: the queue of free physical registers, a circular array     *)
(* flQueue with the indices FL_head and FL_tail, both -1 when it is empty. *)
(*                                                                         *)
(* On its own the module is driven by the loop of APEX_cpu_init that fills *)
(* the list and then by any sequence of calls of its two operations;       *)
(* ApexCpu calls the same operators from the stages that do in the code.   *)
(***************************************************************************)
EXTENDS CircularIndex, Sequences

CONSTANT PREG_FILE_SIZE   \* physical registers, and slots of the list

ASSUME PregFileSizeAssumption == PREG_FILE_SIZE \in Nat \ {0}

VARIABLES
  flQueue,  \* the slots; an index in 0 .. PREG_FILE_SIZE-1 to a register
  FL_head,  \* the slot of the oldest free register, -1 when there is none
  FL_tail,  \* the slot of the newest, -1 when there is none
  loaded    \* the counter i of the filling loop of APEX_cpu_init

flVars == <<flQueue, FL_head, FL_tail>>
vars   == <<flQueue, FL_head, FL_tail, loaded>>

Slot == 0 .. PREG_FILE_SIZE - 1
Preg == 0 .. PREG_FILE_SIZE - 1

----------------------------------------------------------------------------
(* The operations of free_list.c *)

checkEmpty_FL == FL_head = -1

(* The overflow test of put_physicalRegister_inFL. *)
FL_Full == \/ FL_head = FL_tail + 1
           \/ FL_head = 0 /\ FL_tail = PREG_FILE_SIZE - 1

(* Mutants of the insertion: the overflow test is gone, the first          *)
(* insertion leaves FL_head at -1.                                         *)
PutWithoutOverflowTest(preg) ==
  /\ FL_head' = IF FL_head = -1 THEN 0 ELSE FL_head
  /\ FL_tail' = (FL_tail + 1) % PREG_FILE_SIZE
  /\ flQueue' = [flQueue EXCEPT ![FL_tail'] = preg]

PutKeepingHead(preg) ==
  /\ ~FL_Full
  /\ UNCHANGED FL_head
  /\ FL_tail' = (FL_tail + 1) % PREG_FILE_SIZE
  /\ flQueue' = [flQueue EXCEPT ![FL_tail'] = preg]

(* A register put into a full list is dropped ("Queue Overflow"). *)
put_physicalRegister_inFL(preg) ==
  \/ /\ FL_Full
     /\ UNCHANGED flVars
  \/ /\ ~FL_Full
     /\ FL_head' = IF FL_head = -1 THEN 0 ELSE FL_head
     /\ FL_tail' = (FL_tail + 1) % PREG_FILE_SIZE
     /\ flQueue' = [flQueue EXCEPT ![FL_tail'] = preg]

(* The register get_free_physical_register returns, -1 if there is none. *)
FreeRegister == IF checkEmpty_FL THEN -1 ELSE flQueue[FL_head]

(* Mutants of the removal: the last removal does not reset the indices, or *)
(* resets FL_head only.                                                    *)
TakeWithoutReset ==
  /\ ~checkEmpty_FL
  /\ FL_head' = (FL_head + 1) % PREG_FILE_SIZE
  /\ UNCHANGED <<flQueue, FL_tail>>

TakeResettingHeadOnly ==
  /\ ~checkEmpty_FL
  /\ FL_head' = IF FL_head = FL_tail THEN -1 ELSE (FL_head + 1) % PREG_FILE_SIZE
  /\ UNCHANGED <<flQueue, FL_tail>>

(* Its effect: the front register leaves the list. *)
get_free_physical_register ==
  /\ UNCHANGED flQueue
  /\ \/ checkEmpty_FL /\ UNCHANGED <<FL_head, FL_tail>>
     \/ /\ ~checkEmpty_FL
        /\ FL_head = FL_tail
        /\ FL_head' = -1
        /\ FL_tail' = -1
     \/ /\ ~checkEmpty_FL
        /\ FL_head # FL_tail
        /\ FL_head' = (FL_head + 1) % PREG_FILE_SIZE
        /\ UNCHANGED FL_tail

----------------------------------------------------------------------------
(* The filling loop of APEX_cpu_init runs i from 0 to PREG_FILE_SIZE       *)
(* INCLUSIVE: one call more than there are registers.                      *)

Init == /\ flQueue = [i \in Slot |-> 0]
        /\ FL_head = -1
        /\ FL_tail = -1
        /\ loaded = 0

Load == /\ loaded <= PREG_FILE_SIZE
        /\ put_physicalRegister_inFL(loaded)
        /\ loaded' = loaded + 1

Ready == loaded = PREG_FILE_SIZE + 1

(* IUforward returns a register, DR1 takes one. *)
Put == \E p \in Preg : /\ Ready
                       /\ put_physicalRegister_inFL(p)
                       /\ UNCHANGED loaded

Get == /\ Ready
       /\ get_free_physical_register
       /\ UNCHANGED loaded

Next == Load \/ Put \/ Get

Spec == Init /\ [][Next]_vars

----------------------------------------------------------------------------
(* Properties *)

(* Every slot holds a register that exists and the indices stay in range:  *)
(* the loop's extra call, with the register number PREG_FILE_SIZE, must be *)
(* turned away by the overflow test.                                       *)
TypeOK == /\ flQueue \in [Slot -> Preg]
          /\ FL_head \in -1 .. PREG_FILE_SIZE - 1
          /\ FL_tail \in -1 .. PREG_FILE_SIZE - 1
          /\ loaded \in 0 .. PREG_FILE_SIZE + 1

(* The two indices say "empty" together, and while the list is being       *)
(* filled they span exactly the registers put so far.                      *)
IndexInv == /\ FL_head = -1 <=> FL_tail = -1
            /\ loaded = 0 => FL_head = -1
            /\ loaded \in 1 .. PREG_FILE_SIZE => /\ FL_head = 0
                                                 /\ FL_tail = loaded - 1

(* The full list, register i in slot i: the state ApexCpu starts from.     *)
Loaded == /\ flQueue = [i \in Slot |-> i]
          /\ FL_head = 0
          /\ FL_tail = PREG_FILE_SIZE - 1

(* The filling loop ends with every register free exactly once, although   *)
(* it makes one call too many.                                             *)
LoadFillsList == [][Ready' /\ ~Ready => Loaded']_vars

Count == RingCount(FL_head, FL_tail, PREG_FILE_SIZE)

(* The free registers in the order they will be handed out. *)
Contents == [k \in 1 .. Count |-> flQueue[RingSlot(FL_head, k, PREG_FILE_SIZE)]]

Fifo == INSTANCE BoundedFifo
          WITH Item <- Preg, Capacity <- PREG_FILE_SIZE, q <- Contents

(* The list is a first-in first-out queue: registers are reused in the     *)
(* order they were freed, whatever the wrap-around of the two indices.     *)
ImplementsFifo == Fifo!Spec
============================================================================
