--------------------------- MODULE ApexCpuProofs ---------------------------
(***************************************************************************)
(* What holds for every program, every size of the queues and of the       *)
(* register files, and every memory layout: the room DR1 tests for is      *)
(* there when RD2 uses it; every latch, register, index and queue entry    *)
(* is of its type; and, because of the order of the calls, no instruction  *)
(* is overwritten, the reorder buffer is a queue, an instruction in the    *)
(* integer unit has the lsq index that is its own, and a physical register *)
(* has one owner.                                                          *)
(***************************************************************************)
EXTENDS ApexCpu, CircularIndexProofs, FiniteSetTheorems, SequenceTheorems,
        WellFoundedInduction, TLAPS

(* What the argument needs to know of the two latches of the front end.    *)
FrontShape ==
  /\ {"DR1", "RD2"} \subseteq DOMAIN latch
  /\ \A s \in {"DR1", "RD2"} : /\ "has_insn" \in DOMAIN latch[s]
                               /\ latch[s].has_insn \in BOOLEAN

RobIndices == RingIndices(rob_head, rob_tail, rob_SIZE)

(* The strengthening of RobRoom and IqRoom that every step preserves.      *)
RoomInv == FrontShape /\ RobIndices /\ curr_iqSize \in Int /\ RobRoom /\ IqRoom

(* A step that leaves both latches of the front end as they are.           *)
SameFront == /\ DOMAIN latch' = DOMAIN latch
             /\ \A s \in {"DR1", "RD2"} : latch'[s] = latch[s]

(* What keeps both latches of the front end keeps their shape.             *)
LEMMA SameFrontKeepsShape == FrontShape /\ SameFront => FrontShape'
  BY DEF FrontShape, SameFront

(* The queues are empty at the start, and RD2 holds nothing.               *)
LEMMA InitRoom == Init => RoomInv
<1>. SUFFICES ASSUME Init PROVE RoomInv
  OBVIOUS
<1>1. {"DR1", "RD2"} \subseteq Stages \ {"fetch", "prompt"}
  <2>1. StageOrder[11] = "RD2" /\ StageOrder[12] = "DR1" /\ Len(StageOrder) = 14
    BY DEF StageOrder
  <2>. QED BY <2>1 DEF Stages
<1>2. FrontShape
  BY <1>1 DEF Init, FrontShape, Bubble
<1>3. ~latch.RD2.has_insn
  BY <1>1 DEF Init, Bubble
<1>4. RobIndices
  BY SizesAssumption DEF Init, ROB!Init, RobIndices, RingIndices
<1>5. RobRoom /\ IqRoom /\ curr_iqSize \in Int
  BY <1>3, SizesAssumption DEF Init, IQ!Init, RobRoom, IqRoom
<1>. QED BY <1>2, <1>4, <1>5 DEF RoomInv

(* The removal of the oldest instruction makes room.                       *)
LEMMA CommitmentMakesRoom ==
  ASSUME RobIndices, ROB!rob_Commitment
  PROVE  RobIndices' /\ (~ROB!rob_checkFull => ~ROB!rob_checkFull')
<1>. USE SizesAssumption DEF RobIndices, RingIndices, ROB!rob_checkFull
<1>1. CASE ROB!rob_checkEmpty
  BY <1>1 DEF ROB!rob_Commitment, ROB!rob_checkEmpty
<1>2. CASE ~ROB!rob_checkEmpty /\ rob_head = rob_tail
  BY <1>2 DEF ROB!rob_Commitment, ROB!rob_checkEmpty
<1>3. CASE ~ROB!rob_checkEmpty /\ rob_head # rob_tail
  <2>1. rob_head' = (rob_head + 1) % rob_SIZE /\ rob_tail' = rob_tail
    BY <1>3 DEF ROB!rob_Commitment, ROB!rob_checkEmpty
  <2>2. rob_head' = IF rob_head = rob_SIZE - 1 THEN 0 ELSE rob_head + 1
    BY <1>3, <2>1 DEF ROB!rob_checkEmpty
  <2>. QED BY <1>3, <2>1, <2>2 DEF ROB!rob_checkEmpty
<1>. QED BY <1>1, <1>2, <1>3

(* rob_Entry advances the tail within the array, full or not.              *)
LEMMA EntryKeepsIndices ==
  ASSUME RobIndices, NEW insn, ROB!rob_Entry(insn)
  PROVE  RobIndices'
<1>1. rob_tail' = (rob_tail + 1) % rob_SIZE
      /\ rob_head' = IF rob_head = -1 THEN 0 ELSE rob_head
  BY DEF ROB!rob_Entry
<1>2. (rob_tail + 1) % rob_SIZE \in 0 .. rob_SIZE - 1
  BY SizesAssumption DEF RobIndices, RingIndices
<1>. QED BY <1>1, <1>2, SizesAssumption DEF RobIndices, RingIndices

(* The stages that neither enter nor remove an instruction of the rob or   *)
(* the issue queue and do not fill RD2.                                    *)
Quiet == /\ FrontShape'
         /\ latch'.RD2.has_insn => latch.RD2.has_insn
         /\ UNCHANGED <<rob_head, rob_tail, curr_iqSize>>

(* Room is kept by a quiet step.                                           *)
LEMMA QuietKeepsRoom == RoomInv /\ Quiet => RoomInv'
<1>. SUFFICES ASSUME RoomInv, Quiet PROVE RoomInv'
  OBVIOUS
<1>1. latch.RD2.has_insn \in BOOLEAN /\ latch'.RD2.has_insn \in BOOLEAN
  BY DEF RoomInv, Quiet, FrontShape
<1>2. RobRoom' /\ RobIndices'
  BY <1>1 DEF RoomInv, Quiet, RobRoom, RobIndices, RingIndices, ROB!rob_checkFull
<1>3. IqRoom' /\ curr_iqSize' \in Int
  BY <1>1, SizesAssumption DEF RoomInv, Quiet, IqRoom
<1>. QED BY <1>2, <1>3 DEF RoomInv, Quiet

(* A step that changes neither latch nor what is in the queues is quiet.   *)
LEMMA SameFrontIsQuiet ==
  ASSUME RoomInv, SameFront, UNCHANGED <<rob_head, rob_tail, curr_iqSize>>
  PROVE  Quiet
  BY SameFrontKeepsShape DEF RoomInv, SameFront, Quiet
----------------------------------------------------------------------------
(* The stages, one lemma each. *)

(* Fetch fills DR1, and nothing else.                                      *)
LEMMA FetchKeepsRoom == RoomInv /\ APEX_fetch => RoomInv'
<1>. SUFFICES ASSUME RoomInv, APEX_fetch PROVE RoomInv'
  OBVIOUS
<1>1. UNCHANGED <<rob_head, rob_tail, curr_iqSize>>
  BY DEF APEX_fetch, iqVars, robVars
<1>2. CASE FetchInsn
  <2>. DEFINE insn == code[CodeIndex(pc)]
              d == [Bubble EXCEPT !.has_insn = TRUE, !.pc = pc, !.opcode = insn.opcode,
                                  !.rd = insn.rd, !.rs1 = insn.rs1, !.rs2 = insn.rs2,
                                  !.imm = insn.imm]
  <2>1. latch' = [latch EXCEPT !.DR1 = d]
    BY <1>2 DEF FetchInsn
  <2>2. "has_insn" \in DOMAIN d /\ d.has_insn \in BOOLEAN
    BY DEF Bubble
  <2>. HIDE DEF d
  <2>. QED
    BY <1>1, <2>1, <2>2, QuietKeepsRoom DEF RoomInv, FrontShape, Quiet
<1>3. CASE UNCHANGED latch
  BY <1>1, <1>3, QuietKeepsRoom DEF RoomInv, FrontShape, Quiet
<1>. QED
  BY <1>2, <1>3 DEF APEX_fetch, SkipFetch

(* DR1 fills RD2, but only when there is room in both queues.              *)
LEMMA DR1KeepsRoom == RoomInv /\ APEX_DR1 => RoomInv'
<1>. SUFFICES ASSUME RoomInv, APEX_DR1 PROVE RoomInv'
  OBVIOUS
<1>1. UNCHANGED <<rob_head, rob_tail, curr_iqSize>>
  BY DEF APEX_DR1, iqVars, robVars
<1>2. CASE DR1_MayPass /\ latch' = [latch EXCEPT !.RD2 = Decoded(latch.DR1),
                                                !.DR1.has_insn = FALSE]
  <2>1. /\ "has_insn" \in DOMAIN Decoded(latch.DR1)
        /\ Decoded(latch.DR1).has_insn = latch.DR1.has_insn
    BY DEF Decoded, RoomInv, FrontShape
  <2>2. FrontShape'
    BY <1>2, <2>1 DEF RoomInv, FrontShape
  <2>3. ~ROB!rob_checkFull /\ curr_iqSize + 1 <= iq_SIZE - 1
    BY <1>2 DEF DR1_MayPass, IQ!is_IQ_Full
  <2>4. RobRoom' /\ RobIndices'
    BY <1>1, <2>3 DEF RoomInv, RobRoom, RobIndices, RingIndices, ROB!rob_checkFull
  <2>5. IqRoom' /\ curr_iqSize' \in Int
    BY <1>1, <2>3, SizesAssumption DEF RoomInv, IqRoom
  <2>. QED
    BY <2>2, <2>4, <2>5 DEF RoomInv
<1>3. CASE UNCHANGED latch
  BY <1>1, <1>3, QuietKeepsRoom DEF RoomInv, FrontShape, Quiet
<1>. QED
  BY <1>2, <1>3 DEF APEX_DR1

(* RD2 uses the room, and is empty afterwards.                             *)
LEMMA RD2KeepsRoom == RoomInv /\ APEX_RD2 => RoomInv'
<1>. SUFFICES ASSUME RoomInv, APEX_RD2 PROVE RoomInv'
  OBVIOUS
<1>1. PICK sent : /\ latch' = [latch EXCEPT !.issue = sent, !.RD2.has_insn = FALSE]
                  /\ \/ /\ IQ!iqEntry(sent, fuType(latch.RD2.opcode))
                        /\ ROB!rob_Entry(sent)
                     \/ UNCHANGED <<iqVars, robVars>>
  BY DEF APEX_RD2
<1>2. FrontShape' /\ latch'.RD2.has_insn = FALSE
  BY <1>1 DEF RoomInv, FrontShape
<1>3. RobIndices'
  <2>1. CASE ROB!rob_Entry(sent)
    BY <2>1, EntryKeepsIndices DEF RoomInv
  <2>2. CASE UNCHANGED robVars
    BY <2>2 DEF robVars, RoomInv, RobIndices, RingIndices
  <2>. QED BY <1>1, <2>1, <2>2
<1>4. curr_iqSize' \in {curr_iqSize, curr_iqSize + 1}
  BY <1>1 DEF IQ!iqEntry, iqVars
<1>5. latch.RD2.has_insn
  BY DEF APEX_RD2
<1>6. IqRoom' /\ curr_iqSize' \in Int
  BY <1>2, <1>4, <1>5, SizesAssumption DEF RoomInv, IqRoom
<1>7. RobRoom'
  BY <1>2 DEF RobRoom
<1>. QED BY <1>2, <1>3, <1>6, <1>7 DEF RoomInv

(* An issue lowers the counter, whether or not its entry leaves the list.  *)
LEMMA IssueKeepsRoom == RoomInv /\ APEX_issue => RoomInv'
<1>. SUFFICES ASSUME RoomInv, APEX_issue PROVE RoomInv'
  OBVIOUS
<1>1. rob_head' = rob_head /\ rob_tail' = rob_tail
  BY DEF APEX_issue, robVars
<1>2. ASSUME NEW l, MemoryPart(l)
      PROVE  \/ latch' = l
             \/ \E op : latch' = [l EXCEPT !.issue = op, !.memory = op]
  BY <1>2 DEF MemoryPart, LoadToMemory, StoreToMemory, NothingToMemory, StartMemory
<1>3. ASSUME NEW l, MemoryPart(l), {"DR1", "RD2"} \subseteq DOMAIN l,
             l["DR1"] = latch["DR1"], l["RD2"] = latch["RD2"]
      PROVE  FrontShape' /\ latch'.RD2.has_insn = latch.RD2.has_insn
  <2>1. CASE latch' = l
    BY <1>3, <2>1 DEF RoomInv, FrontShape
  <2>2. ASSUME NEW op, latch' = [l EXCEPT !.issue = op, !.memory = op]
        PROVE  FrontShape' /\ latch'.RD2.has_insn = latch.RD2.has_insn
    <3>1. {"DR1", "RD2"} \subseteq DOMAIN latch'
      BY <1>3, <2>2
    <3>2. latch'["DR1"] = latch["DR1"] /\ latch'["RD2"] = latch["RD2"]
      BY <1>3, <2>2
    <3>. QED
      BY <3>1, <3>2 DEF RoomInv, FrontShape
  <2>. QED
    BY <1>2, <1>3, <2>1, <2>2
<1>4. ASSUME NEW entry, NEW u \in {"IU", "MU", "BU"}
      PROVE  LET l == [latch EXCEPT !.issue = entry, ![u] = entry]
             IN  /\ {"DR1", "RD2"} \subseteq DOMAIN l
                 /\ l["DR1"] = latch["DR1"]
                 /\ l["RD2"] = latch["RD2"]
  BY DEF RoomInv, FrontShape
<1>5. FrontShape' /\ latch'.RD2.has_insn = latch.RD2.has_insn
      /\ curr_iqSize' \in {curr_iqSize, curr_iqSize - 1}
  <2>1. CASE MemoryPart(latch) /\ UNCHANGED curr_iqSize
    BY <2>1, <1>3 DEF RoomInv, FrontShape
  <2>2. ASSUME NEW fu \in IQ!Unit, NEW entry,
               MemoryPart([latch EXCEPT !.issue = entry, ![UnitStage(fu)] = entry]),
               curr_iqSize' = curr_iqSize - 1
        PROVE  FrontShape' /\ latch'.RD2.has_insn = latch.RD2.has_insn
    <3>1. UnitStage(fu) \in {"IU", "MU", "BU"}
      BY DEF IQ!Unit, UnitStage
    <3>. QED BY <1>3, <1>4, <2>2, <3>1
  <2>. QED
    BY <2>1, <2>2 DEF APEX_issue
<1>6. RobRoom' /\ RobIndices'
  BY <1>1, <1>5 DEF RoomInv, RobRoom, RobIndices, RingIndices, ROB!rob_checkFull
<1>7. IqRoom' /\ curr_iqSize' \in Int
  BY <1>5, SizesAssumption DEF RoomInv, FrontShape, IqRoom
<1>. QED BY <1>5, <1>6, <1>7 DEF RoomInv

(* A taken branch may empty both latches of the front end.                 *)
LEMMA BUKeepsRoom == RoomInv /\ APEX_BU => RoomInv'
<1>. SUFFICES ASSUME RoomInv, APEX_BU PROVE RoomInv'
  OBVIOUS
<1>1. UNCHANGED <<rob_head, rob_tail, curr_iqSize>>
  BY DEF APEX_BU, ROB!rob_update, robVars, iqVars
<1>2. CASE Branch
  BY <1>1, <1>2, QuietKeepsRoom DEF Branch, RoomInv, FrontShape, Quiet
<1>3. CASE latch' = [latch EXCEPT !.BU.has_insn = FALSE] \/ UNCHANGED latch
  BY <1>1, <1>3, SameFrontIsQuiet, QuietKeepsRoom DEF RoomInv, FrontShape, SameFront
<1>. QED
  BY <1>2, <1>3 DEF APEX_BU

(* APEX_ROBcommit takes instructions out of the rob.                       *)
LEMMA ROBcommitKeepsRoom == RoomInv /\ APEX_ROBcommit => RoomInv'
<1>. SUFFICES ASSUME RoomInv, APEX_ROBcommit PROVE RoomInv'
  OBVIOUS
<1>1. SameFront
  BY DEF APEX_ROBcommit, SameFront, RoomInv, FrontShape
<1>2. RobIndices' /\ (~ROB!rob_checkFull => ~ROB!rob_checkFull')
  <2>1. CASE ROB!rob_Commitment
    BY <2>1, CommitmentMakesRoom DEF RoomInv
  <2>2. CASE UNCHANGED robVars
    BY <2>2 DEF robVars, RoomInv, RobIndices, RingIndices, ROB!rob_checkFull
  <2>. QED BY <2>1, <2>2 DEF APEX_ROBcommit
<1>3. FrontShape' /\ latch'.RD2 = latch.RD2
  BY <1>1, SameFrontKeepsShape DEF RoomInv, SameFront
<1>4. curr_iqSize' = curr_iqSize
  BY DEF APEX_ROBcommit, iqVars
<1>. QED BY <1>2, <1>3, <1>4 DEF RoomInv, RobRoom, IqRoom

(* The other stages: they do not touch the latches of the front end, and   *)
(* of the queues they change the entries only.                             *)
LEMMA OthersKeepRoom ==
  ASSUME RoomInv,
         \/ APEX_writeback \/ APEX_memoryForward \/ APEX_MUforward \/ APEX_MU
         \/ APEX_IUforward \/ APEX_IU \/ APEX_memory \/ Prompt \/ APEX_cpu_stop
         \/ Idle \/ UNCHANGED vars
  PROVE  RoomInv'
<1>. USE DEF RoomInv, FrontShape, SameFront, robVars, iqVars
<1>1. CASE APEX_writeback
  BY <1>1, SameFrontIsQuiet, QuietKeepsRoom DEF APEX_writeback
<1>2. CASE APEX_memoryForward
  BY <1>2, SameFrontIsQuiet, QuietKeepsRoom DEF APEX_memoryForward
<1>3. CASE APEX_MUforward
  BY <1>3, SameFrontIsQuiet, QuietKeepsRoom
  DEF APEX_MUforward, ROB!rob_update, IQ!IQupdate
<1>4. CASE APEX_MU
  BY <1>4, SameFrontIsQuiet, QuietKeepsRoom DEF APEX_MU
<1>5. CASE APEX_IUforward
  BY <1>5, SameFrontIsQuiet, QuietKeepsRoom
  DEF APEX_IUforward, ROB!rob_update, IQ!IQupdate
<1>6. CASE APEX_IU
  BY <1>6, SameFrontIsQuiet, QuietKeepsRoom DEF APEX_IU
<1>7. CASE APEX_memory
  BY <1>7, SameFrontIsQuiet, QuietKeepsRoom DEF APEX_memory
<1>8. CASE Prompt \/ APEX_cpu_stop \/ Idle \/ UNCHANGED vars
  BY <1>8, SameFrontIsQuiet, QuietKeepsRoom DEF Prompt, APEX_cpu_stop, Idle, vars
<1>. QED
  BY <1>1, <1>2, <1>3, <1>4, <1>5, <1>6, <1>7, <1>8

----------------------------------------------------------------------------
(* Every step keeps the room.                                              *)
LEMMA RoomKept == RoomInv /\ [Next]_vars => RoomInv'
  BY FetchKeepsRoom, DR1KeepsRoom, RD2KeepsRoom, IssueKeepsRoom, BUKeepsRoom,
     ROBcommitKeepsRoom, OthersKeepRoom DEF Next

(* The inductive invariant of the room holds throughout.                   *)
THEOREM RoomInvariant == Spec => []RoomInv
  BY InitRoom, RoomKept, PTL DEF Spec

(* RD2 calls rob_Entry without a test.  The one DR1 made in the cycle      *)
(* before is enough: no instruction enters the rob in between.             *)
THEOREM RobRoomHolds == Spec => []RobRoom
<1>1. RoomInv => RobRoom
  BY DEF RoomInv
<1>. QED
  BY RoomInvariant, <1>1, PTL

(* The counter the issue queue's test reads never reaches iq_SIZE, however *)
(* far the list itself has grown.                                          *)
THEOREM IqRoomHolds == Spec => []IqRoom
<1>1. RoomInv => IqRoom
  BY DEF RoomInv
<1>. QED
  BY RoomInvariant, <1>1, PTL

----------------------------------------------------------------------------
(* The types *)

LatchStage == Stages \ {"fetch", "prompt"}

(* The entries of the issue queue, and the instructions of the code memory. *)
QueueEntry == {e \in IQ!Entry : /\ e.pc \in InsnPc /\ e.dest \in Preg /\ LiteralFits(e)
                                /\ e.src1Ready = 1 /\ e.src2Ready = 1
                                /\ e.fuType = fuType(e.opcode)}
CodeEntry == {insn \in Instruction : LiteralFits(insn)}

ControlTypes ==
  /\ at \in Stages \cup Ends
  /\ code \in Seq(CodeEntry)
  /\ \E p \in Programs : Len(code) = Len(p)
  /\ overlay \in Overlays
  /\ heap_intact \in BOOLEAN
  /\ pc \in Int
  /\ fetching \in BOOLEAN
  /\ fetch_from_next_cycle \in BOOLEAN

LatchesFit(l) ==
  /\ l \in [LatchStage -> Latch]
  /\ \A s \in {"DR1", "RD2"} : l[s].has_insn => l[s].pc \in InsnPc
  /\ \A s \in {"DR1", "RD2", "IU"} : LiteralFits(l[s])
LatchTypes == LatchesFit(latch)

DataTypes ==
  /\ regs \in [Reg -> Word]
  /\ pregs \in [Preg -> Word]
  /\ renameTable \in [Reg -> PregTag]
  /\ pr_valid_bit \in [Preg -> {0, 1}]
  /\ data_memory \in [0 .. DATA_MEMORY_SIZE - 1 -> Word]

(* A unit that works is not free, and its counter says for how long.       *)
UnitTypes ==
  /\ MU_counter \in 0 .. 5
  /\ MEM_counter \in 0 .. 3
  /\ latch.MU.has_insn => ~is_MU_free /\ MU_counter \in 1 .. 4
  /\ latch.memory.has_insn => ~is_MEM_free /\ MEM_counter \in 1 .. 2

FlagTypes == {zero_flag, positive_flag, is_MU_free, is_MEM_free} \subseteq BOOLEAN

FlTypes == /\ flQueue \in [Preg -> Preg]
           /\ RingIndices(FL_head, FL_tail, PREG_FILE_SIZE)
IqTypes == iq \in Seq(QueueEntry)
RobTypes == rob \in [ROB!RobSlot -> ROB!RobEntry]
LsqTypes == /\ lsq \in [LSQ!LsqSlot -> LSQ!LsqEntry]
            /\ RingIndices(lsq_head, lsq_tail, lsq_SIZE)
            
TypeInv == RoomInv /\ ControlTypes /\ LatchTypes /\ DataTypes /\ UnitTypes /\ FlagTypes /\ FlTypes
             /\ IqTypes /\ RobTypes /\ LsqTypes

----------------------------------------------------------------------------
(* The stages that have a latch, by name.                                  *)
LEMMA LatchStages ==
  LatchStage = {"writeback", "ROBcommit", "memoryForward", "MUforward", "MU", "BU",
                "IUforward", "IU", "issue", "memory", "RD2", "DR1"}
<1>1. Stages = {"writeback", "ROBcommit", "memoryForward", "MUforward", "MU", "BU",
                "IUforward", "IU", "issue", "memory", "RD2", "DR1", "fetch", "prompt"}
  <2>1. Len(StageOrder) = 14
    BY DEF StageOrder
  <2>2. 1 .. 14 = {1, 2, 3, 4, 5, 6, 7, 8, 9, 10, 11, 12, 13, 14}
    OBVIOUS
  <2>. QED
    BY <2>1, <2>2 DEF Stages, StageOrder
<1>. QED
  BY <1>1 DEF LatchStage

(* Every stage is followed by a stage.                                     *)
LEMMA AfterIsStage == ASSUME NEW s \in Stages PROVE After(s) \in Stages
<1>1. PICK k \in 1 .. Len(StageOrder) : StageOrder[k] = s
  BY DEF Stages
<1>2. Len(StageOrder) = 14
  BY DEF StageOrder
<1>3. (k % Len(StageOrder)) + 1 \in 1 .. Len(StageOrder)
  BY <1>2
<1>4. \E t \in Stages : \E j \in 1 .. Len(StageOrder) :
         StageOrder[j] = s /\ StageOrder[(j % Len(StageOrder)) + 1] = t
  BY <1>1, <1>3 DEF Stages
<1>. QED BY <1>4 DEF After

(* The arithmetic of an int stays an int.                                  *)
LEMMA WrapIsWord == ASSUME NEW x \in Int PROVE Wrap(x) \in Word
<1>. DEFINE n == 2 * (INT_MAX + 1)
<1>1. n \in Nat \ {0}
  BY SizesAssumption
<1>2. (x + INT_MAX + 1) % n \in 0 .. n - 1
  BY <1>1, SizesAssumption
<1>. QED BY <1>2, SizesAssumption DEF Wrap, Word

(* Zero is an int, and an int a number.                                    *)
LEMMA WordIsInt == Word \subseteq Int /\ 0 \in Word
  BY SizesAssumption DEF Word

(* has_insn is the only field a stage clears.                              *)
LEMMA Emptied ==
  ASSUME NEW v \in Latch, NEW b \in BOOLEAN
  PROVE  [v EXCEPT !.has_insn = b] \in Latch
  BY DEF Latch

(* The latches as calloc leaves them.                                      *)
LEMMA BubbleIsLatch == Bubble \in Latch
  BY SizesAssumption, WordIsInt DEF Bubble, Latch, Opcode, Reg, Preg, PregTag

(* What fetch may read has the address of an instruction.                  *)
LEMMA FetchedPc ==
  ASSUME ControlTypes, CodeIndex(pc) \in 1 .. Len(code)
  PROVE  pc \in InsnPc
<1>1. PICK p \in Programs : Len(code) = Len(p)
  BY DEF ControlTypes
<1>2. Len(code) \in Nat /\ pc \in Int
  BY DEF ControlTypes
<1>3. pc \in 3997 .. 3999 + 4 * Len(p)
  BY <1>1, <1>2 DEF CodeIndex
<1>. QED BY <1>3 DEF InsnPc

(* What the component modules ask of their constants.                      *)
LEMMA DomainsFit ==
  /\ "ADD" \in Opcode
  /\ 0 \in Reg \cap -1 .. lsq_SIZE - 1 \cap Word \cap PregTag
  /\ NoValue \notin Word
  /\ InsnPc # {}
<1>1. InsnPc # {}
  <2>1. PICK p \in Programs : TRUE
    BY ProgramsAssumption
  <2>2. Len(p) \in Nat
    BY ProgramsAssumption
  <2>3. 3997 \in 3997 .. 3999 + 4 * Len(p)
    BY <2>2
  <2>4. 3997 \in InsnPc
    BY <2>3 DEF InsnPc
  <2>. QED BY <2>4
<1>. QED
  BY <1>1, SizesAssumption, NoValueAssumption DEF Opcode, Reg, Word, PregTag

----------------------------------------------------------------------------
(* A set of numbers that is not empty has a least one.                     *)
LEMMA LeastExists ==
  ASSUME NEW S \in SUBSET Nat, S # {}
  PROVE  \E x \in S : \A y \in S : x <= y
<1>1. PICK x \in S : \A y \in S : ~(<<y, x>> \in OpToRel(<, Nat))
  BY NatLessThanWellFounded, WFMin
<1>2. \A y \in S : ~(y < x)
  BY <1>1 DEF OpToRel
<1>. QED BY <1>2

(* One that is bounded has a greatest one.                                 *)
LEMMA GreatestExists ==
  ASSUME NEW n \in Nat, NEW S \in SUBSET (1 .. n), S # {}
  PROVE  \E x \in S : \A y \in S : x >= y
<1>. DEFINE T == {n - x : x \in S}
<1>1. T \in SUBSET Nat /\ T # {}
  <2>1. ASSUME NEW x \in S PROVE n - x \in Nat
    <3>1. x \in 1 .. n
      OBVIOUS
    <3>. QED BY <3>1
  <2>2. PICK x \in S : TRUE
    OBVIOUS
  <2>. QED BY <2>1, <2>2
<1>2. PICK t \in T : \A u \in T : t <= u
  BY <1>1, LeastExists
<1>3. PICK x \in S : t = n - x
  OBVIOUS
<1>4. \A y \in S : n - x <= n - y
  BY <1>2, <1>3
<1>. QED BY <1>4

(* Where the search for a pc stops is a slot of the array, on an empty     *)
(* buffer the one in front of it.                                          *)
LEMMA SearchStopIsSlot ==
  ASSUME RobIndices, NEW p
  PROVE  ROB!SearchStop(p) \in ROB!RobSlot
<1>1. \A k \in Int : ROB!RingSlot(rob_head, k, rob_SIZE) \in 0 .. rob_SIZE - 1
  BY SizesAssumption DEF RobIndices, RingIndices, ROB!RingSlot
<1>. DEFINE hits == {k \in 1 .. ROB!RobCount - 1 :
                       rob[ROB!RingSlot(rob_head, k, rob_SIZE)].pc_value = p}
<1>2. hits \in SUBSET Nat
  OBVIOUS
<1>3. CASE hits = {}
  BY <1>3, SizesAssumption DEF ROB!SearchStop, RobIndices, RingIndices, ROB!RobSlot
<1>4. CASE hits # {}
  <2>1. PICK k : k = CHOOSE i \in hits : \A j \in hits : i <= j
    OBVIOUS
  <2>2. k \in hits
    BY <1>2, <1>4, <2>1, LeastExists
  <2>3. ROB!SearchStop(p) = ROB!RingSlot(rob_head, k, rob_SIZE)
    BY <1>4, <2>1 DEF ROB!SearchStop
  <2>. QED BY <1>1, <1>2, <2>2, <2>3, SizesAssumption DEF ROB!RobSlot
<1>. QED BY <1>3, <1>4

(* The removal from the lsq keeps its indices in the array.                *)
LEMMA RemovalInRing ==
  ASSUME NEW h, NEW t, RingIndices(h, t, lsq_SIZE)
  PROVE  RingIndices(LSQ!lsq_to_mem(h, t).head, LSQ!lsq_to_mem(h, t).tail, lsq_SIZE)
<1>1. h = -1 \/ h = t \/ (h + 1) % lsq_SIZE \in 0 .. lsq_SIZE - 1
  BY SizesAssumption DEF RingIndices
<1>. QED BY <1>1, SizesAssumption DEF RingIndices, LSQ!lsq_to_mem

(* Setting the allocated bit of the first entry that lacks it keeps the    *)
(* types.                                                                  *)
LEMMA AllocationKeepsEntries ==
  ASSUME IqTypes
  PROVE  IQ!WithNextAllocated \in Seq(QueueEntry)
<1>1. PICK k0 : k0 = IQ!Min({k \in 1 .. Len(iq) : iq[k].allocatedBit = 0})
  OBVIOUS
<1>2. PICK r : r = [iq EXCEPT ![k0].allocatedBit = 1]
  OBVIOUS
<1>3. IQ!WithNextAllocated \in {iq, r}
  BY <1>1, <1>2 DEF IQ!WithNextAllocated
<1>4. Len(iq) \in Nat /\ iq \in [1 .. Len(iq) -> QueueEntry]
  BY LenProperties DEF IqTypes
<1>5. \A e \in QueueEntry : [e EXCEPT !.allocatedBit = 1] \in QueueEntry
  BY DEF QueueEntry, IQ!Entry, LiteralFits
<1>6. r = [k \in 1 .. Len(iq) |-> IF k = k0 THEN [iq[k] EXCEPT !.allocatedBit = 1] ELSE iq[k]]
  BY <1>2, <1>4
<1>7. r \in [1 .. Len(iq) -> QueueEntry]
  BY <1>4, <1>5, <1>6
<1>8. r \in Seq(QueueEntry)
  BY <1>4, <1>7, SeqDef
<1>. QED BY <1>3, <1>8 DEF IqTypes

(* The entry the last loop pass of issue leaves selected is one of the     *)
(* list.                                                                   *)
LEMMA SelectedIsEntry ==
  ASSUME NEW q \in Seq(QueueEntry), IQ!Allocated(q) # {}
  PROVE  /\ IQ!Max(IQ!Allocated(q)) \in IQ!Allocated(q)
         /\ IQ!Selected(q) \in QueueEntry
<1>1. Len(q) \in Nat /\ IQ!Allocated(q) \in SUBSET (1 .. Len(q))
  BY LenProperties DEF IQ!Allocated
<1>2. IQ!Max(IQ!Allocated(q)) \in IQ!Allocated(q)
  BY <1>1, GreatestExists DEF IQ!Max
<1>. QED BY <1>1, <1>2 DEF IQ!Selected

(* Taking the head off the list keeps its types.                           *)
LEMMA UnlinkKeepsEntries ==
  ASSUME NEW q \in Seq(QueueEntry)
  PROVE  IQ!Unlinked(q) \in Seq(QueueEntry)
<1>1. CASE IQ!Allocated(q) = {1}
  <2>1. q # << >>
    BY <1>1, LenProperties DEF IQ!Allocated
  <2>. QED BY <1>1, <2>1, HeadTailProperties DEF IQ!Unlinked
<1>2. CASE IQ!Allocated(q) # {1}
  BY <1>2 DEF IQ!Unlinked
<1>. QED BY <1>1, <1>2

(* A latch may be overwritten with an instruction that fits its place.     *)
LEMMA PutKeepsLatches ==
  ASSUME NEW l, LatchesFit(l), NEW s \in LatchStage, NEW v \in Latch,
         s \in {"DR1", "RD2"} /\ v.has_insn => v.pc \in InsnPc,
         s \in {"DR1", "RD2", "IU"} => LiteralFits(v)
  PROVE  LatchesFit([l EXCEPT ![s] = v])
<1>. DEFINE m == [l EXCEPT ![s] = v]
<1>1. m \in [LatchStage -> Latch] /\ \A t \in LatchStage : m[t] = IF t = s THEN v ELSE l[t]
  BY DEF LatchesFit
<1>2. {"DR1", "RD2", "IU"} \subseteq LatchStage
  BY LatchStages
<1>3. ASSUME NEW t \in {"DR1", "RD2"}, m[t].has_insn PROVE m[t].pc \in InsnPc
  BY <1>1, <1>2, <1>3 DEF LatchesFit
<1>4. ASSUME NEW t \in {"DR1", "RD2", "IU"} PROVE LiteralFits(m[t])
  BY <1>1, <1>2, <1>4 DEF LatchesFit
<1>. HIDE DEF m
<1>5. LatchesFit(m)
  BY <1>1, <1>3, <1>4 DEF LatchesFit
<1>. QED
  BY <1>5 DEF m

(* What a fitting set of latches holds.                                    *)
LEMMA LatchIs ==
  ASSUME NEW l, LatchesFit(l), NEW s \in LatchStage
  PROVE  l[s] \in Latch
  BY DEF LatchesFit

(* Any latch may be emptied.                                               *)
LEMMA ClearKeepsLatches ==
  ASSUME NEW l, LatchesFit(l), NEW s \in LatchStage, NEW b \in BOOLEAN,
         b => s \notin {"DR1", "RD2"}
  PROVE  LatchesFit([l EXCEPT ![s].has_insn = b])
<1>1. PICK v : v = [l[s] EXCEPT !.has_insn = b]
  OBVIOUS
<1>2. v \in Latch
  BY <1>1, Emptied, LatchIs
<1>3. [l EXCEPT ![s].has_insn = b] = [l EXCEPT ![s] = v]
  BY <1>1
<1>4. v.has_insn = b /\ v.opcode = l[s].opcode /\ v.imm = l[s].imm
  BY <1>1, LatchIs DEF Latch
<1>5. s \in {"DR1", "RD2", "IU"} => LiteralFits(v)
  BY <1>4 DEF LatchesFit, LiteralFits
<1>6. LatchesFit([l EXCEPT ![s] = v])
  BY <1>2, <1>4, <1>5, PutKeepsLatches
<1>. QED
  BY <1>3, <1>6

(* DR1's test of the free list: the register it gets is none less than 0.  *)
LEMMA FreeIsPreg ==
  ASSUME TypeInv, DR1_MayPass
  PROVE  FL!FreeRegister \in Preg
  BY DEF DR1_MayPass, FL!checkEmpty_FL, FL!FreeRegister, TypeInv, FlTypes, RingIndices, Preg

(* A latch with other sources and another destination is a latch.          *)
LEMMA SourcesPut ==
  ASSUME NEW x \in Latch, NEW d1 \in Preg, NEW d2 \in PregTag, NEW d3 \in PregTag,
         NEW d4 \in Word, NEW d5 \in PregTag \cup {0, 1}, NEW d6 \in Word
  PROVE  [x EXCEPT !.prd = d1, !.prs1 = d2, !.prs2 = d3, !.rs1_value = d4,
                   !.prs1_valid = d5, !.rs2_value = d6] \in Latch
  BY DEF Latch

(* What each stage puts into a latch is an instruction.                    *)
LEMMA LatchTypesKept ==
  ASSUME TypeInv, [Next]_vars
  PROVE  LatchTypes'
<1>. USE DEF LatchTypes
<1>0. LatchesFit(latch) /\ latch \in [LatchStage -> Latch]
  BY DEF TypeInv, LatchesFit
<1>1. CASE APEX_writeback
  BY <1>1, ClearKeepsLatches, LatchStages DEF APEX_writeback, TypeInv
<1>2. CASE APEX_ROBcommit
  <2>1. ASSUME NEW e \in ROB!RobEntry
        PROVE  [latch.ROBcommit EXCEPT !.result_buffer = e.result,
                             !.rd = e.rd, !.opcode = e.opcode, !.pc = e.pc_value] \in Latch
    <3>1. latch.ROBcommit \in Latch
      BY <1>0, LatchStages
    <3>2. e.result \in Word /\ e.rd \in Reg /\ e.opcode \in Opcode
          /\ e.pc_value \in InsnPc \cup {0, -1}
      BY DEF ROB!RobEntry
    <3>. QED BY <3>1, <3>2 DEF Latch
  <2>2. rob[rob_head] \in ROB!RobEntry
    BY DEF TypeInv, RobTypes, RoomInv, RobIndices, RingIndices, ROB!RobSlot
  <2>3. ASSUME NEW v \in Latch, NEW w \in Latch
        PROVE  LatchesFit([latch EXCEPT !.writeback = v, !.ROBcommit = w])
    <3>1. PICK l : l = [latch EXCEPT !.writeback = v]
      OBVIOUS
    <3>2. LatchesFit(l)
      BY <1>0, <3>1, PutKeepsLatches, LatchStages
    <3>3. LatchesFit([l EXCEPT !.ROBcommit = w])
      BY <3>2, PutKeepsLatches, LatchStages
    <3>. QED BY <1>0, <3>1, <3>3
  <2>4. PICK v : v = [latch.ROBcommit EXCEPT !.result_buffer = rob[rob_head].result,
                        !.rd = rob[rob_head].rd, !.opcode = rob[rob_head].opcode,
                        !.pc = rob[rob_head].pc_value]
    OBVIOUS
  <2>5. v \in Latch /\ [v EXCEPT !.has_insn = (rob_head' # -1)] \in Latch
    BY <2>1, <2>2, <2>4, Emptied
  <2>6. \/ latch' = latch
        \/ latch' = [latch EXCEPT !.writeback = v,
                                  !.ROBcommit = [v EXCEPT !.has_insn = (rob_head' # -1)]]
    BY <1>2, <2>4 DEF APEX_ROBcommit
  <2>. QED
    BY <1>0, <2>3, <2>5, <2>6
<1>3. ASSUME NEW s \in LatchStage \ {"ROBcommit"},
             latch' = [latch EXCEPT ![s].has_insn = FALSE, !.ROBcommit.has_insn = TRUE]
      PROVE  LatchTypes'
  <2>1. PICK l : l = [latch EXCEPT ![s].has_insn = FALSE]
    OBVIOUS
  <2>2. LatchesFit(l)
    BY <1>0, <2>1, ClearKeepsLatches
  <2>3. LatchesFit([l EXCEPT !.ROBcommit.has_insn = TRUE])
    BY <2>2, ClearKeepsLatches, LatchStages
  <2>. QED BY <1>3, <2>1, <2>3
<1>4. CASE APEX_memoryForward \/ APEX_MUforward \/ APEX_IUforward
  <2>1. \E s \in {"memoryForward", "MUforward", "IUforward"} :
          latch' = [latch EXCEPT ![s].has_insn = FALSE, !.ROBcommit.has_insn = TRUE]
    BY <1>4 DEF APEX_memoryForward, APEX_MUforward, APEX_IUforward
  <2>. QED
    BY <2>1, <1>3, LatchStages
(* A stage that hands the instruction on.                                  *)
<1>5. ASSUME NEW s \in LatchStage, NEW t \in LatchStage \ {"DR1", "RD2", "IU"}, t # s,
             NEW v \in Latch,
             latch' = [latch EXCEPT ![t] = v, ![s].has_insn = FALSE]
      PROVE  LatchTypes'
  <2>1. PICK l : l = [latch EXCEPT ![t] = v]
    OBVIOUS
  <2>2. LatchesFit(l)
    BY <1>0, <2>1, PutKeepsLatches
  <2>3. LatchesFit([l EXCEPT ![s].has_insn = FALSE])
    BY <2>2, ClearKeepsLatches
  <2>. QED BY <1>5, <2>1, <2>3
<1>6. CASE APEX_MU
  <2>1. latch.MU \in Latch
    BY <1>0, LatchStages
  <2>2. PICK result : result = IF latch.MU.opcode = "MUL"
                               THEN Wrap(latch.MU.rs1_value * latch.MU.rs2_value)
                               ELSE latch.MU.result_buffer
    OBVIOUS
  <2>3. result \in Word
    <3>1. /\ latch.MU.rs1_value \in Int /\ latch.MU.rs2_value \in Int
          /\ latch.MU.result_buffer \in Word
      BY <2>1, WordIsInt DEF Latch
    <3>2. latch.MU.rs1_value * latch.MU.rs2_value \in Int
      BY <3>1
    <3>. QED BY <2>2, <3>1, <3>2, WrapIsWord
  <2>4. [latch.MU EXCEPT !.result_buffer = result] \in Latch
    BY <2>1, <2>3 DEF Latch
  <2>5. \/ latch' = latch
        \/ latch' = [latch EXCEPT !.MU.has_insn = FALSE,
                                  !.MUforward = [latch.MU EXCEPT !.result_buffer = result]]
    BY <1>6, <2>2 DEF APEX_MU
  <2>6. ASSUME NEW v \in Latch, latch' = [latch EXCEPT !.MU.has_insn = FALSE, !.MUforward = v]
        PROVE  LatchTypes'
    <3>1. latch' = [latch EXCEPT !["MUforward"] = v, !["MU"].has_insn = FALSE]
      BY <1>0, <2>6, LatchStages
    <3>. QED BY <1>5, <3>1, LatchStages
  <2>. QED
    BY <1>0, <2>4, <2>5, <2>6
<1>7. CASE APEX_BU
  <2>1. CASE Branch
    <3>1. PICK l : l = [latch EXCEPT !.BU.has_insn = FALSE]
      OBVIOUS
    <3>2. PICK m : m = [l EXCEPT !.DR1.has_insn = FALSE]
      OBVIOUS
    <3>3. LatchesFit(l) /\ LatchesFit(m)
      BY <1>0, <3>1, <3>2, ClearKeepsLatches, LatchStages
    <3>4. m.RD2.has_insn = latch.RD2.has_insn /\ m.RD2.has_insn \in BOOLEAN
      BY <1>0, <3>1, <3>2, LatchStages DEF Latch
    <3>5. PICK b : b = (latch.RD2.has_insn /\ latch.BU.opcode = "BNP")
      OBVIOUS
    <3>6. latch' = [m EXCEPT !.RD2.has_insn = b]
      BY <1>0, <2>1, <3>1, <3>2, <3>5, LatchStages DEF Branch, Latch
    <3>7. CASE b = FALSE
      BY <3>3, <3>6, <3>7, ClearKeepsLatches, LatchStages
    <3>8. CASE b = TRUE /\ latch.RD2.has_insn = TRUE
      <4>1. m.RD2 = [m.RD2 EXCEPT !.has_insn = TRUE]
        BY <3>3, <3>4, <3>8, LatchStages DEF LatchesFit, Latch
      <4>2. [m EXCEPT !.RD2.has_insn = TRUE] = m
        BY <3>3, <4>1, LatchStages DEF LatchesFit
      <4>. QED BY <3>3, <3>6, <3>8, <4>2
    <3>. QED BY <3>4, <3>5, <3>7, <3>8
  <2>2. CASE latch' = [latch EXCEPT !.BU.has_insn = FALSE]
    BY <1>0, <2>2, ClearKeepsLatches, LatchStages
  <2>3. CASE latch' = latch
    BY <1>0, <2>3
  <2>. QED
    BY <1>7, <2>1, <2>2, <2>3 DEF APEX_BU
<1>8. CASE APEX_IU
  <2>1. latch.IU \in Latch /\ LiteralFits(latch.IU)
    BY <1>0, LatchStages DEF LatchesFit
  <2>2. IUResult(latch.IU) \in Word
    <3>1. /\ latch.IU.rs1_value \in Word /\ latch.IU.rs2_value \in Word
          /\ latch.IU.result_buffer \in Word /\ latch.IU.imm \in Int
      BY <2>1 DEF Latch
    <3>. DEFINE x == latch.IU.rs1_value
                y == latch.IU.rs2_value
    <3>2. /\ x + y \in Int /\ x + latch.IU.imm \in Int
          /\ x - y \in Int /\ x - latch.IU.imm \in Int
      <4>1. x \in Int /\ y \in Int /\ latch.IU.imm \in Int
        BY <3>1, WordIsInt
      <4>. QED BY <4>1
    <3>3. {Wrap(x + y), Wrap(x + latch.IU.imm), Wrap(x - y), Wrap(x - latch.IU.imm),
           BitAnd(x, y), BitOr(x, y), BitXor(x, y)} \subseteq Word
      BY <3>1, <3>2, WrapIsWord, BitwiseAssumption
    <3>. QED
      BY <2>1, <3>1, <3>3 DEF IUResult, LiteralFits
  <2>3. IUAddress(latch.IU) \in Word
    <3>1. /\ latch.IU.rs1_value \in Word /\ latch.IU.rs2_value \in Word
          /\ latch.IU.memory_address \in Word /\ latch.IU.imm \in Int
      BY <2>1 DEF Latch
    <3>2. /\ latch.IU.rs1_value + latch.IU.imm \in Int
          /\ latch.IU.rs2_value + latch.IU.imm \in Int
      <4>1. latch.IU.rs1_value \in Int /\ latch.IU.rs2_value \in Int
        BY <3>1, WordIsInt
      <4>. QED BY <3>1, <4>1
    <3>3. {Wrap(latch.IU.rs1_value + latch.IU.imm), Wrap(latch.IU.rs2_value + latch.IU.imm)}
            \subseteq Word
      BY <3>2, WrapIsWord
    <3>. QED
      BY <3>1, <3>3 DEF IUAddress
  <2>4. PICK v : v = [latch.IU EXCEPT !.result_buffer = IUResult(latch.IU),
                                      !.memory_address = IUAddress(latch.IU)]
    OBVIOUS
  <2>5. v \in Latch
    BY <2>1, <2>2, <2>3, <2>4 DEF Latch
  <2>6. latch' = [latch EXCEPT !.IUforward = v, !.IU.has_insn = FALSE]
    BY <1>8, <2>4 DEF APEX_IU
  <2>. QED
    BY <1>5, <2>5, <2>6, LatchStages
<1>9. CASE APEX_RD2
  <2>1. latch.RD2 \in Latch
    BY <1>0, LatchStages
  <2>2. lsq_tail' \in -1 .. lsq_SIZE - 1 \/ latch.RD2.opcode \notin {"LOAD", "STORE"}
    <3>1. CASE LSQ!lsq_Entry(latch.RD2)
      BY <3>1, SizesAssumption DEF LSQ!lsq_Entry, TypeInv, LsqTypes, RingIndices
    <3>. QED BY <1>9, <3>1 DEF APEX_RD2
  <2>3. PICK index : index = IF latch.RD2.opcode \in {"LOAD", "STORE"} THEN lsq_tail'
                             ELSE IF latch.RD2.opcode = "DIV" THEN latch.RD2.lsqIndex ELSE -1
    OBVIOUS
  <2>4. index \in -1 .. lsq_SIZE - 1
    BY <2>1, <2>2, <2>3, SizesAssumption DEF Latch
  <2>5. PICK v : v = [latch.RD2 EXCEPT !.lsqIndex = index]
    OBVIOUS
  <2>6. v \in Latch
    BY <2>1, <2>4, <2>5 DEF Latch
  <2>7. latch' = [latch EXCEPT !.issue = v, !.RD2.has_insn = FALSE]
    BY <1>9, <2>1, <2>3, <2>5 DEF APEX_RD2, Latch
  <2>. QED
    BY <1>5, <2>6, <2>7, LatchStages
<1>10. CASE APEX_fetch
  <2>1. CASE FetchInsn
    <3>1. PICK insn : insn = code[CodeIndex(pc)]
      OBVIOUS
    <3>2. insn \in Instruction /\ LiteralFits(insn)
      BY <2>1, <3>1 DEF FetchInsn, TypeInv, ControlTypes, CodeEntry
    <3>3. pc \in InsnPc
      BY <2>1, FetchedPc DEF FetchInsn, TypeInv
    <3>4. PICK v : v = [Bubble EXCEPT !.has_insn = TRUE, !.pc = pc, !.opcode = insn.opcode,
                                      !.rd = insn.rd, !.rs1 = insn.rs1, !.rs2 = insn.rs2,
                                      !.imm = insn.imm]
      OBVIOUS
    <3>5. /\ v \in Latch /\ v.pc \in InsnPc
          /\ v.opcode = insn.opcode /\ v.imm = insn.imm
      BY <3>2, <3>3, <3>4, BubbleIsLatch DEF Latch, Instruction
    <3>6. LiteralFits(v)
      BY <3>2, <3>5 DEF LiteralFits
    <3>7. latch' = [latch EXCEPT !.DR1 = v]
      BY <2>1, <3>1, <3>4 DEF FetchInsn
    <3>. QED
      BY <1>0, <3>5, <3>6, <3>7, PutKeepsLatches, LatchStages
  <2>. QED
    BY <1>0, <1>10, <2>1 DEF APEX_fetch, SkipFetch
<1>11. CASE APEX_DR1
  <2>1. latch.DR1 \in Latch /\ LiteralFits(latch.DR1) /\ latch.DR1.pc \in InsnPc
    BY <1>0, <1>11, LatchStages DEF LatchesFit, APEX_DR1
  <2>2. ASSUME DR1_MayPass
        PROVE  Decoded(latch.DR1) \in Latch
    <3>1. FL!FreeRegister \in Preg
      BY <2>2, FreeIsPreg
    <3>2. ASSUME NEW r \in Reg
          PROVE  /\ renameTable[r] \in PregTag
                 /\ pregs_at(renameTable[r]) \in Word
                 /\ pr_valid_bit_at(renameTable[r]) \in PregTag \cup {0, 1}
      <4>1. renameTable[r] \in PregTag /\ renameTable[REG_FILE_SIZE - 1] \in PregTag
            /\ regs[REG_FILE_SIZE - 1] \in Word
        BY <3>2, SizesAssumption DEF TypeInv, DataTypes, Reg
      <4>2. renameTable[r] # -1 => renameTable[r] \in Preg
        BY <4>1 DEF PregTag, Preg
      <4>3. \A p \in Preg : pregs[p] \in Word /\ pr_valid_bit[p] \in {0, 1}
        BY DEF TypeInv, DataTypes
      <4>. QED BY <4>1, <4>2, <4>3 DEF pregs_at, pr_valid_bit_at
    <3>3. latch.DR1.rs1 \in Reg /\ latch.DR1.rs2 \in Reg
      BY <2>1 DEF Latch
    <3>4. PICK tag1, tag2, x1, x2, v :
            /\ tag1 = renameTable[latch.DR1.rs1] /\ tag2 = renameTable[latch.DR1.rs2]
            /\ x1 = pregs_at(tag1) /\ x2 = pregs_at(tag2) /\ v = pr_valid_bit_at(tag1)
      OBVIOUS
    <3>5. /\ tag1 \in PregTag /\ tag2 \in PregTag /\ x1 \in Word /\ x2 \in Word
          /\ v \in PregTag \cup {0, 1}
      BY <3>2, <3>3, <3>4
    <3>. DEFINE op == latch.DR1.opcode
                d1 == IF op \in HasDest THEN FL!FreeRegister ELSE latch.DR1.prd
                d2 == IF op \in TwoSource \cup {"CMP", "STORE", "RET"} THEN tag1 ELSE latch.DR1.prs1
                d3 == IF op \in TwoSource \cup {"CMP", "STORE"} THEN tag2 ELSE latch.DR1.prs2
                d4 == IF op \in TwoSource \cup OneSource \cup {"CMP", "STORE", "RET"}
                      THEN x1 ELSE latch.DR1.rs1_value
                d5 == IF op \in TwoSource \cup OneSource \cup {"CMP", "STORE", "RET"}
                      THEN v ELSE IF op = "MOVC" THEN 1 ELSE latch.DR1.prs1_valid
                d6 == IF op \in TwoSource \cup {"CMP", "STORE"} THEN x2 ELSE latch.DR1.rs2_value
    <3>6. Decoded(latch.DR1) =
            [latch.DR1 EXCEPT !.prd = d1, !.prs1 = d2, !.prs2 = d3, !.rs1_value = d4,
                              !.prs1_valid = d5, !.rs2_value = d6]
      BY <2>1, <3>4 DEF Decoded, Latch
    <3>7. /\ d1 \in Preg /\ d2 \in PregTag /\ d3 \in PregTag /\ d4 \in Word
          /\ d5 \in PregTag \cup {0, 1} /\ d6 \in Word
      BY <2>1, <3>1, <3>5 DEF Latch
    <3>. HIDE DEF op, d1, d2, d3, d4, d5, d6
    <3>8. PICK x \in Latch : x = latch.DR1
      BY <2>1
    <3>9. [x EXCEPT !.prd = d1, !.prs1 = d2, !.prs2 = d3, !.rs1_value = d4,
                    !.prs1_valid = d5, !.rs2_value = d6] \in Latch
      BY <3>7, SourcesPut
    <3>. QED
      BY <3>6, <3>8, <3>9
  <2>3. /\ Decoded(latch.DR1).pc = latch.DR1.pc
        /\ Decoded(latch.DR1).opcode = latch.DR1.opcode
        /\ Decoded(latch.DR1).imm = latch.DR1.imm
    BY <2>1 DEF Decoded, Latch
  <2>4. LiteralFits(Decoded(latch.DR1))
    BY <2>1, <2>3 DEF LiteralFits
  <2>5. CASE DR1_MayPass /\ latch' = [latch EXCEPT !.RD2 = Decoded(latch.DR1),
                                                   !.DR1.has_insn = FALSE]
    <3>1. PICK l : l = [latch EXCEPT !.RD2 = Decoded(latch.DR1)]
      OBVIOUS
    <3>2. LatchesFit(l)
      BY <1>0, <2>1, <2>2, <2>3, <2>4, <2>5, <3>1, PutKeepsLatches, LatchStages
    <3>3. LatchesFit([l EXCEPT !.DR1.has_insn = FALSE])
      BY <3>2, ClearKeepsLatches, LatchStages
    <3>. QED BY <2>5, <3>1, <3>3
  <2>. QED
    BY <1>0, <1>11, <2>5 DEF APEX_DR1
<1>12. CASE APEX_memory
  <2>1. latch.memory \in Latch
    BY <1>0, LatchStages
  <2>2. ASSUME latch.memory.opcode = "LOAD" => latch.memory.memory_address \in DOMAIN data_memory
        PROVE  [latch.memory EXCEPT !.result_buffer =
                  IF latch.memory.opcode = "LOAD"
                  THEN data_memory[latch.memory.memory_address] ELSE @] \in Latch
    BY <2>1, <2>2 DEF Latch, TypeInv, DataTypes
  <2>3. \/ latch' = latch
        \/ \E v \in Latch : latch' = [latch EXCEPT !.memory.has_insn = FALSE,
                                                   !.memoryForward = v]
    BY <1>12, <2>2 DEF APEX_memory
  <2>4. ASSUME NEW v \in Latch,
               latch' = [latch EXCEPT !.memory.has_insn = FALSE, !.memoryForward = v]
        PROVE  LatchTypes'
    <3>1. latch' = [latch EXCEPT !["memoryForward"] = v, !["memory"].has_insn = FALSE]
      BY <1>0, <2>4, LatchStages
    <3>. QED BY <1>5, <3>1, LatchStages
  <2>. QED
    BY <1>0, <2>3, <2>4
<1>13. CASE Prompt \/ APEX_cpu_stop \/ Idle \/ UNCHANGED vars
  BY <1>0, <1>13 DEF Prompt, APEX_cpu_stop, Idle, vars
<1>14. CASE APEX_issue
  <2>1. latch.issue \in Latch /\ latch.issue.has_insn = TRUE
    BY <1>0, <1>14, LatchStages DEF APEX_issue, Latch
  (* What is done for the memory unit leaves latches that fit.             *)
  <2>2. ASSUME NEW l, LatchesFit(l), l.issue.has_insn = TRUE, MemoryPart(l)
        PROVE  LatchTypes'
    <3>1. ASSUME NEW r \in ROB!RobSlot, NEW e \in LSQ!LsqSlot, StartMemory(l, r, e)
          PROVE  LatchTypes'
      <4>1. l.issue \in Latch /\ rob[r] \in ROB!RobEntry /\ lsq[e] \in LSQ!LsqEntry
        BY <2>2, LatchIs, LatchStages DEF TypeInv, RobTypes, LsqTypes
      <4>2. PICK op : op = [l.issue EXCEPT !.memory_address = lsq[e].mem_address,
                              !.pc = rob[r].pc_value, !.opcode = rob[r].opcode,
                              !.rs1_value = lsq[e].prs1_value]
        OBVIOUS
      <4>3. op \in Latch
        <5>1. /\ lsq[e].mem_address \in Word /\ lsq[e].prs1_value \in Word
              /\ rob[r].pc_value \in InsnPc \cup {0, -1} /\ rob[r].opcode \in Opcode
          BY <4>1 DEF ROB!RobEntry, LSQ!LsqEntry
        <5>. QED BY <4>1, <4>2, <5>1 DEF Latch
      <4>4. latch' = [l EXCEPT !.issue = op, !.memory = op]
        BY <3>1, <4>2 DEF StartMemory
      <4>5. PICK m : m = [l EXCEPT !.issue = op]
        OBVIOUS
      <4>6. LatchesFit(m)
        BY <2>2, <4>3, <4>5, PutKeepsLatches, LatchStages
      <4>7. LatchesFit([m EXCEPT !.memory = op])
        BY <4>3, <4>6, PutKeepsLatches, LatchStages
      <4>. QED BY <4>4, <4>5, <4>7
    <3>2. /\ lsq_head \in LSQ!LsqSlot /\ rob_head \in ROB!RobSlot
          /\ RingIndices(lsq_head, lsq_tail, lsq_SIZE)
      BY DEF TypeInv, LsqTypes, RoomInv, RobIndices, RingIndices, LSQ!LsqSlot, ROB!RobSlot
    <3>3. CASE LoadToMemory(l)
      <4>1. PICK r : r = ROB!SearchStop(lsq[lsq_head].pc_value)
        OBVIOUS
      <4>2. PICK one : one = IF r # rob_tail THEN LSQ!lsq_to_mem(lsq_head, lsq_tail)
                             ELSE [head |-> lsq_head, tail |-> lsq_tail]
        OBVIOUS
      <4>3. r \in ROB!RobSlot
        BY <4>1, SearchStopIsSlot DEF TypeInv, RoomInv
      <4>4. one.head \in LSQ!LsqSlot
        BY <3>2, <4>2, RemovalInRing DEF RingIndices, LSQ!LsqSlot
      <4>5. \/ latch' = l
            \/ StartMemory(l, r, one.head)
            \/ StartMemory(l, r, lsq_head)
        BY <3>3, <4>1, <4>2 DEF LoadToMemory
      <4>. QED BY <2>2, <3>1, <3>2, <4>3, <4>4, <4>5
    <3>4. CASE StoreToMemory(l)
      BY <3>1, <3>2, <3>4 DEF StoreToMemory
    <3>5. CASE NothingToMemory(l)
      BY <2>2, <3>5 DEF NothingToMemory
    <3>. QED BY <2>2, <3>3, <3>4, <3>5 DEF MemoryPart
  <2>3. PICK queue : queue = IQ!WithNextAllocated
    OBVIOUS
  <2>4. PICK entry : entry = IssueLatch(IQ!Selected(queue))
    OBVIOUS
  <2>5. CASE MemoryPart(latch)
    BY <1>0, <2>1, <2>2, <2>5
  <2>6. ASSUME NEW fu \in IQ!Unit, CanStart(queue, fu),
               MemoryPart([latch EXCEPT !.issue = entry, ![UnitStage(fu)] = entry])
        PROVE  LatchTypes'
    <3>1. PICK e : e = IQ!Selected(queue)
      OBVIOUS
    <3>2. e \in QueueEntry
      BY <2>3, <2>6, <3>1, AllocationKeepsEntries, SelectedIsEntry
      DEF CanStart, IQ!Offered, TypeInv
    <3>3. /\ e.pc \in InsnPc /\ e.opcode \in Opcode /\ e.imm \in Int /\ e.prs1 \in PregTag
          /\ e.prs1Value \in Word /\ e.prs2Value \in Word /\ e.dest \in Preg
          /\ LiteralFits(e)
      BY <3>2 DEF QueueEntry, IQ!Entry
    <3>4. entry = [latch.issue EXCEPT !.pc = e.pc, !.opcode = e.opcode, !.imm = e.imm,
                      !.prs1 = e.prs1, !.rs1_value = e.prs1Value,
                      !.rs2_value = e.prs2Value, !.prd = e.dest]
      BY <2>4, <3>1 DEF IssueLatch
    <3>5. /\ entry \in Latch /\ entry.pc \in InsnPc /\ entry.has_insn = TRUE
          /\ entry.opcode = e.opcode /\ entry.imm = e.imm
      BY <2>1, <3>3, <3>4 DEF Latch
    <3>6. LiteralFits(entry)
      BY <3>3, <3>5 DEF LiteralFits
    <3>7. PICK m : m = [latch EXCEPT !.issue = entry]
      OBVIOUS
    <3>8. LatchesFit(m)
      BY <1>0, <3>5, <3>7, PutKeepsLatches, LatchStages
    <3>9. UnitStage(fu) \in {"IU", "MU", "BU"}
      BY DEF IQ!Unit, UnitStage
    <3>10. PICK l : l = [m EXCEPT ![UnitStage(fu)] = entry]
      OBVIOUS
    <3>11. LatchesFit(l)
      BY <3>5, <3>6, <3>8, <3>9, <3>10, PutKeepsLatches, LatchStages
    <3>12. l = [latch EXCEPT !.issue = entry, ![UnitStage(fu)] = entry]
      BY <3>7, <3>10
    <3>13. l.issue.has_insn = TRUE
      BY <1>0, <3>5, <3>9, <3>12, LatchStages
    <3>. QED
      BY <2>2, <2>6, <3>11, <3>12, <3>13
  <2>. QED
    BY <1>14, <2>3, <2>4, <2>5, <2>6 DEF APEX_issue
<1>. QED
  BY <1>1, <1>2, <1>4, <1>6, <1>7, <1>8, <1>9, <1>10, <1>11, <1>12, <1>13, <1>14 DEF Next
(* Addresses are numbers.                                                  *)
LEMMA InsnPcIsInt == InsnPc \cup {0, -1} \subseteq Int
<1>1. InsnPc \subseteq Int
  <2>. SUFFICES ASSUME NEW x \in InsnPc PROVE x \in Int
    OBVIOUS
  <2>1. PICK p \in Programs : x \in 3997 .. 3999 + 4 * Len(p)
    BY DEF InsnPc
  <2>2. Len(p) \in Nat
    BY ProgramsAssumption
  <2>. QED BY <2>1, <2>2
<1>. QED BY <1>1

(* The instructions of a type a stage hands on, and their fields.          *)
LEMMA StageNames ==
  /\ \A s \in LatchStage : s \in Stages /\ After(s) \in Stages
  /\ "fetch" \in Stages /\ "prompt" \in Stages
  /\ After("fetch") \in Stages /\ After("prompt") \in Stages
<1>1. "fetch" \in Stages /\ "prompt" \in Stages
  <2>1. StageOrder[13] = "fetch" /\ StageOrder[14] = "prompt" /\ Len(StageOrder) = 14
    BY DEF StageOrder
  <2>. QED BY <2>1 DEF Stages
<1>. QED BY <1>1, AfterIsStage DEF LatchStage

(* The stage called, the code memory and what fetch keeps.                 *)
LEMMA ControlTypesKept ==
  ASSUME TypeInv, [Next]_vars
  PROVE  ControlTypes'
<1>1. at' \in Stages \cup Ends
  <2>1. at \in Stages \cup Ends
    BY DEF TypeInv, ControlTypes
  <2>2. ASSUME NEW s \in LatchStage \cup {"fetch", "prompt"}, Runs(s)
        PROVE  at' \in Stages
    BY <2>2, StageNames DEF Runs
  <2>3. CASE APEX_fetch \/ APEX_BU \/ APEX_memory \/ APEX_writeback \/ Prompt
    BY <2>3, StageNames, LatchStages
    DEF APEX_fetch, APEX_BU, APEX_memory, APEX_writeback, Prompt, Ends
  <2>4. CASE APEX_ROBcommit \/ APEX_memoryForward \/ APEX_MUforward \/ APEX_MU
             \/ APEX_IUforward \/ APEX_IU \/ APEX_issue \/ APEX_RD2 \/ APEX_DR1
    BY <2>4, <2>2, LatchStages
    DEF APEX_ROBcommit, APEX_memoryForward, APEX_MUforward, APEX_MU, APEX_IUforward, APEX_IU,
        APEX_issue, APEX_RD2, APEX_DR1
  <2>5. CASE Idle
    BY <2>5, <2>2 DEF Idle, LatchStage
  <2>6. CASE APEX_cpu_stop \/ UNCHANGED vars
    BY <2>1, <2>6 DEF APEX_cpu_stop, Ends, vars
  <2>. QED BY <2>3, <2>4, <2>5, <2>6 DEF Next
<1>2. code' \in Seq(CodeEntry) /\ Len(code') = Len(code)
  <2>1. code' = code \/ Overwritten
    BY DEF Next, APEX_writeback, APEX_ROBcommit, APEX_memoryForward, APEX_MUforward, APEX_MU,
           APEX_BU, APEX_IUforward, APEX_IU, APEX_issue, APEX_memory, APEX_RD2, APEX_DR1,
           APEX_fetch, Prompt, APEX_cpu_stop, Idle, hostVars, vars
  <2>2. /\ code \in Seq(CodeEntry) /\ Len(code) \in Nat
        /\ code \in [1 .. Len(code) -> CodeEntry]
    BY LenProperties DEF TypeInv, ControlTypes
  <2>3. CASE Overwritten /\ Len(code) > 1 /\ code' # code
    <3>1. PICK k : k = Len(code) - 1
      OBVIOUS
    <3>2. /\ k \in 1 .. Len(code) /\ code[k] \in CodeEntry
          /\ Len(code) \in 1 .. Len(code) /\ code[Len(code)] \in CodeEntry
      BY <2>2, <2>3, <3>1
    <3>3. overlay \in {"rd", "rs1"} => 1 \in Reg
      <4>1. overlay \in Overlays
        BY DEF TypeInv, ControlTypes
      <4>2. overlay \in {"rd", "rs1"} => Overlays \cap {"rd", "rs1"} # {}
        BY <4>1
      <4>. QED BY <4>1, <4>2, OverlaysAssumption
    <3>4. [code[k] EXCEPT !.opcode = "SUB"] \in CodeEntry
      BY <3>2 DEF CodeEntry, Instruction, Opcode, LiteralFits
    <3>5. overlay \in {"rd", "rs1"} => /\ [code[k] EXCEPT !.rd = 1] \in CodeEntry
                                      /\ [code[k] EXCEPT !.rs1 = 1] \in CodeEntry
      BY <3>2, <3>3 DEF CodeEntry, Instruction, LiteralFits
    <3>6. [code[Len(code)] EXCEPT !.imm = latch.BU.result_buffer] \in CodeEntry
      <4>1. latch.BU.result_buffer \in Word
        BY LatchStages DEF TypeInv, LatchTypes, LatchesFit, Latch
      <4>2. latch.BU.result_buffer \in Int
        BY <4>1, WordIsInt
      <4>. QED BY <3>2, <4>1, <4>2 DEF CodeEntry, Instruction, LiteralFits
    <3>7. \E j \in {k, Len(code)}, e \in CodeEntry : code' = [code EXCEPT ![j] = e]
      <4>1. CASE /\ overlay = "opcode"
                 /\ code' = [code EXCEPT ![Len(code) - 1].opcode = "SUB"]
        <5>1. code' = [code EXCEPT ![k] = [code[k] EXCEPT !.opcode = "SUB"]]
          BY <3>1, <4>1
        <5>. QED BY <3>4, <5>1
      <4>2. CASE overlay = "rd" /\ code' = [code EXCEPT ![Len(code) - 1].rd = 1]
        <5>1. code' = [code EXCEPT ![k] = [code[k] EXCEPT !.rd = 1]]
          BY <3>1, <4>2
        <5>. QED BY <3>5, <4>2, <5>1
      <4>3. CASE overlay = "rs1" /\ code' = [code EXCEPT ![Len(code) - 1].rs1 = 1]
        <5>1. code' = [code EXCEPT ![k] = [code[k] EXCEPT !.rs1 = 1]]
          BY <3>1, <4>3
        <5>. QED BY <3>5, <4>3, <5>1
      <4>4. CASE /\ overlay = "imm"
                 /\ code' = [code EXCEPT ![Len(code)].imm = latch.BU.result_buffer]
        <5>1. code' = [code EXCEPT ![Len(code)] =
                         [code[Len(code)] EXCEPT !.imm = latch.BU.result_buffer]]
          BY <4>4
        <5>. QED BY <3>6, <5>1
      <4>. QED BY <2>3, <4>1, <4>2, <4>3, <4>4, Zenon DEF Overwritten
    <3>8. PICK j \in 1 .. Len(code), e \in CodeEntry : code' = [code EXCEPT ![j] = e]
      BY <3>2, <3>7
    <3>9. /\ [code EXCEPT ![j] = e] \in Seq(CodeEntry)
          /\ Len([code EXCEPT ![j] = e]) = Len(code)
      BY <2>2, ExceptSeq
    <3>. QED BY <3>8, <3>9
  <2>4. CASE Overwritten /\ ~(Len(code) > 1)
    <3>1. code' = code
      BY <2>4 DEF Overwritten
    <3>. QED BY <2>2, <3>1
  <2>. QED BY <2>1, <2>2, <2>3, <2>4
<1>3. overlay' = overlay /\ heap_intact' \in BOOLEAN
  <2>1. heap_intact \in BOOLEAN
    BY DEF TypeInv, ControlTypes
  <2>. QED
    BY <2>1 DEF Next, APEX_writeback, APEX_ROBcommit, APEX_memoryForward, APEX_MUforward,
           APEX_MU, APEX_BU, APEX_IUforward, APEX_IU, APEX_issue, APEX_memory, APEX_RD2,
           APEX_DR1, APEX_fetch, Prompt, APEX_cpu_stop, Idle, hostVars, vars
<1>4. pc' \in Int /\ fetching' \in BOOLEAN /\ fetch_from_next_cycle' \in BOOLEAN
  <2>1. pc \in Int /\ fetching \in BOOLEAN /\ fetch_from_next_cycle \in BOOLEAN
    BY DEF TypeInv, ControlTypes
  <2>2. CASE APEX_fetch
    <3>1. pc' = pc \/ pc' = pc + 4
      BY <2>2 DEF APEX_fetch, SkipFetch, FetchInsn, fetchVars
    <3>2. fetching' \in BOOLEAN
      BY <2>1, <2>2 DEF APEX_fetch, SkipFetch, FetchInsn, fetchVars
    <3>3. fetch_from_next_cycle' \in BOOLEAN
      BY <2>1, <2>2 DEF APEX_fetch, SkipFetch, FetchInsn, fetchVars
    <3>4. pc' \in Int
      BY <2>1, <3>1
    <3>. QED BY <3>2, <3>3, <3>4
  <2>3. CASE APEX_BU
    <3>1. latch.BU.pc \in InsnPc \cup {0, -1} /\ latch.BU.imm \in Int
      BY LatchStages DEF TypeInv, LatchTypes, LatchesFit, Latch
    <3>2. latch.BU.pc \in Int
      BY <3>1, InsnPcIsInt
    <3>3. latch.BU.pc + latch.BU.imm \in Int
      BY <3>1, <3>2
    <3>4. \/ UNCHANGED fetchVars
          \/ /\ pc' = latch.BU.pc + latch.BU.imm
             /\ fetching' = TRUE
             /\ fetch_from_next_cycle' = TRUE
      BY <2>3 DEF APEX_BU, Branch
    <3>. QED BY <2>1, <3>3, <3>4, Zenon DEF fetchVars
  <2>4. CASE UNCHANGED fetchVars
    BY <2>1, <2>4 DEF fetchVars
  <2>. QED
    BY <2>2, <2>3, <2>4 DEF Next, APEX_writeback, APEX_ROBcommit, APEX_memoryForward,
         APEX_MUforward, APEX_MU, APEX_IUforward, APEX_IU, APEX_issue, APEX_memory, APEX_RD2,
         APEX_DR1, Prompt, APEX_cpu_stop, Idle, vars
<1>. QED
  BY <1>1, <1>2, <1>3, <1>4 DEF TypeInv, ControlTypes

(* The registers, the rename table and the data memory hold ints.          *)
LEMMA DataTypesKept ==
  ASSUME TypeInv, [Next]_vars
  PROVE  DataTypes'
<1>0. DataTypes /\ latch \in [LatchStage -> Latch]
  BY DEF TypeInv, LatchTypes, LatchesFit
<1>1. CASE APEX_writeback
  <2>1. latch.writeback \in Latch
    BY <1>0, LatchStages
  <2>2. latch.writeback.rd \in Reg /\ latch.writeback.result_buffer \in Word
    BY <2>1 DEF Latch
  <2>3. regs' = regs \/ regs' = [regs EXCEPT ![latch.writeback.rd] = latch.writeback.result_buffer]
    BY <1>1 DEF APEX_writeback
  <2>4. UNCHANGED <<pregs, renameTable, pr_valid_bit, data_memory>>
    BY <1>1 DEF APEX_writeback, renameVars
  <2>. QED BY <1>0, <2>2, <2>3, <2>4 DEF DataTypes
<1>2. ASSUME NEW insn \in Latch,
             \/ UNCHANGED <<pregs, pr_valid_bit>>
             \/ /\ pregs' = [pregs EXCEPT ![insn.prd] = insn.result_buffer]
                /\ pr_valid_bit' = [pr_valid_bit EXCEPT ![insn.prd] = 1],
             UNCHANGED <<regs, renameTable, data_memory>>
      PROVE  DataTypes'
  <2>1. insn.prd \in Preg /\ insn.result_buffer \in Word
    BY DEF Latch
  <2>. QED BY <1>0, <1>2, <2>1 DEF DataTypes
<1>3. CASE APEX_IUforward
  <2>1. latch.IUforward \in Latch
    BY <1>0, LatchStages
  <2>. QED BY <1>2, <1>3, <2>1 DEF APEX_IUforward
<1>4. CASE APEX_MUforward
  <2>1. latch.MUforward \in Latch
    BY <1>0, LatchStages
  <2>. QED BY <1>2, <1>4, <2>1 DEF APEX_MUforward
<1>5. CASE APEX_memory
  <2>1. latch.memory \in Latch
    BY <1>0, LatchStages
  <2>2. latch.memory.rs1_value \in Word
    BY <2>1 DEF Latch
  <2>3. \/ data_memory' = data_memory
        \/ /\ data_memory' = [data_memory EXCEPT ![latch.memory.memory_address]
                                                   = latch.memory.rs1_value]
    BY <1>5 DEF APEX_memory
  <2>4. UNCHANGED <<regs, pregs, renameTable, pr_valid_bit>>
    BY <1>5 DEF APEX_memory, renameVars
  <2>. QED BY <1>0, <2>2, <2>3, <2>4 DEF DataTypes
<1>6. CASE APEX_DR1
  <2>1. latch.DR1 \in Latch /\ latch.DR1.rd \in Reg
    BY <1>0, LatchStages DEF Latch
  <2>2. UNCHANGED <<regs, pregs, data_memory>>
    BY <1>6 DEF APEX_DR1
  <2>3. CASE UNCHANGED renameVars
    BY <1>0, <2>2, <2>3 DEF DataTypes, renameVars
  <2>4. CASE /\ DR1_MayPass
             /\ renameTable' = [renameTable EXCEPT ![latch.DR1.rd] = FL!FreeRegister]
             /\ pr_valid_bit' = [pr_valid_bit EXCEPT ![FL!FreeRegister] = 0]
    <3>1. FL!FreeRegister \in Preg
      BY <2>4, FreeIsPreg
    <3>2. FL!FreeRegister \in PregTag
      BY <3>1 DEF Preg, PregTag
    <3>. QED BY <1>0, <2>1, <2>2, <2>4, <3>1, <3>2 DEF DataTypes
  <2>. QED
    BY <1>6, <2>3, <2>4 DEF APEX_DR1, Rename
<1>7. CASE UNCHANGED <<regs, pregs, renameVars, data_memory>>
  BY <1>0, <1>7 DEF DataTypes, renameVars
<1>. QED
  BY <1>1, <1>3, <1>4, <1>5, <1>6, <1>7
  DEF Next, APEX_ROBcommit, APEX_memoryForward, APEX_MU, APEX_BU, APEX_IU,
         APEX_issue, APEX_RD2, APEX_fetch, Prompt, APEX_cpu_stop, Idle, vars


(* The latches each stage may change.                                      *)
Touches(stages) == \A s \in LatchStage \ stages : latch'[s] = latch[s]

(* Each stage leaves the latches of the others alone.                      *)
LEMMA LatchFrame ==
  ASSUME latch \in [LatchStage -> Latch]
  PROVE  /\ APEX_writeback => Touches({"writeback"})
         /\ APEX_ROBcommit => Touches({"writeback", "ROBcommit"})
         /\ APEX_memoryForward => Touches({"memoryForward", "ROBcommit"})
         /\ APEX_MUforward => Touches({"MUforward", "ROBcommit"})
         /\ APEX_MU => Touches({"MU", "MUforward"})
         /\ APEX_BU => Touches({"BU", "DR1", "RD2"})
         /\ APEX_IUforward => Touches({"IUforward", "ROBcommit"})
         /\ APEX_IU => Touches({"IU", "IUforward"})
         /\ APEX_issue => Touches({"issue", "IU", "MU", "BU", "memory"})
         /\ APEX_memory => Touches({"memory", "memoryForward"})
         /\ APEX_RD2 => Touches({"RD2", "issue"})
         /\ APEX_DR1 => Touches({"DR1", "RD2"})
         /\ APEX_fetch => Touches({"DR1"})
<1>1. ASSUME APEX_writeback PROVE Touches({"writeback"})
  BY <1>1, LatchStages DEF APEX_writeback, Touches
<1>2. ASSUME APEX_ROBcommit PROVE Touches({"writeback", "ROBcommit"})
  BY <1>2, LatchStages DEF APEX_ROBcommit, Touches
<1>3. ASSUME APEX_memoryForward PROVE Touches({"memoryForward", "ROBcommit"})
  BY <1>3, LatchStages DEF APEX_memoryForward, Touches
<1>4. ASSUME APEX_MUforward PROVE Touches({"MUforward", "ROBcommit"})
  BY <1>4, LatchStages DEF APEX_MUforward, Touches
<1>5. ASSUME APEX_MU PROVE Touches({"MU", "MUforward"})
  BY <1>5, LatchStages DEF APEX_MU, Touches
<1>6. ASSUME APEX_BU PROVE Touches({"BU", "DR1", "RD2"})
  BY <1>6, LatchStages DEF APEX_BU, Touches, Branch
<1>7. ASSUME APEX_IUforward PROVE Touches({"IUforward", "ROBcommit"})
  BY <1>7, LatchStages DEF APEX_IUforward, Touches
<1>8. ASSUME APEX_IU PROVE Touches({"IU", "IUforward"})
  BY <1>8, LatchStages DEF APEX_IU, Touches
<1>9. ASSUME APEX_issue PROVE Touches({"issue", "IU", "MU", "BU", "memory"})
  <2>1. ASSUME NEW l, MemoryPart(l)
        PROVE  \/ latch' = l
               \/ \E op : latch' = [l EXCEPT !.issue = op, !.memory = op]
    BY <2>1 DEF MemoryPart, LoadToMemory, StoreToMemory, NothingToMemory, StartMemory
  <2>2. ASSUME NEW fu \in IQ!Unit, NEW entry,
               MemoryPart([latch EXCEPT !.issue = entry, ![UnitStage(fu)] = entry])
        PROVE  Touches({"issue", "IU", "MU", "BU", "memory"})
    <3>1. UnitStage(fu) \in {"IU", "MU", "BU"}
      BY DEF IQ!Unit, UnitStage
    <3>2. PICK l : l = [latch EXCEPT !.issue = entry, ![UnitStage(fu)] = entry]
      OBVIOUS
    <3>3. \A s \in LatchStage \ {"issue", "IU", "MU", "BU"} : l[s] = latch[s]
      BY <3>1, <3>2
    <3>4. \/ latch' = l
          \/ \E op : latch' = [l EXCEPT !.issue = op, !.memory = op]
      BY <2>1, <2>2, <3>2
    <3>5. DOMAIN l = LatchStage
      BY <3>2
    <3>. QED BY <3>3, <3>4, <3>5 DEF Touches
  <2>3. CASE MemoryPart(latch)
    BY <2>1, <2>3 DEF Touches
  <2>. QED BY <1>9, <2>2, <2>3 DEF APEX_issue
<1>10. ASSUME APEX_memory PROVE Touches({"memory", "memoryForward"})
  BY <1>10, LatchStages DEF APEX_memory, Touches
<1>11. ASSUME APEX_RD2 PROVE Touches({"RD2", "issue"})
  BY <1>11, LatchStages DEF APEX_RD2, Touches
<1>12. ASSUME APEX_DR1 PROVE Touches({"DR1", "RD2"})
  BY <1>12, LatchStages DEF APEX_DR1, Touches
<1>13. ASSUME APEX_fetch PROVE Touches({"DR1"})
  BY <1>13, LatchStages DEF APEX_fetch, Touches, SkipFetch, FetchInsn
<1>. QED
  BY <1>1, <1>2, <1>3, <1>4, <1>5, <1>6, <1>7, <1>8, <1>9, <1>10, <1>11, <1>12, <1>13

(* The counters of the two units stay in their range while they work.      *)
LEMMA UnitTypesKept ==
  ASSUME TypeInv, [Next]_vars
  PROVE  UnitTypes'
<1>0. UnitTypes /\ latch \in [LatchStage -> Latch] /\ latch' \in [LatchStage -> Latch]
  BY LatchTypesKept DEF TypeInv, LatchTypes, LatchesFit
<1>1. CASE APEX_MU
  <2>1. latch'.memory = latch.memory /\ UNCHANGED MEMVars
    BY <1>0, <1>1, LatchFrame, LatchStages DEF APEX_MU, Touches
  <2>2. MU_counter \in 1 .. 4 /\ MU_counter' = MU_counter + 1 /\ ~is_MU_free
    BY <1>0, <1>1 DEF APEX_MU, UnitTypes
  <2>5. \/ ~latch'.MU.has_insn
        \/ MU_counter % 4 # 0 /\ latch' = latch /\ is_MU_free' = is_MU_free
    <3>1. ASSUME NEW v, latch' = [latch EXCEPT !.MU.has_insn = FALSE, !.MUforward = v]
          PROVE  latch'.MU.has_insn = FALSE
      BY <1>0, <3>1, LatchStages DEF Latch
    <3>. QED BY <1>1, <3>1 DEF APEX_MU
  <2>3. MU_counter % 4 # 0 => MU_counter \in 1 .. 3
    BY <2>2
  <2>. QED BY <1>0, <2>1, <2>2, <2>3, <2>5 DEF UnitTypes, MEMVars
<1>2. CASE APEX_memory
  <2>1. latch'.MU = latch.MU /\ UNCHANGED MUVars
    BY <1>0, <1>2, LatchFrame, LatchStages DEF APEX_memory, Touches
  <2>2. /\ MEM_counter \in 1 .. 2
        /\ MEM_counter' \in {MEM_counter, MEM_counter + 1}
        /\ ~is_MEM_free
    BY <1>0, <1>2 DEF APEX_memory, UnitTypes, MEMVars
  <2>5. \/ ~latch'.memory.has_insn
        \/ MEM_counter % 2 # 0 /\ latch' = latch /\ is_MEM_free' = is_MEM_free
        \/ UNCHANGED <<latch, MEMVars>>
    <3>1. ASSUME NEW v, latch' = [latch EXCEPT !.memory.has_insn = FALSE, !.memoryForward = v]
          PROVE  latch'.memory.has_insn = FALSE
      BY <1>0, <3>1, LatchStages DEF Latch
    <3>. QED BY <1>2, <3>1 DEF APEX_memory
  <2>3. MEM_counter % 2 # 0 => MEM_counter = 1
    BY <2>2
  <2>. QED BY <1>0, <2>1, <2>2, <2>3, <2>5 DEF UnitTypes, MUVars, MEMVars
<1>3. CASE APEX_issue
  <2>1. ASSUME NEW l, MemoryPart(l)
        PROVE  \/ latch' = l /\ UNCHANGED MEMVars
               \/ /\ \E op : latch' = [l EXCEPT !.issue = op, !.memory = op]
                  /\ is_MEM_free /\ is_MEM_free' = FALSE /\ MEM_counter' = 1
    BY <2>1 DEF MemoryPart, LoadToMemory, StoreToMemory, NothingToMemory, StartMemory
  <2>2. ASSUME NEW l, DOMAIN l = LatchStage, l.memory = latch.memory, MemoryPart(l)
        PROVE  /\ MEM_counter' \in 0 .. 3
               /\ latch'.memory.has_insn => ~is_MEM_free' /\ MEM_counter' \in 1 .. 2
               /\ latch'.MU = l.MU
    <3>1. latch'.MU = l.MU
      BY <2>1, <2>2, LatchStages
    <3>2. CASE latch' = l /\ UNCHANGED MEMVars
      BY <1>0, <2>2, <3>1, <3>2 DEF UnitTypes, MEMVars
    <3>3. CASE is_MEM_free' = FALSE /\ MEM_counter' = 1
      BY <3>1, <3>3
    <3>. QED BY <2>1, <2>2, <3>2, <3>3
  <2>3. CASE MemoryPart(latch) /\ UNCHANGED MUVars
    BY <1>0, <2>2, <2>3 DEF UnitTypes, MUVars
  <2>4. ASSUME NEW fu \in IQ!Unit, NEW entry, NEW l,
               l = [latch EXCEPT !.issue = entry, ![UnitStage(fu)] = entry],
               MemoryPart(l),
               is_MU_free' = (is_MU_free /\ fu # 1),
               MU_counter' = IF fu = 1 THEN 1 ELSE MU_counter
        PROVE  UnitTypes'
    <3>1. UnitStage(fu) \in {"IU", "MU", "BU"} /\ (UnitStage(fu) = "MU" <=> fu = 1)
      BY DEF IQ!Unit, UnitStage
    <3>2. DOMAIN l = LatchStage /\ l.memory = latch.memory
      BY <1>0, <2>4, <3>1, LatchStages
    <3>3. fu # 1 => l.MU = latch.MU
      BY <1>0, <2>4, <3>1, LatchStages
    <3>4. /\ MEM_counter' \in 0 .. 3
          /\ latch'.memory.has_insn => ~is_MEM_free' /\ MEM_counter' \in 1 .. 2
          /\ latch'.MU = l.MU
      BY <2>2, <2>4, <3>2
    <3>5. CASE fu = 1
      <4>1. ~is_MU_free' /\ MU_counter' = 1
        BY <2>4, <3>5
      <4>. QED BY <3>4, <4>1 DEF UnitTypes
    <3>6. CASE fu # 1
      <4>1. latch'.MU = latch.MU /\ MU_counter' = MU_counter /\ (~is_MU_free => ~is_MU_free')
        BY <2>4, <3>3, <3>4, <3>6
      <4>. QED BY <1>0, <3>4, <4>1 DEF UnitTypes
    <3>. QED
      BY <3>5, <3>6
  <2>. QED BY <1>3, <2>3, <2>4 DEF APEX_issue
<1>4. CASE /\ UNCHANGED <<MUVars, MEMVars>>
           /\ latch'.MU = latch.MU /\ latch'.memory = latch.memory
  BY <1>0, <1>4 DEF UnitTypes, MUVars, MEMVars
<1>5. CASE APEX_writeback \/ APEX_ROBcommit \/ APEX_memoryForward \/ APEX_MUforward \/ APEX_BU
           \/ APEX_IUforward \/ APEX_IU \/ APEX_RD2 \/ APEX_DR1 \/ APEX_fetch
  <2>1. latch'.MU = latch.MU /\ latch'.memory = latch.memory
    BY <1>0, <1>5, LatchFrame, LatchStages DEF Touches
  <2>. QED
    BY <1>4, <1>5, <2>1 DEF APEX_writeback, APEX_ROBcommit, APEX_memoryForward, APEX_MUforward,
         APEX_BU, APEX_IUforward, APEX_IU, APEX_RD2, APEX_DR1, APEX_fetch
<1>6. CASE Prompt \/ APEX_cpu_stop \/ Idle \/ UNCHANGED vars
  BY <1>4, <1>6 DEF Prompt, APEX_cpu_stop, Idle, vars
<1>. QED
  BY <1>1, <1>2, <1>3, <1>5, <1>6 DEF Next

(* The flags of the processor.                                             *)
LEMMA FlagTypesKept ==
  ASSUME TypeInv, [Next]_vars
  PROVE  FlagTypes'
<1>0. /\ zero_flag \in BOOLEAN /\ positive_flag \in BOOLEAN
      /\ is_MU_free \in BOOLEAN /\ is_MEM_free \in BOOLEAN
  BY DEF TypeInv, FlagTypes
<1>1. ASSUME NEW insn, NEW result, SetFlags(insn, result)
      PROVE  zero_flag' \in BOOLEAN /\ positive_flag' \in BOOLEAN
  BY <1>0, <1>1 DEF SetFlags, flagVars
<1>2. ASSUME NEW l, MemoryPart(l) PROVE is_MEM_free' \in BOOLEAN
  BY <1>0, <1>2
  DEF MemoryPart, LoadToMemory, StoreToMemory, NothingToMemory, StartMemory, MEMVars
<1>3. zero_flag' \in BOOLEAN /\ positive_flag' \in BOOLEAN
  <2>1. CASE APEX_IU \/ APEX_MU
    BY <1>0, <1>1, <2>1 DEF APEX_IU, APEX_MU, flagVars
  <2>2. CASE UNCHANGED flagVars
    BY <1>0, <2>2 DEF flagVars
  <2>. QED
    BY <2>1, <2>2
    DEF Next, APEX_writeback, APEX_ROBcommit, APEX_memoryForward, APEX_MUforward,
         APEX_BU, APEX_IUforward, APEX_issue, APEX_memory, APEX_RD2, APEX_DR1,
         APEX_fetch, Prompt, APEX_cpu_stop, Idle, vars
<1>4. is_MU_free' \in BOOLEAN
  <2>1. CASE APEX_issue
    BY <1>0, <2>1 DEF APEX_issue, MUVars
  <2>2. CASE APEX_MU
    BY <1>0, <2>2 DEF APEX_MU
  <2>3. CASE UNCHANGED MUVars
    BY <1>0, <2>3 DEF MUVars
  <2>. QED
    BY <2>1, <2>2, <2>3
    DEF Next, APEX_writeback, APEX_ROBcommit, APEX_memoryForward, APEX_MUforward,
         APEX_BU, APEX_IUforward, APEX_IU, APEX_memory, APEX_RD2, APEX_DR1,
         APEX_fetch, Prompt, APEX_cpu_stop, Idle, vars
<1>5. is_MEM_free' \in BOOLEAN
  <2>1. CASE APEX_issue
    BY <1>2, <2>1 DEF APEX_issue
  <2>2. CASE APEX_memory
    BY <1>0, <2>2 DEF APEX_memory, MEMVars
  <2>3. CASE UNCHANGED MEMVars
    BY <1>0, <2>3 DEF MEMVars
  <2>. QED
    BY <2>1, <2>2, <2>3
    DEF Next, APEX_writeback, APEX_ROBcommit, APEX_memoryForward, APEX_MUforward,
         APEX_MU, APEX_BU, APEX_IUforward, APEX_IU, APEX_RD2, APEX_DR1,
         APEX_fetch, Prompt, APEX_cpu_stop, Idle, vars
<1>. QED
  BY <1>3, <1>4, <1>5 DEF FlagTypes

(* The free list holds registers, its indices stay in the array.           *)
LEMMA FlTypesKept ==
  ASSUME TypeInv, [Next]_vars
  PROVE  FlTypes'
<1>0. FlTypes /\ latch \in [LatchStage -> Latch] /\ PREG_FILE_SIZE \in Nat \ {0}
  BY SizesAssumption DEF TypeInv, LatchTypes, LatchesFit
<1>1. (FL_tail + 1) % PREG_FILE_SIZE \in 0 .. PREG_FILE_SIZE - 1
      /\ (FL_head + 1) % PREG_FILE_SIZE \in 0 .. PREG_FILE_SIZE - 1
  BY <1>0 DEF FlTypes, RingIndices
<1>2. ASSUME NEW p \in Preg, FL!put_physicalRegister_inFL(p)
      PROVE  FlTypes'
  <2>1. CASE UNCHANGED FL!flVars
    BY <1>0, <2>1 DEF FL!flVars, FlTypes, RingIndices
  <2>2. CASE /\ FL_head' = IF FL_head = -1 THEN 0 ELSE FL_head
             /\ FL_tail' = (FL_tail + 1) % PREG_FILE_SIZE
             /\ flQueue' = [flQueue EXCEPT ![FL_tail'] = p]
    <3>1. flQueue' \in [Preg -> Preg]
      BY <1>0, <2>2 DEF FlTypes
    <3>2. FL_tail' \in 0 .. PREG_FILE_SIZE - 1 /\ FL_head' \in 0 .. PREG_FILE_SIZE - 1
      BY <1>0, <1>1, <2>2 DEF FlTypes, RingIndices
    <3>. QED BY <3>1, <3>2 DEF FlTypes, RingIndices
  <2>. QED BY <1>2, <2>1, <2>2 DEF FL!put_physicalRegister_inFL
<1>3. ASSUME FL!get_free_physical_register
      PROVE  FlTypes'
  BY <1>0, <1>1, <1>3 DEF FL!get_free_physical_register, FL!checkEmpty_FL, FlTypes, RingIndices
<1>4. CASE UNCHANGED flVars
  BY <1>0, <1>4 DEF flVars, FlTypes, RingIndices
<1>5. CASE APEX_IUforward
  <2>1. latch.IUforward.prd \in Preg
    BY <1>0, LatchStages DEF Latch
  <2>. QED BY <1>2, <1>4, <1>5, <2>1 DEF APEX_IUforward
<1>6. CASE APEX_DR1
  BY <1>3, <1>4, <1>6 DEF APEX_DR1, Rename
<1>. QED
  BY <1>4, <1>5, <1>6
  DEF Next, APEX_writeback, APEX_ROBcommit, APEX_memoryForward, APEX_MUforward,
         APEX_MU, APEX_BU, APEX_IU, APEX_issue, APEX_memory, APEX_RD2,
         APEX_fetch, Prompt, APEX_cpu_stop, Idle, vars

(* What RD2 enters into the issue queue, and what a result makes of it.    *)
LEMMA IqTypesKept ==
  ASSUME TypeInv, [Next]_vars
  PROVE  IqTypes'
<1>0. IqTypes /\ latch \in [LatchStage -> Latch]
  BY DEF TypeInv, LatchTypes, LatchesFit
<1>1. CASE APEX_RD2
  <2>1. PICK sent : /\ sent.pc = latch.RD2.pc /\ sent.opcode = latch.RD2.opcode
                    /\ sent.imm = latch.RD2.imm /\ sent.prs1 = latch.RD2.prs1
                    /\ sent.prs2 = latch.RD2.prs2 /\ sent.rs1_value = latch.RD2.rs1_value
                    /\ sent.rs2_value = latch.RD2.rs2_value /\ sent.prd = latch.RD2.prd
                    /\ \/ IQ!iqEntry(sent, fuType(latch.RD2.opcode))
                       \/ UNCHANGED iqVars
    <3>1. latch.RD2 \in Latch
      BY <1>0, LatchStages
    <3>. QED BY <1>1, <3>1 DEF APEX_RD2, Latch
  <2>2. /\ latch.RD2 \in Latch /\ latch.RD2.pc \in InsnPc /\ LiteralFits(latch.RD2)
    BY <1>0, <1>1, LatchStages DEF TypeInv, LatchTypes, LatchesFit, APEX_RD2
  <2>3. PICK e : e = [allocatedBit |-> 0, pc |-> sent.pc, opcode |-> sent.opcode,
                      fuType |-> fuType(latch.RD2.opcode), imm |-> sent.imm,
                      src1Ready |-> 1, prs1 |-> sent.prs1, prs1Value |-> sent.rs1_value,
                      src2Ready |-> 1, prs2 |-> sent.prs2, prs2Value |-> sent.rs2_value,
                      dest |-> sent.prd]
    OBVIOUS
  <2>4. /\ sent.pc \in InsnPc /\ sent.pc \in Int /\ sent.opcode \in Opcode /\ sent.imm \in Int
        /\ sent.prs1 \in PregTag /\ sent.prs2 \in PregTag /\ sent.rs1_value \in Word
        /\ sent.rs2_value \in Word /\ sent.prd \in Preg /\ sent.prd \in PregTag
        /\ fuType(latch.RD2.opcode) \in IQ!Unit
    <3>1. sent.pc \in InsnPc /\ sent.pc \in Int
      BY <2>1, <2>2, InsnPcIsInt
    <3>2. /\ sent.opcode \in Opcode /\ sent.imm \in Int
          /\ sent.prs1 \in PregTag /\ sent.prs2 \in PregTag /\ sent.rs1_value \in Word
          /\ sent.rs2_value \in Word /\ sent.prd \in Preg
      BY <2>1, <2>2 DEF Latch
    <3>3. sent.prd \in PregTag
      BY <3>2 DEF Preg, PregTag
    <3>4. fuType(latch.RD2.opcode) \in IQ!Unit
      BY DEF fuType, IQ!Unit
    <3>. QED BY <3>1, <3>2, <3>3, <3>4
  <2>5. e \in IQ!Entry
    BY <2>3, <2>4 DEF IQ!Entry
  <2>6. e \in QueueEntry
    BY <2>1, <2>2, <2>3, <2>4, <2>5 DEF QueueEntry, LiteralFits
  <2>7. iq' = Append(iq, e) \/ iq' = iq
    BY <2>1, <2>3 DEF IQ!iqEntry, iqVars
  <2>. QED BY <1>0, <2>6, <2>7, AppendProperties DEF IqTypes
<1>2. ASSUME NEW prd, NEW result \in Word, IQ!IQupdate(prd, result)
      PROVE  IqTypes'
  <2>1. ASSUME NEW e \in QueueEntry
        PROVE  [e EXCEPT !.prs1Value = IF e.prs1 = prd THEN result ELSE @,
                         !.src1Ready = IF e.prs1 = prd THEN 1 ELSE @,
                         !.prs2Value = IF e.prs2 = prd THEN result ELSE @,
                         !.src2Ready = IF e.prs2 = prd THEN 1 ELSE @] \in QueueEntry
    BY DEF QueueEntry, IQ!Entry, LiteralFits
  <2>2. iq \in [1 .. Len(iq) -> QueueEntry] /\ Len(iq) \in Nat
    BY <1>0, LenProperties DEF IqTypes
  <2>3. iq' \in [1 .. Len(iq) -> QueueEntry]
    BY <1>2, <2>1, <2>2 DEF IQ!IQupdate
  <2>. QED BY <2>2, <2>3, SeqDef DEF IqTypes
<1>3. CASE APEX_IUforward \/ APEX_MUforward
  <2>1. latch.IUforward.result_buffer \in Word /\ latch.MUforward.result_buffer \in Word
    BY <1>0, LatchStages DEF Latch
  <2>2. UNCHANGED iqVars => IqTypes'
    BY <1>0 DEF IqTypes, iqVars
  <2>. QED BY <1>2, <1>3, <2>1, <2>2 DEF APEX_IUforward, APEX_MUforward
<1>4. CASE APEX_issue
  BY <1>0, <1>4, AllocationKeepsEntries, UnlinkKeepsEntries DEF APEX_issue, IqTypes
<1>5. CASE UNCHANGED iqVars
  BY <1>0, <1>5 DEF iqVars, IqTypes
<1>. QED
  BY <1>1, <1>3, <1>4, <1>5
  DEF Next, APEX_writeback, APEX_ROBcommit, APEX_memoryForward, APEX_MU, APEX_BU,
         APEX_IU, APEX_memory, APEX_DR1, APEX_fetch, Prompt, APEX_cpu_stop,
         Idle, vars

(* The reports, the entries and the removals of the reorder buffer.        *)
LEMMA RobTypesKept ==
  ASSUME TypeInv, [Next]_vars
  PROVE  RobTypes'
<1>0. /\ rob \in [ROB!RobSlot -> ROB!RobEntry] /\ RobIndices
      /\ latch \in [LatchStage -> Latch]
  BY DEF TypeInv, RobTypes, RoomInv, LatchTypes, LatchesFit
<1>1. ASSUME NEW p, NEW result \in Word, ROB!rob_update(p, result)
      PROVE  RobTypes'
  <2>1. ASSUME NEW e \in ROB!RobEntry
        PROVE  [e EXCEPT !.result = result, !.allocated = 1] \in ROB!RobEntry
    BY DEF ROB!RobEntry
  <2>. QED BY <1>0, <1>1, <2>1 DEF ROB!rob_update, RobTypes
<1>2. CASE APEX_MUforward \/ APEX_IUforward \/ APEX_BU
  <2>1. /\ latch.MUforward.result_buffer \in Word
        /\ latch.IUforward.result_buffer \in Word
        /\ latch.BU.result_buffer \in Word
    BY <1>0, LatchStages DEF Latch
  <2>2. UNCHANGED robVars => RobTypes'
    BY <1>0 DEF RobTypes, robVars
  <2>. QED BY <1>1, <1>2, <2>1, <2>2 DEF APEX_MUforward, APEX_IUforward, APEX_BU
<1>3. CASE APEX_memoryForward
  <2>1. /\ ROB!SearchStop(latch.memoryForward.pc) \in ROB!RobSlot
        /\ rob_head \in ROB!RobSlot
    BY <1>0, SearchStopIsSlot DEF RobIndices, RingIndices, ROB!RobSlot
  <2>2. latch.memoryForward.result_buffer \in Word
    BY <1>0, LatchStages DEF Latch
  <2>3. ASSUME NEW e \in ROB!RobEntry
        PROVE  /\ [e EXCEPT !.allocated = 1] \in ROB!RobEntry
               /\ [e EXCEPT !.allocated = 1, !.result = latch.memoryForward.result_buffer]
                    \in ROB!RobEntry
    BY <2>2 DEF ROB!RobEntry
  <2>4. ASSUME NEW r \in ROB!RobSlot, NEW e \in ROB!RobEntry, rob' = [rob EXCEPT ![r] = e]
        PROVE  RobTypes'
    BY <1>0, <2>4 DEF RobTypes
  <2>5. PICK r : r = ROB!SearchStop(latch.memoryForward.pc)
    OBVIOUS
  <2>6. \/ rob' = [rob EXCEPT ![r].allocated = 1,
                              ![r].result = latch.memoryForward.result_buffer]
        \/ rob' = [rob EXCEPT ![rob_head].allocated = 1]
        \/ rob' = rob
    BY <1>3, <2>5 DEF APEX_memoryForward
  <2>7. CASE rob' = [rob EXCEPT ![rob_head].allocated = 1]
    <3>1. rob[rob_head] \in ROB!RobEntry
      BY <1>0, <2>1
    <3>2. rob' = [rob EXCEPT ![rob_head] = [rob[rob_head] EXCEPT !.allocated = 1]]
      BY <1>0, <2>7
    <3>. QED BY <2>1, <2>3, <2>4, <3>1, <3>2
  <2>8. CASE rob' = [rob EXCEPT ![r].allocated = 1,
                              ![r].result = latch.memoryForward.result_buffer]
    <3>1. rob[r] \in ROB!RobEntry /\ r \in ROB!RobSlot
      BY <1>0, <2>1, <2>5
    <3>2. rob' = [rob EXCEPT ![r] = [rob[r] EXCEPT !.allocated = 1,
                                 !.result = latch.memoryForward.result_buffer]]
      BY <1>0, <2>8, <3>1
    <3>. QED BY <2>3, <2>4, <3>1, <3>2
  <2>9. CASE rob' = rob
    BY <1>0, <2>9 DEF RobTypes
  <2>. QED BY <2>6, <2>7, <2>8, <2>9
<1>4. CASE APEX_RD2
  <2>1. UNCHANGED robVars => RobTypes'
    BY <1>0 DEF RobTypes, robVars
  <2>2. /\ latch.RD2 \in Latch /\ latch.RD2.pc \in InsnPc
    BY <1>0, <1>4, LatchStages DEF TypeInv, LatchTypes, LatchesFit, APEX_RD2
  <2>3. lsq_tail' \in -1 .. lsq_SIZE - 1 \/ latch.RD2.opcode \notin {"LOAD", "STORE"}
    <3>1. (lsq_tail + 1) % lsq_SIZE \in -1 .. lsq_SIZE - 1
      BY SizesAssumption DEF TypeInv, LsqTypes, RingIndices
    <3>. QED BY <1>4, <3>1 DEF APEX_RD2, LSQ!lsq_Entry
  <2>4. PICK sent : /\ sent.pc = latch.RD2.pc /\ sent.opcode = latch.RD2.opcode
                    /\ sent.rd = latch.RD2.rd
                    /\ sent.lsqIndex \in {lsq_tail', latch.RD2.lsqIndex, -1}
                    /\ sent.lsqIndex = lsq_tail' => latch.RD2.opcode \in {"LOAD", "STORE"}
                                                    \/ lsq_tail' \in -1 .. lsq_SIZE - 1
                    /\ ROB!rob_Entry(sent) \/ UNCHANGED robVars
    <3>1. PICK sent : /\ sent = [latch.RD2 EXCEPT !.lsqIndex =
                                    IF latch.RD2.opcode \in {"LOAD", "STORE"} THEN lsq_tail'
                                    ELSE IF latch.RD2.opcode = "DIV" THEN @ ELSE -1]
                      /\ ROB!rob_Entry(sent) \/ UNCHANGED robVars
      BY <1>4 DEF APEX_RD2
    <3>2. sent.pc = latch.RD2.pc /\ sent.opcode = latch.RD2.opcode /\ sent.rd = latch.RD2.rd
      BY <2>2, <3>1 DEF Latch
    <3>3. sent.lsqIndex = IF latch.RD2.opcode \in {"LOAD", "STORE"} THEN lsq_tail'
                          ELSE IF latch.RD2.opcode = "DIV" THEN latch.RD2.lsqIndex ELSE -1
      BY <2>2, <3>1 DEF Latch
    <3>4. latch.RD2.lsqIndex \in -1 .. lsq_SIZE - 1 /\ -1 \in -1 .. lsq_SIZE - 1
      BY <2>2, SizesAssumption DEF Latch
    <3>. QED BY <3>1, <3>2, <3>3, <3>4, <2>3
  <2>5. /\ sent.pc \in InsnPc \cup {0, -1} /\ sent.opcode \in Opcode /\ sent.rd \in Reg
        /\ sent.lsqIndex \in -1 .. lsq_SIZE - 1
    <3>1. latch.RD2.lsqIndex \in -1 .. lsq_SIZE - 1 /\ -1 \in -1 .. lsq_SIZE - 1
      BY <2>2, SizesAssumption DEF Latch
    <3>. QED BY <2>2, <2>3, <2>4, <3>1 DEF Latch
  <2>6. CASE ROB!rob_Entry(sent)
    <3>1. rob_tail' \in ROB!RobSlot
      BY <1>0, <2>6, SizesAssumption DEF ROB!rob_Entry, RobIndices, RingIndices, ROB!RobSlot
    <3>2. PICK e : /\ e = [allocated |-> 0, opcode |-> sent.opcode, pc_value |-> sent.pc,
                           rd |-> sent.rd, lsqindex |-> sent.lsqIndex,
                           result |-> rob[rob_tail'].result]
                   /\ rob' = [rob EXCEPT ![rob_tail'] = e]
      BY <2>6, <1>0, <3>1 DEF ROB!rob_Entry
    <3>3. rob[rob_tail'].result \in Word
      BY <1>0, <3>1 DEF ROB!RobEntry
    <3>4. e \in ROB!RobEntry
      BY <2>5, <3>2, <3>3 DEF ROB!RobEntry
    <3>. QED BY <1>0, <3>1, <3>2, <3>4 DEF RobTypes
  <2>. QED BY <2>1, <2>4, <2>6
<1>5. CASE rob' = rob
  BY <1>0, <1>5 DEF RobTypes
<1>. QED
  BY <1>2, <1>3, <1>4, <1>5
  DEF Next, APEX_writeback, APEX_ROBcommit, APEX_MU, APEX_IU, APEX_issue, APEX_memory,
         APEX_DR1, APEX_fetch, Prompt, APEX_cpu_stop, Idle, vars, robVars, ROB!rob_Commitment

(* The results, the addresses and the removals of the lsq.                 *)
LEMMA LsqTypesKept ==
  ASSUME TypeInv, [Next]_vars
  PROVE  LsqTypes'
<1>0. /\ lsq \in [LSQ!LsqSlot -> LSQ!LsqEntry] /\ RingIndices(lsq_head, lsq_tail, lsq_SIZE)
      /\ latch \in [LatchStage -> Latch]
  BY DEF TypeInv, LsqTypes, LatchTypes, LatchesFit
<1>1. CASE APEX_IUforward
  <2>1. latch.IUforward \in Latch
    BY <1>0, LatchStages
  <2>2. lsq' \in [LSQ!LsqSlot -> LSQ!LsqEntry]
    <3>1. CASE LSQ!lsq_update(latch.IUforward.prd, latch.IUforward.result_buffer)
      <4>1. latch.IUforward.result_buffer \in Word
        BY <2>1 DEF Latch
      <4>2. ASSUME NEW e \in LSQ!LsqEntry
            PROVE  [e EXCEPT !.prs1_value = latch.IUforward.result_buffer,
                             !.data_valid_Bit = 1] \in LSQ!LsqEntry
        BY <4>1 DEF LSQ!LsqEntry
      <4>. QED BY <1>0, <3>1, <4>2 DEF LSQ!lsq_update
    <3>2. CASE LSQ!AddressSet(latch.IUforward.lsqIndex, latch.IUforward.memory_address)
      <4>1. PICK i, a : i = latch.IUforward.lsqIndex /\ a = latch.IUforward.memory_address
        OBVIOUS
      <4>2. a \in Word
        BY <2>1, <4>1 DEF Latch
      <4>3. ASSUME NEW e \in LSQ!LsqEntry
            PROVE  [e EXCEPT !.mem_address = a, !.mem_address_vBit = 1] \in LSQ!LsqEntry
        BY <4>2 DEF LSQ!LsqEntry
      <4>4. lsq' = [lsq EXCEPT ![i].mem_address = a, ![i].mem_address_vBit = 1]
        BY <3>2, <4>1 DEF LSQ!AddressSet
      <4>5. CASE i \in LSQ!LsqSlot
        <5>1. lsq' = [lsq EXCEPT ![i] = [lsq[i] EXCEPT !.mem_address = a,
                                                       !.mem_address_vBit = 1]]
          BY <1>0, <4>4, <4>5
        <5>. QED BY <1>0, <4>3, <4>5, <5>1
      <4>6. CASE i \notin LSQ!LsqSlot
        BY <1>0, <4>4, <4>6
      <4>. QED BY <4>5, <4>6
    <3>. QED BY <1>1, <3>1, <3>2 DEF APEX_IUforward
  <2>3. lsq_head' = lsq_head /\ lsq_tail' = lsq_tail
    BY <1>1 DEF APEX_IUforward, LSQ!lsq_update
  <2>. QED BY <1>0, <2>2, <2>3 DEF LsqTypes
<1>2. CASE APEX_RD2
  <2>1. UNCHANGED lsqVars => LsqTypes'
    BY <1>0 DEF LsqTypes, lsqVars
  <2>2. latch.RD2 \in Latch /\ latch.RD2.pc \in InsnPc
    BY <1>0, <1>2, LatchStages DEF TypeInv, LatchTypes, LatchesFit, APEX_RD2
  <2>3. CASE LSQ!lsq_Entry(latch.RD2)
    <3>1. /\ lsq_head' = IF lsq_head = -1 THEN 0 ELSE lsq_head
          /\ lsq_tail' = (lsq_tail + 1) % lsq_SIZE
      BY <2>3 DEF LSQ!lsq_Entry
    <3>2. (lsq_tail + 1) % lsq_SIZE \in 0 .. lsq_SIZE - 1
      BY <1>0, SizesAssumption DEF RingIndices
    <3>3. RingIndices(lsq_head', lsq_tail', lsq_SIZE)
      BY <1>0, <3>1, <3>2, SizesAssumption DEF RingIndices
    <3>4. lsq_tail' \in LSQ!LsqSlot
      BY <3>1, <3>2 DEF LSQ!LsqSlot
    <3>5. PICK insn : insn = latch.RD2
      OBVIOUS
    <3>6. /\ insn.pc \in InsnPc /\ insn.prs1 \in PregTag /\ insn.rs1_value \in Word
          /\ insn.prs1_valid \in PregTag \cup {0, 1}
      BY <2>2, <3>5 DEF Latch
    <3>7. ASSUME NEW e \in LSQ!LsqEntry PROVE LSQ!Occupied(e, insn) \in LSQ!LsqEntry
      <4>1. 0 \in Word
        BY WordIsInt
      <4>2. insn.opcode = "LOAD" => LSQ!Occupied(e, insn) \in LSQ!LsqEntry
        BY <3>6, <4>1 DEF LSQ!Occupied, LSQ!LsqEntry
      <4>3. insn.opcode # "LOAD" => LSQ!Occupied(e, insn) \in LSQ!LsqEntry
        BY <3>6, <4>1 DEF LSQ!Occupied, LSQ!LsqEntry
      <4>. QED BY <4>2, <4>3
    <3>8. lsq' \in [LSQ!LsqSlot -> LSQ!LsqEntry]
      BY <1>0, <2>3, <3>4, <3>5, <3>7 DEF LSQ!lsq_Entry
    <3>. QED BY <3>3, <3>8 DEF LsqTypes
  <2>. QED BY <1>2, <2>1, <2>3 DEF APEX_RD2
<1>3. CASE APEX_issue
  <2>1. PICK l : MemoryPart(l)
    BY <1>3 DEF APEX_issue
  <2>2. RingIndices(lsq_head', lsq_tail', lsq_SIZE)
    <3>1. CASE LoadToMemory(l)
      <4>1. PICK one : /\ one.head = LSQ!lsq_to_mem(lsq_head, lsq_tail).head
                       /\ one.tail = LSQ!lsq_to_mem(lsq_head, lsq_tail).tail
        OBVIOUS
      <4>2. RingIndices(one.head, one.tail, lsq_SIZE)
        BY <1>0, <4>1, RemovalInRing
      <4>3. PICK two : /\ two.head = LSQ!lsq_to_mem(one.head, one.tail).head
                       /\ two.tail = LSQ!lsq_to_mem(one.head, one.tail).tail
        OBVIOUS
      <4>4. RingIndices(two.head, two.tail, lsq_SIZE)
        BY <4>2, <4>3, RemovalInRing
      <4>5. \/ lsq_head' = lsq_head /\ lsq_tail' = lsq_tail
            \/ lsq_head' = one.head /\ lsq_tail' = one.tail
            \/ /\ lsq_head' = LSQ!lsq_to_mem(lsq_head, lsq_tail).head
               /\ lsq_tail' = LSQ!lsq_to_mem(lsq_head, lsq_tail).tail
            \/ lsq_head' = two.head /\ lsq_tail' = two.tail
        BY <3>1, <4>1, <4>3 DEF LoadToMemory
      <4>. QED BY <1>0, <4>1, <4>2, <4>4, <4>5
    <3>2. CASE StoreToMemory(l)
      BY <1>0, <3>2, RemovalInRing DEF StoreToMemory
    <3>3. CASE NothingToMemory(l)
      BY <1>0, <3>3 DEF NothingToMemory
    <3>. QED BY <2>1, <3>1, <3>2, <3>3 DEF MemoryPart
  <2>3. lsq' \in [LSQ!LsqSlot -> LSQ!LsqEntry]
    <3>1. PICK h : h = lsq_head'
      OBVIOUS
    <3>2. h \in LSQ!LsqSlot
      BY <2>2, <3>1 DEF RingIndices, LSQ!LsqSlot
    <3>3. PICK b : b = rob[rob_SIZE - 1].result
      OBVIOUS
    <3>4. lsq' = LSQ!HeadMarked(h, b)
      BY <2>1, <3>1, <3>3 DEF MemoryPart
    <3>5. lsq[h] \in LSQ!LsqEntry
      BY <1>0, <3>2
    <3>6. ASSUME NEW a \in {0, 1}
          PROVE  [lsq[h] EXCEPT !.allocated = a] \in LSQ!LsqEntry
      BY <3>5 DEF LSQ!LsqEntry
    <3>7. lsq[h].allocated \in {0, 1}
      BY <3>5 DEF LSQ!LsqEntry
    <3>8. PICK a : a = IF (IF h = -1 THEN b ELSE lsq[h].mem_address_vBit) # 0 THEN 1
                       ELSE lsq[h].allocated
      OBVIOUS
    <3>9. lsq' = [lsq EXCEPT ![h] = [lsq[h] EXCEPT !.allocated = a]]
      BY <1>0, <3>2, <3>4, <3>5, <3>8 DEF LSQ!HeadMarked, LSQ!LsqEntry
    <3>10. a \in {0, 1}
      BY <3>7, <3>8
    <3>. QED BY <1>0, <3>2, <3>6, <3>9, <3>10
  <2>. QED BY <2>2, <2>3 DEF LsqTypes
<1>4. CASE UNCHANGED lsqVars
  BY <1>0, <1>4 DEF LsqTypes, lsqVars
<1>. QED
  BY <1>1, <1>2, <1>3, <1>4
  DEF Next, APEX_writeback, APEX_ROBcommit, APEX_memoryForward, APEX_MUforward, APEX_MU,
         APEX_BU, APEX_IU, APEX_memory, APEX_DR1, APEX_fetch, Prompt, APEX_cpu_stop,
         Idle, vars

----------------------------------------------------------------------------
(* calloc and APEX_cpu_init establish the types.                           *)
LEMMA InitTypes == Init => TypeInv
<1>. SUFFICES ASSUME Init PROVE TypeInv
  OBVIOUS
<1>1. ControlTypes
  <2>1. code \in Programs
    BY DEF Init
  <2>2. code \in Seq(Instruction) /\ \A k \in DOMAIN code : LiteralFits(code[k])
    BY <2>1, ProgramsAssumption
  <2>3. Len(code) \in Nat /\ code \in [1 .. Len(code) -> Instruction]
    BY <2>2, LenProperties
  <2>4. code \in [1 .. Len(code) -> CodeEntry]
    BY <2>2, <2>3 DEF CodeEntry
  <2>5. code \in Seq(CodeEntry)
    BY <2>3, <2>4, SeqDef
  <2>6. at \in Stages
    BY LatchStages DEF Init, LatchStage
  <2>7. overlay \in Overlays /\ pc \in Int
    BY DEF Init
  <2>8. heap_intact = TRUE /\ fetching = TRUE /\ fetch_from_next_cycle = FALSE
    BY DEF Init
  <2>9. \E p \in Programs : Len(code) = Len(p)
    BY <2>1
  <2>. QED BY <2>5, <2>6, <2>7, <2>8, <2>9 DEF ControlTypes
<1>2. LatchTypes
  <2>1. latch \in [LatchStage -> Latch] /\ \A s \in LatchStage : latch[s] = Bubble
    BY BubbleIsLatch DEF Init, LatchStage
  <2>2. Bubble.has_insn = FALSE /\ LiteralFits(Bubble)
    BY DEF Bubble, LiteralFits
  <2>. QED BY <2>1, <2>2, LatchStages DEF LatchTypes, LatchesFit
<1>3. DataTypes
  BY SizesAssumption, WordIsInt DEF Init, DataTypes, Preg, PregTag, Reg
<1>4. UnitTypes
  <2>1. latch.MU = Bubble /\ latch.memory = Bubble
    BY LatchStages DEF Init, LatchStage
  <2>. QED BY <2>1 DEF Init, UnitTypes, Bubble
<1>5. FlagTypes
  BY DEF Init, FlagTypes
<1>6. FlTypes
  BY SizesAssumption DEF Init, FL!Loaded, FL!Slot, FlTypes, Preg, RingIndices
<1>7. IqTypes
  BY DEF Init, IQ!Init, IqTypes
<1>8. RobTypes
  <2>1. PICK before \in {0, -1} :
          rob = [i \in ROB!RobSlot |->
                   [allocated |-> 0, opcode |-> "ADD", rd |-> 0, lsqindex |-> 0,
                    result |-> 0, pc_value |-> IF i = -1 THEN before ELSE 0]]
    BY DEF Init, ROB!Init
  <2>2. ASSUME NEW p \in {0, -1}
        PROVE  [allocated |-> 0, opcode |-> "ADD", rd |-> 0, lsqindex |-> 0,
                result |-> 0, pc_value |-> p] \in ROB!RobEntry
    BY DomainsFit DEF ROB!RobEntry
  <2>. QED BY <2>1, <2>2 DEF RobTypes
<1>9. LsqTypes
  <2>1. LSQ!ClearEntry \in LSQ!LsqEntry
    BY DomainsFit DEF LSQ!ClearEntry, LSQ!LsqEntry
  <2>. QED BY <2>1, SizesAssumption DEF Init, LSQ!Init, LsqTypes, RingIndices
<1>. QED
  BY InitRoom, <1>1, <1>2, <1>3, <1>4, <1>5, <1>6, <1>7, <1>8, <1>9 DEF TypeInv

(* Every step keeps them.                                                  *)
LEMMA TypesKept == TypeInv /\ [Next]_vars => TypeInv'
<1>. SUFFICES ASSUME TypeInv, [Next]_vars PROVE TypeInv'
  OBVIOUS
<1>1. RoomInv'
  BY RoomKept DEF TypeInv
<1>. QED
  BY <1>1, ControlTypesKept, LatchTypesKept, DataTypesKept, UnitTypesKept, FlagTypesKept,
     FlTypesKept, IqTypesKept, RobTypesKept, LsqTypesKept DEF TypeInv

(* Every value the processor holds is of its type, together with what the  *)
(* proof of that needs: the room, the counters of the units at work, the   *)
(* shape of the entries of the issue queue.                                *)
THEOREM TypesInvariant == Spec => []TypeInv
  BY InitTypes, TypesKept, PTL DEF Spec

(* Every register, latch, index, counter and queue entry stays of its C    *)
(* type and in its array: pregs and pr_valid_bit are never indexed with -1 *)
(* by a stage that writes, the counters of the units never leave their     *)
(* range, and no queue index leaves its array.                             *)
THEOREM TypeCorrect == Spec => []TypeOK
<1>1. ASSUME TypeInv PROVE TypeOK
  <2>1. code \in Seq(Instruction)
    <3>1. code \in Seq(CodeEntry)
      BY <1>1 DEF TypeInv, ControlTypes
    <3>2. Len(code) \in Nat /\ code \in [1 .. Len(code) -> CodeEntry]
      BY <3>1, LenProperties
    <3>3. code \in [1 .. Len(code) -> Instruction]
      BY <3>2 DEF CodeEntry
    <3>. QED BY <3>2, <3>3, SeqDef
  <2>2. FL!TypeOK
    BY <1>1, SizesAssumption DEF TypeInv, FlTypes, FL!TypeOK, FL!Slot, FL!Preg, Preg, RingIndices
  <2>3. IQ!TypeOK
    <3>1. iq \in Seq(QueueEntry)
      BY <1>1 DEF TypeInv, IqTypes
    <3>2. Len(iq) \in Nat /\ iq \in [1 .. Len(iq) -> QueueEntry]
      BY <3>1, LenProperties
    <3>3. iq \in [1 .. Len(iq) -> IQ!Entry]
      BY <3>2 DEF QueueEntry
    <3>4. iq \in Seq(IQ!Entry)
      BY <3>2, <3>3, SeqDef
    <3>5. curr_iqSize \in Int /\ curr_iqSize <= iq_SIZE - 1
      BY <1>1, SizesAssumption DEF TypeInv, RoomInv, IqRoom, FrontShape
    <3>. QED BY <3>4, <3>5 DEF IQ!TypeOK
  <2>4. ROB!TypeOK
    <3>1. RobTypes /\ RobIndices
      BY <1>1 DEF TypeInv, RoomInv
    <3>. QED BY <3>1 DEF RobTypes, RobIndices, RingIndices, ROB!TypeOK, ROB!RingIndices
  <2>5. LSQ!TypeOK
    <3>1. LsqTypes
      BY <1>1 DEF TypeInv
    <3>. QED BY <3>1 DEF LsqTypes, RingIndices, LSQ!TypeOK, LSQ!RingIndices
  <2>6. /\ at \in Stages \cup Ends /\ overlay \in Overlays
        /\ pc \in Int
        /\ latch \in [Stages \ {"fetch", "prompt"} -> Latch]
    BY <1>1 DEF TypeInv, ControlTypes, LatchTypes, LatchesFit, LatchStage
  <2>7. /\ heap_intact \in BOOLEAN /\ fetching \in BOOLEAN /\ fetch_from_next_cycle \in BOOLEAN
        /\ {zero_flag, positive_flag, is_MU_free, is_MEM_free} \subseteq BOOLEAN
    BY <1>1 DEF TypeInv, ControlTypes, FlagTypes
  <2>8. DataTypes /\ MU_counter \in 0 .. 5 /\ MEM_counter \in 0 .. 3
    BY <1>1 DEF TypeInv, UnitTypes
  <2>. QED
    BY <2>1, <2>2, <2>3, <2>4, <2>5, <2>6, <2>7, <2>8, Zenon DEF TypeOK, DataTypes
<1>. QED
  BY TypesInvariant, <1>1, PTL

----------------------------------------------------------------------------
(* The schedule *)

(* Every stage has one place in the order.                                 *)
LEMMA StageOrderIs ==
  /\ Len(StageOrder) = 14
  /\ \A k \in 1 .. 14 : StageOrder[k] \in Stages
  /\ \A j, k \in 1 .. 14 : StageOrder[j] = StageOrder[k] => j = k
<1>1. Len(StageOrder) = 14
  BY DEF StageOrder
<1>2. \A k \in 1 .. 14 : StageOrder[k] \in Stages
  BY <1>1 DEF Stages
<1>3. 1 .. 14 = {1, 2, 3, 4, 5, 6, 7, 8, 9, 10, 11, 12, 13, 14}
  OBVIOUS
<1>4. ASSUME NEW j \in 1 .. 14, NEW k \in 1 .. 14, StageOrder[j] = StageOrder[k]
      PROVE  j = k
  BY <1>3, <1>4 DEF StageOrder
<1>. QED BY <1>1, <1>2, <1>4

(* The stage that follows each stage, by name.                             *)
LEMMA AfterIs ==
  /\ After("writeback") = "ROBcommit" /\ After("ROBcommit") = "memoryForward"
  /\ After("memoryForward") = "MUforward" /\ After("MUforward") = "MU" /\ After("MU") = "BU"
  /\ After("BU") = "IUforward" /\ After("IUforward") = "IU" /\ After("IU") = "issue"
  /\ After("issue") = "memory" /\ After("memory") = "RD2" /\ After("RD2") = "DR1"
  /\ After("DR1") = "fetch" /\ After("fetch") = "prompt" /\ After("prompt") = "writeback"
<1>1. ASSUME NEW k \in 1 .. 14
      PROVE  After(StageOrder[k]) = StageOrder[(k % 14) + 1]
  <2>. DEFINE s == StageOrder[k]
              t == StageOrder[(k % 14) + 1]
  <2>1. (k % 14) + 1 \in 1 .. 14
    OBVIOUS
  <2>2. t \in Stages
    BY <2>1, StageOrderIs
  <2>3. \A u : (\E j \in 1 .. Len(StageOrder) : /\ StageOrder[j] = s
                                     /\ StageOrder[(j % Len(StageOrder)) + 1] = u) <=> u = t
    BY StageOrderIs
  <2>. HIDE DEF s, t
  <2>4. After(s) = t
    BY <2>2, <2>3 DEF After
  <2>. QED BY <2>4 DEF s, t
<1>2. /\ 1 % 14 = 1 /\ 2 % 14 = 2 /\ 3 % 14 = 3 /\ 4 % 14 = 4 /\ 5 % 14 = 5 /\ 6 % 14 = 6
      /\ 7 % 14 = 7 /\ 8 % 14 = 8 /\ 9 % 14 = 9 /\ 10 % 14 = 10 /\ 11 % 14 = 11
      /\ 12 % 14 = 12 /\ 13 % 14 = 13 /\ 14 % 14 = 0
  OBVIOUS
<1>3. ASSUME NEW k \in 1 .. 13 PROVE After(StageOrder[k]) = StageOrder[k + 1]
  <2>1. k % 14 = k /\ k \in 1 .. 14
    OBVIOUS
  <2>. QED BY <1>1, <2>1
<1>4. After(StageOrder[14]) = StageOrder[1]
  BY <1>1, <1>2
<1>5. /\ After(StageOrder[1]) = StageOrder[2] /\ After(StageOrder[2]) = StageOrder[3]
      /\ After(StageOrder[3]) = StageOrder[4] /\ After(StageOrder[4]) = StageOrder[5]
      /\ After(StageOrder[5]) = StageOrder[6] /\ After(StageOrder[6]) = StageOrder[7]
      /\ After(StageOrder[7]) = StageOrder[8] /\ After(StageOrder[8]) = StageOrder[9]
      /\ After(StageOrder[9]) = StageOrder[10] /\ After(StageOrder[10]) = StageOrder[11]
      /\ After(StageOrder[11]) = StageOrder[12] /\ After(StageOrder[12]) = StageOrder[13]
      /\ After(StageOrder[13]) = StageOrder[14]
  <2>1. 1 \in 1 .. 13 /\ 2 \in 1 .. 13 /\ 3 \in 1 .. 13 /\ 4 \in 1 .. 13 /\ 5 \in 1 .. 13
        /\ 6 \in 1 .. 13 /\ 7 \in 1 .. 13 /\ 8 \in 1 .. 13 /\ 9 \in 1 .. 13
        /\ 10 \in 1 .. 13 /\ 11 \in 1 .. 13 /\ 12 \in 1 .. 13 /\ 13 \in 1 .. 13
    OBVIOUS
  <2>2. 1 + 1 = 2 /\ 2 + 1 = 3 /\ 3 + 1 = 4 /\ 4 + 1 = 5 /\ 5 + 1 = 6 /\ 6 + 1 = 7
        /\ 7 + 1 = 8 /\ 8 + 1 = 9 /\ 9 + 1 = 10 /\ 10 + 1 = 11 /\ 11 + 1 = 12
        /\ 12 + 1 = 13 /\ 13 + 1 = 14
    OBVIOUS
  <2>. QED BY <1>3, <2>1, <2>2, Zenon
<1>6. /\ StageOrder[1] = "writeback" /\ StageOrder[2] = "ROBcommit"
      /\ StageOrder[3] = "memoryForward" /\ StageOrder[4] = "MUforward"
      /\ StageOrder[5] = "MU" /\ StageOrder[6] = "BU" /\ StageOrder[7] = "IUforward"
      /\ StageOrder[8] = "IU" /\ StageOrder[9] = "issue" /\ StageOrder[10] = "memory"
      /\ StageOrder[11] = "RD2" /\ StageOrder[12] = "DR1" /\ StageOrder[13] = "fetch"
      /\ StageOrder[14] = "prompt"
  BY DEF StageOrder
<1>. QED BY <1>4, <1>5, <1>6, Zenon

(* Which stage function runs, and which one is called next.                *)
LEMMA StageStep ==
  /\ APEX_writeback => at = "writeback" /\ at' \in {"ROBcommit", "halted"}
  /\ APEX_ROBcommit => at = "ROBcommit" /\ at' = "memoryForward"
  /\ APEX_memoryForward => at = "memoryForward" /\ at' = "MUforward"
  /\ APEX_MUforward => at = "MUforward" /\ at' = "MU"
  /\ APEX_MU => at = "MU" /\ at' = "BU"
  /\ APEX_BU => at = "BU" /\ at' \in {"IUforward", "undefined"}
  /\ APEX_IUforward => at = "IUforward" /\ at' = "IU"
  /\ APEX_IU => at = "IU" /\ at' = "issue"
  /\ APEX_issue => at = "issue" /\ at' = "memory"
  /\ APEX_memory => at = "memory" /\ at' \in {"RD2", "undefined"}
  /\ APEX_RD2 => at = "RD2" /\ at' = "DR1"
  /\ APEX_DR1 => at = "DR1" /\ at' = "fetch"
  /\ APEX_fetch => at = "fetch" /\ at' \in {"prompt", "undefined"}
  /\ Prompt => at = "prompt" /\ at' \in {"writeback", "stopped"}
  BY AfterIs DEF APEX_writeback, APEX_ROBcommit, APEX_memoryForward, APEX_MUforward, APEX_MU,
     APEX_BU, APEX_IUforward, APEX_IU, APEX_issue, APEX_memory, APEX_RD2, APEX_DR1,
     APEX_fetch, Prompt, Runs

(* A stage whose latch is empty returns at once.                           *)
LEMMA IdleStep ==
  Idle => /\ at \in LatchStage \ {"BU"} /\ ~latch[at].has_insn
          /\ latch' = latch /\ at' = After(at)
  BY DEF Idle, Runs, LatchStage

(* The stages whose latch is empty once they have run.                     *)
LEMMA LatchEmptied ==
  ASSUME latch \in [LatchStage -> Latch], latch' \in [LatchStage -> Latch]
  PROVE  /\ APEX_writeback => ~latch'.writeback.has_insn
         /\ APEX_memoryForward => ~latch'.memoryForward.has_insn
         /\ APEX_MUforward => ~latch'.MUforward.has_insn
         /\ APEX_BU => ~latch'.BU.has_insn \/ at' = "undefined"
         /\ APEX_IUforward => ~latch'.IUforward.has_insn
         /\ APEX_IU => ~latch'.IU.has_insn
         /\ APEX_RD2 => ~latch'.RD2.has_insn
         /\ APEX_BU => ~latch'.BU.has_insn \/ latch' = latch
         /\ APEX_MU => ~latch'.MU.has_insn \/ latch' = latch
         /\ APEX_memory => ~latch'.memory.has_insn \/ latch' = latch
<1>1. \A s \in LatchStage : latch[s] \in Latch
  OBVIOUS
<1>2. ASSUME APEX_writeback PROVE latch'.writeback.has_insn = FALSE
  BY <1>1, <1>2, LatchStages DEF APEX_writeback, Latch
<1>3. ASSUME APEX_memoryForward PROVE latch'.memoryForward.has_insn = FALSE
  BY <1>1, <1>3, LatchStages DEF APEX_memoryForward, Latch
<1>4. ASSUME APEX_MUforward PROVE latch'.MUforward.has_insn = FALSE
  BY <1>1, <1>4, LatchStages DEF APEX_MUforward, Latch
<1>5. ASSUME APEX_BU PROVE latch'.BU.has_insn = FALSE \/ at' = "undefined"
  BY <1>1, <1>5, LatchStages DEF APEX_BU, Branch, Latch
<1>6. ASSUME APEX_IUforward PROVE latch'.IUforward.has_insn = FALSE
  BY <1>1, <1>6, LatchStages DEF APEX_IUforward, Latch
<1>7. ASSUME APEX_IU PROVE latch'.IU.has_insn = FALSE
  <2>1. PICK v : latch' = [latch EXCEPT !.IUforward = v, !.IU.has_insn = FALSE]
    BY <1>7 DEF APEX_IU
  <2>. QED BY <1>1, <2>1, LatchStages DEF Latch
<1>8. ASSUME APEX_RD2 PROVE latch'.RD2.has_insn = FALSE
  <2>1. PICK v : latch' = [latch EXCEPT !.issue = v, !.RD2.has_insn = FALSE]
    BY <1>8 DEF APEX_RD2
  <2>. QED BY <1>1, <2>1, LatchStages DEF Latch
<1>9. ASSUME APEX_BU PROVE latch'.BU.has_insn = FALSE \/ latch' = latch
  BY <1>1, <1>9, LatchStages DEF APEX_BU, Branch, Latch
<1>10. ASSUME NEW s \in {"MU", "memory"}, NEW t \in LatchStage, NEW v, t # s,
              latch' = [latch EXCEPT ![s].has_insn = FALSE, ![t] = v]
       PROVE  latch'[s].has_insn = FALSE
  BY <1>1, <1>10, LatchStages DEF Latch
<1>11. ASSUME APEX_MU PROVE latch'.MU.has_insn = FALSE \/ latch' = latch
  BY <1>10, <1>11, LatchStages DEF APEX_MU
<1>12. ASSUME APEX_memory PROVE latch'.memory.has_insn = FALSE \/ latch' = latch
  BY <1>10, <1>12, LatchStages DEF APEX_memory
<1>. QED
  BY <1>2, <1>3, <1>4, <1>5, <1>6, <1>7, <1>8, <1>9, <1>11, <1>12

(* The latches that are empty when a stage is called, because the stage    *)
(* that reads them is called before the one that fills them.               *)
Schedule ==
  /\ at = "ROBcommit" => ~latch.writeback.has_insn
  /\ at \in {"MUforward", "MU", "BU", "IUforward", "IU", "issue", "memory"}
       => ~latch.memoryForward.has_insn
  /\ at = "MU" => ~latch.MUforward.has_insn
  /\ at \in {"IUforward", "IU", "issue"} => ~latch.BU.has_insn
  /\ at = "IU" => ~latch.IUforward.has_insn
  /\ at = "issue" => ~latch.IU.has_insn
  /\ at = "DR1" => ~latch.RD2.has_insn

(* Every step keeps the schedule.                                          *)
LEMMA ScheduleKept ==
  ASSUME TypeInv, TypeInv', Schedule, [Next]_vars
  PROVE  Schedule'
<1>0. latch \in [LatchStage -> Latch] /\ latch' \in [LatchStage -> Latch]
  BY DEF TypeInv, LatchTypes, LatchesFit
<1>. USE <1>0, LatchStages, StageStep, LatchEmptied, LatchFrame DEF Schedule, Touches
<1>1. CASE APEX_writeback
  BY <1>1
<1>2. CASE APEX_ROBcommit
  BY <1>2
<1>3. CASE APEX_memoryForward
  BY <1>3
<1>4. CASE APEX_MUforward
  BY <1>4
<1>5. CASE APEX_MU
  BY <1>5
<1>6. CASE APEX_BU
  BY <1>6
<1>7. CASE APEX_IUforward
  BY <1>7
<1>8. CASE APEX_IU
  BY <1>8
<1>9. CASE APEX_issue
  BY <1>9
<1>10. CASE APEX_memory
  BY <1>10
<1>11. CASE APEX_RD2
  BY <1>11
<1>12. CASE APEX_DR1
  BY <1>12
<1>13. CASE APEX_fetch
  BY <1>13
<1>14. CASE Prompt
  BY <1>14
<1>15. CASE Idle
  <2>1. latch' = latch /\ at \in LatchStage \ {"BU"} /\ ~latch[at].has_insn /\ at' = After(at)
    BY <1>15, IdleStep
  <2>. QED BY <2>1, AfterIs
<1>16. CASE APEX_cpu_stop \/ UNCHANGED vars
  BY <1>16 DEF APEX_cpu_stop, vars
<1>. QED
  BY <1>1, <1>2, <1>3, <1>4, <1>5, <1>6, <1>7, <1>8, <1>9, <1>10, <1>11, <1>12, <1>13, <1>14,
     <1>15, <1>16 DEF Next

(* A busy unit is offered nothing.                                         *)
LEMMA BusyUnitsKept ==
  ASSUME latch \in [LatchStage -> Latch], APEX_issue
  PROVE  /\ ~is_MU_free => latch'.MU = latch.MU
         /\ ~is_MEM_free => latch'.memory = latch.memory
<1>. USE LatchStages
<1>1. ASSUME NEW l, MemoryPart(l)
      PROVE  \/ latch' = l
             \/ /\ is_MEM_free
                /\ \E op : latch' = [l EXCEPT !.issue = op, !.memory = op]
  BY <1>1 DEF MemoryPart, LoadToMemory, StoreToMemory, NothingToMemory, StartMemory
<1>2. ASSUME NEW l, DOMAIN l = LatchStage, MemoryPart(l)
      PROVE  latch'.MU = l.MU /\ (~is_MEM_free => latch'.memory = l.memory)
  BY <1>1, <1>2
<1>3. CASE MemoryPart(latch)
  BY <1>2, <1>3
<1>4. ASSUME NEW fu \in IQ!Unit, NEW entry, fu = 1 => is_MU_free,
             MemoryPart([latch EXCEPT !.issue = entry, ![UnitStage(fu)] = entry])
      PROVE  /\ ~is_MU_free => latch'.MU = latch.MU
             /\ ~is_MEM_free => latch'.memory = latch.memory
  <2>1. UnitStage(fu) \in {"IU", "MU", "BU"} /\ (UnitStage(fu) = "MU" <=> fu = 1)
    BY DEF IQ!Unit, UnitStage
  <2>2. PICK l : l = [latch EXCEPT !.issue = entry, ![UnitStage(fu)] = entry]
    OBVIOUS
  <2>3. DOMAIN l = LatchStage /\ l.memory = latch.memory /\ (fu # 1 => l.MU = latch.MU)
    BY <2>1, <2>2
  <2>4. latch'.MU = l.MU /\ (~is_MEM_free => latch'.memory = l.memory)
    BY <1>2, <1>4, <2>2, <2>3
  <2>. QED BY <1>4, <2>3, <2>4
<1>. QED BY <1>3, <1>4 DEF APEX_issue, CanStart

(* A stage writes into a latch of another one only while that is empty.    *)
LEMMA NoLatchOverwritten ==
  ASSUME TypeInv, TypeInv', Schedule, [Next]_vars,
         NEW s \in DOMAIN latch \ {"DR1", "issue", "ROBcommit"},
         latch[s].has_insn, latch'[s].has_insn
  PROVE  latch'[s] = latch[s]
<1>0. /\ latch \in [LatchStage -> Latch] /\ latch' \in [LatchStage -> Latch]
      /\ s \in LatchStage \ {"DR1", "issue", "ROBcommit"}
  BY DEF TypeInv, LatchTypes, LatchesFit
<1>. USE <1>0, LatchStages, StageStep, LatchEmptied, LatchFrame DEF Schedule, Touches
<1>1. CASE APEX_writeback
  BY <1>1
<1>2. CASE APEX_ROBcommit
  BY <1>2
<1>3. CASE APEX_memoryForward
  BY <1>3
<1>4. CASE APEX_MUforward
  BY <1>4
<1>5. CASE APEX_MU
  BY <1>5
<1>6. CASE APEX_BU
  <2>1. CASE Branch /\ s = "RD2"
    <3>1. latch'.RD2 = [latch.RD2 EXCEPT !.has_insn = @ /\ latch.BU.opcode = "BNP"]
      BY <2>1 DEF Branch
    <3>2. latch.RD2 \in Latch /\ latch'.RD2 \in Latch
      OBVIOUS
    <3>3. latch'.RD2.has_insn = TRUE /\ latch.RD2.has_insn = TRUE
      BY <2>1, <3>2 DEF Latch
    <3>4. latch'.RD2.has_insn = (latch.RD2.has_insn /\ latch.BU.opcode = "BNP")
      BY <3>1, <3>2 DEF Latch
    <3>5. (latch.RD2.has_insn /\ latch.BU.opcode = "BNP") = TRUE
      BY <3>3, <3>4
    <3>6. [latch.RD2 EXCEPT !.has_insn = TRUE] = latch.RD2
      BY <3>2, <3>3 DEF Latch
    <3>. QED BY <2>1, <3>1, <3>5, <3>6
  <2>2. CASE s # "RD2"
    BY <1>6, <2>2
  <2>3. CASE latch' = [latch EXCEPT !.BU.has_insn = FALSE] \/ UNCHANGED latch
    BY <2>3, <2>2
  <2>. QED BY <1>6, <2>1, <2>2, <2>3 DEF APEX_BU
<1>7. CASE APEX_IUforward
  BY <1>7
<1>8. CASE APEX_IU
  BY <1>8
<1>9. CASE APEX_issue
  <2>1. UnitTypes
    BY DEF TypeInv
  <2>. QED BY <1>9, <2>1, BusyUnitsKept DEF UnitTypes
<1>10. CASE APEX_memory
  BY <1>10
<1>11. CASE APEX_RD2
  BY <1>11
<1>12. CASE APEX_DR1
  BY <1>12
<1>13. CASE APEX_fetch
  BY <1>13
<1>14. CASE Prompt \/ Idle \/ APEX_cpu_stop \/ UNCHANGED vars
  BY <1>14 DEF Prompt, Idle, APEX_cpu_stop, vars
<1>. QED
  BY <1>1, <1>2, <1>3, <1>4, <1>5, <1>6, <1>7, <1>8, <1>9, <1>10, <1>11, <1>12, <1>13, <1>14
  DEF Next

(* No stage writes an instruction into a latch that still holds another    *)
(* one, for every program and every order of arrivals: the order in which  *)
(* APEX_cpu_run calls the stages, and the flags of the two slow units, are *)
(* enough.                                                                 *)
THEOREM NoInstructionOverwritten == Spec => NoneOverwritten
<1>1. Init => Schedule
  BY DEF Init, Schedule
<1>2. TypeInv /\ TypeInv' /\ Schedule /\ [Next]_vars => Schedule'
  BY ScheduleKept
<1>3. Spec => []Schedule
  BY <1>1, <1>2, TypesInvariant, PTL DEF Spec
<1>4. TypeInv /\ TypeInv' /\ Schedule /\ [Next]_vars =>
        [\A s \in DOMAIN latch \ {"DR1", "issue", "ROBcommit"} :
           latch[s].has_insn /\ latch'[s].has_insn => latch'[s] = latch[s]]_vars
  BY NoLatchOverwritten
<1>. QED
  BY <1>3, <1>4, TypesInvariant, PTL DEF Spec, NoneOverwritten

----------------------------------------------------------------------------
(* Retirement *)

ROBP == INSTANCE ReorderBufferProofs WITH LsqIndex <- -1 .. lsq_SIZE - 1, NoResult <- NoValue

(* The processor's buffer has the constants the component asks for.        *)
LEMMA RobAssumptions == ROBP!RobSizeAssumption /\ ROBP!RobDomainAssumption
  BY SizesAssumption, DomainsFit DEF ROBP!RobSizeAssumption, ROBP!RobDomainAssumption

(* The instance of the proofs speaks of the same buffer as ApexCpu's.      *)
LEMMA SameReading ==
  /\ ROBP!TypeOK = ROB!TypeOK
  /\ ROBP!InFlight = ROB!InFlight
  /\ ROBP!RobSlot = ROB!RobSlot
  /\ ROBP!rob_checkFull = ROB!rob_checkFull
<1>. USE DEF ROBP!RobSlot, ROB!RobSlot
<1>1. ROBP!TypeOK = ROB!TypeOK
  BY DEF ROBP!TypeOK, ROB!TypeOK, ROBP!RobEntry, ROB!RobEntry, ROBP!RingIndices,
         ROB!RingIndices
<1>2. ROBP!InFlight = ROB!InFlight
  BY DEF ROB!InFlight, ROBP!InFlight, ROB!RobCount, ROBP!RobCount, ROB!RingCount,
         ROBP!RingCount, ROB!RingSlot, ROBP!RingSlot
<1>3. ROBP!rob_checkFull = ROB!rob_checkFull
  BY DEF ROBP!rob_checkFull, ROB!rob_checkFull
<1>. QED BY <1>1, <1>2, <1>3

(* The same of the next state.                                             *)
LEMMA SameReadingNext ==
  /\ ROBP!TypeOK' = ROB!TypeOK'
  /\ ROBP!InFlight' = ROB!InFlight'
<1>1. ROBP!TypeOK' = ROB!TypeOK'
  BY DEF ROBP!TypeOK, ROB!TypeOK, ROBP!RobEntry, ROB!RobEntry, ROBP!RingIndices,
         ROB!RingIndices, ROBP!RobSlot, ROB!RobSlot
<1>2. ROBP!InFlight' = ROB!InFlight'
  BY DEF ROB!InFlight, ROBP!InFlight, ROB!RobCount, ROBP!RobCount, ROB!RingCount,
         ROBP!RingCount, ROB!RingSlot, ROBP!RingSlot
<1>. QED BY <1>1, <1>2

(* A step of the one abstract queue is a step of the other.                *)
LEMMA SameAbstraction ==
  /\ ROBP!Abstract!Enter => ROB!Abstract!Next
  /\ ROBP!Abstract!Complete => ROB!Abstract!Next
  /\ ROBP!Abstract!Retire => ROB!Abstract!Next
<1>1. ROBP!InFlight = ROB!InFlight /\ ROBP!InFlight' = ROB!InFlight'
  BY SameReading, SameReadingNext
<1>2. ROBP!Abstract!Enter => ROB!Abstract!Enter
  BY <1>1 DEF ROBP!Abstract!Enter, ROB!Abstract!Enter, ROBP!Dispatched, ROB!Dispatched
<1>3. ROBP!Abstract!Complete => ROB!Abstract!Complete
  BY <1>1 DEF ROBP!Abstract!Complete, ROB!Abstract!Complete
<1>4. ROBP!Abstract!Retire => ROB!Abstract!Retire
  BY <1>1 DEF ROBP!Abstract!Retire, ROB!Abstract!Retire
<1>. QED BY <1>2, <1>3, <1>4 DEF ROB!Abstract!Next

(* rob_update, of whatever instruction, is a completion.                   *)
LEMMA UpdateReports ==
  ASSUME ROB!TypeOK, ROB!TypeOK', NEW p, NEW result \in Word, ROB!rob_update(p, result)
  PROVE  ROB!Abstract!Next
<1>1. ROBP!rob_update(p, result)
  BY DEF ROBP!rob_update, ROB!rob_update, ROBP!RobSlot, ROB!RobSlot, ROBP!Scanned, ROB!Scanned,
         ROBP!rob_checkEmpty, ROB!rob_checkEmpty, ROB!RingSlots, ROBP!RingSlots
<1>2. ROBP!TypeOK /\ ROBP!TypeOK'
  BY SameReading, SameReadingNext
<1>. QED BY <1>1, <1>2, RobAssumptions, ROBP!UpdateCompletes, SameAbstraction

(* rob_Commitment, behind the tests of APEX_ROBcommit, retires.            *)
LEMMA CommitmentIsRetirement ==
  ASSUME ROB!TypeOK, ROB!TypeOK', MayRetire, ROB!rob_Commitment
  PROVE  ROB!Abstract!Next \/ UNCHANGED ROB!InFlight
<1>1. ROBP!rob_Commitment
  BY DEF ROBP!rob_Commitment, ROB!rob_Commitment, ROBP!rob_checkEmpty, ROB!rob_checkEmpty
<1>2. ROBP!TypeOK /\ ROBP!TypeOK'
  BY SameReading, SameReadingNext
<1>3. ROBP!InFlight = ROB!InFlight /\ ROBP!InFlight' = ROB!InFlight'
  BY SameReading, SameReadingNext
<1>4. UNCHANGED ROBP!InFlight \/ ROBP!Abstract!Retire
  BY <1>1, <1>2, RobAssumptions, ROBP!CommitmentRetires DEF MayRetire
<1>. QED BY <1>3, <1>4, SameAbstraction

(* What memoryForward writes into a slot is a completion.                  *)
LEMMA SlotReports ==
  ASSUME ROB!TypeOK, ROB!TypeOK', NEW i \in ROB!RobSlot,
         rob' = [rob EXCEPT ![i] = rob'[i]], rob'[i].allocated = 1,
         rob'[i].opcode = rob[i].opcode, rob'[i].pc_value = rob[i].pc_value,
         rob'[i].rd = rob[i].rd, rob'[i].lsqindex = rob[i].lsqindex,
         UNCHANGED <<rob_head, rob_tail>>
  PROVE  ROB!Abstract!Next
<1>1. ROBP!TypeOK /\ ROBP!TypeOK' /\ i \in ROBP!RobSlot
  BY SameReading, SameReadingNext
<1>. QED BY <1>1, RobAssumptions, ROBP!SlotCompletes, SameAbstraction

(* rob_Entry, with room in the buffer, enters.                             *)
LEMMA EntryIsEnter ==
  ASSUME ROB!TypeOK, ROB!TypeOK', NEW insn \in ROB!Dispatched, ~ROB!rob_checkFull,
         ROB!rob_Entry(insn)
  PROVE  ROB!Abstract!Next
<1>1. ROBP!rob_Entry(insn) /\ insn \in ROBP!Dispatched /\ ~ROBP!rob_checkFull
  BY SameReading
  DEF ROBP!rob_Entry, ROB!rob_Entry, ROBP!Dispatched, ROB!Dispatched
<1>2. ROBP!TypeOK /\ ROBP!TypeOK'
  BY SameReading, SameReadingNext
<1>. QED BY <1>1, <1>2, RobAssumptions, ROBP!EntryEnters, SameAbstraction

(* Every step of the processor is one of the retirement queue, or none.    *)
LEMMA RobStepRefines ==
  ASSUME TypeInv, ROB!TypeOK, ROB!TypeOK', [Next]_vars
  PROVE  ROB!Abstract!Next \/ UNCHANGED ROB!InFlight
<1>0. latch \in [LatchStage -> Latch] /\ rob \in [ROB!RobSlot -> ROB!RobEntry] /\ RobIndices
  BY DEF TypeInv, LatchTypes, LatchesFit, RobTypes, RoomInv
<1>1. CASE UNCHANGED robVars
  BY <1>1
  DEF robVars, ROB!InFlight, ROB!RobCount, ROB!RingCount, ROB!RingSlot
<1>2. CASE APEX_MUforward \/ APEX_IUforward \/ APEX_BU
  <2>1. /\ latch.MUforward.result_buffer \in Word
        /\ latch.IUforward.result_buffer \in Word
        /\ latch.BU.result_buffer \in Word
    BY <1>0, LatchStages DEF Latch
  <2>. QED
    BY <1>1, <1>2, <2>1, UpdateReports DEF APEX_MUforward, APEX_IUforward, APEX_BU
<1>3. CASE APEX_ROBcommit
  BY <1>1, <1>3, CommitmentIsRetirement DEF APEX_ROBcommit
<1>4. CASE APEX_memoryForward
  <2>1. UNCHANGED <<rob_head, rob_tail>>
    BY <1>4 DEF APEX_memoryForward
  <2>2. ASSUME NEW i \in ROB!RobSlot,
               \/ rob' = [rob EXCEPT ![i].allocated = 1]
               \/ rob' = [rob EXCEPT ![i].allocated = 1,
                                     ![i].result = latch.memoryForward.result_buffer]
        PROVE  ROB!Abstract!Next
    <3>1. rob[i] \in ROB!RobEntry
      BY <1>0
    <3>2. PICK e : /\ \/ e = [rob[i] EXCEPT !.allocated = 1]
                      \/ e = [rob[i] EXCEPT !.allocated = 1,
                                            !.result = latch.memoryForward.result_buffer]
                   /\ rob' = [rob EXCEPT ![i] = e]
      BY <1>0, <2>2
    <3>3. e.allocated = 1 /\ e.opcode = rob[i].opcode /\ e.pc_value = rob[i].pc_value
          /\ e.rd = rob[i].rd /\ e.lsqindex = rob[i].lsqindex
      BY <3>1, <3>2 DEF ROB!RobEntry
    <3>4. rob'[i] = e
      BY <1>0, <3>2
    <3>. QED BY <2>1, <3>2, <3>3, <3>4, SlotReports
  <2>3. /\ ROB!SearchStop(latch.memoryForward.pc) \in ROB!RobSlot
        /\ rob_head \in ROB!RobSlot
    BY <1>0, SearchStopIsSlot DEF RobIndices, RingIndices, ROB!RobSlot
  <2>. QED BY <1>1, <1>4, <2>2, <2>3 DEF APEX_memoryForward, robVars
<1>5. CASE APEX_RD2
  <2>1. latch.RD2 \in Latch /\ latch.RD2.pc \in InsnPc /\ latch.RD2.has_insn
    BY <1>0, <1>5, LatchStages DEF TypeInv, LatchTypes, LatchesFit, APEX_RD2
  <2>2. ~ROB!rob_checkFull
    BY <2>1 DEF TypeInv, RoomInv, RobRoom
  <2>3. (lsq_tail + 1) % lsq_SIZE \in -1 .. lsq_SIZE - 1 /\ -1 \in -1 .. lsq_SIZE - 1
    BY SizesAssumption DEF TypeInv, LsqTypes, RingIndices
  <2>4. PICK sent : /\ sent = [latch.RD2 EXCEPT !.lsqIndex =
                                  IF latch.RD2.opcode \in {"LOAD", "STORE"} THEN lsq_tail'
                                  ELSE IF latch.RD2.opcode = "DIV" THEN @ ELSE -1]
                    /\ \/ ROB!rob_Entry(sent) /\ latch.RD2.opcode # "DIV"
                       \/ UNCHANGED robVars
    BY <1>5 DEF APEX_RD2
  <2>5. CASE ROB!rob_Entry(sent) /\ latch.RD2.opcode # "DIV"
    <3>1. sent.pc \in InsnPc /\ sent.opcode \in Opcode /\ sent.rd \in Reg
      BY <2>1, <2>4 DEF Latch
    <3>2. sent.lsqIndex \in -1 .. lsq_SIZE - 1
      <4>1. latch.RD2.opcode \in {"LOAD", "STORE"} => lsq_tail' = (lsq_tail + 1) % lsq_SIZE
        BY <1>5 DEF APEX_RD2, LSQ!lsq_Entry
      <4>2. sent.lsqIndex = IF latch.RD2.opcode \in {"LOAD", "STORE"} THEN lsq_tail' ELSE -1
        BY <2>1, <2>4, <2>5 DEF Latch
      <4>. QED BY <2>3, <4>1, <4>2
    <3>3. PICK insn : insn = [opcode |-> sent.opcode, pc |-> sent.pc, rd |-> sent.rd,
                              lsqIndex |-> sent.lsqIndex]
      OBVIOUS
    <3>4. insn \in ROB!Dispatched
      BY <3>1, <3>2, <3>3 DEF ROB!Dispatched
    <3>5. insn.opcode = sent.opcode /\ insn.pc = sent.pc /\ insn.rd = sent.rd
          /\ insn.lsqIndex = sent.lsqIndex
      BY <3>3
    <3>6. ROB!rob_Entry(insn)
      BY <2>5, <3>5 DEF ROB!rob_Entry
    <3>. QED BY <2>2, <3>4, <3>6, EntryIsEnter
  <2>. QED BY <1>1, <2>4, <2>5
<1>. QED
  BY <1>1, <1>2, <1>3, <1>4, <1>5
  DEF Next, APEX_writeback, APEX_MU, APEX_IU, APEX_issue, APEX_memory,
         APEX_DR1, APEX_fetch, Prompt, APEX_cpu_stop, Idle, vars

(* The reorder buffer of the processor implements the retirement queue:    *)
(* whatever the program branches to and whichever unit reports first,      *)
(* instructions leave in the order RD2 entered them, each with a result    *)
(* that was reported.                                                      *)
THEOREM RetiresInOrder == Spec => InOrderRetirement
<1>1. Init => ROB!Abstract!Empty
  BY DEF Init, ROB!Init, ROB!Abstract!Empty, ROB!InFlight, ROB!RobCount, ROB!RingCount
<1>2. TypeInv => ROB!TypeOK
  BY DEF TypeInv, RoomInv, RobTypes, RobIndices, RingIndices, ROB!TypeOK, ROB!RingIndices
<1>3. TypeInv /\ TypeInv' /\ [Next]_vars => [ROB!Abstract!Next]_(ROB!InFlight)
  <2>1. TypeInv' => ROB!TypeOK'
    BY <1>2, PTL
  <2>. QED BY <1>2, <2>1, RobStepRefines
<1>. QED
  BY <1>1, <1>3, TypesInvariant, PTL
  DEF Spec, InOrderRetirement, ROB!ImplementsRetireQueue, ROB!Abstract!Spec

----------------------------------------------------------------------------
(* The issue queue *)

OwnIndex(insn) == insn.lsqIndex = -1 <=> insn.opcode \notin {"LOAD", "STORE"}

(* After APEX_issue every entry is allocated, until RD2 appends the next.   *)
Late == at \in {"memory", "RD2"}

OldAllocated == \A k \in 1 .. Len(iq) : iq[k].allocatedBit = 1 \/ (k = Len(iq) /\ ~Late)

(* The only entry of the list is the instruction RD2 sent last.             *)
LoneEntry == /\ Len(iq) = 1
             /\ ~Late
             /\ iq[1].opcode = latch.issue.opcode
             /\ OwnIndex(latch.issue)

IqShape ==
  /\ iq # << >> => latch.issue.has_insn
  /\ OldAllocated
  /\ iq = << >> \/ (\E k \in 1 .. Len(iq) : iq[k].fuType # 0) \/ LoneEntry
  /\ \A s \in {"IU", "IUforward"} : latch[s].has_insn => OwnIndex(latch[s])

(* A step that leaves alone what the units see of the list.                *)
SameList == /\ Len(iq') = Len(iq)
            /\ \A k \in 1 .. Len(iq) : /\ iq'[k].allocatedBit = iq[k].allocatedBit
                                       /\ iq'[k].fuType = iq[k].fuType
                                       /\ iq'[k].opcode = iq[k].opcode
            /\ Late' => Late
            /\ latch'.issue = latch.issue

(* The list of waiting instructions, as a function.                        *)
LEMMA QueueIs ==
  ASSUME TypeInv
  PROVE  /\ Len(iq) \in Nat
         /\ iq \in [1 .. Len(iq) -> QueueEntry]
         /\ iq = << >> <=> Len(iq) = 0
         /\ \A k \in 1 .. Len(iq) : iq[k].src1Ready = 1 /\ iq[k].src2Ready = 1
  BY LenProperties, EmptySeq DEF TypeInv, IqTypes, QueueEntry

(* A step that changes neither bits, units nor opcodes keeps the shape.    *)
LEMMA SameListKeepsShape ==
  ASSUME TypeInv, TypeInv', IqShape, SameList,
         \A s \in {"IU", "IUforward"} : latch'[s].has_insn => OwnIndex(latch'[s])
  PROVE  IqShape'
<1>1. /\ Len(iq) \in Nat /\ iq = << >> <=> Len(iq) = 0
      /\ iq' = << >> <=> Len(iq') = 0
  <2>1. iq = << >> <=> Len(iq) = 0
    BY QueueIs
  <2>2. iq' \in Seq(QueueEntry)
    BY DEF TypeInv, IqTypes
  <2>. QED BY <2>1, <2>2, QueueIs, EmptySeq
<1>2. OldAllocated'
  BY <1>1 DEF IqShape, SameList, OldAllocated
<1>3. iq' # << >> => latch'.issue.has_insn
  BY <1>1 DEF IqShape, SameList
<1>4. iq' = << >> \/ (\E k \in 1 .. Len(iq') : iq'[k].fuType # 0) \/ LoneEntry'
  <2>1. CASE iq = << >>
    BY <1>1, <2>1 DEF SameList
  <2>2. CASE \E k \in 1 .. Len(iq) : iq[k].fuType # 0
    BY <2>2 DEF SameList
  <2>3. CASE LoneEntry
    BY <2>3 DEF SameList, LoneEntry, OwnIndex
  <2>. QED BY <2>1, <2>2, <2>3 DEF IqShape
<1>5. \A s \in {"IU", "IUforward"} : latch[s]'.has_insn => OwnIndex(latch[s])'
  BY DEF OwnIndex
<1>. QED BY <1>2, <1>3, <1>4, <1>5 DEF IqShape

(* What WithNextAllocated makes of a list whose last entry alone may still *)
(* wait for its allocation.                                                *)
LEMMA AllAllocated ==
  ASSUME TypeInv, IqShape, NEW queue, queue = IQ!WithNextAllocated
  PROVE  /\ queue \in Seq(QueueEntry)
         /\ Len(queue) = Len(iq)
         /\ IQ!Allocated(queue) = 1 .. Len(queue)
         /\ \A k \in 1 .. Len(iq) : /\ queue[k].allocatedBit = 1
                                    /\ queue[k].fuType = iq[k].fuType
                                    /\ queue[k].opcode = iq[k].opcode
                                    /\ queue[k].dest = iq[k].dest
                                    /\ queue[k].pc = iq[k].pc
<1>1. queue \in Seq(QueueEntry)
  BY AllocationKeepsEntries DEF TypeInv
<1>2. PICK waiting : waiting = {k \in 1 .. Len(iq) : iq[k].allocatedBit = 0}
  OBVIOUS
<1>3. waiting \subseteq {Len(iq)}
  BY <1>2 DEF IqShape, OldAllocated
<1>4. \A k \in 1 .. Len(iq) : iq[k].allocatedBit \in {0, 1}
  BY QueueIs DEF QueueEntry, IQ!Entry
<1>5. /\ Len(queue) = Len(iq)
      /\ \A k \in 1 .. Len(iq) : /\ queue[k].allocatedBit = 1
                                 /\ queue[k].fuType = iq[k].fuType
                                 /\ queue[k].opcode = iq[k].opcode
                                 /\ queue[k].dest = iq[k].dest
                                 /\ queue[k].pc = iq[k].pc
  <2>1. CASE waiting = {}
    <3>1. queue = iq
      BY <1>2, <2>1 DEF IQ!WithNextAllocated
    <3>. QED BY <1>2, <1>4, <2>1, <3>1
  <2>2. CASE waiting # {}
    <3>1. waiting = {Len(iq)} /\ Len(iq) \in 1 .. Len(iq)
      BY <1>2, <1>3, <2>2
    <3>2. PICK k0 : k0 = IQ!Min(waiting)
      OBVIOUS
    <3>3. Len(iq) \in Nat
      BY QueueIs
    <3>4. k0 = Len(iq)
      BY <3>1, <3>2, <3>3 DEF IQ!Min
    <3>5. queue = [iq EXCEPT ![k0].allocatedBit = 1]
      BY <1>2, <2>2, <3>2 DEF IQ!WithNextAllocated
    <3>6. queue = [k \in 1 .. Len(iq) |-> IF k = k0 THEN [iq[k] EXCEPT !.allocatedBit = 1]
                                          ELSE iq[k]]
      BY <3>5, QueueIs
    <3>7. Len(queue) = Len(iq)
      BY <1>1, <3>3, <3>6, LenProperties
    <3>8. ASSUME NEW k \in 1 .. Len(iq)
          PROVE  /\ queue[k].allocatedBit = 1
                 /\ queue[k].fuType = iq[k].fuType
                 /\ queue[k].opcode = iq[k].opcode
                 /\ queue[k].dest = iq[k].dest
                 /\ queue[k].pc = iq[k].pc
      <4>1. iq[k] \in QueueEntry
        BY QueueIs
      <4>2. k # k0 => iq[k].allocatedBit = 1
        BY <1>2, <1>4, <3>1, <3>4
      <4>. QED BY <3>6, <4>1, <4>2 DEF QueueEntry, IQ!Entry
    <3>. QED BY <3>7, <3>8
  <2>. QED BY <2>1, <2>2
<1>6. IQ!Allocated(queue) = 1 .. Len(queue)
  <2>1. Len(queue) \in Nat /\ queue \in [1 .. Len(queue) -> QueueEntry]
    BY <1>1, LenProperties
  <2>2. \A k \in 1 .. Len(queue) : queue[k].src1Ready = 1 /\ queue[k].src2Ready = 1
    BY <2>1 DEF QueueEntry
  <2>. QED BY <1>5, <2>1, <2>2 DEF IQ!Allocated
<1>. QED BY <1>1, <1>5, <1>6

(* What is left of a list of one.                                          *)
LEMMA TailOfOne ==
  ASSUME NEW S, NEW q \in Seq(S), Len(q) = 1
  PROVE  Tail(q) = << >>
<1>1. q # << >>
  BY EmptySeq
<1>2. Tail(q) \in Seq(S) /\ Len(Tail(q)) = 0
  BY <1>1, HeadTailProperties
<1>. QED BY <1>2, EmptySeq

(* What APEX_issue does: it leaves an entry where it is, or moves the only *)
(* one there is to the integer unit.                                       *)
LEMMA IssueIs ==
  ASSUME TypeInv, IqShape, Schedule, APEX_issue
  PROVE  /\ latch'.issue.has_insn = TRUE /\ latch'.IUforward = latch.IUforward
         /\ \A k \in 1 .. Len(iq') : /\ k \in 1 .. Len(iq)
                                     /\ iq'[k].allocatedBit = 1
                                     /\ iq'[k].dest = iq[k].dest
         /\ iq' = << >> \/ \E k \in 1 .. Len(iq') : iq'[k].fuType # 0
         /\ \/ latch'.IU = latch.IU
            \/ /\ LoneEntry
               /\ iq' = << >>
               /\ OwnIndex(latch'.IU)
               /\ latch'.IU.prd = iq[1].dest
<1>0. /\ latch \in [LatchStage -> Latch]
      /\ at = "issue" /\ latch.issue.has_insn
  BY StageStep DEF TypeInv, LatchTypes, LatchesFit, APEX_issue
<1>1. PICK queue : queue = IQ!WithNextAllocated
  OBVIOUS
<1>2. /\ queue \in Seq(QueueEntry)
      /\ Len(queue) = Len(iq)
      /\ IQ!Allocated(queue) = 1 .. Len(queue)
      /\ \A k \in 1 .. Len(iq) : /\ queue[k].allocatedBit = 1
                                 /\ queue[k].fuType = iq[k].fuType
                                 /\ queue[k].opcode = iq[k].opcode
                                 /\ queue[k].dest = iq[k].dest
  BY <1>1, AllAllocated
<1>3. Len(iq) \in Nat /\ (iq = << >> <=> Len(iq) = 0) /\ (queue = << >> <=> Len(iq) = 0)
  BY <1>2, QueueIs, EmptySeq
(* What MemoryPart does with the latches.                                  *)
<1>4. ASSUME NEW l, MemoryPart(l)
      PROVE  \/ latch' = l
             \/ \E op : /\ latch' = [l EXCEPT !.issue = op, !.memory = op]
                        /\ \E a, b, c, d : op = [l.issue EXCEPT !.memory_address = a, !.pc = b,
                                                       !.opcode = c, !.rs1_value = d]
  <2>1. ASSUME NEW r, NEW e, StartMemory(l, r, e)
        PROVE  \E op : /\ latch' = [l EXCEPT !.issue = op, !.memory = op]
                       /\ \E a, b, c, d : op = [l.issue EXCEPT !.memory_address = a, !.pc = b,
                                                      !.opcode = c, !.rs1_value = d]
    BY <2>1 DEF StartMemory
  <2>2. latch' = l \/ \E r, e : StartMemory(l, r, e)
    BY <1>4 DEF MemoryPart, LoadToMemory, StoreToMemory, NothingToMemory
  <2>. QED BY <2>1, <2>2
<1>5. ASSUME NEW l \in [LatchStage -> Latch], l.issue.has_insn = TRUE, MemoryPart(l)
      PROVE  latch'.issue.has_insn = TRUE /\ latch'.IU = l.IU /\ latch'.IUforward = l.IUforward
  <2>1. CASE latch' = l
    BY <1>5, <2>1
  <2>2. ASSUME NEW op, latch' = [l EXCEPT !.issue = op, !.memory = op],
               \E a, b, c, d : op = [l.issue EXCEPT !.memory_address = a, !.pc = b,
                                                    !.opcode = c, !.rs1_value = d]
        PROVE  latch'.issue.has_insn = TRUE /\ latch'.IU = l.IU
               /\ latch'.IUforward = l.IUforward
    <3>1. l.issue \in Latch
      BY LatchStages
    <3>2. op.has_insn = TRUE
      BY <1>5, <2>2, <3>1 DEF Latch
    <3>. QED BY <2>2, <3>2, LatchStages
  <2>. QED BY <1>4, <1>5, <2>1, <2>2
<1>6. latch.issue.has_insn = TRUE /\ latch.issue \in Latch
  BY <1>0, LatchStages DEF Latch
<1>7. Len(<< >>) = 0 /\ 1 .. Len(<< >>) = {}
  BY EmptySeq
(* Nothing is issued: there is an entry for a unit other than the integer  *)
(* one, or there is none at all.                                           *)
<1>8. CASE /\ \A fu \in IQ!Unit : ~CanStart(queue, fu)
           /\ iq' = queue
           /\ MemoryPart(latch)
  <2>1. latch'.issue.has_insn = TRUE /\ latch'.IU = latch.IU
        /\ latch'.IUforward = latch.IUforward
    BY <1>0, <1>5, <1>6, <1>8
  <2>2. iq = << >> \/ \E k \in 1 .. Len(iq) : iq[k].fuType # 0
    <3>1. ~IQ!Offered(queue, 0)
      BY <1>8 DEF CanStart, IQ!Unit
    <3>2. 1 .. Len(queue) = {} \/ \E k \in 1 .. Len(queue) : queue[k].fuType # 0
      BY <1>2, <3>1 DEF IQ!Offered
    <3>. QED BY <1>2, <1>3, <3>2
  <2>3. iq' = << >> \/ \E k \in 1 .. Len(iq') : iq'[k].fuType # 0
    BY <1>2, <1>3, <1>8, <2>2
  <2>. QED BY <1>2, <1>8, <2>1, <2>3
<1>9. ASSUME NEW fu \in IQ!Unit, CanStart(queue, fu), iq' = IQ!Unlinked(queue),
             NEW entry, entry = IssueLatch(IQ!Selected(queue)),
             MemoryPart([latch EXCEPT !.issue = entry, ![UnitStage(fu)] = entry])
      PROVE  /\ latch'.issue.has_insn = TRUE /\ latch'.IUforward = latch.IUforward
             /\ \A k \in 1 .. Len(iq') : /\ k \in 1 .. Len(iq)
                                         /\ iq'[k].allocatedBit = 1
                                         /\ iq'[k].dest = iq[k].dest
             /\ iq' = << >> \/ \E k \in 1 .. Len(iq') : iq'[k].fuType # 0
             /\ \/ latch'.IU = latch.IU
                \/ /\ LoneEntry
                   /\ iq' = << >>
                   /\ OwnIndex(latch'.IU)
                   /\ latch'.IU.prd = iq[1].dest
  <2>1. Len(iq) # 0 /\ \A k \in 1 .. Len(iq) : iq[k].fuType = fu
    BY <1>2, <1>3, <1>9 DEF CanStart, IQ!Offered
  <2>2. PICK e : e = IQ!Selected(queue)
    OBVIOUS
  <2>3. PICK k \in 1 .. Len(iq) : e = queue[k] /\ e.opcode = iq[k].opcode
                                  /\ e.dest = iq[k].dest
    <3>1. IQ!Max(IQ!Allocated(queue)) \in 1 .. Len(iq)
      BY <1>2, <1>3, <2>1, SelectedIsEntry
    <3>. QED BY <1>2, <2>2, <3>1 DEF IQ!Selected
  <2>4. e \in QueueEntry
    BY <1>2, <1>3, <2>1, <2>2, SelectedIsEntry
  <2>5. /\ e.pc \in InsnPc /\ e.opcode \in Opcode /\ e.imm \in Int /\ e.prs1 \in PregTag
        /\ e.prs1Value \in Word /\ e.prs2Value \in Word /\ e.dest \in Preg
    BY <2>4 DEF QueueEntry, IQ!Entry
  <2>6. entry = [latch.issue EXCEPT !.pc = e.pc, !.opcode = e.opcode, !.imm = e.imm,
                      !.prs1 = e.prs1, !.rs1_value = e.prs1Value,
                      !.rs2_value = e.prs2Value, !.prd = e.dest]
    BY <1>9, <2>2 DEF IssueLatch
  <2>7. /\ entry \in Latch /\ entry.has_insn = TRUE /\ entry.opcode = e.opcode
        /\ entry.lsqIndex = latch.issue.lsqIndex /\ entry.prd = e.dest
    BY <1>6, <2>5, <2>6 DEF Latch
  <2>8. UnitStage(fu) \in {"IU", "MU", "BU"} /\ (UnitStage(fu) = "IU" <=> fu = 0)
    BY DEF IQ!Unit, UnitStage
  <2>9. PICK l : l = [latch EXCEPT !.issue = entry, ![UnitStage(fu)] = entry]
    OBVIOUS
  <2>10. /\ l \in [LatchStage -> Latch] /\ l.issue = entry
         /\ l.IU = IF fu = 0 THEN entry ELSE latch.IU
         /\ l.IUforward = latch.IUforward
    BY <1>0, <2>7, <2>8, <2>9, LatchStages
  <2>11. /\ latch'.issue.has_insn = TRUE /\ latch'.IU = l.IU
         /\ latch'.IUforward = latch.IUforward
    BY <1>5, <1>9, <2>7, <2>9, <2>10
  <2>12. IQ!Unlinked(queue) \in {queue, << >>}
    <3>1. CASE Len(queue) = 1
      <4>1. Tail(queue) = << >>
        BY <1>2, <3>1, TailOfOne
      <4>. QED BY <4>1 DEF IQ!Unlinked
    <3>2. CASE Len(queue) # 1
      <4>1. IQ!Allocated(queue) # {1}
        BY <1>2, <1>3, <3>2
      <4>. QED BY <4>1 DEF IQ!Unlinked
    <3>. QED BY <3>1, <3>2
  <2>13. \A j \in 1 .. Len(iq') : /\ j \in 1 .. Len(iq)
                                 /\ iq'[j].allocatedBit = 1
                                 /\ iq'[j].dest = iq[j].dest
    BY <1>2, <1>7, <1>9, <2>12
  <2>14. CASE fu = 0
    <3>1. LoneEntry /\ Len(queue) = 1
      BY <1>2, <1>3, <2>1, <2>14 DEF IqShape, LoneEntry
    <3>2. iq' = << >>
      <4>1. IQ!Allocated(queue) = {1}
        BY <1>2, <3>1
      <4>2. Tail(queue) = << >>
        BY <1>2, <3>1, TailOfOne
      <4>. QED BY <1>9, <4>1, <4>2 DEF IQ!Unlinked
    <3>3. k = 1 /\ iq[1].opcode = latch.issue.opcode
      BY <3>1 DEF LoneEntry
    <3>4. OwnIndex(entry) /\ entry.prd = iq[1].dest
      BY <2>3, <2>7, <3>1, <3>3 DEF LoneEntry, OwnIndex
    <3>. QED BY <2>10, <2>11, <2>13, <2>14, <3>1, <3>2, <3>4
  <2>15. CASE fu # 0
    <3>1. \A j \in 1 .. Len(queue) : queue[j].fuType # 0
      BY <1>2, <2>1, <2>15
    <3>2. 1 \in 1 .. Len(queue)
      BY <1>2, <1>3, <2>1
    <3>3. iq' = << >> \/ \E j \in 1 .. Len(iq') : iq'[j].fuType # 0
      BY <1>9, <2>12, <3>1, <3>2
    <3>. QED BY <2>10, <2>11, <2>13, <2>15, <3>3
  <2>. QED BY <2>14, <2>15
<1>. QED BY <1>1, <1>8, <1>9 DEF APEX_issue

(* Nothing that waits is left for the integer unit alone.                  *)
LEMMA IssueKeepsShape ==
  ASSUME TypeInv, TypeInv', IqShape, Schedule, APEX_issue
  PROVE  IqShape'
<1>1. Late' /\ ~latch.IU.has_insn
  BY StageStep DEF Late, Schedule
<1>2. latch'.issue.has_insn = TRUE /\ latch'.IUforward = latch.IUforward
  BY IssueIs
<1>3. OldAllocated'
  BY IssueIs DEF OldAllocated
<1>4. iq' = << >> \/ \E k \in 1 .. Len(iq') : iq'[k].fuType # 0
  BY IssueIs
<1>5. latch'.IU = latch.IU \/ OwnIndex(latch'.IU)
  BY IssueIs
<1>6. \A s \in {"IU", "IUforward"} : latch'[s].has_insn => OwnIndex(latch'[s])
  BY <1>1, <1>2, <1>5 DEF IqShape
<1>. QED BY <1>2, <1>3, <1>4, <1>6 DEF IqShape, OwnIndex

(* RD2 appends to a list all of whose entries are allocated.               *)
LEMMA RD2KeepsShape ==
  ASSUME TypeInv, TypeInv', IqShape, APEX_RD2
  PROVE  IqShape'
<1>0. /\ latch \in [LatchStage -> Latch] /\ latch.RD2.has_insn /\ latch.RD2 \in Latch
      /\ at = "RD2" /\ at' = "DR1"
  BY StageStep, LatchStages DEF TypeInv, LatchTypes, LatchesFit, APEX_RD2
<1>1. PICK sent : /\ sent = [latch.RD2 EXCEPT !.lsqIndex =
                                IF latch.RD2.opcode \in {"LOAD", "STORE"} THEN lsq_tail'
                                ELSE IF latch.RD2.opcode = "DIV" THEN @ ELSE -1]
                  /\ latch' = [latch EXCEPT !.issue = sent, !.RD2.has_insn = FALSE]
                  /\ \/ /\ latch.RD2.opcode # "DIV"
                        /\ IQ!iqEntry(sent, fuType(latch.RD2.opcode))
                     \/ UNCHANGED iqVars
  BY DEF APEX_RD2
<1>2. /\ sent.has_insn /\ sent.opcode = latch.RD2.opcode
      /\ latch.RD2.opcode # "DIV" => OwnIndex(sent)
  <2>1. latch.RD2.opcode \in {"LOAD", "STORE"} => lsq_tail' = (lsq_tail + 1) % lsq_SIZE
    BY DEF APEX_RD2, LSQ!lsq_Entry
  <2>2. (lsq_tail + 1) % lsq_SIZE # -1
    BY SizesAssumption DEF TypeInv, LsqTypes, RingIndices
  <2>3. /\ sent.has_insn = latch.RD2.has_insn /\ sent.opcode = latch.RD2.opcode
        /\ sent.lsqIndex = IF latch.RD2.opcode \in {"LOAD", "STORE"} THEN lsq_tail'
                           ELSE IF latch.RD2.opcode = "DIV" THEN latch.RD2.lsqIndex ELSE -1
    BY <1>0, <1>1 DEF Latch
  <2>. QED BY <1>0, <2>1, <2>2, <2>3 DEF OwnIndex
<1>3. /\ latch'.issue = sent
      /\ latch'.IU = latch.IU /\ latch'.IUforward = latch.IUforward
  BY <1>0, <1>1, LatchStages
<1>4. \A s \in {"IU", "IUforward"} : latch'[s].has_insn => OwnIndex(latch'[s])
  BY <1>3 DEF IqShape
<1>5. \A k \in 1 .. Len(iq) : iq[k].allocatedBit = 1
  BY <1>0 DEF IqShape, OldAllocated, Late
<1>6. CASE UNCHANGED iqVars
  <2>1. iq' = iq /\ ~LoneEntry
    BY <1>0, <1>6 DEF iqVars, LoneEntry, Late
  <2>2. OldAllocated'
    BY <1>5, <2>1 DEF OldAllocated
  <2>. QED BY <1>2, <1>3, <1>4, <2>1, <2>2 DEF IqShape, OwnIndex
<1>7. CASE latch.RD2.opcode # "DIV" /\ IQ!iqEntry(sent, fuType(latch.RD2.opcode))
  <2>1. PICK e : /\ e.fuType = fuType(latch.RD2.opcode) /\ e.opcode = sent.opcode
                 /\ iq' = Append(iq, e)
    BY <1>7 DEF IQ!iqEntry
  <2>2. Len(iq) \in Nat /\ iq \in Seq(QueueEntry) /\ (iq = << >> <=> Len(iq) = 0)
    BY QueueIs DEF TypeInv, IqTypes
  <2>3. /\ Len(iq') = Len(iq) + 1
        /\ \A k \in 1 .. Len(iq) : iq'[k] = iq[k]
        /\ iq'[Len(iq) + 1] = e
    BY <2>1, <2>2
  <2>4. OldAllocated'
    BY <1>0, <1>5, <2>2, <2>3 DEF OldAllocated, Late
  <2>5. iq' = << >> \/ (\E k \in 1 .. Len(iq') : iq'[k].fuType # 0) \/ LoneEntry'
    <3>1. CASE iq = << >>
      <4>1. Len(iq') = 1 /\ iq'[1].opcode = latch'.issue.opcode
        BY <1>3, <2>1, <2>2, <2>3, <3>1
      <4>2. OwnIndex(latch'.issue)
        BY <1>2, <1>3, <1>7
      <4>. QED BY <1>0, <4>1, <4>2 DEF LoneEntry, Late, OwnIndex
    <3>2. CASE \E k \in 1 .. Len(iq) : iq[k].fuType # 0
      BY <2>2, <2>3, <3>2
    <3>. QED BY <1>0, <3>1, <3>2 DEF IqShape, LoneEntry, Late
  <2>. QED BY <1>2, <1>3, <1>4, <2>4, <2>5 DEF IqShape, OwnIndex
<1>. QED BY <1>1, <1>6, <1>7

(* A forwarded result changes the sources of the entries, nothing else.    *)
LEMMA IQupdateKeepsList ==
  ASSUME TypeInv, TypeInv', NEW prd, NEW result, IQ!IQupdate(prd, result)
  PROVE  /\ Len(iq') = Len(iq)
         /\ \A k \in 1 .. Len(iq) : /\ iq'[k].allocatedBit = iq[k].allocatedBit
                                    /\ iq'[k].fuType = iq[k].fuType
                                    /\ iq'[k].opcode = iq[k].opcode
                                    /\ iq'[k].dest = iq[k].dest
                                    /\ iq'[k].pc = iq[k].pc
<1>1. iq' = [k \in 1 .. Len(iq) |->
              [iq[k] EXCEPT !.prs1Value = IF iq[k].prs1 = prd THEN result ELSE @,
                            !.src1Ready = IF iq[k].prs1 = prd THEN 1 ELSE @,
                            !.prs2Value = IF iq[k].prs2 = prd THEN result ELSE @,
                            !.src2Ready = IF iq[k].prs2 = prd THEN 1 ELSE @]]
  BY DEF IQ!IQupdate
<1>2. Len(iq) \in Nat /\ \A k \in 1 .. Len(iq) : iq[k] \in QueueEntry
  BY QueueIs
<1>3. Len(iq') = Len(iq)
  <2>1. Len(iq') \in Nat /\ DOMAIN iq' = 1 .. Len(iq')
    BY LenProperties DEF TypeInv, IqTypes
  <2>2. DOMAIN iq' = 1 .. Len(iq)
    BY <1>1
  <2>. QED BY <1>2, <2>1, <2>2
<1>4. ASSUME NEW k \in 1 .. Len(iq)
      PROVE  /\ iq'[k].allocatedBit = iq[k].allocatedBit
             /\ iq'[k].fuType = iq[k].fuType
             /\ iq'[k].opcode = iq[k].opcode
             /\ iq'[k].dest = iq[k].dest
             /\ iq'[k].pc = iq[k].pc
  <2>1. iq'[k] = [iq[k] EXCEPT !.prs1Value = IF iq[k].prs1 = prd THEN result ELSE @,
                            !.src1Ready = IF iq[k].prs1 = prd THEN 1 ELSE @,
                            !.prs2Value = IF iq[k].prs2 = prd THEN result ELSE @,
                            !.src2Ready = IF iq[k].prs2 = prd THEN 1 ELSE @]
    BY <1>1
  <2>. QED BY <1>2, <2>1 DEF QueueEntry, IQ!Entry
<1>. QED BY <1>3, <1>4

(* Every step keeps the shape of the issue queue.                          *)
LEMMA ShapeKept ==
  ASSUME TypeInv, TypeInv', Schedule, IqShape, [Next]_vars
  PROVE  IqShape'
<1>0. latch \in [LatchStage -> Latch] /\ latch' \in [LatchStage -> Latch]
  BY DEF TypeInv, LatchTypes, LatchesFit
<1>1. \A s \in {"IU", "IUforward"} : latch[s].has_insn => OwnIndex(latch[s])
  BY DEF IqShape
<1>2. ASSUME UNCHANGED iqVars, latch'.issue = latch.issue, Late' => Late
      PROVE  SameList
  BY <1>2 DEF SameList, iqVars
<1>3. CASE APEX_IU
  <2>1. SameList
    BY <1>0, <1>2, <1>3, StageStep, LatchFrame, LatchStages DEF APEX_IU, Touches, Late
  <2>2. ~latch'.IU.has_insn
    BY <1>0, <1>3, LatchEmptied
  <2>3. /\ latch'.IUforward.lsqIndex = latch.IU.lsqIndex
        /\ latch'.IUforward.opcode = latch.IU.opcode
    <3>1. latch.IU \in Latch
      BY <1>0, LatchStages
    <3>2. PICK v : /\ latch' = [latch EXCEPT !.IUforward = v, !.IU.has_insn = FALSE]
                   /\ v = [latch.IU EXCEPT !.result_buffer = IUResult(latch.IU),
                                           !.memory_address = IUAddress(latch.IU)]
      BY <1>3 DEF APEX_IU
    <3>3. v.lsqIndex = latch.IU.lsqIndex /\ v.opcode = latch.IU.opcode
      BY <3>1, <3>2 DEF Latch
    <3>4. latch'.IUforward = v
      BY <1>0, <3>2, LatchStages
    <3>. QED BY <3>3, <3>4
  <2>4. latch.IU.has_insn
    BY <1>3 DEF APEX_IU
  <2>. QED BY <1>1, <2>1, <2>2, <2>3, <2>4, SameListKeepsShape DEF OwnIndex
<1>4. CASE APEX_IUforward
  <2>1. ~latch'.IUforward.has_insn /\ latch'.IU = latch.IU /\ latch'.issue = latch.issue
        /\ (Late' => Late)
    BY <1>0, <1>4, StageStep, LatchFrame, LatchEmptied, LatchStages DEF Touches, Late
  <2>2. UNCHANGED iqVars \/ \E p, r : IQ!IQupdate(p, r)
    BY <1>4 DEF APEX_IUforward
  <2>3. SameList
    BY <1>2, <2>1, <2>2, IQupdateKeepsList DEF SameList
  <2>. QED BY <1>1, <2>1, <2>3, SameListKeepsShape
<1>5. CASE APEX_MUforward
  <2>1. latch'.IUforward = latch.IUforward /\ latch'.IU = latch.IU /\ latch'.issue = latch.issue
        /\ (Late' => Late)
    BY <1>0, <1>5, StageStep, LatchFrame, LatchStages DEF Touches, Late
  <2>2. \E p, r : IQ!IQupdate(p, r)
    BY <1>5 DEF APEX_MUforward
  <2>3. SameList
    BY <2>1, <2>2, IQupdateKeepsList DEF SameList
  <2>. QED BY <1>1, <2>1, <2>3, SameListKeepsShape
<1>6. ASSUME UNCHANGED iqVars, Late' => Late, latch'.issue = latch.issue,
             latch'.IU = latch.IU, latch'.IUforward = latch.IUforward
      PROVE  IqShape'
  BY <1>1, <1>2, <1>6, SameListKeepsShape
<1>7. CASE APEX_writeback \/ APEX_ROBcommit \/ APEX_memoryForward \/ APEX_MU \/ APEX_BU
           \/ APEX_memory \/ APEX_DR1 \/ APEX_fetch
  <2>1. /\ latch'.issue = latch.issue /\ latch'.IU = latch.IU
        /\ latch'.IUforward = latch.IUforward /\ (Late' => Late)
    BY <1>0, <1>7, StageStep, LatchFrame, LatchStages DEF Touches, Late
  <2>2. UNCHANGED iqVars
    BY <1>7 DEF APEX_writeback, APEX_ROBcommit, APEX_memoryForward, APEX_MU, APEX_BU,
                APEX_memory, APEX_DR1, APEX_fetch
  <2>. QED BY <1>6, <2>1, <2>2
<1>8. CASE Prompt \/ APEX_cpu_stop \/ UNCHANGED vars
  <2>1. Late' => Late
    BY <1>8, StageStep DEF Late, APEX_cpu_stop, vars
  <2>. QED BY <1>6, <1>8, <2>1 DEF Prompt, APEX_cpu_stop, vars
<1>9. CASE Idle
  <2>1. at \in LatchStage /\ ~latch[at].has_insn /\ latch' = latch /\ at' = After(at)
    BY <1>9, IdleStep
  <2>2. UNCHANGED iqVars
    BY <1>9 DEF Idle
  <2>3. CASE at # "issue"
    <3>1. Late' => Late
      BY <2>1, <2>3, AfterIs, LatchStages DEF Late
    <3>. QED BY <1>6, <2>1, <2>2, <3>1
  <2>4. CASE at = "issue"
    <3>1. iq = << >>
      BY <2>1, <2>4 DEF IqShape
    <3>2. iq' = << >> /\ Len(iq') = 0
      BY <2>2, <3>1, QueueIs DEF iqVars
    <3>. QED BY <1>1, <2>1, <3>2 DEF IqShape, OldAllocated, OwnIndex
  <2>. QED BY <2>3, <2>4
<1>. QED
  BY <1>3, <1>4, <1>5, <1>7, <1>8, <1>9, IssueKeepsShape, RD2KeepsShape DEF Next

(* The order of the stages, and the shape of the issue queue it brings     *)
(* about.                                                                  *)
THEOREM ShapeInvariant == Spec => [](Schedule /\ IqShape)
<1>1. Init => IqShape
  <2>. SUFFICES ASSUME Init PROVE IqShape
    OBVIOUS
  <2>1. iq = << >> /\ Len(iq) = 0
    BY DEF Init, IQ!Init
  <2>2. latch.IU = Bubble /\ latch.IUforward = Bubble /\ Bubble.has_insn = FALSE
    BY LatchStages DEF Init, LatchStage, Bubble
  <2>. QED BY <2>1, <2>2 DEF IqShape, OldAllocated
<1>2. Init => Schedule
  BY DEF Init, Schedule
<1>3. TypeInv /\ TypeInv' /\ Schedule /\ IqShape /\ [Next]_vars => Schedule' /\ IqShape'
  BY ScheduleKept, ShapeKept
<1>. QED
  BY <1>1, <1>2, <1>3, TypesInvariant, PTL DEF Spec

(* The lsq index of what arrives in IUforward is -1 just for an            *)
(* instruction that is no load or store, though APEX_issue takes it from   *)
(* the latch and not from the entry.                                       *)
THEOREM LsqIndexHolds == Spec => []LsqIndexIsOwn
<1>1. IqShape => LsqIndexIsOwn
  BY DEF IqShape, OwnIndex, LsqIndexIsOwn
<1>. QED
  BY <1>1, ShapeInvariant, PTL

----------------------------------------------------------------------------
(* The owners of a register *)

OwnerStage == {"RD2", "IU", "IUforward"}

(* Each register but P0 has at most one owner; an instruction that is not  *)
(* renamed yet holds P0.                                                   *)
OwnedOnce ==
  /\ \A p \in Preg \ {0} : \A a, b \in Owners(p) : a = b
  /\ latch.DR1.prd = 0

(* Who owns a register: a latch, a slot of the free list, or an entry.     *)
LEMMA OwnerIs ==
  ASSUME NEW p, NEW a
  PROVE  a \in Owners(p) <=>
           \/ \E s \in OwnerStage : latch[s].has_insn /\ latch[s].prd = p /\ a = <<s, 0>>
           \/ \E k \in RingSlots(FL_head, FL_tail, PREG_FILE_SIZE) :
                flQueue[k] = p /\ a = <<"free", k>>
           \/ \E k \in 1 .. Len(iq) : iq[k].dest = p /\ a = <<"waiting", k>>
  BY DEF Owners, OwnerStage

(* The same of the next state.                                             *)
LEMMA OwnerIsNext ==
  ASSUME NEW p, NEW a
  PROVE  a \in Owners(p)' <=>
           \/ \E s \in OwnerStage : latch'[s].has_insn /\ latch'[s].prd = p /\ a = <<s, 0>>
           \/ \E k \in RingSlots(FL_head', FL_tail', PREG_FILE_SIZE) :
                flQueue'[k] = p /\ a = <<"free", k>>
           \/ \E k \in 1 .. Len(iq') : iq'[k].dest = p /\ a = <<"waiting", k>>
  BY DEF Owners, OwnerStage

(* Nothing gets an owner unless it loses the one it had.                   *)
LEMMA OwnerMoves ==
  ASSUME OwnedOnce, latch'.DR1.prd = 0, NEW old, NEW new,
         \A p \in Preg \ {0} : \A a \in Owners(p)' :
           a \in Owners(p) \/ (a = new /\ old \in Owners(p) /\ old \notin Owners(p)')
  PROVE  OwnedOnce'
<1>1. ASSUME NEW p \in Preg \ {0}, NEW a \in Owners(p)', NEW b \in Owners(p)'
      PROVE  a = b
  <2>1. \A x, y \in Owners(p) : x = y
    BY DEF OwnedOnce
  <2>2. /\ a \in Owners(p) \/ (a = new /\ old \in Owners(p) /\ old \notin Owners(p)')
        /\ b \in Owners(p) \/ (b = new /\ old \in Owners(p) /\ old \notin Owners(p)')
    OBVIOUS
  <2>3. ASSUME a \in Owners(p), old \in Owners(p), old \notin Owners(p)'
        PROVE  FALSE
    BY <2>1, <2>3
  <2>4. ASSUME b \in Owners(p), old \in Owners(p), old \notin Owners(p)'
        PROVE  FALSE
    BY <2>1, <2>4
  <2>. QED BY <2>1, <2>2, <2>3, <2>4
<1>. QED BY <1>1 DEF OwnedOnce, Preg

(* A register that is lost has no owner, which is no worse.                *)
LEMMA OwnersShrink ==
  ASSUME OwnedOnce, latch'.DR1.prd = 0,
         \A p \in Preg \ {0} : \A a \in Owners(p)' : a \in Owners(p)
  PROVE  OwnedOnce'
  BY OwnerMoves

(* DR1 takes the register off the free list into the latch of RD2.         *)
LEMMA DR1KeepsOwners ==
  ASSUME TypeInv, TypeInv', Schedule, OwnedOnce, APEX_DR1
  PROVE  OwnedOnce'
<1>0. /\ latch \in [LatchStage -> Latch] /\ at = "DR1" /\ ~latch.RD2.has_insn
      /\ latch.DR1 \in Latch /\ latch.DR1.prd = 0
      /\ latch'.IU = latch.IU /\ latch'.IUforward = latch.IUforward
  BY StageStep, LatchFrame, LatchStages
  DEF TypeInv, LatchTypes, LatchesFit, Schedule, OwnedOnce, Touches
<1>1. iq' = iq
  BY DEF APEX_DR1, iqVars
<1>2. CASE UNCHANGED <<latch, flVars>>
  <2>1. \A p \in Preg \ {0} : \A a \in Owners(p)' : a \in Owners(p)
    BY <1>1, <1>2, OwnerIs, OwnerIsNext DEF flVars
  <2>. QED BY <1>0, <1>2, <2>1, OwnersShrink
<1>3. CASE /\ DR1_MayPass
           /\ latch' = [latch EXCEPT !.RD2 = Decoded(latch.DR1), !.DR1.has_insn = FALSE]
           /\ Rename(latch.DR1)
  <2>1. /\ latch'.DR1.prd = 0
        /\ latch'.RD2.prd = IF latch.DR1.opcode \in HasDest THEN FL!FreeRegister ELSE 0
    <3>1. PICK d : d = Decoded(latch.DR1)
      OBVIOUS
    <3>2. latch' = [latch EXCEPT !.RD2 = d, !.DR1.has_insn = FALSE]
      BY <1>3, <3>1
    <3>3. latch'.RD2 = d /\ latch'.DR1.prd = latch.DR1.prd
      BY <1>0, <3>2, LatchStages DEF Latch
    <3>4. d.prd = IF latch.DR1.opcode \in HasDest THEN FL!FreeRegister ELSE latch.DR1.prd
      BY <1>0, <3>1 DEF Decoded, Latch
    <3>. QED BY <1>0, <3>3, <3>4
  <2>2. CASE latch.DR1.opcode \notin HasDest
    <3>1. UNCHANGED flVars /\ latch'.RD2.prd = 0
      BY <1>3, <2>1, <2>2 DEF Rename
    <3>2. \A p \in Preg \ {0} : \A a \in Owners(p)' : a \in Owners(p)
      BY <1>0, <1>1, <3>1, OwnerIs, OwnerIsNext DEF flVars, OwnerStage
    <3>. QED BY <2>1, <3>2, OwnersShrink
  <2>3. CASE latch.DR1.opcode \in HasDest
    <3>1. FL!get_free_physical_register /\ FL_head # -1 /\ flQueue' = flQueue
      BY <1>3, <2>3 DEF Rename, DR1_MayPass, FL!checkEmpty_FL, FL!get_free_physical_register
    <3>2. /\ FL_head' = IF FL_head = FL_tail THEN -1 ELSE (FL_head + 1) % PREG_FILE_SIZE
          /\ FL_tail' = IF FL_head = FL_tail THEN -1 ELSE FL_tail
      BY <3>1 DEF FL!get_free_physical_register, FL!checkEmpty_FL
    <3>3. RingIndices(FL_head, FL_tail, PREG_FILE_SIZE) /\ PREG_FILE_SIZE \in Nat \ {0}
      BY SizesAssumption DEF TypeInv, FlTypes
    <3>4. RingSlots(FL_head', FL_tail', PREG_FILE_SIZE)
            = RingSlots(FL_head, FL_tail, PREG_FILE_SIZE) \ {FL_head}
      BY <3>1, <3>2, <3>3, RingRemove
    <3>5. FL_head \in RingSlots(FL_head, FL_tail, PREG_FILE_SIZE)
      BY <3>1, <3>3 DEF RingSlots, RingIndices
    <3>6. latch'.RD2.prd = flQueue[FL_head]
      BY <2>1, <2>3, <3>1 DEF FL!FreeRegister, FL!checkEmpty_FL
    <3>7. ASSUME NEW p \in Preg \ {0}, NEW a \in Owners(p)'
          PROVE  \/ a \in Owners(p)
                 \/ /\ a = <<"RD2", 0>>
                    /\ <<"free", FL_head>> \in Owners(p)
                    /\ <<"free", FL_head>> \notin Owners(p)'
      <4>1. <<"free", FL_head>> \notin Owners(p)'
        <5>1. "free" \notin OwnerStage /\ "free" # "waiting"
          BY DEF OwnerStage
        <5>. QED BY <3>4, <5>1, OwnerIsNext
      <4>2. CASE \E s \in OwnerStage : latch'[s].has_insn /\ latch'[s].prd = p /\ a = <<s, 0>>
        <5>1. PICK s \in OwnerStage : latch'[s].has_insn /\ latch'[s].prd = p /\ a = <<s, 0>>
          BY <4>2
        <5>2. CASE s = "RD2"
          <6>1. <<"free", FL_head>> \in Owners(p)
            BY <3>5, <3>6, <5>1, <5>2, OwnerIs
          <6>. QED BY <4>1, <5>1, <5>2, <6>1
        <5>3. CASE s # "RD2"
          BY <1>0, <5>1, <5>3, OwnerIs DEF OwnerStage
        <5>. QED BY <5>2, <5>3
      <4>3. CASE \E k \in RingSlots(FL_head', FL_tail', PREG_FILE_SIZE) :
                   flQueue'[k] = p /\ a = <<"free", k>>
        BY <3>1, <3>4, <4>3, OwnerIs
      <4>4. CASE \E k \in 1 .. Len(iq') : iq'[k].dest = p /\ a = <<"waiting", k>>
        BY <1>1, <4>4, OwnerIs
      <4>. QED BY <4>2, <4>3, <4>4, OwnerIsNext
    <3>. QED BY <2>1, <3>7, OwnerMoves
  <2>. QED BY <2>2, <2>3
<1>. QED BY <1>2, <1>3 DEF APEX_DR1

(* RD2 moves it into the issue queue.                                      *)
LEMMA RD2KeepsOwners ==
  ASSUME TypeInv, TypeInv', OwnedOnce, APEX_RD2
  PROVE  OwnedOnce'
<1>0. /\ latch \in [LatchStage -> Latch] /\ latch' \in [LatchStage -> Latch]
      /\ latch'.IU = latch.IU /\ latch'.IUforward = latch.IUforward
      /\ latch'.DR1 = latch.DR1 /\ ~latch'.RD2.has_insn /\ latch.RD2.has_insn
  BY LatchFrame, LatchEmptied, LatchStages
  DEF TypeInv, LatchTypes, LatchesFit, Touches, APEX_RD2
<1>1. UNCHANGED flVars
  BY DEF APEX_RD2
<1>2. iq' = iq \/ \E e : e.dest = latch.RD2.prd /\ iq' = Append(iq, e)
  <2>1. PICK sent : /\ sent.prd = latch.RD2.prd
                    /\ UNCHANGED iqVars \/ IQ!iqEntry(sent, fuType(latch.RD2.opcode))
    <3>1. latch.RD2 \in Latch
      BY <1>0, LatchStages
    <3>. QED BY <3>1 DEF APEX_RD2, Latch
  <2>. QED BY <2>1 DEF IQ!iqEntry, iqVars
<1>3. Len(iq) \in Nat /\ iq \in Seq(QueueEntry)
  BY QueueIs DEF TypeInv, IqTypes
<1>4. /\ \A k \in 1 .. Len(iq') : k = Len(iq) + 1 \/ k \in 1 .. Len(iq)
      /\ \A k \in 1 .. Len(iq') : k \in 1 .. Len(iq) => iq'[k].dest = iq[k].dest
      /\ \A k \in 1 .. Len(iq') : k \notin 1 .. Len(iq) => iq'[k].dest = latch.RD2.prd
  BY <1>2, <1>3
<1>5. ASSUME NEW p \in Preg \ {0}, NEW a \in Owners(p)'
      PROVE  \/ a \in Owners(p)
             \/ /\ a = <<"waiting", Len(iq) + 1>>
                /\ <<"RD2", 0>> \in Owners(p)
                /\ <<"RD2", 0>> \notin Owners(p)'
  <2>1. <<"RD2", 0>> \notin Owners(p)'
    BY <1>0, OwnerIsNext
  <2>2. CASE \E s \in OwnerStage : latch'[s].has_insn /\ latch'[s].prd = p /\ a = <<s, 0>>
    BY <1>0, <2>2, OwnerIs DEF OwnerStage
  <2>3. CASE \E k \in RingSlots(FL_head', FL_tail', PREG_FILE_SIZE) :
               flQueue'[k] = p /\ a = <<"free", k>>
    BY <1>1, <2>3, OwnerIs DEF flVars
  <2>4. CASE \E k \in 1 .. Len(iq') : iq'[k].dest = p /\ a = <<"waiting", k>>
    <3>1. PICK k \in 1 .. Len(iq') : iq'[k].dest = p /\ a = <<"waiting", k>>
      BY <2>4
    <3>2. CASE k \in 1 .. Len(iq)
      BY <1>4, <3>1, <3>2, OwnerIs
    <3>3. CASE k \notin 1 .. Len(iq)
      <4>1. k = Len(iq) + 1 /\ latch.RD2.prd = p
        BY <1>4, <3>1, <3>3
      <4>2. <<"RD2", 0>> \in Owners(p)
        BY <1>0, <4>1, OwnerIs DEF OwnerStage
      <4>. QED BY <2>1, <3>1, <4>1, <4>2
    <3>. QED BY <3>2, <3>3
  <2>. QED BY <2>2, <2>3, <2>4, OwnerIsNext
<1>6. latch'.DR1.prd = 0
  BY <1>0 DEF OwnedOnce
<1>. QED BY <1>5, <1>6, OwnerMoves

(* IU moves it to the forwarding stage.                                    *)
LEMMA IUKeepsOwners ==
  ASSUME TypeInv, TypeInv', OwnedOnce, APEX_IU
  PROVE  OwnedOnce'
<1>0. /\ latch \in [LatchStage -> Latch] /\ latch' \in [LatchStage -> Latch]
      /\ latch'.RD2 = latch.RD2 /\ ~latch'.IU.has_insn /\ latch.IU.has_insn
      /\ latch'.DR1 = latch.DR1
  BY LatchFrame, LatchEmptied, LatchStages
  DEF TypeInv, LatchTypes, LatchesFit, Touches, APEX_IU
<1>1. UNCHANGED <<flVars, iq>>
  BY DEF APEX_IU, iqVars
<1>2. latch'.IUforward.prd = latch.IU.prd
  <2>1. latch.IU \in Latch
    BY <1>0, LatchStages
  <2>2. PICK v : /\ latch' = [latch EXCEPT !.IUforward = v, !.IU.has_insn = FALSE]
                 /\ v = [latch.IU EXCEPT !.result_buffer = IUResult(latch.IU),
                                         !.memory_address = IUAddress(latch.IU)]
    BY DEF APEX_IU
  <2>3. v.prd = latch.IU.prd
    BY <2>1, <2>2 DEF Latch
  <2>. QED BY <1>0, <2>2, <2>3, LatchStages
<1>3. ASSUME NEW p \in Preg \ {0}, NEW a \in Owners(p)'
      PROVE  \/ a \in Owners(p)
             \/ /\ a = <<"IUforward", 0>>
                /\ <<"IU", 0>> \in Owners(p)
                /\ <<"IU", 0>> \notin Owners(p)'
  <2>1. <<"IU", 0>> \notin Owners(p)'
    BY <1>0, OwnerIsNext
  <2>2. CASE \E s \in OwnerStage : latch'[s].has_insn /\ latch'[s].prd = p /\ a = <<s, 0>>
    <3>1. PICK s \in OwnerStage : latch'[s].has_insn /\ latch'[s].prd = p /\ a = <<s, 0>>
      BY <2>2
    <3>2. CASE s = "IUforward"
      <4>1. <<"IU", 0>> \in Owners(p)
        BY <1>0, <1>2, <3>1, <3>2, OwnerIs DEF OwnerStage
      <4>. QED BY <2>1, <3>1, <3>2, <4>1
    <3>3. CASE s # "IUforward"
      BY <1>0, <3>1, <3>3, OwnerIs DEF OwnerStage
    <3>. QED BY <3>2, <3>3
  <2>3. CASE \/ \E k \in RingSlots(FL_head', FL_tail', PREG_FILE_SIZE) :
                  flQueue'[k] = p /\ a = <<"free", k>>
             \/ \E k \in 1 .. Len(iq') : iq'[k].dest = p /\ a = <<"waiting", k>>
    BY <1>1, <2>3, OwnerIs DEF flVars
  <2>. QED BY <2>2, <2>3, OwnerIsNext
<1>4. latch'.DR1.prd = 0
  BY <1>0 DEF OwnedOnce
<1>. QED BY <1>3, <1>4, OwnerMoves

(* IUforward puts it back, or a full free list drops it.                   *)
LEMMA IUforwardKeepsOwners ==
  ASSUME TypeInv, TypeInv', OwnedOnce, APEX_IUforward
  PROVE  OwnedOnce'
<1>0. /\ latch'.RD2 = latch.RD2 /\ latch'.IU = latch.IU /\ latch'.DR1 = latch.DR1
      /\ ~latch'.IUforward.has_insn /\ latch.IUforward.has_insn
  BY LatchFrame, LatchEmptied, LatchStages
  DEF TypeInv, LatchTypes, LatchesFit, Touches, APEX_IUforward
<1>1. Len(iq') = Len(iq) /\ \A k \in 1 .. Len(iq) : iq'[k].dest = iq[k].dest
  <2>1. UNCHANGED iqVars \/ \E p, r : IQ!IQupdate(p, r)
    BY DEF APEX_IUforward
  <2>. QED BY <2>1, IQupdateKeepsList DEF iqVars
<1>2. latch'.DR1.prd = 0
  BY <1>0 DEF OwnedOnce
<1>3. ASSUME NEW p \in Preg \ {0}, NEW a,
             \/ \E s \in OwnerStage : latch'[s].has_insn /\ latch'[s].prd = p /\ a = <<s, 0>>
             \/ \E k \in 1 .. Len(iq') : iq'[k].dest = p /\ a = <<"waiting", k>>
      PROVE  a \in Owners(p)
  BY <1>0, <1>1, <1>3, OwnerIs DEF OwnerStage
<1>4. CASE UNCHANGED flVars
  <2>1. \A p \in Preg \ {0} : \A a \in Owners(p)' : a \in Owners(p)
    BY <1>3, <1>4, OwnerIs, OwnerIsNext DEF flVars
  <2>. QED BY <1>2, <2>1, OwnersShrink
<1>5. CASE /\ ~FL!FL_Full
           /\ FL_head' = IF FL_head = -1 THEN 0 ELSE FL_head
           /\ FL_tail' = (FL_tail + 1) % PREG_FILE_SIZE
           /\ flQueue' = [flQueue EXCEPT ![FL_tail'] = latch.IUforward.prd]
  <2>1. RingIndices(FL_head, FL_tail, PREG_FILE_SIZE) /\ PREG_FILE_SIZE \in Nat \ {0}
        /\ DOMAIN flQueue = 0 .. PREG_FILE_SIZE - 1
    BY SizesAssumption DEF TypeInv, FlTypes, Preg
  <2>2. RingCount(FL_head, FL_tail, PREG_FILE_SIZE) < PREG_FILE_SIZE
    BY <1>5, <2>1, RingCountBounds DEF FL!FL_Full
  <2>3. /\ FL_tail' \in 0 .. PREG_FILE_SIZE - 1
        /\ FL_tail' \notin RingSlots(FL_head, FL_tail, PREG_FILE_SIZE)
        /\ RingSlots(FL_head', FL_tail', PREG_FILE_SIZE)
             = RingSlots(FL_head, FL_tail, PREG_FILE_SIZE) \cup {FL_tail'}
    BY <1>5, <2>1, <2>2, RingInsert
  <2>4. flQueue'[FL_tail'] = latch.IUforward.prd
    BY <1>5, <2>1, <2>3
  <2>5. \A k \in RingSlots(FL_head, FL_tail, PREG_FILE_SIZE) : flQueue'[k] = flQueue[k]
    <3>1. RingSlots(FL_head, FL_tail, PREG_FILE_SIZE) \subseteq 0 .. PREG_FILE_SIZE - 1
      BY <2>1 DEF RingSlots, RingIndices
    <3>2. \A k \in 0 .. PREG_FILE_SIZE - 1 : k # FL_tail' => flQueue'[k] = flQueue[k]
      BY <1>5, <2>1, <2>3
    <3>. QED BY <2>3, <3>1, <3>2
  <2>6. ASSUME NEW p \in Preg \ {0}, NEW a \in Owners(p)'
        PROVE  \/ a \in Owners(p)
               \/ /\ a = <<"free", FL_tail'>>
                  /\ <<"IUforward", 0>> \in Owners(p)
                  /\ <<"IUforward", 0>> \notin Owners(p)'
    <3>1. <<"IUforward", 0>> \notin Owners(p)'
      BY <1>0, OwnerIsNext
    <3>2. CASE \E k \in RingSlots(FL_head', FL_tail', PREG_FILE_SIZE) :
                 flQueue'[k] = p /\ a = <<"free", k>>
      <4>1. PICK k \in RingSlots(FL_head', FL_tail', PREG_FILE_SIZE) :
                   flQueue'[k] = p /\ a = <<"free", k>>
        BY <3>2
      <4>2. CASE k = FL_tail'
        <5>1. <<"IUforward", 0>> \in Owners(p)
          BY <1>0, <2>4, <4>1, <4>2, OwnerIs DEF OwnerStage
        <5>. QED BY <3>1, <4>1, <4>2, <5>1
      <4>3. CASE k # FL_tail'
        BY <2>3, <2>5, <4>1, <4>3, OwnerIs
      <4>. QED BY <4>2, <4>3
    <3>. QED BY <1>3, <3>2, OwnerIsNext
  <2>. QED BY <1>2, <2>6, OwnerMoves
<1>. QED
  BY <1>4, <1>5 DEF APEX_IUforward, FL!put_physicalRegister_inFL, FL!flVars, flVars

(* Issue moves it to the integer unit, or leaves it in the entry.          *)
LEMMA IssueKeepsOwners ==
  ASSUME TypeInv, TypeInv', Schedule, IqShape, OwnedOnce, APEX_issue
  PROVE  OwnedOnce'
<1>0. /\ latch'.RD2 = latch.RD2 /\ latch'.DR1 = latch.DR1 /\ at = "issue"
      /\ latch'.IUforward = latch.IUforward /\ ~latch.IU.has_insn
  BY LatchFrame, LatchStages, StageStep, IssueIs
  DEF TypeInv, LatchTypes, LatchesFit, Touches, Schedule
<1>1. UNCHANGED flVars
  BY DEF APEX_issue
<1>2. latch'.DR1.prd = 0
  BY <1>0 DEF OwnedOnce
<1>3. \A k \in 1 .. Len(iq') : k \in 1 .. Len(iq) /\ iq'[k].dest = iq[k].dest
  BY IssueIs
<1>4. CASE latch'.IU = latch.IU
  <2>1. \A p \in Preg \ {0} : \A a \in Owners(p)' : a \in Owners(p)
    BY <1>0, <1>1, <1>3, <1>4, OwnerIs, OwnerIsNext DEF flVars, OwnerStage
  <2>. QED BY <1>2, <2>1, OwnersShrink
<1>5. CASE LoneEntry /\ iq' = << >> /\ latch'.IU.prd = iq[1].dest
  <2>1. 1 .. Len(iq') = {} /\ 1 \in 1 .. Len(iq)
    BY <1>5, EmptySeq DEF LoneEntry
  <2>2. ASSUME NEW p \in Preg \ {0}, NEW a \in Owners(p)'
        PROVE  \/ a \in Owners(p)
               \/ /\ a = <<"IU", 0>>
                  /\ <<"waiting", 1>> \in Owners(p)
                  /\ <<"waiting", 1>> \notin Owners(p)'
    <3>1. <<"waiting", 1>> \notin Owners(p)'
      <4>1. "waiting" \notin OwnerStage /\ "free" # "waiting"
        BY DEF OwnerStage
      <4>. QED BY <2>1, <4>1, OwnerIsNext
    <3>2. CASE \E s \in OwnerStage : latch'[s].has_insn /\ latch'[s].prd = p /\ a = <<s, 0>>
      <4>1. PICK s \in OwnerStage : latch'[s].has_insn /\ latch'[s].prd = p /\ a = <<s, 0>>
        BY <3>2
      <4>2. CASE s = "IU"
        <5>1. <<"waiting", 1>> \in Owners(p)
          BY <1>5, <2>1, <4>1, <4>2, OwnerIs
        <5>. QED BY <3>1, <4>1, <4>2, <5>1
      <4>3. CASE s # "IU"
        BY <1>0, <4>1, <4>3, OwnerIs DEF OwnerStage
      <4>. QED BY <4>2, <4>3
    <3>3. CASE \E k \in RingSlots(FL_head', FL_tail', PREG_FILE_SIZE) :
                 flQueue'[k] = p /\ a = <<"free", k>>
      BY <1>1, <3>3, OwnerIs DEF flVars
    <3>. QED BY <2>1, <3>2, <3>3, OwnerIsNext
  <2>. QED BY <1>2, <2>2, OwnerMoves
<1>. QED BY <1>4, <1>5, IssueIs

(* Every step keeps the registers with one owner each.                     *)
LEMMA OwnersKept ==
  ASSUME TypeInv, TypeInv', Schedule, IqShape, OwnedOnce, [Next]_vars
  PROVE  OwnedOnce'
<1>0. latch \in [LatchStage -> Latch] /\ latch' \in [LatchStage -> Latch]
  BY DEF TypeInv, LatchTypes, LatchesFit
<1>1. ASSUME latch'.DR1.prd = 0, UNCHANGED flVars,
             Len(iq') = Len(iq), \A k \in 1 .. Len(iq) : iq'[k].dest = iq[k].dest,
             \A s \in OwnerStage : latch'[s].has_insn =>
               latch[s].has_insn /\ latch'[s].prd = latch[s].prd
      PROVE  OwnedOnce'
  <2>1. \A p \in Preg \ {0} : \A a \in Owners(p)' : a \in Owners(p)
    BY <1>1, OwnerIs, OwnerIsNext DEF flVars
  <2>. QED BY <1>1, <2>1, OwnersShrink
<1>2. ASSUME UNCHANGED <<flVars, iqVars>>, latch'.DR1 = latch.DR1, latch'.RD2 = latch.RD2,
             latch'.IU = latch.IU, latch'.IUforward = latch.IUforward
      PROVE  OwnedOnce'
  BY <1>1, <1>2 DEF iqVars, OwnedOnce, OwnerStage
<1>3. CASE APEX_writeback \/ APEX_ROBcommit \/ APEX_memoryForward \/ APEX_MU \/ APEX_memory
  <2>1. /\ latch'.DR1 = latch.DR1 /\ latch'.RD2 = latch.RD2
        /\ latch'.IU = latch.IU /\ latch'.IUforward = latch.IUforward
    BY <1>0, <1>3, LatchFrame, LatchStages DEF Touches
  <2>2. UNCHANGED <<flVars, iqVars>>
    BY <1>3 DEF APEX_writeback, APEX_ROBcommit, APEX_memoryForward, APEX_MU, APEX_memory
  <2>. QED BY <1>2, <2>1, <2>2
<1>4. CASE APEX_MUforward
  <2>1. /\ latch'.DR1 = latch.DR1 /\ latch'.RD2 = latch.RD2
        /\ latch'.IU = latch.IU /\ latch'.IUforward = latch.IUforward
    BY <1>0, <1>4, LatchFrame, LatchStages DEF Touches
  <2>2. UNCHANGED flVars /\ \E p, r : IQ!IQupdate(p, r)
    BY <1>4 DEF APEX_MUforward
  <2>. QED BY <1>1, <2>1, <2>2, IQupdateKeepsList DEF OwnedOnce, OwnerStage
<1>5. CASE APEX_BU
  <2>1. latch'.IU = latch.IU /\ latch'.IUforward = latch.IUforward
    BY <1>0, <1>5, LatchFrame, LatchStages DEF Touches
  <2>2. UNCHANGED <<flVars, iqVars>>
    BY <1>5 DEF APEX_BU
  <2>3. \A s \in {"DR1", "RD2"} : /\ latch'[s].has_insn => latch[s].has_insn
                                  /\ latch'[s].prd = latch[s].prd
    <3>1. latch.DR1 \in Latch /\ latch.RD2 \in Latch
      BY <1>0, LatchStages
    <3>2. CASE Branch
      <4>1. PICK b \in BOOLEAN : latch' = [latch EXCEPT !.BU.has_insn = FALSE,
                                     !.DR1.has_insn = FALSE, !.RD2.has_insn = @ /\ b]
        BY <3>2 DEF Branch
      <4>2. /\ latch'.DR1 = [latch.DR1 EXCEPT !.has_insn = FALSE]
            /\ latch'.RD2 = [latch.RD2 EXCEPT !.has_insn = @ /\ b]
        BY <1>0, <4>1, LatchStages
      <4>3. /\ latch'.DR1.has_insn = FALSE /\ latch'.DR1.prd = latch.DR1.prd
            /\ latch'.RD2.has_insn = (latch.RD2.has_insn /\ b)
            /\ latch'.RD2.prd = latch.RD2.prd
        BY <3>1, <4>2 DEF Latch
      <4>. QED BY <4>3
    <3>3. CASE latch' = [latch EXCEPT !.BU.has_insn = FALSE] \/ latch' = latch
      BY <1>0, <3>3, LatchStages
    <3>. QED BY <1>5, <3>2, <3>3 DEF APEX_BU
  <2>4. latch'.DR1.prd = 0
    <3>1. latch'.DR1.prd = latch.DR1.prd
      BY <2>3
    <3>. QED BY <3>1 DEF OwnedOnce
  <2>5. Len(iq') = Len(iq) /\ \A k \in 1 .. Len(iq) : iq'[k].dest = iq[k].dest
    BY <2>2 DEF iqVars
  <2>6. UNCHANGED flVars
    BY <2>2
  <2>7. \A s \in OwnerStage : latch'[s].has_insn =>
               latch[s].has_insn /\ latch'[s].prd = latch[s].prd
    BY <2>1, <2>3 DEF OwnerStage
  <2>. QED BY <1>1, <2>4, <2>5, <2>6, <2>7
<1>6. CASE APEX_fetch
  <2>1. /\ latch'.RD2 = latch.RD2
        /\ latch'.IU = latch.IU /\ latch'.IUforward = latch.IUforward
    BY <1>0, <1>6, LatchFrame, LatchStages DEF Touches
  <2>2. UNCHANGED <<flVars, iqVars>>
    BY <1>6 DEF APEX_fetch
  <2>3. latch'.DR1.prd = 0
    <3>1. CASE latch' = latch
      BY <3>1 DEF OwnedOnce
    <3>2. CASE FetchInsn
      <4>1. PICK a, b, c, d, e, f :
              latch' = [latch EXCEPT !.DR1 =
                          [Bubble EXCEPT !.has_insn = TRUE, !.pc = a, !.opcode = b, !.rd = c,
                                         !.rs1 = d, !.rs2 = e, !.imm = f]]
        BY <3>2 DEF FetchInsn
      <4>2. latch'.DR1 = [Bubble EXCEPT !.has_insn = TRUE, !.pc = a, !.opcode = b, !.rd = c,
                                         !.rs1 = d, !.rs2 = e, !.imm = f]
        BY <1>0, <4>1, LatchStages
      <4>. QED BY <4>2 DEF Bubble
    <3>. QED BY <1>6, <3>1, <3>2 DEF APEX_fetch, SkipFetch
  <2>. QED BY <1>1, <2>1, <2>2, <2>3 DEF OwnerStage, iqVars
<1>7. CASE Prompt \/ Idle \/ APEX_cpu_stop \/ UNCHANGED vars
  BY <1>2, <1>7 DEF Prompt, Idle, APEX_cpu_stop, vars
<1>. QED
  BY <1>3, <1>4, <1>5, <1>6, <1>7, DR1KeepsOwners, RD2KeepsOwners, IUKeepsOwners,
     IUforwardKeepsOwners, IssueKeepsOwners DEF Next

(* At the start every register is free, once.                              *)
LEMMA InitOwnedOnce == Init => OwnedOnce
<1>. SUFFICES ASSUME Init PROVE OwnedOnce
  OBVIOUS
<1>1. Len(iq) = 0 /\ 1 .. Len(iq) = {}
  BY DEF Init, IQ!Init
<1>2. \A s \in OwnerStage \cup {"DR1"} : latch[s].has_insn = FALSE /\ latch[s].prd = 0
  BY LatchStages DEF Init, LatchStage, Bubble, OwnerStage
<1>3. \A k \in RingSlots(FL_head, FL_tail, PREG_FILE_SIZE) : flQueue[k] = k
  BY SizesAssumption DEF Init, FL!Loaded, FL!Slot, RingSlots
<1>4. \A p \in Preg \ {0} : \A a \in Owners(p) : a = <<"free", p>>
  BY <1>1, <1>2, <1>3, OwnerIs
<1>. QED BY <1>2, <1>4 DEF OwnedOnce

(* No physical register but P0 is ever free twice, or free while an        *)
(* instruction that will write it is on its way, for every program and     *)
(* every size of the queues.                                               *)
THEOREM OneOwnerHolds == Spec => []OneOwner
<1>1. TypeInv /\ TypeInv' /\ Schedule /\ IqShape /\ OwnedOnce /\ [Next]_vars => OwnedOnce'
  BY OwnersKept
<1>2. Spec => []OwnedOnce
  BY <1>1, InitOwnedOnce, TypesInvariant, ShapeInvariant, PTL DEF Spec
<1>3. OwnedOnce => OneOwner
  <2>1. ASSUME OwnedOnce, NEW p \in Preg \ {0} PROVE Cardinality(Owners(p)) <= 1
    <3>1. CASE Owners(p) = {}
      BY <3>1, FS_EmptySet
    <3>2. CASE Owners(p) # {}
      <4>1. PICK a \in Owners(p) : Owners(p) = {a}
        BY <2>1, <3>2 DEF OwnedOnce
      <4>. QED BY <4>1, FS_Singleton
    <3>. QED BY <3>1, <3>2
  <2>. QED BY <2>1 DEF OneOwner
<1>. QED BY <1>2, <1>3, PTL
=============================================================================
