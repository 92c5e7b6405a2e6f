--------------------------- MODULE ApexCpuClaims ---------------------------
(***************************************************************************)
(* What the comments and the README of the simulator say of the pipeline   *)
(* and the code does not do.  Every formula here is violated by ApexCpu;   *)
(* the runs that show it are small programs that do nothing unusual.       *)
(***************************************************************************)
EXTENDS ApexCpu

(* issue_queue.h:21: src1Ready is the "Source 1 Ready Bit".  It is set for *)
(* a source whose physical register has no value yet.                      *)
ReadyMeansValid ==
  \A k \in 1 .. Len(iq) :
    iq[k].opcode \in TwoSource /\ iq[k].prs1 \in Preg /\ iq[k].src1Ready = 1 =>
      pr_valid_bit[iq[k].prs1] = 1

(* apex_cpu.c:837, at a taken BZ: "Flush previous stages".  The loop that  *)
(* empties the issue queue frees its head and does not move it: it frees   *)
(* the same entry again.                                                   *)
FlushIsDefined == [][at = "BU" => at' # "undefined"]_vars

(* lsq.h:11: mem_address is "Calculayed by IU".  A slot of the load/store *)
(* queue that is used again keeps the valid bit of its last address: the   *)
(* next occupant goes to memory while the integer unit is still at it, and *)
(* the address it goes with is the 0 of lsq_Entry.                         *)
AddressIsCalculated ==
  [][latch'.memory.has_insn /\ ~latch.memory.has_insn =>
       \A s \in {"IU", "IUforward"} :
         latch[s].has_insn => latch[s].lsqIndex # lsq_head]_vars

(* apex_cpu.c:1343: APEX_cpu_stop "deallocates APEX CPU".  After a result  *)
(* of P0 was reported to an empty load/store queue it may not: glibc finds *)
(* a size word overwritten and aborts ("corrupted size vs. prev_size").    *)
StopsCleanly == [][(at \in {"halted", "stopped"}) => at' # "undefined"]_vars
=============================================================================
