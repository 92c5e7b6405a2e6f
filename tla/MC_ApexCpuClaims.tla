-------------------------- MODULE MC_ApexCpuClaims --------------------------
(* The programs the claims are checked with. *)
EXTENDS MC_ApexCpu, ApexCpuClaims

(* A dependent pair and a store of its result; a load and its consumer;    *)
(* two loads that are apart; a loop; a forward branch.                     *)
ClaimPrograms == {
  <<Const(0, 1), I("ADD", 1, 0, 0, 0), I("STORE", 0, 1, 0, 0), HALT>>,
  <<Const(0, 1), I("LOAD", 1, 0, 0, 0), I("ADD", 1, 0, 1, 0), HALT>>,
  <<Const(0, 1), I("LOAD", 1, 0, 0, 0), NOP, NOP, NOP, NOP, I("LOAD", 1, 0, 0, 1), HALT>>,
  <<Const(0, 3), I("SUBL", 0, 0, 0, 1), To("BNZ", -4), NOP, HALT>>,
  <<Const(0, 0), To("BZ", 12), NOP, NOP, HALT>>}
=============================================================================
