----------------------------- MODULE MC_FreeList -----------------------------
(* The free list with a handful of registers: every wrap-around of the two *)
(* indices and every content is reached.                                   *)
EXTENDS FreeList
=============================================================================
