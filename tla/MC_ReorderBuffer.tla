-------------------------- MODULE MC_ReorderBuffer --------------------------
(* The reorder buffer with three entries and two addresses: the indices    *)
(* wrap around and one address may be in flight more than once.            *)
EXTENDS ReorderBuffer

MCInsnPc == {4000, 4004}
MCReg == {0}
MCLsqIndex == {0}
MCWord == {0, 1}
=============================================================================
