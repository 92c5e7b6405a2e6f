------------------------- MODULE MC_LoadStoreQueue -------------------------
(* The load/store queue with two entries, two registers and two values.    *)
EXTENDS LoadStoreQueue

MCInsnPc == {4000, 4004}
MCPregTag == {0, 1}
MCValid == {0, 1}
MCWord == {0, 1}
=============================================================================
