---------------------------- MODULE MC_IssueQueue ----------------------------
(* The issue queue with a list that may grow to its full size while the    *)
(* counter, which forgets re-issued entries, falls below zero.             *)
EXTENDS IssueQueue

MCPregTag == {0}
MCWord == {0, 1}
=============================================================================
