----------------------------- MODULE MCSolverAgent -----------------------------
(***************************************************************************)
(* One intent, the agent and a rival.                                      *)
(***************************************************************************)
EXTENDS SolverAgent

CONSTANTS i1, me, rival
=============================================================================
