----------------------------- MODULE MCCpuSolve -----------------------------
(***************************************************************************)
(* CpuSolve for TLC.                                                       *)
(***************************************************************************)
EXTENDS CpuSolve, MCGraphs

SmallInputs == SmallGraphs(5)
=============================================================================
