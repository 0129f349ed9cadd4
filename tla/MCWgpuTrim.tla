----------------------------- MODULE MCWgpuTrim -----------------------------
(***************************************************************************)
(* WgpuTrim for TLC.                                                       *)
(***************************************************************************)
EXTENDS WgpuTrim, MCGraphs

SmallInputs == SmallGraphs(5)

\* Three parts, dealt so that the order of the edges in a small graph does not
\* crowd them.
Dealt == [e \in Edges |-> IF e = 4 THEN 2 ELSE e % 3]
=============================================================================
