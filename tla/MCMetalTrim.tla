---------------------------- MODULE MCMetalTrim ----------------------------
(***************************************************************************)
(* MetalTrim for TLC.                                                      *)
(***************************************************************************)
EXTENDS MetalTrim, MCGraphs

SmallInputs == SmallGraphs(5)

\* Two parts, dealt so that the order of the edges in a small graph does not
\* crowd them.
Alternate == [e \in Edges |-> e % 2]
=============================================================================
