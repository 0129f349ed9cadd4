---------------------------- MODULE MCGpuVerdict ----------------------------
(***************************************************************************)
(* GpuVerdict for TLC: a ring of six without its last edge, an edge from   *)
(* where the ring ends, and one anywhere.  Some of these graphs have cycles*)
(* of six, of four, chords, doubled edges, or tails of any length to peel. *)
(***************************************************************************)
EXTENDS GpuVerdict

Arm == <<<<0, 0>>, <<1, 2>>, <<2, 3>>, <<3, 4>>, <<4, 5>>>>

RingInputs ==
    {[e \in Edges |-> [side \in Sides |-> (Arm \o <<<<5, n>>, free>>)[e + 1][side + 1]]] :
        n \in 0..5, free \in (0..5) \X (0..5)}
=============================================================================
