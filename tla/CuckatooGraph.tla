--------------------------- MODULE CuckatooGraph ---------------------------
(***************************************************************************)
(* The Cuckatoo graph as the solvers see it.  Edge e has one endpoint on   *)
(* each side; siphash::endpoint gives them, here any function `ends' does. *)
(* Two edges meet on a side when their endpoints there differ in the lowest*)
(* bit: one endpoint is the mate of the other.                             *)
(***************************************************************************)
EXTENDS Integers, FiniteSets

Sides == {0, 1}

\* node ^ 1
Mate(node) == IF node % 2 = 0 THEN node + 1 ELSE node - 1

\* The graphs with these edges and nodes.
Graphs(edges, nodes) == [edges -> [Sides -> nodes]]

\* Edge f of S meets e on this side.
Meets(ends, e, f, side) == ends[f][side] = Mate(ends[e][side])

HasMate(ends, S, e, side) == \E f \in S : Meets(ends, e, f, side)

\* One trimming round: the edges of S that have a mate in S on this side.
TrimSide(ends, S, side) == {e \in S : HasMate(ends, S, e, side)}

\* Nothing can be trimmed from C.  Every cycle is closed, and so is the core.
Closed(ends, C) == \A e \in C, side \in Sides : HasMate(ends, C, e, side)

\* The largest closed part of S.
Core(ends, S) == UNION {C \in SUBSET S : Closed(ends, C)}

\* P is one cycle: at each endpoint exactly one edge of P meets e, and P does
\* not fall apart into smaller closed sets.
IsCycle(ends, P, length) ==
    /\ Cardinality(P) = length
    /\ Closed(ends, P)
    /\ \A e, f, g \in P, side \in Sides :
          Meets(ends, e, f, side) /\ Meets(ends, e, g, side) => f = g
    /\ \A C \in SUBSET P : Closed(ends, C) => C = {} \/ C = P

Cycles(ends, S, length) == {P \in SUBSET S : IsCycle(ends, P, length)}
=============================================================================
