------------------------------ MODULE MCGraphs ------------------------------
(***************************************************************************)
(* Small graphs for TLC: every graph of edges 0..count-1 over two mate     *)
(* pairs a side, up to the names of its edges and, by flipping bits of its *)
(* nodes, of the first edge's ends.  The peel and the searches depend on   *)
(* neither; where edges are dealt into parts by name these are a sample.   *)
(***************************************************************************)
EXTENDS CuckatooGraph

Rank(g, e) == 4 * g[e][0] + g[e][1]

SmallGraphs(count) ==
    {g \in Graphs(0..(count - 1), 0..3) :
        /\ Rank(g, 0) = 0
        /\ \A e \in 1..(count - 1) : Rank(g, e - 1) <= Rank(g, e)}
=============================================================================
