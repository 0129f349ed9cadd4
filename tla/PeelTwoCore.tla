---------------------------- MODULE PeelTwoCore ----------------------------
(***************************************************************************)
(* peel_two_core of src/solver/peel.rs: a worklist over the endpoint       *)
(* groups of the survivors.  A group is the survivors that share an        *)
(* endpoint on a side.  It is queued, once, when its mate group is missing *)
(* or has no live edge left, and every edge of a group that leaves the     *)
(* queue dies.  The queue is a set: the result must not depend on its      *)
(* order.  The radix sort that makes groups contiguous is left out.        *)
(***************************************************************************)
EXTENDS CuckatooGraph

CONSTANTS Edges,    \* the survivors
          Nodes,
          Inputs    \* their graphs, in this instance

ASSUME PeelAssumption ==
    /\ Nodes \subseteq Nat /\ IsFiniteSet(Edges)
    /\ Inputs \subseteq Graphs(Edges, Nodes)

VARIABLES
    ends,      \* endpoints of the survivors
    alive,     \* live edges
    live,      \* live_count of each group
    queue,     \* groups waiting
    queued,    \* groups that were ever queued
    pc

vars == <<ends, alive, live, queue, queued, pc>>

Members(g, S) == {e \in S : ends[e][g[1]] = g[2]}

\* A group for each endpoint that occurs, named by its side and endpoint.
Groups == {g \in Sides \X Nodes : Members(g, Edges) # {}}

MateGroup(g) == <<g[1], Mate(g[2])>>

HasMateGroup(g) == MateGroup(g) \in Groups

Init ==
    /\ ends \in Inputs
    /\ alive = Edges
    /\ live = [g \in Groups |-> Cardinality(Members(g, Edges))]
    /\ queue = {} /\ queued = {}
    /\ pc = "seed"

\* Mutant of Seed: only a mate group that is there and empty counts.
SeedEmptyOnly ==
    /\ pc = "seed"
    /\ queue' = {g \in Groups : HasMateGroup(g) /\ live[MateGroup(g)] = 0}
    /\ queued' = queue'
    /\ pc' = "peel"
    /\ UNCHANGED <<ends, alive, live>>

\* The groups that have no live mate to begin with.
Seed ==
    /\ pc = "seed"
    /\ queue' = {g \in Groups : HasMateGroup(g) => live[MateGroup(g)] = 0}
    /\ queued' = queue'
    /\ pc' = "peel"
    /\ UNCHANGED <<ends, alive, live>>

\* Mutant of Dying: edges that died before are counted off again.
DyingAll(g) == Members(g, Edges)

Dying(g) == Members(g, alive)

\* Mutant of Bereaved: a group is queued again each time its mate empties.
BereavedAgain(left) ==
    {MateGroup(h) : h \in {i \in Groups : HasMateGroup(i) /\ left[i] = 0}}

\* Another: a group is queued when its mate has lost an edge.
BereavedTouched(left) ==
    {MateGroup(h) : h \in {i \in Groups : left[i] # live[i] /\ HasMateGroup(i)}} \ queued

\* The mates of the groups whose last live edge just died, if never queued.
Bereaved(left) ==
    {MateGroup(h) : h \in {i \in Groups : /\ live[i] # 0 /\ left[i] = 0
                                         /\ HasMateGroup(i)}} \ queued

\* Every live edge of g dies and comes off the count of both its groups.
PeelGroup(g) ==
    LET left == [h \in Groups |-> live[h] - Cardinality(Members(h, Dying(g)))]
    IN  /\ pc = "peel"
        /\ alive' = alive \ Dying(g)
        /\ live' = left
        /\ queue' = (queue \ {g}) \union Bereaved(left)
        /\ queued' = queued \union Bereaved(left)
        /\ UNCHANGED <<ends, pc>>

Drained ==
    /\ pc = "peel" /\ queue = {}
    /\ pc' = "done"
    /\ UNCHANGED <<ends, alive, live, queue, queued>>

Returned == pc = "done" /\ UNCHANGED vars

Next == Seed \/ (\E g \in queue : PeelGroup(g)) \/ Drained \/ Returned

Spec == Init /\ [][Next]_vars

-----------------------------------------------------------------------------
(* Correctness *)

\* The counters are the numbers of live edges: in particular no u32 counter
\* is taken below zero, although an edge is on two groups that may both be
\* peeled.
TypeOK ==
    /\ ends \in Graphs(Edges, Nodes)
    /\ alive \subseteq Edges
    /\ live = [g \in Groups |-> Cardinality(Members(g, alive))]
    /\ queue \subseteq queued /\ queued \subseteq Groups
    /\ pc \in {"seed", "peel", "done"}

\* No cycle loses an edge, whatever the order of the queue.
KeepsClosedSets ==
    \A C \in SUBSET Edges : Closed(ends, C) => C \subseteq alive

\* What comes back is the core: a group queued once is never needed again,
\* and none that lost its mate was missed.
PeelsToTheCore == pc = "done" => alive = Core(ends, Edges)
=============================================================================
