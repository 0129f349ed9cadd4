------------------------------ MODULE CpuLean ------------------------------
(***************************************************************************)
(* The CPU solver of src/solver/cpu_lean.rs: lean trimming, one side       *)
(* of the graph a round, then the cycle search over what survives, with the*)
(* cancellation flag the coordinator may raise at any moment.  Survivors   *)
(* are a set of edges; the search appears by its result; CpuSolve          *)
(* has the search itself, and implements this.                             *)
(***************************************************************************)
EXTENDS CuckatooGraph

CONSTANTS Edges, Nodes, Rounds, CycleLength

ASSUME CpuLeanAssumption ==
    /\ Rounds \in Nat \ {0}
    /\ CycleLength \in Nat \ {0}
    /\ Nodes \subseteq Nat

VARIABLES
    ends,       \* the graph of this nonce
    alive,      \* bitmap of edges
    occupied,   \* bitmap of nodes, of the round's side
    round, pc, cancel, outcome, proof

vars == <<ends, alive, occupied, round, pc, cancel, outcome, proof>>

Side == round % 2

\* Mutant of Init: in a graph of fewer than 64 edges the rest of the first
\* word of the bitmap stays alive.
InitUnmasked ==
    /\ ends \in Graphs(Edges, Nodes)
    /\ alive = 0..63
    /\ occupied = {}
    /\ round = 0
    /\ pc = "round"
    /\ cancel = FALSE
    /\ outcome = "none"
    /\ proof = {}

Init ==
    /\ ends \in Graphs(Edges, Nodes)
    /\ alive = Edges
    /\ occupied = {}
    /\ round = 0
    /\ pc = "round"
    /\ cancel = FALSE
    /\ outcome = "none"
    /\ proof = {}

\* The round looks at the flag, then marks the endpoints of the live edges.
MarkNodes ==
    /\ pc = "round" /\ round < Rounds /\ ~cancel
    /\ occupied' = {ends[e][Side] : e \in alive}
    /\ pc' = "kill"
    /\ UNCHANGED <<ends, alive, round, cancel, outcome, proof>>

\* Mutants of KillEdges: an edge needs its own node, not the mate; the sides
\* do not alternate; a round that kills none is not counted.
KillEdgesOwnNode ==
    /\ pc = "kill"
    /\ LET kept == {e \in alive : ends[e][Side] + 1 \in occupied}
       IN  /\ alive' = kept
           /\ \/ kept = alive /\ pc' = "search" /\ UNCHANGED round
              \/ kept # alive /\ pc' = "round" /\ round' = round + 1
    /\ UNCHANGED <<ends, occupied, cancel, outcome, proof>>
KillEdgesOneSide ==
    /\ pc = "kill"
    /\ LET kept == {e \in alive : Mate(ends[e][Side]) \in occupied}
       IN  /\ alive' = kept
           /\ \/ kept = alive /\ pc' = "search" /\ UNCHANGED round
              \/ kept # alive /\ pc' = "round" /\ round' = round + 2
    /\ UNCHANGED <<ends, occupied, cancel, outcome, proof>>
KillEdgesUncounted ==
    /\ pc = "kill"
    /\ LET kept == {e \in alive : Mate(ends[e][Side]) \in occupied}
       IN  /\ alive' = kept
           /\ pc' = "round"
           /\ \/ kept = alive /\ UNCHANGED round
              \/ kept # alive /\ round' = round + 1
    /\ UNCHANGED <<ends, occupied, cancel, outcome, proof>>

\* Live edges whose mate is not occupied die; a round that kills none is the
\* last.
KillEdges ==
    /\ pc = "kill"
    /\ LET kept == {e \in alive : Mate(ends[e][Side]) \in occupied}
       IN  /\ alive' = kept
           /\ \/ kept = alive /\ pc' = "search" /\ UNCHANGED round
              \/ kept # alive /\ pc' = "round" /\ round' = round + 1
    /\ UNCHANGED <<ends, occupied, cancel, outcome, proof>>

RoundsDone ==
    /\ pc = "round" /\ round = Rounds
    /\ pc' = "search"
    /\ UNCHANGED <<ends, alive, occupied, round, cancel, outcome, proof>>

\* The flag is looked at before each round and before the search.
Cancelled ==
    /\ \/ pc = "round" /\ round < Rounds
       \/ pc = "search"
    /\ cancel
    /\ outcome' = "cancelled"
    /\ pc' = "done"
    /\ UNCHANGED <<ends, alive, occupied, round, cancel, proof>>

Finish(result, P) ==
    /\ pc = "search" /\ ~cancel
    /\ outcome' = result /\ proof' = P
    /\ pc' = "done"
    /\ UNCHANGED <<ends, alive, occupied, round, cancel>>

FindsCycle == \E P \in Cycles(ends, alive, CycleLength) : Finish("proof", P)

FindsNothing == Cycles(ends, alive, CycleLength) = {} /\ Finish("noCycle", {})

\* More than MAX_SEARCH_BRANCHES branches: a SearchLimit error, which solve
\* turns into an inconclusive outcome.
GivesUp == Finish("inconclusive", {})

\* The coordinator raises the flag.
Cancel ==
    /\ pc # "done" /\ ~cancel
    /\ cancel' = TRUE
    /\ UNCHANGED <<ends, alive, occupied, round, pc, outcome, proof>>

Returned == pc = "done" /\ UNCHANGED vars

Next ==
    \/ MarkNodes \/ KillEdges \/ RoundsDone \/ Cancelled
    \/ FindsCycle \/ FindsNothing \/ GivesUp
    \/ Cancel \/ Returned

Spec == Init /\ [][Next]_vars

-----------------------------------------------------------------------------
(* Correctness *)

TypeOK ==
    /\ ends \in Graphs(Edges, Nodes)
    /\ alive \subseteq Edges
    /\ occupied \subseteq Nodes
    /\ round \in 0..Rounds
    /\ pc \in {"round", "kill", "search", "done"}
    /\ cancel \in BOOLEAN
    /\ outcome \in {"none", "proof", "noCycle", "cancelled", "inconclusive"}
    /\ proof \subseteq Edges

\* Trimming never loses an edge of a closed set, so of a cycle: stopping it
\* after any number of rounds leaves every cycle of the graph whole.
KeepsClosedSets ==
    \A C \in SUBSET Edges : Closed(ends, C) => C \subseteq alive

\* A negative verdict is about the whole graph, not about what survived.
NoCycleIsRight ==
    outcome = "noCycle" => Cycles(ends, Edges, CycleLength) = {}

\* When a round that kills nothing ends the trimming, nothing is left to trim
\* on either side, unless it was the very first round: then the other side
\* was never looked at.
StopsAtTheCore ==
    pc = "search" /\ round \in 1..(Rounds - 1) => Closed(ends, alive)
=============================================================================
