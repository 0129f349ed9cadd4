------------------------------ MODULE CpuSolve ------------------------------
(***************************************************************************)
(* solve of src/solver/cpu_lean.rs from beginning to end: the trimming of  *)
(* CpuLean, then find_cycle (CycleSearch) over what survived.  CpuLean has *)
(* the search as one step; here it takes as many as it takes, with the flag*)
(* raised in the middle of it, and ImplementsCpuLean says that nobody can  *)
(* tell.                                                                   *)
(***************************************************************************)
EXTENDS CpuLean, Sequences

CONSTANTS Inputs,        \* the graphs of this instance
          MaxBranches

ASSUME CpuSolveAssumption ==
    /\ CycleLength > 1 /\ MaxBranches \in Nat
    /\ IsFiniteSet(Edges)
    /\ Inputs \subseteq Graphs(Edges, Nodes)

VARIABLES starts, path, frames, branches, found,
          spc    \* where the search is: "idle" until it is called

searchVars == <<starts, path, frames, branches, found, spc>>
solveVars  == <<vars, searchVars>>

\* find_cycle, called with the edges alive when the trimming ended.
Search == INSTANCE CycleSearch WITH
    ends <- [e \in alive |-> ends[e]], proof <- found, pc <- spc

Searching == spc # "idle"

SolveInit == ends \in Inputs /\ Init /\ Search!Init

TrimStep ==
    /\ ~Searching
    /\ MarkNodes \/ KillEdges \/ RoundsDone \/ Cancelled
    /\ UNCHANGED searchVars

\* Past the last look at the flag.
BeginSearch ==
    /\ pc = "search" /\ ~cancel
    /\ Search!Call
    /\ UNCHANGED vars

SearchStep == UNCHANGED vars /\ Search!Step

\* What the search returned becomes the outcome, whatever the flag says now.
Conclude(outcomeOf) ==
    /\ pc = "search" /\ spc \in DOMAIN outcomeOf
    /\ outcome' = outcomeOf[spc] /\ proof' = found
    /\ pc' = "done"
    /\ UNCHANGED <<ends, alive, occupied, round, cancel>>
    /\ UNCHANGED searchVars

SearchReturns ==
    Conclude([found |-> "proof", none |-> "noCycle", limit |-> "inconclusive"])

Raised == Cancel /\ UNCHANGED searchVars

SolveReturned == Returned /\ UNCHANGED searchVars

Work == TrimStep \/ BeginSearch \/ SearchStep \/ SearchReturns

SolveNext == Work \/ Raised \/ SolveReturned

\* solve runs on a thread of its own.
SolveSpec == SolveInit /\ [][SolveNext]_solveVars /\ WF_solveVars(Work)

-----------------------------------------------------------------------------
(* Correctness.  TypeOK, KeepsClosedSets, NoCycleIsRight and StopsAtTheCore *)
(* are CpuLean's, here of the whole solve.                                  *)

\* verify_cycle (src/verify.rs), which every found cycle passes, accepts
\* exactly the cycles: a walk that looks at one mate per endpoint cannot be
\* fooled by two smaller cycles, a chord or a dead end.
VerifiesExactly ==
    pc = "round" /\ round = 0 =>
       \A P \in SUBSET Edges :
          Search!Verify(ends, P, CycleLength) <=> IsCycle(ends, P, CycleLength)

\* To the rest of the program the search is the single step CpuLean makes of
\* it: a proof is a cycle of the survivors, "no cycle" is said only when there
\* is none, and a flag raised while the search runs changes nothing.
Abstract == INSTANCE CpuLean WITH cancel <- cancel /\ ~Searching

ImplementsCpuLean == Abstract!Spec

\* Every solve ends, whenever the flag is raised and whatever the graph: the
\* rounds, the starts and the branches all run out.
SolveReturns == <>(pc = "done")
=============================================================================
