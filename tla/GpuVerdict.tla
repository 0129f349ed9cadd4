----------------------------- MODULE GpuVerdict -----------------------------
(***************************************************************************)
(* What both GPU solvers do with the survivors of their trimming (the end  *)
(* of verdict_at_round in src/solver/gpu_wgpu.rs and of solve in           *)
(* src/solver/gpu_metal.rs): peel_two_core (PeelTwoCore), a last look at   *)
(* the cancellation flag, and find_cycle_d2 (D2Search), which leaves every *)
(* length but its own to find_cycle (CycleSearch).                         *)
(***************************************************************************)
EXTENDS PeelTwoCore, Sequences

CONSTANTS Half, ArcCap, MaxBranches,
          OtherLength    \* a cycle length that is not 2 * Half

ASSUME GpuVerdictAssumption ==
    /\ Half \in Nat \ {0, 1} /\ ArcCap \in Nat /\ MaxBranches \in Nat
    /\ OtherLength \in Nat \ {0, 1, 2 * Half}

VARIABLES
    length,    \* cycle_length of the request
    cancel, outcome,
    starts, path, frames, branches, found,    \* of either search
    mids,                                     \* of the D2 search
    spc        \* where the search is: "idle" until it is called

shared     == <<starts, path, frames, branches, found, spc>>
searchVars == <<shared, mids>>
verdictVars == <<vars, length, cancel, outcome, searchVars>>

Survivors == [e \in alive |-> ends[e]]

D2      == INSTANCE D2Search WITH ends <- Survivors, proof <- found, pc <- spc
Generic == INSTANCE CycleSearch WITH
               ends <- Survivors, proof <- found, pc <- spc, CycleLength <- OtherLength

VerdictInit ==
    /\ Init
    /\ length \in {2 * Half, OtherLength}
    /\ cancel = FALSE /\ outcome = "none"
    /\ D2!Init

PeelStep ==
    /\ Seed \/ (\E g \in queue : PeelGroup(g)) \/ Drained
    /\ UNCHANGED <<length, cancel, outcome, searchVars>>

Peeled == pc = "done" /\ outcome = "none"

Cancelled ==
    /\ Peeled /\ spc = "idle" /\ cancel
    /\ outcome' = "cancelled"
    /\ UNCHANGED <<vars, length, cancel, searchVars>>

\* The D2 search knows cycles of 2 * Half edges only.
TakesD2 == length = 2 * Half

\* find_cycle_d2; too few survivors are no cycle in either search.
BeginSearch ==
    /\ Peeled /\ ~cancel
    /\ \/ TakesD2 /\ D2!Call
       \/ ~TakesD2 /\ Generic!Call /\ UNCHANGED mids
    /\ UNCHANGED <<vars, length, cancel, outcome>>

SearchStep ==
    /\ Peeled
    /\ UNCHANGED <<vars, length, cancel, outcome>>
    /\ \/ TakesD2 /\ D2!Step
       \/ ~TakesD2 /\ Generic!Step /\ UNCHANGED mids

\* The search's result is the verdict; a full adjacency or an exhausted budget
\* (SearchLimit) is inconclusive.
Conclude(verdict) ==
    /\ Peeled /\ spc \in DOMAIN verdict
    /\ outcome' = verdict[spc]
    /\ UNCHANGED <<vars, length, cancel, searchVars>>

SearchReturns ==
    Conclude([found |-> "proof", none |-> "noCycle", limit |-> "inconclusive"])

\* The coordinator raises the flag; the peel and the searches do not look.
Cancel ==
    /\ outcome = "none" /\ ~cancel
    /\ cancel' = TRUE
    /\ UNCHANGED <<vars, length, outcome, searchVars>>

VerdictReturned == outcome # "none" /\ UNCHANGED verdictVars

Work == PeelStep \/ Cancelled \/ BeginSearch \/ SearchStep \/ SearchReturns

VerdictNext == Work \/ Cancel \/ VerdictReturned

\* The verdict runs on the solver's thread.
VerdictSpec == VerdictInit /\ [][VerdictNext]_verdictVars /\ WF_verdictVars(Work)

-----------------------------------------------------------------------------
(* Correctness.  TypeOK, KeepsClosedSets and PeelsToTheCore are             *)
(* PeelTwoCore's.                                                           *)

\* A verdict is about the survivors that came from the GPU, although two steps
\* threw edges away on the way to it: "no cycle" means that they hold none of
\* the length asked for ("Overflow makes the verdict unknowable, never a
\* negative proof", src/solver/d2.rs:71), and a proof is one of their cycles,
\* although a closed walk of arcs may use an edge as a source and as a middle.
VerdictIsRight ==
    /\ outcome = "noCycle" => Cycles(ends, Edges, length) = {}
    /\ outcome = "proof" => found \subseteq Edges /\ IsCycle(ends, found, length)

\* The peel's queue drains and the search ends, so a verdict comes.
VerdictReturns == <>(outcome # "none")
=============================================================================
