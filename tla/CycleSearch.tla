---------------------------- MODULE CycleSearch ----------------------------
(***************************************************************************)
(* find_cycle of src/solver/cpu_lean.rs: depth-first search from every     *)
(* survivor, alternating sides, under a budget of branches.  The recursion *)
(* is a stack: `frames' holds, for each edge of the path, the candidates it*)
(* has not tried.  The order of candidates is left open.  The solvers that *)
(* call it are CpuSolve and GpuVerdict.                                    *)
(***************************************************************************)
EXTENDS VerifyCycle, Sequences, SequencesExt

CONSTANTS
    CycleLength,
    MaxBranches    \* MAX_SEARCH_BRANCHES

VARIABLES
    ends,          \* the survivors' endpoints, given by whoever calls
    starts, path, frames, branches, proof,
    pc             \* "idle", "begin", "search", then the result

\* The survivors, by index.
Given == DOMAIN ends

Init ==
    /\ starts = {} /\ path = <<>> /\ frames = <<>> /\ branches = 0 /\ proof = {}
    /\ pc = "idle"

Call ==
    /\ pc = "idle"
    /\ starts' = Given
    /\ pc' = "begin"
    /\ UNCHANGED <<path, frames, branches, proof>>

\* The candidates of the last edge of p: they meet it on the side the depth
\* gives, 0 first.
Candidates(p) == {f \in Given : Meets(ends, Last(p), f, (Len(p) - 1) % 2)}

\* Fewer survivors than edges in a cycle.
TooFew ==
    /\ pc = "begin" /\ Cardinality(Given) < CycleLength
    /\ pc' = "none"
    /\ UNCHANGED <<starts, path, frames, branches, proof>>

Start ==
    /\ pc = "begin" /\ Cardinality(Given) >= CycleLength
    /\ \E start \in starts :
          /\ \A later \in starts : start <= later
          /\ starts' = starts \ {start}
          /\ path' = <<start>>
          /\ frames' = <<Candidates(<<start>>)>>
    /\ pc' = "search"
    /\ UNCHANGED <<branches, proof>>

Exhausted ==
    /\ pc = "begin" /\ starts = {}
    /\ pc' = "none"
    /\ UNCHANGED <<starts, path, frames, branches, proof>>

Full == Len(path) = CycleLength

\* What the last edge has left to try.
Untried == IF frames = <<>> THEN {} ELSE Last(frames)

\* The next candidate of the last edge, counted against the budget.
Branch(next) ==
    /\ pc = "search" /\ ~Full
    /\ next \in Untried
    /\ branches' = branches + 1

\* Mutant of OverBudget: the search ends there, as if it had seen everything.
OverBudgetIsNone ==
    /\ \E next \in Untried : Branch(next)
    /\ branches' > MaxBranches
    /\ pc' = "none"
    /\ UNCHANGED <<starts, path, frames, proof>>

\* SearchLimit
OverBudget ==
    /\ \E next \in Untried : Branch(next)
    /\ branches' > MaxBranches
    /\ pc' = "limit"
    /\ UNCHANGED <<starts, path, frames, proof>>

\* An edge not on the path yet is put on it.
Descend(next) ==
    /\ Branch(next) /\ branches' <= MaxBranches
    /\ next \notin Range(path)
    /\ path' = Append(path, next)
    /\ frames' = Append([frames EXCEPT ![Len(path)] = @ \ {next}], Candidates(path'))
    /\ UNCHANGED <<starts, proof, pc>>

Skip(next) ==
    /\ Branch(next) /\ branches' <= MaxBranches
    /\ next \in Range(path)
    /\ frames' = [frames EXCEPT ![Len(path)] = @ \ {next}]
    /\ UNCHANGED <<starts, path, proof, pc>>

\* Mutant of Closes: the proof is not verified.
ClosesUnverified == Meets(ends, Last(path), Head(path), (Len(path) - 1) % 2)

\* A path of the cycle's length that meets its start, and verifies.
Closes ==
    /\ Meets(ends, Last(path), Head(path), (Len(path) - 1) % 2)
    /\ Verify(ends, Range(path), CycleLength)

\* The path is full and no proof, or its last edge has no candidate left.
DeadEnd == IF Full THEN ~Closes ELSE Untried = {}

Found ==
    /\ pc = "search" /\ Full /\ Closes
    /\ proof' = Range(path)
    /\ pc' = "found"
    /\ UNCHANGED <<starts, path, frames, branches>>

Backtrack ==
    /\ pc = "search"
    /\ DeadEnd
    /\ path' = Front(path) /\ frames' = Front(frames)
    /\ pc' = IF Len(path) = 1 THEN "begin" ELSE "search"
    /\ UNCHANGED <<starts, branches, proof>>

Step ==
    \/ TooFew \/ Start \/ Exhausted \/ OverBudget
    \/ \E next \in Untried : Descend(next) \/ Skip(next)
    \/ Found \/ Backtrack
=============================================================================
