------------------------------ MODULE D2Search ------------------------------
(***************************************************************************)
(* find_cycle_d2 of src/solver/d2.rs: the search that walks two edges      *)
(* at a time.  An arc from src leads through mid, a mate of src on side 0, *)
(* to dst, a mate of mid on side 1; a cycle of 2 * Half edges is a closed  *)
(* walk of Half arcs.  `frames' holds the arcs not yet tried, as in        *)
(* CycleSearch; the order of arcs is left open.                            *)
(***************************************************************************)
EXTENDS VerifyCycle, Sequences, SequencesExt

CONSTANTS
    Half,          \* 21
    ArcCap,        \* ARC_CAP
    MaxBranches    \* MAX_SEARCH_BRANCHES

VARIABLES
    ends,      \* the survivors' endpoints, given by GpuVerdict
    starts, branches, proof,
    pc,        \* "idle", "build", "begin", "search", then the result
    path,      \* the sources of the arcs walked
    mids,      \* the edges between them
    frames     \* for each source, the arcs it has not tried

CycleLength == 2 * Half

\* The survivors, by index.
Given == DOMAIN ends

Arc == [dst : Given, mid : Given]

Arcs(src) ==
    {a \in Arc : /\ a.mid # src /\ Meets(ends, src, a.mid, 0)
                 /\ a.dst # src /\ Meets(ends, a.mid, a.dst, 1)}

ArcCount == MapThenSumSet(LAMBDA src : Cardinality(Arcs(src)), Given)

Init ==
    /\ starts = {} /\ path = <<>> /\ mids = <<>> /\ frames = <<>>
    /\ branches = 0 /\ proof = {}
    /\ pc = "idle"

Call ==
    /\ pc = "idle"
    /\ starts' = Given
    /\ pc' = "build"
    /\ UNCHANGED <<path, mids, frames, branches, proof>>

TooFew ==
    /\ pc = "build" /\ Cardinality(Given) < CycleLength
    /\ pc' = "none"
    /\ UNCHANGED <<starts, path, mids, frames, branches, proof>>

\* Mutant of Overflow: it counts as a search that found nothing.
OverflowIsNone ==
    /\ pc = "build" /\ Cardinality(Given) >= CycleLength
    /\ ArcCount > ArcCap
    /\ pc' = "none"
    /\ UNCHANGED <<starts, path, mids, frames, branches, proof>>

\* More arcs than the adjacency holds: no verdict.
Overflow ==
    /\ pc = "build" /\ Cardinality(Given) >= CycleLength
    /\ ArcCount > ArcCap
    /\ pc' = "limit"
    /\ UNCHANGED <<starts, path, mids, frames, branches, proof>>

Built ==
    /\ pc = "build" /\ Cardinality(Given) >= CycleLength
    /\ ArcCount <= ArcCap
    /\ pc' = "begin"
    /\ UNCHANGED <<starts, path, mids, frames, branches, proof>>

\* A survivor without arcs is no start.
Start ==
    /\ pc = "begin"
    /\ \E start \in starts :
          /\ \A later \in starts : start <= later
          /\ starts' = starts \ {start}
          /\ \/ /\ Arcs(start) # {}
                /\ path' = <<start>>
                /\ frames' = <<Arcs(start)>>
                /\ pc' = "search"
             \/ Arcs(start) = {} /\ UNCHANGED <<path, frames, pc>>
    /\ UNCHANGED <<mids, branches, proof>>

Exhausted ==
    /\ pc = "begin" /\ starts = {}
    /\ pc' = "none"
    /\ UNCHANGED <<starts, path, mids, frames, branches, proof>>

\* What the last source has left to try.
Untried == IF frames = <<>> THEN {} ELSE Last(frames)

\* The next arc of the last source, counted against the budget.
Branch(arc) ==
    /\ pc = "search"
    /\ arc \in Untried
    /\ branches' = branches + 1

OverBudget ==
    /\ \E arc \in Untried : Branch(arc)
    /\ branches' > MaxBranches
    /\ pc' = "limit"
    /\ UNCHANGED <<starts, path, mids, frames, proof>>

Taken(arc) == [frames EXCEPT ![Len(path)] = @ \ {arc}]

\* The edges of the walk that arc closes.
Nonces(arc) == Range(path) \union Range(mids) \union {arc.mid}

Closes(arc) ==
    /\ arc.dst = Head(path) /\ Len(path) = Half
    /\ Verify(ends, Nonces(arc), CycleLength)

Found(arc) ==
    /\ Branch(arc) /\ branches' <= MaxBranches
    /\ Closes(arc)
    /\ proof' = Nonces(arc)
    /\ pc' = "found"
    /\ UNCHANGED <<starts, path, mids, frames>>

Blocked(arc) == arc.dst \in Range(path) \/ Len(path) = Half

\* An arc that closes no cycle, leads back onto the path, or comes too late.
Skip(arc) ==
    /\ Branch(arc) /\ branches' <= MaxBranches
    /\ Blocked(arc) /\ ~Closes(arc)
    /\ frames' = Taken(arc)
    /\ UNCHANGED <<starts, path, mids, proof, pc>>

Descend(arc) ==
    /\ Branch(arc) /\ branches' <= MaxBranches
    /\ ~Blocked(arc)
    /\ path' = Append(path, arc.dst)
    /\ mids' = Append(mids, arc.mid)
    /\ frames' = Append(Taken(arc), Arcs(arc.dst))
    /\ UNCHANGED <<starts, proof, pc>>

Backtrack ==
    /\ pc = "search" /\ Untried = {}
    /\ path' = Front(path) /\ frames' = Front(frames)
    /\ mids' = IF mids = <<>> THEN mids ELSE Front(mids)
    /\ pc' = IF Len(path) = 1 THEN "begin" ELSE "search"
    /\ UNCHANGED <<starts, branches, proof>>

Step ==
    \/ TooFew \/ Overflow \/ Built \/ Start \/ Exhausted \/ OverBudget
    \/ \E arc \in Untried : Found(arc) \/ Skip(arc) \/ Descend(arc)
    \/ Backtrack
=============================================================================
