------------------------------ MODULE WgpuTrim ------------------------------
(***************************************************************************)
(* The wgpu solver of src/solver/gpu_wgpu.rs and gpu_fine.rs on one nonce. *)
(* The host runs trimming rounds on the GPU: dense rounds through buckets  *)
(* of limited capacity (`bucketed', or `slean' with its dead arena and     *)
(* backup), lean rounds in batches, or fine rounds from arena to arena,    *)
(* after which the dense buffers are gone.  Then it peels and searches, and*)
(* if the search gives up trims again with all rounds.                     *)
(*                                                                         *)
(* A submission shows as the kernels it runs, in order; the cancellation   *)
(* flag is looked at where the host does.  A slean round the host abandons *)
(* was encoded but never submitted: nothing reads what it would have done. *)
(***************************************************************************)
EXTENDS TrimKernels

CONSTANTS
    Edges, Nodes, Inputs, CycleLength,
    Parts,          \* parts, or chunks, a dense round goes through
    PartOf,         \* the part of each edge
    Capacity,       \* slots of a bucket
    DeadCapacity,   \* slots for the dead edges of a part
    FineMargin,     \* FINE_FIXED_MIN_MARGIN
    MarkRounds,     \* BUCKETED_MARK_ROUNDS
    BatchRounds,    \* ROUNDS_PER_SUBMISSION
    EarlyRound,     \* EARLY_VERDICT_ROUND
    Rounds          \* the request's rounds

ASSUME WgpuAssumption ==
    /\ Nodes \subseteq Nat /\ IsFiniteSet(Edges) /\ IsFiniteSet(Nodes)
    /\ \A node \in Nodes : Mate(node) \in Nodes
    /\ Inputs \subseteq Graphs(Edges, Nodes)
    /\ Parts \in Nat /\ Parts >= 2
    /\ PartOf \in [Edges -> 0..(Parts - 1)]
    /\ {Capacity, DeadCapacity, FineMargin, MarkRounds, CycleLength} \subseteq Nat
    /\ {BatchRounds, EarlyRound, Rounds} \subseteq Nat \ {0}
    /\ MarkRounds >= 3

VARIABLES
    ends,       \* the graph
    mode,       \* which dense rounds this request gets
    rounds,     \* rounds of this trim
    round,      \* rounds done
    start,      \* what they left: the edges this round set out from
    pc,
    batch,      \* where the lean batch ends
    part,       \* parts done in this phase
    edges, nodes, backup, arena,    \* buffers
    compact,    \* the fine arena has no gaps
    overflow,   \* some overflow word is not zero
    destroyed,  \* the dense buffers were destroyed
    survivors,  \* what the host read back
    cancel, outcome, proof

requestVars == <<ends, mode, rounds>>
bufferVars  == <<edges, nodes, backup, arena, compact, overflow, destroyed>>
verdictVars == <<survivors, outcome, proof>>
vars == <<ends, mode, rounds, round, start, pc, batch, part, edges, nodes, backup,
          arena, compact, overflow, destroyed, survivors, cancel, outcome, proof>>

Least(m, n) == IF m <= n THEN m ELSE n

Side == round % 2

\* Small graphs, and graphs of few rounds, never reach the fine rounds.
Fine == mode # "lean" /\ rounds > MarkRounds

TransitionRound == IF mode = "slean" THEN 3 ELSE 2

DenseRounds ==
    IF mode = "lean" THEN 0 ELSE IF Fine THEN TransitionRound ELSE MarkRounds

NoEdges == Cleared(Buckets(Nodes))

Init ==
    /\ ends \in Inputs
    /\ mode \in {"lean", "bucketed", "slean"}
    /\ rounds = Least(Rounds, EarlyRound)
    /\ round = 0 /\ start = Edges
    /\ pc = "round"
    /\ batch = 0 /\ part = 0
    /\ edges = Edges
    /\ nodes = {} /\ backup = {}
    /\ arena = NoEdges /\ compact = FALSE
    /\ overflow = FALSE /\ destroyed = FALSE
    /\ survivors = {} /\ cancel = FALSE
    /\ outcome = "none" /\ proof = {}

-----------------------------------------------------------------------------
(* Dense rounds *)

BeginDense ==
    /\ pc = "round" /\ round < rounds /\ ~cancel
    /\ round < DenseRounds
    /\ nodes' = {} /\ overflow' = FALSE /\ part' = 0
    /\ pc' = "mark"
    /\ UNCHANGED <<requestVars, round, start, batch, edges, backup, arena, compact,
                   destroyed, verdictVars, cancel>>

PartEdges(p) == {e \in Edges : PartOf[e] = p}

\* The first round scatters every edge of the part, later ones the live ones.
Scattered(p) ==
    Sorted(ends, IF round = 0 THEN PartEdges(p) ELSE PartEdges(p) \intersect edges,
           Side, Buckets(Nodes))

\* The host looks at the flag after it has sent off a part.
Sent == part > 0 => ~cancel

MarkPart(a) ==
    /\ pc = "mark" /\ Sent
    /\ overflow' = (overflow \/ Overflows(Scattered(part), Capacity))
    /\ IF mode = "slean" /\ part = Parts - 1
       THEN arena' = a /\ UNCHANGED nodes
       ELSE nodes' = nodes \union Marks(ends, Held(a), Side) /\ UNCHANGED arena
    /\ part' = (part + 1) % Parts
    /\ pc' = IF part = Parts - 1 THEN "trim" ELSE "mark"
    /\ UNCHANGED <<requestVars, round, start, batch, edges, backup, compact,
                   destroyed, verdictVars, cancel>>

PartTrimmed ==
    /\ part' = (part + 1) % Parts
    /\ pc' = IF part = Parts - 1 THEN "finish" ELSE "trim"
    /\ UNCHANGED <<requestVars, round, start, batch, compact, destroyed,
                   verdictVars, cancel>>

\* Mutant of TrimChunk: the overflow word is cleared along with the counts.
TrimChunkClears(a) ==
    /\ pc = "trim" /\ mode = "bucketed" /\ ~cancel
    /\ overflow' = Overflows(Scattered(part), Capacity)
    /\ edges' = IF overflow' THEN edges
                ELSE edges \ Unmated(ends, Held(a), Side, nodes)
    /\ PartTrimmed
    /\ UNCHANGED <<nodes, backup, arena>>

\* Bucketed: a chunk is scattered again, now with its edges, and trimmed in
\* place, unless anything of this round has overflowed.
TrimChunk(a) ==
    /\ pc = "trim" /\ mode = "bucketed" /\ ~cancel
    /\ overflow' = (overflow \/ Overflows(Scattered(part), Capacity))
    /\ edges' = IF overflow' THEN edges
                ELSE edges \ Unmated(ends, Held(a), Side, nodes)
    /\ PartTrimmed
    /\ UNCHANGED <<nodes, backup, arena>>

\* The dead edges found go through an arena of their own; unless something
\* has overflowed, they die.
ApplyDeaths(dying) ==
    /\ overflow' = (overflow \/ Cardinality(dying) > DeadCapacity)
    /\ edges' = IF overflow' THEN edges ELSE edges \ dying

\* Mutant of TrimResident: its marks do not reach the other parts.
TrimResidentAlone ==
    /\ pc = "trim" /\ mode = "slean" /\ part = 0 /\ ~cancel
    /\ backup' = edges
    /\ nodes' = nodes
    /\ IF overflow
       THEN UNCHANGED <<edges, overflow>>
       ELSE ApplyDeaths(Unmated(ends, Held(arena), Side,
                                nodes \union Marks(ends, Held(arena), Side)))
    /\ arena' = NoEdges
    /\ PartTrimmed

\* Slean: the edges are saved, and the part still in the arenas is marked and
\* trimmed in one go.  The host does not look at the flag after it.
TrimResident ==
    /\ pc = "trim" /\ mode = "slean" /\ part = 0 /\ ~cancel
    /\ backup' = edges
    /\ IF overflow
       THEN UNCHANGED <<nodes, edges, overflow>>
       ELSE /\ nodes' = nodes \union Marks(ends, Held(arena), Side)
            /\ ApplyDeaths(Unmated(ends, Held(arena), Side, nodes'))
    /\ arena' = NoEdges
    /\ PartTrimmed

\* Then the earlier parts, in order.
TrimEarlier(a) ==
    /\ pc = "trim" /\ mode = "slean" /\ part > 0
    /\ part > 1 => ~cancel
    /\ IF overflow \/ Overflows(Scattered(part - 1), Capacity)
       THEN overflow' = TRUE /\ UNCHANGED edges
       ELSE ApplyDeaths(Unmated(ends, Held(a), Side, nodes))
    /\ PartTrimmed
    /\ UNCHANGED <<nodes, backup, arena>>

\* What the exact round starts from when something overflowed.
Fallback == IF mode = "slean" THEN backup ELSE edges

RoundDone(left) == edges' = left /\ start' = left /\ round' = round + 1

\* The overflow words are read back; if all are zero the round is done.
FinishDense ==
    /\ pc = "finish" /\ ~cancel
    /\ RoundDone(IF overflow THEN LeanRound(ends, Fallback, Side) ELSE edges)
    /\ nodes' = IF overflow THEN Marks(ends, Fallback, Side) ELSE nodes
    /\ pc' = "report"
    /\ UNCHANGED <<requestVars, batch, part, backup, arena, compact, overflow,
                   destroyed, verdictVars, cancel>>

-----------------------------------------------------------------------------
(* Lean rounds *)

\* A batch goes off in one submission: a single round for live work.
BeginLean ==
    /\ pc = "round" /\ round < rounds /\ ~cancel
    /\ round >= DenseRounds
    /\ \E size \in {1, BatchRounds} : batch' = Least(round + size, rounds)
    /\ pc' = "lean"
    /\ UNCHANGED <<requestVars, round, start, part, bufferVars, verdictVars, cancel>>

TrimLean ==
    /\ pc = "lean"
    /\ nodes' = Marks(ends, edges, Side)
    /\ RoundDone(LeanRound(ends, edges, Side))
    /\ pc' = IF round' = batch THEN "report" ELSE "lean"
    /\ UNCHANGED <<requestVars, batch, part, backup, arena, compact, overflow,
                   destroyed, verdictVars, cancel>>

\* report_round: nothing to do, or it is time for the fine rounds.
Report ==
    /\ pc = "report" /\ ~cancel
    /\ pc' = IF Fine /\ round = TransitionRound THEN "seed" ELSE "round"
    /\ UNCHANGED <<requestVars, round, start, batch, part, bufferVars, verdictVars, cancel>>

-----------------------------------------------------------------------------
(* Fine rounds *)

\* The live edges, counted and then scattered without gaps.
FineSeed == Sorted(ends, edges, Side, Buckets(Nodes))

\* The same in shards, and trimmed on the way.
ShardedSeed == NextArena(ends, FineSeed, Side)

\* The live edges move to a compact arena and the dense buffers are destroyed.
Seed ==
    /\ pc = "seed"
    /\ IF mode = "bucketed"
       THEN /\ arena' = ShardedSeed
            /\ start' = Held(arena') /\ round' = round + 1
       ELSE /\ arena' = FineSeed
            /\ UNCHANGED <<start, round>>
    /\ compact' = TRUE
    /\ edges' = {} /\ nodes' = {} /\ backup' = {}
    /\ destroyed' = TRUE
    /\ pc' = "fine"
    /\ UNCHANGED <<requestVars, batch, part, overflow, verdictVars, cancel>>

\* What a round leaves of the arena it reads, for the next side.
Trimmed == NextArena(ends, arena, Side)

FineRoundDone ==
    /\ start' = Held(arena') /\ round' = round + 1
    /\ pc' = "fine"
    /\ UNCHANGED <<requestVars, batch, part, edges, nodes, backup, overflow,
                   destroyed, verdictVars, cancel>>

\* Slots of every bucket of a fixed arena: as many as the fullest one needs now.
FixedCapacity ==
    LET sizes == {Cardinality(arena[b]) : b \in DOMAIN arena}
    IN  (CHOOSE n \in sizes : \A m \in sizes : m <= n) + FineMargin

\* Mutant of TrimFixed: the last round too leaves an arena with gaps.
TrimFixedToTheEnd ==
    /\ pc = "fine" /\ round < rounds /\ ~cancel
    /\ ~Overflows(Trimmed, FixedCapacity)
    /\ arena' = Trimmed
    /\ compact' = FALSE
    /\ FineRoundDone

\* One pass into an arena of fixed buckets, except for the last round.
TrimFixed ==
    /\ pc = "fine" /\ round + 1 < rounds /\ ~cancel
    /\ ~Overflows(Trimmed, FixedCapacity)
    /\ arena' = Trimmed
    /\ compact' = FALSE
    /\ FineRoundDone

\* The fixed arena overflowed, or is more than the adapter can bind.  Its
\* input is untouched.
FixedFails ==
    /\ pc = "fine" /\ round + 1 < rounds /\ ~cancel
    /\ pc' = "csr"
    /\ UNCHANGED <<requestVars, round, start, batch, part, bufferVars, verdictVars, cancel>>

\* Two passes: count, then scatter without gaps.
TrimCsr ==
    /\ pc = "csr" \/ (pc = "fine" /\ round + 1 = rounds /\ ~cancel)
    /\ arena' = Trimmed
    /\ compact' = TRUE
    /\ FineRoundDone

\* Mutant of FineCancelled: the flag is taken down when it is answered.
FineCancelledSwaps ==
    /\ pc = "fine" /\ round < rounds /\ cancel
    /\ cancel' = FALSE
    /\ pc' = "round"
    /\ UNCHANGED <<requestVars, round, start, batch, part, bufferVars, verdictVars>>

\* The fine rounds give no survivors, and the caller goes on to its next
\* round.  (Its own count of rounds is still that of the transition.)
FineCancelled ==
    /\ pc = "fine" /\ round < rounds /\ cancel
    /\ pc' = "round"
    /\ UNCHANGED <<requestVars, round, start, batch, part, bufferVars, verdictVars, cancel>>

-----------------------------------------------------------------------------
(* Verdict *)

\* survivor_count words from the front of the arena: with gaps, anything.
ReadFine ==
    /\ pc = "fine" /\ round = rounds
    /\ survivors' \in IF compact THEN {Held(arena)} ELSE SUBSET Edges
    /\ pc' = "peel"
    /\ UNCHANGED <<requestVars, round, start, batch, part, bufferVars, outcome, proof, cancel>>

ReadBitmap ==
    /\ pc = "round" /\ round = rounds
    /\ survivors' = edges
    /\ pc' = "peel"
    /\ UNCHANGED <<requestVars, round, start, batch, part, bufferVars, outcome, proof, cancel>>

\* peel_two_core, by its result.
Peel ==
    /\ pc = "peel"
    /\ survivors' = Core(ends, survivors)
    /\ pc' = "search"
    /\ UNCHANGED <<requestVars, round, start, batch, part, bufferVars, outcome, proof, cancel>>

Return(result, P) ==
    /\ outcome' = result /\ proof' = P
    /\ pc' = "done"
    /\ UNCHANGED <<requestVars, round, start, batch, part, bufferVars, survivors, cancel>>

FindsCycle ==
    /\ pc = "search" /\ ~cancel
    /\ \E P \in Cycles(ends, survivors, CycleLength) : Return("proof", P)

FindsNothing ==
    /\ pc = "search" /\ ~cancel
    /\ Cycles(ends, survivors, CycleLength) = {}
    /\ Return("noCycle", {})

\* The search gave up: after an early verdict everything is done again with
\* all rounds, from new buffers, and a new choice of fine rounds.
GivesUp ==
    /\ pc = "search" /\ ~cancel
    /\ rounds = Rounds
    /\ Return("inconclusive", {})

TrimAgain ==
    /\ pc = "search" /\ ~cancel
    /\ rounds < Rounds
    /\ rounds' = Rounds
    /\ pc' = "round"
    /\ round' = 0 /\ start' = Edges /\ edges' = Edges
    /\ nodes' = {} /\ backup' = {} /\ arena' = NoEdges /\ compact' = FALSE
    /\ overflow' = FALSE /\ destroyed' = FALSE /\ survivors' = {}
    /\ UNCHANGED <<ends, mode, batch, part, outcome, proof, cancel>>

\* Everywhere else the host looks at the flag.
Cancelled ==
    /\ \/ pc = "round" /\ round < rounds
       \/ pc = "mark" /\ part > 0
       \/ pc = "trim" /\ ~(mode = "slean" /\ part = 1)
       \/ pc \in {"finish", "report", "search"}
    /\ cancel
    /\ Return("cancelled", {})

\* A device operation, an allocation or the peeling fails.
Fails ==
    /\ pc # "done"
    /\ Return("error", {})

\* The coordinator raises the flag; nobody takes it down.
Cancel ==
    /\ pc # "done" /\ ~cancel
    /\ cancel' = TRUE
    /\ UNCHANGED <<requestVars, round, start, pc, batch, part, bufferVars, verdictVars>>

Returned == pc = "done" /\ UNCHANGED vars

Next ==
    \/ BeginDense \/ TrimResident \/ FinishDense
    \/ \E a \in Clipped(Scattered(part), Capacity) : MarkPart(a) \/ TrimChunk(a)
    \/ part > 0 /\ \E a \in Clipped(Scattered(part - 1), Capacity) : TrimEarlier(a)
    \/ BeginLean \/ TrimLean \/ Report
    \/ Seed \/ TrimFixed \/ FixedFails \/ TrimCsr \/ FineCancelled
    \/ ReadFine \/ ReadBitmap \/ Peel
    \/ FindsCycle \/ FindsNothing \/ GivesUp \/ TrimAgain
    \/ Cancelled \/ Fails \/ Cancel \/ Returned

Spec == Init /\ [][Next]_vars

-----------------------------------------------------------------------------
(* Correctness *)

\* TrimContract, by what the completed rounds left.
Contract == INSTANCE TrimContract WITH survivors <- start, sound <- TRUE

\* Whatever was scattered, dropped, killed too early or restored in between:
\* a round leaves exactly the edges with a mate, and a second trim starts
\* from all edges.
TrimsExactly == Contract!Spec

\* The survivors of the last round are where the next step reads them: in
\* the bitmap, in the right buckets of the arena, or at the host, and however
\* the rounds were done, the arena it reads is compact.
SurvivorsAreRead ==
    /\ pc \in {"round", "lean", "report", "seed"} /\ ~destroyed => edges = start
    /\ pc \in {"fine", "csr"} => arena = Sorted(ends, start, Side, Buckets(Nodes))
    /\ pc = "peel" => survivors = start

\* Once the dense buffers are destroyed no dense or lean kernel runs: a fine
\* transition that was cancelled returns to the loop of dense and lean rounds,
\* which must then stop.
DestroyedIsOver ==
    /\ destroyed => pc \notin {"mark", "trim", "finish", "lean", "report", "seed"}
    /\ destroyed /\ pc = "round" => cancel

\* A negative verdict is about the whole graph, also when it is early.
NoCycleIsRight ==
    outcome = "noCycle" => Cycles(ends, Edges, CycleLength) = {}
=============================================================================
