----------------------------- MODULE MetalTrim -----------------------------
(***************************************************************************)
(* The native Metal solver of src/solver/gpu_metal.rs on one nonce: up to  *)
(* three dense rounds, part by part through arenas of limited capacity,    *)
(* then rounds that trim from one arena into another, the last of them back*)
(* into the bitmap.  There is no fallback: whatever overflowed is counted, *)
(* the rounds run on with what did fit, and the host, which reads the count*)
(* only at the end of a dense round or of all the others, throws the result*)
(* away.  The flag is looked at before each command buffer.                *)
(***************************************************************************)
EXTENDS TrimKernels

CONSTANTS
    Edges, Nodes, Inputs, CycleLength,
    Parts, PartOf,
    Capacity,       \* slots of a bucket in a dense round
    DeadCapacity,   \* slots for the dead edges of a part
    Slack,          \* margin of the arenas that follow the dense rounds
    DenseLimit,     \* dense rounds at most (3)
    BatchRounds,    \* ROUNDS_PER_COMMAND_BUFFER
    Rounds

ASSUME MetalAssumption ==
    /\ Nodes \subseteq Nat /\ Nodes # {} /\ IsFiniteSet(Edges) /\ IsFiniteSet(Nodes)
    /\ \A node \in Nodes : Mate(node) \in Nodes
    /\ Inputs \subseteq Graphs(Edges, Nodes)
    /\ Parts \in Nat \ {0}
    /\ PartOf \in [Edges -> 0..(Parts - 1)]
    /\ {Capacity, DeadCapacity, Slack, CycleLength} \subseteq Nat
    /\ {DenseLimit, BatchRounds, Rounds} \subseteq Nat \ {0}

VARIABLES
    ends,
    round,      \* rounds done
    start,      \* what the last round left that lost nothing
    pc,
    batch,      \* where the command buffer ends
    part,       \* parts done in this phase
    edges, nodes, arena,    \* buffers; arena is the one read next
    capacity,   \* slots of a bucket after the dense rounds
    overflow,   \* the overflow count is not zero
    survivors,  \* what the host read back
    cancel, outcome, proof

verdictVars == <<survivors, outcome, proof>>
vars == <<ends, round, start, pc, batch, part, edges, nodes, arena, capacity,
          overflow, survivors, cancel, outcome, proof>>

Least(m, n) == IF m <= n THEN m ELSE n

Side == round % 2

Dense == Least(Rounds, DenseLimit)

NoEdges == Cleared(Buckets(Nodes))

Init ==
    /\ ends \in Inputs
    /\ round = 0 /\ start = Edges
    /\ pc = "round"
    /\ batch = 0 /\ part = 0
    /\ edges = Edges
    /\ nodes = {} /\ arena = NoEdges /\ capacity = 0
    /\ overflow = FALSE
    /\ survivors = {} /\ cancel = FALSE
    /\ outcome = "none" /\ proof = {}

\* The round left these edges, if nothing was lost.
RoundDone(left) ==
    /\ start' = IF overflow' THEN start ELSE left
    /\ round' = round + 1

-----------------------------------------------------------------------------
(* Dense rounds *)

BeginDense ==
    /\ pc = "round" /\ round < Dense /\ ~cancel
    /\ nodes' = {} /\ overflow' = FALSE /\ part' = 0
    /\ pc' = "mark"
    /\ UNCHANGED <<ends, round, start, batch, edges, arena, capacity, verdictVars, cancel>>

\* The live edges of a part, sorted by the endpoint of this round's side.
Scattered(p) ==
    Sorted(ends, {e \in edges : PartOf[e] = p}, Side, Buckets(Nodes))

\* What the edges in the arena mark.
Marked(a) == Marks(ends, Held(a), Side)

\* Those of them that nothing marked has a mate for.
Dying(a) == Unmated(ends, Held(a), Side, nodes)

\* The parts are marked from the first to the last, which stays resident.
MarkPart(a) ==
    /\ pc = "mark"
    /\ overflow' = (overflow \/ Overflows(Scattered(part), Capacity))
    /\ nodes' = nodes \union Marked(a)
    /\ arena' = IF part = Parts - 1 THEN a ELSE NoEdges
    /\ part' = IF part = Parts - 1 THEN part ELSE part + 1
    /\ pc' = IF part = Parts - 1 THEN "trim" ELSE "mark"
    /\ UNCHANGED <<ends, round, start, batch, edges, capacity, verdictVars, cancel>>

\* The arenas the trim of this part may work on.
Resident == IF part = Parts - 1 THEN {arena} ELSE Clipped(Scattered(part), Capacity)

\* And are trimmed from the last to the first.  Of the dead edges, those that
\* find a slot die.
TrimPart(a) ==
    /\ pc = "trim"
    /\ overflow' = \/ overflow
                   \/ part < Parts - 1 /\ Overflows(Scattered(part), Capacity)
                   \/ Cardinality(Dying(a)) > DeadCapacity
    /\ \E dead \in Fitting(Dying(a), DeadCapacity) : edges' = edges \ dead
    /\ arena' = NoEdges
    /\ IF part = 0
       THEN RoundDone(edges') /\ pc' = "check" /\ UNCHANGED part
       ELSE part' = part - 1 /\ UNCHANGED <<round, start, pc>>
    /\ UNCHANGED <<ends, batch, nodes, capacity, verdictVars, cancel>>

\* Mutant of Dismiss: an overflow is let pass.
DismissNothing(next) ==
    /\ pc' = next
    /\ UNCHANGED <<outcome, proof>>

\* The overflow count is read: any makes the solve inconclusive.
Dismiss(next) ==
    IF overflow
    THEN pc' = "done" /\ outcome' = "inconclusive" /\ proof' = {}
    ELSE pc' = next /\ UNCHANGED <<outcome, proof>>

CheckDense ==
    /\ pc = "check"
    /\ Dismiss(IF round < Dense THEN "round"
               ELSE IF round < Rounds THEN "transition" ELSE "read")
    /\ UNCHANGED <<ends, round, start, batch, part, edges, nodes, arena, capacity,
                   overflow, survivors, cancel>>

-----------------------------------------------------------------------------
(* Rounds from arena to arena *)

\* Slots for the average bucket and some more.
AverageBucket ==
    (Cardinality(edges) + Cardinality(Buckets(Nodes)) - 1) \div Cardinality(Buckets(Nodes))

\* The bitmap is scattered into one arena for all parts and then cleared, to
\* take the last round's survivors.
Transition ==
    LET seed == Sorted(ends, edges, Side, Buckets(Nodes))
    IN  /\ pc = "transition"
        /\ capacity' = AverageBucket + Slack
        /\ IF Overflows(seed, capacity')
           THEN /\ pc' = "done" /\ outcome' = "inconclusive"
                /\ overflow' = TRUE
                /\ UNCHANGED <<arena, edges>>
           ELSE /\ arena' = seed /\ edges' = {}
                /\ pc' = "batch"
                /\ UNCHANGED <<outcome, overflow>>
        /\ UNCHANGED <<ends, round, start, batch, part, nodes, survivors, cancel, proof>>

BeginBatch ==
    /\ pc = "batch" /\ round < Rounds /\ ~cancel
    /\ batch' = Least(round + BatchRounds, Rounds)
    /\ pc' = "pingpong"
    /\ UNCHANGED <<ends, round, start, part, edges, nodes, arena, capacity, overflow,
                   verdictVars, cancel>>

\* What a round leaves of the arena it reads, for the next side.
Trimmed == NextArena(ends, arena, Side)

\* Mutant of PingPong: the edges go to the buckets of the side they came from.
PingPongSameSide(a) ==
    /\ pc = "pingpong" /\ round + 1 < Rounds
    /\ overflow' = (overflow \/ Overflows(Trimmed, capacity))
    /\ arena' = Sorted(ends, Held(a), Side, DOMAIN arena)
    /\ RoundDone(Held(arena'))
    /\ pc' = IF round' = batch THEN "batch" ELSE "pingpong"
    /\ UNCHANGED <<ends, batch, part, edges, nodes, capacity, verdictVars, cancel>>

PingPong(a) ==
    /\ pc = "pingpong" /\ round + 1 < Rounds
    /\ overflow' = (overflow \/ Overflows(Trimmed, capacity))
    /\ arena' = a
    /\ RoundDone(Held(arena'))
    /\ pc' = IF round' = batch THEN "batch" ELSE "pingpong"
    /\ UNCHANGED <<ends, batch, part, edges, nodes, capacity, verdictVars, cancel>>

\* The last round marks and trims into the bitmap.
LastRound ==
    /\ pc = "pingpong" /\ round + 1 = Rounds
    /\ nodes' = Marked(arena)
    /\ edges' = Held(arena) \ Unmated(ends, Held(arena), Side, nodes')
    /\ UNCHANGED overflow
    /\ RoundDone(edges')
    /\ pc' = "batch"
    /\ UNCHANGED <<ends, batch, part, arena, capacity, verdictVars, cancel>>

CheckBatches ==
    /\ pc = "batch" /\ round = Rounds
    /\ Dismiss("read")
    /\ UNCHANGED <<ends, round, start, batch, part, edges, nodes, arena, capacity,
                   overflow, survivors, cancel>>

-----------------------------------------------------------------------------
(* Verdict *)

ReadBitmap ==
    /\ pc = "read"
    /\ survivors' = edges
    /\ pc' = "peel"
    /\ UNCHANGED <<ends, round, start, batch, part, edges, nodes, arena, capacity,
                   overflow, outcome, proof, cancel>>

\* peel_two_core, by its result.
Peel ==
    /\ pc = "peel"
    /\ survivors' = Core(ends, survivors)
    /\ pc' = "search"
    /\ UNCHANGED <<ends, round, start, batch, part, edges, nodes, arena, capacity,
                   overflow, outcome, proof, cancel>>

Return(result, P) ==
    /\ outcome' = result /\ proof' = P
    /\ pc' = "done"
    /\ UNCHANGED <<ends, round, start, batch, part, edges, nodes, arena, capacity,
                   overflow, survivors, cancel>>

FindsCycle ==
    /\ pc = "search" /\ ~cancel
    /\ \E P \in Cycles(ends, survivors, CycleLength) : Return("proof", P)

FindsNothing ==
    /\ pc = "search" /\ ~cancel
    /\ Cycles(ends, survivors, CycleLength) = {}
    /\ Return("noCycle", {})

GivesUp == pc = "search" /\ ~cancel /\ Return("inconclusive", {})

Cancelled ==
    /\ \/ pc = "round" /\ round < Dense
       \/ pc = "batch" /\ round < Rounds
       \/ pc = "search"
    /\ cancel
    /\ Return("cancelled", {})

\* A command buffer, an allocation or the peeling fails.
Fails == pc # "done" /\ Return("error", {})

Cancel ==
    /\ pc # "done" /\ ~cancel
    /\ cancel' = TRUE
    /\ UNCHANGED <<ends, round, start, pc, batch, part, edges, nodes, arena, capacity,
                   overflow, verdictVars>>

Returned == pc = "done" /\ UNCHANGED vars

Next ==
    \/ BeginDense
    \/ \E a \in Clipped(Scattered(part), Capacity) : MarkPart(a)
    \/ \E a \in Resident : TrimPart(a)
    \/ CheckDense \/ Transition \/ BeginBatch
    \/ \E a \in Clipped(Trimmed, capacity) : PingPong(a)
    \/ LastRound \/ CheckBatches
    \/ ReadBitmap \/ Peel
    \/ FindsCycle \/ FindsNothing \/ GivesUp
    \/ Cancelled \/ Fails \/ Cancel \/ Returned

Spec == Init /\ [][Next]_vars

-----------------------------------------------------------------------------
(* Correctness *)

\* TrimContract, for as long as nothing has overflowed.
Contract == INSTANCE TrimContract WITH survivors <- start, sound <- ~overflow

\* While no bucket has overflowed every round leaves exactly the edges with a
\* mate; and the count of overflows, once it is not zero, is not forgotten
\* when the next command buffer starts with a count of its own.
TrimsExactly == Contract!Spec

\* Nothing that overflowed leads to a verdict, and what is searched is what
\* the last sound round left.
VerdictIsSound ==
    /\ outcome \in {"proof", "noCycle"} => ~overflow
    /\ pc = "peel" => survivors = start
    /\ outcome = "noCycle" => Cycles(ends, Edges, CycleLength) = {}
=============================================================================
