-------------------------- MODULE MetalTrimProofs --------------------------
(***************************************************************************)
(* The Metal solver implements TrimContract and says "no cycle" only when  *)
(* there is none, for every graph, every way to deal its edges into parts, *)
(* and all capacities.                                                     *)
(***************************************************************************)
EXTENDS MetalTrim, GraphProofs

TrimType ==
    /\ ends \in Graphs(Edges, Nodes)
    /\ round \in 0..Rounds /\ batch \in 0..Rounds /\ part \in 0..(Parts - 1)
    /\ start \in SUBSET Edges /\ edges \in SUBSET Edges
    /\ arena \in [Buckets(Nodes) -> SUBSET Edges]
    /\ capacity \in Nat /\ overflow \in BOOLEAN
    /\ pc \in {"round", "mark", "trim", "check", "transition", "batch", "pingpong",
               "read", "peel", "search", "done"}

\* Where the solver stands among its rounds.
ControlInv ==
    /\ pc \in {"mark", "trim", "transition"} => round < Rounds
    /\ pc = "pingpong" => round < batch

\* Where nothing could have overflowed, because the count was read before.
CleanInv ==
    pc \in {"round", "transition", "read", "peel", "search"} => ~overflow

\* An arena with all these edges, sorted for this round.
Arena(S) == Sorted(ends, S, Side, Buckets(Nodes))

\* As long as nothing has overflowed: what the buffers hold of the edges this
\* round started from.  The parts are marked upwards and trimmed downwards.
BuffersInv ==
    ~overflow =>
       /\ pc \in {"round", "mark", "check", "transition", "read"} => edges = start
       /\ pc = "mark" => nodes = Marks(ends, {e \in start : PartOf[e] < part}, Side)
       /\ pc = "trim" =>
             /\ nodes = Marks(ends, start, Side)
             /\ edges = {e \in start : PartOf[e] > part => HasMate(ends, start, e, Side)}
             /\ part = Parts - 1 => arena = Arena({e \in start : PartOf[e] = part})
       /\ pc \in {"batch", "pingpong"} =>
             IF round < Rounds THEN arena = Arena(start) ELSE edges = start
       /\ pc = "peel" => survivors = start
       /\ pc = "search" => survivors = Core(ends, start)

\* No cycle is lost, whatever has overflowed: start is what a sound round left.
KeptInv == \A C \in SUBSET Edges : Closed(ends, C) => C \subseteq start

OutcomeInv ==
    /\ outcome \in {"proof", "noCycle"} => pc = "done" /\ ~overflow
    /\ outcome = "noCycle" => Cycles(ends, Edges, CycleLength) = {}

TrimInv == TrimType /\ ControlInv /\ CleanInv /\ BuffersInv /\ KeptInv /\ OutcomeInv

\* What a step does to the edges a sound round left: nothing, or a round.
RoundStep ==
    /\ ends' = ends
    /\ overflow => overflow'
    /\ \/ start' = start /\ (round' = round \/ overflow')
       \/ ~overflow' /\ start' = TrimSide(ends, start, Side) /\ round' = round + 1

-----------------------------------------------------------------------------

LEMMA SideType == ASSUME TrimType PROVE Side \in Sides /\ 1 - Side \in Sides
  BY MetalAssumption DEF TrimType, Side, Sides

LEMMA NextSide == ASSUME TrimType, round' = round + 1 PROVE Side' = 1 - Side
  BY MetalAssumption DEF TrimType, Side

\* An average bucket exists, and is a number.
LEMMA AverageType == ASSUME TrimType PROVE AverageBucket \in Nat
<1>1. IsFiniteSet(edges) /\ Cardinality(edges) \in Nat
  BY MetalAssumption, FS_Subset, FS_CardinalityType DEF TrimType
<1> DEFINE bucket == [n \in Nodes |-> Bucket(n)]
<1>2. IsFiniteSet(Buckets(Nodes)) /\ Buckets(Nodes) # {}
  <2>1. bucket \in Surjection(Nodes, Buckets(Nodes))
    BY DEF Surjection, Buckets
  <2> QED
    BY <2>1, FS_Surjection, MetalAssumption DEF Buckets
<1>3. Cardinality(Buckets(Nodes)) \in Nat \ {0}
  BY <1>2, FS_CardinalityType, FS_EmptySet
<1> QED
  BY <1>1, <1>3 DEF AverageBucket

-----------------------------------------------------------------------------
(* Dense rounds *)

\* The part that is scattered next, as long as nothing of it was trimmed.
LEMMA ScatteredType ==
    ASSUME TrimType
    PROVE  /\ Scattered(part) \in [Buckets(Nodes) -> SUBSET Edges]
           /\ Held(Scattered(part)) = {e \in edges : PartOf[e] = part}
<1> DEFINE live == {e \in edges : PartOf[e] = part}
<1>1. live \in SUBSET Edges
  BY DEF TrimType
<1>2. ends \in Graphs(Edges, Nodes) /\ Side \in Sides
  BY SideType DEF TrimType
<1> HIDE DEF live
<1>3. Sorted(ends, live, Side, Buckets(Nodes)) \in [Buckets(Nodes) -> SUBSET Edges]
  BY <1>1, SortedType
<1>4. Held(Sorted(ends, live, Side, Buckets(Nodes))) = live
  BY <1>1, <1>2, SortedHolds
<1> QED
  BY <1>3, <1>4 DEF Scattered, live

LEMMA BeginDenseKept == ASSUME TrimInv, BeginDense PROVE TrimInv' /\ RoundStep
<1>1. Marks(ends, {e \in start : PartOf[e] < 0}, Side) = {}
  BY MetalAssumption DEF Marks, TrimInv, TrimType
<1>2. TrimType' /\ ControlInv'
  <2>1. part' \in 0..(Parts - 1)
    BY MetalAssumption DEF BeginDense
  <2>2. overflow' \in BOOLEAN
    BY Zenon DEF BeginDense
  <2>3. round < Rounds
    BY MetalAssumption DEF BeginDense, Dense, Least, TrimInv, TrimType
  <2> QED
    BY <2>1, <2>2, <2>3 DEF BeginDense, TrimInv, TrimType, ControlInv
<1>4. CleanInv' /\ KeptInv' /\ RoundStep
  BY DEF BeginDense, TrimInv, CleanInv, KeptInv, RoundStep
<1>3. BuffersInv' /\ OutcomeInv'
  BY <1>1 DEF BeginDense, verdictVars, TrimInv, BuffersInv, CleanInv, OutcomeInv, Side, Marks
<1> QED
  BY <1>2, <1>3, <1>4 DEF TrimInv

LEMMA MarkPartKept ==
    ASSUME TrimInv, NEW a \in Clipped(Scattered(part), Capacity), MarkPart(a)
    PROVE  TrimInv' /\ RoundStep
<1>1. a \in [Buckets(Nodes) -> SUBSET Edges]
  BY ScatteredType, ClippedType DEF TrimInv
<1>2. TrimType'
  <2>1. part' \in 0..(Parts - 1)
    BY MetalAssumption DEF MarkPart, TrimInv, TrimType
  <2>2. arena' \in [Buckets(Nodes) -> SUBSET Edges] /\ overflow' \in BOOLEAN
    BY <1>1 DEF MarkPart, TrimInv, TrimType, NoEdges, Cleared
  <2> QED
    BY <2>1, <2>2 DEF MarkPart, TrimInv, TrimType
<1>3. ControlInv' /\ CleanInv' /\ KeptInv' /\ OutcomeInv' /\ RoundStep
  BY DEF MarkPart, verdictVars, TrimInv, ControlInv, CleanInv, KeptInv, OutcomeInv, RoundStep
<1>4. ASSUME ~overflow' PROVE BuffersInv'
  <2>1. ~overflow /\ ~Overflows(Scattered(part), Capacity) /\ pc = "mark" /\ edges = start
    BY <1>4 DEF MarkPart, TrimInv, BuffersInv
  <2>2. a = Scattered(part)
    BY <2>1, ScatteredType, ClippedExact, MetalAssumption DEF TrimInv
  <2>3. Held(a) = {e \in start : PartOf[e] = part}
    BY <2>1, <2>2, ScatteredType DEF TrimInv
  <2>4. nodes' = Marks(ends, {e \in start : PartOf[e] < part + 1}, Side)
    <3>1. nodes' = Marks(ends, {e \in start : PartOf[e] < part}, Side)
                     \union Marks(ends, {e \in start : PartOf[e] = part}, Side)
      BY <2>1, <2>3 DEF MarkPart, Marked, TrimInv, BuffersInv
    <3>2. \A e \in start : PartOf[e] < part + 1 <=> PartOf[e] < part \/ PartOf[e] = part
      BY MetalAssumption DEF TrimInv, TrimType
    <3> QED
      BY <3>1, <3>2 DEF Marks
  <2>5. UNCHANGED <<ends, start, edges, round, survivors>> /\ Side' = Side
    BY DEF MarkPart, verdictVars, Side
  <2>6. CASE part = Parts - 1
    <3>1. \A e \in start : PartOf[e] < part + 1 /\ ~(PartOf[e] > part)
      BY <2>6, MetalAssumption DEF TrimInv, TrimType
    <3>2. nodes' = Marks(ends, start, Side)
      BY <2>4, <3>1 DEF Marks
    <3>3. edges = {e \in start : PartOf[e] > part => HasMate(ends, start, e, Side)}
      BY <2>1, <3>1
    <3>4. arena' = Arena({e \in start : PartOf[e] = part}) /\ part' = part /\ pc' = "trim"
      BY <2>1, <2>2, <2>6 DEF MarkPart, Arena, Scattered
    <3> QED
      BY <2>5, <3>2, <3>3, <3>4 DEF BuffersInv, Arena
  <2>7. CASE part # Parts - 1
    BY <2>1, <2>4, <2>5, <2>7 DEF BuffersInv, MarkPart
  <2> QED
    BY <2>6, <2>7
<1>5. ASSUME overflow' PROVE BuffersInv'
  BY <1>5 DEF BuffersInv
<1> QED
  BY <1>2, <1>3, <1>4, <1>5 DEF TrimInv

LEMMA TrimPartKept ==
    ASSUME TrimInv, NEW a \in Resident, TrimPart(a)
    PROVE  TrimInv' /\ RoundStep
<1>1. PICK dead \in Fitting(Dying(a), DeadCapacity) : edges' = edges \ dead
  BY DEF TrimPart
<1>2. edges' \in SUBSET Edges /\ NoEdges \in [Buckets(Nodes) -> SUBSET Edges]
  BY <1>1 DEF TrimInv, TrimType, NoEdges, Cleared
<1>3. ASSUME ~overflow'
      PROVE  /\ ~overflow /\ nodes = Marks(ends, start, Side)
             /\ edges' = {e \in start : PartOf[e] > part - 1 => HasMate(ends, start, e, Side)}
  <2>1. /\ ~overflow /\ pc = "trim" /\ ~(Cardinality(Dying(a)) > DeadCapacity)
        /\ nodes = Marks(ends, start, Side)
        /\ edges = {e \in start : PartOf[e] > part => HasMate(ends, start, e, Side)}
    BY <1>3 DEF TrimPart, TrimInv, BuffersInv
  <2>2. {e \in edges : PartOf[e] = part} = {e \in start : PartOf[e] = part}
    BY <2>1, MetalAssumption DEF TrimInv, TrimType
  <2>3. Held(a) = {e \in start : PartOf[e] = part}
    <3>1. CASE part = Parts - 1
      <4>1. a = Arena({e \in start : PartOf[e] = part})
        BY <2>1, <3>1 DEF Resident, TrimInv, BuffersInv
      <4>2. ends \in Graphs(Edges, Nodes) /\ Side \in Sides /\ start \in SUBSET Edges
        BY SideType DEF TrimInv, TrimType
      <4> QED
        BY <4>1, <4>2, SortedHolds DEF Arena
    <3>2. CASE part # Parts - 1
      <4>1. ~Overflows(Scattered(part), Capacity)
        BY <1>3, <3>2, MetalAssumption DEF TrimPart, TrimInv, TrimType
      <4>2. a = Scattered(part)
        BY <3>2, <4>1, ScatteredType, ClippedExact, MetalAssumption DEF Resident, TrimInv
      <4> QED
        BY <2>2, <4>2, ScatteredType DEF TrimInv
    <3> QED
      BY <3>1, <3>2
  <2>4. Dying(a) = {e \in start : PartOf[e] = part /\ ~HasMate(ends, start, e, Side)}
    BY <2>1, <2>3 DEF Dying, Unmated, Marks, HasMate, Meets
  <2>5. dead = Dying(a)
    <3>1. IsFiniteSet(Dying(a))
      BY <2>4, MetalAssumption, FS_Subset DEF TrimInv, TrimType
    <3>2. Cardinality(Dying(a)) \in Nat
      BY <3>1, FS_CardinalityType
    <3> QED
      BY <1>1, <2>1, <3>2, MetalAssumption DEF Fitting
  <2>6. \A e \in start : PartOf[e] > part - 1 <=> PartOf[e] > part \/ PartOf[e] = part
    BY MetalAssumption DEF TrimInv, TrimType
  <2> QED
    BY <1>1, <2>1, <2>4, <2>5, <2>6
<1>4. CASE part = 0
  <2>1. ~overflow' => edges' = TrimSide(ends, start, Side)
    <3>1. \A e \in start : PartOf[e] > part - 1
      BY <1>4, MetalAssumption DEF TrimInv, TrimType
    <3> QED
      BY <1>3, <3>1 DEF TrimSide
  <2>2. /\ start' = (IF overflow' THEN start ELSE edges') /\ round' = round + 1 /\ pc' = "check"
        /\ part' = part
    BY <1>4 DEF TrimPart, RoundDone
  <2>3. RoundStep
    BY <1>3, <2>1, <2>2 DEF RoundStep, TrimPart
  <2>4. TrimType'
    BY <1>2, <2>2, MetalAssumption DEF TrimPart, verdictVars, TrimInv, TrimType, ControlInv
  <2>5. KeptInv'
    <3>1. SUFFICES ASSUME ~overflow', NEW C \in SUBSET Edges, Closed(ends, C) PROVE C \subseteq edges'
      BY <2>2 DEF KeptInv, TrimInv, TrimPart
    <3> QED
      BY <2>1, <3>1, SideType, TrimKeepsClosed DEF KeptInv, TrimInv
  <2>6. ControlInv' /\ CleanInv' /\ BuffersInv' /\ OutcomeInv'
    BY <2>2 DEF TrimPart, verdictVars, TrimInv, ControlInv, CleanInv, BuffersInv, OutcomeInv
  <2> QED
    BY <2>3, <2>4, <2>5, <2>6 DEF TrimInv
<1>5. CASE part # 0
  <2>1. UNCHANGED <<ends, round, start, batch, nodes, capacity, survivors, outcome, pc>>
        /\ part' = part - 1 /\ pc = "trim" /\ arena' = NoEdges
    BY <1>5 DEF TrimPart, verdictVars
  <2>2. TrimType'
    BY <1>2, <1>5, <2>1, MetalAssumption DEF TrimPart, TrimInv, TrimType
  <2>3. BuffersInv'
    <3>1. part' # Parts - 1
      BY <2>1, MetalAssumption DEF TrimInv, TrimType
    <3> QED
      BY <1>3, <2>1, <3>1 DEF BuffersInv, Side
  <2>4. ControlInv' /\ CleanInv' /\ KeptInv' /\ OutcomeInv' /\ RoundStep
    BY <2>1, <1>3 DEF TrimInv, ControlInv, CleanInv, KeptInv, OutcomeInv, RoundStep
  <2> QED
    BY <2>2, <2>3, <2>4 DEF TrimInv
<1> QED
  BY <1>4, <1>5

LEMMA CheckDenseKept == ASSUME TrimInv, CheckDense PROVE TrimInv' /\ RoundStep
<1>1. TrimType' /\ ControlInv' /\ CleanInv' /\ KeptInv' /\ RoundStep
  BY MetalAssumption DEF CheckDense, Dismiss, TrimInv, TrimType, ControlInv, CleanInv, KeptInv, RoundStep, Dense, Least
<1>2. BuffersInv' /\ OutcomeInv'
  BY DEF CheckDense, Dismiss, TrimInv, BuffersInv, OutcomeInv, Side
<1> QED
  BY <1>1, <1>2 DEF TrimInv

-----------------------------------------------------------------------------
(* Rounds from arena to arena *)

LEMMA TransitionKept == ASSUME TrimInv, Transition PROVE TrimInv' /\ RoundStep
<1> DEFINE seed == Sorted(ends, edges, Side, Buckets(Nodes))
<1>1. ~overflow /\ edges = start /\ round < Rounds /\ pc = "transition"
  BY DEF Transition, TrimInv, CleanInv, BuffersInv, ControlInv
<1>2. ends \in Graphs(Edges, Nodes) /\ Side \in Sides /\ edges \in SUBSET Edges
  BY SideType DEF TrimInv, TrimType
<1>3. seed \in [Buckets(Nodes) -> SUBSET Edges]
  BY <1>2, SortedType
<1>4. capacity' \in Nat
  BY MetalAssumption, AverageType DEF Transition, TrimInv
<1>5. UNCHANGED <<ends, round, start, batch, part>> /\ Side' = Side
  BY DEF Transition, Side
<1> HIDE DEF seed
<1>6. CASE Overflows(seed, capacity')
  <2>1. pc' = "done" /\ outcome' = "inconclusive" /\ overflow' = TRUE /\ UNCHANGED <<arena, edges>>
    BY <1>6 DEF Transition, seed
  <2> QED
    BY <1>4, <1>5, <2>1 DEF TrimInv, TrimType, ControlInv, CleanInv, BuffersInv, KeptInv,
       OutcomeInv, RoundStep
<1>7. CASE ~Overflows(seed, capacity')
  <2>1. arena' = seed /\ edges' = {} /\ pc' = "batch" /\ UNCHANGED <<outcome, overflow>>
    BY <1>7 DEF Transition, seed
  <2>2. arena' = Arena(start)
    BY <1>1, <2>1 DEF seed, Arena
  <2>3. TrimType'
    BY <1>3, <1>4, <1>5, <2>1 DEF TrimInv, TrimType
  <2>4. BuffersInv'
    BY <1>1, <1>5, <2>1, <2>2 DEF BuffersInv, Arena
  <2> QED
    BY <1>1, <1>5, <2>1, <2>3, <2>4 DEF TrimInv, ControlInv, CleanInv, KeptInv, OutcomeInv,
       RoundStep
<1> QED
  BY <1>6, <1>7

LEMMA BeginBatchKept == ASSUME TrimInv, BeginBatch PROVE TrimInv' /\ RoundStep
<1>1. batch' \in 0..Rounds /\ round < batch'
  BY MetalAssumption DEF BeginBatch, Least, TrimInv, TrimType
<1>2. BuffersInv'
  BY DEF BeginBatch, verdictVars, TrimInv, BuffersInv, Arena, Side
<1> QED
  BY <1>1, <1>2 DEF BeginBatch, verdictVars, TrimInv, TrimType, ControlInv, CleanInv, KeptInv,
     OutcomeInv, RoundStep

\* The arena this round leaves, with room for all of it.
LEMMA TrimmedType == ASSUME TrimType PROVE Trimmed \in [Buckets(Nodes) -> SUBSET Edges]
  BY DEF TrimType, Trimmed, NextArena, Sorted, InBucket, MatedInBucket

LEMMA PingPongKept ==
    ASSUME TrimInv, NEW a \in Clipped(Trimmed, capacity), PingPong(a)
    PROVE  TrimInv' /\ RoundStep
<1> DEFINE kept == TrimSide(ends, start, Side)
<1>1. a \in [Buckets(Nodes) -> SUBSET Edges] /\ Held(a) \in SUBSET Edges
  BY TrimmedType, ClippedType DEF TrimInv
<1>2. /\ pc = "pingpong" /\ round + 1 < Rounds /\ round < batch /\ round' = round + 1
      /\ arena' = a /\ start' = (IF overflow' THEN start ELSE Held(a))
      /\ pc' = (IF round' = batch THEN "batch" ELSE "pingpong")
      /\ UNCHANGED <<ends, batch, part, edges, nodes, capacity, survivors, outcome>>
  BY DEF PingPong, RoundDone, verdictVars, TrimInv, ControlInv
<1>3. Side' = 1 - Side
  BY <1>2, NextSide DEF TrimInv
<1>4. ends \in Graphs(Edges, Nodes) /\ Side \in Sides /\ 1 - Side \in Sides
      /\ start \in SUBSET Edges /\ kept \in SUBSET Edges
  BY SideType DEF TrimInv, TrimType, TrimSide
<1> HIDE DEF kept
<1>5. ASSUME ~overflow'
      PROVE  ~overflow /\ arena' = Sorted(ends, kept, 1 - Side, Buckets(Nodes)) /\ Held(a) = kept
  <2>1. ~overflow /\ ~Overflows(Trimmed, capacity)
    BY <1>5 DEF PingPong
  <2>2. arena = Sorted(ends, start, Side, Buckets(Nodes))
    <3>1. round < Rounds
      BY <1>2, MetalAssumption DEF TrimInv, TrimType
    <3> QED
      BY <1>2, <2>1, <3>1 DEF TrimInv, BuffersInv, Arena
  <2>3. Trimmed = Sorted(ends, kept, 1 - Side, Buckets(Nodes))
    BY <1>4, <2>2, NextArenaTrims, MetalAssumption DEF Trimmed, kept
  <2>4. capacity \in Nat /\ IsFiniteSet(Edges)
    BY MetalAssumption DEF TrimInv, TrimType
  <2>5. a = Trimmed
    BY <2>1, <2>4, TrimmedType, ClippedExact DEF TrimInv
  <2>6. Held(Sorted(ends, kept, 1 - Side, Buckets(Nodes))) = kept
    BY <1>4, SortedHolds
  <2> QED
    BY <1>2, <2>1, <2>3, <2>5, <2>6
<1>6. RoundStep
  BY <1>2, <1>5 DEF RoundStep, PingPong, kept
<1>7. TrimType'
  <2>1. start' \in SUBSET Edges /\ overflow' \in BOOLEAN
    BY <1>1, <1>2, <1>4 DEF PingPong, TrimInv, TrimType
  <2>2. round' \in 0..Rounds
    BY <1>2, MetalAssumption DEF TrimInv, TrimType
  <2> QED
    BY <1>1, <1>2, <2>1, <2>2 DEF TrimInv, TrimType
<1>8. ControlInv' /\ CleanInv'
  BY <1>2, MetalAssumption DEF TrimInv, TrimType, ControlInv, CleanInv
<1>9. BuffersInv' /\ OutcomeInv'
  BY <1>2, <1>3, <1>5 DEF TrimInv, BuffersInv, OutcomeInv, Arena
<1>10. KeptInv'
  <2>1. SUFFICES ASSUME ~overflow', NEW C \in SUBSET Edges, Closed(ends, C) PROVE C \subseteq Held(a)
    BY <1>2 DEF KeptInv, TrimInv
  <2> QED
    BY <1>4, <1>5, <2>1, TrimKeepsClosed DEF KeptInv, TrimInv, kept
<1> QED
  BY <1>6, <1>7, <1>8, <1>9, <1>10 DEF TrimInv

LEMMA LastRoundKept == ASSUME TrimInv, LastRound PROVE TrimInv' /\ RoundStep
<1>1. /\ pc = "pingpong" /\ round + 1 = Rounds /\ round' = Rounds /\ pc' = "batch"
      /\ edges' = Held(arena) \ Unmated(ends, Held(arena), Side, Marks(ends, Held(arena), Side))
      /\ start' = (IF overflow THEN start ELSE edges')
      /\ UNCHANGED <<ends, batch, part, arena, capacity, survivors, outcome, overflow>>
  BY MetalAssumption DEF LastRound, RoundDone, Marked, verdictVars, TrimInv, TrimType
<1>2. edges' = TrimSide(ends, Held(arena), Side)
  BY <1>1, LeanRoundTrims DEF LeanRound
<1>3. edges' \in SUBSET Edges
  BY <1>2 DEF TrimSide, Held, TrimInv, TrimType
<1>4. ends \in Graphs(Edges, Nodes) /\ Side \in Sides /\ start \in SUBSET Edges
  BY SideType DEF TrimInv, TrimType
<1>5. ASSUME ~overflow PROVE edges' = TrimSide(ends, start, Side)
  <2>1. round < Rounds
    BY <1>1, MetalAssumption DEF TrimInv, TrimType
  <2>2. arena = Sorted(ends, start, Side, Buckets(Nodes))
    BY <1>1, <1>5, <2>1 DEF TrimInv, BuffersInv, Arena
  <2>3. Held(arena) = start
    BY <1>4, <2>2, SortedHolds
  <2> QED
    BY <1>2, <2>3
<1>6. RoundStep
  BY <1>1, <1>5 DEF RoundStep
<1>7. TrimType' /\ ControlInv' /\ CleanInv'
  BY <1>1, <1>3, MetalAssumption DEF TrimInv, TrimType, ControlInv, CleanInv
<1>8. BuffersInv' /\ OutcomeInv'
  BY <1>1, MetalAssumption DEF TrimInv, BuffersInv, OutcomeInv
<1>9. KeptInv'
  <2>1. SUFFICES ASSUME ~overflow, NEW C \in SUBSET Edges, Closed(ends, C) PROVE C \subseteq edges'
    BY <1>1 DEF KeptInv, TrimInv
  <2> QED
    BY <1>4, <1>5, <2>1, TrimKeepsClosed DEF KeptInv, TrimInv
<1> QED
  BY <1>6, <1>7, <1>8, <1>9 DEF TrimInv

LEMMA CheckBatchesKept == ASSUME TrimInv, CheckBatches PROVE TrimInv' /\ RoundStep
<1>1. BuffersInv' /\ OutcomeInv'
  BY MetalAssumption DEF CheckBatches, Dismiss, TrimInv, TrimType, BuffersInv, OutcomeInv
<1> QED
  BY <1>1 DEF CheckBatches, Dismiss, TrimInv, TrimType, ControlInv, CleanInv, KeptInv, RoundStep

-----------------------------------------------------------------------------
(* Verdict *)

LEMMA VerdictKept ==
    ASSUME TrimInv, \/ ReadBitmap \/ Peel \/ FindsCycle \/ FindsNothing \/ GivesUp
                    \/ Cancelled \/ Fails \/ Cancel \/ UNCHANGED vars
    PROVE  TrimInv' /\ RoundStep
<1>1. UNCHANGED <<ends, round, start, batch, part, edges, nodes, arena, capacity, overflow>>
  BY DEF ReadBitmap, Peel, FindsCycle, FindsNothing, GivesUp, Cancelled, Fails, Cancel, Return,
     verdictVars, vars
<1>2. \/ pc' = pc
      \/ pc = "read" /\ pc' = "peel"
      \/ pc = "peel" /\ pc' = "search"
      \/ pc' = "done"
  BY DEF ReadBitmap, Peel, FindsCycle, FindsNothing, GivesUp, Cancelled, Fails, Cancel, Return,
     verdictVars, vars
<1>3. TrimType' /\ ControlInv' /\ CleanInv' /\ KeptInv' /\ RoundStep
  BY <1>1, <1>2 DEF TrimInv, TrimType, ControlInv, CleanInv, KeptInv, RoundStep
<1>4. BuffersInv'
  <2>1. CASE ReadBitmap \/ Peel
    BY <1>1, <2>1 DEF ReadBitmap, Peel, TrimInv, BuffersInv
  <2>2. CASE pc' = "done"
    BY <2>2 DEF BuffersInv
  <2>3. CASE UNCHANGED <<pc, survivors>>
    BY <1>1, <2>3 DEF TrimInv, BuffersInv, Arena, Side
  <2> QED
    BY <2>1, <2>2, <2>3 DEF FindsCycle, FindsNothing, GivesUp, Cancelled, Fails, Cancel, Return,
       verdictVars, vars
<1>5. OutcomeInv'
  <2>1. CASE FindsCycle
    BY <1>1, <2>1 DEF FindsCycle, Return, TrimInv, CleanInv, OutcomeInv
  <2>2. CASE FindsNothing
    <3>1. ~overflow /\ pc' = "done" /\ Cycles(ends, Core(ends, start), CycleLength) = {}
      BY <2>2 DEF FindsNothing, Return, TrimInv, CleanInv, BuffersInv
    <3>2. Cycles(ends, Edges, CycleLength) = {}
      BY <3>1, CyclesKept DEF TrimInv, TrimType, KeptInv
    <3> QED
      BY <1>1, <3>1, <3>2 DEF OutcomeInv
  <2>3. CASE GivesUp \/ Cancelled \/ Fails
    BY <2>3 DEF GivesUp, Cancelled, Fails, Return, OutcomeInv
  <2>4. CASE UNCHANGED outcome /\ pc # "done"
    BY <1>1, <2>4 DEF TrimInv, OutcomeInv
  <2>5. CASE UNCHANGED <<pc, outcome>>
    BY <1>1, <2>5 DEF TrimInv, OutcomeInv
  <2> QED
    BY <2>1, <2>2, <2>3, <2>4, <2>5 DEF ReadBitmap, Peel, Cancel, verdictVars, vars
<1> QED
  BY <1>3, <1>4, <1>5 DEF TrimInv

-----------------------------------------------------------------------------

LEMMA InitTrim == Init => TrimInv
<1> SUFFICES ASSUME Init PROVE TrimInv
  OBVIOUS
<1>1. NoEdges \in [Buckets(Nodes) -> SUBSET Edges]
  BY DEF NoEdges, Cleared
<1>2. overflow \in BOOLEAN
  BY Zenon DEF Init
<1>3. TrimType
  BY <1>1, <1>2, MetalAssumption DEF Init, TrimType
<1>4. ControlInv /\ CleanInv /\ BuffersInv /\ KeptInv /\ OutcomeInv
  BY DEF Init, ControlInv, CleanInv, BuffersInv, KeptInv, OutcomeInv
<1> QED
  BY <1>3, <1>4 DEF TrimInv

LEMMA NextTrim == ASSUME TrimInv, [Next]_vars PROVE TrimInv' /\ RoundStep
  BY BeginDenseKept, MarkPartKept, TrimPartKept, CheckDenseKept, TransitionKept, BeginBatchKept,
     PingPongKept, LastRoundKept, CheckBatchesKept, VerdictKept DEF Next, Returned

\* Of the edges a round works on, what the buffers hold at each step, unless
\* something has overflowed.
THEOREM TrimInvariant == Spec => []TrimInv
<1>1. TrimInv /\ [Next]_vars => TrimInv'
  BY NextTrim
<1> QED
  BY <1>1, InitTrim, PTL DEF Spec

\* Nothing that overflowed leads to a verdict, the search looks at what the
\* rounds left, and "no cycle" is about the whole graph.
THEOREM VerdictIsSoundAlways == Spec => []VerdictIsSound
<1>1. TrimInv => VerdictIsSound
  BY DEF TrimInv, CleanInv, BuffersInv, OutcomeInv, VerdictIsSound
<1> QED
  BY <1>1, TrimInvariant, PTL

\* The rounds implement TrimContract: parts, clipped arenas and rounds that went
\* on after an overflow leave, as long as nothing has overflowed, exactly the
\* edges with a mate, and an overflow is not forgotten.
THEOREM ImplementsContract == Spec => TrimsExactly
<1>1. Init => Contract!Init
  BY DEF Init, Contract!Init
<1>2. ASSUME TrimInv, [Next]_vars PROVE [Contract!Next]_(Contract!vars)
  <2>1. RoundStep /\ overflow \in BOOLEAN /\ overflow' \in BOOLEAN
    BY <1>2, NextTrim DEF TrimInv, TrimType
  <2>2. CASE overflow'
    BY <2>1, <2>2 DEF RoundStep, Contract!Next
  <2>3. CASE ~overflow' /\ start' = start /\ round' = round
    BY <2>1, <2>3 DEF RoundStep, Contract!vars
  <2>4. CASE ~overflow' /\ start' = TrimSide(ends, start, Side) /\ round' = round + 1
    <3>1. TrimSide(ends, start, Side) = Contract!TrimSide(ends, start, round % 2)
      BY DEF TrimSide, HasMate, Meets, Mate, Side, Contract!TrimSide, Contract!HasMate,
             Contract!Meets, Contract!Mate
    <3> QED
      BY <2>1, <2>4, <3>1 DEF RoundStep, Contract!Next, Contract!Trim
  <2> QED
    BY <2>1, <2>2, <2>3, <2>4 DEF RoundStep
<1> QED
  BY <1>1, <1>2, TrimInvariant, PTL DEF Spec, TrimsExactly, Contract!Spec
=============================================================================
