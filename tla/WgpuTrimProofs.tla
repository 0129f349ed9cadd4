--------------------------- MODULE WgpuTrimProofs ---------------------------
(***************************************************************************)
(* The wgpu solver implements TrimContract and says "no cycle" only when   *)
(* there is none, for every graph, every way to deal its edges into parts, *)
(* all capacities and all round limits.                                    *)
(***************************************************************************)
EXTENDS WgpuTrim, GraphProofs

DensePc == {"mark", "trim", "finish"}

TrimType ==
    /\ ends \in Graphs(Edges, Nodes) /\ mode \in {"lean", "bucketed", "slean"}
    /\ rounds \in 1..Rounds /\ round \in 0..rounds /\ batch \in 0..Rounds
    /\ part \in 0..(Parts - 1)
    /\ start \in SUBSET Edges /\ edges \in SUBSET Edges
    /\ arena \in [Buckets(Nodes) -> SUBSET Edges]
    /\ overflow \in BOOLEAN /\ cancel \in BOOLEAN
    /\ pc \in DensePc \union {"round", "lean", "report", "seed", "fine", "csr", "peel",
                              "search", "done"}

\* Where the host stands among its rounds, and when it may read what.
ControlInv ==
    /\ pc \in DensePc => round < rounds /\ mode # "lean"
    /\ pc = "lean" => round < batch /\ batch <= rounds
    /\ pc = "seed" => Fine /\ round = TransitionRound
    /\ pc = "csr" => round < rounds
    /\ pc \in {"fine", "csr"} => destroyed
    /\ pc = "fine" /\ round = rounds => compact
    /\ destroyed =>
          \/ pc \in {"fine", "csr", "peel", "search", "done"}
          \/ pc = "round" /\ cancel /\ round < rounds

\* An arena with all these edges, sorted for this round.
Arena(S) == Sorted(ends, S, Side, Buckets(Nodes))

\* The edges the parts have given up so far: a bucketed round trims its parts
\* in order, a slean round its last one first.
Done(p) == IF mode = "slean" THEN part > 0 /\ (p = Parts - 1 \/ p < part - 1) ELSE p < part

Ongoing == {e \in start : Done(PartOf[e]) => HasMate(ends, start, e, Side)}

OfPart(p) == {e \in start : PartOf[e] = p}

\* What a dense round has in its buffers while nothing of it has overflowed.
DenseInv ==
    ~overflow =>
       /\ pc = "mark" => nodes = Marks(ends, {e \in start : PartOf[e] < part}, Side)
       /\ pc = "trim" =>
             /\ edges = Ongoing
             /\ IF mode = "slean" /\ part = 0
                THEN /\ nodes = Marks(ends, {e \in start : PartOf[e] < Parts - 1}, Side)
                     /\ arena = Arena(OfPart(Parts - 1))
                ELSE nodes = Marks(ends, start, Side)
       /\ pc = "finish" => edges = TrimSide(ends, start, Side)

\* Whether or not it has: no edge with a mate is dead, and a slean round has
\* the edges it began with.
FallbackInv ==
    /\ pc \in {"trim", "finish"} /\ mode = "bucketed" =>
          TrimSide(ends, start, Side) \subseteq edges /\ edges \subseteq start
    /\ pc = "finish" \/ (pc = "trim" /\ part > 0) => (mode = "slean" => backup = start)
    /\ pc = "trim" /\ mode = "slean" /\ part = 0 => edges = start

\* Between rounds.
BuffersInv ==
    /\ round = 0 => start = Edges
    /\ pc \in {"round", "mark", "lean", "report", "seed"} /\ ~destroyed => edges = start
    /\ pc \in {"fine", "csr"} => arena = Arena(start)
    /\ pc = "peel" => survivors = start
    /\ pc = "search" => survivors = Core(ends, start)

\* No cycle is lost.
KeptInv == \A C \in SUBSET Edges : Closed(ends, C) => C \subseteq start

OutcomeInv == outcome = "noCycle" => pc = "done" /\ Cycles(ends, Edges, CycleLength) = {}

TrimInv ==
    TrimType /\ ControlInv /\ DenseInv /\ FallbackInv /\ BuffersInv /\ KeptInv /\ OutcomeInv

\* What a step does to the edges of the round: nothing, a round, or a new start.
RoundStep ==
    /\ ends' = ends
    /\ \/ start' = start /\ round' = round
       \/ start' = TrimSide(ends, start, Side) /\ round' = round + 1
       \/ start' = Edges /\ round' = 0

-----------------------------------------------------------------------------

LEMMA SideType == ASSUME TrimType PROVE Side \in Sides /\ 1 - Side \in Sides
  BY DEF TrimType, Side, Sides

LEMMA NextSide == ASSUME TrimType, round' = round + 1 PROVE Side' = 1 - Side
  BY DEF TrimType, Side

\* A round keeps every closed set.
LEMMA RoundKeeps ==
    ASSUME TrimInv, ends' = ends, start' = TrimSide(ends, start, Side)
    PROVE  KeptInv' /\ start' \in SUBSET Edges
<1>1. start' \in SUBSET Edges
  BY DEF TrimInv, TrimType, TrimSide
<1>2. ASSUME NEW C \in SUBSET Edges, Closed(ends, C) PROVE C \subseteq start'
  <2>1. C \subseteq start /\ Side \in Sides
    BY <1>2, SideType DEF TrimInv, KeptInv
  <2> QED
    BY <1>2, <2>1, TrimKeepsClosed
<1> QED
  BY <1>1, <1>2 DEF KeptInv

\* What lies between a set and its trimming is trimmed to the same.
LEMMA TrimBetween ==
    ASSUME TrimType, NEW S, TrimSide(ends, start, Side) \subseteq S, S \subseteq start
    PROVE  LeanRound(ends, S, Side) = TrimSide(ends, start, Side)
<1>1. ends \in Graphs(Edges, Nodes) /\ Side \in Sides /\ start \in SUBSET Edges
  BY SideType DEF TrimType
<1>2. ASSUME NEW e \in TrimSide(ends, start, Side) PROVE HasMate(ends, S, e, Side)
  <2>1. HasMate(ends, TrimSide(ends, start, Side), e, Side)
    BY <1>1, TrimAgainKeeps, WgpuAssumption
  <2> QED
    BY <2>1 DEF HasMate
<1>3. TrimSide(ends, S, Side) = TrimSide(ends, start, Side)
  BY <1>2 DEF TrimSide, HasMate
<1> QED
  BY <1>3, LeanRoundTrims

-----------------------------------------------------------------------------
(* Dense rounds *)

LEMMA ScatteredType ==
    ASSUME TrimType, NEW p PROVE Scattered(p) \in [Buckets(Nodes) -> SUBSET Edges]
<1> DEFINE live == IF round = 0 THEN PartEdges(p) ELSE PartEdges(p) \intersect edges
<1>1. live \in SUBSET Edges
  BY DEF PartEdges
<1> HIDE DEF live
<1>2. Sorted(ends, live, Side, Buckets(Nodes)) \in [Buckets(Nodes) -> SUBSET Edges]
  BY <1>1, SortedType
<1> QED
  BY <1>2 DEF Scattered, live

\* A part of which nothing has been trimmed is scattered as it was, also in the
\* first round, which scatters it all.
LEMMA ScatteredPart ==
    ASSUME TrimType, round = 0 => start = Edges, NEW p,
           {e \in edges : PartOf[e] = p} = OfPart(p)
    PROVE  Scattered(p) = Arena(OfPart(p)) /\ Held(Scattered(p)) = OfPart(p)
<1> DEFINE live == IF round = 0 THEN PartEdges(p) ELSE PartEdges(p) \intersect edges
<1>1. live = OfPart(p) /\ live \in SUBSET Edges
  BY DEF TrimType, PartEdges, OfPart
<1>2. ends \in Graphs(Edges, Nodes) /\ Side \in Sides
  BY SideType DEF TrimType
<1> HIDE DEF live
<1>3. Held(Sorted(ends, live, Side, Buckets(Nodes))) = live
  BY <1>1, <1>2, SortedHolds
<1> QED
  BY <1>1, <1>3 DEF Scattered, Arena, live

\* With all marks set, the edges of a part that die are those without a mate.
LEMMA DyingOfPart ==
    ASSUME NEW p
    PROVE  Unmated(ends, OfPart(p), Side, Marks(ends, start, Side))
             = {e \in start : PartOf[e] = p /\ ~HasMate(ends, start, e, Side)}
  BY DEF Unmated, OfPart, Marks, HasMate, Meets

LEMMA BeginDenseKept == ASSUME TrimInv, BeginDense PROVE TrimInv' /\ RoundStep
<1>1. /\ pc' = "mark" /\ part' = 0 /\ nodes' = {} /\ round < rounds /\ ~cancel
      /\ pc = "round" /\ ~destroyed
      /\ UNCHANGED <<ends, mode, rounds, round, start, batch, edges, arena, destroyed, outcome,
                     cancel>>
  BY DEF BeginDense, requestVars, verdictVars, TrimInv, ControlInv
<1>2. overflow' \in BOOLEAN
  BY Zenon DEF BeginDense
<1>3. TrimType'
  BY <1>1, <1>2, WgpuAssumption DEF TrimInv, TrimType, DensePc
<1>4. ControlInv'
  BY <1>1, WgpuAssumption DEF BeginDense, DenseRounds, ControlInv, DensePc, TrimInv, TrimType
<1>5. {e \in start : PartOf[e] < 0} = {}
  BY WgpuAssumption DEF TrimInv, TrimType
<1>6. DenseInv'
  BY <1>1, <1>5 DEF DenseInv, Marks
<1>7. FallbackInv' /\ BuffersInv' /\ KeptInv' /\ OutcomeInv' /\ RoundStep
  BY <1>1 DEF TrimInv, FallbackInv, BuffersInv, KeptInv, OutcomeInv, RoundStep
<1> QED
  BY <1>3, <1>4, <1>6, <1>7 DEF TrimInv

LEMMA MarkPartKept ==
    ASSUME TrimInv, NEW a \in Clipped(Scattered(part), Capacity), MarkPart(a)
    PROVE  TrimInv' /\ RoundStep
<1>1. /\ pc = "mark" /\ ~destroyed /\ edges = start /\ mode \in {"bucketed", "slean"}
      /\ UNCHANGED <<ends, mode, rounds, round, start, batch, edges, backup, destroyed,
                     outcome, cancel>>
      /\ Side' = Side
  BY DEF MarkPart, requestVars, verdictVars, TrimInv, TrimType, ControlInv, BuffersInv, DensePc,
     Side
<1>2. a \in [Buckets(Nodes) -> SUBSET Edges]
  BY ScatteredType, ClippedType DEF TrimInv
<1>3. /\ IF part = Parts - 1 THEN part' = 0 /\ pc' = "trim" ELSE part' = part + 1 /\ pc' = "mark"
      /\ part' \in 0..(Parts - 1)
  BY WgpuAssumption DEF MarkPart, TrimInv, TrimType
<1>4. TrimType'
  <2>1. arena' \in [Buckets(Nodes) -> SUBSET Edges] /\ overflow' \in BOOLEAN
    BY <1>2 DEF MarkPart, TrimInv, TrimType
  <2> QED
    BY <1>1, <1>3, <2>1 DEF TrimInv, TrimType, DensePc
<1>5. ControlInv' /\ BuffersInv' /\ KeptInv' /\ OutcomeInv' /\ RoundStep
  BY <1>1, <1>3 DEF TrimInv, ControlInv, BuffersInv, KeptInv, OutcomeInv, RoundStep, DensePc
<1>6. FallbackInv'
  BY <1>1, <1>3 DEF FallbackInv, TrimSide
<1>7. ASSUME ~overflow' PROVE DenseInv'
  <2>1. ~overflow /\ ~Overflows(Scattered(part), Capacity)
    BY <1>7 DEF MarkPart
  <2>2. Scattered(part) = Arena(OfPart(part)) /\ Held(Scattered(part)) = OfPart(part)
    BY <1>1, ScatteredPart DEF OfPart, TrimInv, BuffersInv
  <2>3. a = Scattered(part)
    BY <2>1, ScatteredType, ClippedExact, WgpuAssumption DEF TrimInv
  <2>4. nodes = Marks(ends, {e \in start : PartOf[e] < part}, Side)
    BY <1>1, <2>1 DEF TrimInv, DenseInv
  <2>5. nodes \union Marks(ends, Held(a), Side)
          = Marks(ends, {e \in start : PartOf[e] < part + 1}, Side)
    <3>1. \A e \in start : PartOf[e] < part + 1 <=> PartOf[e] < part \/ PartOf[e] = part
      BY WgpuAssumption DEF TrimInv, TrimType
    <3> QED
      BY <2>2, <2>3, <2>4, <3>1 DEF Marks, OfPart
  <2>6. CASE part # Parts - 1
    <3>1. nodes' = nodes \union Marks(ends, Held(a), Side)
      BY <2>6 DEF MarkPart
    <3> QED
      BY <1>1, <1>3, <2>5, <2>6, <3>1 DEF DenseInv
  <2>7. CASE part = Parts - 1
    <3>1. {e \in start : PartOf[e] < part + 1} = start
      BY <2>7, WgpuAssumption DEF TrimInv, TrimType
    <3>2. pc' = "trim" /\ part' = 0
      BY <1>3, <2>7
    <3>3. edges' = Ongoing'
      <4>1. \A e \in start : ~Done(PartOf[e])'
        BY <1>1, <3>2, WgpuAssumption DEF Done, TrimInv, TrimType
      <4> QED
        BY <1>1, <4>1 DEF Ongoing
    <3>4. CASE mode = "slean"
      <4>1. arena' = a /\ nodes' = nodes
        BY <2>7, <3>4 DEF MarkPart
      <4>2. arena' = Arena(OfPart(Parts - 1))'
        BY <1>1, <2>2, <2>3, <2>7, <4>1 DEF Arena, OfPart
      <4> QED
        BY <1>1, <2>4, <2>7, <3>2, <3>3, <3>4, <4>1, <4>2 DEF DenseInv
    <3>5. CASE mode # "slean"
      <4>1. nodes' = Marks(ends, start, Side)
        BY <2>5, <3>1, <3>5 DEF MarkPart
      <4> QED
        BY <1>1, <3>2, <3>3, <3>5, <4>1 DEF DenseInv
    <3> QED
      BY <3>4, <3>5
  <2> QED
    BY <2>6, <2>7
<1>8. ASSUME overflow' PROVE DenseInv'
  BY <1>8 DEF DenseInv
<1> QED
  BY <1>4, <1>5, <1>6, <1>7, <1>8 DEF TrimInv

\* After a part of a dense round the next part follows, or the end of the round.
PartStep ==
    /\ pc = "trim"
    /\ IF part = Parts - 1 THEN part' = 0 /\ pc' = "finish" ELSE part' = part + 1 /\ pc' = "trim"
    /\ edges' \in SUBSET Edges /\ overflow' \in BOOLEAN
    /\ arena' \in [Buckets(Nodes) -> SUBSET Edges]
    /\ UNCHANGED <<ends, mode, rounds, round, start, batch, compact, destroyed, survivors,
                   outcome, cancel>>

LEMMA PartStepKept ==
    ASSUME TrimInv, PartStep
    PROVE  /\ TrimType' /\ ControlInv' /\ BuffersInv' /\ KeptInv' /\ OutcomeInv' /\ RoundStep
           /\ ~destroyed /\ mode \in {"bucketed", "slean"} /\ Side' = Side
<1>1. ~destroyed /\ mode \in {"bucketed", "slean"} /\ Side' = Side
  BY DEF PartStep, TrimInv, TrimType, ControlInv, DensePc, Side
<1>2. part' \in 0..(Parts - 1)
  BY WgpuAssumption DEF PartStep, TrimInv, TrimType
<1>3. TrimType'
  BY <1>2 DEF PartStep, TrimInv, TrimType, DensePc
<1>4. ControlInv' /\ BuffersInv' /\ KeptInv' /\ OutcomeInv' /\ RoundStep
  BY <1>1 DEF PartStep, TrimInv, ControlInv, BuffersInv, KeptInv, OutcomeInv, RoundStep, DensePc
<1> QED
  BY <1>1, <1>3, <1>4

\* When a part gives up its edges without a mate, and no other, the round goes
\* on as it should.
LEMMA PartTrims ==
    ASSUME TrimInv, PartStep, ~overflow, ~overflow', nodes' = Marks(ends, start, Side),
           NEW p \in 0..(Parts - 1),
           p = (IF mode = "bucketed" THEN part
                ELSE IF part = 0 THEN Parts - 1 ELSE part - 1),
           edges' = edges \ {e \in start : PartOf[e] = p /\ ~HasMate(ends, start, e, Side)}
    PROVE  DenseInv' /\ edges' \subseteq start /\ TrimSide(ends, start, Side) \subseteq edges'
<1>1. /\ ~destroyed /\ mode \in {"bucketed", "slean"} /\ Side' = Side
      /\ edges = Ongoing /\ pc = "trim" /\ UNCHANGED <<ends, mode, start>>
  BY PartStepKept DEF PartStep, TrimInv, DenseInv
<1>2. \A e \in start : PartOf[e] \in 0..(Parts - 1)
  BY WgpuAssumption DEF TrimInv, TrimType
<1>3. edges' = {e \in start : Done(PartOf[e]) \/ PartOf[e] = p => HasMate(ends, start, e, Side)}
  BY <1>1 DEF Ongoing
<1>4. edges' \subseteq start /\ TrimSide(ends, start, Side) \subseteq edges'
  BY <1>3 DEF TrimSide
<1>5. CASE part = Parts - 1
  <2>1. \A e \in start : Done(PartOf[e]) \/ PartOf[e] = p
    BY <1>1, <1>2, <1>5, WgpuAssumption DEF Done, TrimInv, TrimType
  <2>2. edges' = TrimSide(ends, start, Side) /\ pc' = "finish"
    BY <1>3, <1>5, <2>1 DEF TrimSide, PartStep
  <2> QED
    BY <1>1, <1>4, <2>2 DEF DenseInv
<1>6. CASE part # Parts - 1
  <2>1. part' = part + 1 /\ pc' = "trim"
    BY <1>6 DEF PartStep
  <2>2. \A e \in start : Done(PartOf[e]) \/ PartOf[e] = p <=> Done(PartOf[e])'
    BY <1>1, <1>2, <1>6, <2>1, WgpuAssumption DEF Done, TrimInv, TrimType
  <2>3. edges' = Ongoing'
    BY <1>1, <1>3, <2>2 DEF Ongoing
  <2>4. part' # 0
    BY <2>1 DEF TrimInv, TrimType
  <2> QED
    BY <1>1, <1>4, <2>1, <2>3, <2>4 DEF DenseInv
<1> QED
  BY <1>5, <1>6

LEMMA TrimChunkKept ==
    ASSUME TrimInv, NEW a \in Clipped(Scattered(part), Capacity), TrimChunk(a)
    PROVE  TrimInv' /\ RoundStep
<1>1. mode = "bucketed" /\ arena' = arena /\ nodes' = nodes /\ PartStep
  <2>1. edges' \in SUBSET Edges /\ overflow' \in BOOLEAN
    BY DEF TrimChunk, TrimInv, TrimType
  <2> QED
    BY <2>1, WgpuAssumption DEF TrimChunk, PartTrimmed, PartStep, requestVars, verdictVars,
       TrimInv, TrimType
<1>2. TrimSide(ends, start, Side) \subseteq edges /\ edges \subseteq start
  BY <1>1 DEF PartStep, TrimInv, FallbackInv
<1>3. ASSUME overflow'
      PROVE  DenseInv' /\ edges' \subseteq start /\ TrimSide(ends, start, Side) \subseteq edges'
  BY <1>2, <1>3 DEF TrimChunk, DenseInv
<1>4. ASSUME ~overflow'
      PROVE  DenseInv' /\ edges' \subseteq start /\ TrimSide(ends, start, Side) \subseteq edges'
  <2>1. ~overflow /\ ~Overflows(Scattered(part), Capacity)
    BY <1>4 DEF TrimChunk
  <2>2. nodes = Marks(ends, start, Side) /\ edges = Ongoing
    BY <1>1, <2>1 DEF PartStep, TrimInv, DenseInv
  <2>3. {e \in edges : PartOf[e] = part} = OfPart(part)
    BY <1>1, <2>2, WgpuAssumption DEF Ongoing, Done, OfPart, TrimInv, TrimType
  <2>4. Held(Scattered(part)) = OfPart(part)
    BY <2>3, ScatteredPart DEF TrimInv, BuffersInv
  <2>5. a = Scattered(part)
    BY <2>1, ScatteredType, ClippedExact, WgpuAssumption DEF TrimInv
  <2>6. edges' = edges \ {e \in start : PartOf[e] = part /\ ~HasMate(ends, start, e, Side)}
    BY <1>4, <2>2, <2>4, <2>5, DyingOfPart DEF TrimChunk
  <2>7. part \in 0..(Parts - 1)
    BY DEF TrimInv, TrimType
  <2> QED
    BY <1>1, <1>4, <2>1, <2>2, <2>6, <2>7, PartTrims
<1>5. FallbackInv'
  BY <1>1, <1>3, <1>4, PartStepKept DEF FallbackInv, PartStep
<1> QED
  BY <1>1, <1>3, <1>4, <1>5, PartStepKept DEF TrimInv

\* Deaths that fit their arena are all those of the part.
LEMMA DeathsExact ==
    ASSUME TrimInv, NEW dying \in SUBSET Edges, ApplyDeaths(dying)
    PROVE  /\ edges' \in SUBSET Edges /\ overflow' \in BOOLEAN
           /\ ~overflow' => ~overflow /\ edges' = edges \ dying
  BY DEF ApplyDeaths, TrimInv, TrimType

LEMMA TrimResidentKept == ASSUME TrimInv, TrimResident PROVE TrimInv' /\ RoundStep
<1> DEFINE dying == Unmated(ends, Held(arena), Side, nodes')
<1>1. /\ mode = "slean" /\ part = 0 /\ backup' = edges /\ arena' = NoEdges /\ PartTrimmed
      /\ pc = "trim" /\ edges = start
      /\ IF overflow THEN UNCHANGED <<edges, overflow>>
         ELSE nodes' = nodes \union Marks(ends, Held(arena), Side) /\ ApplyDeaths(dying)
  BY DEF TrimResident, TrimInv, FallbackInv
<1>2. dying \in SUBSET Edges
  BY DEF Unmated, Held, TrimInv, TrimType
<1>3. /\ edges' \in SUBSET Edges /\ overflow' \in BOOLEAN
      /\ ~overflow' => ~overflow /\ edges' = edges \ dying
  BY <1>1, <1>2, DeathsExact DEF TrimInv, TrimType
<1>4. NoEdges \in [Buckets(Nodes) -> SUBSET Edges]
  BY DEF NoEdges, Cleared
<1>5. PartStep
  BY <1>1, <1>3, <1>4, WgpuAssumption DEF PartTrimmed, PartStep, requestVars, verdictVars
<1>6. ASSUME ~overflow' PROVE DenseInv'
  <2>1. ~overflow /\ edges' = edges \ dying
    BY <1>3, <1>6
  <2>2. /\ nodes = Marks(ends, {e \in start : PartOf[e] < Parts - 1}, Side)
        /\ arena = Arena(OfPart(Parts - 1))
    BY <1>1, <2>1 DEF TrimInv, DenseInv
  <2>3. ends \in Graphs(Edges, Nodes) /\ Side \in Sides /\ OfPart(Parts - 1) \in SUBSET Edges
    BY SideType DEF OfPart, TrimInv, TrimType
  <2>4. Held(arena) = OfPart(Parts - 1)
    BY <2>2, <2>3, SortedHolds DEF Arena
  <2>5. nodes' = Marks(ends, start, Side)
    <3>1. \A e \in start : PartOf[e] < Parts - 1 \/ PartOf[e] = Parts - 1
      BY WgpuAssumption DEF TrimInv, TrimType
    <3> QED
      BY <1>1, <2>1, <2>2, <2>4, <3>1 DEF Marks, OfPart
  <2>6. dying = {e \in start : PartOf[e] = Parts - 1 /\ ~HasMate(ends, start, e, Side)}
    BY <2>4, <2>5, DyingOfPart
  <2>7. Parts - 1 \in 0..(Parts - 1)
    BY WgpuAssumption
  <2> HIDE DEF dying
  <2> QED
    BY <1>1, <1>5, <1>6, <2>1, <2>5, <2>6, <2>7, PartTrims
<1>7. ASSUME overflow' PROVE DenseInv'
  BY <1>7 DEF DenseInv
<1>8. FallbackInv'
  <2>1. ~(pc' = "trim" /\ part' = 0)
    BY <1>1, <1>5 DEF PartStep
  <2> QED
    BY <1>1, <1>5, <2>1 DEF FallbackInv, PartStep
<1> QED
  BY <1>5, <1>6, <1>7, <1>8, PartStepKept DEF TrimInv

LEMMA TrimEarlierKept ==
    ASSUME TrimInv, part > 0, NEW a \in Clipped(Scattered(part - 1), Capacity), TrimEarlier(a)
    PROVE  TrimInv' /\ RoundStep
<1> DEFINE p     == part - 1
           dying == Unmated(ends, Held(a), Side, nodes)
<1>1. /\ mode = "slean" /\ pc = "trim" /\ UNCHANGED <<nodes, backup, arena>> /\ PartTrimmed
      /\ IF overflow \/ Overflows(Scattered(p), Capacity)
         THEN overflow' = TRUE /\ UNCHANGED edges
         ELSE ApplyDeaths(dying)
  BY DEF TrimEarlier
<1>2. dying \in SUBSET Edges
  BY ScatteredType, ClippedType DEF Unmated, TrimInv
<1>3. /\ edges' \in SUBSET Edges /\ overflow' \in BOOLEAN
      /\ ~overflow' => /\ ~overflow /\ ~Overflows(Scattered(p), Capacity)
                       /\ edges' = edges \ dying
  <2>1. CASE overflow \/ Overflows(Scattered(p), Capacity)
    <3>1. overflow' = TRUE /\ edges' = edges
      BY <1>1, <2>1
    <3>2. overflow' \in BOOLEAN
      BY <3>1, Zenon
    <3> QED
      BY <3>1, <3>2 DEF TrimInv, TrimType
  <2>2. CASE ~(overflow \/ Overflows(Scattered(p), Capacity))
    <3> HIDE DEF dying, p
    <3> QED
      BY <1>1, <1>2, <2>2, DeathsExact
  <2> QED
    BY <2>1, <2>2
<1>4. PartStep
  BY <1>1, <1>3, WgpuAssumption DEF PartTrimmed, PartStep, requestVars, verdictVars, TrimInv,
     TrimType
<1>5. p \in 0..(Parts - 1) /\ p = part - 1 /\ part # 0
  BY WgpuAssumption DEF TrimInv, TrimType
<1> HIDE DEF p
<1>6. ASSUME ~overflow' PROVE DenseInv'
  <2>1. ~overflow /\ ~Overflows(Scattered(p), Capacity) /\ edges' = edges \ dying
    BY <1>3, <1>6
  <2>2. nodes = Marks(ends, start, Side) /\ edges = Ongoing
    BY <1>1, <1>5, <2>1 DEF TrimInv, DenseInv
  <2>3. ~Done(p)
    BY <1>1, <1>5, WgpuAssumption DEF Done, TrimInv, TrimType
  <2>4. {e \in edges : PartOf[e] = p} = OfPart(p)
    BY <2>2, <2>3 DEF Ongoing, OfPart
  <2>5. Held(Scattered(p)) = OfPart(p)
    BY <2>4, ScatteredPart DEF TrimInv, BuffersInv
  <2>6. a = Scattered(p)
    BY <1>5, <2>1, ScatteredType, ClippedExact, WgpuAssumption DEF TrimInv
  <2>7. edges' = edges \ {e \in start : PartOf[e] = p /\ ~HasMate(ends, start, e, Side)}
    BY <2>1, <2>2, <2>5, <2>6, DyingOfPart
  <2>8. nodes' = Marks(ends, start, Side)
    BY <1>1, <2>2
  <2> HIDE DEF dying
  <2> QED
    BY <1>1, <1>4, <1>5, <1>6, <2>1, <2>7, <2>8, PartTrims
<1>7. ASSUME overflow' PROVE DenseInv'
  BY <1>7 DEF DenseInv
<1>8. FallbackInv'
  <2>1. ~(pc' = "trim" /\ part' = 0) /\ backup' = start
    BY <1>1, <1>4, <1>5 DEF PartStep, TrimInv, TrimType, FallbackInv
  <2> QED
    BY <1>1, <1>4, <2>1 DEF FallbackInv, PartStep
<1> QED
  BY <1>4, <1>6, <1>7, <1>8, PartStepKept DEF TrimInv

LEMMA FinishDenseKept == ASSUME TrimInv, FinishDense PROVE TrimInv' /\ RoundStep
<1> DEFINE left == IF overflow THEN LeanRound(ends, Fallback, Side) ELSE edges
<1>1. /\ pc = "finish" /\ pc' = "report" /\ edges' = left /\ start' = left /\ round' = round + 1
      /\ UNCHANGED <<ends, mode, rounds, batch, part, arena, compact, overflow, destroyed,
                     survivors, outcome, cancel>>
  BY DEF FinishDense, RoundDone, requestVars, verdictVars
<1>2. TrimSide(ends, start, Side) \subseteq start
  BY DEF TrimSide
<1>3. TrimSide(ends, start, Side) \subseteq Fallback /\ Fallback \subseteq start
  <2>1. mode # "lean"
    BY <1>1 DEF TrimInv, ControlInv, DensePc
  <2> QED
    BY <1>1, <1>2, <2>1 DEF Fallback, TrimInv, TrimType, FallbackInv
<1>4. left = TrimSide(ends, start, Side)
  BY <1>1, <1>3, TrimBetween DEF TrimInv, DenseInv
<1> HIDE DEF left
<1>5. KeptInv' /\ start' \in SUBSET Edges
  BY <1>1, <1>4, RoundKeeps
<1>6. round < rounds /\ ~destroyed
  BY <1>1 DEF TrimInv, ControlInv, DensePc
<1>7. TrimType'
  <2>1. round' \in 0..rounds
    BY <1>1, <1>6 DEF TrimInv, TrimType
  <2> QED
    BY <1>1, <1>5, <2>1 DEF TrimInv, TrimType
<1>8. ControlInv' /\ DenseInv' /\ FallbackInv'
  BY <1>1, <1>6 DEF ControlInv, DenseInv, FallbackInv, DensePc
<1>9. BuffersInv' /\ OutcomeInv' /\ RoundStep
  BY <1>1, <1>4 DEF TrimInv, TrimType, BuffersInv, OutcomeInv, RoundStep
<1> QED
  BY <1>5, <1>7, <1>8, <1>9 DEF TrimInv

-----------------------------------------------------------------------------
(* Lean and fine rounds *)

LEMMA BeginLeanKept == ASSUME TrimInv, BeginLean PROVE TrimInv' /\ RoundStep
<1>1. /\ pc = "round" /\ pc' = "lean" /\ ~cancel /\ ~destroyed
      /\ UNCHANGED <<ends, mode, rounds, round, start, part, edges, nodes, backup, arena, compact,
                     overflow, destroyed, survivors, outcome, cancel>>
  BY DEF BeginLean, requestVars, bufferVars, verdictVars, TrimInv, ControlInv
<1>2. round < batch' /\ batch' <= rounds /\ batch' \in 0..Rounds
  BY WgpuAssumption DEF BeginLean, Least, TrimInv, TrimType
<1>3. TrimType' /\ ControlInv' /\ DenseInv' /\ FallbackInv'
  BY <1>1, <1>2 DEF TrimInv, TrimType, ControlInv, DenseInv, FallbackInv, DensePc
<1>4. BuffersInv' /\ KeptInv' /\ OutcomeInv' /\ RoundStep
  BY <1>1 DEF TrimInv, BuffersInv, KeptInv, OutcomeInv, RoundStep
<1> QED
  BY <1>3, <1>4 DEF TrimInv

LEMMA TrimLeanKept == ASSUME TrimInv, TrimLean PROVE TrimInv' /\ RoundStep
<1>1. /\ pc = "lean" /\ pc' = (IF round' = batch THEN "report" ELSE "lean")
      /\ start' = LeanRound(ends, edges, Side) /\ edges' = start' /\ round' = round + 1
      /\ round < batch /\ batch <= rounds /\ ~destroyed /\ edges = start
      /\ UNCHANGED <<ends, mode, rounds, batch, part, arena, compact, overflow, destroyed,
                     survivors, outcome, cancel>>
  BY DEF TrimLean, RoundDone, requestVars, verdictVars, TrimInv, ControlInv, BuffersInv
<1>2. start' = TrimSide(ends, start, Side)
  BY <1>1, LeanRoundTrims
<1>3. KeptInv' /\ start' \in SUBSET Edges
  BY <1>1, <1>2, RoundKeeps
<1>4. round' \in 0..rounds /\ (pc' = "lean" => round' < batch)
  BY <1>1 DEF TrimInv, TrimType
<1>5. TrimType' /\ ControlInv' /\ DenseInv' /\ FallbackInv'
  BY <1>1, <1>3, <1>4 DEF TrimInv, TrimType, ControlInv, DenseInv, FallbackInv, DensePc
<1>6. BuffersInv' /\ OutcomeInv' /\ RoundStep
  BY <1>1, <1>2 DEF TrimInv, TrimType, BuffersInv, OutcomeInv, RoundStep
<1> QED
  BY <1>3, <1>5, <1>6 DEF TrimInv

LEMMA ReportKept == ASSUME TrimInv, Report PROVE TrimInv' /\ RoundStep
<1>1. /\ pc = "report" /\ ~destroyed
      /\ pc' = (IF Fine /\ round = TransitionRound THEN "seed" ELSE "round")
      /\ UNCHANGED <<ends, mode, rounds, round, start, batch, part, edges, nodes, backup, arena,
                     compact, overflow, destroyed, survivors, outcome, cancel>>
      /\ Fine' = Fine /\ TransitionRound' = TransitionRound
  BY DEF Report, requestVars, bufferVars, verdictVars, TrimInv, ControlInv, Fine, TransitionRound
<1>2. TrimType' /\ ControlInv' /\ DenseInv' /\ FallbackInv'
  BY <1>1 DEF TrimInv, TrimType, ControlInv, DenseInv, FallbackInv, DensePc
<1>3. BuffersInv' /\ KeptInv' /\ OutcomeInv' /\ RoundStep
  BY <1>1 DEF TrimInv, BuffersInv, KeptInv, OutcomeInv, RoundStep
<1> QED
  BY <1>2, <1>3 DEF TrimInv

\* One round from arena to arena.
LEMMA ArenaRound ==
    ASSUME TrimInv
    PROVE  LET next == NextArena(ends, Arena(start), Side)
           IN  /\ next = Sorted(ends, TrimSide(ends, start, Side), 1 - Side, Buckets(Nodes))
               /\ next \in [Buckets(Nodes) -> SUBSET Edges]
               /\ Held(next) = TrimSide(ends, start, Side)
<1> DEFINE kept == TrimSide(ends, start, Side)
           next == NextArena(ends, Arena(start), Side)
<1>1. ends \in Graphs(Edges, Nodes) /\ Side \in Sides /\ 1 - Side \in Sides
      /\ start \in SUBSET Edges /\ kept \in SUBSET Edges
  BY SideType DEF TrimInv, TrimType, TrimSide
<1>2. next = Sorted(ends, kept, 1 - Side, Buckets(Nodes))
  BY <1>1, NextArenaTrims, WgpuAssumption DEF Arena
<1> HIDE DEF kept, next
<1>3. next \in [Buckets(Nodes) -> SUBSET Edges]
  BY <1>1, <1>2, SortedType
<1>4. Held(next) = kept
  BY <1>1, <1>2, SortedHolds
<1> QED
  BY <1>2, <1>3, <1>4 DEF next, kept

\* Such a round keeps the invariant, wherever the arena is read next.
LEMMA FineRoundKept ==
    ASSUME TrimInv, pc \in {"seed", "fine", "csr"}, pc' = "fine", round < rounds, destroyed',
           arena' = NextArena(ends, Arena(start), Side), start' = Held(arena'),
           round' = round + 1, round' = rounds => compact', edges' \in SUBSET Edges,
           UNCHANGED <<ends, mode, rounds, batch, part, overflow, outcome, cancel>>
    PROVE  TrimInv' /\ RoundStep
<1>1. /\ arena' = Sorted(ends, TrimSide(ends, start, Side), 1 - Side, Buckets(Nodes))
      /\ arena' \in [Buckets(Nodes) -> SUBSET Edges]
      /\ start' = TrimSide(ends, start, Side)
  BY ArenaRound
<1>2. KeptInv' /\ start' \in SUBSET Edges
  BY <1>1, RoundKeeps
<1>3. Side' = 1 - Side
  BY NextSide DEF TrimInv
<1>4. round' \in 0..rounds
  BY DEF TrimInv, TrimType
<1>5. TrimType'
  BY <1>1, <1>2, <1>4 DEF TrimInv, TrimType
<1>6. ControlInv' /\ DenseInv' /\ FallbackInv'
  BY DEF ControlInv, DenseInv, FallbackInv, DensePc
<1>7. BuffersInv' /\ OutcomeInv' /\ RoundStep
  BY <1>1, <1>3 DEF TrimInv, TrimType, BuffersInv, OutcomeInv, RoundStep, Arena
<1> QED
  BY <1>2, <1>5, <1>6, <1>7 DEF TrimInv

LEMMA SeedKept == ASSUME TrimInv, Seed PROVE TrimInv' /\ RoundStep
<1>1. /\ pc = "seed" /\ pc' = "fine" /\ edges' = {} /\ destroyed' /\ compact'
      /\ UNCHANGED <<ends, mode, rounds, batch, part, overflow, survivors, outcome, cancel>>
  BY DEF Seed, requestVars, verdictVars
<1>2. ~destroyed /\ edges = start /\ mode \in {"bucketed", "slean"}
  BY <1>1 DEF TrimInv, TrimType, ControlInv, BuffersInv, Fine
<1>3. FineSeed = Arena(start)
  BY <1>2 DEF FineSeed, Arena
<1>4. round < rounds \/ (mode = "slean" /\ round <= rounds)
  BY <1>1, <1>2, WgpuAssumption DEF TrimInv, TrimType, ControlInv, Fine, TransitionRound
<1>5. CASE mode = "bucketed"
  <2>1. /\ arena' = NextArena(ends, Arena(start), Side) /\ start' = Held(arena')
        /\ round' = round + 1 /\ round < rounds
    BY <1>3, <1>4, <1>5 DEF Seed, ShardedSeed
  <2> QED
    BY <1>1, <2>1, FineRoundKept
<1>6. CASE mode = "slean"
  <2>1. arena' = Arena(start) /\ UNCHANGED <<start, round>>
    BY <1>3, <1>6 DEF Seed
  <2>2. arena' \in [Buckets(Nodes) -> SUBSET Edges]
    BY <2>1, SortedType DEF Arena, TrimInv, TrimType
  <2>3. TrimType' /\ ControlInv' /\ DenseInv' /\ FallbackInv'
    BY <1>1, <2>1, <2>2 DEF TrimInv, TrimType, ControlInv, DenseInv, FallbackInv, DensePc
  <2>4. BuffersInv' /\ KeptInv' /\ OutcomeInv' /\ RoundStep
    BY <1>1, <2>1 DEF TrimInv, BuffersInv, KeptInv, OutcomeInv, RoundStep, Arena, Side
  <2> QED
    BY <2>3, <2>4 DEF TrimInv
<1> QED
  BY <1>2, <1>5, <1>6

LEMMA FineKept == ASSUME TrimInv, TrimFixed \/ TrimCsr PROVE TrimInv' /\ RoundStep
<1>1. /\ pc \in {"fine", "csr"} /\ pc' = "fine" /\ arena' = Trimmed /\ start' = Held(arena')
      /\ round' = round + 1
      /\ UNCHANGED <<ends, mode, rounds, batch, part, edges, overflow, destroyed, survivors,
                     outcome, cancel>>
  BY DEF TrimFixed, TrimCsr, FineRoundDone, requestVars, verdictVars
<1>2. destroyed /\ arena' = NextArena(ends, Arena(start), Side)
  BY <1>1 DEF Trimmed, TrimInv, ControlInv, BuffersInv
<1>3. round < rounds /\ (round' = rounds => compact')
  BY <1>1 DEF TrimFixed, TrimCsr, TrimInv, TrimType, ControlInv
<1>4. destroyed' /\ edges' \in SUBSET Edges
  BY <1>1, <1>2 DEF TrimInv, TrimType
<1> QED
  BY <1>1, <1>2, <1>3, <1>4, FineRoundKept

LEMMA FineMoveKept == ASSUME TrimInv, FixedFails \/ FineCancelled PROVE TrimInv' /\ RoundStep
<1>1. /\ pc = "fine" /\ destroyed /\ round < rounds
      /\ pc' = "csr" \/ (pc' = "round" /\ cancel)
      /\ UNCHANGED <<ends, mode, rounds, round, start, batch, part, edges, nodes, backup, arena,
                     compact, overflow, destroyed, survivors, outcome, cancel>>
  BY DEF FixedFails, FineCancelled, requestVars, bufferVars, verdictVars, TrimInv, TrimType,
     ControlInv
<1>2. TrimType' /\ ControlInv' /\ DenseInv' /\ FallbackInv'
  BY <1>1 DEF TrimInv, TrimType, ControlInv, DenseInv, FallbackInv, DensePc
<1>3. BuffersInv' /\ KeptInv' /\ OutcomeInv' /\ RoundStep
  BY <1>1 DEF TrimInv, BuffersInv, KeptInv, OutcomeInv, RoundStep, Arena, Side
<1> QED
  BY <1>2, <1>3 DEF TrimInv

-----------------------------------------------------------------------------
(* Verdict *)

LEMMA ReadKept == ASSUME TrimInv, ReadFine \/ ReadBitmap \/ Peel PROVE TrimInv' /\ RoundStep
<1>1. UNCHANGED <<ends, mode, rounds, round, start, batch, part, edges, nodes, backup, arena,
                  compact, overflow, destroyed, outcome, cancel>>
  BY DEF ReadFine, ReadBitmap, Peel, requestVars, bufferVars
<1>2. /\ pc' \in {"peel", "search"} /\ pc # "done"
      /\ pc' = "peel" => survivors' = start
      /\ pc' = "search" => survivors' = Core(ends, start)
  <2>1. CASE ReadFine
    <3>1. ends \in Graphs(Edges, Nodes) /\ Side \in Sides /\ start \in SUBSET Edges
      BY SideType DEF TrimInv, TrimType
    <3>2. pc' = "peel" /\ pc = "fine" /\ arena = Arena(start) /\ survivors' = Held(arena)
      BY <2>1 DEF ReadFine, TrimInv, ControlInv, BuffersInv
    <3> QED
      BY <3>1, <3>2, SortedHolds DEF Arena
  <2>2. CASE ReadBitmap
    <3>1. pc = "round" /\ ~destroyed /\ pc' = "peel" /\ survivors' = edges
      BY <2>2 DEF ReadBitmap, TrimInv, TrimType, ControlInv
    <3> QED
      BY <3>1 DEF TrimInv, BuffersInv
  <2>3. CASE Peel
    BY <2>3 DEF Peel, TrimInv, BuffersInv
  <2> QED
    BY <2>1, <2>2, <2>3
<1>3. TrimType' /\ ControlInv' /\ DenseInv' /\ FallbackInv'
  BY <1>1, <1>2 DEF TrimInv, TrimType, ControlInv, DenseInv, FallbackInv, DensePc
<1>4. BuffersInv' /\ KeptInv' /\ OutcomeInv' /\ RoundStep
  BY <1>1, <1>2 DEF TrimInv, BuffersInv, KeptInv, OutcomeInv, RoundStep
<1> QED
  BY <1>3, <1>4 DEF TrimInv

LEMMA ReturnKept ==
    ASSUME TrimInv, FindsCycle \/ FindsNothing \/ GivesUp \/ Cancelled \/ Fails
    PROVE  TrimInv' /\ RoundStep
<1>1. /\ pc' = "done"
      /\ UNCHANGED <<ends, mode, rounds, round, start, batch, part, edges, nodes, backup, arena,
                     compact, overflow, destroyed, survivors, cancel>>
  BY DEF FindsCycle, FindsNothing, GivesUp, Cancelled, Fails, Return, requestVars, bufferVars
<1>2. OutcomeInv'
  <2>1. CASE FindsNothing
    <3>1. Cycles(ends, Core(ends, start), CycleLength) = {}
      BY <2>1 DEF FindsNothing, TrimInv, BuffersInv
    <3>2. Cycles(ends, Edges, CycleLength) = {}
      BY <3>1, CyclesKept DEF TrimInv, TrimType, KeptInv
    <3> QED
      BY <1>1, <3>2 DEF OutcomeInv
  <2>2. CASE outcome' # "noCycle"
    BY <2>2 DEF OutcomeInv
  <2> QED
    BY <2>1, <2>2 DEF FindsCycle, GivesUp, Cancelled, Fails, Return
<1>3. TrimType' /\ ControlInv' /\ DenseInv' /\ FallbackInv'
  BY <1>1 DEF TrimInv, TrimType, ControlInv, DenseInv, FallbackInv, DensePc
<1>4. BuffersInv' /\ KeptInv' /\ RoundStep
  BY <1>1 DEF TrimInv, BuffersInv, KeptInv, RoundStep
<1> QED
  BY <1>2, <1>3, <1>4 DEF TrimInv

LEMMA TrimAgainKept == ASSUME TrimInv, TrimAgain PROVE TrimInv' /\ RoundStep
<1>1. /\ pc = "search" /\ pc' = "round" /\ rounds' = Rounds /\ round' = 0 /\ start' = Edges
      /\ edges' = Edges /\ arena' = NoEdges /\ ~destroyed'
      /\ UNCHANGED <<ends, mode, batch, part, outcome, cancel>>
  BY DEF TrimAgain
<1>2. overflow' \in BOOLEAN
  BY Zenon DEF TrimAgain
<1>3. NoEdges \in [Buckets(Nodes) -> SUBSET Edges]
  BY DEF NoEdges, Cleared
<1>4. TrimType'
  BY <1>1, <1>2, <1>3, WgpuAssumption DEF TrimInv, TrimType
<1>5. ControlInv' /\ DenseInv' /\ FallbackInv' /\ BuffersInv' /\ KeptInv' /\ OutcomeInv' /\ RoundStep
  BY <1>1 DEF TrimInv, ControlInv, DenseInv, FallbackInv, BuffersInv, KeptInv, OutcomeInv,
     RoundStep, DensePc
<1> QED
  BY <1>4, <1>5 DEF TrimInv

LEMMA CancelKept == ASSUME TrimInv, Cancel \/ UNCHANGED vars PROVE TrimInv' /\ RoundStep
<1>1. /\ UNCHANGED <<ends, mode, rounds, round, start, pc, batch, part, edges, nodes, backup,
                     arena, compact, overflow, destroyed, survivors, outcome>>
      /\ cancel => cancel'
  BY DEF Cancel, requestVars, bufferVars, verdictVars, vars
<1>2. cancel' \in BOOLEAN
  <2>1. CASE Cancel
    BY <2>1, Zenon DEF Cancel
  <2>2. CASE UNCHANGED vars
    BY <2>2 DEF vars, TrimInv, TrimType
  <2> QED
    BY <2>1, <2>2
<1>3. Fine' = Fine /\ TransitionRound' = TransitionRound /\ Side' = Side /\ Ongoing' = Ongoing
  BY <1>1 DEF Fine, TransitionRound, Side, Ongoing, Done
<1>4. TrimType' /\ ControlInv'
  BY <1>1, <1>2, <1>3 DEF TrimInv, TrimType, ControlInv
<1>5. DenseInv' /\ FallbackInv'
  BY <1>1, <1>3 DEF TrimInv, DenseInv, FallbackInv, Arena, OfPart
<1>6. BuffersInv' /\ KeptInv' /\ OutcomeInv' /\ RoundStep
  BY <1>1, <1>3 DEF TrimInv, BuffersInv, KeptInv, OutcomeInv, RoundStep, Arena
<1> QED
  BY <1>4, <1>5, <1>6 DEF TrimInv

-----------------------------------------------------------------------------

LEMMA InitTrim == Init => TrimInv
<1> SUFFICES ASSUME Init PROVE TrimInv
  OBVIOUS
<1>1. NoEdges \in [Buckets(Nodes) -> SUBSET Edges]
  BY DEF NoEdges, Cleared
<1>2. overflow \in BOOLEAN /\ cancel \in BOOLEAN /\ ~destroyed
  BY Zenon DEF Init
<1>3. TrimType
  BY <1>1, <1>2, WgpuAssumption DEF Init, TrimType, Least
<1>4. ControlInv /\ DenseInv /\ FallbackInv /\ BuffersInv /\ KeptInv /\ OutcomeInv
  BY <1>2 DEF Init, ControlInv, DenseInv, FallbackInv, BuffersInv, KeptInv, OutcomeInv, DensePc
<1> QED
  BY <1>3, <1>4 DEF TrimInv

LEMMA NextTrim == ASSUME TrimInv, [Next]_vars PROVE TrimInv' /\ RoundStep
  BY BeginDenseKept, MarkPartKept, TrimChunkKept, TrimResidentKept, TrimEarlierKept,
     FinishDenseKept, BeginLeanKept, TrimLeanKept, ReportKept, SeedKept, FineKept, FineMoveKept,
     ReadKept, ReturnKept, TrimAgainKept, CancelKept DEF Next, Returned

\* Where the edges of the round are, in which buffer and how far trimmed, at
\* each step of it.
THEOREM TrimInvariant == Spec => []TrimInv
<1>1. TrimInv /\ [Next]_vars => TrimInv'
  BY NextTrim
<1> QED
  BY <1>1, InitTrim, PTL DEF Spec

\* However a round was done, the next step reads what it left.
THEOREM SurvivorsAreReadAlways == Spec => []SurvivorsAreRead
<1>1. TrimInv => SurvivorsAreRead
  BY DEF TrimInv, BuffersInv, SurvivorsAreRead, Arena
<1> QED
  BY <1>1, TrimInvariant, PTL

\* No kernel runs on buffers that are gone, also when the fine rounds are
\* cancelled and control returns to the loop that used them.
THEOREM DestroyedIsOverAlways == Spec => []DestroyedIsOver
<1>1. TrimInv => DestroyedIsOver
  BY DEF TrimInv, ControlInv, DestroyedIsOver
<1> QED
  BY <1>1, TrimInvariant, PTL

\* "No cycle" is about the whole graph, early or not.
THEOREM NoCycleIsSound == Spec => []NoCycleIsRight
<1>1. TrimInv => NoCycleIsRight
  BY DEF TrimInv, OutcomeInv, NoCycleIsRight
<1> QED
  BY <1>1, TrimInvariant, PTL

\* The rounds implement TrimContract: dense rounds in parts, with or without an
\* overflow, lean and fine rounds all leave exactly the edges with a mate.
THEOREM ImplementsContract == Spec => TrimsExactly
<1>1. Init => Contract!Init
  BY DEF Init, Contract!Init
<1>2. ASSUME TrimInv, [Next]_vars PROVE [Contract!Next]_(Contract!vars)
  <2>1. RoundStep
    BY <1>2, NextTrim
  <2>2. TrimSide(ends, start, Side) = Contract!TrimSide(ends, start, round % 2)
    BY DEF TrimSide, HasMate, Meets, Mate, Side, Contract!TrimSide, Contract!HasMate,
           Contract!Meets, Contract!Mate
  <2>3. CASE start' = start /\ round' = round
    BY <2>1, <2>3 DEF RoundStep, Contract!vars
  <2>4. CASE start' = TrimSide(ends, start, Side) /\ round' = round + 1
    BY <2>1, <2>2, <2>4 DEF RoundStep, Contract!Next, Contract!Trim
  <2>5. CASE start' = Edges /\ round' = 0
    BY <2>1, <2>5 DEF RoundStep, Contract!Next, Contract!Restart
  <2> QED
    BY <2>1, <2>3, <2>4, <2>5 DEF RoundStep
<1> QED
  BY <1>1, <1>2, TrimInvariant, PTL DEF Spec, TrimsExactly, Contract!Spec
=============================================================================
