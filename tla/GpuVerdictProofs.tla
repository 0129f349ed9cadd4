-------------------------- MODULE GpuVerdictProofs --------------------------
(***************************************************************************)
(* Proofs about what the GPU solvers do with the survivors, for every set  *)
(* of them and every graph: of PeelTwoCore first, then of GpuVerdict and   *)
(* the two searches it chooses from.                                       *)
(***************************************************************************)
EXTENDS GpuVerdict, GraphProofs

(***************************************************************************)
(* The inductive invariant of the worklist: a group is queued if and only  *)
(* if it has no live mate, and a group that has left the queue has no live *)
(* edge.                                                                   *)
(***************************************************************************)
Mateless(g) == HasMateGroup(g) => live[MateGroup(g)] = 0

QueuedAreMateless == \A g \in queued : Mateless(g)

MatelessAreQueued == pc # "seed" => \A g \in Groups : Mateless(g) => g \in queued

PeeledAreEmpty == \A g \in queued \ queue : Members(g, alive) = {}

Phases == (pc = "seed" => queued = {}) /\ (pc = "done" => queue = {})

IInv == TypeOK /\ QueuedAreMateless /\ MatelessAreQueued /\ PeeledAreEmpty /\ Phases

-----------------------------------------------------------------------------
(* Groups and their counts *)

LEMMA MembersFinite ==
    ASSUME NEW g, NEW S \in SUBSET Edges
    PROVE  IsFiniteSet(Members(g, S)) /\ Cardinality(Members(g, S)) \in Nat
           /\ (Cardinality(Members(g, S)) = 0 <=> Members(g, S) = {})
  <1>1. Members(g, S) \in SUBSET Edges
      BY DEF Members
  <1>. QED
      BY <1>1, PeelAssumption, FS_Subset, FS_EmptySet, FS_CardinalityType

LEMMA GroupFacts ==
    ASSUME NEW g \in Groups
    PROVE  MateGroup(MateGroup(g)) = g
  <1>1. PICK side \in Sides, n \in Nodes : g = <<side, n>>
      BY DEF Groups
  <1>2. n \in Nat
      BY PeelAssumption
  <1>3. MateGroup(g) = <<side, Mate(n)>>
      BY <1>1 DEF MateGroup
  <1>4. MateGroup(MateGroup(g)) = <<side, Mate(Mate(n))>>
      BY <1>3 DEF MateGroup
  <1>. QED
      BY <1>1, <1>2, <1>4, MateTwice

\* An edge is in a group on either side.
LEMMA EdgeGroup ==
    ASSUME ends \in Graphs(Edges, Nodes), NEW e \in Edges, NEW side \in Sides
    PROVE  <<side, ends[e][side]>> \in Groups
  BY DEF Groups, Members, Graphs

\* The members of a group's mate group are its members' mates.
LEMMA MateMembers ==
    ASSUME NEW e, NEW side, NEW S, HasMate(ends, S, e, side)
    PROVE  Members(MateGroup(<<side, ends[e][side]>>), S) # {}
  BY DEF HasMate, Meets, Members, MateGroup

\* Taking the dying edges off keeps a count right.
LEMMA CountDown ==
    ASSUME NEW g, NEW h, alive \subseteq Edges
    PROVE  Cardinality(Members(h, alive)) - Cardinality(Members(h, Dying(g)))
              = Cardinality(Members(h, alive \ Dying(g)))
  <1>1. Members(h, alive \ Dying(g)) = Members(h, alive) \ Members(h, Dying(g))
      BY DEF Members, Dying
  <1>2. Members(h, alive) \cap Members(h, Dying(g)) = Members(h, Dying(g))
      BY DEF Members, Dying
  <1>3. IsFiniteSet(Members(h, alive))
      BY MembersFinite
  <1>4. Cardinality(Members(h, alive) \ Members(h, Dying(g)))
           = Cardinality(Members(h, alive)) - Cardinality(Members(h, alive) \cap Members(h, Dying(g)))
      BY <1>3, FS_Difference
  <1>. QED
      BY <1>1, <1>2, <1>4

-----------------------------------------------------------------------------
(* The invariant *)

LEMMA InitIInv == Init => IInv
  <1> SUFFICES ASSUME Init PROVE IInv
      OBVIOUS
  <1>. QED
      BY PeelAssumption DEF Init, IInv, TypeOK, QueuedAreMateless, MatelessAreQueued, PeeledAreEmpty, Phases

\* A step of the worklist.
LEMMA PeelFacts ==
    ASSUME IInv, NEW g \in queue, PeelGroup(g)
    PROVE  /\ pc = "peel" /\ pc' = "peel" /\ ends' = ends
           /\ alive' = alive \ Dying(g)
           /\ live' = [h \in Groups |-> Cardinality(Members(h, alive'))]
           /\ \A h \in Groups : live'[h] <= live[h] /\ live[h] \in Nat /\ live'[h] \in Nat
  <1>1. /\ pc = "peel" /\ pc' = "peel" /\ ends' = ends /\ alive' = alive \ Dying(g)
        /\ live' = [h \in Groups |-> live[h] - Cardinality(Members(h, Dying(g)))]
      BY DEF PeelGroup, IInv
  <1>2. /\ alive \subseteq Edges /\ live = [h \in Groups |-> Cardinality(Members(h, alive))]
        /\ Dying(g) \subseteq Edges
      BY DEF IInv, TypeOK, Dying, Members
  <1>3. \A h \in Groups : live'[h] = Cardinality(Members(h, alive'))
      BY <1>1, <1>2, CountDown
  <1>4. \A h \in Groups : /\ live[h] \in Nat /\ Cardinality(Members(h, Dying(g))) \in Nat
                          /\ live'[h] = live[h] - Cardinality(Members(h, Dying(g)))
      BY <1>1, <1>2, MembersFinite
  <1>5. \A h \in Groups : live'[h] \in Nat
      BY <1>1, <1>2, <1>3, MembersFinite
  <1>6. \A h \in Groups : live'[h] <= live[h]
      BY <1>4
  <1>7. live' = [h \in Groups |-> Cardinality(Members(h, alive'))]
      BY <1>1, <1>3
  <1>. QED
      BY <1>1, <1>4, <1>5, <1>6, <1>7

LEMMA NextIInv == IInv /\ [Next]_vars => IInv'
  <1> SUFFICES ASSUME IInv, [Next]_vars PROVE IInv'
      OBVIOUS
  <1>1. CASE Seed
    <2>1. TypeOK' /\ Phases'
        BY <1>1 DEF Seed, IInv, TypeOK, Phases, Groups, Members
    <2>2. QueuedAreMateless' /\ MatelessAreQueued' /\ PeeledAreEmpty'
        BY <1>1 DEF Seed, QueuedAreMateless, MatelessAreQueued, PeeledAreEmpty, Mateless,
                    HasMateGroup, MateGroup, Groups, Members
    <2>. QED
        BY <2>1, <2>2 DEF IInv
  <1>2. ASSUME NEW g \in queue, PeelGroup(g)
        PROVE  IInv'
    <2>1. /\ pc = "peel" /\ pc' = "peel" /\ ends' = ends
          /\ alive' = alive \ Dying(g)
          /\ live' = [h \in Groups |-> Cardinality(Members(h, alive'))]
          /\ \A h \in Groups : live'[h] <= live[h] /\ live[h] \in Nat /\ live'[h] \in Nat
        BY <1>2, PeelFacts
    <2>2. Groups' = Groups /\ \A h, S : Members(h, S)' = Members(h, S')
        BY <2>1 DEF Groups, Members
    <2> DEFINE new == {MateGroup(h) : h \in {i \in Groups : /\ live[i] # 0 /\ live'[i] = 0
                                                           /\ HasMateGroup(i)}} \ queued
    <2>3. queue' = (queue \ {g}) \union new /\ queued' = queued \union new
        BY <1>2 DEF PeelGroup, Bereaved
    <2>4. \A h : HasMateGroup(h)' <=> HasMateGroup(h)
        BY <2>2 DEF HasMateGroup, MateGroup
    <2>5. new \subseteq Groups
        BY DEF HasMateGroup
    <2>6. TypeOK'
        BY <2>1, <2>2, <2>3, <2>5 DEF IInv, TypeOK, Members
    <2>7. QueuedAreMateless'
      <3> SUFFICES ASSUME NEW h \in queued', HasMateGroup(h) PROVE live'[MateGroup(h)] = 0
          BY <2>4 DEF QueuedAreMateless, Mateless
      <3>1. CASE h \in queued
          BY <2>1, <3>1 DEF IInv, QueuedAreMateless, Mateless, HasMateGroup
      <3>2. CASE h \in new
          BY <3>2, GroupFacts
      <3>. QED
          BY <2>3, <3>1, <3>2
    <2>8. MatelessAreQueued'
      <3> SUFFICES ASSUME NEW h \in Groups, HasMateGroup(h) => live'[MateGroup(h)] = 0
                   PROVE  h \in queued'
          BY <2>2, <2>4 DEF MatelessAreQueued, Mateless, MateGroup
      <3>1. CASE Mateless(h)
          BY <2>1, <2>3, <3>1 DEF IInv, MatelessAreQueued
      <3>2. CASE ~Mateless(h)
        <4>1. MateGroup(h) \in Groups /\ live[MateGroup(h)] # 0 /\ live'[MateGroup(h)] = 0
            BY <3>2 DEF Mateless, HasMateGroup
        <4>2. MateGroup(MateGroup(h)) = h /\ HasMateGroup(MateGroup(h))
            BY GroupFacts DEF HasMateGroup
        <4>. QED
            BY <2>3, <4>1, <4>2
      <3>. QED
          BY <3>1, <3>2
    <2>9. PeeledAreEmpty'
      <3> SUFFICES ASSUME NEW h \in queued' \ queue' PROVE Members(h, alive') = {}
          BY <2>2 DEF PeeledAreEmpty
      <3>1. h = g \/ h \in queued \ queue
          BY <2>3
      <3>2. Members(g, alive') = {}
          BY <2>1 DEF Dying, Members
      <3>. QED
          BY <2>1, <3>1, <3>2 DEF IInv, PeeledAreEmpty, Members
    <2>. QED
        BY <2>1, <2>6, <2>7, <2>8, <2>9 DEF IInv, Phases
  <1>3. ASSUME UNCHANGED <<ends, alive, live, queue, queued>>, pc' = pc \/ Drained
        PROVE  IInv'
    <2>1. Groups' = Groups /\ (\A h, S : Members(h, S)' = Members(h, S'))
          /\ \A h : Mateless(h)' <=> Mateless(h)
        BY <1>3 DEF Groups, Members, Mateless, HasMateGroup, MateGroup
    <2>2. /\ pc' \in {"seed", "peel", "done"} /\ Phases' /\ (pc' # "seed" => pc # "seed")
        BY <1>3 DEF IInv, TypeOK, Phases, Drained
    <2>3. TypeOK'
        BY <1>3, <2>1, <2>2 DEF IInv, TypeOK, Members
    <2>4. QueuedAreMateless' /\ MatelessAreQueued'
        BY <1>3, <2>1, <2>2 DEF IInv, QueuedAreMateless, MatelessAreQueued
    <2>5. PeeledAreEmpty'
        BY <1>3, <2>1 DEF IInv, PeeledAreEmpty, Members
    <2>. QED
        BY <2>2, <2>3, <2>4, <2>5 DEF IInv
  <1>. QED
      BY <1>1, <1>2, <1>3 DEF Next, Returned, Drained, vars

\* The counters are the numbers of live edges, whatever groups an edge is in and
\* whatever the order of the queue: none is ever taken below zero.
THEOREM CountsTheLiving == Spec => []TypeOK
  <1>1. IInv => TypeOK
      BY DEF IInv
  <1>. QED
      BY <1>1, InitIInv, NextIInv, PTL DEF Spec

-----------------------------------------------------------------------------
(* The core *)

\* A queued group has no member in a closed set of live edges.
LEMMA NextKeeps ==
    ASSUME IInv, KeepsClosedSets, [Next]_vars
    PROVE  KeepsClosedSets'
  <1>1. ASSUME NEW g \in queue, PeelGroup(g)
        PROVE  KeepsClosedSets'
    <2>1. ends' = ends /\ alive' = alive \ Dying(g)
        BY <1>1, PeelFacts
    <2> SUFFICES ASSUME NEW C \in SUBSET Edges, Closed(ends, C), NEW e \in C, e \in Dying(g)
                 PROVE  FALSE
        BY <2>1 DEF KeepsClosedSets
    <2>2. C \subseteq alive /\ g \in Groups /\ g \in queued
        BY DEF KeepsClosedSets, IInv, TypeOK
    <2>3. g[1] \in Sides /\ g = <<g[1], ends[e][g[1]]>>
        BY <2>2 DEF Dying, Members, Groups
    <2>4. PICK f \in C : f \in Members(MateGroup(g), C)
        BY <2>3, MateMembers DEF Closed, Members
    <2>5. MateGroup(g) \in Sides \X Nodes
        BY <2>2, <2>3, <2>4 DEF MateGroup, Members, IInv, TypeOK, Graphs
    <2>6. HasMateGroup(g) /\ Members(MateGroup(g), alive) # {}
        BY <2>2, <2>4, <2>5 DEF HasMateGroup, Groups, Members
    <2>7. live[MateGroup(g)] # 0
        BY <2>6, MembersFinite DEF IInv, TypeOK, HasMateGroup
    <2>. QED
        BY <2>2, <2>6, <2>7 DEF IInv, QueuedAreMateless, Mateless
  <1>2. CASE UNCHANGED <<ends, alive>>
      BY <1>2 DEF KeepsClosedSets
  <1>3. (\E g \in queue : PeelGroup(g)) \/ UNCHANGED <<ends, alive>>
      BY DEF Next, vars, Seed, Drained, Returned
  <1>. QED
      BY <1>1, <1>2, <1>3

\* No cycle loses an edge to the peeling.
THEOREM PeelingKeepsCycles == Spec => []KeepsClosedSets
  <1>1. Init => KeepsClosedSets
      BY DEF Init, KeepsClosedSets
  <1>. QED
      BY <1>1, NextKeeps, InitIInv, NextIInv, PTL DEF Spec

\* What is left is closed when the queue has drained.
LEMMA DrainedIsClosed ==
    ASSUME IInv, pc = "done"
    PROVE  Closed(ends, alive)
  <1> SUFFICES ASSUME NEW e \in alive, NEW side \in Sides, ~HasMate(ends, alive, e, side)
               PROVE  FALSE
      BY DEF Closed
  <1> DEFINE g == <<side, ends[e][side]>>
  <1>1. g \in Groups /\ e \in Members(g, alive)
      BY EdgeGroup DEF IInv, TypeOK, Members
  <1>2. Members(MateGroup(g), alive) = {}
      BY DEF HasMate, Meets, Members, MateGroup
  <1>3. Mateless(g)
      BY <1>2, MembersFinite DEF Mateless, HasMateGroup, IInv, TypeOK
  <1>4. g \in queued \ queue
      BY <1>1, <1>3 DEF IInv, MatelessAreQueued, Phases
  <1>. QED
      BY <1>1, <1>4 DEF IInv, PeeledAreEmpty

LEMMA PeelIsCore ==
    ASSUME IInv, KeepsClosedSets
    PROVE  PeelsToTheCore
  <1> SUFFICES ASSUME pc = "done" PROVE alive = Core(ends, Edges)
      BY DEF PeelsToTheCore
  <1>1. alive \in SUBSET Edges /\ Closed(ends, alive)
      BY DrainedIsClosed DEF IInv, TypeOK
  <1>. QED
      BY <1>1 DEF Core, KeepsClosedSets

\* What peel_two_core returns is exactly the core of the survivors: all of it,
\* and nothing else, in whatever order the groups leave the queue.
THEOREM ReturnsTheCore == Spec => []PeelsToTheCore
  <1>1. Init => KeepsClosedSets
      BY DEF Init, KeepsClosedSets
  <1>. QED
      BY <1>1, PeelIsCore, NextKeeps, InitIInv, NextIInv, PTL DEF Spec

-----------------------------------------------------------------------------
(* The survivors of the peel, and the search for the requested length       *)

LEMMA VerdictConstants ==
    /\ Half \in Nat \ {0, 1} /\ OtherLength \in Nat \ {0} /\ 2 * Half \in Nat \ {0}
    /\ OtherLength # 2 * Half /\ IsFiniteSet(Edges) /\ Nodes \subseteq Nat
  BY PeelAssumption, GpuVerdictAssumption

LEMMA SurvivorsFinite ==
    ASSUME TypeOK
    PROVE  Finite(Survivors)
  <1>1. IsFiniteSet(alive)
      BY VerdictConstants, FS_Subset DEF TypeOK
  <1>2. \A e \in alive, side \in Sides : ends[e][side] \in Nat
      BY VerdictConstants DEF TypeOK, Graphs
  <1>. QED
      BY <1>1, <1>2 DEF Finite, Numbered, Survivors

\* The peeled survivors have the cycles of all of them, of whatever length.
LEMMA SurvivorCycles ==
    ASSUME TypeOK, KeepsClosedSets, NEW L
    PROVE  Cycles(Survivors, DOMAIN Survivors, L) = Cycles(ends, Edges, L)
  <1>1. DOMAIN Survivors = alive
      BY DEF Survivors
  <1>2. Cycles(Survivors, alive, L) = Cycles(ends, alive, L)
      BY CyclesOfPart DEF Survivors
  <1>3. \A P \in SUBSET Edges : IsCycle(ends, P, L) => P \in SUBSET alive
      BY DEF KeepsClosedSets, IsCycle
  <1>. QED
      BY <1>1, <1>2, <1>3 DEF Cycles, TypeOK

\* CycleSearch's operators are those of GraphProofs.
LEMMA GenericVerify ==
    ASSUME NEW g, NEW P
    PROVE  Generic!Verify(g, P, OtherLength) <=> Verify(g, P, OtherLength)
  <1>1. \A S : Generic!Cardinality(S) = Cardinality(S)
      BY DEF Generic!Cardinality, Cardinality
  <1>2. \A e, side : Generic!MatesIn(g, P, e, side) = MatesIn(g, P, e, side)
      BY DEF Generic!MatesIn, MatesIn, Generic!Meets, Meets, Generic!Mate, Mate
  <1>3. Generic!OneMate(g, P) <=> OneMate(g, P)
      BY <1>1, <1>2 DEF Generic!OneMate, OneMate, Generic!Sides, Sides
  <1>4. \A start, n : Generic!Walk(g, P, start, n) = Walk(g, P, start, n)
      BY DEF Generic!Walk, Walk, Generic!MatesIn, MatesIn, Generic!Meets, Meets,
             Generic!Sides, Sides, Generic!Mate, Mate
  <1>5. Generic!SingleCycle(g, P, OtherLength) <=> SingleCycle(g, P, OtherLength)
      BY <1>4 DEF Generic!SingleCycle, SingleCycle
  <1>. QED
      BY <1>1, <1>3, <1>5 DEF Generic!Verify, Verify

LEMMA GenericMeets ==
    ASSUME NEW e, NEW f, NEW side
    PROVE  Generic!Meets(Survivors, e, f, side) <=> Meets(Survivors, e, f, side)
  BY DEF Generic!Meets, Meets, Generic!Mate, Mate

LEMMA GenericGiven == Generic!Given = DOMAIN Survivors
  BY DEF Generic!Given, Survivors

LEMMA GenericCandidates ==
    ASSUME NEW p
    PROVE  Generic!Candidates(p) = Cands(Survivors, p)
  <1>1. Generic!Last(p) = p[Len(p)]
      BY DEF Generic!Last
  <1>2. Generic!Candidates(p) = {f \in DOMAIN Survivors :
            Generic!Meets(Survivors, p[Len(p)], f, (Len(p) - 1) % 2)}
      BY <1>1, GenericGiven DEF Generic!Candidates, Survivors
  <1>. QED
      BY <1>2, GenericMeets DEF Cands

\* The edges of the path.
LEMMA GenericPath ==
    ASSUME SearchInv(Survivors, OtherLength, starts, path, frames, found, "search")
    PROVE  /\ path \in Seq(DOMAIN Survivors) /\ path # <<>> /\ Len(path) \in Nat \ {0}
           /\ frames \in Seq(SUBSET DOMAIN Survivors)
           /\ frames # <<>> /\ Len(frames) = Len(path)
           /\ Generic!Range(path) = {path[i] : i \in 1..Len(path)}
           /\ Generic!Range(path) \in SUBSET DOMAIN Survivors
           /\ Generic!Untried = frames[Len(path)]
  <1>1. /\ path \in Seq(DOMAIN Survivors) /\ path # <<>>
        /\ frames \in Seq(SUBSET DOMAIN Survivors) /\ Len(frames) = Len(path)
      BY DEF SearchInv, Stacks
  <1>2. Len(path) \in Nat \ {0}
      BY <1>1, EmptySeq
  <1>3. frames # <<>>
      BY <1>1, <1>2, EmptySeq
  <1>4. Generic!Range(path) = {path[i] : i \in 1..Len(path)}
      BY <1>1, LenProperties DEF Generic!Range
  <1>5. \A i \in 1..Len(path) : path[i] \in DOMAIN Survivors
      BY <1>1, ElementOfSeq
  <1>6. Generic!Untried = frames[Len(path)]
      BY <1>1, <1>3 DEF Generic!Untried, Generic!Last
  <1>. QED
      BY <1>1, <1>2, <1>3, <1>4, <1>5, <1>6

\* Every step of the search keeps its invariant.
LEMMA GenericKeeps ==
    ASSUME TypeOK, SearchInv(Survivors, OtherLength, starts, path, frames, found, spc),
           Generic!Step
    PROVE  SearchInv(Survivors, OtherLength, starts', path', frames', found', spc')
           /\ spc' # "idle" /\ spc # "idle"
  <1> DEFINE L == OtherLength
             g == Survivors
  <1>0. L \in Nat \ {0} /\ Finite(g)
      BY VerdictConstants, SurvivorsFinite
  <1> HIDE DEF L, g
  <1>1. CASE Generic!TooFew
    <2>1. /\ spc = "begin" /\ spc' = "none" /\ Cardinality(DOMAIN g) < L
          /\ UNCHANGED <<starts, path, frames, found>>
        BY <1>1, GenericGiven DEF Generic!TooFew, Generic!Cardinality, Cardinality, g, L
    <2>. QED
        BY <1>0, <2>1, SearchTooFew DEF g, L
  <1>2. CASE Generic!Start
    <2>1. PICK start \in starts :
              /\ spc = "begin" /\ spc' = "search" /\ found' = found
              /\ starts' = starts \ {start} /\ path' = <<start>>
              /\ frames' = <<Generic!Candidates(<<start>>)>>
        BY <1>2 DEF Generic!Start
    <2>2. frames' = <<Cands(g, <<start>>)>>
        BY <2>1, GenericCandidates DEF g
    <2>. QED
        BY <1>0, <2>1, <2>2, SearchStarts DEF g, L
  <1>3. CASE Generic!Exhausted
    <2>1. /\ spc = "begin" /\ spc' = "none" /\ starts = {}
          /\ UNCHANGED <<starts, path, frames, found>>
        BY <1>3 DEF Generic!Exhausted
    <2>. QED
        BY <1>0, <2>1, SearchExhausted DEF g, L
  <1>4. CASE Generic!OverBudget
    <2>1. spc = "search" /\ spc' = "limit" /\ UNCHANGED <<starts, path, frames, found>>
        BY <1>4 DEF Generic!OverBudget, Generic!Branch
    <2>. QED
        BY <2>1, SearchGivesUp
  <1>5. ASSUME NEW next \in Generic!Untried, Generic!Descend(next)
        PROVE  SearchInv(Survivors, OtherLength, starts', path', frames', found', spc')
               /\ spc' # "idle" /\ spc # "idle"
    <2>1. /\ spc = "search" /\ spc' = spc /\ Len(path) # L /\ UNCHANGED <<starts, found>>
          /\ path' = Append(path, next)
          /\ frames' = Append([frames EXCEPT ![Len(path)] = @ \ {next}], Cands(g, path'))
        BY <1>5, GenericCandidates
        DEF Generic!Descend, Generic!Branch, Generic!Full, g, L
    <2>2. next \in frames[Len(path)]
        BY <1>5, <2>1, GenericPath
    <2>. QED
        BY <1>0, <2>1, <2>2, SearchDescends DEF g, L
  <1>6. ASSUME NEW next \in Generic!Untried, Generic!Skip(next)
        PROVE  SearchInv(Survivors, OtherLength, starts', path', frames', found', spc')
               /\ spc' # "idle" /\ spc # "idle"
    <2>1. /\ spc = "search" /\ spc' = spc /\ Len(path) # L
          /\ UNCHANGED <<starts, path, found>>
          /\ next \in Generic!Range(path)
          /\ frames' = [frames EXCEPT ![Len(path)] = @ \ {next}]
        BY <1>6 DEF Generic!Skip, Generic!Branch, Generic!Full, L
    <2>2. next \in frames[Len(path)] /\ \E seen \in 1..Len(path) : path[seen] = next
        BY <1>6, <2>1, GenericPath
    <2>. QED
        BY <1>0, <2>1, <2>2, SearchSkips DEF g, L
  <1>7. CASE Generic!Found
    <2>1. /\ spc = "search" /\ spc' = "found" /\ UNCHANGED <<starts, path, frames>>
          /\ found' = Generic!Range(path)
          /\ Verify(g, Generic!Range(path), L)
        BY <1>7, GenericVerify DEF Generic!Found, Generic!Closes, g, L, Survivors
    <2>2. Generic!Range(path) \in SUBSET DOMAIN g
        BY <2>1, GenericPath DEF g
    <2>. QED
        BY <1>0, <2>1, <2>2, SearchFinds DEF g, L
  <1>8. CASE Generic!Backtrack
    <2>1. /\ spc = "search" /\ UNCHANGED <<starts, found>>
          /\ path' = SubSeq(path, 1, Len(path) - 1)
          /\ frames' = SubSeq(frames, 1, Len(frames) - 1)
          /\ spc' = IF Len(path) = 1 THEN "begin" ELSE "search"
        BY <1>8 DEF Generic!Backtrack, Generic!Front
    <2>2. Generic!DeadEnd
        BY <1>8 DEF Generic!Backtrack
    <2>3. IF Len(path) = L
          THEN ~ /\ Meets(g, path[Len(path)], path[1], (Len(path) - 1) % 2)
                 /\ Verify(g, {path[i] : i \in 1..Len(path)}, L)
          ELSE frames[Len(path)] = {}
      <3>1. CASE Len(path) = L
        <4>1. ~Generic!Closes
            BY <2>2, <3>1 DEF Generic!DeadEnd, Generic!Full, L
        <4>2. Generic!Closes <=> /\ Generic!Meets(g, path[Len(path)], path[1], (Len(path) - 1) % 2)
                                /\ Generic!Verify(g, Generic!Range(path), L)
            BY DEF Generic!Closes, Generic!Last, g, L, Survivors
        <4>3. Generic!Range(path) = {path[i] : i \in 1..Len(path)}
            BY <2>1, GenericPath
        <4>. QED
            BY <3>1, <4>1, <4>2, <4>3, GenericVerify, GenericMeets DEF g, L
      <3>2. CASE Len(path) # L
        <4>1. Generic!Untried = {}
            BY <2>2, <3>2 DEF Generic!DeadEnd, Generic!Full, L
        <4>. QED
            BY <2>1, <3>2, <4>1, GenericPath
      <3>. QED
          BY <3>1, <3>2
    <2>. QED
        BY <1>0, <2>1, <2>3, SearchBacktracks DEF g, L
  <1>. QED
      BY <1>1, <1>2, <1>3, <1>4, <1>5, <1>6, <1>7, <1>8 DEF Generic!Step

-----------------------------------------------------------------------------
(* The search two edges at a time *)

LEMMA D2Verify ==
    ASSUME NEW g, NEW P, NEW L
    PROVE  D2!Verify(g, P, L) <=> Verify(g, P, L)
  <1>1. \A S : D2!Cardinality(S) = Cardinality(S)
      BY DEF D2!Cardinality, Cardinality
  <1>2. \A e, side : D2!MatesIn(g, P, e, side) = MatesIn(g, P, e, side)
      BY DEF D2!MatesIn, MatesIn, D2!Meets, Meets, D2!Mate, Mate
  <1>3. D2!OneMate(g, P) <=> OneMate(g, P)
      BY <1>1, <1>2 DEF D2!OneMate, OneMate, D2!Sides, Sides
  <1>4. \A start, n : D2!Walk(g, P, start, n) = Walk(g, P, start, n)
      BY DEF D2!Walk, Walk, D2!MatesIn, MatesIn, D2!Meets, Meets,
             D2!Sides, Sides, D2!Mate, Mate
  <1>5. D2!SingleCycle(g, P, L) <=> SingleCycle(g, P, L)
      BY <1>4 DEF D2!SingleCycle, SingleCycle
  <1>. QED
      BY <1>1, <1>3, <1>5 DEF D2!Verify, Verify

LEMMA D2Given == D2!Given = DOMAIN Survivors
  BY DEF D2!Given, Survivors

LEMMA D2Arcs ==
    ASSUME NEW src
    PROVE  D2!Arcs(src) = ArcsFrom(Survivors, src)
  <1>1. \A e, f, side : D2!Meets(Survivors, e, f, side) <=> Meets(Survivors, e, f, side)
      BY DEF D2!Meets, Meets, D2!Mate, Mate
  <1>2. D2!Arcs(src) = {a \in [dst : DOMAIN Survivors, mid : DOMAIN Survivors] :
            /\ a.mid # src /\ D2!Meets(Survivors, src, a.mid, 0)
            /\ a.dst # src /\ D2!Meets(Survivors, a.mid, a.dst, 1)}
      BY D2Given DEF D2!Arcs, D2!Arc, Survivors
  <1>. QED
      BY <1>1, <1>2 DEF ArcsFrom

\* The edges of the walk.
LEMMA D2Path ==
    ASSUME D2Inv(Survivors, Half, starts, path, mids, frames, found, "search")
    PROVE  /\ path \in Seq(DOMAIN Survivors) /\ path # <<>> /\ Len(path) \in Nat \ {0}
           /\ Len(path) <= Half
           /\ mids \in Seq(DOMAIN Survivors) /\ Len(mids) = Len(path) - 1
           /\ frames \in Seq(SUBSET [dst : DOMAIN Survivors, mid : DOMAIN Survivors])
           /\ frames # <<>> /\ Len(frames) = Len(path)
           /\ D2!Range(path) = {path[i] : i \in 1..Len(path)}
           /\ D2!Range(mids) = {mids[i] : i \in 1..Len(mids)}
           /\ D2!Untried = frames[Len(path)]
           /\ frames[Len(path)] \in SUBSET [dst : DOMAIN Survivors, mid : DOMAIN Survivors]
  <1>1. /\ path \in Seq(DOMAIN Survivors) /\ path # <<>> /\ mids \in Seq(DOMAIN Survivors)
        /\ frames \in Seq(SUBSET [dst : DOMAIN Survivors, mid : DOMAIN Survivors])
        /\ Len(frames) = Len(path) /\ Len(path) <= Half /\ Len(mids) = Len(path) - 1
      BY DEF D2Inv, ArcStacks
  <1>2. Len(path) \in Nat \ {0}
      BY <1>1, EmptySeq
  <1>3. frames # <<>>
      BY <1>1, <1>2, EmptySeq
  <1>4. D2!Range(path) = {path[i] : i \in 1..Len(path)}
      BY <1>1, LenProperties DEF D2!Range
  <1>5. D2!Range(mids) = {mids[i] : i \in 1..Len(mids)}
      BY <1>1, LenProperties DEF D2!Range
  <1>6. D2!Untried = frames[Len(path)]
      BY <1>1, <1>3 DEF D2!Untried, D2!Last
  <1>7. frames[Len(path)] \in SUBSET [dst : DOMAIN Survivors, mid : DOMAIN Survivors]
      BY <1>1, <1>2, ElementOfSeq
  <1>. QED
      BY <1>1, <1>2, <1>3, <1>4, <1>5, <1>6, <1>7

\* The edges of the walk that an arc closes.
LEMMA D2Nonces ==
    ASSUME D2Inv(Survivors, Half, starts, path, mids, frames, found, "search"),
           NEW arc \in D2!Untried
    PROVE  /\ arc \in frames[Len(path)]
           /\ D2!Nonces(arc) = Walked(path, mids, arc.mid)
           /\ D2!Nonces(arc) \in SUBSET DOMAIN Survivors
           /\ D2!Closes(arc) <=> /\ arc.dst = path[1] /\ Len(path) = Half
                                 /\ Verify(Survivors, Walked(path, mids, arc.mid), 2 * Half)
  <1>1. arc \in frames[Len(path)] /\ arc.mid \in DOMAIN Survivors
      BY D2Path
  <1>2. D2!Nonces(arc) = Walked(path, mids, arc.mid)
      BY D2Path DEF D2!Nonces, Walked
  <1>3. /\ \A i \in 1..Len(path) : path[i] \in DOMAIN Survivors
        /\ \A i \in 1..Len(mids) : mids[i] \in DOMAIN Survivors
      BY D2Path, ElementOfSeq
  <1>4. D2!Nonces(arc) \in SUBSET DOMAIN Survivors
      BY <1>1, <1>3, D2Path DEF D2!Nonces
  <1>5. D2!Closes(arc) <=> /\ arc.dst = path[1] /\ Len(path) = Half
                           /\ D2!Verify(Survivors, Walked(path, mids, arc.mid), 2 * Half)
      BY <1>2 DEF D2!Closes, D2!CycleLength, Survivors
  <1>. QED
      BY <1>1, <1>2, <1>4, <1>5, D2Verify

\* Every step of the search keeps its invariant.
LEMMA D2Keeps ==
    ASSUME TypeOK, D2Inv(Survivors, Half, starts, path, mids, frames, found, spc), D2!Step
    PROVE  D2Inv(Survivors, Half, starts', path', mids', frames', found', spc')
           /\ spc' # "idle" /\ spc # "idle"
  <1> DEFINE g == Survivors
  <1>0. Half \in Nat \ {0, 1} /\ Finite(g)
      BY VerdictConstants, SurvivorsFinite
  <1> HIDE DEF g
  <1>1. CASE D2!TooFew
    <2>1. /\ spc = "build" /\ spc' = "none" /\ Cardinality(DOMAIN g) < 2 * Half
          /\ UNCHANGED <<starts, path, mids, frames, found>>
        BY <1>1, D2Given DEF D2!TooFew, D2!Cardinality, Cardinality, D2!CycleLength, g
    <2>. QED
        BY <1>0, <2>1, D2TooFew DEF g
  <1>2. CASE D2!Overflow \/ D2!Built
    <2>1. /\ spc = "build" /\ spc' \in {"begin", "limit"}
          /\ UNCHANGED <<starts, path, mids, frames, found>>
        BY <1>2 DEF D2!Overflow, D2!Built
    <2>. QED
        BY <2>1, D2Built
  <1>3. CASE D2!Start
    <2>1. PICK start \in starts :
              /\ spc = "begin" /\ UNCHANGED <<found, mids>>
              /\ starts' = starts \ {start}
              /\ \/ path' = <<start>> /\ frames' = <<D2!Arcs(start)>> /\ spc' = "search"
                 \/ D2!Arcs(start) = {} /\ UNCHANGED <<path, frames, spc>>
        BY <1>3 DEF D2!Start
    <2>2. D2!Arcs(start) = ArcsFrom(g, start)
        BY D2Arcs DEF g
    <2>3. CASE path' = <<start>> /\ frames' = <<D2!Arcs(start)>> /\ spc' = "search"
        BY <1>0, <2>1, <2>2, <2>3, D2Starts DEF g
    <2>4. CASE D2!Arcs(start) = {} /\ UNCHANGED <<path, frames, spc>>
        BY <1>0, <2>1, <2>2, <2>4, D2StartsNot DEF g
    <2>. QED
        BY <2>1, <2>3, <2>4
  <1>4. CASE D2!Exhausted
    <2>1. /\ spc = "begin" /\ spc' = "none" /\ starts = {}
          /\ UNCHANGED <<starts, path, mids, frames, found>>
        BY <1>4 DEF D2!Exhausted
    <2>. QED
        BY <1>0, <2>1, D2Exhausted DEF g
  <1>5. CASE D2!OverBudget
    <2>1. /\ spc = "search" /\ spc' = "limit"
          /\ UNCHANGED <<starts, path, mids, frames, found>>
        BY <1>5 DEF D2!OverBudget, D2!Branch
    <2>. QED
        BY <2>1, D2GivesUp
  <1>6. ASSUME NEW arc \in D2!Untried, D2!Found(arc)
        PROVE  D2Inv(Survivors, Half, starts', path', mids', frames', found', spc')
               /\ spc' # "idle" /\ spc # "idle"
    <2>1. /\ spc = "search" /\ spc' = "found" /\ UNCHANGED <<starts, path, mids, frames>>
          /\ found' = D2!Nonces(arc) /\ D2!Closes(arc)
        BY <1>6 DEF D2!Found, D2!Branch
    <2>2. D2!Nonces(arc) \in SUBSET DOMAIN g /\ Verify(g, D2!Nonces(arc), 2 * Half)
        BY <2>1, D2Nonces DEF g
    <2>. QED
        BY <1>0, <2>1, <2>2, D2Finds DEF g
  <1>7. ASSUME NEW arc \in D2!Untried, D2!Skip(arc)
        PROVE  D2Inv(Survivors, Half, starts', path', mids', frames', found', spc')
               /\ spc' # "idle" /\ spc # "idle"
    <2>1. /\ spc = "search" /\ spc' = spc /\ UNCHANGED <<starts, path, mids, found>>
          /\ frames' = [frames EXCEPT ![Len(path)] = @ \ {arc}]
          /\ arc.dst \in D2!Range(path) \/ Len(path) = Half
          /\ ~D2!Closes(arc)
        BY <1>7 DEF D2!Skip, D2!Branch, D2!Blocked, D2!Taken
    <2>2. \/ \E i \in 1..Len(path) : path[i] = arc.dst
          \/ Len(path) = Half
        BY <2>1, D2Path
    <2>3. /\ arc \in frames[Len(path)]
          /\ ~ /\ arc.dst = path[1] /\ Len(path) = Half
               /\ Verify(g, Walked(path, mids, arc.mid), 2 * Half)
        BY <2>1, D2Nonces DEF g
    <2>. QED
        BY <1>0, <2>1, <2>2, <2>3, D2Skips DEF g
  <1>8. ASSUME NEW arc \in D2!Untried, D2!Descend(arc)
        PROVE  D2Inv(Survivors, Half, starts', path', mids', frames', found', spc')
               /\ spc' # "idle" /\ spc # "idle"
    <2>1. /\ spc = "search" /\ spc' = spc /\ UNCHANGED <<starts, found>> /\ Len(path) # Half
          /\ path' = Append(path, arc.dst) /\ mids' = Append(mids, arc.mid)
          /\ frames' = Append([frames EXCEPT ![Len(path)] = @ \ {arc}], ArcsFrom(g, arc.dst))
        BY <1>8, D2Arcs DEF D2!Descend, D2!Branch, D2!Blocked, D2!Taken, g
    <2>2. arc \in frames[Len(path)]
        BY <2>1, D2Nonces
    <2>. QED
        BY <1>0, <2>1, <2>2, D2Descends DEF g
  <1>9. CASE D2!Backtrack
    <2>1. /\ spc = "search" /\ UNCHANGED <<starts, found>> /\ D2!Untried = {}
          /\ path' = SubSeq(path, 1, Len(path) - 1)
          /\ frames' = SubSeq(frames, 1, Len(frames) - 1)
          /\ mids' = IF mids = <<>> THEN mids ELSE SubSeq(mids, 1, Len(mids) - 1)
          /\ spc' = IF Len(path) = 1 THEN "begin" ELSE "search"
        BY <1>9 DEF D2!Backtrack, D2!Front
    <2>2. frames[Len(path)] = {}
        BY <2>1, D2Path
    <2>. QED
        BY <1>0, <2>1, <2>2, D2Backtracks DEF g
  <1>. QED
      BY <1>1, <1>2, <1>3, <1>4, <1>5, <1>6, <1>7, <1>8, <1>9 DEF D2!Step

-----------------------------------------------------------------------------
(* The verdict *)

(***************************************************************************)
(* The inductive invariant: the peel's, until it is over; then that of the *)
(* search the requested length calls for, of survivors that no longer      *)
(* change; and the verdict is right.                                       *)
(***************************************************************************)
VerdictInv ==
    /\ IInv /\ KeepsClosedSets
    /\ spc # "idle" => pc = "done"
    /\ length \in {2 * Half, OtherLength}
    /\ TakesD2 => D2Inv(Survivors, Half, starts, path, mids, frames, found, spc)
    /\ ~TakesD2 => SearchInv(Survivors, OtherLength, starts, path, frames, found, spc)
    /\ VerdictIsRight

LEMMA VerdictInitInv == VerdictInit => VerdictInv
  <1> SUFFICES ASSUME VerdictInit PROVE VerdictInv
      OBVIOUS
  <1>1. IInv
      BY InitIInv DEF VerdictInit
  <1>2. KeepsClosedSets /\ VerdictIsRight
      BY DEF VerdictInit, Init, KeepsClosedSets, VerdictIsRight
  <1>3. /\ starts = {} /\ path = <<>> /\ mids = <<>> /\ frames = <<>> /\ found = {}
        /\ spc = "idle" /\ length \in {2 * Half, OtherLength}
      BY DEF VerdictInit, D2!Init
  <1>. QED
      BY <1>1, <1>2, <1>3, D2Idle, SearchIdle DEF VerdictInv

\* What a search has found, or found out, is about all the survivors.
LEMMA VerdictFollows ==
    ASSUME VerdictInv
    PROVE  /\ spc = "none" => Cycles(ends, Edges, length) = {}
           /\ spc = "found" => found \subseteq Edges /\ IsCycle(ends, found, length)
  <1>1. Cycles(Survivors, DOMAIN Survivors, length) = Cycles(ends, Edges, length)
      BY SurvivorCycles DEF VerdictInv, IInv
  <1>2. /\ spc = "none" => Cycles(Survivors, DOMAIN Survivors, length) = {}
        /\ spc = "found" => found \in Cycles(Survivors, DOMAIN Survivors, length)
    <2>1. CASE TakesD2
        BY <2>1 DEF VerdictInv, D2Inv, TakesD2
    <2>2. CASE ~TakesD2
      <3>1. length = OtherLength
          BY <2>2 DEF VerdictInv, TakesD2
      <3>. QED
          BY <2>2, <3>1 DEF VerdictInv, SearchInv
    <2>. QED
        BY <2>1, <2>2
  <1>. QED
      BY <1>1, <1>2 DEF Cycles

LEMMA VerdictReturnsWhat ==
    ASSUME SearchReturns
    PROVE  \/ spc = "found" /\ outcome' = "proof"
           \/ spc = "none" /\ outcome' = "noCycle"
           \/ spc = "limit" /\ outcome' = "inconclusive"
  <1> DEFINE verdict == [found |-> "proof", none |-> "noCycle", limit |-> "inconclusive"]
  <1>1. spc \in DOMAIN verdict /\ outcome' = verdict[spc]
      BY DEF SearchReturns, Conclude
  <1>2. DOMAIN verdict = {"found", "none", "limit"}
      OBVIOUS
  <1>3. /\ verdict["found"] = "proof" /\ verdict["none"] = "noCycle"
        /\ verdict["limit"] = "inconclusive"
      OBVIOUS
  <1> HIDE DEF verdict
  <1>. QED
      BY <1>1, <1>2, <1>3

\* While the searches run, what the peel left is left alone.
LEMMA PeelFrame ==
    ASSUME IInv, KeepsClosedSets, UNCHANGED vars
    PROVE  IInv' /\ KeepsClosedSets' /\ Survivors' = Survivors
  <1>1. IInv'
      BY NextIInv
  <1>2. KeepsClosedSets'
      BY NextKeeps
  <1>3. Survivors' = Survivors
      BY DEF Survivors, vars
  <1>. QED
      BY <1>1, <1>2, <1>3

LEMMA VerdictNextInv == VerdictInv /\ [VerdictNext]_verdictVars => VerdictInv'
  <1> SUFFICES ASSUME VerdictInv, [VerdictNext]_verdictVars PROVE VerdictInv'
      OBVIOUS
  <1>0. /\ IInv /\ KeepsClosedSets /\ TypeOK /\ length \in {2 * Half, OtherLength}
        /\ TakesD2 => D2Inv(Survivors, Half, starts, path, mids, frames, found, spc)
        /\ ~TakesD2 => SearchInv(Survivors, OtherLength, starts, path, frames, found, spc)
      BY DEF VerdictInv, IInv
  <1>1. CASE PeelStep
    <2>1. /\ Next /\ pc # "done"
          /\ UNCHANGED <<ends, length, outcome, starts, path, mids, frames, found, spc>>
        BY <1>1, <1>0 DEF PeelStep, Next, Seed, PeelGroup, Drained, searchVars, shared
    <2>2. IInv' /\ KeepsClosedSets'
        BY <1>0, <2>1, NextIInv, NextKeeps
    <2>3. spc = "idle"
        BY <2>1 DEF VerdictInv
    <2>4. TakesD2 => D2Inv(Survivors', Half, starts, path, mids, frames, found, "idle")
        BY <1>0, <2>3, D2StillIdle
    <2>5. ~TakesD2 => SearchInv(Survivors', OtherLength, starts, path, frames, found, "idle")
        BY <1>0, <2>3, SearchStillIdle
    <2>6. VerdictIsRight'
        BY <2>1 DEF VerdictInv, VerdictIsRight
    <2>. QED
        BY <1>0, <2>1, <2>2, <2>3, <2>4, <2>5, <2>6 DEF VerdictInv, TakesD2
  <1>2. CASE BeginSearch
    <2>1. /\ UNCHANGED vars /\ UNCHANGED <<length, outcome>> /\ pc = "done" /\ pc' = "done"
          /\ spc = "idle" /\ starts' = DOMAIN Survivors
          /\ UNCHANGED <<path, mids, frames, found>> /\ outcome = "none"
          /\ spc' = IF TakesD2 THEN "build" ELSE "begin"
        BY <1>2, D2Given, GenericGiven
        DEF BeginSearch, Peeled, D2!Call, Generic!Call, vars
    <2>2. IInv' /\ KeepsClosedSets' /\ Survivors' = Survivors
        BY <1>0, <2>1, PeelFrame
    <2>3. TakesD2 => D2Inv(Survivors, Half, starts', path, mids, frames, found, "build")
        BY <1>0, <2>1, D2Called, VerdictConstants
    <2>4. ~TakesD2 => SearchInv(Survivors, OtherLength, starts', path, frames, found, "begin")
        BY <1>0, <2>1, SearchCalled, VerdictConstants
    <2>5. VerdictIsRight' /\ (TakesD2' <=> TakesD2)
        BY <2>1 DEF VerdictIsRight, TakesD2
    <2>. QED
        BY <1>0, <2>1, <2>2, <2>3, <2>4, <2>5 DEF VerdictInv
  <1>3. CASE SearchStep
    <2>1. /\ UNCHANGED vars /\ UNCHANGED <<length, outcome>> /\ pc' = "done" /\ outcome = "none"
        BY <1>3 DEF SearchStep, Peeled, vars
    <2>2. IInv' /\ KeepsClosedSets' /\ Survivors' = Survivors
        BY <1>0, <2>1, PeelFrame
    <2>3. CASE TakesD2
      <3>1. D2!Step
          BY <1>3, <2>3 DEF SearchStep
      <3>2. D2Inv(Survivors, Half, starts', path', mids', frames', found', spc')
          BY <1>0, <2>3, <3>1, D2Keeps
      <3>3. VerdictIsRight' /\ TakesD2'
          BY <2>1, <2>3 DEF VerdictIsRight, TakesD2
      <3>. QED
          BY <1>0, <2>1, <2>2, <3>2, <3>3 DEF VerdictInv
    <2>4. CASE ~TakesD2
      <3>1. Generic!Step
          BY <1>3, <2>4 DEF SearchStep
      <3>2. SearchInv(Survivors, OtherLength, starts', path', frames', found', spc')
          BY <1>0, <2>4, <3>1, GenericKeeps
      <3>3. VerdictIsRight' /\ ~TakesD2'
          BY <2>1, <2>4 DEF VerdictIsRight, TakesD2
      <3>. QED
          BY <1>0, <2>1, <2>2, <3>2, <3>3 DEF VerdictInv
    <2>. QED
        BY <2>3, <2>4
  <1>4. CASE \/ Cancelled \/ SearchReturns \/ Cancel
             \/ VerdictReturned \/ UNCHANGED verdictVars
    <2>1. UNCHANGED vars /\ UNCHANGED <<length, starts, path, mids, frames, found, spc>>
        BY <1>4 DEF Cancelled, SearchReturns, Conclude, Cancel, VerdictReturned,
                    verdictVars, searchVars, shared
    <2>2. IInv' /\ KeepsClosedSets' /\ Survivors' = Survivors /\ UNCHANGED <<ends, pc>>
        BY <1>0, <2>1, PeelFrame DEF vars
    <2>3. VerdictIsRight'
      <3>1. CASE SearchReturns
          BY <2>1, <2>2, <3>1, VerdictReturnsWhat, VerdictFollows DEF VerdictIsRight
      <3>2. CASE outcome' \in {outcome, "cancelled"}
          BY <2>1, <2>2, <3>2 DEF VerdictInv, VerdictIsRight
      <3>3. SearchReturns \/ outcome' \in {outcome, "cancelled"}
          BY <1>4 DEF Cancelled, Cancel, VerdictReturned, verdictVars
      <3>. QED
          BY <3>1, <3>2, <3>3
    <2>. QED
        BY <2>1, <2>2, <2>3 DEF VerdictInv, TakesD2
  <1>. QED
      BY <1>1, <1>2, <1>3, <1>4 DEF VerdictNext, Work

\* The peel's counters are right whichever search follows it.
THEOREM VerdictTypeCorrect == VerdictSpec => []TypeOK
  <1>1. VerdictInv => TypeOK
      BY DEF VerdictInv, IInv
  <1>. QED
      BY <1>1, VerdictInitInv, VerdictNextInv, PTL DEF VerdictSpec

\* No cycle of the survivors has lost an edge when it is looked for.
THEOREM VerdictKeepsCycles == VerdictSpec => []KeepsClosedSets
  <1>1. VerdictInv => KeepsClosedSets
      BY DEF VerdictInv
  <1>. QED
      BY <1>1, VerdictInitInv, VerdictNextInv, PTL DEF VerdictSpec

\* The searches are given the core of the survivors.
THEOREM VerdictSearchesTheCore == VerdictSpec => []PeelsToTheCore
  <1>1. VerdictInv => PeelsToTheCore
      BY PeelIsCore DEF VerdictInv
  <1>. QED
      BY <1>1, VerdictInitInv, VerdictNextInv, PTL DEF VerdictSpec

\* Whichever search runs, "no cycle" means that the survivors the GPU gave back
\* hold none of the length asked for, and a proof is one of their cycles.
THEOREM VerdictIsAlwaysRight == VerdictSpec => []VerdictIsRight
  <1>1. VerdictInv => VerdictIsRight
      BY DEF VerdictInv
  <1>. QED
      BY <1>1, VerdictInitInv, VerdictNextInv, PTL DEF VerdictSpec
-----------------------------------------------------------------------------
(* A verdict runs out of steps                                             *)

Phase == IF spc = "build" THEN 2 ELSE IF spc \in {"begin", "search"} THEN 1 ELSE 0

\* For every start the search puts one edge on the path and takes it off; a
\* branch is counted, and what it puts on the path is taken off.
SearchLeft ==
    2 * Cardinality(starts) + 2 * (MaxBranches - branches) + Len(path) + Phase

SearchMost == 2 * Cardinality(Edges) + 2 * MaxBranches + 6

\* Every group leaves the queue once; seeding it and finding it empty are a step
\* each.
PeelLeft == Cardinality(Groups \ (queued \ queue)) + (IF pc = "seed" THEN 2 ELSE 1)

MostSteps == 2 * Cardinality(Edges) + 2 + SearchMost

\* The most steps of the solver's thread that may still come.
StepsLeft ==
    IF outcome # "none" THEN 0
    ELSE IF pc # "done" THEN PeelLeft + SearchMost
    ELSE IF spc = "idle" THEN SearchMost
    ELSE SearchLeft + 3

\* The branch over the budget is the last one.
BranchesCounted ==
    /\ branches \in Nat
    /\ branches <= MaxBranches + (IF spc = "limit" THEN 1 ELSE 0)
    /\ spc = "idle" => branches = 0 /\ path = <<>>
    /\ starts \subseteq Edges /\ path \in Seq(Edges)

\* There is no verdict before the peel is over.
VerdictIsLast == outcome # "none" => pc = "done"

LEMMA CountFacts ==
    ASSUME BranchesCounted
    PROVE  /\ MaxBranches \in Nat /\ Cardinality(Edges) \in Nat
           /\ branches \in Nat /\ branches <= MaxBranches + 1 /\ Len(path) \in Nat
           /\ spc # "limit" => branches <= MaxBranches
           /\ IsFiniteSet(starts) /\ Cardinality(starts) \in Nat
           /\ SearchMost \in Nat /\ SearchMost >= 6
  <1>1. IsFiniteSet(Edges) /\ starts \subseteq Edges /\ MaxBranches \in Nat
      BY PeelAssumption, GpuVerdictAssumption DEF BranchesCounted
  <1>2. IsFiniteSet(starts) /\ Cardinality(starts) \in Nat /\ Cardinality(Edges) \in Nat
      BY <1>1, FS_Subset, FS_CardinalityType
  <1>3. Len(path) \in Nat
      BY LenProperties DEF BranchesCounted
  <1>. QED
      BY <1>1, <1>2, <1>3 DEF BranchesCounted, SearchMost

LEMMA SearchLeftInt == BranchesCounted => SearchLeft \in Int /\ SearchLeft >= -2
  <1> SUFFICES ASSUME BranchesCounted PROVE SearchLeft \in Int /\ SearchLeft >= -2
      OBVIOUS
  <1>1. Phase \in Nat
      BY DEF Phase
  <1>2. 2 * (MaxBranches - branches) \in Int /\ 2 * (MaxBranches - branches) >= -2
      BY CountFacts
  <1>3. 2 * Cardinality(starts) \in Nat /\ Len(path) \in Nat
      BY CountFacts
  <1>. QED
      BY <1>1, <1>2, <1>3 DEF SearchLeft

(***************************************************************************)
(* What a step of either search does to what is counted.                   *)
(***************************************************************************)
Ends == UNCHANGED <<starts, path, branches>> /\ Phase' < Phase

Starts ==
    /\ branches' = branches /\ Phase' = Phase
    /\ \E start \in starts :
          /\ starts' = starts \ {start}
          /\ path' = path \/ (path = <<>> /\ path' = <<start>>)

Branches ==
    /\ branches' = branches + 1
    /\ branches' <= MaxBranches \/ spc' = "limit"
    /\ spc # "limit" /\ starts' = starts /\ Phase' <= Phase
    /\ path' = path \/ \E e \in Edges : path' = Append(path, e)

Returns ==
    /\ UNCHANGED <<starts, branches>> /\ Phase' = Phase
    /\ path # <<>> /\ path' = SubSeq(path, 1, Len(path) - 1)

LEMMA MovesLower ==
    ASSUME BranchesCounted, spc' # "idle", spc # "limit",
           Ends \/ Starts \/ Branches \/ Returns
    PROVE  BranchesCounted' /\ SearchLeft' < SearchLeft
  <1>0. Phase \in Nat /\ Phase' \in Nat
      BY DEF Phase
  <1>1. CASE Ends
    <2>. QED
        BY <1>0, <1>1, CountFacts DEF Ends, BranchesCounted, SearchLeft
  <1>2. CASE Starts
    <2>1. PICK start \in starts :
              /\ starts' = starts \ {start} /\ branches' = branches /\ Phase' = Phase
              /\ path' = path \/ (path = <<>> /\ path' = <<start>>)
        BY <1>2 DEF Starts
    <2>2. Cardinality(starts') = Cardinality(starts) - 1
        BY <2>1, CountFacts, FS_RemoveElement
    <2>3. path' \in Seq(Edges) /\ Len(path') \in Nat /\ Len(path') <= Len(path) + 1
      <3>1. start \in Edges /\ path \in Seq(Edges) /\ Len(path) \in Nat
          BY CountFacts DEF BranchesCounted
      <3>2. <<start>> \in Seq(Edges) /\ Len(<<start>>) = 1
          BY <3>1
      <3>3. CASE path' = path
          BY <3>1, <3>3
      <3>4. CASE path' = <<start>>
          BY <3>1, <3>2, <3>4
      <3>. QED
          BY <2>1, <3>3, <3>4
    <2>4. BranchesCounted'
        BY <2>1, <2>3, CountFacts DEF BranchesCounted
    <2>5. /\ Cardinality(starts) \in Nat /\ Len(path) \in Nat
          /\ 2 * (MaxBranches - branches) \in Int
        BY CountFacts
    <2>6. 2 * Cardinality(starts') = 2 * Cardinality(starts) - 2
        BY <2>2, <2>5
    <2>. QED
        BY <1>0, <2>1, <2>3, <2>4, <2>5, <2>6 DEF SearchLeft
  <1>3. CASE Branches
    <2>1. path' \in Seq(Edges) /\ Len(path') \in Nat /\ Len(path') <= Len(path) + 1
      <3>1. path \in Seq(Edges) /\ Len(path) \in Nat
          BY CountFacts DEF BranchesCounted
      <3>2. ASSUME NEW e \in Edges, path' = Append(path, e)
            PROVE  path' \in Seq(Edges) /\ Len(path') = Len(path) + 1
          BY <3>1, <3>2, AppendProperties
      <3>. QED
          BY <1>3, <3>1, <3>2 DEF Branches
    <2>2. /\ branches' = branches + 1 /\ starts' = starts /\ Phase' <= Phase
          /\ branches' <= MaxBranches \/ (spc' = "limit" /\ branches' <= MaxBranches + 1)
        BY <1>3, CountFacts DEF Branches
    <2>3. BranchesCounted'
        BY <2>1, <2>2, CountFacts DEF BranchesCounted
    <2>4. /\ Cardinality(starts) \in Nat /\ Len(path) \in Nat
          /\ branches \in Nat /\ MaxBranches \in Nat
        BY CountFacts
    <2>5. Cardinality(starts') = Cardinality(starts)
        BY <2>2
    <2>6. 2 * (MaxBranches - branches') = 2 * (MaxBranches - branches) - 2
        BY <2>2, <2>4
    <2>. QED
        BY <1>0, <2>1, <2>2, <2>3, <2>4, <2>5, <2>6 DEF SearchLeft
  <1>4. CASE Returns
    <2>1. path' \in Seq(Edges) /\ Len(path') = Len(path) - 1
        BY <1>4, FrontFacts DEF Returns, BranchesCounted
    <2>2. BranchesCounted'
        BY <1>4, <2>1, CountFacts DEF Returns, BranchesCounted
    <2>. QED
        BY <1>0, <1>4, <2>1, <2>2, CountFacts DEF Returns, SearchLeft
  <1>. QED
      BY <1>1, <1>2, <1>3, <1>4

LEMMA GenericMoves ==
    ASSUME TypeOK, SearchInv(Survivors, OtherLength, starts, path, frames, found, spc),
           Generic!Step
    PROVE  (Ends \/ Starts \/ Branches \/ Returns) /\ spc # "limit"
  <1>0. DOMAIN Survivors \subseteq Edges
      BY DEF Survivors, TypeOK
  <1>1. CASE Generic!TooFew \/ Generic!Exhausted \/ Generic!Found
      BY <1>1 DEF Generic!TooFew, Generic!Exhausted, Generic!Found, Ends, Phase
  <1>2. CASE Generic!Start
      BY <1>2 DEF Generic!Start, Starts, Phase, SearchInv
  <1>3. CASE Generic!OverBudget
      BY <1>3 DEF Generic!OverBudget, Generic!Branch, Branches, Phase
  <1>4. ASSUME NEW next \in Generic!Untried, Generic!Descend(next) \/ Generic!Skip(next)
        PROVE  Branches /\ spc # "limit"
    <2>1. /\ spc = "search" /\ spc' = spc /\ branches' = branches + 1
          /\ branches' <= MaxBranches /\ starts' = starts
          /\ path' = path \/ path' = Append(path, next)
        BY <1>4 DEF Generic!Descend, Generic!Skip, Generic!Branch
    <2>2. frames \in Seq(SUBSET DOMAIN Survivors) /\ Len(frames) = Len(path)
          /\ Len(path) \in Nat \ {0} /\ Generic!Untried = frames[Len(path)]
        BY <2>1, GenericPath
    <2>3. next \in Edges
        BY <1>0, <1>4, <2>2, ElementOfSeq
    <2>. QED
        BY <2>1, <2>3 DEF Branches, Phase
  <1>5. CASE Generic!Backtrack
    <2>1. /\ spc = "search" /\ UNCHANGED <<starts, branches>>
          /\ path' = SubSeq(path, 1, Len(path) - 1)
          /\ spc' \in {"begin", "search"}
        BY <1>5 DEF Generic!Backtrack, Generic!Front
    <2>. QED
        BY <2>1, GenericPath DEF Returns, Phase
  <1>. QED
      BY <1>1, <1>2, <1>3, <1>4, <1>5 DEF Generic!Step, Ends, Starts, Returns, Phase

LEMMA D2Moves ==
    ASSUME TypeOK, D2Inv(Survivors, Half, starts, path, mids, frames, found, spc), D2!Step
    PROVE  (Ends \/ Starts \/ Branches \/ Returns) /\ spc # "limit"
  <1>0. DOMAIN Survivors \subseteq Edges
      BY DEF Survivors, TypeOK
  <1>1. CASE D2!TooFew \/ D2!Overflow \/ D2!Built \/ D2!Exhausted
      BY <1>1 DEF D2!TooFew, D2!Overflow, D2!Built, D2!Exhausted, Ends, Phase
  <1>2. CASE D2!Start
    <2>1. PICK start \in starts :
              /\ spc = "begin" /\ spc' \in {"begin", "search"} /\ branches' = branches
              /\ starts' = starts \ {start}
              /\ path' = path \/ path' = <<start>>
        BY <1>2 DEF D2!Start
    <2>2. path = <<>>
        BY <2>1 DEF D2Inv
    <2>3. Phase' = Phase /\ spc # "limit"
        BY <2>1 DEF Phase
    <2>. QED
        BY <2>1, <2>2, <2>3 DEF Starts
  <1>3. CASE D2!OverBudget
      BY <1>3 DEF D2!OverBudget, D2!Branch, Branches, Phase
  <1>4. ASSUME NEW arc \in D2!Untried, D2!Found(arc) \/ D2!Skip(arc) \/ D2!Descend(arc)
        PROVE  Branches /\ spc # "limit"
    <2>1. /\ spc = "search" /\ spc' \in {"search", "found"} /\ branches' = branches + 1
          /\ branches' <= MaxBranches /\ starts' = starts
          /\ path' = path \/ path' = Append(path, arc.dst)
        BY <1>4 DEF D2!Found, D2!Skip, D2!Descend, D2!Branch
    <2>2. arc.dst \in Edges
        BY <1>0, <1>4, <2>1, D2Path
    <2>. QED
        BY <2>1, <2>2 DEF Branches, Phase
  <1>5. CASE D2!Backtrack
    <2>1. /\ spc = "search" /\ UNCHANGED <<starts, branches>>
          /\ path' = SubSeq(path, 1, Len(path) - 1)
          /\ spc' \in {"begin", "search"}
        BY <1>5 DEF D2!Backtrack, D2!Front
    <2>. QED
        BY <2>1, D2Path DEF Returns, Phase
  <1>. QED
      BY <1>1, <1>2, <1>3, <1>4, <1>5 DEF D2!Step, Ends, Starts, Returns, Phase

LEMMA GroupsFinite ==
    ASSUME ends \in Graphs(Edges, Nodes)
    PROVE  /\ IsFiniteSet(Groups) /\ Cardinality(Groups) \in Nat
           /\ Cardinality(Groups) <= 2 * Cardinality(Edges)
  <1> DEFINE f == [p \in Sides \X Edges |-> <<p[1], ends[p[2]][p[1]]>>]
  <1>1. IsFiniteSet(Sides) /\ Cardinality(Sides) = 2
    <2>1. Sides = {0, 1} /\ {0, 1} = {0} \union {1}
        BY DEF Sides
    <2>2. IsFiniteSet({0}) /\ Cardinality({0}) = 1
        BY FS_Singleton
    <2>3. IsFiniteSet({0} \union {1}) /\ Cardinality({0} \union {1}) = 2
        BY <2>2, FS_AddElement
    <2>. QED
        BY <2>1, <2>3
  <1>2. IsFiniteSet(Edges) /\ Cardinality(Edges) \in Nat
      BY PeelAssumption, FS_CardinalityType
  <1>3. IsFiniteSet(Sides \X Edges) /\ Cardinality(Sides \X Edges) = 2 * Cardinality(Edges)
      BY <1>1, <1>2, FS_Product
  <1>4. f \in [Sides \X Edges -> Groups]
      BY EdgeGroup
  <1>5. ASSUME NEW g \in Groups PROVE \E p \in Sides \X Edges : f[p] = g
    <2>1. PICK side \in Sides, n \in Nodes : g = <<side, n>>
        BY DEF Groups
    <2>2. PICK e \in Edges : ends[e][side] = n
        BY <2>1 DEF Groups, Members
    <2>3. <<side, e>> \in Sides \X Edges /\ f[<<side, e>>] = <<side, ends[e][side]>>
        OBVIOUS
    <2>. QED
        BY <2>1, <2>2, <2>3
  <1>6. f \in Surjection(Sides \X Edges, Groups)
      BY <1>4, <1>5 DEF Surjection
  <1>. QED
      BY <1>3, <1>6, FS_Surjection, FS_CardinalityType

\* Every step of the peel lowers what it has left.
LEMMA PeelLowers ==
    ASSUME IInv, PeelStep
    PROVE  /\ PeelLeft \in Nat \ {0} /\ pc # "done"
           /\ pc' = "done" \/ (PeelLeft' \in Nat /\ PeelLeft' < PeelLeft)
  <1>0. IsFiniteSet(Groups) /\ queue \subseteq queued /\ queued \subseteq Groups
      BY GroupsFinite DEF IInv, TypeOK
  <1>1. IsFiniteSet(Groups \ (queued \ queue)) /\ Cardinality(Groups \ (queued \ queue)) \in Nat
      BY <1>0, FS_Subset, FS_CardinalityType
  <1>a. PeelLeft \in Nat \ {0}
      BY <1>1 DEF PeelLeft
  <1>2. CASE Seed
    <2>1. /\ pc = "seed" /\ pc' = "peel" /\ Groups' = Groups
          /\ queued \ queue = {} /\ queued' \ queue' = {}
        BY <1>2 DEF Seed, Groups, Members, IInv, Phases
    <2>. QED
        BY <1>1, <2>1 DEF PeelLeft
  <1>3. ASSUME NEW g \in queue, PeelGroup(g)
        PROVE  PeelLeft' \in Nat /\ PeelLeft' < PeelLeft /\ pc # "done"
    <2> DEFINE rest == Groups \ (queued \ queue)
    <2>1. pc = "peel" /\ pc' = "peel" /\ Groups' = Groups
        BY <1>3 DEF PeelGroup, Groups, Members
    <2>2. PICK new : new \cap queued = {} /\ queue' = (queue \ {g}) \union new
                     /\ queued' = queued \union new
      <3> DEFINE left == [h \in Groups |-> live[h] - Cardinality(Members(h, Dying(g)))]
      <3>1. queue' = (queue \ {g}) \union Bereaved(left) /\ queued' = queued \union Bereaved(left)
          BY <1>3 DEF PeelGroup
      <3>2. Bereaved(left) \cap queued = {}
          BY DEF Bereaved
      <3>. QED
          BY <3>1, <3>2
    <2>3. Groups \ (queued' \ queue') = rest \ {g} /\ g \in rest
        BY <1>0, <2>2
    <2>4. Cardinality(rest \ {g}) = Cardinality(rest) - 1
        BY <1>1, <2>3, FS_RemoveElement
    <2>5. Cardinality(rest \ {g}) \in Nat
        BY <1>1, FS_RemoveElement, FS_CardinalityType
    <2>. QED
        BY <1>1, <2>1, <2>3, <2>4, <2>5 DEF PeelLeft
  <1>4. CASE Drained
      BY <1>a, <1>4 DEF Drained
  <1>. QED
      BY <1>a, <1>2, <1>3, <1>4 DEF PeelStep

RunInv ==
    /\ VerdictInv /\ BranchesCounted /\ VerdictIsLast
    /\ outcome = "none" => StepsLeft \in 1..MostSteps

LEMMA MostFacts == SearchMost \in Nat /\ MostSteps \in Nat /\ SearchMost <= MostSteps
  BY PeelAssumption, GpuVerdictAssumption, FS_CardinalityType DEF MostSteps, SearchMost

LEMMA RunInitInv == VerdictInit => RunInv
  <1> SUFFICES ASSUME VerdictInit PROVE RunInv
      OBVIOUS
  <1>1. /\ pc = "seed" /\ queue = {} /\ queued = {} /\ outcome = "none" /\ starts = {}
        /\ path = <<>> /\ branches = 0 /\ ends \in Graphs(Edges, Nodes) /\ spc = "idle"
      BY PeelAssumption DEF VerdictInit, Init, D2!Init
  <1>2. BranchesCounted /\ VerdictIsLast
      BY <1>1, GpuVerdictAssumption DEF BranchesCounted, VerdictIsLast
  <1>3. Groups \ (queued \ queue) = Groups
      BY <1>1
  <1>4. StepsLeft = Cardinality(Groups) + 2 + SearchMost
      BY <1>1, <1>3 DEF StepsLeft, PeelLeft
  <1>5. Cardinality(Edges) \in Nat
      BY <1>2, CountFacts
  <1>6. StepsLeft \in 1..MostSteps
      BY <1>1, <1>4, <1>5, GroupsFinite, MostFacts DEF MostSteps
  <1>. QED
      BY <1>2, <1>6, VerdictInitInv DEF RunInv

LEMMA WorkLowers ==
    ASSUME VerdictInv, BranchesCounted, VerdictIsLast, Work
    PROVE  /\ BranchesCounted'
           /\ StepsLeft' < StepsLeft /\ StepsLeft' \in Nat
           /\ outcome' = "none" => StepsLeft' \in Nat \ {0}
  <1>0. /\ IInv /\ TypeOK /\ SearchMost \in Nat /\ SearchMost >= 6
        /\ TakesD2 => D2Inv(Survivors, Half, starts, path, mids, frames, found, spc)
        /\ ~TakesD2 => SearchInv(Survivors, OtherLength, starts, path, frames, found, spc)
      BY CountFacts DEF VerdictInv, IInv
  <1>a. SearchLeft \in Int /\ SearchLeft >= -2
      BY SearchLeftInt
  <1>b. (BranchesCounted => SearchLeft \in Int /\ SearchLeft >= -2)'
      BY SearchLeftInt, PTL
  <1>1. CASE PeelStep
    <2>1. UNCHANGED <<outcome, searchVars>> /\ spc = "idle"
        BY <1>0, <1>1, PeelLowers DEF PeelStep, VerdictInv
    <2>2. BranchesCounted' /\ UNCHANGED <<outcome, spc>>
        BY <2>1 DEF searchVars, shared, BranchesCounted
    <2>3. /\ PeelLeft \in Nat \ {0} /\ pc # "done"
          /\ pc' = "done" \/ (PeelLeft' \in Nat /\ PeelLeft' < PeelLeft)
        BY <1>0, <1>1, PeelLowers
    <2>4. SearchMost' = SearchMost
        BY DEF SearchMost
    <2>5. CASE outcome # "none"
      <3>1. FALSE
          BY <2>3, <2>5 DEF VerdictIsLast
      <3>. QED
          BY <3>1
    <2>6. CASE outcome = "none"
      <3>1. StepsLeft = PeelLeft + SearchMost
          BY <2>3, <2>6 DEF StepsLeft
      <3>2. StepsLeft' = IF pc' # "done" THEN PeelLeft' + SearchMost ELSE SearchMost
          BY <2>1, <2>2, <2>4, <2>6 DEF StepsLeft
      <3>. QED
          BY <1>0, <2>2, <2>3, <3>1, <3>2
    <2>. QED
        BY <2>5, <2>6
  <1>2. CASE BeginSearch
    <2>1. /\ pc = "done" /\ pc' = "done" /\ outcome = "none" /\ outcome' = "none"
          /\ spc = "idle" /\ spc' \in {"build", "begin"}
          /\ starts' = DOMAIN Survivors /\ UNCHANGED <<path, branches>>
          /\ path = <<>> /\ branches = 0
        BY <1>2, D2Given, GenericGiven
        DEF BeginSearch, Peeled, D2!Call, Generic!Call, vars, BranchesCounted
    <2>2. DOMAIN Survivors \subseteq Edges
        BY <1>0 DEF Survivors, TypeOK
    <2>3. BranchesCounted'
        BY <2>1, <2>2 DEF BranchesCounted
    <2>4. Cardinality(starts') \in Nat /\ Cardinality(starts') <= Cardinality(Edges)
          /\ Cardinality(Edges) \in Nat /\ MaxBranches \in Nat /\ Len(<<>>) = 0
        BY <2>1, <2>2, PeelAssumption, GpuVerdictAssumption, FS_Subset, FS_CardinalityType
    <2>5. Phase' \in 0..2
        BY DEF Phase
    <2>6. SearchLeft' = 2 * Cardinality(starts') + 2 * (MaxBranches - 0) + 0 + Phase'
        BY <2>1, <2>4 DEF SearchLeft
    <2>7. StepsLeft' = SearchLeft' + 3 /\ StepsLeft = SearchMost
        BY <2>1 DEF StepsLeft
    <2>. QED
        BY <2>3, <2>4, <2>5, <2>6, <2>7 DEF SearchMost
  <1>3. CASE SearchStep
    <2>1. pc = "done" /\ pc' = "done" /\ outcome = "none" /\ outcome' = "none"
        BY <1>3 DEF SearchStep, Peeled, vars
    <2>2. /\ Ends \/ Starts \/ Branches \/ Returns
          /\ spc # "limit" /\ spc # "idle" /\ spc' # "idle"
      <3>1. CASE TakesD2
          BY <1>0, <1>3, <3>1, D2Moves, D2Keeps DEF SearchStep
      <3>2. CASE ~TakesD2
          BY <1>0, <1>3, <3>2, GenericMoves, GenericKeeps DEF SearchStep
      <3>. QED
          BY <3>1, <3>2
    <2>3. BranchesCounted' /\ SearchLeft' < SearchLeft
        BY <2>2, MovesLower
    <2>4. StepsLeft = SearchLeft + 3 /\ StepsLeft' = SearchLeft' + 3
        BY <2>1, <2>2 DEF StepsLeft
    <2>. QED
        BY <1>a, <1>b, <2>3, <2>4
  <1>4. CASE Cancelled \/ SearchReturns
    <2>1. outcome = "none" /\ pc = "done" /\ outcome' # "none"
          /\ UNCHANGED <<starts, path, branches, spc>>
        BY <1>4, VerdictReturnsWhat
        DEF Cancelled, SearchReturns, Conclude, Peeled, searchVars, shared
    <2>2. BranchesCounted'
        BY <2>1 DEF BranchesCounted
    <2>. QED
        BY <1>0, <1>a, <2>1, <2>2 DEF StepsLeft
  <1>. QED
      BY <1>1, <1>2, <1>3, <1>4 DEF Work

LEMMA RunNextInv ==
    ASSUME RunInv, [VerdictNext]_verdictVars
    PROVE  RunInv' /\ (Work => StepsLeft' < StepsLeft)
  <1>1. VerdictInv'
      BY VerdictNextInv DEF RunInv
  <1>2. CASE Work
    <2>1. /\ BranchesCounted' /\ StepsLeft' < StepsLeft /\ StepsLeft' \in Nat
          /\ outcome' = "none" => StepsLeft' \in Nat \ {0}
        BY <1>2, WorkLowers DEF RunInv
    <2>2. (outcome' = "none" => outcome = "none") /\ VerdictIsLast'
      <3>1. CASE PeelStep
          BY <3>1, PeelLowers DEF PeelStep, RunInv, VerdictInv, VerdictIsLast
      <3>2. CASE Cancelled \/ BeginSearch \/ SearchStep \/ SearchReturns
          BY <3>2 DEF Cancelled, BeginSearch, SearchStep, SearchReturns, Conclude, Peeled,
                      VerdictIsLast, vars
      <3>. QED
          BY <1>2, <3>1, <3>2 DEF Work
    <2>3. MostSteps' = MostSteps
        BY DEF MostSteps, SearchMost
    <2>. QED
        BY <1>1, <2>1, <2>2, <2>3, MostFacts DEF RunInv
  <1>3. CASE ~Work
    <2>1. UNCHANGED <<vars, outcome, searchVars>>
        BY <1>3 DEF VerdictNext, Cancel, VerdictReturned, verdictVars
    <2>2. BranchesCounted' /\ VerdictIsLast' /\ StepsLeft' = StepsLeft /\ MostSteps' = MostSteps
        BY <2>1 DEF vars, searchVars, shared, RunInv, BranchesCounted, VerdictIsLast, StepsLeft, PeelLeft,
                    SearchMost, MostSteps, SearchLeft, Phase, Groups, Members
    <2>. QED
        BY <1>1, <1>3, <2>1, <2>2 DEF RunInv
  <1>. QED
      BY <1>2, <1>3

\* A verdict takes at most MostSteps steps, and until it comes there is one left:
\* each step the solver's thread takes leaves fewer, through the groups of the peel,
\* the starts, the branches and the backtracking, whichever search runs and
\* whenever the flag is raised.
THEOREM VerdictRunsOut ==
    VerdictSpec => /\ [](outcome = "none" => StepsLeft \in 1..MostSteps)
                   /\ [][Work => StepsLeft' < StepsLeft]_verdictVars
  <1>1. RunInv => (outcome = "none" => StepsLeft \in 1..MostSteps)
      BY DEF RunInv
  <1>2. RunInv /\ [VerdictNext]_verdictVars
            => RunInv' /\ [Work => StepsLeft' < StepsLeft]_verdictVars
      BY RunNextInv
  <1>. QED
      BY <1>1, <1>2, RunInitInv, PTL DEF VerdictSpec
=============================================================================
