--------------------------- MODULE CpuSolveProofs ---------------------------
(***************************************************************************)
(* Proofs about the CPU solver, for every graph, cycle length, number of   *)
(* rounds and budget of branches: of CpuLean first, then of CpuSolve, which*)
(* implements it.                                                          *)
(***************************************************************************)
EXTENDS CpuSolve, GraphProofs

(***************************************************************************)
(* The inductive invariant: the node bitmap belongs to this round, and the *)
(* round before has left every live edge a mate on the other side.         *)
(***************************************************************************)
NodesMarked ==
    pc = "kill" => round < Rounds /\ occupied = {ends[e][Side] : e \in alive}

OtherSideTrimmed ==
    pc \in {"round", "kill"} /\ round # 0
        => \A e \in alive : HasMate(ends, alive, e, 1 - Side)

IInv == TypeOK /\ NodesMarked /\ OtherSideTrimmed

-----------------------------------------------------------------------------
(* The graph *)

LEMMA SideFacts ==
    ASSUME round \in Nat
    PROVE  /\ Side \in Sides /\ 1 - Side \in Sides
           /\ (round + 1) % 2 = 1 - Side
           /\ \A side \in Sides : side = Side \/ side = 1 - Side
  BY DEF Side, Sides

\* To have one's mate's node marked is to have a mate.
LEMMA KeptHaveMates ==
    ASSUME NodesMarked, pc = "kill"
    PROVE  {e \in alive : Mate(ends[e][Side]) \in occupied} = TrimSide(ends, alive, Side)
  BY DEF NodesMarked, TrimSide, HasMate, Meets

\* An edge and its mate are kept together, so a round trims all its side.
LEMMA TrimSideHasMates ==
    ASSUME TypeOK, NEW e \in TrimSide(ends, alive, Side)
    PROVE  HasMate(ends, TrimSide(ends, alive, Side), e, Side)
  <1>1. /\ Side \in Sides /\ alive \in SUBSET Edges
        /\ ends \in Graphs(Edges, Nodes) /\ Nodes \subseteq Nat
      BY SideFacts, CpuLeanAssumption DEF TypeOK
  <1>. QED
      BY <1>1, TrimAgainKeeps

-----------------------------------------------------------------------------
(* Type correctness and the invariant *)

LEMMA InitIInv == Init => IInv
  <1> SUFFICES ASSUME Init PROVE IInv
      OBVIOUS
  <1>1. round \in 0..Rounds /\ NodesMarked /\ OtherSideTrimmed
      BY CpuLeanAssumption DEF Init, NodesMarked, OtherSideTrimmed
  <1>2. cancel \in BOOLEAN
      BY Zenon DEF Init
  <1>. QED
      BY <1>1, <1>2 DEF Init, IInv, TypeOK

LEMMA NextIInv == IInv /\ [Next]_vars => IInv'
  <1> SUFFICES ASSUME IInv, [Next]_vars PROVE IInv'
      OBVIOUS
  <1> USE CpuLeanAssumption
  <1>1. CASE MarkNodes
    <2>1. occupied' \subseteq Nodes
      <3>1. \A e \in alive : ends[e][Side] \in Nodes
          BY SideFacts DEF IInv, TypeOK, Graphs
      <3>. QED
          BY <1>1, <3>1 DEF MarkNodes
    <2>. QED
        BY <1>1, <2>1 DEF MarkNodes, IInv, TypeOK, NodesMarked, OtherSideTrimmed, Side
  <1>2. CASE KillEdges
    <2> DEFINE kept == TrimSide(ends, alive, Side)
    <2>1. /\ pc = "kill" /\ alive' = kept /\ kept \subseteq alive /\ round < Rounds
          /\ \/ pc' = "search" /\ round' = round
             \/ pc' = "round" /\ round' = round + 1
          /\ UNCHANGED <<ends, occupied, cancel, outcome, proof>>
        BY <1>2, KeptHaveMates DEF KillEdges, IInv, NodesMarked, TrimSide
    <2>2. TypeOK' /\ NodesMarked'
        BY <2>1 DEF IInv, TypeOK, NodesMarked
    <2>3. OtherSideTrimmed'
      <3> SUFFICES ASSUME pc' = "round" PROVE \A e \in kept : HasMate(ends, kept, e, 1 - Side')
          BY <2>1 DEF OtherSideTrimmed
      <3>1. 1 - Side' = Side
          BY <2>1, SideFacts DEF IInv, TypeOK, Side, Sides
      <3>. QED
          BY <3>1, TrimSideHasMates DEF IInv
    <2>. QED
        BY <2>2, <2>3 DEF IInv
  <1>3. CASE RoundsDone
      BY <1>3 DEF RoundsDone, IInv, TypeOK, NodesMarked, OtherSideTrimmed
  <1>4. CASE Cancelled
      BY <1>4 DEF Cancelled, IInv, TypeOK, NodesMarked, OtherSideTrimmed
  <1>5. CASE FindsCycle
      BY <1>5 DEF FindsCycle, Finish, Cycles, IInv, TypeOK, NodesMarked, OtherSideTrimmed
  <1>6. CASE FindsNothing \/ GivesUp
      BY <1>6 DEF FindsNothing, GivesUp, Finish, IInv, TypeOK, NodesMarked, OtherSideTrimmed
  <1>7. CASE Cancel
      BY <1>7 DEF Cancel, IInv, TypeOK, NodesMarked, OtherSideTrimmed, Side
  <1>8. CASE UNCHANGED vars
      BY <1>8 DEF vars, IInv, TypeOK, NodesMarked, OtherSideTrimmed, Side
  <1>. QED
      BY <1>1, <1>2, <1>3, <1>4, <1>5, <1>6, <1>7, <1>8 DEF Next, Returned

\* The bitmaps stay within the graph, and the round counter within its limit.
THEOREM TypeCorrect == Spec => []TypeOK
  <1>1. IInv => TypeOK
      BY DEF IInv
  <1>. QED
      BY <1>1, InitIInv, NextIInv, PTL DEF Spec

-----------------------------------------------------------------------------
(* What trimming keeps *)

\* No round kills an edge of a closed set, and nothing else kills edges.
LEMMA NextKeeps ==
    ASSUME IInv, KeepsClosedSets, [Next]_vars
    PROVE  KeepsClosedSets'
  <1>1. CASE KillEdges
    <2> SUFFICES ASSUME NEW C \in SUBSET Edges, Closed(ends, C), NEW e \in C
                 PROVE  e \in TrimSide(ends, alive, Side)
        BY <1>1, KeptHaveMates DEF KillEdges, IInv, KeepsClosedSets
    <2>1. C \subseteq alive
        BY DEF KeepsClosedSets
    <2>2. HasMate(ends, C, e, Side)
        BY SideFacts DEF IInv, TypeOK, Closed
    <2>. QED
        BY <2>1, <2>2 DEF TrimSide, HasMate
  <1>2. CASE UNCHANGED <<ends, alive>>
      BY <1>2 DEF KeepsClosedSets
  <1>3. KillEdges \/ UNCHANGED <<ends, alive>>
      BY DEF Next, vars, MarkNodes, RoundsDone, Cancelled, FindsCycle, FindsNothing,
             GivesUp, Finish, Cancel, Returned
  <1>. QED
      BY <1>1, <1>2, <1>3

\* Trimming never loses an edge of a closed set, and so of a cycle, in any graph
\* and after any number of rounds.
THEOREM TrimmingKeepsCycles == Spec => []KeepsClosedSets
  <1>1. Init => KeepsClosedSets
      BY DEF Init, KeepsClosedSets
  <1>. QED
      BY <1>1, NextKeeps, InitIInv, NextIInv, PTL DEF Spec

LEMMA NextSound ==
    ASSUME IInv, KeepsClosedSets, NoCycleIsRight, [Next]_vars
    PROVE  NoCycleIsRight'
  <1>1. CASE FindsNothing
    <2>1. \A P \in SUBSET Edges : IsCycle(ends, P, CycleLength) => P \subseteq alive
        BY DEF KeepsClosedSets, IsCycle
    <2>2. Cycles(ends, Edges, CycleLength) \subseteq Cycles(ends, alive, CycleLength)
        BY <2>1 DEF Cycles
    <2>. QED
        BY <1>1, <2>2 DEF FindsNothing, Finish, NoCycleIsRight
  <1>2. CASE UNCHANGED <<ends, outcome>>
      BY <1>2 DEF NoCycleIsRight
  <1>3. CASE ends' = ends /\ outcome' # "noCycle"
      BY <1>3 DEF NoCycleIsRight
  <1>4. \/ FindsNothing \/ UNCHANGED <<ends, outcome>>
        \/ ends' = ends /\ outcome' # "noCycle"
      BY DEF Next, vars, MarkNodes, KillEdges, RoundsDone, Cancelled, FindsCycle,
             GivesUp, Finish, Cancel, Returned
  <1>. QED
      BY <1>1, <1>2, <1>3, <1>4

\* When the solver says there is no cycle, the whole graph has none of that
\* length.
THEOREM NoCycleIsSound == Spec => []NoCycleIsRight
  <1>1. Init => KeepsClosedSets /\ NoCycleIsRight
      BY DEF Init, KeepsClosedSets, NoCycleIsRight
  <1>. QED
      BY <1>1, NextSound, NextKeeps, InitIInv, NextIInv, PTL DEF Spec

LEMMA NextStops ==
    ASSUME IInv, StopsAtTheCore, [Next]_vars
    PROVE  StopsAtTheCore'
  <1>1. CASE KillEdges
    <2> SUFFICES ASSUME pc' = "search", round' # 0
                 PROVE  Closed(ends, alive')
        BY <1>1, CpuLeanAssumption DEF StopsAtTheCore, KillEdges
    <2>1. alive' = alive /\ alive = TrimSide(ends, alive, Side) /\ round # 0 /\ pc = "kill"
        BY <1>1, KeptHaveMates DEF KillEdges, IInv
    <2>2. \A e \in alive : HasMate(ends, alive, e, Side) /\ HasMate(ends, alive, e, 1 - Side)
        BY <2>1 DEF TrimSide, IInv, OtherSideTrimmed
    <2>. QED
        BY <2>1, <2>2, SideFacts DEF Closed, IInv, TypeOK
  <1>2. CASE pc' # "search" \/ round' = Rounds
      BY <1>2, CpuLeanAssumption DEF StopsAtTheCore, IInv, TypeOK
  <1>3. CASE UNCHANGED <<ends, alive, round, pc>>
      BY <1>3 DEF StopsAtTheCore
  <1>4. KillEdges \/ pc' # "search" \/ round' = Rounds \/ UNCHANGED <<ends, alive, round, pc>>
      BY DEF Next, vars, MarkNodes, RoundsDone, Cancelled, FindsCycle,
             FindsNothing, GivesUp, Finish, Cancel, Returned
  <1>. QED
      BY <1>1, <1>2, <1>3, <1>4

\* Where a round that kills nothing ends the trimming after the first, both
\* sides are trimmed: the round before has seen to the other one.
THEOREM StopsAtTheCoreAlways == Spec => []StopsAtTheCore
  <1>1. Init => StopsAtTheCore
      BY DEF Init, StopsAtTheCore
  <1>. QED
      BY <1>1, NextStops, InitIInv, NextIInv, PTL DEF Spec

-----------------------------------------------------------------------------
(* The rounds and the contract of every trimmer *)

\* The CPU trimmer never loses count, so its part of the contract is not waived.
Contract == INSTANCE TrimContract WITH survivors <- alive, sound <- TRUE

\* A kill that kills is a round of the contract; one that kills none, and every
\* other step, is a stutter.
LEMMA NextTrims ==
    ASSUME IInv, [Next]_vars
    PROVE  [Contract!Next]_(Contract!vars)
  <1>1. CASE KillEdges
    <2>1. TrimSide(ends, alive, Side) = Contract!TrimSide(ends, alive, round % 2)
        BY DEF TrimSide, HasMate, Meets, Mate, Side, Contract!TrimSide, Contract!HasMate,
               Contract!Meets, Contract!Mate
    <2>2. /\ alive' = TrimSide(ends, alive, Side) /\ ends' = ends
          /\ \/ alive' = alive /\ round' = round
             \/ round' = round + 1
        BY <1>1, KeptHaveMates DEF KillEdges, IInv
    <2>3. CASE alive' = alive /\ round' = round
        BY <2>2, <2>3 DEF Contract!vars
    <2>4. CASE round' = round + 1
        BY <2>1, <2>2, <2>4 DEF Contract!Next, Contract!Trim
    <2>. QED
        BY <2>2, <2>3, <2>4
  <1>2. CASE UNCHANGED <<ends, alive, round>>
      BY <1>2 DEF Contract!vars
  <1>3. KillEdges \/ UNCHANGED <<ends, alive, round>>
      BY DEF Next, vars, MarkNodes, RoundsDone, Cancelled, FindsCycle, FindsNothing,
             GivesUp, Finish, Cancel, Returned
  <1>. QED
      BY <1>1, <1>2, <1>3

\* Each counted round leaves exactly the edges that had a mate on its side, and
\* nothing but a round touches the bitmap (trim_survivors_cancellable in cpu_lean.rs).
THEOREM TrimsAsPromised == Spec => Contract!Spec
  <1>1. Init => Contract!Init
      BY DEF Init, Contract!Init
  <1>. QED
      BY <1>1, NextTrims, InitIInv, NextIInv, PTL DEF Spec, Contract!Spec

-----------------------------------------------------------------------------
(* The search as CpuSolve runs it *)

\* What find_cycle is called with.
Survivors == [e \in alive |-> ends[e]]

SolveInv ==
    /\ IInv /\ KeepsClosedSets
    /\ Searching => pc \in {"search", "done"}
    /\ SearchInv(Survivors, CycleLength, starts, path, frames, found, spc)

LEMMA SolveConstants ==
    CycleLength \in Nat \ {0} /\ IsFiniteSet(Edges) /\ Nodes \subseteq Nat
  BY CpuLeanAssumption, CpuSolveAssumption

LEMMA SurvivorsFinite ==
    ASSUME TypeOK
    PROVE  Finite(Survivors)
  <1>1. IsFiniteSet(alive)
      BY SolveConstants, FS_Subset DEF TypeOK
  <1>2. \A e \in alive, side \in Sides : ends[e][side] \in Nat
      BY SolveConstants DEF TypeOK, Graphs
  <1>. QED
      BY <1>1, <1>2 DEF Finite, Numbered, Survivors

\* The survivors have the cycles of the whole graph.
LEMMA SurvivorCycles ==
    ASSUME TypeOK, KeepsClosedSets
    PROVE  /\ Cycles(Survivors, DOMAIN Survivors, CycleLength) = Cycles(ends, alive, CycleLength)
           /\ Cycles(ends, alive, CycleLength) = Cycles(ends, Edges, CycleLength)
  <1>1. DOMAIN Survivors = alive
      BY DEF Survivors
  <1>2. Cycles(Survivors, alive, CycleLength) = Cycles(ends, alive, CycleLength)
      BY CyclesOfPart DEF Survivors
  <1>3. \A P \in SUBSET Edges : IsCycle(ends, P, CycleLength) => P \in SUBSET alive
      BY DEF KeepsClosedSets, IsCycle
  <1>. QED
      BY <1>1, <1>2, <1>3 DEF Cycles, TypeOK

\* CycleSearch's operators are those of GraphProofs.
LEMMA SearchVerify ==
    ASSUME NEW g, NEW P
    PROVE  Search!Verify(g, P, CycleLength) <=> Verify(g, P, CycleLength)
  <1>1. \A S : Search!Cardinality(S) = Cardinality(S)
      BY DEF Search!Cardinality, Cardinality
  <1>2. \A e, side : Search!MatesIn(g, P, e, side) = MatesIn(g, P, e, side)
      BY DEF Search!MatesIn, MatesIn, Search!Meets, Meets, Search!Mate, Mate
  <1>3. Search!OneMate(g, P) <=> OneMate(g, P)
      BY <1>1, <1>2 DEF Search!OneMate, OneMate, Search!Sides, Sides
  <1>4. \A start, n : Search!Walk(g, P, start, n) = Walk(g, P, start, n)
      BY DEF Search!Walk, Walk, Search!MatesIn, MatesIn, Search!Meets, Meets,
             Search!Sides, Sides, Search!Mate, Mate
  <1>5. Search!SingleCycle(g, P, CycleLength) <=> SingleCycle(g, P, CycleLength)
      BY <1>4 DEF Search!SingleCycle, SingleCycle
  <1>. QED
      BY <1>1, <1>3, <1>5 DEF Search!Verify, Verify

LEMMA SearchMeets ==
    ASSUME NEW e, NEW f, NEW side
    PROVE  Search!Meets(Survivors, e, f, side) <=> Meets(Survivors, e, f, side)
  BY DEF Search!Meets, Meets, Search!Mate, Mate

LEMMA SearchGiven == Search!Given = DOMAIN Survivors
  BY DEF Search!Given, Survivors

LEMMA SearchCandidates ==
    ASSUME NEW p
    PROVE  Search!Candidates(p) = Cands(Survivors, p)
  <1>1. Search!Last(p) = p[Len(p)]
      BY DEF Search!Last
  <1>2. Search!Candidates(p) = {f \in DOMAIN Survivors :
            Search!Meets(Survivors, p[Len(p)], f, (Len(p) - 1) % 2)}
      BY <1>1, SearchGiven DEF Search!Candidates, Survivors
  <1>. QED
      BY <1>2, SearchMeets DEF Cands

\* The edges of the path.
LEMMA PathFacts ==
    ASSUME SearchInv(Survivors, CycleLength, starts, path, frames, found, "search")
    PROVE  /\ path \in Seq(DOMAIN Survivors) /\ path # <<>> /\ Len(path) \in Nat \ {0}
           /\ frames \in Seq(SUBSET DOMAIN Survivors)
           /\ frames # <<>> /\ Len(frames) = Len(path)
           /\ Search!Range(path) = {path[i] : i \in 1..Len(path)}
           /\ Search!Range(path) \in SUBSET DOMAIN Survivors
           /\ Search!Untried = frames[Len(path)]
  <1>1. /\ path \in Seq(DOMAIN Survivors) /\ path # <<>>
        /\ frames \in Seq(SUBSET DOMAIN Survivors) /\ Len(frames) = Len(path)
      BY DEF SearchInv, Stacks
  <1>2. Len(path) \in Nat \ {0}
      BY <1>1, EmptySeq
  <1>3. frames # <<>>
      BY <1>1, <1>2, EmptySeq
  <1>4. Search!Range(path) = {path[i] : i \in 1..Len(path)}
      BY <1>1, LenProperties DEF Search!Range
  <1>5. \A i \in 1..Len(path) : path[i] \in DOMAIN Survivors
      BY <1>1, ElementOfSeq
  <1>6. Search!Untried = frames[Len(path)]
      BY <1>1, <1>3 DEF Search!Untried, Search!Last
  <1>. QED
      BY <1>1, <1>2, <1>3, <1>4, <1>5, <1>6

\* Every step of the search keeps its invariant.
LEMMA SearchStepKeeps ==
    ASSUME TypeOK, SearchInv(Survivors, CycleLength, starts, path, frames, found, spc),
           Search!Step
    PROVE  SearchInv(Survivors, CycleLength, starts', path', frames', found', spc')
           /\ spc' # "idle" /\ spc # "idle"
  <1> DEFINE L == CycleLength
             g == Survivors
  <1>0. L \in Nat \ {0} /\ Finite(g)
      BY SolveConstants, SurvivorsFinite
  <1> HIDE DEF L, g
  <1>1. CASE Search!TooFew
    <2>1. /\ spc = "begin" /\ spc' = "none" /\ Cardinality(DOMAIN g) < L
          /\ UNCHANGED <<starts, path, frames, found>>
        BY <1>1, SearchGiven DEF Search!TooFew, Search!Cardinality, Cardinality, g, L
    <2>. QED
        BY <1>0, <2>1, SearchTooFew DEF g, L
  <1>2. CASE Search!Start
    <2>1. PICK start \in starts :
              /\ spc = "begin" /\ spc' = "search" /\ found' = found
              /\ starts' = starts \ {start} /\ path' = <<start>>
              /\ frames' = <<Search!Candidates(<<start>>)>>
        BY <1>2 DEF Search!Start
    <2>2. frames' = <<Cands(g, <<start>>)>>
        BY <2>1, SearchCandidates DEF g
    <2>. QED
        BY <1>0, <2>1, <2>2, SearchStarts DEF g, L
  <1>3. CASE Search!Exhausted
    <2>1. /\ spc = "begin" /\ spc' = "none" /\ starts = {}
          /\ UNCHANGED <<starts, path, frames, found>>
        BY <1>3 DEF Search!Exhausted
    <2>. QED
        BY <1>0, <2>1, SearchExhausted DEF g, L
  <1>4. CASE Search!OverBudget
    <2>1. spc = "search" /\ spc' = "limit" /\ UNCHANGED <<starts, path, frames, found>>
        BY <1>4 DEF Search!OverBudget, Search!Branch
    <2>. QED
        BY <2>1, SearchGivesUp
  <1>5. ASSUME NEW next \in Search!Untried, Search!Descend(next)
        PROVE  SearchInv(Survivors, CycleLength, starts', path', frames', found', spc')
               /\ spc' # "idle" /\ spc # "idle"
    <2>1. /\ spc = "search" /\ spc' = spc /\ Len(path) # L /\ UNCHANGED <<starts, found>>
          /\ path' = Append(path, next)
          /\ frames' = Append([frames EXCEPT ![Len(path)] = @ \ {next}], Cands(g, path'))
        BY <1>5, SearchCandidates
        DEF Search!Descend, Search!Branch, Search!Full, g, L
    <2>2. next \in frames[Len(path)]
        BY <1>5, <2>1, PathFacts
    <2>. QED
        BY <1>0, <2>1, <2>2, SearchDescends DEF g, L
  <1>6. ASSUME NEW next \in Search!Untried, Search!Skip(next)
        PROVE  SearchInv(Survivors, CycleLength, starts', path', frames', found', spc')
               /\ spc' # "idle" /\ spc # "idle"
    <2>1. /\ spc = "search" /\ spc' = spc /\ Len(path) # L
          /\ UNCHANGED <<starts, path, found>>
          /\ next \in Search!Range(path)
          /\ frames' = [frames EXCEPT ![Len(path)] = @ \ {next}]
        BY <1>6 DEF Search!Skip, Search!Branch, Search!Full, L
    <2>2. next \in frames[Len(path)] /\ \E seen \in 1..Len(path) : path[seen] = next
        BY <1>6, <2>1, PathFacts
    <2>. QED
        BY <1>0, <2>1, <2>2, SearchSkips DEF g, L
  <1>7. CASE Search!Found
    <2>1. /\ spc = "search" /\ spc' = "found" /\ UNCHANGED <<starts, path, frames>>
          /\ found' = Search!Range(path)
          /\ Verify(g, Search!Range(path), L)
        BY <1>7, SearchVerify DEF Search!Found, Search!Closes, g, L, Survivors
    <2>2. Search!Range(path) \in SUBSET DOMAIN g
        BY <2>1, PathFacts DEF g
    <2>. QED
        BY <1>0, <2>1, <2>2, SearchFinds DEF g, L
  <1>8. CASE Search!Backtrack
    <2>1. /\ spc = "search" /\ UNCHANGED <<starts, found>>
          /\ path' = SubSeq(path, 1, Len(path) - 1)
          /\ frames' = SubSeq(frames, 1, Len(frames) - 1)
          /\ spc' = IF Len(path) = 1 THEN "begin" ELSE "search"
        BY <1>8 DEF Search!Backtrack, Search!Front
    <2>2. Search!DeadEnd
        BY <1>8 DEF Search!Backtrack
    <2>3. IF Len(path) = L
          THEN ~ /\ Meets(g, path[Len(path)], path[1], (Len(path) - 1) % 2)
                 /\ Verify(g, {path[i] : i \in 1..Len(path)}, L)
          ELSE frames[Len(path)] = {}
      <3>1. CASE Len(path) = L
        <4>1. ~Search!Closes
            BY <2>2, <3>1 DEF Search!DeadEnd, Search!Full, L
        <4>2. Search!Closes <=> /\ Search!Meets(g, path[Len(path)], path[1], (Len(path) - 1) % 2)
                                /\ Search!Verify(g, Search!Range(path), L)
            BY DEF Search!Closes, Search!Last, g, L, Survivors
        <4>3. Search!Range(path) = {path[i] : i \in 1..Len(path)}
            BY <2>1, PathFacts
        <4>. QED
            BY <3>1, <4>1, <4>2, <4>3, SearchVerify, SearchMeets DEF g, L
      <3>2. CASE Len(path) # L
        <4>1. Search!Untried = {}
            BY <2>2, <3>2 DEF Search!DeadEnd, Search!Full, L
        <4>. QED
            BY <2>1, <3>2, <4>1, PathFacts
      <3>. QED
          BY <3>1, <3>2
    <2>. QED
        BY <1>0, <2>1, <2>3, SearchBacktracks DEF g, L
  <1>. QED
      BY <1>1, <1>2, <1>3, <1>4, <1>5, <1>6, <1>7, <1>8 DEF Search!Step

\* The invariant of the whole solve: the graph does not change under the search,
\* and only the trimming, which is over by then, changes what is alive.
LEMMA SolveInitInv == SolveInit => SolveInv
  <1> SUFFICES ASSUME SolveInit PROVE SolveInv
      OBVIOUS
  <1>1. IInv
      BY InitIInv DEF SolveInit
  <1>2. KeepsClosedSets
      BY DEF SolveInit, Init, KeepsClosedSets
  <1>3. starts = {} /\ path = <<>> /\ frames = <<>> /\ found = {} /\ spc = "idle"
      BY DEF SolveInit, Search!Init
  <1>. QED
      BY <1>1, <1>2, <1>3, SearchIdle DEF SolveInv, Searching

\* What a step of the solve is to CpuLean.
LEMMA SolveStepIs ==
    ASSUME [SolveNext]_solveVars
    PROVE  \/ ~Searching /\ [Next]_vars /\ UNCHANGED searchVars
           \/ UNCHANGED <<ends, alive, pc>> /\ [Next]_vars /\ UNCHANGED searchVars
           \/ BeginSearch \/ SearchStep \/ SearchReturns
  <1>1. CASE TrimStep
      BY <1>1 DEF TrimStep, Next
  <1>2. CASE BeginSearch \/ SearchStep \/ SearchReturns
      BY <1>2
  <1>3. CASE Raised
    <2>1. Cancel /\ UNCHANGED searchVars
        BY <1>3 DEF Raised
    <2>2. UNCHANGED <<ends, alive, pc>>
        BY <2>1 DEF Cancel
    <2>3. Next
        BY <2>1 DEF Next
    <2>. QED
        BY <2>1, <2>2, <2>3
  <1>4. CASE SolveReturned
      BY <1>4 DEF SolveReturned, Returned, vars
  <1>5. CASE UNCHANGED solveVars
      BY <1>5 DEF solveVars, vars
  <1>. QED
      BY <1>1, <1>2, <1>3, <1>4, <1>5 DEF SolveNext, Work

\* The search's own steps leave CpuLean's invariant alone.
LEMMA SearchFrame ==
    ASSUME IInv, KeepsClosedSets, UNCHANGED vars
    PROVE  IInv' /\ KeepsClosedSets' /\ Survivors' = Survivors
  <1>1. IInv'
      BY NextIInv
  <1>2. KeepsClosedSets'
      BY NextKeeps
  <1>3. Survivors' = Survivors
      BY DEF Survivors, vars
  <1>. QED
      BY <1>1, <1>2, <1>3

LEMMA SolveNextInv == SolveInv /\ [SolveNext]_solveVars => SolveInv'
  <1> SUFFICES ASSUME SolveInv, [SolveNext]_solveVars PROVE SolveInv'
      OBVIOUS
  <1>0. /\ IInv /\ KeepsClosedSets /\ TypeOK
        /\ SearchInv(Survivors, CycleLength, starts, path, frames, found, spc)
      BY DEF SolveInv, IInv
  <1>1. CASE ~Searching /\ [Next]_vars /\ UNCHANGED searchVars
    <2>1. IInv' /\ KeepsClosedSets'
        BY <1>0, <1>1, NextIInv, NextKeeps
    <2>2. spc = "idle" /\ UNCHANGED <<starts, path, frames, found, spc>>
        BY <1>1 DEF Searching, searchVars
    <2>3. SearchInv(Survivors', CycleLength, starts, path, frames, found, "idle")
        BY <1>0, <2>2, SearchStillIdle
    <2>. QED
        BY <2>1, <2>2, <2>3 DEF SolveInv, Searching
  <1>2. CASE UNCHANGED <<ends, alive, pc>> /\ [Next]_vars /\ UNCHANGED searchVars
    <2>1. IInv' /\ KeepsClosedSets'
        BY <1>0, <1>2, NextIInv, NextKeeps
    <2>2. Survivors' = Survivors /\ UNCHANGED <<pc, starts, path, frames, found, spc>>
        BY <1>2 DEF Survivors, searchVars
    <2>. QED
        BY <2>1, <2>2 DEF SolveInv, Searching
  <1>3. CASE BeginSearch
    <2>1. IInv' /\ KeepsClosedSets' /\ Survivors' = Survivors
        BY <1>0, <1>3, SearchFrame DEF BeginSearch
    <2>2. /\ spc = "idle" /\ spc' = "begin" /\ starts' = DOMAIN Survivors
          /\ UNCHANGED <<path, frames, found>> /\ pc' = "search"
        BY <1>3, SearchGiven DEF BeginSearch, Search!Call, vars
    <2>3. SearchInv(Survivors, CycleLength, starts', path', frames', found', spc')
        BY <1>0, <2>2, SearchCalled, SolveConstants
    <2>. QED
        BY <2>1, <2>2, <2>3 DEF SolveInv
  <1>4. CASE SearchStep
    <2>1. IInv' /\ KeepsClosedSets' /\ Survivors' = Survivors /\ pc' = pc
        BY <1>0, <1>4, SearchFrame DEF SearchStep, vars
    <2>2. /\ SearchInv(Survivors, CycleLength, starts', path', frames', found', spc')
          /\ spc # "idle"
        BY <1>0, <1>4, SearchStepKeeps DEF SearchStep
    <2>3. pc' \in {"search", "done"}
        BY <2>1, <2>2 DEF SolveInv, Searching
    <2>. QED
        BY <2>1, <2>2, <2>3 DEF SolveInv
  <1>5. CASE SearchReturns
    <2>1. /\ outcome' \in {"proof", "noCycle", "inconclusive"}
          /\ proof' = found /\ pc' = "done"
          /\ UNCHANGED <<ends, alive, occupied, round>>
          /\ UNCHANGED <<starts, path, frames, found, spc>>
        BY <1>5 DEF SearchReturns, Conclude, searchVars
    <2>2. cancel' \in BOOLEAN
      <3>1. cancel' = cancel
          BY <1>5, Zenon DEF SearchReturns, Conclude
      <3>. QED
          BY <1>0, <3>1, Zenon DEF TypeOK
    <2>3. found \subseteq Edges
        BY <1>0 DEF SearchInv, Cycles, Survivors, TypeOK
    <2>4. TypeOK'
        BY <1>0, <2>1, <2>2, <2>3 DEF TypeOK
    <2>5. IInv' /\ KeepsClosedSets'
        BY <1>0, <2>1, <2>4 DEF IInv, NodesMarked, OtherSideTrimmed, KeepsClosedSets
    <2>6. Survivors' = Survivors
        BY <2>1 DEF Survivors
    <2>. QED
        BY <1>0, <2>1, <2>5, <2>6 DEF SolveInv
  <1>. QED
      BY <1>1, <1>2, <1>3, <1>4, <1>5, SolveStepIs

-----------------------------------------------------------------------------
(* The whole solve *)

\* The bitmaps, the rounds and the proof keep their ranges through the search.
THEOREM SolveTypeCorrect == SolveSpec => []TypeOK
  <1>1. SolveInv => TypeOK
      BY DEF SolveInv, IInv
  <1>. QED
      BY <1>1, SolveInitInv, SolveNextInv, PTL DEF SolveSpec

\* A cycle of the graph is still whole when the search is given what survived.
THEOREM SolveKeepsCycles == SolveSpec => []KeepsClosedSets
  <1>1. SolveInv => KeepsClosedSets
      BY DEF SolveInv
  <1>. QED
      BY <1>1, SolveInitInv, SolveNextInv, PTL DEF SolveSpec

LEMMA WhatReturns ==
    ASSUME SearchReturns
    PROVE  \/ spc = "found" /\ outcome' = "proof"
           \/ spc = "none" /\ outcome' = "noCycle"
           \/ spc = "limit" /\ outcome' = "inconclusive"
  <1> DEFINE outcomeOf == [found |-> "proof", none |-> "noCycle", limit |-> "inconclusive"]
  <1>1. spc \in DOMAIN outcomeOf /\ outcome' = outcomeOf[spc]
      BY DEF SearchReturns, Conclude
  <1>2. DOMAIN outcomeOf = {"found", "none", "limit"}
      OBVIOUS
  <1>3. /\ outcomeOf["found"] = "proof" /\ outcomeOf["none"] = "noCycle"
        /\ outcomeOf["limit"] = "inconclusive"
      OBVIOUS
  <1> HIDE DEF outcomeOf
  <1>. QED
      BY <1>1, <1>2, <1>3

\* When the search has come to its end without a proof, the whole graph has no
\* cycle of that length.
THEOREM SolveIsSound == SolveSpec => []NoCycleIsRight
  <1>1. SolveInit => NoCycleIsRight
      BY DEF SolveInit, Init, NoCycleIsRight
  <1>2. ASSUME SolveInv, NoCycleIsRight, [SolveNext]_solveVars
        PROVE  NoCycleIsRight'
    <2>1. CASE [Next]_vars
        BY <1>2, <2>1, NextSound DEF SolveInv
    <2>2. CASE UNCHANGED <<ends, outcome>>
        BY <1>2, <2>2 DEF NoCycleIsRight
    <2>3. CASE SearchReturns
      <3>1. SUFFICES ASSUME outcome' = "noCycle"
                     PROVE  Cycles(ends, Edges, CycleLength) = {}
          BY <2>3 DEF SearchReturns, Conclude, NoCycleIsRight
      <3>2. spc = "none"
          BY <2>3, <3>1, WhatReturns
      <3>3. Cycles(Survivors, DOMAIN Survivors, CycleLength) = {}
          BY <1>2, <3>2 DEF SolveInv, SearchInv
      <3>. QED
          BY <1>2, <3>3, SurvivorCycles DEF SolveInv, IInv
    <2>4. [Next]_vars \/ UNCHANGED <<ends, outcome>> \/ SearchReturns
        BY <1>2, SolveStepIs DEF BeginSearch, SearchStep, vars
    <2>. QED
        BY <2>1, <2>2, <2>3, <2>4
  <1>. QED
      BY <1>1, <1>2, SolveInitInv, SolveNextInv, PTL DEF SolveSpec

\* What the search is given after an early stop is closed on both sides.
THEOREM SolveStopsAtTheCore == SolveSpec => []StopsAtTheCore
  <1>1. SolveInit => StopsAtTheCore
      BY DEF SolveInit, Init, StopsAtTheCore
  <1>2. ASSUME SolveInv, StopsAtTheCore, [SolveNext]_solveVars
        PROVE  StopsAtTheCore'
    <2>1. CASE [Next]_vars
        BY <1>2, <2>1, NextStops DEF SolveInv
    <2>2. CASE UNCHANGED <<ends, alive, round, pc>>
        BY <1>2, <2>2 DEF StopsAtTheCore
    <2>3. CASE pc' # "search"
        BY <2>3 DEF StopsAtTheCore
    <2>4. [Next]_vars \/ UNCHANGED <<ends, alive, round, pc>> \/ pc' # "search"
        BY <1>2, SolveStepIs DEF BeginSearch, SearchStep, SearchReturns, Conclude, vars
    <2>. QED
        BY <2>1, <2>2, <2>3, <2>4
  <1>. QED
      BY <1>1, <1>2, SolveInitInv, SolveNextInv, PTL DEF SolveSpec

\* With the search between the trimming and the answer the promise still holds:
\* no step of the search, not even one that gives up, changes the survivors.
THEOREM SolveTrimsAsPromised == SolveSpec => Contract!Spec
  <1>1. SolveInit => Contract!Init
      BY DEF SolveInit, Init, Contract!Init
  <1>2. ASSUME SolveInv, [SolveNext]_solveVars
        PROVE  [Contract!Next]_(Contract!vars)
    <2>1. CASE [Next]_vars
        BY <1>2, <2>1, NextTrims DEF SolveInv
    <2>2. CASE UNCHANGED <<ends, alive, round>>
        BY <2>2 DEF Contract!vars
    <2>3. [Next]_vars \/ UNCHANGED <<ends, alive, round>>
        BY <1>2, SolveStepIs DEF BeginSearch, SearchStep, SearchReturns, Conclude, vars
    <2>. QED
        BY <2>1, <2>2, <2>3
  <1>. QED
      BY <1>1, <1>2, SolveInitInv, SolveNextInv, PTL DEF SolveSpec, Contract!Spec

\* verify_cycle accepts exactly the cycles of the length asked for, in every
\* graph: nothing that is not one cycle gets past the look at one mate per
\* endpoint and the walk, and no cycle is turned away.
THEOREM VerifyIsExact == SolveSpec => []VerifiesExactly
  <1>1. ASSUME TypeOK, NEW P \in SUBSET Edges
        PROVE  Search!Verify(ends, P, CycleLength) <=> IsCycle(ends, P, CycleLength)
    <2>1. ends \in Graphs(Edges, Nodes) /\ CycleLength \in Nat \ {0}
        BY <1>1, SolveConstants DEF TypeOK
    <2>2. Numbered(ends, P)
        BY <2>1, SolveConstants, GraphIsNumbered
    <2>3. IsFiniteSet(P)
        BY SolveConstants, FS_Subset
    <2>4. Verify(ends, P, CycleLength) <=> IsCycle(ends, P, CycleLength)
        BY <2>1, <2>2, <2>3, VerifyIsCycle
    <2>. QED
        BY <2>4, SearchVerify
  <1>2. TypeOK => VerifiesExactly
      BY <1>1 DEF VerifiesExactly
  <1>3. SolveInv => TypeOK
      BY DEF SolveInv, IInv
  <1>. QED
      BY <1>2, <1>3, SolveInitInv, SolveNextInv, PTL DEF SolveSpec

-----------------------------------------------------------------------------
(* The search is one step                                                   *)

\* The operators of the abstract solve are those of the concrete one.
LEMMA AbstractGraph ==
    /\ \A C : Abstract!Closed(ends, C) <=> Closed(ends, C)
    /\ \A S : Abstract!Cycles(ends, S, CycleLength) = Cycles(ends, S, CycleLength)
    /\ \A E, N : Abstract!Graphs(E, N) = Graphs(E, N)
  <1>1. \A C : Abstract!Closed(ends, C) <=> Closed(ends, C)
      BY DEF Abstract!Closed, Closed, Abstract!HasMate, HasMate, Abstract!Meets, Meets,
             Abstract!Mate, Mate, Abstract!Sides, Sides
  <1>2. \A S : Abstract!Cardinality(S) = Cardinality(S)
      BY DEF Abstract!Cardinality, Cardinality
  <1>3. \A P : Abstract!IsCycle(ends, P, CycleLength) <=> IsCycle(ends, P, CycleLength)
      BY <1>1, <1>2 DEF Abstract!IsCycle, IsCycle, Abstract!Meets, Meets,
             Abstract!Mate, Mate, Abstract!Sides, Sides
  <1>4. \A S : Abstract!Cycles(ends, S, CycleLength) = Cycles(ends, S, CycleLength)
      BY <1>3 DEF Abstract!Cycles, Cycles
  <1>. QED
      BY <1>1, <1>4 DEF Abstract!Graphs, Graphs, Abstract!Sides, Sides

\* Until the search is called the flag is the flag.
LEMMA AbstractTrims ==
    ASSUME ~Searching, ~Searching',
           MarkNodes \/ KillEdges \/ RoundsDone \/ Cancelled \/ Cancel \/ UNCHANGED vars
    PROVE  [Abstract!Next]_Abstract!vars
  <1>0. /\ (cancel /\ ~Searching) <=> cancel
        /\ (cancel' /\ ~Searching') <=> cancel'
      BY Zenon
  <1>1. CASE MarkNodes
    <2>1. Abstract!MarkNodes
        BY <1>0, <1>1 DEF MarkNodes, Abstract!MarkNodes, Side, Abstract!Side
    <2>. QED
        BY <2>1 DEF Abstract!Next
  <1>2. CASE KillEdges
    <2>1. Abstract!KillEdges
        BY <1>0, <1>2 DEF KillEdges, Abstract!KillEdges, Side, Abstract!Side, Mate, Abstract!Mate
    <2>. QED
        BY <2>1 DEF Abstract!Next
  <1>3. CASE RoundsDone
    <2>1. Abstract!RoundsDone
        BY <1>0, <1>3 DEF RoundsDone, Abstract!RoundsDone
    <2>. QED
        BY <2>1 DEF Abstract!Next
  <1>4. CASE Cancelled
    <2>1. Abstract!Cancelled
        BY <1>0, <1>4 DEF Cancelled, Abstract!Cancelled
    <2>. QED
        BY <2>1 DEF Abstract!Next
  <1>5. CASE Cancel
    <2>1. Abstract!Cancel
        BY <1>0, <1>5 DEF Cancel, Abstract!Cancel
    <2>. QED
        BY <2>1 DEF Abstract!Next
  <1>6. CASE UNCHANGED vars
    <2>1. UNCHANGED Abstract!vars
        BY <1>0, <1>6 DEF vars, Abstract!vars
    <2>. QED
        BY <2>1
  <1>. QED
      BY <1>1, <1>2, <1>3, <1>4, <1>5, <1>6

\* From then on nobody sees it, raised or not.
LEMMA AbstractStutters ==
    ASSUME UNCHANGED <<ends, alive, occupied, round, pc, outcome, proof>>,
           (cancel /\ ~Searching) <=> (cancel' /\ ~Searching')
    PROVE  [Abstract!Next]_Abstract!vars
  <1>1. UNCHANGED Abstract!vars
      BY DEF Abstract!vars
  <1>. QED
      BY <1>1

LEMMA AbstractFinishes ==
    ASSUME SolveInv, SearchReturns
    PROVE  Abstract!Next
  <1>1. /\ pc = "search" /\ pc' = "done" /\ proof' = found
        /\ UNCHANGED <<ends, alive, occupied, round, spc>>
      BY DEF SearchReturns, Conclude, searchVars
  <1>2. spc # "idle" /\ spc' # "idle"
      BY <1>1, WhatReturns
  <1>3. ~(cancel /\ ~Searching) /\ ~(cancel' /\ ~Searching')
      BY <1>2, Zenon DEF Searching
  <1>4. /\ Cycles(Survivors, DOMAIN Survivors, CycleLength) = Abstract!Cycles(ends, alive, CycleLength)
      BY SurvivorCycles, AbstractGraph DEF SolveInv, IInv
  <1>5. CASE spc = "found" /\ outcome' = "proof"
    <2>1. found \in Abstract!Cycles(ends, alive, CycleLength)
        BY <1>4, <1>5 DEF SolveInv, SearchInv
    <2>2. Abstract!Finish("proof", found)
        BY <1>1, <1>3, <1>5 DEF Abstract!Finish
    <2>. QED
        BY <2>1, <2>2 DEF Abstract!FindsCycle, Abstract!Next
  <1>6. CASE spc = "none" /\ outcome' = "noCycle"
    <2>1. Abstract!Cycles(ends, alive, CycleLength) = {} /\ found = {}
        BY <1>4, <1>6 DEF SolveInv, SearchInv
    <2>2. Abstract!Finish("noCycle", {})
        BY <1>1, <1>3, <1>6, <2>1 DEF Abstract!Finish
    <2>. QED
        BY <2>1, <2>2 DEF Abstract!FindsNothing, Abstract!Next
  <1>7. CASE spc = "limit" /\ outcome' = "inconclusive"
    <2>1. found = {}
        BY <1>7 DEF SolveInv, SearchInv
    <2>2. Abstract!Finish("inconclusive", {})
        BY <1>1, <1>3, <1>7, <2>1 DEF Abstract!Finish
    <2>. QED
        BY <2>2 DEF Abstract!GivesUp, Abstract!Next
  <1>. QED
      BY <1>5, <1>6, <1>7, WhatReturns

\* Each step of the solve is a step of CpuLean or none.
LEMMA AbstractStep ==
    ASSUME SolveInv, [SolveNext]_solveVars
    PROVE  [Abstract!Next]_Abstract!vars
  <1>1. CASE TrimStep
    <2>1. ~Searching /\ ~Searching' /\ (MarkNodes \/ KillEdges \/ RoundsDone \/ Cancelled)
        BY <1>1 DEF TrimStep, Searching, searchVars
    <2>. QED
        BY <2>1, AbstractTrims
  <1>2. CASE BeginSearch
    <2>1. ~cancel /\ spc' # "idle" /\ UNCHANGED vars
        BY <1>2 DEF BeginSearch, Search!Call
    <2>2. (cancel /\ ~Searching) <=> (cancel' /\ ~Searching')
        BY <2>1, Zenon DEF Searching
    <2>3. UNCHANGED <<ends, alive, occupied, round, pc, outcome, proof>>
        BY <2>1 DEF vars
    <2>. QED
        BY <2>2, <2>3, AbstractStutters
  <1>3. CASE SearchStep
    <2>1. UNCHANGED <<ends, alive, occupied, round, pc, outcome, proof>>
        BY <1>3 DEF SearchStep, vars
    <2>2. spc' # "idle" /\ spc # "idle"
        BY <1>3, SearchStepKeeps DEF SearchStep, SolveInv, IInv
    <2>3. (cancel /\ ~Searching) <=> (cancel' /\ ~Searching')
        BY <2>2, Zenon DEF Searching
    <2>. QED
        BY <2>1, <2>3, AbstractStutters
  <1>4. CASE SearchReturns
      BY <1>4, AbstractFinishes
  <1>5. CASE Raised
    <2>1. Cancel /\ spc' = spc
        BY <1>5 DEF Raised, searchVars
    <2>2. CASE ~Searching
      <3>1. ~Searching'
          BY <2>1, <2>2 DEF Searching
      <3>. QED
          BY <2>1, <2>2, <3>1, AbstractTrims
    <2>3. CASE Searching
      <3>1. Searching'
          BY <2>1, <2>3 DEF Searching
      <3>2. (cancel /\ ~Searching) <=> (cancel' /\ ~Searching')
          BY <2>3, <3>1, Zenon
      <3>3. UNCHANGED <<ends, alive, occupied, round, pc, outcome, proof>>
          BY <2>1 DEF Cancel
      <3>. QED
          BY <3>2, <3>3, AbstractStutters
    <2>. QED
        BY <2>2, <2>3
  <1>6. CASE SolveReturned \/ UNCHANGED solveVars
    <2>1. UNCHANGED vars /\ spc' = spc
        BY <1>6 DEF SolveReturned, Returned, solveVars, searchVars
    <2>2. UNCHANGED <<ends, alive, occupied, round, pc, outcome, proof>>
        BY <2>1 DEF vars
    <2>3. cancel' = cancel /\ Searching' = Searching
        BY <2>1 DEF vars, Searching
    <2>4. (cancel /\ ~Searching) <=> (cancel' /\ ~Searching')
        BY <2>3, Zenon
    <2>. QED
        BY <2>2, <2>4, AbstractStutters
  <1>. QED
      BY <1>1, <1>2, <1>3, <1>4, <1>5, <1>6 DEF SolveNext, Work

\* The solve with its search implements the solve whose search is one step: a
\* proof is a cycle of the survivors, "no cycle" means that there is none, and
\* the flag has no effect once the search has begun.
THEOREM SolveImplementsCpuLean == SolveSpec => ImplementsCpuLean
  <1>1. SolveInit => Abstract!Init
    <2> SUFFICES ASSUME SolveInit PROVE Abstract!Init
        OBVIOUS
    <2>1. Init
        BY DEF SolveInit
    <2>2. ~(cancel /\ ~Searching)
        BY <2>1, Zenon DEF Init
    <2>3. (cancel /\ ~Searching) = FALSE
        BY <2>2, Zenon
    <2>. QED
        BY <2>1, <2>3, AbstractGraph DEF Init, Abstract!Init
  <1>. QED
      BY <1>1, AbstractStep, SolveInitInv, SolveNextInv, PTL
      DEF SolveSpec, ImplementsCpuLean, Abstract!Spec
-----------------------------------------------------------------------------
(* A solve runs out of steps                                               *)

SearchRuns == spc \in {"begin", "search"}

\* Two steps a round and one to end the rounds; for every start the search puts
\* one edge on the path and takes it off; a branch is counted, and what it puts
\* on the path is taken off.
SearchMost == 2 * Cardinality(Edges) + 2 * MaxBranches + 5
MostSteps  == 2 * Rounds + 1 + SearchMost

TrimLeft ==
    IF pc = "search" THEN 0 ELSE 2 * (Rounds - round) + (IF pc = "round" THEN 1 ELSE 0)

SearchLeft ==
    2 * Cardinality(starts) + 2 * (MaxBranches - branches) + Len(path)
        + (IF SearchRuns THEN 1 ELSE 0)

\* The most steps of the solve's thread that may still come.
StepsLeft ==
    IF pc = "done" THEN 0
    ELSE IF Searching THEN SearchLeft + 3
    ELSE TrimLeft + SearchMost

\* The branch over the budget is the last one.
BranchesCounted ==
    /\ branches \in Nat
    /\ branches <= MaxBranches + (IF spc = "limit" THEN 1 ELSE 0)
    /\ spc = "idle" => branches = 0
    /\ starts \subseteq Edges /\ path \in Seq(Edges)

\* The thread is in the search and nowhere else until it has a result.
SearchIsAwaited == SearchRuns => pc = "search"

LEMMA CountFacts ==
    ASSUME BranchesCounted
    PROVE  /\ MaxBranches \in Nat /\ Cardinality(Edges) \in Nat
           /\ branches \in Nat /\ branches <= MaxBranches + 1 /\ Len(path) \in Nat
           /\ spc # "limit" => branches <= MaxBranches
           /\ IsFiniteSet(starts) /\ Cardinality(starts) \in Nat
           /\ Cardinality(starts) <= Cardinality(Edges)
  <1>1. IsFiniteSet(Edges) /\ starts \subseteq Edges /\ MaxBranches \in Nat
      BY CpuSolveAssumption DEF BranchesCounted
  <1>2. IsFiniteSet(starts) /\ Cardinality(starts) \in Nat /\ Cardinality(Edges) \in Nat
        /\ Cardinality(starts) <= Cardinality(Edges)
      BY <1>1, FS_Subset, FS_CardinalityType
  <1>3. Len(path) \in Nat
      BY LenProperties DEF BranchesCounted
  <1>. QED
      BY <1>1, <1>2, <1>3 DEF BranchesCounted

\* Every step of the search lowers what it has left.
LEMMA SearchLowers ==
    ASSUME TypeOK, SearchInv(Survivors, CycleLength, starts, path, frames, found, spc),
           BranchesCounted, Search!Step
    PROVE  BranchesCounted' /\ SearchLeft' < SearchLeft
  <1> USE DEF SearchLeft, SearchRuns
  <1>0. DOMAIN Survivors \subseteq Edges
      BY DEF Survivors, TypeOK
  <1>1. CASE Search!TooFew \/ Search!Exhausted
    <2>1. spc = "begin" /\ spc' = "none" /\ UNCHANGED <<starts, path, branches>>
        BY <1>1 DEF Search!TooFew, Search!Exhausted
    <2>. QED
        BY <2>1, CountFacts DEF BranchesCounted
  <1>2. CASE Search!Start
    <2>1. PICK start \in starts :
              /\ spc = "begin" /\ spc' = "search" /\ branches' = branches
              /\ starts' = starts \ {start} /\ path' = <<start>>
        BY <1>2 DEF Search!Start
    <2>2. Cardinality(starts') = Cardinality(starts) - 1
        BY <2>1, CountFacts, FS_RemoveElement
    <2>3. path' \in Seq(Edges) /\ Len(path') = 1 /\ Len(path) \in Nat
        BY <2>1, CountFacts DEF BranchesCounted
    <2>4. BranchesCounted'
        BY <2>1, <2>3 DEF BranchesCounted
    <2>. QED
        BY <2>1, <2>2, <2>3, <2>4, CountFacts DEF SearchInv
  <1>3. CASE Search!OverBudget
    <2>1. /\ spc = "search" /\ spc' = "limit" /\ branches' = branches + 1
          /\ UNCHANGED <<starts, path>>
        BY <1>3 DEF Search!OverBudget, Search!Branch
    <2>. QED
        BY <2>1, CountFacts DEF BranchesCounted
  <1>4. ASSUME NEW next \in Search!Untried, Search!Descend(next)
        PROVE  BranchesCounted' /\ SearchLeft' < SearchLeft
    <2>1. /\ spc = "search" /\ spc' = spc /\ branches' = branches + 1
          /\ branches' <= MaxBranches /\ path' = Append(path, next) /\ starts' = starts
        BY <1>4 DEF Search!Descend, Search!Branch
    <2>2. frames \in Seq(SUBSET DOMAIN Survivors) /\ Len(frames) = Len(path)
          /\ Len(path) \in Nat \ {0} /\ Search!Untried = frames[Len(path)]
        BY <2>1, PathFacts
    <2>3. next \in Edges
        BY <1>0, <1>4, <2>2, ElementOfSeq
    <2>4. path' \in Seq(Edges) /\ Len(path') = Len(path) + 1
        BY <2>1, <2>3, AppendProperties DEF BranchesCounted
    <2>. QED
        BY <2>1, <2>4, CountFacts DEF BranchesCounted
  <1>5. ASSUME NEW next \in Search!Untried, Search!Skip(next)
        PROVE  BranchesCounted' /\ SearchLeft' < SearchLeft
    <2>1. /\ spc = "search" /\ spc' = spc /\ branches' = branches + 1
          /\ branches' <= MaxBranches /\ UNCHANGED <<starts, path>>
        BY <1>5 DEF Search!Skip, Search!Branch
    <2>. QED
        BY <2>1, CountFacts DEF BranchesCounted
  <1>6. CASE Search!Found
    <2>1. spc = "search" /\ spc' = "found" /\ UNCHANGED <<starts, path, branches>>
        BY <1>6 DEF Search!Found
    <2>. QED
        BY <2>1, CountFacts DEF BranchesCounted
  <1>7. CASE Search!Backtrack
    <2>1. /\ spc = "search" /\ UNCHANGED <<starts, branches>>
          /\ path' = SubSeq(path, 1, Len(path) - 1)
          /\ spc' \in {"begin", "search"}
        BY <1>7 DEF Search!Backtrack, Search!Front
    <2>2. path' \in Seq(Edges) /\ Len(path') = Len(path) - 1
        BY <2>1, PathFacts, FrontFacts DEF BranchesCounted
    <2>3. BranchesCounted'
        BY <2>1, <2>2 DEF BranchesCounted
    <2>4. Len(path) \in Nat /\ branches \in Nat /\ MaxBranches \in Nat
          /\ Cardinality(starts) \in Nat
        BY CountFacts
    <2>5. SearchLeft' = 2 * Cardinality(starts) + 2 * (MaxBranches - branches) + (Len(path) - 1) + 1
        BY <2>1, <2>2
    <2>6. SearchLeft = 2 * Cardinality(starts) + 2 * (MaxBranches - branches) + Len(path) + 1
        BY <2>1
    <2>. QED
        BY <2>3, <2>4, <2>5, <2>6
  <1>. QED
      BY <1>1, <1>2, <1>3, <1>4, <1>5, <1>6, <1>7 DEF Search!Step

LEMMA SearchLeftInt == BranchesCounted => SearchLeft \in Int /\ SearchLeft >= -2
  <1> SUFFICES ASSUME BranchesCounted PROVE SearchLeft \in Int /\ SearchLeft >= -2
      OBVIOUS
  <1>1. 2 * (MaxBranches - branches) \in Int /\ 2 * (MaxBranches - branches) >= -2
      BY CountFacts
  <1>2. 2 * Cardinality(starts) \in Nat /\ Len(path) \in Nat
      BY CountFacts
  <1>. QED
      BY <1>1, <1>2 DEF SearchLeft

LEMMA MostIsNat == MostSteps \in Nat
  BY CpuLeanAssumption, CpuSolveAssumption, FS_CardinalityType DEF MostSteps, SearchMost

LEMMA LeftIsNat == SolveInv /\ BranchesCounted => StepsLeft \in Nat
  <1> SUFFICES ASSUME SolveInv, BranchesCounted PROVE StepsLeft \in Nat
      OBVIOUS
  <1>1. Rounds \in Nat /\ round \in 0..Rounds
      BY CpuLeanAssumption DEF SolveInv, IInv, TypeOK
  <1>2. TrimLeft \in Nat
      BY <1>1 DEF TrimLeft
  <1>3. SearchMost \in Nat
      BY CpuSolveAssumption, FS_CardinalityType DEF SearchMost
  <1>4. SearchLeft \in Int /\ SearchLeft >= -2
      BY SearchLeftInt
  <1>. QED
      BY <1>2, <1>3, <1>4 DEF StepsLeft

LEMMA WorkLowers ==
    ASSUME SolveInv, BranchesCounted, SearchIsAwaited, Work
    PROVE  BranchesCounted' /\ SearchIsAwaited' /\ StepsLeft' < StepsLeft
  <1>0. /\ TypeOK /\ NodesMarked
        /\ SearchInv(Survivors, CycleLength, starts, path, frames, found, spc)
      BY DEF SolveInv, IInv
  <1>a. Rounds \in Nat /\ round \in 0..Rounds /\ (pc = "kill" => round < Rounds)
      BY <1>0, CpuLeanAssumption DEF TypeOK, NodesMarked
  <1>b. /\ SearchLeft >= -2 /\ SearchLeft \in Int
        /\ spc = "begin" /\ path = <<>> /\ branches = 0
              => SearchLeft <= 2 * Cardinality(Edges) + 2 * MaxBranches + 1
      BY CountFacts, EmptySeq DEF SearchLeft, SearchRuns
  <1>1. CASE TrimStep
    <2>1. ~Searching /\ UNCHANGED searchVars
        BY <1>1 DEF TrimStep
    <2>2. BranchesCounted' /\ ~Searching' /\ SearchIsAwaited'
        BY <2>1 DEF searchVars, BranchesCounted, Searching, SearchIsAwaited, SearchRuns
    <2>3. /\ pc # "done"
          /\ \/ pc' = "done"
             \/ pc = "round" /\ pc' = "kill" /\ round' = round
             \/ pc = "kill" /\ pc' = "search"
             \/ pc = "kill" /\ pc' = "round" /\ round' = round + 1
             \/ pc = "round" /\ pc' = "search"
        BY <1>1 DEF TrimStep, MarkNodes, KillEdges, RoundsDone, Cancelled
    <2>4. SearchMost \in Nat \ {0}
        BY CountFacts DEF SearchMost
    <2>5. StepsLeft = TrimLeft + SearchMost
        BY <2>1, <2>3 DEF StepsLeft
    <2>6. CASE pc' = "done"
        BY <1>a, <2>2, <2>3, <2>4, <2>5, <2>6 DEF StepsLeft, TrimLeft
    <2>7. CASE pc' # "done"
      <3>1. StepsLeft' = TrimLeft' + SearchMost
          BY <2>2, <2>7 DEF StepsLeft, SearchMost
      <3>. QED
          BY <1>a, <2>2, <2>3, <2>4, <2>5, <2>7, <3>1 DEF TrimLeft
    <2>. QED
        BY <2>6, <2>7
  <1>2. CASE BeginSearch
    <2>1. /\ pc = "search" /\ pc' = pc /\ ~Searching /\ spc = "idle" /\ spc' = "begin"
          /\ starts' = DOMAIN Survivors /\ UNCHANGED <<path, branches>> /\ path = <<>>
          /\ branches = 0
        BY <1>0, <1>2, SearchGiven
        DEF BeginSearch, Search!Call, vars, Searching, SearchInv, BranchesCounted
    <2>2. DOMAIN Survivors \subseteq Edges
        BY <1>0 DEF Survivors, TypeOK
    <2>3. BranchesCounted' /\ SearchIsAwaited'
        BY <2>1, <2>2 DEF BranchesCounted, SearchIsAwaited
    <2>4. Cardinality(starts') \in Nat /\ Cardinality(starts') <= Cardinality(Edges)
        BY <2>1, <2>2, CpuSolveAssumption, FS_Subset, FS_CardinalityType
    <2>. QED
        BY <2>1, <2>3, <2>4, CountFacts
        DEF StepsLeft, TrimLeft, SearchMost, SearchLeft, SearchRuns, Searching
  <1>3. CASE SearchStep
    <2>1. /\ BranchesCounted' /\ SearchLeft' < SearchLeft
          /\ spc # "idle" /\ spc' # "idle" /\ pc' = pc
        BY <1>0, <1>3, SearchLowers, SearchStepKeeps DEF SearchStep, vars
    <2>2. SearchRuns
        BY <1>3 DEF SearchStep, SearchRuns, Search!Step, Search!TooFew, Search!Start,
                    Search!Exhausted, Search!OverBudget, Search!Descend, Search!Skip,
                    Search!Branch, Search!Found, Search!Backtrack
    <2>3. pc = "search" /\ SearchIsAwaited'
        BY <2>1, <2>2 DEF SearchIsAwaited
    <2>4. (BranchesCounted => SearchLeft \in Int /\ SearchLeft >= -2)'
        BY SearchLeftInt, PTL
    <2>5. StepsLeft = SearchLeft + 3 /\ StepsLeft' = SearchLeft' + 3
        BY <2>1, <2>3 DEF StepsLeft, Searching
    <2>. QED
        BY <1>b, <2>1, <2>3, <2>4, <2>5
  <1>4. CASE SearchReturns
    <2>1. pc = "search" /\ pc' = "done" /\ spc \in {"found", "none", "limit"}
          /\ UNCHANGED <<starts, path, branches, spc>>
        BY <1>4, WhatReturns DEF SearchReturns, Conclude, searchVars
    <2>2. BranchesCounted' /\ SearchIsAwaited'
        BY <2>1 DEF BranchesCounted, SearchIsAwaited, SearchRuns
    <2>. QED
        BY <1>b, <2>1, <2>2 DEF StepsLeft, Searching
  <1>. QED
      BY <1>1, <1>2, <1>3, <1>4 DEF Work

RunInv ==
    /\ SolveInv /\ BranchesCounted /\ SearchIsAwaited
    /\ StepsLeft \in 0..MostSteps

LEMMA RunInitInv == SolveInit => RunInv
  <1> SUFFICES ASSUME SolveInit PROVE RunInv
      OBVIOUS
  <1>1. /\ pc = "round" /\ round = 0 /\ spc = "idle" /\ starts = {} /\ path = <<>>
        /\ branches = 0
      BY DEF SolveInit, Init, Search!Init
  <1>2. BranchesCounted /\ SearchIsAwaited
      BY <1>1, CpuSolveAssumption DEF BranchesCounted, SearchIsAwaited, SearchRuns
  <1>3. StepsLeft = MostSteps /\ MostSteps \in Nat
      BY <1>1, <1>2, CountFacts, CpuLeanAssumption DEF StepsLeft, MostSteps, SearchMost, TrimLeft, Searching
  <1>. QED
      BY <1>2, <1>3, SolveInitInv DEF RunInv

\* Only the solve's thread counts: the flag takes nothing off and puts nothing on.
LEMMA RunNextInv ==
    ASSUME RunInv, [SolveNext]_solveVars
    PROVE  RunInv' /\ (Work => StepsLeft' < StepsLeft)
  <1>1. SolveInv'
      BY SolveNextInv DEF RunInv
  <1>2. CASE Work
    <2>1. BranchesCounted' /\ SearchIsAwaited' /\ StepsLeft' < StepsLeft
        BY <1>2, WorkLowers DEF RunInv
    <2>2. (SolveInv /\ BranchesCounted => StepsLeft \in Nat)'
        BY LeftIsNat, PTL
    <2>3. StepsLeft' \in Nat
        BY <1>1, <2>1, <2>2
    <2>. QED
        BY <1>1, <2>1, <2>3, MostIsNat DEF RunInv, MostSteps, SearchMost
  <1>3. CASE ~Work
    <2>1. UNCHANGED <<round, pc, searchVars>>
        BY <1>3 DEF SolveNext, Raised, Cancel, SolveReturned, Returned, vars, solveVars
    <2>2. BranchesCounted' /\ SearchIsAwaited' /\ StepsLeft' = StepsLeft
        BY <2>1 DEF searchVars, RunInv, BranchesCounted, SearchIsAwaited, SearchRuns,
                    StepsLeft, TrimLeft, SearchMost, SearchLeft, Searching
    <2>. QED
        BY <1>1, <1>3, <2>2 DEF RunInv, MostSteps, SearchMost
  <1>. QED
      BY <1>2, <1>3

\* A solve takes at most MostSteps steps: each one that its thread takes leaves
\* fewer, through the rounds, the starts, the branches and the backtracking, in any
\* graph and with the flag raised at any time.  Whoever waits for it waits on
\* nothing but those.
THEOREM SolveRunsOut ==
    SolveSpec => [](StepsLeft \in 0..MostSteps) /\ [][Work => StepsLeft' < StepsLeft]_solveVars
  <1>1. RunInv => StepsLeft \in 0..MostSteps
      BY DEF RunInv
  <1>2. RunInv /\ [SolveNext]_solveVars => RunInv' /\ [Work => StepsLeft' < StepsLeft]_solveVars
      BY RunNextInv
  <1>. QED
      BY <1>1, <1>2, RunInitInv, PTL DEF SolveSpec
=============================================================================
