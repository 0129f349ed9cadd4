---------------------------- MODULE GraphProofs ----------------------------
(***************************************************************************)
(* What holds of every graph, whichever solver looks at it.  Sorting edges *)
(* into buckets loses none, a workgroup that knows its own bucket finds all*)
(* mates, and an arena that did not overflow holds what was scattered.     *)
(* verify_cycle accepts the cycles and nothing else.  And neither of the   *)
(* two searches misses a cycle: their invariants are stated here with the  *)
(* stacks as parameters, for the solvers that run them.                    *)
(***************************************************************************)
EXTENDS TrimKernels, VerifyCycle, SequenceTheorems, FiniteSetTheorems, TLAPS

\* The high and low bits of a number are what they are put together from.
LEMMA DivModUnique ==
    ASSUME NEW q \in Nat, NEW r \in 0..(BucketNodes - 1), NEW n \in Nat,
           n = BucketNodes * q + r
    PROVE  n \div BucketNodes = q /\ n % BucketNodes = r
  BY BucketAssumption

\* Buckets are made of whole pairs of mates.
LEMMA MateInBucket ==
    ASSUME NEW n \in Nat
    PROVE  /\ Bucket(n) \in Nat /\ Suffix(n) \in 0..(BucketNodes - 1)
           /\ n = BucketNodes * Bucket(n) + Suffix(n)
           /\ Mate(n) \in Nat /\ Mate(Mate(n)) = n
           /\ Bucket(Mate(n)) = Bucket(n)
           /\ Suffix(Mate(n)) = Mate(Suffix(n))
<1> DEFINE q == n \div BucketNodes
           r == n % BucketNodes
<1>1. q \in Nat /\ r \in 0..(BucketNodes - 1) /\ n = BucketNodes * q + r
  BY BucketAssumption
<1>2. PICK half \in Nat : BucketNodes = 2 * half
  <2>1. BucketNodes = 2 * (BucketNodes \div 2)
    BY BucketAssumption
  <2> QED
    BY <2>1, BucketAssumption
<1>3. Mate(n) \in Nat /\ Mate(Mate(n)) = n
  BY DEF Mate
<1> HIDE DEF q, r
<1>4. n % 2 = r % 2
  <2>1. half * q \in Nat /\ n = 2 * (half * q) + r
    BY <1>1, <1>2
  <2> QED
    BY <1>1, <2>1
<1>5. Mate(r) \in 0..(BucketNodes - 1)
  BY <1>1, <1>2 DEF Mate
<1>6. Mate(n) = BucketNodes * q + Mate(r)
  <2>1. BucketNodes * q \in Nat
    BY <1>1, BucketAssumption
  <2> QED
    BY <1>1, <1>4, <2>1 DEF Mate
<1>7. Mate(n) \div BucketNodes = q /\ Mate(n) % BucketNodes = Mate(r)
  BY <1>1, <1>3, <1>5, <1>6, DivModUnique
<1> QED
  BY <1>1, <1>3, <1>7 DEF Bucket, Suffix, q, r

-----------------------------------------------------------------------------
(* Graphs of Edges and Nodes *)

\* An endpoint is a node, and a natural number.
LEMMA EndpointFacts ==
    ASSUME NEW Edges, NEW Nodes, Nodes \subseteq Nat,
           NEW ends \in Graphs(Edges, Nodes), NEW e \in Edges, NEW side \in Sides
    PROVE  ends[e][side] \in Nodes /\ ends[e][side] \in Nat
  BY DEF Graphs

\* A round of lean kernels is a round of trimming.
LEMMA LeanRoundTrims ==
    ASSUME NEW ends, NEW S, NEW side
    PROVE  LeanRound(ends, S, side) = TrimSide(ends, S, side)
  BY DEF LeanRound, Unmated, Marks, TrimSide, HasMate, Meets

\* An edge and its mate are kept together: trimming the same side again finds
\* nothing.
LEMMA TrimAgainKeeps ==
    ASSUME NEW Edges, NEW Nodes, Nodes \subseteq Nat, NEW ends \in Graphs(Edges, Nodes),
           NEW S \in SUBSET Edges, NEW side \in Sides, NEW e \in TrimSide(ends, S, side)
    PROVE  HasMate(ends, TrimSide(ends, S, side), e, side)
<1>1. PICK f \in S : ends[f][side] = Mate(ends[e][side])
  BY DEF TrimSide, HasMate, Meets
<1>2. e \in S /\ ends[e][side] = Mate(ends[f][side])
  BY <1>1, EndpointFacts, MateInBucket DEF TrimSide
<1> QED
  BY <1>1, <1>2 DEF TrimSide, HasMate, Meets

\* A round takes nothing of a closed set, so of a cycle.
LEMMA TrimKeepsClosed ==
    ASSUME NEW ends, NEW S, NEW side \in Sides, NEW C, C \subseteq S, Closed(ends, C)
    PROVE  C \subseteq TrimSide(ends, S, side)
  BY DEF Closed, TrimSide, HasMate

\* What keeps every closed set keeps every cycle, and so does its core.
LEMMA CyclesKept ==
    ASSUME NEW Edges, NEW ends, NEW length, NEW S \in SUBSET Edges,
           \A C \in SUBSET Edges : Closed(ends, C) => C \subseteq S,
           Cycles(ends, Core(ends, S), length) = {}
    PROVE  Cycles(ends, Edges, length) = {}
<1>1. \A P \in Cycles(ends, Edges, length) : P \subseteq Core(ends, S)
  BY DEF Cycles, IsCycle, Core
<1> QED
  BY <1>1 DEF Cycles

\* The survivors, as a graph of their own, have the cycles they have in the
\* whole graph.
LEMMA CyclesOfPart ==
    ASSUME NEW ends, NEW S, NEW length
    PROVE  Cycles([e \in S |-> ends[e]], S, length) = Cycles(ends, S, length)
<1>1. ASSUME NEW P \in SUBSET S
      PROVE  IsCycle([e \in S |-> ends[e]], P, length) <=> IsCycle(ends, P, length)
  <2> DEFINE part == [e \in S |-> ends[e]]
  <2>1. \A e, f \in P, side \in Sides : Meets(part, e, f, side) <=> Meets(ends, e, f, side)
    BY DEF Meets
  <2> HIDE DEF part
  <2>2. \A C \in SUBSET P : Closed(part, C) <=> Closed(ends, C)
    BY <2>1 DEF Closed, HasMate
  <2>3. IsCycle(part, P, length) <=> IsCycle(ends, P, length)
    BY <2>1, <2>2 DEF IsCycle
  <2> QED
    BY <2>3 DEF part
<1> QED
  BY <1>1 DEF Cycles

-----------------------------------------------------------------------------
(* Arenas *)

\* Buckets hold edges of what is scattered.
LEMMA SortedType ==
    ASSUME NEW Edges, NEW Nodes, NEW ends, NEW S \in SUBSET Edges, NEW side
    PROVE  Sorted(ends, S, side, Buckets(Nodes)) \in [Buckets(Nodes) -> SUBSET Edges]
  BY DEF Sorted, InBucket

\* A scatter with room for all of them keeps all edges.
LEMMA SortedHolds ==
    ASSUME NEW Edges, NEW Nodes, NEW ends \in Graphs(Edges, Nodes),
           NEW S \in SUBSET Edges, NEW side \in Sides
    PROVE  Held(Sorted(ends, S, side, Buckets(Nodes))) = S
<1>1. \A e \in S : Bucket(ends[e][side]) \in Buckets(Nodes)
  BY DEF Graphs, Buckets
<1> QED
  BY <1>1 DEF Sorted, Held, InBucket

\* An arena that did not overflow is the one that was scattered.
LEMMA ClippedExact ==
    ASSUME NEW Edges, IsFiniteSet(Edges), NEW buckets,
           NEW arena \in [buckets -> SUBSET Edges], NEW capacity \in Nat,
           NEW a \in Clipped(arena, capacity), ~Overflows(arena, capacity)
    PROVE  a = arena
<1>1. a \in [buckets -> SUBSET Held(arena)] /\ \A b \in buckets : a[b] \in Fitting(arena[b], capacity)
  BY DEF Clipped
<1>2. ASSUME NEW b \in buckets PROVE a[b] = arena[b]
  <2>1. IsFiniteSet(arena[b])
    BY FS_Subset
  <2>2. Cardinality(arena[b]) \in Nat /\ ~(Cardinality(arena[b]) > capacity)
    BY <2>1, FS_CardinalityType DEF Overflows
  <2> QED
    BY <1>1, <2>2 DEF Fitting
<1> QED
  BY <1>1, <1>2

\* Whatever did find a slot was scattered.
LEMMA ClippedType ==
    ASSUME NEW Edges, NEW buckets, NEW arena \in [buckets -> SUBSET Edges],
           NEW capacity, NEW a \in Clipped(arena, capacity)
    PROVE  a \in [buckets -> SUBSET Edges] /\ Held(a) \subseteq Edges
  BY DEF Clipped, Held

\* A round from arena to arena is a round of trimming, sorted for the next one:
\* workgroups that know only their own bucket find every mate.
LEMMA NextArenaTrims ==
    ASSUME NEW Edges, NEW Nodes, Nodes \subseteq Nat, NEW ends \in Graphs(Edges, Nodes),
           NEW S \in SUBSET Edges, NEW side \in Sides
    PROVE  NextArena(ends, Sorted(ends, S, side, Buckets(Nodes)), side)
             = Sorted(ends, TrimSide(ends, S, side), 1 - side, Buckets(Nodes))
<1> DEFINE arena == Sorted(ends, S, side, Buckets(Nodes))
           node(e) == ends[e][side]
           bucket(b) == InBucket(ends, S, side, b)
<1>1. \A e \in S : node(e) \in Nat /\ Bucket(node(e)) \in Buckets(Nodes)
  BY EndpointFacts DEF Buckets
<1>2. DOMAIN arena = Buckets(Nodes) /\ \A b \in Buckets(Nodes) : arena[b] = bucket(b)
  BY DEF Sorted, bucket
<1>3. ASSUME NEW e \in S, NEW f \in S
      PROVE  node(f) = Mate(node(e))
                <=> /\ Bucket(node(f)) = Bucket(node(e))
                    /\ Suffix(node(f)) = Mate(Suffix(node(e)))
  <2> DEFINE m == Mate(node(e))
             n == node(f)
  <2>1. m \in Nat /\ n \in Nat
    BY <1>1, MateInBucket
  <2>2. /\ m = BucketNodes * Bucket(m) + Suffix(m)
        /\ n = BucketNodes * Bucket(n) + Suffix(n)
    BY <2>1, MateInBucket
  <2>3. Bucket(m) = Bucket(node(e)) /\ Suffix(m) = Mate(Suffix(node(e)))
    BY <1>1, MateInBucket
  <2> QED
    BY <2>2, <2>3
<1> HIDE DEF node
<1>4. \A e \in S : HasMate(ends, S, e, side) <=> \E f \in S : node(f) = Mate(node(e))
  BY DEF HasMate, Meets, node
<1>5. \A b : bucket(b) = {e \in S : Bucket(node(e)) = b}
  BY DEF InBucket, node
<1>6. \A b : MatedInBucket(ends, bucket(b), side)
               = {e \in bucket(b) : \E f \in bucket(b) : Suffix(node(f)) = Mate(Suffix(node(e)))}
  BY DEF MatedInBucket, node
<1> HIDE DEF bucket
<1>7. \A b : MatedInBucket(ends, bucket(b), side)
               = {e \in S : Bucket(node(e)) = b /\ \E f \in S : node(f) = Mate(node(e))}
  BY <1>3, <1>5, <1>6
<1>8. TrimSide(ends, S, side) = {e \in S : \E f \in S : node(f) = Mate(node(e))}
  BY <1>4 DEF TrimSide
<1>9. UNION {MatedInBucket(ends, arena[b], side) : b \in DOMAIN arena} = TrimSide(ends, S, side)
  BY <1>1, <1>2, <1>7, <1>8
<1> HIDE DEF arena
<1>10. NextArena(ends, arena, side)
         = Sorted(ends, TrimSide(ends, S, side), 1 - side, Buckets(Nodes))
  BY <1>2, <1>9 DEF NextArena
<1> QED
  BY <1>10 DEF arena

-----------------------------------------------------------------------------
(* Induction.  The provers cannot instantiate an induction theorem; that a *)
(* set of natural numbers has a least element they can use.                *)

LEMMA LeastNat ==
    ASSUME NEW T \in SUBSET Nat, T # {}
    PROVE  \E n \in T : \A m \in T : n <= m
<1> DEFINE R == OpToRel(<, Nat)
<1>1. IsWellFoundedOn(R, Nat)
  BY NatLessThanWellFounded
<1>2. R = {ss \in Nat \X Nat : ss[1] < ss[2]}
  BY DEF OpToRel
<1> HIDE DEF R
<1>3. PICK n \in T : \A m \in T : <<m, n>> \notin R
  BY <1>1, WFMin
<1>4. ASSUME NEW m \in T PROVE n <= m
  <2>1. m \in Nat /\ n \in Nat /\ <<m, n>> \notin R
    BY <1>3
  <2> QED
    BY <1>2, <2>1
<1> QED
  BY <1>4

\* So a set that holds 0, and with a number the next one, holds all up to n.
LEMMA Reaches ==
    ASSUME NEW n \in Nat, NEW T \in SUBSET (0..n), 0 \in T,
           \A k \in 0..(n - 1) : k \in T => k + 1 \in T
    PROVE  T = 0..n
<1> SUFFICES ASSUME (0..n) \ T # {} PROVE FALSE
  OBVIOUS
<1>1. (0..n) \ T \in SUBSET Nat
  OBVIOUS
<1>2. PICK m \in (0..n) \ T : \A k \in (0..n) \ T : m <= k
  BY <1>1, LeastNat
<1>3. m \in 1..n /\ m - 1 \in 0..(n - 1) /\ m - 1 \in T
  BY <1>2
<1> QED
  BY <1>2, <1>3

-----------------------------------------------------------------------------
(* Pairings.  On each side a set of edges may fall into pairs of mates.    *)

\* Every edge of P has one mate in P on each side.
Paired(ends, P) ==
    \A e \in P, side \in Sides :
       \E f \in P : /\ Meets(ends, e, f, side)
                    /\ \A g \in P : Meets(ends, e, g, side) => g = f

\* The mate verify_cycle walks to.
Partner(ends, P, e, side) == CHOOSE f \in MatesIn(ends, P, e, side) : TRUE

LEMMA MateTwice ==
    ASSUME NEW n \in Nat
    PROVE  Mate(n) \in Nat /\ Mate(Mate(n)) = n /\ Mate(n) # n
  BY DEF Mate

\* The endpoints of P are numbers.
Numbered(ends, P) == \A e \in P, side \in Sides : ends[e][side] \in Nat

LEMMA GraphIsNumbered ==
    ASSUME NEW E, NEW N, N \subseteq Nat, NEW ends \in Graphs(E, N), NEW P \in SUBSET E
    PROVE  Numbered(ends, P)
  BY DEF Graphs, Numbered

\* To meet is symmetric, and no edge meets itself.
LEMMA MeetsFacts ==
    ASSUME NEW ends, NEW P, Numbered(ends, P),
           NEW e \in P, NEW f \in P, NEW side \in Sides
    PROVE  /\ Meets(ends, e, f, side) <=> Meets(ends, f, e, side)
           /\ ~Meets(ends, e, e, side)
<1>1. ends[e][side] \in Nat /\ ends[f][side] \in Nat
  BY DEF Numbered
<1> QED
  BY <1>1, MateTwice DEF Meets

\* A cycle's edges are paired, and so are those of a proof that passes OneMate.
LEMMA ClosedPaired ==
    ASSUME NEW ends, NEW P, Closed(ends, P),
           \A e, f, g \in P, side \in Sides :
              Meets(ends, e, f, side) /\ Meets(ends, e, g, side) => f = g
    PROVE  Paired(ends, P)
  BY DEF Closed, HasMate, Paired

LEMMA PairedClosed ==
    ASSUME NEW ends, NEW P, Paired(ends, P)
    PROVE  /\ Closed(ends, P)
           /\ \A e, f, g \in P, side \in Sides :
                 Meets(ends, e, f, side) /\ Meets(ends, e, g, side) => f = g
<1>1. Closed(ends, P)
  BY DEF Closed, HasMate, Paired
<1>2. ASSUME NEW e \in P, NEW f \in P, NEW g \in P, NEW side \in Sides,
             Meets(ends, e, f, side), Meets(ends, e, g, side)
      PROVE  f = g
  <2>1. PICK h \in P : \A k \in P : Meets(ends, e, k, side) => k = h
    BY DEF Paired
  <2> QED
    BY <2>1, <1>2
<1> QED
  BY <1>1, <1>2

LEMMA OneMateIsPaired ==
    ASSUME NEW ends, NEW P, Numbered(ends, P), IsFiniteSet(P)
    PROVE  OneMate(ends, P) <=> Paired(ends, P)
<1>1. ASSUME NEW e \in P, NEW side \in Sides
      PROVE  Cardinality(MatesIn(ends, P, e, side)) = 1
                <=> \E f \in P : /\ Meets(ends, e, f, side)
                                 /\ \A g \in P : Meets(ends, e, g, side) => g = f
  <2> DEFINE S == MatesIn(ends, P, e, side)
  <2>1. S = {f \in P : Meets(ends, e, f, side)}
    BY MeetsFacts DEF MatesIn
  <2>2. IsFiniteSet(S)
    BY <2>1, FS_Subset
  <2>3. Cardinality(S) = 1 <=> \E f : S = {f}
    <3> HIDE DEF S
    <3> QED
      BY <2>2, FS_Singleton
  <2> QED
    BY <2>1, <2>3
<1> QED
  BY <1>1 DEF OneMate, Paired

\* Partners meet, are each other's partners, and no others.
LEMMA PartnerFacts ==
    ASSUME NEW ends, NEW P, Numbered(ends, P), Paired(ends, P), NEW e \in P, NEW side \in Sides
    PROVE  /\ Partner(ends, P, e, side) \in P
           /\ Meets(ends, e, Partner(ends, P, e, side), side)
           /\ \A g \in P : Meets(ends, e, g, side) => g = Partner(ends, P, e, side)
           /\ Partner(ends, P, e, side) # e
           /\ Partner(ends, P, Partner(ends, P, e, side), side) = e
<1>1. ASSUME NEW d \in P
      PROVE  /\ Partner(ends, P, d, side) \in P
             /\ Meets(ends, d, Partner(ends, P, d, side), side)
             /\ \A g \in P : Meets(ends, d, g, side) => g = Partner(ends, P, d, side)
  <2>1. PICK f \in P : /\ Meets(ends, d, f, side)
                       /\ \A g \in P : Meets(ends, d, g, side) => g = f
    BY DEF Paired
  <2>2. MatesIn(ends, P, d, side) = {f}
    BY <2>1, MeetsFacts DEF MatesIn
  <2>3. Partner(ends, P, d, side) = f
    BY <2>2 DEF Partner
  <2> QED
    BY <2>1, <2>3
<1> DEFINE f == Partner(ends, P, e, side)
<1>2. f \in P /\ Meets(ends, e, f, side)
  BY <1>1
<1> HIDE DEF f
<1>3. f # e /\ Meets(ends, f, e, side)
  BY <1>2, MeetsFacts
<1>4. Partner(ends, P, f, side) = e
  BY <1>1, <1>2, <1>3
<1> QED
  BY <1>1, <1>3, <1>4 DEF f

\* A closed part of P has the partners of its edges.
LEMMA ClosedHasPartners ==
    ASSUME NEW ends, NEW P, Numbered(ends, P), Paired(ends, P), NEW C \in SUBSET P, Closed(ends, C),
           NEW e \in C, NEW side \in Sides
    PROVE  Partner(ends, P, e, side) \in C
<1>1. PICK f \in C : Meets(ends, e, f, side)
  BY DEF Closed, HasMate
<1>2. e \in P /\ f \in P
  OBVIOUS
<1>3. f = Partner(ends, P, e, side)
  BY <1>1, <1>2, PartnerFacts
<1> QED
  BY <1>3

\* And what has the partners of its edges is closed.
LEMMA PartnersClose ==
    ASSUME NEW ends, NEW P, Numbered(ends, P), Paired(ends, P), NEW C \in SUBSET P,
           \A e \in C, side \in Sides : Partner(ends, P, e, side) \in C
    PROVE  Closed(ends, C)
<1>1. ASSUME NEW e \in C, NEW side \in Sides
      PROVE  HasMate(ends, C, e, side)
  <2>1. e \in P
    OBVIOUS
  <2>2. Meets(ends, e, Partner(ends, P, e, side), side)
    BY <2>1, PartnerFacts
  <2> QED
    BY <2>2 DEF HasMate
<1> QED
  BY <1>1 DEF Closed

-----------------------------------------------------------------------------
(* Walks *)

\* at is where a walk of n steps from start through the partners of P is after
\* each of them: side 0 first, then the sides in turn.
IsWalk(ends, P, at, start, n) ==
    /\ at \in [0..n -> P]
    /\ at[0] = start
    /\ \A k \in 0..(n - 1) : at[k + 1] = Partner(ends, P, at[k], k % 2)

\* The recursion of Walk, read off: mate says whom an edge is followed by.
Steps(mate, start, at, n) ==
    /\ at = [k \in 0..n |-> at[k]]
    /\ at[0] = start
    /\ \A k \in 0..(n - 1) : at[k + 1] = mate[at[k]][k % 2]

LEMMA StepsAreTheRecursion ==
    ASSUME NEW mate, NEW start, NEW at, NEW n \in Nat
    PROVE  Steps(mate, start, at, n) <=>
              at = [k \in 0..n |->
                      IF k = 0 THEN start ELSE mate[at[k - 1]][(k - 1) % 2]]
<1> DEFINE next == [k \in 0..n |->
                      IF k = 0 THEN start ELSE mate[at[k - 1]][(k - 1) % 2]]
<1>1. /\ next[0] = start
      /\ \A k \in 0..(n - 1) : next[k + 1] = mate[at[k]][k % 2]
      /\ next = [k \in 0..n |-> next[k]]
  <2>1. ASSUME NEW k \in 0..(n - 1) PROVE next[k + 1] = mate[at[k]][k % 2]
    <3>1. k + 1 \in 0..n /\ k + 1 # 0 /\ (k + 1) - 1 = k
      OBVIOUS
    <3>2. next[k + 1] = mate[at[(k + 1) - 1]][((k + 1) - 1) % 2]
      BY <3>1
    <3> QED
      BY <3>1, <3>2
  <2> QED
    BY <2>1
<1>2. ASSUME Steps(mate, start, at, n), NEW k \in 0..n PROVE at[k] = next[k]
  <2>1. CASE k = 0
    BY <1>2, <1>1, <2>1 DEF Steps
  <2>2. CASE k # 0
    <3> DEFINE j == k - 1
    <3>1. j \in 0..(n - 1) /\ j + 1 = k
      BY <2>2
    <3> HIDE DEF j, next
    <3>2. at[j + 1] = mate[at[j]][j % 2] /\ next[j + 1] = mate[at[j]][j % 2]
      BY <1>1, <1>2, <3>1 DEF Steps
    <3> QED
      BY <3>1, <3>2
  <2> QED
    BY <2>1, <2>2
<1> HIDE DEF next
<1>3. ASSUME Steps(mate, start, at, n) PROVE at = next
  BY <1>1, <1>2, <1>3 DEF Steps
<1>4. ASSUME at = next PROVE Steps(mate, start, at, n)
  BY <1>1, <1>4 DEF Steps
<1> QED
  BY <1>3, <1>4 DEF next

\* One more step can always be made.
LEMMA StepsExist ==
    ASSUME NEW mate, NEW start, NEW length \in Nat
    PROVE  \E at : Steps(mate, start, at, length)
<1> DEFINE T == {n \in 0..length : \E at : Steps(mate, start, at, n)}
<1>1. 0 \in T
  <2> DEFINE at == [k \in 0..0 |-> start]
  <2>1. at[0] = start /\ at = [k \in 0..0 |-> at[k]]
    OBVIOUS
  <2>2. Steps(mate, start, at, 0)
    <3> HIDE DEF at
    <3> QED
      BY <2>1 DEF Steps
  <2> QED
    BY <2>2
<1>2. ASSUME NEW n \in 0..(length - 1), n \in T PROVE n + 1 \in T
  <2>1. PICK at : Steps(mate, start, at, n)
    BY <1>2
  <2> DEFINE more == [k \in 0..(n + 1) |-> IF k <= n THEN at[k] ELSE mate[at[n]][n % 2]]
  <2>2. /\ \A k \in 0..n : more[k] = at[k]
        /\ more[n + 1] = mate[at[n]][n % 2]
        /\ more = [k \in 0..(n + 1) |-> more[k]]
    OBVIOUS
  <2> HIDE DEF more
  <2>3. ASSUME NEW k \in 0..n PROVE more[k + 1] = mate[more[k]][k % 2]
    <3>1. CASE k = n
      BY <2>2, <3>1
    <3>2. CASE k # n
      <4>1. k \in 0..(n - 1) /\ k + 1 \in 0..n
        BY <3>2
      <4>2. at[k + 1] = mate[at[k]][k % 2]
        BY <2>1, <4>1 DEF Steps
      <4> QED
        BY <2>2, <4>1, <4>2
    <3> QED
      BY <3>1, <3>2
  <2>4. more[0] = start /\ (n + 1) - 1 = n /\ n + 1 \in 0..length
    <3>1. at[0] = start
      BY <2>1 DEF Steps
    <3>2. 0 \in 0..n /\ (n + 1) - 1 = n /\ n + 1 \in 0..length
      OBVIOUS
    <3> QED
      BY <2>2, <3>1, <3>2
  <2>5. Steps(mate, start, more, n + 1)
    BY <2>2, <2>3, <2>4 DEF Steps
  <2> QED
    BY <2>4, <2>5
<1>3. length \in T
  <2> HIDE DEF T
  <2>1. T \in SUBSET (0..length)
    BY DEF T
  <2>2. T = 0..length
    BY <1>1, <1>2, <2>1, Reaches
  <2> QED
    BY <2>2
<1> QED
  BY <1>3

\* There is a walk for every number of steps, and it is the one Walk defines.
LEMMA WalkFacts ==
    ASSUME NEW ends, NEW P, Numbered(ends, P), Paired(ends, P), NEW start \in P, NEW length \in Nat
    PROVE  IsWalk(ends, P, Walk(ends, P, start, length), start, length)
<1> DEFINE mate == [e \in P |-> [side \in Sides |->
                       CHOOSE f \in MatesIn(ends, P, e, side) : TRUE]]
           walk == Walk(ends, P, start, length)
<1>1. ASSUME NEW e \in P, NEW k \in Nat
      PROVE  mate[e][k % 2] = Partner(ends, P, e, k % 2) /\ mate[e][k % 2] \in P
  <2> DEFINE side == k % 2
  <2>1. side \in Sides
    BY DEF Sides
  <2> HIDE DEF side
  <2>2. mate[e][side] = Partner(ends, P, e, side)
    BY <2>1 DEF Partner
  <2>3. Partner(ends, P, e, side) \in P
    BY <2>1, PartnerFacts
  <2> QED
    BY <2>2, <2>3 DEF side
<1>2. walk = CHOOSE at : at = [k \in 0..length |->
                IF k = 0 THEN start ELSE mate[at[k - 1]][(k - 1) % 2]]
  BY DEF Walk
<1> HIDE DEF mate, walk
<1>3. Steps(mate, start, walk, length)
  <2> DEFINE Next(at) == [k \in 0..length |->
                IF k = 0 THEN start ELSE mate[at[k - 1]][(k - 1) % 2]]
  <2>1. PICK at : Steps(mate, start, at, length)
    BY StepsExist
  <2>2. at = Next(at)
    BY <2>1, StepsAreTheRecursion
  <2>3. walk = CHOOSE x : x = Next(x)
    BY <1>2
  <2>4. walk = Next(walk)
    <3> HIDE DEF Next
    <3> QED
      BY <2>2, <2>3
  <2> QED
    BY <2>4, StepsAreTheRecursion
<1>4. ASSUME NEW k \in 0..(length - 1), walk[k] \in P
      PROVE  /\ walk[k + 1] = Partner(ends, P, walk[k], k % 2)
             /\ walk[k + 1] \in P
  <2>1. walk[k + 1] = mate[walk[k]][k % 2]
    BY <1>3 DEF Steps
  <2> QED
    BY <1>1, <1>4, <2>1
<1>5. \A k \in 0..length : walk[k] \in P
  <2> DEFINE T == {k \in 0..length : walk[k] \in P}
  <2>1. 0 \in T
    BY <1>3 DEF Steps
  <2>2. \A k \in 0..(length - 1) : k \in T => k + 1 \in T
    BY <1>4
  <2>3. T \in SUBSET (0..length)
    OBVIOUS
  <2>4. T = 0..length
    <3> HIDE DEF T
    <3> QED
      BY <2>1, <2>2, <2>3, Reaches
  <2> QED
    BY <2>4
<1>6. walk \in [0..length -> P]
  <2>1. walk = [k \in 0..length |-> walk[k]]
    BY <1>3 DEF Steps
  <2> QED
    BY <1>5, <2>1
<1>7. \A k \in 0..(length - 1) : walk[k + 1] = Partner(ends, P, walk[k], k % 2)
  BY <1>4, <1>5
<1>8. walk[0] = start
  BY <1>3 DEF Steps
<1>9. IsWalk(ends, P, walk, start, length)
  BY <1>6, <1>7, <1>8 DEF IsWalk
<1> QED
  BY <1>9 DEF walk

\* All that a walk needs of the partners.
Mated(ends, P) ==
    \A e \in P, side \in Sides :
       /\ Partner(ends, P, e, side) \in P
       /\ Partner(ends, P, e, side) # e
       /\ Partner(ends, P, Partner(ends, P, e, side), side) = e

LEMMA PairedIsMated ==
    ASSUME NEW ends, NEW P, Numbered(ends, P), Paired(ends, P)
    PROVE  Mated(ends, P)
<1>1. ASSUME NEW e \in P, NEW side \in Sides
      PROVE  /\ Partner(ends, P, e, side) \in P
             /\ Partner(ends, P, e, side) # e
             /\ Partner(ends, P, Partner(ends, P, e, side), side) = e
  BY PartnerFacts
<1> QED
  BY <1>1 DEF Mated

\* Each step can be taken back, and leads to another edge.
BackAndForth(ends, P, at, n) ==
    \A k \in 0..(n - 1) :
       /\ at[k + 1] # at[k]
       /\ at[k + 1] = Partner(ends, P, at[k], k % 2)
       /\ at[k] = Partner(ends, P, at[k + 1], k % 2)

LEMMA StepFacts ==
    ASSUME NEW ends, NEW P, Mated(ends, P), NEW start, NEW n \in Nat,
           NEW at, IsWalk(ends, P, at, start, n)
    PROVE  BackAndForth(ends, P, at, n)
<1> SUFFICES ASSUME NEW k \in 0..(n - 1)
             PROVE  /\ at[k + 1] # at[k]
                    /\ at[k + 1] = Partner(ends, P, at[k], k % 2)
                    /\ at[k] = Partner(ends, P, at[k + 1], k % 2)
  BY DEF BackAndForth
<1> DEFINE side == k % 2
<1>1. k \in 0..n /\ side \in Sides
  BY DEF Sides
<1>2. at[k] \in P
  BY <1>1 DEF IsWalk
<1>3. at[k + 1] = Partner(ends, P, at[k], side)
  BY DEF IsWalk
<1> HIDE DEF side
<1>4. at[k + 1] # at[k] /\ at[k] = Partner(ends, P, at[k + 1], side)
  BY <1>1, <1>2, <1>3 DEF Mated
<1> QED
  BY <1>3, <1>4 DEF side

\* The first edge that a walk meets again is the one it began with, after an
\* even number of steps: an edge has one partner on each side, so a walk
\* cannot join itself anywhere else.
LEMMA FirstReturn ==
    ASSUME NEW ends, NEW P, Mated(ends, P), IsFiniteSet(P),
           NEW length \in Nat, Cardinality(P) = length,
           NEW start, NEW at, IsWalk(ends, P, at, start, length)
    PROVE  \E n \in 1..length :
              /\ at[n] = start /\ n % 2 = 0
              /\ \A j, k \in 0..(n - 1) : at[j] = at[k] => j = k
<1>0. \A k \in 0..(length - 1) :
         /\ at[k + 1] # at[k]
         /\ at[k + 1] = Partner(ends, P, at[k], k % 2)
         /\ at[k] = Partner(ends, P, at[k + 1], k % 2)
  <2>1. BackAndForth(ends, P, at, length)
    BY StepFacts
  <2> QED
    BY <2>1 DEF BackAndForth
<1> DEFINE T == {n \in 1..length : \E m \in 0..(n - 1) : at[m] = at[n]}
<1>1. T # {}
  <2>1. at \in [0..length -> P]
    BY DEF IsWalk
  <2>2. IsFiniteSet(0..length) /\ Cardinality(0..length) = length + 1
    BY FS_Interval
  <2>3. PICK x, y \in 0..length : x # y /\ at[x] = at[y]
    BY <2>1, <2>2, FS_PigeonHole
  <2>4. CASE x < y
    <3>1. y \in 1..length /\ x \in 0..(y - 1)
      BY <2>4
    <3> QED
      BY <2>3, <3>1
  <2>5. CASE y < x
    <3>1. x \in 1..length /\ y \in 0..(x - 1)
      BY <2>5
    <3> QED
      BY <2>3, <3>1
  <2> QED
    BY <2>3, <2>4, <2>5
<1>2. PICK n \in T : \A m \in T : n <= m
  <2>1. T \in SUBSET Nat
    OBVIOUS
  <2> HIDE DEF T
  <2> QED
    BY <1>1, <2>1, LeastNat
<1>3. PICK m \in 0..(n - 1) : at[m] = at[n]
  BY <1>2
<1>4. n \in 1..length
  BY <1>2
<1>5. \A j, k \in 0..(n - 1) : at[j] = at[k] => j = k
  <2>1. ASSUME NEW j \in 0..(n - 1), NEW k \in 0..(n - 1), at[j] = at[k], j < k
        PROVE  FALSE
    <3>1. k \in 1..length /\ j \in 0..(k - 1)
      BY <1>4, <2>1
    <3>2. k \in T
      BY <2>1, <3>1
    <3> QED
      BY <1>2, <1>4, <3>2
  <2> QED
    BY <1>4, <2>1
<1> HIDE DEF T
\* The step that came back.
<1>6. /\ at[n] = at[(n - 1) + 1] /\ n - 1 \in 0..(length - 1)
      /\ at[n - 1] = Partner(ends, P, at[n], (n - 1) % 2) /\ at[n] # at[n - 1]
  <2>1. n - 1 \in 0..(length - 1) /\ (n - 1) + 1 = n
    BY <1>4
  <2> QED
    BY <1>0, <2>1
<1>7. m = 0
  <2>1. SUFFICES ASSUME m # 0 PROVE FALSE
    OBVIOUS
  <2>2. /\ m - 1 \in 0..(length - 1) /\ (m - 1) + 1 = m
        /\ m \in 0..(length - 1) /\ m - 1 \in 0..(n - 1) /\ n - 1 \in 0..(n - 1)
    BY <1>4, <2>1
  <2>3. /\ at[m - 1] = Partner(ends, P, at[m], (m - 1) % 2)
        /\ at[m + 1] = Partner(ends, P, at[m], m % 2)
    BY <1>0, <2>2
  <2>4. CASE (n - 1) % 2 = (m - 1) % 2
    <3>1. at[n - 1] = at[m - 1]
      BY <1>3, <1>6, <2>3, <2>4
    <3>2. n - 1 = m - 1
      BY <1>5, <2>2, <3>1
    <3> QED
      BY <1>4, <3>2
  <2>5. CASE (n - 1) % 2 # (m - 1) % 2
    <3>1. (n - 1) % 2 = m % 2
      BY <1>4, <2>5
    <3>2. at[n - 1] = at[m + 1]
      BY <1>3, <1>6, <2>3, <3>1
    <3>3. m + 1 # n
      BY <1>6, <3>2
    <3>4. m + 1 \in 0..(n - 1)
      BY <1>4, <3>3
    <3>5. n - 1 = m + 1
      BY <1>5, <2>2, <3>2, <3>4
    <3> QED
      BY <1>4, <3>1, <3>5
  <2> QED
    BY <2>4, <2>5
<1>8. at[0] = start
  BY DEF IsWalk
<1>9. n % 2 = 0
  <2>1. SUFFICES ASSUME n % 2 # 0 PROVE FALSE
    OBVIOUS
  <2>2. (n - 1) % 2 = 0 /\ 0 \in 0..(length - 1) /\ 0 + 1 = 1 /\ 0 % 2 = 0
    BY <1>4, <2>1
  <2>3. at[1] = Partner(ends, P, at[0], 0)
    BY <1>0, <2>2
  <2>4. at[n - 1] = at[1]
    BY <1>3, <1>6, <1>7, <2>2, <2>3
  <2>5. n # 1
    BY <1>6, <2>4
  <2>6. 1 \in 0..(n - 1) /\ n - 1 \in 0..(n - 1)
    BY <1>4, <2>5
  <2>7. n - 1 = 1
    BY <1>5, <2>4, <2>6
  <2> QED
    BY <1>4, <2>1, <2>7
<1> QED
  BY <1>3, <1>4, <1>5, <1>7, <1>8, <1>9

\* What a walk visits before it is back at its start has its partners.
LEMMA VisitedHasPartners ==
    ASSUME NEW ends, NEW P, Mated(ends, P),
           NEW length \in Nat, NEW start,
           NEW at, IsWalk(ends, P, at, start, length),
           NEW n \in 1..length, at[n] = start, n % 2 = 0
    PROVE  LET C == {at[k] : k \in 0..(n - 1)}
           IN  \A e \in C, side \in Sides : Partner(ends, P, e, side) \in C
<1>0. \A k \in 0..(length - 1) :
         /\ at[k + 1] # at[k]
         /\ at[k + 1] = Partner(ends, P, at[k], k % 2)
         /\ at[k] = Partner(ends, P, at[k + 1], k % 2)
  <2>1. BackAndForth(ends, P, at, length)
    BY StepFacts
  <2> QED
    BY <2>1 DEF BackAndForth
<1> DEFINE C == {at[k] : k \in 0..(n - 1)}
<1>1. at[0] = start
  BY DEF IsWalk
<1>2. \A k \in 0..n : at[k] \in C
  <2> TAKE k \in 0..n
  <2>1. 0 \in 0..(n - 1) /\ (k \in 0..(n - 1) \/ k = n)
    OBVIOUS
  <2> QED
    BY <1>1, <2>1
<1>4. ASSUME NEW e \in C, NEW side \in Sides
      PROVE  Partner(ends, P, e, side) \in C
  <2>1. PICK k \in 0..(n - 1) : e = at[k]
    OBVIOUS
  <2>2. /\ k \in 0..(length - 1) /\ k + 1 \in 0..n /\ n - 1 \in 0..(length - 1)
        /\ n - 1 \in 0..n /\ (n - 1) + 1 = n
    OBVIOUS
  <2> HIDE DEF C
  <2>3. CASE side = k % 2
    <3>1. at[k + 1] = Partner(ends, P, at[k], k % 2)
      BY <1>0, <2>2
    <3> QED
      BY <1>2, <2>1, <2>2, <2>3, <3>1
  <2>4. CASE side # k % 2 /\ k = 0
    <3>1. at[n - 1] = Partner(ends, P, at[(n - 1) + 1], (n - 1) % 2)
      BY <1>0, <2>2
    <3>2. side = (n - 1) % 2 /\ at[(n - 1) + 1] = e
      BY <1>1, <2>1, <2>2, <2>4 DEF Sides
    <3> QED
      BY <1>2, <2>2, <3>1, <3>2
  <2>5. CASE side # k % 2 /\ k # 0
    <3>1. k - 1 \in 0..(length - 1) /\ k - 1 \in 0..n /\ (k - 1) + 1 = k
      BY <2>5
    <3>2. at[k - 1] = Partner(ends, P, at[(k - 1) + 1], (k - 1) % 2)
      BY <1>0, <3>1
    <3>3. side = (k - 1) % 2
      BY <2>5 DEF Sides
    <3> QED
      BY <1>2, <2>1, <3>1, <3>2, <3>3
  <2> QED
    BY <2>3, <2>4, <2>5
<1> QED
  BY <1>4

\* At most n edges are visited in n places, and n only if none comes twice.
Visited(at, n) == {at[k] : k \in 0..(n - 1)}

NoneTwice(at, n) == \A j, k \in 0..(n - 1) : at[j] = at[k] => j = k

LEMMA VisitedCount ==
    ASSUME NEW n \in Nat, NEW at
    PROVE  /\ IsFiniteSet(Visited(at, n)) /\ Cardinality(Visited(at, n)) <= n
           /\ NoneTwice(at, n) => Cardinality(Visited(at, n)) = n
<1> DEFINE S == 0..(n - 1)
           C == Visited(at, n)
           f == [k \in S |-> at[k]]
<1>1. IsFiniteSet(S) /\ Cardinality(S) = n
  <2>1. n - 1 \in Int /\ 0 \in Int
    OBVIOUS
  <2>2. /\ IsFiniteSet(0..(n - 1))
        /\ Cardinality(0..(n - 1)) = IF 0 > n - 1 THEN 0 ELSE (n - 1) - 0 + 1
    BY <2>1, FS_Interval, Zenon
  <2> QED
    BY <2>2
<1>2. f \in Surjection(S, C)
  BY DEF Surjection, Visited
<1>3. NoneTwice(at, n) => f \in Injection(S, C)
  BY DEF Injection, IsInjective, NoneTwice, Visited
<1> HIDE DEF S, C, f
<1>4. IsFiniteSet(C) /\ Cardinality(C) <= n
      /\ (Cardinality(C) = n <=> f \in Injection(S, C))
  BY <1>1, <1>2, FS_Surjection
<1> QED
  BY <1>3, <1>4 DEF C

-----------------------------------------------------------------------------
(* verify_cycle *)

\* P in the order of a walk that visits every edge once and closes.
GoesRound(ends, P, at, start, length) ==
    /\ IsWalk(ends, P, at, start, length)
    /\ NoneTwice(at, length)
    /\ P = Visited(at, length)
    /\ at[length] = start
    /\ length % 2 = 0

\* Every walk along a cycle goes all the way round it.
LEMMA CycleWalk ==
    ASSUME NEW ends, NEW P, Numbered(ends, P), IsFiniteSet(P), NEW length \in Nat \ {0},
           IsCycle(ends, P, length), NEW start \in P,
           NEW at, IsWalk(ends, P, at, start, length)
    PROVE  GoesRound(ends, P, at, start, length)
<1>1. Paired(ends, P)
  BY ClosedPaired DEF IsCycle
<1>2. Cardinality(P) = length
  BY DEF IsCycle
<1>0. Mated(ends, P)
  BY <1>1, PairedIsMated
<1>3. PICK n \in 1..length :
          /\ at[n] = start /\ n % 2 = 0
          /\ \A j, k \in 0..(n - 1) : at[j] = at[k] => j = k
  BY <1>0, <1>2, FirstReturn
<1> DEFINE C == Visited(at, n)
<1>9. \A e \in C, side \in Sides : Partner(ends, P, e, side) \in C
  BY <1>0, <1>3, VisitedHasPartners DEF Visited
<1>5. C \in SUBSET P /\ C # {}
  <2>1. 0 \in 0..(n - 1) /\ \A k \in 0..(n - 1) : k \in 0..length
    OBVIOUS
  <2> QED
    BY <2>1 DEF IsWalk, Visited
<1>6. Cardinality(C) <= n
  BY VisitedCount
<1>4. Closed(ends, C)
  <2> HIDE DEF C
  <2> QED
    BY <1>1, <1>5, <1>9, PartnersClose
<1>7. C = P
  <2> HIDE DEF C
  <2> QED
    BY <1>4, <1>5 DEF IsCycle
<1>8. n = length
  <2> HIDE DEF C
  <2> QED
    BY <1>2, <1>6, <1>7
<1> QED
  BY <1>3, <1>7, <1>8 DEF GoesRound, NoneTwice

\* And a set of edges that a walk goes all the way round is a cycle.
LEMMA RoundIsCycle ==
    ASSUME NEW ends, NEW P, Numbered(ends, P), IsFiniteSet(P), NEW length \in Nat \ {0},
           Paired(ends, P), Cardinality(P) = length, NEW start \in P,
           NEW at, GoesRound(ends, P, at, start, length)
    PROVE  IsCycle(ends, P, length)
<1>1. IsWalk(ends, P, at, start, length) /\ at[0] = start /\ at[length] = start
  BY DEF GoesRound, IsWalk
<1>2. ASSUME NEW C \in SUBSET P, Closed(ends, C), C # {}
      PROVE  C = P
  <2>0. ASSUME NEW e \in C, NEW side \in Sides
        PROVE  Partner(ends, P, e, side) \in C
    BY <1>2, ClosedHasPartners
  <2>1. \A k \in 0..(length - 1) : at[k] \in C => at[k + 1] \in C
    <3> TAKE k \in 0..(length - 1)
    <3>1. at[k + 1] = Partner(ends, P, at[k], k % 2)
      BY <1>1 DEF IsWalk
    <3>2. k % 2 \in Sides
      BY DEF Sides
    <3> HAVE at[k] \in C
    <3> QED
      BY <2>0, <3>1, <3>2
  <2>2. PICK m \in 0..(length - 1) : at[m] \in C
    BY <1>2 DEF GoesRound, Visited
  \* From there on everything is in C, so the last edge, so the first.
  <2>3. at[length] \in C
    <3> DEFINE T == {j \in 0..(length - m) : at[m + j] \in C}
    <3>1. 0 \in T
      BY <2>2
    <3>2. ASSUME NEW j \in 0..((length - m) - 1), j \in T PROVE j + 1 \in T
      <4>1. m + j \in 0..(length - 1) /\ (m + j) + 1 = m + (j + 1)
            /\ j + 1 \in 0..(length - m)
        OBVIOUS
      <4>2. at[m + j] \in C
        BY <3>2
      <4>3. at[(m + j) + 1] \in C
        BY <2>1, <4>1, <4>2
      <4> QED
        BY <4>1, <4>3
    <3>3. T \in SUBSET (0..(length - m)) /\ length - m \in Nat
      OBVIOUS
    <3>4. T = 0..(length - m)
      <4> HIDE DEF T
      <4> QED
        BY <3>1, <3>2, <3>3, Reaches
    <3>5. length - m \in T
      <4> HIDE DEF T
      <4> QED
        BY <3>3, <3>4
    <3>6. m + (length - m) = length
      OBVIOUS
    <3> QED
      BY <3>5, <3>6
  <2>4. \A k \in 0..length : at[k] \in C
    <3> DEFINE T == {k \in 0..length : at[k] \in C}
    <3>1. 0 \in T
      BY <1>1, <2>3
    <3>2. \A k \in 0..(length - 1) : k \in T => k + 1 \in T
      BY <2>1
    <3>3. T \in SUBSET (0..length)
      OBVIOUS
    <3>4. T = 0..length
      <4> HIDE DEF T
      <4> QED
        BY <3>1, <3>2, <3>3, Reaches
    <3> QED
      BY <3>4
  <2>5. \A k \in 0..(length - 1) : at[k] \in C
    BY <2>4
  <2> QED
    BY <2>5 DEF GoesRound, Visited
<1> QED
  BY <1>2, PairedClosed DEF IsCycle

\* verify_cycle accepts the cycles and nothing else.
LEMMA VerifyIsCycle ==
    ASSUME NEW ends, NEW P, Numbered(ends, P), IsFiniteSet(P), NEW length \in Nat \ {0}
    PROVE  Verify(ends, P, length) <=> IsCycle(ends, P, length)
<1>1. IsFiniteSet(P)
  OBVIOUS
<1>2. ASSUME Verify(ends, P, length)
      PROVE  IsCycle(ends, P, length)
  <2>1. Cardinality(P) = length /\ Paired(ends, P)
    BY <1>1, <1>2, OneMateIsPaired DEF Verify
  <2>2. PICK start \in P :
            LET at == Walk(ends, P, start, length)
            IN  /\ \A m, n \in 0..(length - 1) : at[m] = at[n] => m = n
                /\ at[length] = start
                /\ length % 2 = 0
    BY <1>2 DEF Verify, SingleCycle
  <2> DEFINE at == Walk(ends, P, start, length)
             C == Visited(at, length)
  <2>3. IsWalk(ends, P, at, start, length)
    BY <2>1, WalkFacts
  <2>4. \A m, n \in 0..(length - 1) : at[m] = at[n] => m = n
    BY <2>2
  <2>5. at[length] = start /\ length % 2 = 0
    BY <2>2
  <2> HIDE DEF at
  <2>6. Cardinality(C) = length
    BY <2>4, VisitedCount DEF NoneTwice
  <2>7. C \in SUBSET P
    <3>1. \A k \in 0..(length - 1) : k \in 0..length
      OBVIOUS
    <3> QED
      BY <2>3, <3>1 DEF IsWalk, Visited
  <2>8. C = P
    <3> HIDE DEF C
    <3> QED
      BY <1>1, <2>1, <2>6, <2>7, FS_Subset
  <2>9. GoesRound(ends, P, at, start, length)
    BY <2>3, <2>4, <2>5, <2>8 DEF GoesRound, NoneTwice
  <2> QED
    BY <1>1, <2>1, <2>9, RoundIsCycle
<1>3. ASSUME IsCycle(ends, P, length)
      PROVE  Verify(ends, P, length)
  <2>1. Cardinality(P) = length /\ Paired(ends, P)
    BY <1>3, ClosedPaired DEF IsCycle
  <2>2. PICK start : start \in P
    <3>1. P # {}
      BY <2>1, FS_EmptySet
    <3> QED
      BY <3>1
  <2> DEFINE at == Walk(ends, P, start, length)
  <2>3. IsWalk(ends, P, at, start, length)
    BY <2>1, <2>2, WalkFacts
  <2>4. GoesRound(ends, P, at, start, length)
    <3> HIDE DEF at
    <3> QED
      BY <1>1, <1>3, <2>2, <2>3, CycleWalk
  <2>5. SingleCycle(ends, P, length)
    BY <2>2, <2>4 DEF GoesRound, SingleCycle, NoneTwice
  <2>6. OneMate(ends, P)
    BY <1>1, <2>1, OneMateIsPaired
  <2> QED
    BY <2>1, <2>5, <2>6 DEF Verify
<1> QED
  BY <1>2, <1>3

-----------------------------------------------------------------------------
(* Tours.  A cycle, in the order of a walk along it.                       *)

\* A graph with finitely many edges, its endpoints numbers.
Finite(g) == IsFiniteSet(DOMAIN g) /\ Numbered(g, DOMAIN g)

Tour(g, length, w) ==
    /\ \A k \in 0..length : w[k] \in DOMAIN g
    /\ \A k \in 0..(length - 1) : Meets(g, w[k], w[k + 1], k % 2)
    /\ NoneTwice(w, length)
    /\ w[length] = w[0] /\ length % 2 = 0
    /\ IsCycle(g, Visited(w, length), length)

\* A part of a finite graph is one.
LEMMA PartIsFinite ==
    ASSUME NEW g, Finite(g), NEW P \in SUBSET DOMAIN g
    PROVE  Numbered(g, P) /\ IsFiniteSet(P)
  BY FS_Subset DEF Finite, Numbered

\* Every cycle has a tour.
LEMMA CycleHasTour ==
    ASSUME NEW g, Finite(g), NEW length \in Nat \ {0},
           NEW P \in Cycles(g, DOMAIN g, length)
    PROVE  \E w : Tour(g, length, w)
<1>1. P \in SUBSET DOMAIN g /\ IsCycle(g, P, length)
  BY DEF Cycles
<1>2. Numbered(g, P) /\ IsFiniteSet(P)
  BY <1>1, PartIsFinite
<1>3. Paired(g, P) /\ Cardinality(P) = length
  BY <1>1, ClosedPaired DEF IsCycle
<1>4. PICK start : start \in P
  <2>1. P # {}
    BY <1>3, FS_EmptySet
  <2> QED
    BY <2>1
<1> DEFINE w == Walk(g, P, start, length)
<1>5. IsWalk(g, P, w, start, length)
  BY <1>2, <1>3, <1>4, WalkFacts
<1> HIDE DEF w
<1>6. GoesRound(g, P, w, start, length)
  BY <1>1, <1>2, <1>4, <1>5, CycleWalk
<1>7. \A k \in 0..length : w[k] \in P /\ w[k] \in DOMAIN g
  BY <1>1, <1>5 DEF IsWalk
<1>8. ASSUME NEW k \in 0..(length - 1)
      PROVE  Meets(g, w[k], w[k + 1], k % 2)
  <2>1. w[k + 1] = Partner(g, P, w[k], k % 2)
    BY <1>5 DEF IsWalk
  <2>2. k % 2 \in Sides /\ k \in 0..length
    BY DEF Sides
  <2>3. w[k] \in P
    BY <1>7, <2>2
  <2> DEFINE e == w[k]
             side == k % 2
  <2>4. e \in P /\ side \in Sides
    BY <2>2, <2>3
  <2> HIDE DEF e, side
  <2>5. Meets(g, e, Partner(g, P, e, side), side)
    BY <1>2, <1>3, <2>4, PartnerFacts
  <2> QED
    BY <2>1, <2>5 DEF e, side
<1>9. w[length] = w[0] /\ length % 2 = 0 /\ NoneTwice(w, length) /\ P = Visited(w, length)
  BY <1>6 DEF GoesRound, IsWalk
<1>10. IsCycle(g, Visited(w, length), length)
  BY <1>1, <1>9
<1> QED
  BY <1>7, <1>8, <1>9, <1>10 DEF Tour

-----------------------------------------------------------------------------
(* find_cycle of src/solver/cpu_lean.rs, one edge at a time.               *)

Cands(g, p) == {f \in DOMAIN g : Meets(g, p[Len(p)], f, (Len(p) - 1) % 2)}

\* The search will still come along w: it has not started where w does, or it
\* is on w and has yet to try the next edge of it.
Pending(length, w, starts, path, frames) ==
    \/ w[0] \in starts
    \/ \E k \in 1..Len(path) :
          /\ \A i \in 1..k : path[i] = w[i - 1]
          /\ k = length \/ w[k] \in frames[k]

Covered(g, length, starts, path, frames) ==
    \A w : Tour(g, length, w) => Pending(length, w, starts, path, frames)

Stacks(g, length, starts, path, frames) ==
    /\ starts \subseteq DOMAIN g
    /\ path \in Seq(DOMAIN g) /\ frames \in Seq(SUBSET DOMAIN g)
    /\ Len(frames) = Len(path) /\ Len(path) <= length

\* The invariant of a search of g.  Before it is called g may change.
SearchInv(g, length, starts, path, frames, found, spc) ==
    /\ spc \in {"idle", "begin", "search", "none", "found", "limit"}
    /\ spc = "idle" => starts = {}
    /\ spc \in {"idle", "begin"} => path = <<>> /\ frames = <<>>
    /\ spc = "search" => path # <<>>
    /\ spc # "found" => found = {}
    /\ spc = "found" => found \in Cycles(g, DOMAIN g, length)
    /\ spc = "none" => Cycles(g, DOMAIN g, length) = {}
    /\ spc \in {"begin", "search"} => Stacks(g, length, starts, path, frames)
    /\ spc \in {"begin", "search"} => Covered(g, length, starts, path, frames)

LEMMA SearchIdle ==
    ASSUME NEW g, NEW length
    PROVE  SearchInv(g, length, {}, <<>>, <<>>, {}, "idle")
  BY DEF SearchInv

LEMMA SearchStillIdle ==
    ASSUME NEW g, NEW h, NEW length, NEW starts, NEW path, NEW frames, NEW found,
           SearchInv(g, length, starts, path, frames, found, "idle")
    PROVE  SearchInv(h, length, starts, path, frames, found, "idle")
  BY DEF SearchInv

LEMMA SearchCalled ==
    ASSUME NEW g, NEW length \in Nat, NEW starts, NEW path, NEW frames, NEW found,
           SearchInv(g, length, starts, path, frames, found, "idle")
    PROVE  SearchInv(g, length, DOMAIN g, path, frames, found, "begin")
<1>1. path = <<>> /\ frames = <<>> /\ found = {}
  BY DEF SearchInv
<1>2. Stacks(g, length, DOMAIN g, <<>>, <<>>)
  BY EmptySeq DEF Stacks
<1>3. Covered(g, length, DOMAIN g, <<>>, <<>>)
  BY DEF Covered, Pending, Tour
<1> QED
  BY <1>1, <1>2, <1>3 DEF SearchInv

LEMMA SearchTooFew ==
    ASSUME NEW g, Finite(g), NEW length \in Nat \ {0},
           NEW starts, NEW path, NEW frames, NEW found, Cardinality(DOMAIN g) < length,
           SearchInv(g, length, starts, path, frames, found, "begin")
    PROVE  SearchInv(g, length, starts, path, frames, found, "none")
<1>1. ASSUME NEW P \in Cycles(g, DOMAIN g, length) PROVE FALSE
  <2>1. P \in SUBSET DOMAIN g /\ Cardinality(P) = length
    BY DEF Cycles, IsCycle
  <2>2. Cardinality(P) <= Cardinality(DOMAIN g) /\ Cardinality(DOMAIN g) \in Nat
    BY <2>1, FS_Subset, FS_CardinalityType DEF Finite
  <2> QED
    BY <2>1, <2>2
<1> QED
  BY <1>1 DEF SearchInv

\* All starts tried and no path: nothing is left out.
LEMMA SearchExhausted ==
    ASSUME NEW g, Finite(g), NEW length \in Nat \ {0},
           NEW path, NEW frames, NEW found,
           SearchInv(g, length, {}, path, frames, found, "begin")
    PROVE  SearchInv(g, length, {}, path, frames, found, "none")
<1>1. ASSUME NEW P \in Cycles(g, DOMAIN g, length) PROVE FALSE
  <2>1. PICK w : Tour(g, length, w)
    BY CycleHasTour
  <2>2. Pending(length, w, {}, path, frames) /\ path = <<>>
    BY <2>1 DEF SearchInv, Covered
  <2> QED
    BY <2>2 DEF Pending
<1> QED
  BY <1>1 DEF SearchInv

LEMMA SearchStarts ==
    ASSUME NEW g, NEW length \in Nat \ {0}, NEW starts, NEW path, NEW frames, NEW found,
           SearchInv(g, length, starts, path, frames, found, "begin"), NEW start \in starts
    PROVE  SearchInv(g, length, starts \ {start}, <<start>>, <<Cands(g, <<start>>)>>,
                     found, "search")
<1> DEFINE p == <<start>>
           f == <<Cands(g, <<start>>)>>
<1>1. /\ Stacks(g, length, starts, path, frames) /\ path = <<>> /\ found = {}
      /\ Covered(g, length, starts, path, frames)
  BY DEF SearchInv
<1>2. start \in DOMAIN g /\ Cands(g, <<start>>) \in SUBSET DOMAIN g
  BY <1>1 DEF Stacks, Cands
<1>3. Stacks(g, length, starts \ {start}, p, f)
  BY <1>1, <1>2 DEF Stacks
<1>4. ASSUME NEW w, Tour(g, length, w)
      PROVE  Pending(length, w, starts \ {start}, p, f)
  <2>1. w[0] \in starts
    BY <1>1, <1>4 DEF Covered, Pending
  <2>2. CASE w[0] # start
    BY <2>1, <2>2 DEF Pending
  <2>3. CASE w[0] = start
    <3>1. 0 \in 0..(length - 1) /\ 1 \in 0..length /\ 0 + 1 = 1 /\ 0 % 2 = 0
      OBVIOUS
    <3>2. Meets(g, start, w[1], 0) /\ w[1] \in DOMAIN g
      BY <1>4, <2>3, <3>1 DEF Tour
    <3>3. w[1] \in Cands(g, <<start>>)
      <4>1. Len(<<start>>) = 1 /\ <<start>>[1] = start /\ (1 - 1) % 2 = 0
        OBVIOUS
      <4> QED
        BY <3>2, <4>1 DEF Cands
    <3>4. Len(p) = 1 /\ p[1] = w[1 - 1] /\ w[1] \in f[1]
      BY <2>3, <3>3
    <3> HIDE DEF p, f
    <3>5. 1 \in 1..Len(p) /\ \A i \in 1..1 : p[i] = w[i - 1]
      BY <3>4
    <3> QED
      BY <3>4, <3>5 DEF Pending
  <2> QED
    BY <2>2, <2>3
<1>5. p # <<>>
  OBVIOUS
<1> QED
  BY <1>1, <1>3, <1>4, <1>5 DEF SearchInv, Covered

LEMMA SearchGivesUp ==
    ASSUME NEW g, NEW length, NEW starts, NEW path, NEW frames, NEW found,
           SearchInv(g, length, starts, path, frames, found, "search")
    PROVE  SearchInv(g, length, starts, path, frames, found, "limit")
  BY DEF SearchInv

\* What is verified is a cycle.
LEMMA SearchFinds ==
    ASSUME NEW g, Finite(g), NEW length \in Nat \ {0},
           NEW starts, NEW path, NEW frames, NEW found,
           SearchInv(g, length, starts, path, frames, found, "search"),
           NEW P \in SUBSET DOMAIN g, Verify(g, P, length)
    PROVE  SearchInv(g, length, starts, path, frames, P, "found")
<1>1. IsCycle(g, P, length)
  BY PartIsFinite, VerifyIsCycle
<1> QED
  BY <1>1 DEF SearchInv, Cycles

\* An edge put on the path is crossed off, and everything that follows it is
\* to be tried.
LEMMA SearchDescends ==
    ASSUME NEW g, NEW length \in Nat \ {0}, NEW starts, NEW path, NEW frames, NEW found,
           SearchInv(g, length, starts, path, frames, found, "search"),
           Len(path) # length, NEW next \in frames[Len(path)]
    PROVE  SearchInv(g, length, starts, Append(path, next),
                     Append([frames EXCEPT ![Len(path)] = @ \ {next}],
                            Cands(g, Append(path, next))), found, "search")
<1> DEFINE n == Len(path)
           fr == [frames EXCEPT ![n] = @ \ {next}]
           path1 == Append(path, next)
           cands == Cands(g, path1)
           frames1 == Append(fr, cands)
<1>1. /\ starts \subseteq DOMAIN g
      /\ path \in Seq(DOMAIN g) /\ frames \in Seq(SUBSET DOMAIN g)
      /\ Len(frames) = n /\ n <= length /\ path # <<>> /\ found = {}
      /\ Covered(g, length, starts, path, frames)
  BY DEF SearchInv, Stacks
<1>2. n \in 1..length /\ n \in 1..(length - 1) /\ n \in 1..Len(frames)
  BY <1>1, EmptySeq
<1>3. frames[n] \in SUBSET DOMAIN g
  BY <1>1, <1>2, ElementOfSeq
<1>4. next \in DOMAIN g /\ frames[n] \ {next} \in SUBSET DOMAIN g /\ cands \in SUBSET DOMAIN g
  BY <1>3 DEF Cands
<1> HIDE DEF cands
<1>5. /\ fr \in Seq(SUBSET DOMAIN g) /\ Len(fr) = n
      /\ \A j \in 1..n : fr[j] = IF j = n THEN frames[n] \ {next} ELSE frames[j]
  BY <1>1, <1>2, <1>4, ExceptSeq
<1>6. /\ path1 \in Seq(DOMAIN g) /\ Len(path1) = n + 1 /\ path1 # <<>>
      /\ (\A i \in 1..n : path1[i] = path[i]) /\ path1[n + 1] = next
  BY <1>1, <1>4, AppendProperties
<1> HIDE DEF fr
<1>7. /\ frames1 \in Seq(SUBSET DOMAIN g) /\ Len(frames1) = n + 1
      /\ (\A i \in 1..n : frames1[i] = fr[i]) /\ frames1[n + 1] = cands
  BY <1>4, <1>5, AppendProperties
<1> HIDE DEF n, path1, frames1
<1>8. Stacks(g, length, starts, path1, frames1)
  BY <1>1, <1>2, <1>6, <1>7 DEF Stacks
<1>9. ASSUME NEW w, Tour(g, length, w)
      PROVE  Pending(length, w, starts, path1, frames1)
  <2>1. SUFFICES ASSUME NEW k \in 1..n, \A i \in 1..k : path[i] = w[i - 1],
                        k = length \/ w[k] \in frames[k]
                 PROVE  Pending(length, w, starts, path1, frames1)
    BY <1>1, <1>9 DEF Covered, Pending, n
  <2>2. k \in 1..(length - 1) /\ w[k] \in frames[k]
    BY <1>2, <2>1
  <2>3. k \in 1..Len(path1) /\ \A i \in 1..k : path1[i] = w[i - 1]
    BY <1>2, <1>6, <2>1
  <2>4. CASE k # n \/ w[k] # next
    <3>1. w[k] \in frames1[k]
      BY <1>5, <1>7, <2>2, <2>4
    <3> QED
      BY <2>3, <3>1 DEF Pending
  <2>5. CASE k = n /\ w[k] = next
    <3>1. \A i \in 1..(n + 1) : path1[i] = w[i - 1]
      <4> TAKE i \in 1..(n + 1)
      <4>1. CASE i = n + 1
        <5>1. i - 1 = n
          BY <1>2, <4>1
        <5> QED
          BY <1>6, <2>5, <4>1, <5>1
      <4>2. CASE i # n + 1
        <5>1. i \in 1..k
          BY <1>2, <2>5, <4>2
        <5> QED
          BY <2>3, <5>1
      <4> QED
        BY <4>1, <4>2
    <3>2. n + 1 \in 1..Len(path1)
      BY <1>2, <1>6
    <3>3. CASE n + 1 = length
      BY <3>1, <3>2, <3>3 DEF Pending
    <3>4. CASE n + 1 # length
      <4>1. n \in 0..(length - 1) /\ n + 1 \in 0..length /\ (n + 1) - 1 = n
        BY <1>2
      <4>2. Meets(g, w[n], w[n + 1], n % 2) /\ w[n + 1] \in DOMAIN g
        BY <1>9, <4>1 DEF Tour
      <4>3. w[n + 1] \in cands
        BY <1>6, <2>5, <4>1, <4>2 DEF Cands, cands
      <4>4. w[n + 1] \in frames1[n + 1]
        BY <1>7, <4>3
      <4> QED
        BY <3>1, <3>2, <4>4 DEF Pending
    <3> QED
      BY <3>3, <3>4
  <2> QED
    BY <2>4, <2>5
<1>10. Covered(g, length, starts, path1, frames1)
  BY <1>9 DEF Covered
<1>11. SearchInv(g, length, starts, path1, frames1, found, "search")
  BY <1>1, <1>6, <1>8, <1>10 DEF SearchInv
<1> QED
  BY <1>11 DEF n, path1, frames1, fr, cands

\* No tour comes back to the path before it is at its end.
LEMMA SearchSkips ==
    ASSUME NEW g, NEW length \in Nat \ {0}, NEW starts, NEW path, NEW frames, NEW found,
           SearchInv(g, length, starts, path, frames, found, "search"),
           Len(path) # length, NEW next \in frames[Len(path)],
           NEW seen \in 1..Len(path), path[seen] = next
    PROVE  SearchInv(g, length, starts, path,
                     [frames EXCEPT ![Len(path)] = @ \ {next}], found, "search")
<1> DEFINE n == Len(path)
           fr == [frames EXCEPT ![n] = @ \ {next}]
<1>1. /\ starts \subseteq DOMAIN g
      /\ path \in Seq(DOMAIN g) /\ frames \in Seq(SUBSET DOMAIN g)
      /\ Len(frames) = n /\ n <= length /\ path # <<>> /\ found = {}
      /\ Covered(g, length, starts, path, frames)
  BY DEF SearchInv, Stacks
<1>2. n \in 1..length /\ n \in 1..(length - 1) /\ n \in 1..Len(frames)
  BY <1>1, EmptySeq
<1>3. frames[n] \in SUBSET DOMAIN g
  BY <1>1, <1>2, ElementOfSeq
<1>4. frames[n] \ {next} \in SUBSET DOMAIN g
  BY <1>3
<1>5. /\ fr \in Seq(SUBSET DOMAIN g) /\ Len(fr) = n
      /\ \A j \in 1..n : fr[j] = IF j = n THEN frames[n] \ {next} ELSE frames[j]
  BY <1>1, <1>2, <1>4, ExceptSeq
<1> HIDE DEF fr
<1>8. Stacks(g, length, starts, path, fr)
  BY <1>1, <1>2, <1>5 DEF Stacks
<1>9. ASSUME NEW w, Tour(g, length, w)
      PROVE  Pending(length, w, starts, path, fr)
  <2>1. SUFFICES ASSUME NEW k \in 1..n, \A i \in 1..k : path[i] = w[i - 1],
                        k = length \/ w[k] \in frames[k]
                 PROVE  Pending(length, w, starts, path, fr)
    BY <1>1, <1>9 DEF Covered, Pending
  <2> HIDE DEF n
  <2>2. k \in 1..(length - 1) /\ w[k] \in frames[k]
    BY <1>2, <2>1
  <2>3. ASSUME k = n, w[k] = next PROVE FALSE
    <3>1. path[seen] = w[seen - 1] /\ seen \in 1..n
      BY <2>1, <2>3 DEF n
    <3>2. seen - 1 \in 0..(length - 1) /\ n \in 0..(length - 1) /\ seen - 1 # n
      BY <1>2, <3>1
    <3> QED
      BY <1>9, <2>3, <3>1, <3>2 DEF Tour, NoneTwice
  <2>4. w[k] \in fr[k]
    BY <1>5, <2>2, <2>3
  <2> QED
    BY <2>1, <2>4 DEF Pending, n
<1>10. SearchInv(g, length, starts, path, fr, found, "search")
  BY <1>1, <1>8, <1>9 DEF SearchInv, Covered
<1> QED
  BY <1>10 DEF n, fr

\* A sequence without its last element.
LEMMA FrontFacts ==
    ASSUME NEW S, NEW s \in Seq(S), s # <<>>
    PROVE  /\ SubSeq(s, 1, Len(s) - 1) \in Seq(S)
           /\ Len(SubSeq(s, 1, Len(s) - 1)) = Len(s) - 1
           /\ \A i \in 1..(Len(s) - 1) : SubSeq(s, 1, Len(s) - 1)[i] = s[i]
<1> DEFINE n == Len(s) - 1
           t == SubSeq(s, 1, n)
<1>1. n \in Nat /\ n \in Int /\ 1 \in Int
  BY EmptySeq
<1>2. \A i \in 1..n : s[i] \in S
  BY <1>1, ElementOfSeq
<1> HIDE DEF n
<1>3. /\ t \in Seq(S)
      /\ Len(t) = IF 1 <= n THEN n - 1 + 1 ELSE 0
      /\ \A i \in 1..(n - 1 + 1) : t[i] = s[1 + i - 1]
  BY <1>1, <1>2, SubSeqProperties
<1>4. n - 1 + 1 = n /\ \A i \in 1..n : 1 + i - 1 = i
  BY <1>1
<1>5. Len(t) = n /\ \A i \in 1..n : t[i] = s[i]
  BY <1>1, <1>3, <1>4
<1> QED
  BY <1>3, <1>5 DEF n

\* An edge is left when it has nothing to try, and a full path when it is no
\* proof: then it is not the end of any tour.
LEMMA SearchBacktracks ==
    ASSUME NEW g, Finite(g), NEW length \in Nat \ {0},
           NEW starts, NEW path, NEW frames, NEW found,
           SearchInv(g, length, starts, path, frames, found, "search"),
           IF Len(path) = length
           THEN ~ /\ Meets(g, path[Len(path)], path[1], (Len(path) - 1) % 2)
                  /\ Verify(g, {path[i] : i \in 1..Len(path)}, length)
           ELSE frames[Len(path)] = {}
    PROVE  SearchInv(g, length, starts, SubSeq(path, 1, Len(path) - 1),
                     SubSeq(frames, 1, Len(frames) - 1), found,
                     IF Len(path) = 1 THEN "begin" ELSE "search")
<1> DEFINE n == Len(path)
           path1 == SubSeq(path, 1, n - 1)
           frames1 == SubSeq(frames, 1, n - 1)
           spc == IF n = 1 THEN "begin" ELSE "search"
<1>1. /\ starts \subseteq DOMAIN g
      /\ path \in Seq(DOMAIN g) /\ frames \in Seq(SUBSET DOMAIN g)
      /\ Len(frames) = n /\ n <= length /\ path # <<>> /\ found = {}
      /\ Covered(g, length, starts, path, frames)
  BY DEF SearchInv, Stacks
<1>2. n \in 1..length
  BY <1>1, EmptySeq
<1>3. /\ path1 \in Seq(DOMAIN g) /\ Len(path1) = n - 1
      /\ \A i \in 1..(n - 1) : path1[i] = path[i]
  BY <1>1, FrontFacts
<1>4. /\ frames1 \in Seq(SUBSET DOMAIN g) /\ Len(frames1) = n - 1
      /\ \A i \in 1..(n - 1) : frames1[i] = frames[i]
  <2>1. frames # <<>>
    BY <1>1, <1>2, EmptySeq
  <2> QED
    BY <1>1, <2>1, FrontFacts
<1> HIDE DEF path1, frames1
<1>5. Stacks(g, length, starts, path1, frames1)
  BY <1>1, <1>2, <1>3, <1>4 DEF Stacks
<1>6. ASSUME NEW w, Tour(g, length, w)
      PROVE  Pending(length, w, starts, path1, frames1)
  <2>1. SUFFICES ASSUME NEW k \in 1..n, \A i \in 1..k : path[i] = w[i - 1],
                        k = length \/ w[k] \in frames[k]
                 PROVE  Pending(length, w, starts, path1, frames1)
    BY <1>1, <1>6 DEF Covered, Pending
  <2>2. CASE k # n
    <3>1. k \in 1..(n - 1) /\ k # length
      BY <1>2, <2>2
    <3>2. k \in 1..Len(path1) /\ \A i \in 1..k : path1[i] = w[i - 1]
      BY <1>3, <2>1, <3>1
    <3>3. w[k] \in frames1[k]
      BY <1>4, <2>1, <3>1
    <3> QED
      BY <3>2, <3>3 DEF Pending
  <2>3. CASE k = n
    <3>1. n = length
      BY <2>1, <2>3
    <3>2. \A i \in 1..length : path[i] = w[i - 1]
      BY <2>1, <2>3, <3>1
    <3>3. {path[i] : i \in 1..n} = Visited(w, length)
      <4>1. \A i \in 1..length : i - 1 \in 0..(length - 1)
        OBVIOUS
      <4>2. \A j \in 0..(length - 1) : j + 1 \in 1..length /\ (j + 1) - 1 = j
        OBVIOUS
      <4>3. \A j \in 0..(length - 1) : w[j] = path[j + 1]
        BY <3>2, <4>2
      <4>4. {path[i] : i \in 1..length} = {w[j] : j \in 0..(length - 1)}
        <5>1. \A i \in 1..length : path[i] \in {w[j] : j \in 0..(length - 1)}
          BY <3>2, <4>1
        <5>2. \A j \in 0..(length - 1) : w[j] \in {path[i] : i \in 1..length}
          BY <4>2, <4>3
        <5> QED
          BY <5>1, <5>2
      <4> QED
        BY <3>1, <4>4 DEF Visited
    <3>4. Verify(g, Visited(w, length), length)
      <4>1. Visited(w, length) \in SUBSET DOMAIN g
        <5>1. \A j \in 0..(length - 1) : j \in 0..length
          OBVIOUS
        <5> QED
          BY <1>6, <5>1 DEF Tour, Visited
      <4>2. IsCycle(g, Visited(w, length), length)
        BY <1>6 DEF Tour
      <4> QED
        BY <4>1, <4>2, PartIsFinite, VerifyIsCycle
    <3>5. Meets(g, path[n], path[1], (n - 1) % 2)
      <4>1. length - 1 \in 0..(length - 1) /\ (length - 1) + 1 = length
            /\ length \in 1..length /\ 1 \in 1..length /\ 1 - 1 = 0
        OBVIOUS
      <4>2. Meets(g, w[length - 1], w[(length - 1) + 1], (length - 1) % 2)
        BY <1>6, <4>1 DEF Tour
      <4>3. w[length] = w[0]
        BY <1>6 DEF Tour
      <4>4. path[length] = w[length - 1] /\ path[1] = w[0]
        BY <3>2, <4>1
      <4> QED
        BY <3>1, <4>1, <4>2, <4>3, <4>4
    <3> QED
      BY <3>1, <3>3, <3>4, <3>5
  <2> QED
    BY <2>2, <2>3
<1>7. Covered(g, length, starts, path1, frames1)
  BY <1>6 DEF Covered
<1>8. spc = "begin" => path1 = <<>> /\ frames1 = <<>>
  BY <1>3, <1>4, EmptySeq
<1>9. spc = "search" => path1 # <<>>
  <2>1. n # 1 => n - 1 # 0
    BY <1>2
  <2> QED
    BY <1>3, <2>1
<1>10. spc \in {"begin", "search"}
  OBVIOUS
<1> HIDE DEF spc
<1>11. SearchInv(g, length, starts, path1, frames1, found, spc)
  BY <1>1, <1>5, <1>7, <1>8, <1>9, <1>10 DEF SearchInv
<1>12. frames1 = SubSeq(frames, 1, Len(frames) - 1)
  BY <1>1 DEF frames1
<1> QED
  BY <1>11, <1>12 DEF n, path1, spc

-----------------------------------------------------------------------------
(* find_cycle_d2 of src/solver/d2.rs, two edges at a time.                 *)

ArcsFrom(g, src) ==
    {a \in [dst : DOMAIN g, mid : DOMAIN g] :
        /\ a.mid # src /\ Meets(g, src, a.mid, 0)
        /\ a.dst # src /\ Meets(g, a.mid, a.dst, 1)}

\* The k-th arc of a tour.
ArcOn(w, k) == [dst |-> w[2 * k], mid |-> w[2 * k - 1]]

\* As Pending: the arcs of w before the k-th have been walked, and that one is
\* still to be tried.
PendingArcs(w, starts, path, mids, frames) ==
    \/ w[0] \in starts
    \/ \E k \in 1..Len(path) :
          /\ \A i \in 1..k : path[i] = w[2 * i - 2]
          /\ \A i \in 1..(k - 1) : mids[i] = w[2 * i - 1]
          /\ ArcOn(w, k) \in frames[k]

CoveredArcs(g, half, starts, path, mids, frames) ==
    \A w : Tour(g, 2 * half, w) => PendingArcs(w, starts, path, mids, frames)

ArcStacks(g, half, starts, path, mids, frames) ==
    /\ starts \subseteq DOMAIN g
    /\ path \in Seq(DOMAIN g) /\ mids \in Seq(DOMAIN g)
    /\ frames \in Seq(SUBSET [dst : DOMAIN g, mid : DOMAIN g])
    /\ Len(frames) = Len(path) /\ Len(path) <= half
    /\ path # <<>> => Len(mids) = Len(path) - 1

D2Inv(g, half, starts, path, mids, frames, found, spc) ==
    /\ spc \in {"idle", "build", "begin", "search", "none", "found", "limit"}
    /\ spc = "idle" => starts = {}
    /\ spc \in {"idle", "build", "begin"} => path = <<>> /\ mids = <<>> /\ frames = <<>>
    /\ spc = "search" => path # <<>>
    /\ spc # "found" => found = {}
    /\ spc = "found" => found \in Cycles(g, DOMAIN g, 2 * half)
    /\ spc = "none" => Cycles(g, DOMAIN g, 2 * half) = {}
    /\ spc \in {"build", "begin", "search"} =>
          /\ ArcStacks(g, half, starts, path, mids, frames)
          /\ CoveredArcs(g, half, starts, path, mids, frames)

\* The arcs of a tour are arcs: two edges on, it is not yet back where it was,
\* if it has more than two.
LEMMA TourArcs ==
    ASSUME NEW g, NEW half \in Nat \ {0, 1}, NEW w, Tour(g, 2 * half, w), NEW k \in 1..half
    PROVE  /\ ArcOn(w, k) \in ArcsFrom(g, w[2 * k - 2])
           /\ w[2 * k - 2] \in DOMAIN g
<1> DEFINE a == 2 * k - 2
           b == 2 * k - 1
           c == 2 * k
           n == 2 * half
<1>1. /\ a \in 0..(n - 1) /\ b \in 0..(n - 1) /\ a + 1 = b /\ b + 1 = c /\ a # b
      /\ a \in 0..n /\ b \in 0..n /\ c \in 0..n /\ a % 2 = 0 /\ b % 2 = 1
      /\ (c \in 0..(n - 1) \/ (c = n /\ a # 0)) /\ a # c /\ 0 \in 0..(n - 1)
  <2>1. a = 2 * (k - 1) /\ k - 1 \in Nat /\ b = 2 * (k - 1) + 1
    OBVIOUS
  <2>2. a % 2 = 0 /\ b % 2 = 1
    <3> HIDE DEF a, b
    <3> QED
      BY <2>1
  <2>3. /\ a \in 0..(n - 1) /\ b \in 0..(n - 1) /\ a + 1 = b /\ b + 1 = c /\ a # b
        /\ a \in 0..n /\ b \in 0..n /\ c \in 0..n /\ a # c /\ 0 \in 0..(n - 1)
    OBVIOUS
  <2>4. c \in 0..(n - 1) \/ (c = n /\ a # 0)
    <3>1. CASE k = half
      BY <3>1
    <3>2. CASE k # half
      BY <3>2
    <3> QED
      BY <3>1, <3>2
  <2> QED
    BY <2>2, <2>3, <2>4
<1>2. ArcOn(w, k) = [dst |-> w[c], mid |-> w[b]]
  BY DEF ArcOn
<1> HIDE DEF a, b, c, n
<1>3. Tour(g, n, w)
  BY DEF n
<1>4. w[a] \in DOMAIN g /\ w[b] \in DOMAIN g /\ w[c] \in DOMAIN g
  BY <1>1, <1>3 DEF Tour
<1>5. Meets(g, w[a], w[b], 0) /\ Meets(g, w[b], w[c], 1)
  BY <1>1, <1>3 DEF Tour
<1>6. w[b] # w[a]
  BY <1>1, <1>3 DEF Tour, NoneTwice
<1>7. w[c] # w[a]
  <2>1. CASE c \in 0..(n - 1)
    BY <1>1, <1>3, <2>1 DEF Tour, NoneTwice
  <2>2. CASE c = n /\ a # 0
    <3>1. w[c] = w[0]
      BY <1>3, <2>2 DEF Tour
    <3> QED
      BY <1>1, <1>3, <2>2, <3>1 DEF Tour, NoneTwice
  <2> QED
    BY <1>1, <2>1, <2>2
<1>8. [dst |-> w[c], mid |-> w[b]] \in ArcsFrom(g, w[a])
  BY <1>4, <1>5, <1>6, <1>7 DEF ArcsFrom
<1> QED
  BY <1>2, <1>4, <1>8 DEF a

LEMMA D2Idle ==
    ASSUME NEW g, NEW half
    PROVE  D2Inv(g, half, {}, <<>>, <<>>, <<>>, {}, "idle")
  BY DEF D2Inv

LEMMA D2StillIdle ==
    ASSUME NEW g, NEW h, NEW half, NEW starts, NEW path, NEW mids, NEW frames, NEW found,
           D2Inv(g, half, starts, path, mids, frames, found, "idle")
    PROVE  D2Inv(h, half, starts, path, mids, frames, found, "idle")
  BY DEF D2Inv

LEMMA D2Called ==
    ASSUME NEW g, NEW half \in Nat, NEW starts, NEW path, NEW mids, NEW frames, NEW found,
           D2Inv(g, half, starts, path, mids, frames, found, "idle")
    PROVE  D2Inv(g, half, DOMAIN g, path, mids, frames, found, "build")
<1>1. path = <<>> /\ mids = <<>> /\ frames = <<>> /\ found = {}
  BY DEF D2Inv
<1>2. ArcStacks(g, half, DOMAIN g, <<>>, <<>>, <<>>)
  BY EmptySeq DEF ArcStacks
<1>3. CoveredArcs(g, half, DOMAIN g, <<>>, <<>>, <<>>)
  BY DEF CoveredArcs, PendingArcs, Tour
<1> QED
  BY <1>1, <1>2, <1>3 DEF D2Inv

LEMMA D2TooFew ==
    ASSUME NEW g, Finite(g), NEW half \in Nat \ {0, 1},
           NEW starts, NEW path, NEW mids, NEW frames, NEW found,
           Cardinality(DOMAIN g) < 2 * half,
           D2Inv(g, half, starts, path, mids, frames, found, "build")
    PROVE  D2Inv(g, half, starts, path, mids, frames, found, "none")
<1>1. ASSUME NEW P \in Cycles(g, DOMAIN g, 2 * half) PROVE FALSE
  <2>1. P \in SUBSET DOMAIN g /\ Cardinality(P) = 2 * half
    BY DEF Cycles, IsCycle
  <2>2. Cardinality(P) <= Cardinality(DOMAIN g) /\ Cardinality(DOMAIN g) \in Nat
    BY <2>1, FS_Subset, FS_CardinalityType DEF Finite
  <2> QED
    BY <2>1, <2>2
<1> QED
  BY <1>1 DEF D2Inv

LEMMA D2Built ==
    ASSUME NEW g, NEW half, NEW starts, NEW path, NEW mids, NEW frames, NEW found,
           D2Inv(g, half, starts, path, mids, frames, found, "build")
    PROVE  /\ D2Inv(g, half, starts, path, mids, frames, found, "begin")
           /\ D2Inv(g, half, starts, path, mids, frames, found, "limit")
  BY DEF D2Inv

LEMMA D2Exhausted ==
    ASSUME NEW g, Finite(g), NEW half \in Nat \ {0, 1},
           NEW path, NEW mids, NEW frames, NEW found,
           D2Inv(g, half, {}, path, mids, frames, found, "begin")
    PROVE  D2Inv(g, half, {}, path, mids, frames, found, "none")
<1>1. ASSUME NEW P \in Cycles(g, DOMAIN g, 2 * half) PROVE FALSE
  <2>1. 2 * half \in Nat \ {0}
    OBVIOUS
  <2>2. PICK w : Tour(g, 2 * half, w)
    BY <2>1, CycleHasTour
  <2>3. PendingArcs(w, {}, path, mids, frames) /\ path = <<>>
    BY <2>2 DEF D2Inv, CoveredArcs
  <2> QED
    BY <2>3 DEF PendingArcs
<1> QED
  BY <1>1 DEF D2Inv

\* No tour begins where there is no arc.
LEMMA D2StartsNot ==
    ASSUME NEW g, NEW half \in Nat \ {0, 1},
           NEW starts, NEW path, NEW mids, NEW frames, NEW found,
           D2Inv(g, half, starts, path, mids, frames, found, "begin"),
           NEW start \in starts, ArcsFrom(g, start) = {}
    PROVE  D2Inv(g, half, starts \ {start}, path, mids, frames, found, "begin")
<1>1. /\ ArcStacks(g, half, starts, path, mids, frames)
      /\ CoveredArcs(g, half, starts, path, mids, frames) /\ path = <<>>
  BY DEF D2Inv
<1>2. ASSUME NEW w, Tour(g, 2 * half, w)
      PROVE  PendingArcs(w, starts \ {start}, path, mids, frames)
  <2>1. w[0] \in starts
    BY <1>1, <1>2 DEF CoveredArcs, PendingArcs
  <2>2. w[0] # start
    <3>1. 1 \in 1..half /\ 2 * 1 - 2 = 0
      OBVIOUS
    <3>2. ArcOn(w, 1) \in ArcsFrom(g, w[2 * 1 - 2])
      BY <1>2, <3>1, TourArcs
    <3> QED
      BY <3>1, <3>2
  <2> QED
    BY <2>1, <2>2 DEF PendingArcs
<1>3. ArcStacks(g, half, starts \ {start}, path, mids, frames)
  BY <1>1 DEF ArcStacks
<1>4. CoveredArcs(g, half, starts \ {start}, path, mids, frames)
  BY <1>2 DEF CoveredArcs
<1> QED
  BY <1>3, <1>4 DEF D2Inv

LEMMA D2Starts ==
    ASSUME NEW g, NEW half \in Nat \ {0, 1},
           NEW starts, NEW path, NEW mids, NEW frames, NEW found,
           D2Inv(g, half, starts, path, mids, frames, found, "begin"), NEW start \in starts
    PROVE  D2Inv(g, half, starts \ {start}, <<start>>, mids, <<ArcsFrom(g, start)>>,
                 found, "search")
<1> DEFINE p == <<start>>
           f == <<ArcsFrom(g, start)>>
<1>1. /\ ArcStacks(g, half, starts, path, mids, frames)
      /\ path = <<>> /\ mids = <<>> /\ found = {}
      /\ CoveredArcs(g, half, starts, path, mids, frames)
  BY DEF D2Inv
<1>2. /\ start \in DOMAIN g
      /\ ArcsFrom(g, start) \in SUBSET [dst : DOMAIN g, mid : DOMAIN g]
  BY <1>1 DEF ArcStacks, ArcsFrom
<1>3. Len(p) = 1 /\ p[1] = start /\ Len(f) = 1 /\ f[1] = ArcsFrom(g, start) /\ p # <<>>
  OBVIOUS
<1>4. p \in Seq(DOMAIN g) /\ f \in Seq(SUBSET [dst : DOMAIN g, mid : DOMAIN g])
  BY <1>2
<1> HIDE DEF p, f
<1>5. Len(mids) = Len(p) - 1
  BY <1>1, <1>3, EmptySeq
<1>6. ArcStacks(g, half, starts \ {start}, p, mids, f)
  BY <1>1, <1>3, <1>4, <1>5 DEF ArcStacks
<1>7. ASSUME NEW w, Tour(g, 2 * half, w)
      PROVE  PendingArcs(w, starts \ {start}, p, mids, f)
  <2>1. w[0] \in starts
    BY <1>1, <1>7 DEF CoveredArcs, PendingArcs
  <2>2. CASE w[0] # start
    BY <2>1, <2>2 DEF PendingArcs
  <2>3. CASE w[0] = start
    <3>1. 1 \in 1..half /\ 2 * 1 - 2 = 0 /\ 1 \in 1..Len(p)
      BY <1>3
    <3>2. ArcOn(w, 1) \in ArcsFrom(g, w[2 * 1 - 2])
      BY <1>7, <3>1, TourArcs
    <3>3. ArcOn(w, 1) \in f[1]
      BY <1>3, <2>3, <3>1, <3>2
    <3>4. /\ \A i \in 1..1 : p[i] = w[2 * i - 2]
          /\ \A i \in 1..(1 - 1) : mids[i] = w[2 * i - 1]
      BY <1>3, <2>3, <3>1
    <3> QED
      BY <3>1, <3>3, <3>4 DEF PendingArcs
  <2> QED
    BY <2>2, <2>3
<1>8. CoveredArcs(g, half, starts \ {start}, p, mids, f)
  BY <1>7 DEF CoveredArcs
<1>9. D2Inv(g, half, starts \ {start}, p, mids, f, found, "search")
  BY <1>1, <1>3, <1>6, <1>8 DEF D2Inv
<1> QED
  BY <1>9 DEF p, f

LEMMA D2GivesUp ==
    ASSUME NEW g, NEW half, NEW starts, NEW path, NEW mids, NEW frames, NEW found,
           D2Inv(g, half, starts, path, mids, frames, found, "search")
    PROVE  D2Inv(g, half, starts, path, mids, frames, found, "limit")
  BY DEF D2Inv

LEMMA D2Finds ==
    ASSUME NEW g, Finite(g), NEW half \in Nat \ {0, 1},
           NEW starts, NEW path, NEW mids, NEW frames, NEW found,
           D2Inv(g, half, starts, path, mids, frames, found, "search"),
           NEW P \in SUBSET DOMAIN g, Verify(g, P, 2 * half)
    PROVE  D2Inv(g, half, starts, path, mids, frames, P, "found")
<1>1. 2 * half \in Nat \ {0}
  OBVIOUS
<1>2. IsCycle(g, P, 2 * half)
  BY <1>1, PartIsFinite, VerifyIsCycle
<1> QED
  BY <1>2 DEF D2Inv, Cycles

\* The arcs not yet tried, after one of them has been.
LEMMA CrossedOff ==
    ASSUME NEW T, NEW frames \in Seq(SUBSET T), NEW n \in 1..Len(frames), NEW arc \in frames[n]
    PROVE  /\ arc \in T
           /\ [frames EXCEPT ![n] = @ \ {arc}] \in Seq(SUBSET T)
           /\ Len([frames EXCEPT ![n] = @ \ {arc}]) = Len(frames)
           /\ \A j \in 1..Len(frames) :
                 [frames EXCEPT ![n] = @ \ {arc}][j]
                    = IF j = n THEN frames[n] \ {arc} ELSE frames[j]
<1>1. frames[n] \in SUBSET T
  BY ElementOfSeq
<1>2. frames[n] \ {arc} \in SUBSET T
  BY <1>1
<1> QED
  BY <1>1, <1>2, ExceptSeq

\* The edges of the walk that an arc through mid closes.
Walked(path, mids, mid) ==
    {path[i] : i \in 1..Len(path)} \union {mids[i] : i \in 1..Len(mids)} \union {mid}

\* The edges of a tour's walk that its last arc closes are the cycle.
LEMMA D2Closes ==
    ASSUME NEW g, Finite(g), NEW half \in Nat \ {0, 1}, NEW w, Tour(g, 2 * half, w),
           NEW path, NEW mids, Len(path) = half, Len(mids) = half - 1,
           \A i \in 1..half : path[i] = w[2 * i - 2],
           \A i \in 1..(half - 1) : mids[i] = w[2 * i - 1]
    PROVE  Verify(g, Walked(path, mids, ArcOn(w, half).mid), 2 * half)
<1> DEFINE n == 2 * half
           U == Walked(path, mids, ArcOn(w, half).mid)
<1>1. ArcOn(w, half).mid = w[2 * half - 1]
  BY DEF ArcOn
<1>2. U \subseteq Visited(w, n)
  <2>1. \A i \in 1..half : 2 * i - 2 \in 0..(n - 1) /\ 2 * i - 1 \in 0..(n - 1)
    OBVIOUS
  <2>2. \A i \in 1..(half - 1) : i \in 1..half
    OBVIOUS
  <2>3. half \in 1..half
    OBVIOUS
  <2> QED
    BY <1>1, <2>1, <2>2, <2>3 DEF Visited, Walked
<1>3. Visited(w, n) \subseteq U
  <2> SUFFICES ASSUME NEW j \in 0..(n - 1) PROVE w[j] \in U
    BY DEF Visited
  <2>1. PICK i \in 1..half : j = 2 * i - 2 \/ j = 2 * i - 1
    <3>1. CASE j % 2 = 0
      <4>1. (j \div 2) + 1 \in 1..half /\ j = 2 * ((j \div 2) + 1) - 2
        BY <3>1
      <4> QED
        BY <4>1
    <3>2. CASE j % 2 # 0
      <4>1. (j \div 2) + 1 \in 1..half /\ j = 2 * ((j \div 2) + 1) - 1
        BY <3>2
      <4> QED
        BY <4>1
    <3> QED
      BY <3>1, <3>2
  <2>2. CASE j = 2 * i - 2
    BY <2>2 DEF Walked
  <2>3. CASE j = 2 * i - 1 /\ i = half
    BY <1>1, <2>3 DEF Walked
  <2>4. CASE j = 2 * i - 1 /\ i # half
    <3>1. i \in 1..(half - 1)
      BY <2>4
    <3> QED
      BY <2>4, <3>1 DEF Walked
  <2> QED
    BY <2>1, <2>2, <2>3, <2>4
<1>4. U = Visited(w, n)
  BY <1>2, <1>3
<1>5. Visited(w, n) \in SUBSET DOMAIN g
  <2>1. \A j \in 0..(n - 1) : j \in 0..n
    OBVIOUS
  <2> QED
    BY <2>1 DEF Tour, Visited
<1>6. IsCycle(g, Visited(w, n), n) /\ n \in Nat \ {0}
  BY DEF Tour
<1> HIDE DEF n, U
<1>7. Verify(g, U, n)
  BY <1>4, <1>5, <1>6, PartIsFinite, VerifyIsCycle
<1> QED
  BY <1>7 DEF n, U

\* Where an arc is passed over no tour needs it: it leads back to a source that
\* is not the first, or it would have closed the tour's cycle.
LEMMA D2Skips ==
    ASSUME NEW g, Finite(g), NEW half \in Nat \ {0, 1},
           NEW starts, NEW path, NEW mids, NEW frames, NEW found,
           D2Inv(g, half, starts, path, mids, frames, found, "search"),
           NEW arc \in frames[Len(path)],
           \/ \E i \in 1..Len(path) : path[i] = arc.dst
           \/ Len(path) = half,
           ~ /\ arc.dst = path[1] /\ Len(path) = half
             /\ Verify(g, Walked(path, mids, arc.mid), 2 * half)
    PROVE  D2Inv(g, half, starts, path, mids,
                 [frames EXCEPT ![Len(path)] = @ \ {arc}], found, "search")
<1> DEFINE n == Len(path)
           fr == [frames EXCEPT ![n] = @ \ {arc}]
           T == [dst : DOMAIN g, mid : DOMAIN g]
<1>1. /\ starts \subseteq DOMAIN g
      /\ path \in Seq(DOMAIN g) /\ mids \in Seq(DOMAIN g) /\ frames \in Seq(SUBSET T)
      /\ Len(frames) = n /\ n <= half /\ path # <<>> /\ found = {} /\ Len(mids) = n - 1
      /\ CoveredArcs(g, half, starts, path, mids, frames)
  BY DEF D2Inv, ArcStacks
<1>2. n \in 1..half /\ n \in 1..Len(frames)
  BY <1>1, EmptySeq
<1> HIDE DEF T
<1>3. /\ arc \in T /\ fr \in Seq(SUBSET T) /\ Len(fr) = n
      /\ \A j \in 1..n : fr[j] = IF j = n THEN frames[n] \ {arc} ELSE frames[j]
  BY <1>1, <1>2, CrossedOff
<1> HIDE DEF fr
<1>4. ArcStacks(g, half, starts, path, mids, fr)
  BY <1>1, <1>3 DEF ArcStacks, T
<1>5. ASSUME NEW w, Tour(g, 2 * half, w)
      PROVE  PendingArcs(w, starts, path, mids, fr)
  <2>1. SUFFICES ASSUME NEW k \in 1..n,
                        \A i \in 1..k : path[i] = w[2 * i - 2],
                        \A i \in 1..(k - 1) : mids[i] = w[2 * i - 1],
                        ArcOn(w, k) \in frames[k]
                 PROVE  PendingArcs(w, starts, path, mids, fr)
    BY <1>1, <1>5 DEF CoveredArcs, PendingArcs
  <2>2. ASSUME k = n, arc = ArcOn(w, k) PROVE FALSE
    <3>1. arc.dst = w[2 * n] /\ arc.mid = w[2 * n - 1]
      BY <2>2 DEF ArcOn
    <3>2. CASE n = half
      <4>1. arc.dst = w[0]
        BY <1>5, <3>1, <3>2 DEF Tour
      <4>2. 1 \in 1..k /\ 2 * 1 - 2 = 0
        BY <2>1
      <4>3. path[1] = w[0]
        BY <2>1, <4>2
      <4>4. Verify(g, Walked(path, mids, ArcOn(w, half).mid), 2 * half)
        <5>1. /\ Len(path) = half /\ Len(mids) = half - 1
              /\ \A i \in 1..half : path[i] = w[2 * i - 2]
              /\ \A i \in 1..(half - 1) : mids[i] = w[2 * i - 1]
          BY <1>1, <2>1, <2>2, <3>2
        <5> HIDE DEF n
        <5> QED
          BY <1>5, <5>1, D2Closes
      <4> QED
        BY <2>2, <3>2, <4>1, <4>3, <4>4
    <3>3. CASE n # half
      <4>1. PICK i \in 1..n : path[i] = w[2 * n]
        BY <3>1, <3>3
      <4>2. w[2 * i - 2] = w[2 * n]
        BY <2>1, <2>2, <4>1
      <4>3. 2 * i - 2 \in 0..(2 * half - 1) /\ 2 * n \in 0..(2 * half - 1) /\ 2 * i - 2 # 2 * n
        <5> HIDE DEF n
        <5> QED
          BY <1>2, <3>3
      <4> QED
        BY <1>5, <4>2, <4>3 DEF Tour, NoneTwice
    <3> QED
      BY <3>2, <3>3
  <2>3. ArcOn(w, k) \in fr[k]
    <3>1. k = n => ArcOn(w, k) # arc
      BY <2>2
    <3> QED
      BY <1>3, <2>1, <3>1
  <2> QED
    BY <2>1, <2>3 DEF PendingArcs
<1>6. CoveredArcs(g, half, starts, path, mids, fr)
  BY <1>5 DEF CoveredArcs
<1>7. D2Inv(g, half, starts, path, mids, fr, found, "search")
  BY <1>1, <1>4, <1>6 DEF D2Inv
<1> QED
  BY <1>7 DEF n, fr

LEMMA D2Descends ==
    ASSUME NEW g, NEW half \in Nat \ {0, 1},
           NEW starts, NEW path, NEW mids, NEW frames, NEW found,
           D2Inv(g, half, starts, path, mids, frames, found, "search"),
           Len(path) # half, NEW arc \in frames[Len(path)]
    PROVE  D2Inv(g, half, starts, Append(path, arc.dst), Append(mids, arc.mid),
                 Append([frames EXCEPT ![Len(path)] = @ \ {arc}], ArcsFrom(g, arc.dst)),
                 found, "search")
<1> DEFINE n == Len(path)
           fr == [frames EXCEPT ![n] = @ \ {arc}]
           T == [dst : DOMAIN g, mid : DOMAIN g]
           arcs == ArcsFrom(g, arc.dst)
           path1 == Append(path, arc.dst)
           mids1 == Append(mids, arc.mid)
           frames1 == Append(fr, arcs)
<1>1. /\ starts \subseteq DOMAIN g
      /\ path \in Seq(DOMAIN g) /\ mids \in Seq(DOMAIN g) /\ frames \in Seq(SUBSET T)
      /\ Len(frames) = n /\ n <= half /\ path # <<>> /\ found = {} /\ Len(mids) = n - 1
      /\ CoveredArcs(g, half, starts, path, mids, frames)
  BY DEF D2Inv, ArcStacks
<1>2. n \in 1..(half - 1) /\ n \in 1..Len(frames)
  BY <1>1, EmptySeq
<1>3. arcs \in SUBSET T
  BY DEF ArcsFrom
<1> HIDE DEF arcs, T
<1>4. /\ arc \in T /\ fr \in Seq(SUBSET T) /\ Len(fr) = n
      /\ \A j \in 1..n : fr[j] = IF j = n THEN frames[n] \ {arc} ELSE frames[j]
  BY <1>1, <1>2, CrossedOff
<1>5. arc.dst \in DOMAIN g /\ arc.mid \in DOMAIN g
  BY <1>4 DEF T
<1>6. /\ path1 \in Seq(DOMAIN g) /\ Len(path1) = n + 1 /\ path1 # <<>>
      /\ (\A i \in 1..n : path1[i] = path[i]) /\ path1[n + 1] = arc.dst
  BY <1>1, <1>5, AppendProperties
<1>7. /\ mids1 \in Seq(DOMAIN g) /\ Len(mids1) = n
      /\ (\A i \in 1..(n - 1) : mids1[i] = mids[i]) /\ mids1[n] = arc.mid
  <2>1. /\ Len(mids1) = Len(mids) + 1 /\ mids1 \in Seq(DOMAIN g)
        /\ (\A i \in 1..Len(mids) : mids1[i] = mids[i]) /\ mids1[Len(mids) + 1] = arc.mid
    BY <1>1, <1>5, AppendProperties
  <2>2. Len(mids) + 1 = n
    BY <1>1, <1>2
  <2> HIDE DEF mids1, n
  <2> QED
    BY <1>1, <2>1, <2>2
<1> HIDE DEF fr
<1>8. /\ frames1 \in Seq(SUBSET T) /\ Len(frames1) = n + 1
      /\ (\A i \in 1..n : frames1[i] = fr[i]) /\ frames1[n + 1] = arcs
  BY <1>3, <1>4, AppendProperties
<1> HIDE DEF n, path1, mids1, frames1
<1>9. ArcStacks(g, half, starts, path1, mids1, frames1)
  <2>1. n + 1 <= half /\ (n + 1) - 1 = n
    BY <1>2
  <2> QED
    BY <1>1, <1>6, <1>7, <1>8, <2>1 DEF ArcStacks, T
<1>10. ASSUME NEW w, Tour(g, 2 * half, w)
       PROVE  PendingArcs(w, starts, path1, mids1, frames1)
  <2>1. SUFFICES ASSUME NEW k \in 1..n,
                        \A i \in 1..k : path[i] = w[2 * i - 2],
                        \A i \in 1..(k - 1) : mids[i] = w[2 * i - 1],
                        ArcOn(w, k) \in frames[k]
                 PROVE  PendingArcs(w, starts, path1, mids1, frames1)
    BY <1>1, <1>10 DEF CoveredArcs, PendingArcs, n
  <2>2. /\ k \in 1..Len(path1)
        /\ \A i \in 1..k : path1[i] = w[2 * i - 2]
        /\ \A i \in 1..(k - 1) : mids1[i] = w[2 * i - 1]
    BY <1>2, <1>6, <1>7, <2>1
  <2>3. CASE k # n \/ ArcOn(w, k) # arc
    <3>1. ArcOn(w, k) \in frames1[k]
      BY <1>4, <1>8, <2>1, <2>3
    <3> QED
      BY <2>2, <3>1 DEF PendingArcs
  <2>4. CASE k = n /\ ArcOn(w, k) = arc
    <3>1. arc.dst = w[2 * n] /\ arc.mid = w[2 * n - 1]
      BY <2>4 DEF ArcOn
    <3>2. /\ n + 1 \in 1..half /\ n + 1 \in 1..Len(path1) /\ 2 * (n + 1) - 2 = 2 * n
          /\ (n + 1) - 1 = n
      BY <1>2, <1>6
    <3>3. \A i \in 1..(n + 1) : path1[i] = w[2 * i - 2]
      <4> TAKE i \in 1..(n + 1)
      <4>1. CASE i = n + 1
        BY <1>6, <3>1, <3>2, <4>1
      <4>2. CASE i # n + 1
        <5>1. i \in 1..k
          BY <1>2, <2>4, <4>2
        <5> QED
          BY <2>2, <5>1
      <4> QED
        BY <4>1, <4>2
    <3>4. \A i \in 1..((n + 1) - 1) : mids1[i] = w[2 * i - 1]
      <4> SUFFICES ASSUME NEW i \in 1..n PROVE mids1[i] = w[2 * i - 1]
        BY <3>2
      <4>1. CASE i = n
        BY <1>7, <3>1, <4>1
      <4>2. CASE i # n
        <5>1. i \in 1..(k - 1)
          BY <1>2, <2>4, <4>2
        <5> QED
          BY <2>2, <5>1
      <4> QED
        BY <4>1, <4>2
    <3>5. ArcOn(w, n + 1) \in ArcsFrom(g, w[2 * (n + 1) - 2])
      BY <1>10, <3>2, TourArcs
    <3>6. ArcOn(w, n + 1) \in frames1[n + 1]
      BY <1>8, <3>1, <3>2, <3>5 DEF arcs
    <3> QED
      BY <3>2, <3>3, <3>4, <3>6 DEF PendingArcs
  <2> QED
    BY <2>3, <2>4
<1>11. CoveredArcs(g, half, starts, path1, mids1, frames1)
  BY <1>10 DEF CoveredArcs
<1>12. D2Inv(g, half, starts, path1, mids1, frames1, found, "search")
  BY <1>1, <1>6, <1>9, <1>11 DEF D2Inv
<1> QED
  BY <1>12 DEF n, path1, mids1, frames1, fr, arcs

LEMMA D2Backtracks ==
    ASSUME NEW g, NEW half \in Nat \ {0, 1},
           NEW starts, NEW path, NEW mids, NEW frames, NEW found,
           D2Inv(g, half, starts, path, mids, frames, found, "search"),
           frames[Len(path)] = {}
    PROVE  D2Inv(g, half, starts, SubSeq(path, 1, Len(path) - 1),
                 IF mids = <<>> THEN mids ELSE SubSeq(mids, 1, Len(mids) - 1),
                 SubSeq(frames, 1, Len(frames) - 1), found,
                 IF Len(path) = 1 THEN "begin" ELSE "search")
<1> DEFINE n == Len(path)
           T == [dst : DOMAIN g, mid : DOMAIN g]
           path1 == SubSeq(path, 1, Len(path) - 1)
           mids1 == IF mids = <<>> THEN mids ELSE SubSeq(mids, 1, Len(mids) - 1)
           frames1 == SubSeq(frames, 1, Len(frames) - 1)
           spc == IF n = 1 THEN "begin" ELSE "search"
<1>1. /\ starts \subseteq DOMAIN g
      /\ path \in Seq(DOMAIN g) /\ mids \in Seq(DOMAIN g) /\ frames \in Seq(SUBSET T)
      /\ Len(frames) = n /\ n <= half /\ path # <<>> /\ found = {} /\ Len(mids) = n - 1
      /\ CoveredArcs(g, half, starts, path, mids, frames)
  BY DEF D2Inv, ArcStacks
<1>2. n \in 1..half
  BY <1>1, EmptySeq
<1> HIDE DEF T
<1>3. /\ path1 \in Seq(DOMAIN g) /\ Len(path1) = n - 1
      /\ \A i \in 1..(n - 1) : path1[i] = path[i]
  BY <1>1, FrontFacts
<1>4. /\ frames1 \in Seq(SUBSET T) /\ Len(frames1) = n - 1
      /\ \A i \in 1..(n - 1) : frames1[i] = frames[i]
  <2>1. frames # <<>>
    BY <1>1, <1>2, EmptySeq
  <2> QED
    BY <1>1, <2>1, FrontFacts
<1>5. /\ mids1 \in Seq(DOMAIN g)
      /\ Len(mids1) = (IF n = 1 THEN 0 ELSE n - 2)
      /\ \A i \in 1..(n - 2) : mids1[i] = mids[i]
  <2>1. CASE mids = <<>>
    <3>1. n = 1
      BY <1>1, <1>2, <2>1, EmptySeq
    <3> QED
      BY <1>1, <1>2, <2>1, <3>1
  <2>2. CASE mids # <<>>
    <3>1. n # 1
      <4>1. Len(mids) # 0
        BY <1>1, <2>2, EmptySeq
      <4> QED
        BY <1>1, <4>1
    <3>2. /\ mids1 \in Seq(DOMAIN g) /\ Len(mids1) = Len(mids) - 1
          /\ \A i \in 1..(Len(mids) - 1) : mids1[i] = mids[i]
      BY <1>1, <2>2, FrontFacts
    <3>3. Len(mids) - 1 = n - 2
      BY <1>1, <1>2
    <3> QED
      BY <3>1, <3>2, <3>3
  <2> QED
    BY <2>1, <2>2
<1> HIDE DEF n, path1, mids1, frames1
<1>6. ArcStacks(g, half, starts, path1, mids1, frames1)
  <2>1. path1 # <<>> => Len(mids1) = Len(path1) - 1
    <3>1. path1 # <<>> => n # 1
      BY <1>3, EmptySeq
    <3> QED
      BY <1>2, <1>3, <1>5, <3>1
  <2>2. Len(frames1) = Len(path1) /\ Len(path1) <= half
    BY <1>2, <1>3, <1>4
  <2> QED
    BY <1>1, <1>3, <1>4, <1>5, <2>1, <2>2 DEF ArcStacks, T
<1>7. ASSUME NEW w, Tour(g, 2 * half, w)
      PROVE  PendingArcs(w, starts, path1, mids1, frames1)
  <2>1. SUFFICES ASSUME NEW k \in 1..n,
                        \A i \in 1..k : path[i] = w[2 * i - 2],
                        \A i \in 1..(k - 1) : mids[i] = w[2 * i - 1],
                        ArcOn(w, k) \in frames[k]
                 PROVE  PendingArcs(w, starts, path1, mids1, frames1)
    BY <1>1, <1>7 DEF CoveredArcs, PendingArcs, n
  <2>2. k # n
    BY <2>1 DEF n
  <2>3. k \in 1..(n - 1) /\ k \in 1..Len(path1) /\ \A i \in 1..(k - 1) : i \in 1..(n - 2)
    BY <1>2, <1>3, <2>2
  <2>4. /\ \A i \in 1..k : path1[i] = w[2 * i - 2]
        /\ \A i \in 1..(k - 1) : mids1[i] = w[2 * i - 1]
        /\ ArcOn(w, k) \in frames1[k]
    <3>1. \A i \in 1..k : i \in 1..(n - 1)
      BY <1>2, <2>3
    <3>2. \A i \in 1..k : path1[i] = w[2 * i - 2]
      BY <1>3, <2>1, <3>1
    <3>3. \A i \in 1..(k - 1) : mids1[i] = w[2 * i - 1]
      BY <1>5, <2>1, <2>3
    <3>4. ArcOn(w, k) \in frames1[k]
      BY <1>4, <2>1, <2>3
    <3> QED
      BY <3>2, <3>3, <3>4
  <2> QED
    BY <2>3, <2>4 DEF PendingArcs
<1>8. CoveredArcs(g, half, starts, path1, mids1, frames1)
  BY <1>7 DEF CoveredArcs
<1>9. n = 1 => path1 = <<>> /\ mids1 = <<>> /\ frames1 = <<>>
  BY <1>3, <1>4, <1>5, EmptySeq
<1>10. n # 1 => path1 # <<>>
  <2>1. n # 1 => n - 1 # 0
    BY <1>2
  <2> QED
    BY <1>3, <2>1
<1>11. /\ spc \in {"begin", "search"} /\ (spc = "begin" => n = 1) /\ (spc = "search" => n # 1)
  OBVIOUS
<1> HIDE DEF spc
<1>12. D2Inv(g, half, starts, path1, mids1, frames1, found, spc)
  BY <1>1, <1>6, <1>8, <1>9, <1>10, <1>11 DEF D2Inv
<1> QED
  BY <1>12 DEF n, path1, mids1, frames1, spc
=============================================================================
