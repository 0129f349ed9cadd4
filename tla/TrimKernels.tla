---------------------------- MODULE TrimKernels ----------------------------
(***************************************************************************)
(* What the compute kernels of the GPU solvers do (lean.wgsl, and the Metal*)
(* source in gpu_metal.rs).  An arena gives each bucket the edges in its   *)
(* slots.  The threads of a kernel race for slots, so which edges of a     *)
(* crowded bucket find one is open; that a bucket is full is all they      *)
(* report.  Hashing and the layout of the words are left out.              *)
(***************************************************************************)
EXTENDS CuckatooGraph

CONSTANT BucketNodes    \* endpoints in a bucket

ASSUME BucketAssumption == BucketNodes \in Nat \ {0} /\ BucketNodes % 2 = 0

\* A bucket is the high bits of an endpoint, the suffix its low bits.
Bucket(node) == node \div BucketNodes
Suffix(node) == node % BucketNodes

InBucket(ends, S, side, b) == {e \in S : Bucket(ends[e][side]) = b}

Buckets(nodes) == {Bucket(node) : node \in nodes}

\* No arena holds anything.
Cleared(buckets) == [b \in buckets |-> {}]

Held(arena) == UNION {arena[b] : b \in DOMAIN arena}

\* A scatter that always finds a slot.
Sorted(ends, S, side, buckets) == [b \in buckets |-> InBucket(ends, S, side, b)]

Overflows(arena, capacity) ==
    \E b \in DOMAIN arena : Cardinality(arena[b]) > capacity

\* The ways to keep `capacity' edges of S, or all of them.
Fitting(S, capacity) ==
    IF Cardinality(S) <= capacity THEN {S}
    ELSE {K \in SUBSET S : Cardinality(K) = capacity}

\* The arenas that capacity may leave of this one.
Clipped(arena, capacity) ==
    {a \in [DOMAIN arena -> SUBSET Held(arena)] :
        \A b \in DOMAIN arena : a[b] \in Fitting(arena[b], capacity)}

Marks(ends, S, side) == {ends[e][side] : e \in S}

\* The edges of S whose mate is not among the marked nodes.
Unmated(ends, S, side, marked) ==
    {e \in S : Mate(ends[e][side]) \notin marked}

\* clear_nodes, mark_nodes and trim_edges one after the other.
LeanRound(ends, S, side) == S \ Unmated(ends, S, side, Marks(ends, S, side))

\* A workgroup that has only its own bucket's suffixes to go by.
MatedInBucket(ends, S, side) ==
    {e \in S : \E f \in S :
        Suffix(ends[f][side]) = Mate(Suffix(ends[e][side]))}

\* One trimming round from arena to arena, sorted for the other side.
NextArena(ends, arena, side) ==
    LET kept == UNION {MatedInBucket(ends, arena[b], side) : b \in DOMAIN arena}
    IN  Sorted(ends, kept, 1 - side, DOMAIN arena)
=============================================================================
