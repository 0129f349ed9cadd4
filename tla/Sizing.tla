------------------------------- MODULE Sizing -------------------------------
(***************************************************************************)
(* The sizes of the GPU backends: what the hosts (src/solver/gpu_wgpu.rs,  *)
(* src/solver/gpu_metal.rs) allocate and dispatch, and what the kernels    *)
(* (src/solver/lean.wgsl and the Metal source) compute again from their    *)
(* parameters to find their place in it.  Sizes are in words of 32 bits.   *)
(***************************************************************************)
EXTENDS Integers

CONSTANTS
    IndexBits,     \* 32, the width of u32: indices of edges and words
    ChunkBits,     \* 28: log2 of BUCKET_CHUNK_EDGES
    RangeBits,     \* 18: log2 of the edges in a Metal bucket
    SeenWords      \* 8192: words of the workgroups' bitmaps

\* 1 << n, by its recursion, as proofs need it, and tabulated.
Power ==
    LET power[n \in 0..IndexBits] == IF n = 0 THEN 1 ELSE 2 * power[n - 1]
    IN  [n \in 0..IndexBits |-> power[n]]

ASSUME SizingAssumption ==
    /\ IndexBits \in Nat /\ IndexBits > 16
    /\ ChunkBits \in 0..(IndexBits - 1)
    /\ RangeBits \in 0..IndexBits
    \* a bit for each edge of a range
    /\ SeenWords \in Nat /\ SeenWords * 32 = Power[RangeBits]

\* As many as u32 has values.
Indices == Power[IndexBits]

U32(n) == n % Indices

\* u64::div_ceil
CeilDiv(n, d) == (n + d - 1) \div d

AtLeastOne(n) == IF n = 0 THEN 1 ELSE n

PowersOfTwo == {Power[n] : n \in 0..IndexBits}

EdgeCount(edgeBits) == Power[edgeBits]

\* The words of a bitmap of edges or nodes.
WordCount(edges) == CeilDiv(edges, 32)

-----------------------------------------------------------------------------
(* The slean mode of wgpu: the host.  A bucket is `local' words of a bitmap. *)

PartEdges(edges, parts) == CeilDiv(edges, parts)

Capacity(partEdges, buckets) ==
    LET base == CeilDiv(partEdges, buckets)
    IN  base + CeilDiv(base, 20) + 64

\* Mutant of ArenaWords: no room for the overflow word.
ArenaWordsCounts(partEdges, buckets) ==
    LET quarter == buckets \div 4
    IN  quarter + quarter * Capacity(partEdges, buckets)

\* One of four arenas: a quarter of the buckets' counts, the overflow word, and
\* their slots.
ArenaWords(partEdges, buckets) ==
    LET quarter == buckets \div 4
    IN  quarter + 1 + quarter * Capacity(partEdges, buckets)

DeadBucketCount(partEdges, local) ==
    AtLeastOne(CeilDiv(CeilDiv(partEdges, 8), 4 * local))

DeadCapacity(partEdges, deadBuckets) ==
    CeilDiv(CeilDiv(partEdges, deadBuckets) * 45, 100) + 64

DeadArenaWords(partEdges, deadBuckets) ==
    deadBuckets + 1 + deadBuckets * DeadCapacity(partEdges, deadBuckets)

\* The uniform of a part; bucket_config holds the buckets in its upper half.
PartParams(edges, parts, buckets, part) ==
    LET base == part * PartEdges(edges, parts)
        left == edges - base
        size == PartEdges(edges, parts)
    IN  [word_count  |-> U32(WordCount(edges)),
         chunk_base  |-> U32(base),
         chunk_count |-> U32(IF size <= left THEN size ELSE left),
         buckets     |-> buckets % 2^16]

-----------------------------------------------------------------------------
(* The slean mode of wgpu: the kernels, in u32.                              *)

\* Division in WGSL: by zero, it returns the dividend.
Quotient(n, d) == IF d = 0 THEN n ELSE n \div d

\* Mutant of slean_capacity: the margin is rounded down.
slean_capacityRoundedDown(p) ==
    LET base == Quotient(U32(p.chunk_count + p.buckets - 1), p.buckets)
    IN  U32(base + base \div 20 + 64)

slean_capacity(p) ==
    LET base == Quotient(U32(p.chunk_count + p.buckets - 1), p.buckets)
    IN  U32(base + (base + 19) \div 20 + 64)

slean_shard_width(p) == p.buckets \div 4
slean_overflow_word(p) == slean_shard_width(p)
slean_header_words(p) == slean_shard_width(p) + 1

slean_bucket_words(p) == Quotient(p.word_count, p.buckets)

slean_dead_bucket_count(p) ==
    Quotient(U32(p.chunk_count + 31) \div 32, slean_bucket_words(p))

slean_dead_capacity(p) ==
    LET base == Quotient(U32(p.chunk_count + slean_dead_bucket_count(p) - 1),
                         slean_dead_bucket_count(p))
    IN  (U32(base * 45) + 99) \div 100 + 64

\* The bucket range of the edge at this place in a part, when it dies.
DeadBucket(p, place) == Quotient(place, slean_bucket_words(p) * 32)

-----------------------------------------------------------------------------
(* The bucketed mode of wgpu: 64 buckets, a chunk at a time, and a slot of   *)
(* two words for an edge and its endpoint.                                   *)

\* BUCKET_CHUNK_EDGES
WholeChunk == Power[ChunkBits]

ChunkEdges(edges) == IF edges <= WholeChunk THEN edges ELSE WholeChunk

ChunkParams(edges, chunk) ==
    LET base == chunk * ChunkEdges(edges)
        left == edges - base
    IN  [chunk_base  |-> U32(base),
         chunk_count |-> U32(IF ChunkEdges(edges) <= left THEN ChunkEdges(edges) ELSE left)]

ScratchWords(edges) == 256 + 2 * 64 * (CeilDiv(ChunkEdges(edges), 64) + 2^16)

bucket_config_capacity(p) == U32(p.chunk_count + 63) \div 64 + 2^16

-----------------------------------------------------------------------------
(* Metal: dead edges are dealt into ranges.                                  *)

RangeEdges == Power[RangeBits]

MetalDeadBuckets(partEdges) == AtLeastOne(partEdges \div RangeEdges)

\* The last word of the edge bitmap that grin_miner_bucket_apply_dead reads and
\* writes for a part: whole ranges, from the part's first word on.
LastWordApplied(partEdges, part) ==
    (part * partEdges) \div 32 + MetalDeadBuckets(partEdges) * SeenWords - 1

-----------------------------------------------------------------------------
(* init_edges: the bits it sets, in a word count that edge_count_lo, which   *)
(* is zero for the largest graph, tells where to end.                        *)

\* Mutant of BitsSet: the words are counted from edge_count_lo.
BitsSetNarrow(edges) ==
    LET words == WordCount(U32(edges))
        rest  == U32(edges) % 32
    IN  IF rest # 0 THEN (words - 1) * 32 + rest ELSE words * 32

BitsSet(edges) ==
    LET words == WordCount(edges)
        rest  == U32(edges) % 32
    IN  IF U32(edges) # 0 /\ rest # 0 THEN (words - 1) * 32 + rest ELSE words * 32
=============================================================================
