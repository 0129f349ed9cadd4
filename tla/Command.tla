------------------------------ MODULE Command ------------------------------
(***************************************************************************)
(* The program from its arguments to its exit (src/main.rs): which backend *)
(* it takes, what every request has to pass before a graph is trimmed      *)
(* (validate_request, and the sizing of the GPU backends), and the loop of *)
(* `gate' over its nonces.  The solve itself is one step here, with any    *)
(* outcome the Solver trait has; `mine' goes on as MineLoop says.          *)
(***************************************************************************)
EXTENDS Sizing, Sequences

CONSTANTS
    Scenarios,      \* machines, and the arguments the program gets on them
    MaxNonce,       \* u64::MAX
    CpuMaxBits, MetalMinBits, BucketedMinBits,    \* 28, 18, 24
    LiveLength,     \* 42, the cycle length of live work
    MaxLength,      \* 64
    AcceptCount, AcceptFound    \* 100 and <<45, 74>>: the acceptance gate

ASSUME CommandAssumption ==
    /\ MaxNonce \in Nat
    /\ CpuMaxBits \in 1..IndexBits /\ MetalMinBits \in 1..IndexBits
    /\ RangeBits <= MetalMinBits                         \* a Metal graph is a range or more
    /\ BucketedMinBits \in Nat /\ BucketedMinBits > 5    \* more than a word of bitmap
    \* parse_power_of_two, and clap's range of edge bits
    /\ \A s \in Scenarios :
          /\ s.args.parts \in PowersOfTwo \ {1} /\ s.args.localKib \in PowersOfTwo \ {1}
          /\ s.args.edgeBits \in 1..IndexBits
          /\ s.args.nonceStart \in Nat /\ s.args.count \in Nat
          /\ s.machine.bufferWords \in Nat /\ s.machine.localWords \in Nat \ {0, 1}

\* The workgroup storage of the adapters: a power of two, or at least one and a
\* half times one (48 KiB); four buckets or more in the smallest graph that has
\* any; and far from what u32 can count.
StorageIsPlain ==
    \A s \in Scenarios :
       LET local == s.machine.localWords
       IN  /\ \A q \in PowersOfTwo : q < local => 3 * q <= 2 * local
           /\ 4 * local <= WordCount(EdgeCount(BucketedMinBits))
           /\ 1440 * local < Indices

VARIABLES
    machine,    \* metal: "absent", "broken", "ok"; adapter: "none", "ok", and
                \* its limits; memory: "unknown", "small", "large" (18 GiB)
    args,       \* what clap parsed
    pc, solver,
    parts,      \* of the request being sized
    sized,      \* the sizes its trimming runs with: mode and edges per part
    nonce, found, judged,
    exit

vars == <<machine, args, pc, solver, parts, sized, nonce, found, judged, exit>>
input == <<machine, args>>
gate  == <<nonce, found, judged>>

Live == args.command = "mine"

Init ==
    /\ \E s \in Scenarios : machine = s.machine /\ args = s.args
    /\ pc = "start" /\ solver = "none"
    /\ parts = 0 /\ sized = [mode |-> "none"]
    /\ nonce = args.nonceStart /\ found = <<>> /\ judged = <<>>
    /\ exit = "none"

Exit(how) == pc' = "exited" /\ exit' = how

-----------------------------------------------------------------------------
(* make_solver *)

Refused ==
    /\ pc = "start"
    /\ \/ Live /\ machine.diagnostics
       \/ ~Live /\ args.prePow \in {"invalid", "empty"}
    /\ Exit("refused")
    /\ UNCHANGED <<input, solver, parts, sized, gate>>

Started ==
    /\ pc = "start"
    /\ IF Live THEN ~machine.diagnostics ELSE args.prePow \notin {"invalid", "empty"}
    /\ pc' = "select"
    /\ UNCHANGED <<input, solver, parts, sized, gate, exit>>

\* GpuMetalSolver::new
MetalStarts == machine.metal = "ok" /\ args.trimming # "lean"

WantsMetal ==
    \/ args.backend = "metal"
    \/ args.backend = "auto" /\ machine.metal # "absent"
          /\ args.edgeBits >= MetalMinBits /\ args.trimming # "lean"

\* Mutant of TakeMetal: Auto takes Metal for every graph.
TakeMetalAnySize ==
    /\ pc = "select" /\ args.backend \in {"auto", "metal"} /\ MetalStarts
    /\ solver' = "metal"
    /\ pc' = "range"
    /\ UNCHANGED <<input, parts, sized, gate, exit>>

TakeMetal ==
    /\ pc = "select" /\ WantsMetal /\ MetalStarts
    /\ solver' = "metal"
    /\ pc' = "range"
    /\ UNCHANGED <<input, parts, sized, gate, exit>>

TakeWgpu ==
    /\ pc = "select" /\ args.backend \in {"auto", "wgpu"}
    /\ ~(WantsMetal /\ MetalStarts)
    /\ machine.adapter # "none"
    /\ solver' = "wgpu"
    /\ pc' = "range"
    /\ UNCHANGED <<input, parts, sized, gate, exit>>

TakeCpu ==
    /\ pc = "select"
    /\ \/ args.backend = "cpu"
       \/ /\ args.backend = "auto" /\ ~(WantsMetal /\ MetalStarts)
          /\ machine.adapter = "none" /\ args.edgeBits <= CpuMaxBits
    /\ solver' = "cpu"
    /\ pc' = "range"
    /\ UNCHANGED <<input, parts, sized, gate, exit>>

NoBackend ==
    /\ pc = "select"
    /\ \/ args.backend = "metal" /\ ~MetalStarts
       \/ args.backend = "wgpu" /\ machine.adapter = "none"
       \/ /\ args.backend = "auto" /\ ~(WantsMetal /\ MetalStarts)
          /\ machine.adapter = "none" /\ args.edgeBits > CpuMaxBits
    /\ Exit("noBackend")
    /\ UNCHANGED <<input, solver, parts, sized, gate>>

-----------------------------------------------------------------------------
(* gate's range, and the next request *)

\* nonce_end = nonce_start.checked_add(count)
RangeOverflows ==
    /\ pc = "range" /\ ~Live /\ args.nonceStart + args.count > MaxNonce
    /\ Exit("overflow")
    /\ UNCHANGED <<input, solver, parts, sized, gate>>

\* mine connects and waits for its first job.
RangeFits ==
    /\ pc = "range" /\ (Live \/ args.nonceStart + args.count <= MaxNonce)
    /\ pc' = "next"
    /\ UNCHANGED <<input, solver, parts, sized, gate, exit>>

MoreNonces == Live \/ nonce < args.nonceStart + args.count

Request ==
    /\ pc = "next" /\ MoreNonces
    /\ pc' = "validate"
    /\ UNCHANGED <<input, solver, parts, sized, gate, exit>>

\* capabilities()
Supported ==
    CASE solver = "cpu"   -> 1..CpuMaxBits
      [] solver = "wgpu"  -> 1..IndexBits
      [] solver = "metal" -> MetalMinBits..IndexBits

\* validate_request
Valid ==
    /\ args.edgeBits \in Supported
    /\ args.cycleLength \in 1..MaxLength /\ args.cycleLength % 2 = 0
    /\ Live => args.cycleLength = LiveLength

Refuses ==
    /\ pc = "validate" /\ ~Valid
    /\ Exit(IF args.edgeBits \in Supported THEN "invalidLength" ELSE "unsupported")
    /\ UNCHANGED <<input, solver, parts, sized, gate>>

Validated ==
    /\ pc = "validate" /\ Valid
    /\ pc' = IF solver = "cpu" THEN "solve" ELSE solver
    /\ UNCHANGED <<input, solver, parts, sized, gate, exit>>

-----------------------------------------------------------------------------
(* prepare_trim of the wgpu backend *)

Edges == EdgeCount(args.edgeBits)
Words == WordCount(Edges)

\* BUCKETED_MARK_MIN_EDGE_BITS
Bucketed == args.edgeBits >= BucketedMinBits
Slean    == Bucketed /\ args.trimming # "lean"

\* max_buffer_size and max_storage_buffer_binding_size
Allows(words) == words <= machine.bufferWords

\* local_ram_kib, capped by the adapter and by the bitmap.
LocalWords ==
    LET least(m, n) == IF m <= n THEN m ELSE n
    IN  least(least(args.localKib * 256, machine.localWords), Words)

BucketCount == CeilDiv(Words, LocalWords)

\* slean: "a power-of-two bucket count fitting u16"
BucketCountFits == BucketCount \in PowersOfTwo /\ BucketCount < 2^16

\* A slot in a bucket for each edge of a part, and one in the dead arena for
\* each that dies.
PartFits(n) ==
    LET edges == PartEdges(Edges, n)
    IN  /\ Allows(ArenaWords(edges, BucketCount))
        /\ Allows(DeadArenaWords(edges, DeadBucketCount(edges, LocalWords)))

\* selected_slean_parts
SelectedParts ==
    LET wanted == IF ~Slean \/ args.trimming # "auto" \/ machine.memory = "unknown"
                  THEN args.parts
                  ELSE IF machine.memory = "large" THEN 2 ELSE 4
    IN  IF Slean /\ wanted = 2 /\ machine.memory # "large" THEN 4 ELSE wanted

TooLarge ==
    /\ pc = "wgpu"
    /\ \/ ~Allows(Words)
       \/ Slean /\ ~BucketCountFits
    /\ Exit("tooLarge")
    /\ UNCHANGED <<input, solver, parts, sized, gate>>

BeginSizing ==
    /\ pc = "wgpu" /\ Allows(Words) /\ (Slean => BucketCountFits)
    /\ parts' = SelectedParts
    /\ pc' = "parts"
    /\ UNCHANGED <<input, solver, sized, gate, exit>>

\* The loop of slean_sizing, which also runs when slean is off.
TooManyParts ==
    /\ pc = "parts" /\ parts > Edges
    /\ Exit("tooManyParts")
    /\ UNCHANGED <<input, solver, parts, sized, gate>>

\* Mutant of MoreParts: the parts get fewer instead of more.
MorePartsHalves ==
    /\ pc = "parts" /\ parts <= Edges /\ Slean /\ ~PartFits(parts)
    /\ parts' = IF parts = 1 THEN 1 ELSE parts \div 2
    /\ UNCHANGED <<input, pc, solver, sized, gate, exit>>

MoreParts ==
    /\ pc = "parts" /\ parts <= Edges /\ Slean /\ ~PartFits(parts)
    /\ parts' = parts * 2
    /\ UNCHANGED <<input, pc, solver, sized, gate, exit>>

Sized(mode, edges) ==
    /\ sized' = [mode |-> mode, partEdges |-> edges]
    /\ pc' = "solve"

PartsFit ==
    /\ pc = "parts" /\ parts <= Edges
    /\ \/ Slean /\ PartFits(parts) /\ Sized("slean", PartEdges(Edges, parts))
       \/ /\ Bucketed /\ ~Slean /\ Allows(ScratchWords(Edges))
          /\ Sized("bucketed", ChunkEdges(Edges))
       \/ ~Bucketed /\ Sized("lean", Edges)
    /\ UNCHANGED <<input, solver, parts, gate, exit>>

\* bucket_scratch_size
ScratchTooLarge ==
    /\ pc = "parts" /\ parts <= Edges
    /\ Bucketed /\ ~Slean /\ ~Allows(ScratchWords(Edges))
    /\ Exit("tooLarge")
    /\ UNCHANGED <<input, solver, parts, sized, gate>>

\* trim_survivors_low_memory of the Metal backend takes the parts as they are.
MetalSized ==
    /\ pc = "metal"
    /\ parts' = args.parts
    /\ Sized("metal", Edges \div args.parts)
    /\ UNCHANGED <<input, solver, gate, exit>>

-----------------------------------------------------------------------------
(* A solve, and gate's loop *)

\* The outcomes of a solve, as gate tells them apart; verify_cycle refuses the
\* bad proof.
Outcomes == {"proof", "badProof", "noCycle", "inconclusive", "cancelled", "error"}

Judge(outcome) ==
    /\ pc = "solve" /\ ~Live
    /\ judged' = Append(judged, [nonce |-> nonce, outcome |-> outcome])
    /\ sized' = [mode |-> "none"]

\* Mutant of GoesOn: an unfinished search counts as found.
GoesOnUnsure ==
    \E outcome \in {"proof", "noCycle", "inconclusive"} :
       /\ Judge(outcome)
       /\ found' = IF outcome # "noCycle" THEN Append(found, nonce) ELSE found
       /\ nonce' = nonce + 1
       /\ pc' = "next"
       /\ UNCHANGED <<input, solver, parts, exit>>

GoesOn ==
    \E outcome \in {"proof", "noCycle", "inconclusive"} :
       /\ Judge(outcome)
       /\ found' = IF outcome = "proof" THEN Append(found, nonce) ELSE found
       /\ nonce' = nonce + 1
       /\ pc' = "next"
       /\ UNCHANGED <<input, solver, parts, exit>>

GivesUp ==
    /\ \E outcome \in {"badProof", "cancelled", "error"} : Judge(outcome)
    /\ Exit("failed")
    /\ UNCHANGED <<input, solver, parts, nonce, found>>

\* From here on the program is in MineLoop.
Mining ==
    /\ pc = "solve" /\ Live
    /\ Exit("mining")
    /\ UNCHANGED <<input, solver, parts, sized, gate>>

\* The acceptance run of the largest graph knows what it must find.
Acceptance ==
    /\ args.edgeBits = IndexBits /\ args.prePow = "00"
    /\ args.nonceStart = 0 /\ args.count = AcceptCount

Complete ==
    /\ pc = "next" /\ ~MoreNonces
    /\ Exit(IF Acceptance /\ found # AcceptFound THEN "rejected" ELSE "ok")
    /\ UNCHANGED <<input, solver, parts, sized, gate>>

Exited == pc = "exited" /\ UNCHANGED vars

Work ==
    \/ Refused \/ Started \/ TakeMetal \/ TakeWgpu \/ TakeCpu \/ NoBackend
    \/ RangeOverflows \/ RangeFits \/ Request \/ Refuses \/ Validated
    \/ TooLarge \/ BeginSizing \/ TooManyParts \/ MoreParts \/ PartsFit
    \/ ScratchTooLarge \/ MetalSized
    \/ GoesOn \/ GivesUp \/ Mining \/ Complete

Next == Work \/ Exited

\* main is one thread, and every solve returns (CpuSolve, GpuVerdict).
Spec == Init /\ [][Next]_vars /\ WF_vars(Work)

-----------------------------------------------------------------------------
(* Correctness *)

Solving == pc = "solve"

SleanPart(part) == PartParams(Edges, parts, BucketCount, part)

\* The dead edges of a part fill at least one bucket of their own.
DeadBucketsFill == parts <= BucketCount

Range(n) == 0..(n - 1)

\* Host and kernels, each from what it knows, compute the same layout: "Keep
\* this in sync with slean_capacity() in lean.wgsl" (src/solver/gpu_wgpu.rs).
\* With more parts than buckets the kernel has no dead bucket at all, and its
\* overflow word is the first count: every death is an overflow.
SizesAgree ==
    /\ Solving /\ sized.mode = "slean" =>
          \A part \in Range(parts) :
             LET p == SleanPart(part)
                 dead == DeadBucketCount(sized.partEdges, LocalWords)
             IN  /\ slean_capacity(p) = Capacity(sized.partEdges, BucketCount)
                 /\ slean_bucket_words(p) = LocalWords
                 /\ IF DeadBucketsFill
                    THEN /\ slean_dead_bucket_count(p) = dead
                         /\ slean_dead_capacity(p) = DeadCapacity(sized.partEdges, dead)
                    ELSE slean_dead_bucket_count(p) = 0
    /\ Solving /\ sized.mode = "bucketed" =>
          \A chunk \in Range(CeilDiv(Edges, sized.partEdges)) :
             256 + 2 * 64 * bucket_config_capacity(ChunkParams(Edges, chunk))
                <= ScratchWords(Edges)

\* A workgroup's bitmap holds a bucket: local_ram_kib, or the adapter's workgroup
\* storage, is at most the 32 KiB of the comment at src/solver/lean.wgsl:45.
BucketsFit == LocalWords <= SeenWords

\* apply_dead works on whole ranges of a part, so no part that has edges may be
\* smaller than a range.
PartsAreRanges == sized.partEdges \notin 1..(RangeEdges - 1)

\* No kernel of a trimming reaches past what the host allocated for it: not past
\* the arenas, neither with the last bucket's slots nor with the last dead
\* bucket's; not past the bitmap of a workgroup, where BucketsFit; and not past the
\* edge bitmap when apply_dead writes it back, where PartsAreRanges.  The two
\* conditions leave out requests the program accepts: SleanLeaves and MetalLeaves.
StaysInside ==
    /\ Solving /\ sized.mode = "slean" =>
          \A part \in Range(parts) :
             LET p == SleanPart(part)
                 dead == DeadBucketCount(sized.partEdges, LocalWords)
                 last == DeadBucket(p, p.chunk_count - 1)
             IN  /\ slean_header_words(p) + slean_shard_width(p) * slean_capacity(p)
                       <= ArenaWords(sized.partEdges, BucketCount)
                 /\ slean_dead_bucket_count(p) + 1 + (last + 1) * slean_dead_capacity(p)
                       <= DeadArenaWords(sized.partEdges, dead)
                 /\ BucketCount * slean_bucket_words(p) = Words
                 /\ BucketsFit => slean_bucket_words(p) <= SeenWords
    /\ Solving /\ sized.mode = "metal" =>
          \A part \in Range(parts) :
             /\ (sized.partEdges - 1) \div RangeEdges < MetalDeadBuckets(sized.partEdges)
             /\ PartsAreRanges => LastWordApplied(sized.partEdges, part) < Words

\* What StaysInside leaves out is what goes wrong: a bucket is wider than the
\* bitmap a workgroup has for it,
SleanLeaves ==
    \A part \in Range(parts) : slean_bucket_words(SleanPart(part)) > SeenWords

\* and apply_dead reaches past the edge bitmap in the last part.
MetalLeaves == LastWordApplied(sized.partEdges, parts - 1) >= Words

\* The windows a trimming passes over, as the kernels get them, in u32.
Windows ==
    CASE sized.mode = "slean"    -> [part \in Range(parts) |-> SleanPart(part)]
      [] sized.mode = "bucketed" -> [chunk \in Range(CeilDiv(Edges, sized.partEdges)) |->
                                       ChunkParams(Edges, chunk)]
      [] sized.mode = "metal"    -> [part \in Range(parts) |->
                                       [chunk_base  |-> U32(part * sized.partEdges),
                                        chunk_count |-> U32(sized.partEdges)]]
      [] OTHER                   -> [all \in {0} |-> [chunk_base |-> 0, chunk_count |-> Edges]]

\* A pass covers every edge of the graph once, up to the largest graph, whose
\* edge count is not a u32; and a wgpu trimming starts from all of its edges.
PartsTile ==
    Solving /\ sized.mode # "none" /\ (sized.mode = "metal" => parts <= Edges) =>
       /\ \A i \in DOMAIN Windows :
             LET end == Windows[i].chunk_base + Windows[i].chunk_count
             IN  /\ i = 0 => Windows[i].chunk_base = 0
                 /\ end = IF i + 1 \in DOMAIN Windows THEN Windows[i + 1].chunk_base ELSE Edges
       /\ solver = "wgpu" => BitsSet(Edges) = Edges

\* What --backend auto takes can solve the graph asked for: a request is out of a
\* backend's range only if the user named the backend (README.md, "Backend
\* selection").
AutoServes == exit = "unsupported" => args.backend # "auto"

Conclusive == {"proof", "noCycle", "inconclusive"}

\* gate exits with success only if it judged every nonce of its range, once and
\* in order, and reports as found, in order, the ones with a verified proof and
\* no others; the acceptance run, only if they are the ones it must find.
GateIsExact ==
    exit = "ok" =>
       /\ Len(judged) = args.count
       /\ \A i \in DOMAIN judged :
             /\ judged[i].nonce = args.nonceStart + i - 1
             /\ judged[i].outcome \in Conclusive
       /\ \A i, j \in DOMAIN found : i < j => found[i] < found[j]
       /\ \A i \in DOMAIN judged :
             judged[i].outcome = "proof" <=> \E j \in DOMAIN found : found[j] = judged[i].nonce
       /\ \A j \in DOMAIN found : \E i \in DOMAIN judged : found[j] = judged[i].nonce
       /\ Acceptance => found = AcceptFound

\* Whatever the arguments and the machine, the program comes to an end or to its
\* mining loop: sizing the parts in particular, which doubles them until they
\* fit or are more than the edges.
CommandEnds == <>(pc = "exited")

\* "One workgroup updates each 2^18-edge range locally." (src/solver/gpu_metal.rs)
\* A Metal trimming that starts updates words of the edge bitmap only.
RangesStayInside ==
    Solving /\ sized.mode = "metal" =>
       \A part \in Range(parts) : LastWordApplied(sized.partEdges, part) < Words
=============================================================================
