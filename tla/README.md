# TLA+ verification of grin-cuckatoo-miner

TLA+ modules that model the miner, TLC configurations that check them on small
instances, and TLAPS proofs for every value of the constants. Paths below and
in the modules are relative to the repository's root (`src/coordinator.rs` is
the crate's file); `PROJECT.json` maps every definition to the lines it models,
with the repository mounted as `src/`.

## The system

A Cuckatoo miner takes a *job* (header bytes `pre_pow`, a height, an id and a
difficulty) from a Grin node over Stratum, and for one nonce after another
builds the graph those bytes and the nonce determine, trims the edges that
cannot lie on a cycle, searches the rest for a cycle of 42 edges, verifies it,
and submits it.

| component | source | state | operations | module |
|---|---|---|---|---|
| coordinator | `src/coordinator.rs` | current job, header bytes, nonce, graphs done, errors in a row, cancel flag | first job, solve, two `select!` arms, six outcomes, submit, reconnect | `MineLoop`, `MinerContract` |
| Stratum client | `src/stratum.rs` | writer, pending map, next id, reader generation, job and connection channels | `connect`, `reconnect`, `request`, `get_job`, `submit`, reader task | `StratumClient` (and `MineLoop` for the job channel) |
| verifier | `src/verify.rs` | none | `verify_cycle` | `VerifyCycle` |
| CPU solver | `src/solver/cpu_lean.rs` | edge and node bitmaps, round | trimming, `find_cycle` | `CpuLean`, `CycleSearch`, `CpuSolve` |
| 2-core peel | `src/solver/peel.rs` | live counts, queue | `peel_two_core` | `PeelTwoCore`, `GpuVerdict` |
| D2 search | `src/solver/d2.rs` | adjacency, path, branches | `find_cycle_d2` | `D2Search`, `GpuVerdict` |
| wgpu solver | `src/solver/gpu_wgpu.rs`, `lean.wgsl` | GPU bitmaps, bucket and dead arenas, backup | dense rounds and fallback, lean batches, fine transition, verdict, second trim, sizing | `WgpuTrim`, `TrimKernels`, `Sizing`, `Command` |
| fine trimming | `src/solver/gpu_fine.rs`, `lean.wgsl` | arenas | seeding, fixed and CSR rounds, readback | `WgpuTrim`, `TrimKernels` |
| Metal solver | `src/solver/gpu_metal.rs` | bitmaps, arenas, overflow count | dense rounds, transition, arena-to-arena rounds, verdict, sizing | `MetalTrim`, `TrimKernels`, `Sizing`, `Command` |
| solver interface | `src/solver/mod.rs` | none | `validate_request`, the outcomes | `Command` |
| command line | `src/main.rs`, `src/cli.rs` | the solver, `gate`'s range and results | `make_solver`, `gate` | `Command` |
| GPU diagnostics | `src/solver/gpu_diagnostics.rs` | none | experiments behind environment variables | not modelled |
| hashing | `src/siphash.rs`, `src/keys.rs` | none | endpoints, keys | a parameter |

How they interact. `main` chooses a solver and gives it to `mine()`, or calls it
itself for each nonce of `gate`. `mine()` owns the client and, between solves, the solver. A
solve runs on a blocking thread and polls an atomic flag that `mine()` raises.
The reader task of the current connection publishes pushed jobs and the loss of
the connection through two `watch` channels, and hands answers to the caller
through a map of one-shot senders. A `watch` channel keeps the last value and,
for each receiver, whether it has been seen: a value marked seen and not acted
on is lost.

What is hard here: wake-ups lost between the places that mark a channel seen;
variables that belong together and change on four paths; answers that come
after their request timed out, or from an earlier connection; a reader that
dies while `reconnect` runs; a share whose delivery is unknown; a search that
runs out of budget or arena and must not turn that into "no cycle"; trimming
that is cut short, or done in an order the GPU chooses; sizes that host and
kernel compute apart, some of them in 32 bits. `PROJECT.json` lists
these hazards line by line with the properties that watch them, or the reason why
none does.

## Modules

**MineLoop** is `mine()` with everything it talks to. The coordinator is one
task, and `pc` is the await point it is at; the solver task, the reader and the
node take steps in between. `job`, `prePow`, `nonce`, `graphs`, `errors` are
the loop's variables; `task` is the running solve, with the header and nonce it
was given; `cancel` is its flag; `watch`/`jobUnseen` and
`connected`/`connUnseen` are the two channels. `get_job` is three steps
(`NodeAnswers`/`ReaderDelivers`, `PeekPushed` or `PeekResponse`,
`StoreResponse`), because the reader runs on another thread of the runtime and
may publish between the look and the store. `reconnect_and_get_job` is
`ReconnectFails` and `Reconnected`; `ReconnectFails` may leave a reader on a
connection whose login failed, as the code does. A panic of the solver task is the
result `fatal`, and one of the recovery task the second case of `Recovered`; both stop
the miner. Difficulty is an outcome of
the solve. History variables (`session`, `sent`, `tried`, `streak`,
`overwrote`, `swallowed`) record what properties ask about and no guard reads
them, except that `session` is written into shares.

**MinerContract** is what the node may rely on: one template at a time, nonces
in order, at most one share for a nonce, each on the header it names.
`MineLoop!KeepsContract` states that the loop implements it.

**StratumClient** is the client from within: `request` is a chain of steps of
one caller, `reconnect` is a step for each place where another task can get in,
and each connection has its own generation, reader, map and stream. Every
`abort` of a reader takes effect where that reader awaits (`StopReader`); past
its last await it runs to its end first. The server answers late, twice or not
at all, closes the stream with frames unread, and sends frames that are skipped
or refused (`Babbles`): an answer without an id, a line that is not JSON, a
frame over 1 MiB, which ends the reader of a stream that stays open.

**CuckatooGraph** has the graph, `TrimSide`, closed sets, the core and cycles.
`ends` is an arbitrary function, so what is shown holds for whatever SipHash
produces. **CpuLean** is the CPU solver's trimming, one mark and one kill step
a round, with the cancel flag raised at any point; the search appears by its
result. **PeelTwoCore** is the worklist, as a set: any order. **VerifyCycle**
is `verify_cycle` as an operator. **CycleSearch** and **D2Search** are the two
searches, their recursion an explicit stack of the candidates not yet tried.

**CpuSolve** composes `CpuLean` and `CycleSearch`: the survivors of the one are
what the other is called with, the search takes its steps, and the flag may be
raised between any two of them. `ImplementsCpuLean` maps it back to `CpuLean`,
whose search is one step. **GpuVerdict** composes `PeelTwoCore`, `D2Search` and
`CycleSearch` in the order both GPU solvers have: peel, look at the flag, take
the search for the length asked for. `WgpuTrim` and `MetalTrim` have the same as
one step, `Peel` and what follows.

**Sizing** has what the GPU hosts allocate and dispatch, and what the kernels
compute again from their uniforms, each in its own width. **Command** is
`main`: backend selection, `validate_request`, the sizing of a request up to its
first dispatch with the loop that doubles the parts until they fit, and `gate`.
A solve is one step with any outcome; `mine` leaves for `MineLoop`.

**TrimContract** is the abstract trimmer: a round leaves exactly the edges that
had a mate on its side, and a nonce's trimming may start again from all edges.
A trimmer that has lost edges may say so (`sound`) and then promises nothing.

**TrimKernels** has the compute kernels as operators. An arena is a function
from buckets to the edges in their slots. Threads race for slots, so `Clipped`
is every arena that a scatter into buckets of limited capacity may leave, and
`Overflows` says whether the kernel raised its overflow word. The wgpu and the
Metal kernels compute the same things and share these operators.

**WgpuTrim** is one solve of the wgpu backend. A request gets `lean`, `bucketed`
or `slean` dense rounds by its size and mode. `pc` says what the host submits
next; a submission shows as its kernels in order, and the flag is read exactly
where the host reads it (for instance not between the resident part of a slean
round and the part after it). `start` is what the completed rounds left, and no
guard reads it. The four overflow words and the dead arena's are one flag: every
kernel and the host treat any of them alike. A slean round that the host
abandons was only encoded, so none of its kernels ran. `Seed` destroys the dense
buffers; `compact` says whether an arena has gaps, as a fixed one has and the
readback cannot cope with.

**MetalTrim** is one solve of the Metal backend. It has no fallback: rounds run
on after an overflow with what found a slot, and the count is read at the end of
each dense round and after the last command buffer of the others.

`MCGraphs`, `MCCpuSolve`, `MCGpuVerdict`, `MCWgpuTrim` and `MCMetalTrim` give TLC
its graphs, `MCCommand` its machines and arguments.
Operators called mutants ("Mutant of ...") are plausible bugs of the operator
that follows; each shows that some property would notice.

## Runs

| run | what it shows | bounds |
|---|---|---|
| `mine_loop` | type, proofs match their share, nonces in order, no lost wake-up, contract | 3 templates (height up, same or down), 3 nonces, 4 graphs, 2 faults |
| `mine_live` | errors in a row; the miner ends on the node's height; reconnects | 3 templates with reorganisations, 2 faults, GPU errors, one nonce value |
| `never_sent_twice` | *violated*: see Findings | 2 templates, 1 fault |
| `switches_on_new_height` | *violated* | the same |
| `follows_the_node` | *violated* | the same |
| `metal_small_graphs` | *violated* | the same as `command` |
| `stratum_client` | answers reach their own call, one reader, flag, no leftovers, calls return | 3 connections, 3 calls, 2 frames in flight |
| `cpu_solve` | no cycle loses an edge, verdicts, fixpoint, verifier exact, the search is the step `CpuLean` makes of it, every solve returns | graphs of 5 edges up to symmetry, 3 rounds, cycles of 4, 8 branches |
| `gpu_verdict` | counters, core, verdict about the survivors, termination | a ring of 6 with an edge from its end and a free one, cycles of 6 (D2) and 4 (generic), 8 arcs, 10 branches |
| `command` | host and kernel layouts agree and stay inside, passes tile the graph, auto serves, the gate is exact, the program ends | 12,038 combinations of machine and arguments, C1 to C30, see below |
| `wgpu_trim` | exact rounds in every mode, survivors where they are read, no kernel on destroyed buffers, negative verdicts | graphs of 5 edges up to symmetry, 2 buckets a side, 1 slot a bucket, 1 dead slot, 3 parts, early verdict at 5 of 6 rounds |
| `metal_trim` | exact rounds until an overflow, none forgotten, verdicts | the same graphs, 2 slots, 2 parts, 2 dense of 5 rounds, 2 rounds a command buffer |

Why these are enough. Two templates at different heights and a third at either
give every staleness decision, including a height that leaves and comes back;
two faults give a fault during the recovery from a fault; four graphs are
enough to cancel, retry, send and go on. Three generations let a reader of two
connections ago still exist if the code let it, and three calls let a late
answer meet a later call after a login; two frames let a frame that ends the reader
arrive behind an answer. Five edges over two mate pairs on each side have
cycles of 4 and of 2+2, chords, and dead trees that trim from either side. A
ring of six with two free edges has 4- and 6-cycles, chords, and walks that use
an edge twice. The budgets and the adjacency are placed so that some graphs with
a cycle exceed them and others do not. `command` keeps the sizes of the program
except for u32, which is 30 bits wide and so makes C30 the largest graph, and a
chunk, 2^26 edges: TLC's integers end at 2^31. Its machines have small and
large buffers, 32, 48 and 64 KiB of workgroup storage, no adapter, and Metal
absent, broken and working; its gates reach both ends of the nonce range. For the GPU backends, buckets of one or two
slots overflow on some graphs and not on others, in the marking and in the
trimming of a part, and so do the dead arenas; three parts give an earlier part,
a later one and the resident one. Each bucket holds one mate pair, as small as
buckets get; a fixed arena without margin overflows when a bucket grows. Five of
six rounds take the slean path through three dense and two fine rounds, the
bucketed one through two and three, and the second trim through one more. Parts
are dealt out by edge (`Dealt`, `Alternate`) and not in ranges, because the
small graphs are sorted and neighbours share buckets; the modules allow any
partition. What the bounds leave out is covered by the
proofs where there is one.

Fairness (`mine_live`): the runtime polls the coordinator and the reader, a
solve ends (every backend's search and trimming is bounded), a node that is
asked and connected answers, a reconnect attempt succeeds in the end, and both
`select!` arms are taken if they stay ready, since `select!` picks among ready
branches at random. Nothing makes the node advance or a link fail or hold.
A reorganisation whose lower template is pushed while the old connection's
taller push is still in the channel leaves the miner on the old height, since
`get_job` prefers it (stratum.rs:178); `CatchesUp` excludes exactly the
behaviours that end there (`OnAbandonedPush`) and holds on all others.
`stratum_client`: the runtime runs ready tasks and the timer of a request fires
after 30 s. `cpu_solve`, `gpu_verdict`: the solver's thread runs; nobody has to
raise the flag. `command`: `main` runs, and a solve returns, which the two runs
before show.

## Findings

Four runs that TLC must find violated: three sentences of the docs are not what
the code does, and one kernel leaves its buffer.

1. `never_sent_twice`: README.md:53-55 and the comment at coordinator.rs:196
   say a share whose submission failed is not sent twice. After the reconnect
   the node serves the same template (it publishes a new one only when it has
   one), lines 197-199 restart at `nonce_start`, and the nonce is solved and
   its share submitted again.
2. `switches_on_new_height`: README.md:86-88. A GPU error leaves the loop
   (131-132) without looking at the job; if the select had already consumed the
   notice, the next solve runs to its end on the old height.
3. `follows_the_node`: the same sentence. `get_job` looks at the channel
   (stratum.rs:177) and stores its response (182); a taller job published in
   between is overwritten.
4. `metal_small_graphs`: `grin_miner_bucket_apply_dead` (gpu_metal.rs:436-466)
   works on ranges of 2^18 edges from the first edge of a part. With more parts
   than ranges (C18 and C19 at the default four parts) the last part reads and
   writes behind the edge bitmap. `StaysInside` leaves this case out (`PartsAreRanges`);
   `LeavesOtherwise` proves it for every such request.

Cases with no run of their own. The first two contradict a sentence of the
repository, the others none:

- lean.wgsl:45: "One workgroup owns a complete 32 KiB endpoint bucket". With
  `--local-ram-kib 64` on an adapter with 64 KiB of workgroup storage the host
  makes buckets of 16384 words, and the kernels' bitmap has 8192 (lean.wgsl:46).
  `StaysInside` leaves this case out (`BucketsFit`); `LeavesOtherwise` proves
  that each request it leaves out has buckets wider than the bitmap.
- cli.rs, the help text of `--trimming`: auto "falls back to lean". The code
  does so when rounds overflow, but not when no part fits (gpu_wgpu.rs:1698).
- With more parts than buckets the kernels compute zero dead buckets
  (lean.wgsl:814), so that every death counts as an overflow: each slean round
  takes its fallback. `SizesAgree` has the case (`DeadBucketsFill`).
- The refusal for more parts than edges (gpu_wgpu.rs:1698) also meets a lean
  trimming, which has no parts.
- A connection lost before the first solve is marked seen without a look
  (coordinator.rs:76), so nothing cancels that solve. `OrphanedSolveIsCancelled`
  leaves the case out (`swallowed`); the join notices it, and `Reconnects` covers
  it.
- After a reorganisation the old connection's push may win over the node's
  answer (stratum.rs:178); see the fairness of `mine_live` above.

## Proofs

`MineLoopProofs`, for every number of templates, nonces, graphs and faults
(assumption: the constants are naturals and the outcomes are those of the
`Solver` trait):

- `TypeCorrect`, `CountsErrorsInARow`: the inductive invariant adds what
  `TypeOK` cannot see, for instance that a job is adopted wherever the loop
  runs and that the error counter equals the streak outside the join.
- `SharesAreSound`: strengthened by "a running task has the header and nonce of
  the loop's variables, and they are the adopted job's". Without it a share
  sent at `submit` could carry an earlier solve.
- `NoncesInOrder`: strengthened by "past a join that is not a cancellation the
  current nonce has its verdict".
- `SupersededSolvesStop`, `OrphanedSolvesStop`: under the hypothesis that the
  solver reports no GPU error (with them the first is false, see Findings);
  strengthened by what holds at `loop`, where the next solve will start.
- `ImplementsContract`: each action maps to an action of `MinerContract` or a
  stutter, for unsaturated nonces.

- `SharesAreSentOnce`: within one connection no share is written twice, for
  unsaturated nonces. Inductive with: pushes are newer than what they follow on the
  wire, than the channel's job and than the response in hand, so the loop never
  holds a job newer than the channel's; and every share written on this
  connection is of an older template, or of this one with a smaller nonce (with
  the current one only in `awaiting`).

`GraphProofs` is what both solvers rest on, for every graph. Induction over
numbers (`LeastNat`, `Reaches`) is done from the well-foundedness of `<`, because
the induction theorems of the library take an operator and no installed prover
can instantiate one. Its lemmas: the kernels (`TrimKernels`: buckets are made of
whole mate pairs, so workgroups that see one bucket find every mate,
`NextArenaTrims`; an arena that did not overflow is the one that was scattered,
`ClippedExact`; an edge and its mate are kept together, `TrimAgainKeeps`, on which
the exact fallback rests; a round takes nothing of a closed set,
`TrimKeepsClosed`); `VerifyIsCycle` (what `verify_cycle` accepts is a cycle of that
length, and conversely); and the two searches, one lemma a step.

The invariant of a search is about tours. A tour is a walk once around a cycle;
every cycle has one (`CycleHasTour`). `SearchInv` (for the generic search) and
`D2Inv` (for the D2 arcs, two edges each) say: every tour is still pending, that is,
its start is among the starts left, or the current path agrees with it up to
some depth at which its next edge has not been tried. A step that drops a tour
at one depth leaves it pending at another, or reports a cycle. So an exhausted
search, which has nothing left to try, means there was no tour, and hence no
cycle.

`CpuSolveProofs`, for every finite graph, number of rounds, cycle length and
budget: on `SolveSpec`, `SolveKeepsCycles` (with "the marks are the endpoints of
the live edges"), `SolveStopsAtTheCore` (with "the side not being trimmed was
trimmed in the round before"), `SolveIsSound` (no cycle is reported only where
there is none), `VerifyIsExact` (`VerifiesExactly`), and `SolveImplementsCpuLean`: each
step of the trimming is the same step of `CpuLean`, each step inside the search a
stutter, and its last one the `Search` step of `CpuLean`. The search invariant is
needed there, because `CpuLean` may answer "no cycle" only if there is none. The
corresponding facts about `CpuLean` itself follow on `Spec`. `SolveTrimsAsPromised` is
the contract of the trimmers: each counted round leaves exactly the edges that had a
mate on its side, and no other step, of the search or of the flag, touches the
survivors; `TrimContract` is thus implemented by the CPU and by both GPU trimmers.
`SolveRunsOut` bounds the whole solve: `StepsLeft` counts two steps a round, and, in
the search, two for every start and two for every branch of the budget plus the
length of the path; every step of the solve's thread lowers it, so there are at most
`2 * Rounds + 2 * |Edges| + 2 * MaxBranches + 6` of them.

`GpuVerdictProofs`, for every finite graph: the peel's part of the invariant is
that queued groups have no live mate, groups without a live mate are queued, and
groups that left the queue are empty (`CountsTheLiving`, `PeelingKeepsCycles`,
`ReturnsTheCore`; the last needs both directions, closed and largest). With the
invariant of the search that was taken, `VerdictIsAlwaysRight` shows that the
composed verdict is right about the whole graph: a proof is a cycle of the length
asked for, and "no cycle" is said only when the graph has none. It assumes
`Half > 1` (the program has 21): a cycle of two edges would be an arc from an edge to
itself, which the D2 search does not have. `VerdictRunsOut` bounds the verdict in the same
way, by the groups that have not left the queue and then by the starts, the branches
and the path of whichever search runs; a step is left as long as there is no verdict.

`CommandProofs`, for every set of machines and arguments: `AutoServesAlways`
needs "past the selection, auto's solver has the graph in its range"
(`BackendInv`); `GateIsExactAlways` needs what the gate has judged and found so
far (`SoFar`), that it never passes the end of its range, and that an exit is
final. The assumption is what clap lets through.

The rest of `CommandProofs` is about sizes, for every width of u32 above 16 bits.
The provers know nothing of 2^n, so `Sizing!Power` is 1 << n by its recursion, and the
first lemmas get from it what is needed of powers of two: of any two, the smaller
divides the larger (`PowersDivide`). The lemmas about `Sizing` hold for every size
that fits u32: `CapacitiesAgree`, `DeadBucketsAgree` and `DeadCapacitiesAgree` (host and
kernel compute the same, the latter two when a part is whole buckets),
`SlotsInside` (a slot lies behind the header of its arena and before its end) and
`PartsAdjoin` (the windows lie end to end, up to as many edges as u32 has values).
`RequestInv` says that a request that is solved has the sizes these lemmas ask for:
its parts are a power of two that divides the graph, which doubling them keeps up
until they are too many. From there:

- `PartsTileAlways`: every pass covers every edge once, in every mode.
- `StaysInsideWhereItFits`: no kernel leaves its buffers, with two exceptions that
  the program does not refuse: slean buckets wider than the 32 KiB of a
  workgroup's bitmap (`~BucketsFit`), and Metal parts that have edges but fewer than
  the 2^18 of a range (`~PartsAreRanges`). The arenas and the dead buckets
  hold without exception. The kernels' buckets are not wider than the host's and
  may be narrower; then too both count the same dead buckets, and a product that
  wraps in u32 only makes a kernel's capacity smaller. Rests on a Metal graph
  being a range or more (`RangeBits <= MetalMinBits`), for parts without edges.
- `LeavesOtherwise`: the two exceptions are exact. Each slean request with
  `~BucketsFit` has buckets wider than the bitmap, and in each Metal request with
  `~PartsAreRanges` the last part reaches past the edge bitmap (the run
  `metal_small_graphs` shows one). Assumes `StorageIsPlain`, below, and a bitmap of
  more than three words.
- `SizesAgreeAlways`: the layouts are equal, if `StorageIsPlain`: the workgroup
  storage of an adapter is a power of two or at least one and a half times one,
  and not too large. Storage of, say, 66 KiB could be used by a request
  with 32 buckets, of which the host and the kernels would not see the same
  width. `MCCommand` assumes it, so that TLC has evaluated it with 32, 48 and
  64 KiB.

`StratumProofs`, for any number of connections, calls and frames in flight
(assumption: there may be at least one of each). `ClientInv` says that ids are
the serial numbers of the calls, so what an id names on a connection never
changes; that only the call in progress is pending, on the stream in use and
unanswered (`PendingInv`); that only the stream in use is read, and nothing while
it is replaced (`ReaderInv`); and that a raised flag has a reader that will lower
it or belongs to a login that cannot succeed any more (`FlagInv`).
`AnswersReachTheirCall`, `OneReaderAlways`, `FlagIsRead` and `NothingLeftBehind`
follow from one part each.

`MetalTrimProofs`, for every graph, partition, capacity and number of rounds:
`TrimInv` says, as long as nothing has overflowed, which marks are set after each
part and which parts have lost their unmated edges, part for part in both
directions, that the resident arena holds the last part, and that the arena of
the later rounds is the survivors sorted for the round's side. `ImplementsContract`
and `VerdictIsSoundAlways` follow; both need that the overflow count was read
wherever it is reset.

`WgpuTrimProofs` proves `ImplementsContract`, `SurvivorsAreReadAlways`,
`DestroyedIsOverAlways` and `NoCycleIsSound` for all three kinds of dense rounds.
Here an overflow is no excuse: `FallbackInv` says that whatever has overflowed the
edges still lie between the round's survivors and its start (`bucketed`) or the
backup is its start (`slean`), so that the exact round gives what the dense one
should have.

The assumptions of the two are those of the modules: nodes are naturals closed
under mates, the edges are finite, and sizes are naturals.

Only model-checked: liveness, which needs ENABLED. Every invariant and every action
property that a passing run checks, and both refinements, are proved. Of
`SolveReturns` and `VerdictReturns` the bounds above prove the half that says the work
runs out; that the thread never stands still before it has returned is what TLC
checks, on the small instances. `CatchesUp`, `Reconnects`, `CallsReturn` and
`CommandEnds` also rest on the fairness of several threads.

## Not modelled

JSON and byte framing, difficulty arithmetic, hashing, logging, argument
parsing, the Metal build script, and the diagnostics feature, whose environment
variables `mine` refuses. Of the GPU backends: device setup, pipelines, the
self-checks at start and the memory they report; the prefix sums and shard
boundaries of the fine rounds and the order of words in their arenas, which
`WgpuTrim` has as sets; the sizes of the Metal arenas, whose overflow `MetalTrim`
has for any capacity.

One thing the models show that the code does not need: the backup of a slean
round. A round that overflows while it trims has complete marks, so every edge
it killed had no mate and the exact round would kill it too; restoring the
backup first (`Fallback`) makes no difference to what is left.

## Plan

1. Proofs: what is left of the trimming rounds of the GPU solvers and of the command,
   as a count that every step of theirs lowers.
2. Models: the layout of the fine arenas (prefix sums over buckets, shard
   boundaries at the binding limit).
