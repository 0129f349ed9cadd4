------------------------------ MODULE MineLoop ------------------------------
(***************************************************************************)
(* The mining loop of src/coordinator.rs: mine() and its helpers, the      *)
(* blocking solver task it spawns, the cancellation flag, and the two      *)
(* watch channels (job, connected) it shares with the Stratum reader task. *)
(*                                                                         *)
(* The coordinator is one sequential task; `pc' is the await point it is   *)
(* at.  The solver task, the reader task and the node run concurrently     *)
(* with it.  The Stratum client appears through what mine() can see of it: *)
(* its requests, their failure, and the channels; StratumClient.tla opens  *)
(* it up.  A job template is an id (its pre_pow bytes and job_id) and a    *)
(* height; whether a proof reaches the job's difficulty is an outcome of   *)
(* the solve ("share" or "weak").                                          *)
(***************************************************************************)
EXTENDS Naturals, Sequences

CONSTANTS
    MaxGraphs,     \* config.max_graphs; 0 is "mine for ever"
    NonceStart,    \* config.nonce_start
    NonceMax,      \* u64::MAX, or where the model stops counting
    Saturate,      \* bound: nonces from NonceMax up are one value (liveness)
    Outcomes,      \* what the solver may return in this instance
    Reorgs,        \* may the node's height fall?
    MaxTemplates,  \* bound: templates the node issues
    MaxFaults      \* bound: lost connections, timeouts and refused requests

\* The results of Solver::solve as mine() tells them apart: a proof that
\* reaches the difficulty, one that does not, one verify_cycle rejects, ...
Proofs      == {"share", "weak", "invalid"}
AllOutcomes == Proofs \union {"noCycle", "cancelled", "inconclusive", "gpuError", "fatal"}

ASSUME MineLoopAssumption ==
    /\ MaxGraphs \in Nat
    /\ NonceStart \in Nat /\ NonceMax \in Nat /\ NonceStart <= NonceMax
    /\ Saturate \in BOOLEAN
    /\ Outcomes \subseteq AllOutcomes
    /\ Reorgs \in BOOLEAN
    /\ MaxTemplates \in Nat \ {0}
    /\ MaxFaults \in Nat

VARIABLES
    \* the coordinator task
    pc, starting, job, prePow, nonce, graphs, errors, reply,
    \* the solver task and the flag it polls
    task, cancel,
    \* the watch channels: value, and "the coordinator has not seen it yet"
    watch, jobUnseen, connected, connUnseen,
    \* the node, the wire to the reader, and whether a reader is reading it
    tip, asked, wire, reading, faults,
    \* history: sessions opened, shares written, nonces given a verdict on
    \* this adoption, GPU errors in a row, a newer height overwritten, a lost
    \* connection marked seen by FirstJob
    session, sent, tried, streak, overwrote, swallowed

coordinator == <<pc, starting, job, prePow, nonce, graphs, errors, reply>>
solver      == <<task, cancel>>
channels    == <<watch, jobUnseen, connected, connUnseen>>
node        == <<tip, asked, wire, reading, faults>>
history     == <<session, sent, tried, streak, overwrote, swallowed>>
vars        == <<coordinator, solver, channels, node, history>>

NoJob  == [id |-> 0, height |-> 0]
Job    == [id : 1..MaxTemplates, height : Nat \ {0}]
Frame  == [kind : {"job", "template"}, job : Job]
Nonce  == NonceStart..NonceMax
Share  == [id : 1..MaxTemplates, nonce : Nonce, header : 1..MaxTemplates,
           solved : Nonce, session : Nat]
Pc     == {"getJob", "peek", "store", "adopt", "reconnect", "loop", "solving",
           "recover", "submit", "awaiting", "done", "failed"}
Stopped == pc \in {"done", "failed"}

-----------------------------------------------------------------------------
(* Helpers of coordinator.rs *)

\* Mutant of Stale: only a falling height counts.
StaleIfLower(current, latest) == latest # NoJob /\ latest.height < current.height

\* job_is_stale
Stale(current, latest) == latest # NoJob /\ latest.height # current.height

SolverErrorLimit == 3

\* Mutants of Adopt: the header bytes, or the nonce, of the old template stay.
AdoptKeepsHeader(j) == job' = j /\ UNCHANGED prePow /\ nonce' = NonceStart /\ tried' = {}
AdoptKeepsNonce(j)  == job' = j /\ prePow' = j.id /\ UNCHANGED nonce /\ tried' = {}

\* Take template j, with the header bytes to hash, and restart the nonces.
Adopt(j) ==
    /\ job' = j
    /\ prePow' = j.id
    /\ nonce' = NonceStart
    /\ tried' = {}

\* Mutant of StepNonce: an unchecked increment.
StepNonceUnchecked == nonce' = nonce + 1 /\ pc' = "loop"

\* nonce = next_nonce(nonce)?; the end of the nonce space stops mining.
StepNonce ==
    \/ /\ nonce < NonceMax
       /\ nonce' = nonce + 1
       /\ pc' = "loop"
    \/ /\ nonce = NonceMax
       /\ nonce' = nonce
       /\ pc' = IF Saturate THEN "loop" ELSE "failed"

Fault == faults < MaxFaults /\ faults' = faults + 1

-----------------------------------------------------------------------------
(* StratumClient::get_job and reconnect, as mine() goes through them *)

RequestJob == asked' = TRUE /\ pc' = "getJob"

\* The response was an error or none came (timeout, closed): reconnect.
GetJobFails ==
    /\ pc = "getJob"
    /\ \/ ~connected /\ UNCHANGED faults
       \/ Fault
    /\ pc' = "reconnect"
    /\ UNCHANGED <<starting, job, prePow, nonce, graphs, errors, reply, solver,
                   channels, tip, asked, wire, reading, history>>

\* get_job returns j: to line 61 before the first solve, or to the loop.
JobArrives(j) ==
    \/ /\ starting
       /\ job' = j
       /\ pc' = "adopt"
       /\ UNCHANGED <<prePow, nonce, tried>>
    \/ /\ ~starting
       /\ Adopt(j)
       /\ pc' = "loop"

\* A taller job already pushed wins over the response.
PeekPushed ==
    /\ pc = "peek"
    /\ watch.height > reply.height
    /\ JobArrives(watch)
    /\ UNCHANGED <<starting, graphs, errors, reply, solver, channels, node,
                   session, sent, streak, overwrote, swallowed>>

PeekResponse ==
    /\ pc = "peek"
    /\ watch.height <= reply.height
    /\ pc' = "store"
    /\ UNCHANGED <<starting, job, prePow, nonce, graphs, errors, reply, solver,
                   channels, node, history>>

\* job_tx.send_replace(job): the reader may have published since the look.
StoreResponse ==
    /\ pc = "store"
    /\ watch' = reply
    /\ jobUnseen' = TRUE
    /\ overwrote' = (overwrote \/ watch.height > reply.height)
    /\ JobArrives(reply)
    /\ UNCHANGED <<starting, graphs, errors, reply, solver, connected,
                   connUnseen, node, session, sent, streak, swallowed>>

\* mine(), lines 68-76: a push that came in between wins; both receivers are
\* marked seen before the first solve.
FirstJob ==
    /\ pc = "adopt"
    /\ Adopt(IF Stale(job, watch) THEN watch ELSE job)
    /\ starting' = FALSE
    /\ jobUnseen' = FALSE
    /\ connUnseen' = FALSE
    /\ swallowed' = ~connected
    /\ pc' = "loop"
    /\ UNCHANGED <<graphs, errors, reply, solver, watch, connected, node,
                   session, sent, streak, overwrote>>

\* One turn of reconnect_and_get_job that fails to connect, or to log in: that
\* leaves the new reader running until the loop has slept and tries again.
ReconnectFails ==
    /\ pc = "reconnect"
    /\ connected' = FALSE
    /\ reading' \in BOOLEAN
    /\ connUnseen' = TRUE
    /\ wire' = <<>>
    /\ asked' = FALSE
    /\ UNCHANGED <<coordinator, solver, watch, jobUnseen, tip, faults, history>>

Reconnected ==
    /\ pc = "reconnect"
    /\ connected' = TRUE
    /\ connUnseen' = TRUE
    /\ reading' = TRUE
    /\ wire' = <<>>
    /\ session' = session + 1
    /\ swallowed' = FALSE
    /\ RequestJob
    /\ UNCHANGED <<starting, job, prePow, nonce, graphs, errors, reply, solver,
                   watch, jobUnseen, tip, faults, sent, tried, streak, overwrote>>

-----------------------------------------------------------------------------
(* The mining loop *)

\* Mutant of StartSolve: it marks the job channel seen without looking.
StartSolveMarksSeen ==
    /\ pc = "loop"
    /\ MaxGraphs = 0 \/ graphs < MaxGraphs
    /\ task' = [header |-> prePow, nonce |-> nonce, result |-> "running"]
    /\ cancel' = FALSE
    /\ jobUnseen' = FALSE
    /\ pc' = "solving"
    /\ UNCHANGED <<starting, job, prePow, nonce, graphs, errors, reply, watch,
                   connected, connUnseen, node, history>>

StartSolve ==
    /\ pc = "loop"
    /\ MaxGraphs = 0 \/ graphs < MaxGraphs
    /\ task' = [header |-> prePow, nonce |-> nonce, result |-> "running"]
    /\ cancel' = FALSE
    /\ pc' = "solving"
    /\ UNCHANGED <<starting, job, prePow, nonce, graphs, errors, reply, channels,
                   node, history>>

GraphsDone ==
    /\ pc = "loop"
    /\ MaxGraphs # 0 /\ graphs >= MaxGraphs
    /\ pc' = "done"
    /\ UNCHANGED <<starting, job, prePow, nonce, graphs, errors, reply, solver,
                   channels, node, history>>

\* The job_updates.changed() arm of the select.
NoticeJob ==
    /\ pc = "solving"
    /\ jobUnseen
    /\ jobUnseen' = FALSE
    /\ cancel' = (cancel \/ Stale(job, watch))
    /\ UNCHANGED <<coordinator, task, watch, connected, connUnseen, node, history>>

\* Mutant of NoticeConnection: the value is read but the flag is not set.
NoticeConnectionIdle ==
    /\ pc = "solving"
    /\ connUnseen
    /\ connUnseen' = FALSE
    /\ UNCHANGED <<coordinator, solver, watch, jobUnseen, connected, node, history>>

\* The connection_updates.changed() arm of the select.
NoticeConnection ==
    /\ pc = "solving"
    /\ connUnseen
    /\ connUnseen' = FALSE
    /\ cancel' = (cancel \/ ~connected)
    /\ UNCHANGED <<coordinator, task, watch, jobUnseen, connected, node, history>>

Joined == pc = "solving" /\ task.result # "running"

JoinGpuError ==
    /\ Joined /\ task.result = "gpuError"
    /\ errors' = errors + 1
    /\ pc' = IF errors + 1 >= SolverErrorLimit THEN "failed" ELSE "recover"
    /\ UNCHANGED <<starting, job, prePow, nonce, graphs, reply, solver, channels,
                   node, history>>

\* solver.recover() has come back, with or without success, or it panicked.
Recovered ==
    /\ pc = "recover"
    /\ \/ StepNonce
       \/ pc' = "failed" /\ UNCHANGED nonce
    /\ UNCHANGED <<starting, job, prePow, graphs, errors, reply, solver, channels,
                   node, history>>

\* Any other SolveError, or a panic of the solver thread.
JoinFatal ==
    /\ Joined /\ task.result = "fatal"
    /\ pc' = "failed"
    /\ UNCHANGED <<starting, job, prePow, nonce, graphs, errors, reply, solver,
                   channels, node, history>>

\* Mutant of Outcome: the error counter is never reset.
OutcomeKeepsErrors ==
    /\ Joined /\ task.result \notin {"gpuError", "fatal"}
    /\ graphs' = IF MaxGraphs = 0 THEN graphs ELSE graphs + 1
    /\ UNCHANGED <<starting, errors, reply, solver>>

\* An outcome came back: the error streak is over and the graph counts.
\* `graphs' is only compared with a nonzero max_graphs.
Outcome ==
    /\ Joined /\ task.result \notin {"gpuError", "fatal"}
    /\ errors' = 0
    /\ graphs' = IF MaxGraphs = 0 THEN graphs ELSE graphs + 1
    /\ UNCHANGED <<starting, reply, solver>>

\* Mutant of JoinDisconnected: the outcome is dropped but nothing reconnects.
JoinDisconnectedGoesOn ==
    /\ Outcome
    /\ ~connected
    /\ pc' = "loop"
    /\ UNCHANGED <<job, prePow, nonce, channels, node, history>>

JoinDisconnected ==
    /\ Outcome
    /\ ~connected
    /\ pc' = "reconnect"
    /\ UNCHANGED <<job, prePow, nonce, channels, node, history>>

JoinStale ==
    /\ Outcome
    /\ connected /\ Stale(job, watch)
    /\ Adopt(watch)
    /\ jobUnseen' = FALSE
    /\ pc' = "loop"
    /\ UNCHANGED <<watch, connected, connUnseen, node, session, sent, streak,
                   overwrote, swallowed>>

OutcomeOfCurrentJob ==
    /\ Outcome
    /\ connected /\ ~Stale(job, watch)
    /\ jobUnseen' = FALSE
    /\ UNCHANGED <<job, prePow, watch, connected, connUnseen, node, history>>

\* No cycle, no verdict, or a verified cycle below the share difficulty.
JoinNoShare ==
    /\ OutcomeOfCurrentJob
    /\ task.result \in {"noCycle", "inconclusive", "weak"}
    /\ StepNonce

\* Mutant of JoinCancelled: the nonce advances as after any other outcome.
JoinCancelledAdvances ==
    /\ OutcomeOfCurrentJob
    /\ task.result = "cancelled"
    /\ StepNonce

\* The same nonce is solved again.
JoinCancelled ==
    /\ OutcomeOfCurrentJob
    /\ task.result = "cancelled"
    /\ pc' = "loop"
    /\ UNCHANGED nonce

\* verify_cycle refuses the proof: mining stops rather than submit it.
JoinInvalid ==
    /\ OutcomeOfCurrentJob
    /\ task.result = "invalid"
    /\ pc' = "failed"
    /\ UNCHANGED nonce

JoinShare ==
    /\ OutcomeOfCurrentJob
    /\ task.result = "share"
    /\ pc' = "submit"
    /\ UNCHANGED nonce

\* What submit() writes: job_id and nonce from the loop's variables, the
\* proof from the solve.
NewShare == [id |-> job.id, nonce |-> nonce, header |-> task.header,
             solved |-> task.nonce, session |-> session]

SubmitWritten ==
    /\ pc = "submit"
    /\ sent' = sent \union {NewShare}
    /\ pc' = "awaiting"
    /\ UNCHANGED <<starting, job, prePow, nonce, graphs, errors, reply, solver,
                   channels, node, session, tried, streak, overwrote, swallowed>>

\* Mutant of SubmitAnswered: an expected rejection is tried again.
SubmitAnsweredRetries ==
    /\ pc = "awaiting" /\ connected
    /\ StepNonce \/ (pc' = "submit" /\ UNCHANGED nonce)
    /\ UNCHANGED <<starting, job, prePow, graphs, errors, reply, solver, channels,
                   node, history>>

\* Accepted, or rejected as too late or too easy: mining goes on.
SubmitAnswered ==
    /\ pc = "awaiting" /\ connected
    /\ StepNonce
    /\ UNCHANGED <<starting, job, prePow, graphs, errors, reply, solver, channels,
                   node, history>>

\* Any other rejection of a verified share stops the miner.
SubmitRefused ==
    /\ pc = "awaiting" /\ connected
    /\ Fault
    /\ pc' = "failed"
    /\ UNCHANGED <<starting, job, prePow, nonce, graphs, errors, reply, solver,
                   channels, tip, asked, wire, reading, history>>

\* The write failed, the connection closed, or no answer came in 30 s.
SubmitFails ==
    /\ pc \in {"submit", "awaiting"}
    /\ \/ ~connected /\ UNCHANGED faults
       \/ Fault
    /\ pc' = "reconnect"
    /\ UNCHANGED <<starting, job, prePow, nonce, graphs, errors, reply, solver,
                   channels, tip, asked, wire, reading, history>>

Coordinator ==
    \/ GetJobFails \/ PeekPushed \/ PeekResponse \/ StoreResponse \/ FirstJob
    \/ ReconnectFails \/ Reconnected
    \/ StartSolve \/ GraphsDone \/ NoticeJob \/ NoticeConnection
    \/ JoinGpuError \/ Recovered \/ JoinFatal
    \/ JoinDisconnected \/ JoinStale
    \/ JoinNoShare \/ JoinCancelled \/ JoinInvalid \/ JoinShare
    \/ SubmitWritten \/ SubmitAnswered \/ SubmitRefused \/ SubmitFails

-----------------------------------------------------------------------------
(* The solver task, the reader task and the node *)

\* solve() returns; it says "cancelled" only after it has seen the flag.
SolverReturns ==
    /\ pc = "solving" /\ task.result = "running"
    /\ \E r \in Outcomes :
          /\ r = "cancelled" => cancel
          /\ task' = [task EXCEPT !.result = r]
          /\ tried' = IF r = "cancelled" THEN tried ELSE tried \union {task.nonce}
          /\ streak' = CASE r = "gpuError" -> streak + 1
                         [] r = "fatal"    -> streak
                         [] OTHER          -> 0
    /\ UNCHANGED <<coordinator, cancel, channels, node, session, sent, overwrote, swallowed>>

\* The reader publishes a pushed job, or hands get_job its response.
ReaderDelivers ==
    /\ reading /\ wire # <<>>
    /\ wire' = Tail(wire)
    /\ \/ /\ Head(wire).kind = "job"
          /\ watch' = Head(wire).job
          /\ jobUnseen' = TRUE
          /\ UNCHANGED <<pc, reply>>
       \/ /\ Head(wire).kind = "template"
          /\ \/ pc = "getJob" /\ pc' = "peek" /\ reply' = Head(wire).job
             \/ pc # "getJob" /\ UNCHANGED <<pc, reply>>
          /\ UNCHANGED <<watch, jobUnseen>>
    /\ UNCHANGED <<starting, job, prePow, nonce, graphs, errors, solver,
                   connected, connUnseen, tip, asked, reading, faults, history>>

\* The reader's stream ends: what was in flight is lost.
ConnectionLost ==
    /\ reading
    /\ Fault
    /\ reading' = FALSE
    /\ connected' = FALSE
    /\ connUnseen' = TRUE
    /\ wire' = <<>>
    /\ asked' = FALSE
    /\ UNCHANGED <<coordinator, solver, watch, jobUnseen, tip, history>>

\* The node has a new template, at the same height or another, and pushes it.
NodeAdvances ==
    /\ tip.id < MaxTemplates
    /\ \E h \in {tip.height, tip.height + 1}
                \union (IF Reorgs THEN {tip.height - 1} \ {0} ELSE {}) :
          tip' = [id |-> tip.id + 1, height |-> h]
    /\ wire' = IF reading THEN Append(wire, [kind |-> "job", job |-> tip']) ELSE wire
    /\ UNCHANGED <<coordinator, solver, channels, asked, reading, faults, history>>

NodeAnswers ==
    /\ asked /\ reading
    /\ asked' = FALSE
    /\ wire' = Append(wire, [kind |-> "template", job |-> tip])
    /\ UNCHANGED <<coordinator, solver, channels, tip, reading, faults, history>>

\* The program has ended.
Terminated == Stopped /\ UNCHANGED vars

-----------------------------------------------------------------------------
Init ==
    /\ pc = "getJob" /\ starting = TRUE
    /\ job = NoJob /\ prePow = 0 /\ nonce = NonceStart
    /\ graphs = 0 /\ errors = 0 /\ reply = NoJob
    /\ task = [header |-> 0, nonce |-> NonceStart, result |-> "running"]
    /\ cancel = FALSE
    /\ watch = NoJob /\ jobUnseen = FALSE
    /\ connected = TRUE /\ connUnseen = TRUE
    /\ tip = [id |-> 1, height |-> 1] /\ asked = TRUE
    /\ wire = <<>> /\ reading = TRUE /\ faults = 0
    /\ session = 1 /\ sent = {} /\ tried = {} /\ streak = 0
    /\ overwrote = FALSE /\ swallowed = FALSE

Environment == ReaderDelivers \/ ConnectionLost \/ NodeAdvances \/ NodeAnswers

Next == Coordinator \/ SolverReturns \/ Environment \/ Terminated

\* The runtime polls every ready task, a solve ends, bytes on a live
\* connection arrive and a node that is asked answers.  A reconnect attempt
\* succeeds in the end.  Nothing makes the node advance or the link fail.
Fairness ==
    /\ WF_vars(Coordinator)
    /\ WF_vars(Reconnected)
    /\ WF_vars(NoticeJob)
    /\ WF_vars(NoticeConnection)
    /\ WF_vars(SolverReturns)
    /\ WF_vars(ReaderDelivers)
    /\ WF_vars(NodeAnswers)

Spec     == Init /\ [][Next]_vars
FairSpec == Spec /\ Fairness

-----------------------------------------------------------------------------
(* Correctness *)

TypeOK ==
    /\ pc \in Pc /\ starting \in BOOLEAN
    /\ job \in Job \union {NoJob} /\ reply \in Job \union {NoJob}
    /\ prePow \in 0..MaxTemplates
    /\ nonce \in Nonce /\ graphs \in Nat /\ errors \in 0..SolverErrorLimit
    /\ task \in [header : 0..MaxTemplates, nonce : Nonce,
                 result : AllOutcomes \union {"running"}]
    /\ cancel \in BOOLEAN
    /\ watch \in Job \union {NoJob} /\ jobUnseen \in BOOLEAN
    /\ connected \in BOOLEAN /\ connUnseen \in BOOLEAN
    /\ tip \in Job /\ asked \in BOOLEAN /\ wire \in Seq(Frame)
    /\ reading \in BOOLEAN /\ faults \in 0..MaxFaults
    /\ session \in Nat /\ sent \subseteq Share /\ tried \subseteq Nonce
    /\ streak \in Nat /\ overwrote \in BOOLEAN /\ swallowed \in BOOLEAN

\* Every share written carries a proof found on the header of the very
\* template, and at the very nonce, that it names: pre_pow, current_job and
\* nonce are separate variables of mine(), the proof comes from a third task.
SharesMatchTheirProof ==
    \A s \in sent : s.header = s.id /\ s.solved = s.nonce

\* No nonce of the adopted template is passed over unsolved: every nonce
\* below the current one got a verdict, a cancelled solve gives none.
NoNonceSkipped == NonceStart..(nonce - 1) \subseteq tried

\* consecutive_solver_errors is the number of GPU errors since the last
\* outcome, so mining stops at the third in a row and never before.
ErrorsAreConsecutive ==
    /\ pc \in {"loop", "recover", "submit", "awaiting"} => errors = streak
    /\ streak <= SolverErrorLimit

\* While a solve runs on a superseded height, its cancel flag is set or the
\* push that superseded it is still to be noticed: no wake-up is lost between
\* the places that mark the channel seen.
StaleSolveIsCancelled ==
    pc = "solving" /\ Stale(job, watch) => cancel \/ jobUnseen

\* The same for a lost connection, unless line 76 marked the loss seen before
\* the first solve.
OrphanedSolveIsCancelled ==
    pc = "solving" /\ ~connected => cancel \/ connUnseen \/ swallowed

\* Within one connection no share is written twice: templates are not
\* readopted and nonces do not come back.
SentOncePerSession ==
    [][pc = "submit" /\ pc' = "awaiting" => NewShare \notin sent]_vars

\* What the contract sees of the loop's state.
Phase == IF pc \in {"loop", "solving", "recover", "submit"} THEN "open"
         ELSE IF pc = "awaiting" THEN "sent"
         ELSE "suspended"

OnTheWire(s) == [id |-> s.id, nonce |-> s.nonce, header |-> s.header, solved |-> s.solved]

Contract == INSTANCE MinerContract WITH
    Templates <- 1..MaxTemplates, First <- NonceStart, Last <- NonceMax,
    template <- prePow, nonce <- nonce, phase <- Phase,
    shares <- {OnTheWire(s) : s \in sent}

\* The loop keeps the miner's contract: one template at a time, nonces in
\* order, at most one share for a nonce.

KeepsContract == Contract!Spec

\* get_job has kept a job taller than any the node still serves: its chain was
\* reorganised, and the push is left from before.
OnAbandonedPush == job.height = watch.height /\ watch.height > tip.height

\* When the node stops issuing templates the miner ends up on the node's
\* height, whatever it was doing when the last one came.  There are two ways
\* out of that short of the end of mining: get_job overwrote the push in the
\* channel, or it holds on to one from before a reorganisation.
CatchesUp == <>[](Stopped \/ overwrote \/ OnAbandonedPush \/ job.height = tip.height)

\* A lost connection is always followed by a solve on a new one.
Reconnects == ~connected ~> (Stopped \/ (connected /\ pc = "solving"))

-----------------------------------------------------------------------------
(* What the README and the comments say, where the code does otherwise *)

\* README.md:53-55, coordinator.rs:196: a share whose submission fails is not
\* sent twice, because it may have been delivered.
NeverSentTwice ==
    [][pc = "submit" /\ pc' = "awaiting" =>
          \A s \in sent : <<s.id, s.nonce>> # <<job.id, nonce>>]_vars

\* README.md:86-88: a solve "switches immediately when a new height arrives".
SwitchesOnNewHeight == StaleSolveIsCancelled

\* The same sentence, of a height that arrives while get_job returns: with
\* nothing in flight the running solve is on the node's height, or cancelled.
FollowsTheNode ==
    pc = "solving" /\ connected /\ wire = <<>> /\ ~jobUnseen
        => cancel \/ job.height = tip.height
=============================================================================
