--------------------------- MODULE MineLoopProofs ---------------------------
(***************************************************************************)
(* Proofs about MineLoop, for every value of its constants.                *)
(***************************************************************************)
EXTENDS MineLoop, TLAPS

(***************************************************************************)
(* What mine() knows at each of its await points.  TypeOK is not inductive *)
(* without it: that a share is well-formed needs a template to be held, and*)
(* that the error counter stays within its range needs that mining stops at*)
(* the limit.                                                              *)
(***************************************************************************)
Working == {"loop", "solving", "recover", "submit", "awaiting"}

\* There is a template where one is used, its header bytes are those that are
\* hashed, and the solve and the share are about the nonce in hand.
HoldsJob ==
    /\ pc \in {"peek", "store"} => reply # NoJob
    /\ pc \in Working \union {"adopt"} => job # NoJob
    /\ pc \in Working => prePow = job.id
    /\ pc \in {"solving", "submit", "awaiting"} => task.header = prePow /\ task.nonce = nonce

\* The counter is the streak, but for the result that has not been joined yet.
CountsErrors ==
    /\ streak <= SolverErrorLimit
    /\ pc # "failed" => errors < SolverErrorLimit
    /\ pc \notin {"solving", "failed"} => errors = streak
    /\ pc = "solving" =>
          /\ task.result = "running" => errors = streak
          /\ task.result = "gpuError" => streak = errors + 1
          /\ task.result \notin {"running", "gpuError", "fatal"} => streak = 0

IInv == TypeOK /\ HoldsJob /\ CountsErrors

\* The nonce in hand has its verdict where the loop is about to step past it.
HasVerdict ==
    /\ pc \in {"recover", "submit", "awaiting"} => nonce \in tried
    /\ pc = "solving" /\ task.result \notin {"running", "cancelled"} => nonce \in tried

\* StaleSolveIsCancelled and OrphanedSolveIsCancelled, wherever a job is held; a
\* session opened by Reconnected has its connection unseen until then.
NoticesJob ==
    pc \in Working /\ Stale(job, watch) => jobUnseen \/ (pc = "solving" /\ cancel)

NoticesConnection ==
    /\ pc \in {"getJob", "peek", "store"} => connUnseen
    /\ pc \in Working /\ ~connected
          => connUnseen \/ swallowed \/ (pc = "solving" /\ cancel)

-----------------------------------------------------------------------------
(* Type correctness and the invariant it rests on *)

\* Jobs, and the value of the job channel before the first.
LEMMA JobFacts ==
    /\ NoJob \notin Job /\ NoJob.height = 0
    /\ \A j \in Job : j.id \in 1..MaxTemplates /\ j.height \in Nat \ {0}
  BY DEF NoJob, Job

\* What the wire carries.
LEMMA FrameFacts ==
    /\ <<>> \in Seq(Frame)
    /\ \A f \in Frame : f.kind \in {"job", "template"} /\ f.job \in Job
    /\ \A j \in Job : [kind |-> "job", job |-> j] \in Frame
                    /\ [kind |-> "template", job |-> j] \in Frame
  BY DEF Frame

\* An adopted template leaves the loop's variables well-formed.
LEMMA AdoptFacts ==
    ASSUME NEW j \in Job, Adopt(j)
    PROVE  job' \in Job /\ prePow' = job'.id /\ prePow' \in 0..MaxTemplates
           /\ nonce' \in Nonce /\ tried' \subseteq Nonce
  BY JobFacts, MineLoopAssumption DEF Adopt, Nonce

\* A nonce that advances stays in range, and mining stops where it cannot.
LEMMA StepNonceFacts ==
    ASSUME nonce \in Nonce, StepNonce
    PROVE  nonce' \in Nonce /\ pc' \in {"loop", "failed"}
  BY MineLoopAssumption DEF StepNonce, Nonce

\* What an outcome, joined, does to the counters.
LEMMA OutcomeFacts ==
    ASSUME TypeOK, Outcome
    PROVE  /\ pc = "solving" /\ task.result \notin {"running", "gpuError", "fatal"}
           /\ errors' = 0 /\ graphs' \in Nat
           /\ starting' = starting /\ reply' = reply /\ task' = task /\ cancel' = cancel
  BY DEF TypeOK, Outcome, Joined, solver

\* The same for an outcome on the current job; the job channel is seen.
LEMMA CurrentFacts ==
    ASSUME TypeOK, OutcomeOfCurrentJob
    PROVE  /\ Outcome /\ jobUnseen' \in BOOLEAN
           /\ UNCHANGED <<job, prePow, watch, connected, connUnseen, node, history>>
  BY DEF OutcomeOfCurrentJob

LEMMA InitIInv == Init => IInv
  <1> SUFFICES ASSUME Init PROVE IInv
      OBVIOUS
  <1>1. TypeOK
    <2>1. tip \in Job /\ nonce \in Nonce /\ wire \in Seq(Frame)
        BY MineLoopAssumption, FrameFacts DEF Init, Job, Nonce
    <2>2. task \in [header : 0..MaxTemplates, nonce : Nonce,
                    result : AllOutcomes \union {"running"}]
        BY MineLoopAssumption DEF Init, Nonce
    <2>3. pc \in Pc /\ prePow \in 0..MaxTemplates /\ graphs \in Nat /\ faults \in 0..MaxFaults
          /\ errors \in 0..SolverErrorLimit /\ session \in Nat /\ streak \in Nat
        BY MineLoopAssumption DEF Init, Pc, SolverErrorLimit
    <2>4. /\ job \in Job \union {NoJob} /\ reply \in Job \union {NoJob}
          /\ watch \in Job \union {NoJob} /\ sent \subseteq Share /\ tried \subseteq Nonce
        BY DEF Init
    <2>5. /\ starting \in BOOLEAN /\ cancel \in BOOLEAN /\ jobUnseen \in BOOLEAN
          /\ connected \in BOOLEAN /\ connUnseen \in BOOLEAN /\ asked \in BOOLEAN
          /\ reading \in BOOLEAN /\ overwrote \in BOOLEAN /\ swallowed \in BOOLEAN
        BY Zenon DEF Init
    <2>. QED
        BY <2>1, <2>2, <2>3, <2>4, <2>5 DEF TypeOK
  <1>2. HoldsJob /\ CountsErrors
      BY DEF Init, HoldsJob, CountsErrors, Working, SolverErrorLimit
  <1>. QED
      BY <1>1, <1>2 DEF IInv

LEMMA NextIInv == IInv /\ [Next]_vars => IInv'
  <1> SUFFICES ASSUME IInv, [Next]_vars PROVE IInv'
      OBVIOUS
  <1> USE MineLoopAssumption
  <1>1. CASE GetJobFails
    <2>1. TypeOK'
      BY <1>1 DEF IInv, TypeOK, Pc, GetJobFails, Fault, coordinator, solver,
         channels, node, history
    <2>2. HoldsJob'
      BY <1>1, JobFacts DEF IInv, HoldsJob, Working, TypeOK, GetJobFails, Fault,
         coordinator, solver, channels, node, history
    <2>3. CountsErrors'
      BY <1>1 DEF IInv, CountsErrors, TypeOK, SolverErrorLimit, GetJobFails, Fault,
         coordinator, solver, channels, node, history
    <2>. QED
      BY <2>1, <2>2, <2>3 DEF IInv
  <1>2. CASE PeekPushed
    <2>1. TypeOK'
      BY <1>2, JobFacts, AdoptFacts DEF IInv, TypeOK, Pc, PeekPushed, JobArrives,
         coordinator, solver, channels, node, history, HoldsJob, Working
    <2>2. HoldsJob'
      BY <1>2, JobFacts, AdoptFacts DEF IInv, HoldsJob, Working, TypeOK, PeekPushed,
         JobArrives, coordinator, solver, channels, node, history
    <2>3. CountsErrors'
      BY <1>2, JobFacts, AdoptFacts DEF IInv, CountsErrors, TypeOK,
         SolverErrorLimit, PeekPushed, JobArrives, coordinator, solver, channels,
         node, history
    <2>. QED
      BY <2>1, <2>2, <2>3 DEF IInv
  <1>3. CASE PeekResponse
    <2>1. TypeOK'
      BY <1>3 DEF IInv, TypeOK, Pc, PeekResponse, coordinator, solver, channels,
         node, history
    <2>2. HoldsJob'
      BY <1>3, JobFacts DEF IInv, HoldsJob, Working, TypeOK, PeekResponse,
         coordinator, solver, channels, node, history
    <2>3. CountsErrors'
      BY <1>3 DEF IInv, CountsErrors, TypeOK, SolverErrorLimit, PeekResponse,
         coordinator, solver, channels, node, history
    <2>. QED
      BY <2>1, <2>2, <2>3 DEF IInv
  <1>4. CASE StoreResponse
    <2>1. TypeOK'
      BY <1>4, JobFacts, AdoptFacts DEF IInv, TypeOK, Pc, StoreResponse, JobArrives,
         coordinator, solver, channels, node, history, HoldsJob, Working
    <2>2. HoldsJob'
      BY <1>4, JobFacts, AdoptFacts DEF IInv, HoldsJob, Working, TypeOK,
         StoreResponse, JobArrives, coordinator, solver, channels, node, history
    <2>3. CountsErrors'
      BY <1>4, JobFacts, AdoptFacts DEF IInv, CountsErrors, TypeOK,
         SolverErrorLimit, StoreResponse, JobArrives, coordinator, solver, channels,
         node, history
    <2>. QED
      BY <2>1, <2>2, <2>3 DEF IInv
  <1>5. CASE FirstJob
    <2>1. TypeOK'
      BY <1>5, JobFacts, AdoptFacts DEF IInv, TypeOK, Pc, FirstJob, Stale,
         coordinator, solver, channels, node, history, HoldsJob, Working
    <2>2. HoldsJob'
      BY <1>5, JobFacts, AdoptFacts DEF IInv, HoldsJob, Working, TypeOK, FirstJob,
         Stale, coordinator, solver, channels, node, history
    <2>3. CountsErrors'
      BY <1>5, JobFacts, AdoptFacts DEF IInv, CountsErrors, TypeOK,
         SolverErrorLimit, FirstJob, Stale, coordinator, solver, channels, node,
         history
    <2>. QED
      BY <2>1, <2>2, <2>3 DEF IInv
  <1>6. CASE ReconnectFails
    <2>1. TypeOK'
      BY <1>6, FrameFacts DEF IInv, TypeOK, Pc, ReconnectFails, coordinator, solver,
         channels, node, history
    <2>2. HoldsJob'
      BY <1>6, FrameFacts, JobFacts DEF IInv, HoldsJob, Working, TypeOK,
         ReconnectFails, coordinator, solver, channels, node, history
    <2>3. CountsErrors'
      BY <1>6, FrameFacts DEF IInv, CountsErrors, TypeOK, SolverErrorLimit,
         ReconnectFails, coordinator, solver, channels, node, history
    <2>. QED
      BY <2>1, <2>2, <2>3 DEF IInv
  <1>7. CASE Reconnected
    <2>1. TypeOK'
      <3>1. session' \in Nat /\ pc' \in Pc
          BY <1>7 DEF IInv, TypeOK, Pc, Reconnected, RequestJob
      <3>2. /\ connected' \in BOOLEAN /\ connUnseen' \in BOOLEAN /\ reading' \in BOOLEAN
            /\ swallowed' \in BOOLEAN /\ asked' \in BOOLEAN
          BY <1>7, Zenon DEF Reconnected, RequestJob
      <3>3. wire' \in Seq(Frame)
          BY <1>7 DEF Reconnected
      <3>4. UNCHANGED <<starting, job, prePow, nonce, graphs, errors, reply, solver, watch,
                        jobUnseen, tip, faults, sent, tried, streak, overwrote>>
          BY <1>7 DEF Reconnected
      <3>. QED
          BY <3>1, <3>2, <3>3, <3>4 DEF IInv, TypeOK, solver
    <2>2. HoldsJob'
      BY <1>7, FrameFacts, JobFacts DEF IInv, HoldsJob, Working, TypeOK,
         Reconnected, RequestJob, coordinator, solver, channels, node, history
    <2>3. CountsErrors'
      BY <1>7, FrameFacts DEF IInv, CountsErrors, TypeOK, SolverErrorLimit,
         Reconnected, RequestJob, coordinator, solver, channels, node, history
    <2>. QED
      BY <2>1, <2>2, <2>3 DEF IInv
  <1>8. CASE StartSolve
    <2>1. TypeOK'
      BY <1>8 DEF IInv, TypeOK, Pc, StartSolve, coordinator, solver, channels, node,
         history, AllOutcomes
    <2>2. HoldsJob'
      BY <1>8, JobFacts DEF IInv, HoldsJob, Working, TypeOK, StartSolve,
         coordinator, solver, channels, node, history
    <2>3. CountsErrors'
      BY <1>8 DEF IInv, CountsErrors, TypeOK, SolverErrorLimit, StartSolve,
         coordinator, solver, channels, node, history
    <2>. QED
      BY <2>1, <2>2, <2>3 DEF IInv
  <1>9. CASE GraphsDone
    <2>1. TypeOK'
      BY <1>9 DEF IInv, TypeOK, Pc, GraphsDone, coordinator, solver, channels, node,
         history
    <2>2. HoldsJob'
      BY <1>9, JobFacts DEF IInv, HoldsJob, Working, TypeOK, GraphsDone,
         coordinator, solver, channels, node, history
    <2>3. CountsErrors'
      BY <1>9 DEF IInv, CountsErrors, TypeOK, SolverErrorLimit, GraphsDone,
         coordinator, solver, channels, node, history
    <2>. QED
      BY <2>1, <2>2, <2>3 DEF IInv
  <1>10. CASE NoticeJob
    <2>1. TypeOK'
      BY <1>10 DEF IInv, TypeOK, Pc, NoticeJob, coordinator, solver, channels, node,
         history
    <2>2. HoldsJob'
      BY <1>10, JobFacts DEF IInv, HoldsJob, Working, TypeOK, NoticeJob,
         coordinator, solver, channels, node, history
    <2>3. CountsErrors'
      BY <1>10 DEF IInv, CountsErrors, TypeOK, SolverErrorLimit, NoticeJob,
         coordinator, solver, channels, node, history
    <2>. QED
      BY <2>1, <2>2, <2>3 DEF IInv
  <1>11. CASE NoticeConnection
    <2>1. TypeOK'
      BY <1>11 DEF IInv, TypeOK, Pc, NoticeConnection, coordinator, solver,
         channels, node, history
    <2>2. HoldsJob'
      BY <1>11, JobFacts DEF IInv, HoldsJob, Working, TypeOK, NoticeConnection,
         coordinator, solver, channels, node, history
    <2>3. CountsErrors'
      BY <1>11 DEF IInv, CountsErrors, TypeOK, SolverErrorLimit, NoticeConnection,
         coordinator, solver, channels, node, history
    <2>. QED
      BY <2>1, <2>2, <2>3 DEF IInv
  <1>12. CASE JoinGpuError
    <2>1. TypeOK'
      BY <1>12 DEF IInv, TypeOK, Pc, JoinGpuError, Joined, coordinator, solver,
         channels, node, history, SolverErrorLimit, CountsErrors
    <2>2. HoldsJob'
      BY <1>12, JobFacts DEF IInv, HoldsJob, Working, TypeOK, JoinGpuError, Joined,
         coordinator, solver, channels, node, history
    <2>3. CountsErrors'
      BY <1>12 DEF IInv, CountsErrors, TypeOK, SolverErrorLimit, JoinGpuError,
         Joined, coordinator, solver, channels, node, history
    <2>. QED
      BY <2>1, <2>2, <2>3 DEF IInv
  <1>13. CASE Recovered
    <2>1. TypeOK'
      BY <1>13, StepNonceFacts DEF IInv, TypeOK, Pc, Recovered, coordinator, solver,
         channels, node, history
    <2>2. HoldsJob'
      BY <1>13, StepNonceFacts, JobFacts DEF IInv, HoldsJob, Working, TypeOK,
         Recovered, coordinator, solver, channels, node, history
    <2>3. CountsErrors'
      BY <1>13, StepNonceFacts DEF IInv, CountsErrors, TypeOK, SolverErrorLimit,
         Recovered, coordinator, solver, channels, node, history
    <2>. QED
      BY <2>1, <2>2, <2>3 DEF IInv
  <1>14. CASE JoinFatal
    <2>1. TypeOK'
      BY <1>14 DEF IInv, TypeOK, Pc, JoinFatal, Joined, coordinator, solver,
         channels, node, history
    <2>2. HoldsJob'
      BY <1>14, JobFacts DEF IInv, HoldsJob, Working, TypeOK, JoinFatal, Joined,
         coordinator, solver, channels, node, history
    <2>3. CountsErrors'
      BY <1>14 DEF IInv, CountsErrors, TypeOK, SolverErrorLimit, JoinFatal, Joined,
         coordinator, solver, channels, node, history
    <2>. QED
      BY <2>1, <2>2, <2>3 DEF IInv
  <1>15. CASE JoinDisconnected
    <2>1. TypeOK'
      BY <1>15, OutcomeFacts DEF IInv, TypeOK, Pc, JoinDisconnected, coordinator,
         solver, channels, node, history, SolverErrorLimit
    <2>2. HoldsJob'
      BY <1>15, OutcomeFacts, JobFacts DEF IInv, HoldsJob, Working, TypeOK,
         JoinDisconnected, coordinator, solver, channels, node, history
    <2>3. CountsErrors'
      BY <1>15, OutcomeFacts DEF IInv, CountsErrors, TypeOK, SolverErrorLimit,
         JoinDisconnected, coordinator, solver, channels, node, history
    <2>. QED
      BY <2>1, <2>2, <2>3 DEF IInv
  <1>16. CASE JoinStale
    <2>1. TypeOK'
      <3>1. Outcome /\ watch \in Job /\ Adopt(watch) /\ pc' \in Pc /\ jobUnseen' \in BOOLEAN
          BY <1>16 DEF IInv, TypeOK, Pc, JoinStale, Stale
      <3>2. UNCHANGED <<watch, connected, connUnseen, node, session, sent, streak,
                        overwrote, swallowed>>
          BY <1>16 DEF JoinStale
      <3>. QED
          BY <3>1, <3>2, OutcomeFacts, AdoptFacts
          DEF IInv, TypeOK, SolverErrorLimit, node
    <2>2. HoldsJob'
      BY <1>16, JobFacts, AdoptFacts, OutcomeFacts DEF IInv, HoldsJob, Working,
         TypeOK, JoinStale, Stale, coordinator, solver, channels, node, history
    <2>3. CountsErrors'
      BY <1>16, JobFacts, AdoptFacts, OutcomeFacts DEF IInv, CountsErrors, TypeOK,
         SolverErrorLimit, JoinStale, Stale, coordinator, solver, channels, node,
         history
    <2>. QED
      BY <2>1, <2>2, <2>3 DEF IInv
  <1>17. CASE JoinNoShare
    <2>1. TypeOK'
      <3>1. OutcomeOfCurrentJob /\ nonce' \in Nonce /\ pc' \in Pc
          BY <1>17, StepNonceFacts DEF IInv, TypeOK, Pc, JoinNoShare
      <3>. QED
          BY <3>1, OutcomeFacts, CurrentFacts
          DEF IInv, TypeOK, SolverErrorLimit, node, history
    <2>2. HoldsJob'
      BY <1>17, OutcomeFacts, StepNonceFacts, JobFacts DEF IInv, HoldsJob, Working,
         TypeOK, JoinNoShare, OutcomeOfCurrentJob, coordinator, solver, channels,
         node, history
    <2>3. CountsErrors'
      BY <1>17, OutcomeFacts, StepNonceFacts DEF IInv, CountsErrors, TypeOK,
         SolverErrorLimit, JoinNoShare, OutcomeOfCurrentJob, coordinator, solver,
         channels, node, history
    <2>. QED
      BY <2>1, <2>2, <2>3 DEF IInv
  <1>18. CASE JoinCancelled
    <2>1. TypeOK'
      <3>1. OutcomeOfCurrentJob /\ nonce' \in Nonce /\ pc' \in Pc
          BY <1>18 DEF IInv, TypeOK, Pc, JoinCancelled
      <3>. QED
          BY <3>1, OutcomeFacts, CurrentFacts
          DEF IInv, TypeOK, SolverErrorLimit, node, history
    <2>2. HoldsJob'
      BY <1>18, OutcomeFacts, JobFacts DEF IInv, HoldsJob, Working, TypeOK,
         JoinCancelled, OutcomeOfCurrentJob, coordinator, solver, channels, node,
         history
    <2>3. CountsErrors'
      BY <1>18, OutcomeFacts DEF IInv, CountsErrors, TypeOK, SolverErrorLimit,
         JoinCancelled, OutcomeOfCurrentJob, coordinator, solver, channels, node,
         history
    <2>. QED
      BY <2>1, <2>2, <2>3 DEF IInv
  <1>19. CASE JoinInvalid
    <2>1. TypeOK'
      <3>1. OutcomeOfCurrentJob /\ nonce' \in Nonce /\ pc' \in Pc
          BY <1>19 DEF IInv, TypeOK, Pc, JoinInvalid
      <3>. QED
          BY <3>1, OutcomeFacts, CurrentFacts
          DEF IInv, TypeOK, SolverErrorLimit, node, history
    <2>2. HoldsJob'
      BY <1>19, OutcomeFacts, JobFacts DEF IInv, HoldsJob, Working, TypeOK,
         JoinInvalid, OutcomeOfCurrentJob, coordinator, solver, channels, node,
         history
    <2>3. CountsErrors'
      BY <1>19, OutcomeFacts DEF IInv, CountsErrors, TypeOK, SolverErrorLimit,
         JoinInvalid, OutcomeOfCurrentJob, coordinator, solver, channels, node,
         history
    <2>. QED
      BY <2>1, <2>2, <2>3 DEF IInv
  <1>20. CASE JoinShare
    <2>1. TypeOK'
      <3>1. OutcomeOfCurrentJob /\ nonce' \in Nonce /\ pc' \in Pc
          BY <1>20 DEF IInv, TypeOK, Pc, JoinShare
      <3>. QED
          BY <3>1, OutcomeFacts, CurrentFacts
          DEF IInv, TypeOK, SolverErrorLimit, node, history
    <2>2. HoldsJob'
      BY <1>20, OutcomeFacts, JobFacts DEF IInv, HoldsJob, Working, TypeOK,
         JoinShare, OutcomeOfCurrentJob, coordinator, solver, channels, node,
         history
    <2>3. CountsErrors'
      BY <1>20, OutcomeFacts DEF IInv, CountsErrors, TypeOK, SolverErrorLimit,
         JoinShare, OutcomeOfCurrentJob, coordinator, solver, channels, node,
         history
    <2>. QED
      BY <2>1, <2>2, <2>3 DEF IInv
  <1>21. CASE SubmitWritten
    <2>1. TypeOK'
      BY <1>21 DEF IInv, TypeOK, Pc, SubmitWritten, NewShare, coordinator, solver,
         channels, node, history, Share, HoldsJob, Working, Job, NoJob
    <2>2. HoldsJob'
      BY <1>21, JobFacts DEF IInv, HoldsJob, Working, TypeOK, SubmitWritten,
         NewShare, coordinator, solver, channels, node, history
    <2>3. CountsErrors'
      BY <1>21 DEF IInv, CountsErrors, TypeOK, SolverErrorLimit, SubmitWritten,
         NewShare, coordinator, solver, channels, node, history
    <2>. QED
      BY <2>1, <2>2, <2>3 DEF IInv
  <1>22. CASE SubmitAnswered
    <2>1. TypeOK'
      BY <1>22, StepNonceFacts DEF IInv, TypeOK, Pc, SubmitAnswered, coordinator,
         solver, channels, node, history
    <2>2. HoldsJob'
      BY <1>22, StepNonceFacts, JobFacts DEF IInv, HoldsJob, Working, TypeOK,
         SubmitAnswered, coordinator, solver, channels, node, history
    <2>3. CountsErrors'
      BY <1>22, StepNonceFacts DEF IInv, CountsErrors, TypeOK, SolverErrorLimit,
         SubmitAnswered, coordinator, solver, channels, node, history
    <2>. QED
      BY <2>1, <2>2, <2>3 DEF IInv
  <1>23. CASE SubmitRefused
    <2>1. TypeOK'
      BY <1>23 DEF IInv, TypeOK, Pc, SubmitRefused, Fault, coordinator, solver,
         channels, node, history
    <2>2. HoldsJob'
      BY <1>23, JobFacts DEF IInv, HoldsJob, Working, TypeOK, SubmitRefused, Fault,
         coordinator, solver, channels, node, history
    <2>3. CountsErrors'
      BY <1>23 DEF IInv, CountsErrors, TypeOK, SolverErrorLimit, SubmitRefused,
         Fault, coordinator, solver, channels, node, history
    <2>. QED
      BY <2>1, <2>2, <2>3 DEF IInv
  <1>24. CASE SubmitFails
    <2>1. TypeOK'
      BY <1>24 DEF IInv, TypeOK, Pc, SubmitFails, Fault, coordinator, solver,
         channels, node, history
    <2>2. HoldsJob'
      BY <1>24, JobFacts DEF IInv, HoldsJob, Working, TypeOK, SubmitFails, Fault,
         coordinator, solver, channels, node, history
    <2>3. CountsErrors'
      BY <1>24 DEF IInv, CountsErrors, TypeOK, SolverErrorLimit, SubmitFails, Fault,
         coordinator, solver, channels, node, history
    <2>. QED
      BY <2>1, <2>2, <2>3 DEF IInv
  <1>25. CASE SolverReturns
    <2>1. TypeOK'
      BY <1>25 DEF IInv, TypeOK, Pc, SolverReturns, coordinator, solver, channels,
         node, history
    <2>2. HoldsJob'
      BY <1>25, JobFacts DEF IInv, HoldsJob, Working, TypeOK, SolverReturns,
         coordinator, solver, channels, node, history
    <2>3. CountsErrors'
      <3>1. PICK r \in Outcomes :
               /\ task' = [task EXCEPT !.result = r]
               /\ streak' = CASE r = "gpuError" -> streak + 1
                              [] r = "fatal"    -> streak
                              [] OTHER          -> 0
          BY <1>25 DEF SolverReturns
      <3>2. task'.result = r /\ r # "running"
          BY <3>1 DEF IInv, TypeOK, AllOutcomes, Proofs
      <3>3. /\ pc = "solving" /\ errors = streak /\ errors < SolverErrorLimit
            /\ pc' = pc /\ errors' = errors
          BY <1>25 DEF IInv, CountsErrors, SolverReturns, coordinator
      <3>. QED
          BY <3>1, <3>2, <3>3 DEF IInv, TypeOK, CountsErrors, SolverErrorLimit
    <2>. QED
      BY <2>1, <2>2, <2>3 DEF IInv
  <1>26. CASE ReaderDelivers
    <2>1. TypeOK'
      <3>1. wire' \in Seq(Frame) /\ Head(wire).job \in Job
          BY <1>26, FrameFacts DEF IInv, TypeOK, ReaderDelivers
      <3>2. /\ pc' \in Pc /\ reply' \in Job \union {NoJob}
            /\ watch' \in Job \union {NoJob} /\ jobUnseen' \in BOOLEAN
          BY <1>26, <3>1 DEF IInv, TypeOK, Pc, ReaderDelivers
      <3>3. UNCHANGED <<starting, job, prePow, nonce, graphs, errors, solver, connected,
                        connUnseen, tip, asked, reading, faults, history>>
          BY <1>26 DEF ReaderDelivers
      <3>. QED
          BY <3>1, <3>2, <3>3 DEF IInv, TypeOK, solver, history
    <2>2. HoldsJob'
      BY <1>26, FrameFacts, JobFacts DEF IInv, HoldsJob, Working, TypeOK,
         ReaderDelivers, coordinator, solver, channels, node, history
    <2>3. CountsErrors'
      BY <1>26, FrameFacts, JobFacts DEF IInv, CountsErrors, TypeOK,
         SolverErrorLimit, ReaderDelivers, coordinator, solver, channels, node,
         history
    <2>. QED
      BY <2>1, <2>2, <2>3 DEF IInv
  <1>27. CASE ConnectionLost
    <2>1. TypeOK'
      <3>1. faults' \in 0..MaxFaults
          BY <1>27 DEF IInv, TypeOK, ConnectionLost, Fault
      <3>2. /\ reading' \in BOOLEAN /\ connected' \in BOOLEAN
            /\ connUnseen' \in BOOLEAN /\ asked' \in BOOLEAN
          BY <1>27, Zenon DEF ConnectionLost
      <3>3. wire' \in Seq(Frame)
          BY <1>27 DEF ConnectionLost
      <3>4. UNCHANGED <<coordinator, solver, watch, jobUnseen, tip, history>>
          BY <1>27 DEF ConnectionLost
      <3>. QED
          BY <3>1, <3>2, <3>3, <3>4 DEF IInv, TypeOK, coordinator, solver, history
    <2>2. HoldsJob'
      BY <1>27, FrameFacts, JobFacts DEF IInv, HoldsJob, Working, TypeOK,
         ConnectionLost, Fault, coordinator, solver, channels, node, history
    <2>3. CountsErrors'
      BY <1>27, FrameFacts DEF IInv, CountsErrors, TypeOK, SolverErrorLimit,
         ConnectionLost, Fault, coordinator, solver, channels, node, history
    <2>. QED
      BY <2>1, <2>2, <2>3 DEF IInv
  <1>28. CASE NodeAdvances
    <2>1. TypeOK'
      <3>1. tip' \in Job
          BY <1>28 DEF IInv, TypeOK, NodeAdvances, Job
      <3>2. wire' \in Seq(Frame)
        <4>1. [kind |-> "job", job |-> tip'] \in Frame
            BY <3>1 DEF Frame
        <4>. QED
            BY <1>28, <4>1 DEF IInv, TypeOK, NodeAdvances
      <3>3. UNCHANGED <<coordinator, solver, channels, asked, reading, faults, history>>
          BY <1>28 DEF NodeAdvances
      <3>. QED
          BY <3>1, <3>2, <3>3 DEF IInv, TypeOK, coordinator, solver, channels, history
    <2>2. HoldsJob'
      BY <1>28, FrameFacts, JobFacts DEF IInv, HoldsJob, Working, TypeOK,
         NodeAdvances, coordinator, solver, channels, node, history
    <2>3. CountsErrors'
      BY <1>28, FrameFacts, JobFacts DEF IInv, CountsErrors, TypeOK,
         SolverErrorLimit, NodeAdvances, coordinator, solver, channels, node,
         history
    <2>. QED
      BY <2>1, <2>2, <2>3 DEF IInv
  <1>29. CASE NodeAnswers
    <2>1. TypeOK'
      <3>1. asked' \in BOOLEAN
          BY <1>29, Zenon DEF NodeAnswers
      <3>2. wire' \in Seq(Frame)
        <4>1. [kind |-> "template", job |-> tip] \in Frame
            BY DEF IInv, TypeOK, Frame
        <4>. QED
            BY <1>29, <4>1 DEF IInv, TypeOK, NodeAnswers
      <3>3. UNCHANGED <<coordinator, solver, channels, tip, reading, faults, history>>
          BY <1>29 DEF NodeAnswers
      <3>. QED
          BY <3>1, <3>2, <3>3 DEF IInv, TypeOK, coordinator, solver, channels, history
    <2>2. HoldsJob'
      BY <1>29, FrameFacts, JobFacts DEF IInv, HoldsJob, Working, TypeOK,
         NodeAnswers, coordinator, solver, channels, node, history
    <2>3. CountsErrors'
      BY <1>29, FrameFacts DEF IInv, CountsErrors, TypeOK, SolverErrorLimit,
         NodeAnswers, coordinator, solver, channels, node, history
    <2>. QED
      BY <2>1, <2>2, <2>3 DEF IInv
  <1>30. CASE UNCHANGED vars
      BY <1>30 DEF IInv, TypeOK, HoldsJob, CountsErrors, vars, coordinator, solver,
         channels, node, history
  <1>. QED
      BY <1>1, <1>2, <1>3, <1>4, <1>5, <1>6, <1>7, <1>8, <1>9, <1>10, <1>11, <1>12,
         <1>13, <1>14, <1>15, <1>16, <1>17, <1>18, <1>19, <1>20, <1>21, <1>22,
         <1>23, <1>24, <1>25, <1>26, <1>27, <1>28, <1>29, <1>30 DEF Next,
         Coordinator, Environment, Terminated

\* Every variable keeps to its type, for every number of templates, faults and
\* nonces: in particular a share is only built from a template that is held.
THEOREM TypeCorrect == Spec => []TypeOK
  <1>1. IInv => TypeOK
      BY DEF IInv
  <1>. QED
      BY <1>1, InitIInv, NextIInv, PTL DEF Spec

\* The counter that stops the loop at three is the number of GPU errors since
\* the last outcome, whatever reconnects and job switches happened in between.
THEOREM CountsErrorsInARow == Spec => []ErrorsAreConsecutive
  <1>1. IInv => ErrorsAreConsecutive
      BY DEF IInv, CountsErrors, ErrorsAreConsecutive
  <1>. QED
      BY <1>1, InitIInv, NextIInv, PTL DEF Spec

-----------------------------------------------------------------------------
(* Shares *)

\* Nothing but the write of a share adds to the shares.
LEMMA OnlySubmitSends ==
    ASSUME [Next]_vars
    PROVE  SubmitWritten \/ UNCHANGED sent
  BY DEF Next, Coordinator, Environment, Terminated, vars, coordinator, solver,
     channels, node, history, OutcomeOfCurrentJob, GetJobFails, PeekPushed,
     PeekResponse, StoreResponse, FirstJob, ReconnectFails, Reconnected, StartSolve,
     GraphsDone, NoticeJob, NoticeConnection, JoinGpuError, Recovered, JoinFatal,
     JoinDisconnected, JoinStale, JoinNoShare, JoinCancelled, JoinInvalid,
     JoinShare, SubmitAnswered, SubmitRefused, SubmitFails, SolverReturns,
     ReaderDelivers, ConnectionLost, NodeAdvances, NodeAnswers

\* No share is ever sent whose proof was found on another header, or at another
\* nonce, than those it names: the three are kept apart in mine().
THEOREM SharesAreSound == Spec => []SharesMatchTheirProof
  <1>1. Init => SharesMatchTheirProof
      BY DEF Init, SharesMatchTheirProof
  <1>2. IInv /\ SharesMatchTheirProof /\ [Next]_vars => SharesMatchTheirProof'
    <2> SUFFICES ASSUME IInv, SharesMatchTheirProof, [Next]_vars
                 PROVE  SharesMatchTheirProof'
        OBVIOUS
    <2>1. CASE SubmitWritten
        BY <2>1 DEF SubmitWritten, NewShare, SharesMatchTheirProof, IInv, HoldsJob, Working
    <2>2. CASE UNCHANGED sent
        BY <2>2 DEF SharesMatchTheirProof
    <2>. QED
        BY <2>1, <2>2, OnlySubmitSends
  <1>. QED
      BY <1>1, <1>2, InitIInv, NextIInv, PTL DEF Spec

-----------------------------------------------------------------------------
(* Nonces *)

\* No nonce of a template is passed over: when the loop is at a nonce, each one
\* below it got a verdict since the template was adopted.  The inductive form
\* adds that the nonce in hand has its verdict wherever the loop steps past it.
THEOREM NoncesInOrder == Spec => []NoNonceSkipped
  <1>1. Init => HasVerdict /\ NoNonceSkipped
      BY MineLoopAssumption DEF Init, HasVerdict, NoNonceSkipped
  <1>2. IInv /\ HasVerdict /\ NoNonceSkipped /\ [Next]_vars
            => HasVerdict' /\ NoNonceSkipped'
    <2> SUFFICES ASSUME IInv, HasVerdict, NoNonceSkipped, [Next]_vars
                 PROVE  HasVerdict' /\ NoNonceSkipped'
        OBVIOUS
    <2> USE MineLoopAssumption
    <2>1. CASE GetJobFails
        BY <2>1 DEF IInv, TypeOK, Nonce, HoldsJob, HasVerdict, NoNonceSkipped,
         Working, GetJobFails, Fault, coordinator, solver, channels, node, history
    <2>2. CASE PeekPushed
        BY <2>2 DEF IInv, TypeOK, Nonce, HoldsJob, HasVerdict, NoNonceSkipped,
         Working, PeekPushed, JobArrives, Adopt, coordinator, solver, channels,
         node, history
    <2>3. CASE PeekResponse
        BY <2>3 DEF IInv, TypeOK, Nonce, HoldsJob, HasVerdict, NoNonceSkipped,
         Working, PeekResponse, coordinator, solver, channels, node, history
    <2>4. CASE StoreResponse
        BY <2>4 DEF IInv, TypeOK, Nonce, HoldsJob, HasVerdict, NoNonceSkipped,
         Working, StoreResponse, JobArrives, Adopt, coordinator, solver, channels,
         node, history
    <2>5. CASE FirstJob
        BY <2>5 DEF IInv, TypeOK, Nonce, HoldsJob, HasVerdict, NoNonceSkipped,
         Working, FirstJob, Adopt, coordinator, solver, channels, node, history
    <2>6. CASE ReconnectFails
        BY <2>6 DEF IInv, TypeOK, Nonce, HoldsJob, HasVerdict, NoNonceSkipped,
         Working, ReconnectFails, coordinator, solver, channels, node, history
    <2>7. CASE Reconnected
        BY <2>7 DEF IInv, TypeOK, Nonce, HoldsJob, HasVerdict, NoNonceSkipped,
         Working, Reconnected, RequestJob, coordinator, solver, channels, node,
         history
    <2>8. CASE StartSolve
        BY <2>8 DEF IInv, TypeOK, Nonce, HoldsJob, HasVerdict, NoNonceSkipped,
         Working, StartSolve, coordinator, solver, channels, node, history
    <2>9. CASE GraphsDone
        BY <2>9 DEF IInv, TypeOK, Nonce, HoldsJob, HasVerdict, NoNonceSkipped,
         Working, GraphsDone, coordinator, solver, channels, node, history
    <2>10. CASE NoticeJob
        BY <2>10 DEF IInv, TypeOK, Nonce, HoldsJob, HasVerdict, NoNonceSkipped,
         Working, NoticeJob, coordinator, solver, channels, node, history
    <2>11. CASE NoticeConnection
        BY <2>11 DEF IInv, TypeOK, Nonce, HoldsJob, HasVerdict, NoNonceSkipped,
         Working, NoticeConnection, coordinator, solver, channels, node, history
    <2>12. CASE JoinGpuError
        BY <2>12 DEF IInv, TypeOK, Nonce, HoldsJob, HasVerdict, NoNonceSkipped,
         Working, JoinGpuError, Joined, coordinator, solver, channels, node, history
    <2>13. CASE Recovered
        BY <2>13 DEF IInv, TypeOK, Nonce, HoldsJob, HasVerdict, NoNonceSkipped,
         Working, Recovered, StepNonce, coordinator, solver, channels, node, history
    <2>14. CASE JoinFatal
        BY <2>14 DEF IInv, TypeOK, Nonce, HoldsJob, HasVerdict, NoNonceSkipped,
         Working, JoinFatal, Joined, coordinator, solver, channels, node, history
    <2>15. CASE JoinDisconnected
        BY <2>15 DEF IInv, TypeOK, Nonce, HoldsJob, HasVerdict, NoNonceSkipped,
         Working, JoinDisconnected, Outcome, Joined, coordinator, solver, channels,
         node, history
    <2>16. CASE JoinStale
        BY <2>16 DEF IInv, TypeOK, Nonce, HoldsJob, HasVerdict, NoNonceSkipped,
         Working, JoinStale, Outcome, Joined, Adopt, coordinator, solver, channels,
         node, history
    <2>17. CASE JoinNoShare
        BY <2>17 DEF IInv, TypeOK, Nonce, HoldsJob, HasVerdict, NoNonceSkipped,
         Working, JoinNoShare, OutcomeOfCurrentJob, Outcome, Joined, StepNonce,
         coordinator, solver, channels, node, history
    <2>18. CASE JoinCancelled
        BY <2>18 DEF IInv, TypeOK, Nonce, HoldsJob, HasVerdict, NoNonceSkipped,
         Working, JoinCancelled, OutcomeOfCurrentJob, Outcome, Joined, coordinator,
         solver, channels, node, history
    <2>19. CASE JoinInvalid
        BY <2>19 DEF IInv, TypeOK, Nonce, HoldsJob, HasVerdict, NoNonceSkipped,
         Working, JoinInvalid, OutcomeOfCurrentJob, Outcome, Joined, coordinator,
         solver, channels, node, history
    <2>20. CASE JoinShare
        BY <2>20 DEF IInv, TypeOK, Nonce, HoldsJob, HasVerdict, NoNonceSkipped,
         Working, JoinShare, OutcomeOfCurrentJob, Outcome, Joined, coordinator,
         solver, channels, node, history
    <2>21. CASE SubmitWritten
        BY <2>21 DEF IInv, TypeOK, Nonce, HoldsJob, HasVerdict, NoNonceSkipped,
         Working, SubmitWritten, coordinator, solver, channels, node, history
    <2>22. CASE SubmitAnswered
        BY <2>22 DEF IInv, TypeOK, Nonce, HoldsJob, HasVerdict, NoNonceSkipped,
         Working, SubmitAnswered, StepNonce, coordinator, solver, channels, node,
         history
    <2>23. CASE SubmitRefused
        BY <2>23 DEF IInv, TypeOK, Nonce, HoldsJob, HasVerdict, NoNonceSkipped,
         Working, SubmitRefused, coordinator, solver, channels, node, history
    <2>24. CASE SubmitFails
        BY <2>24 DEF IInv, TypeOK, Nonce, HoldsJob, HasVerdict, NoNonceSkipped,
         Working, SubmitFails, coordinator, solver, channels, node, history
    <2>25. CASE SolverReturns
        BY <2>25 DEF IInv, TypeOK, Nonce, HoldsJob, HasVerdict, NoNonceSkipped,
         Working, SolverReturns, coordinator, solver, channels, node, history
    <2>26. CASE ReaderDelivers
        BY <2>26 DEF IInv, TypeOK, Nonce, HoldsJob, HasVerdict, NoNonceSkipped,
         Working, ReaderDelivers, coordinator, solver, channels, node, history
    <2>27. CASE ConnectionLost
        BY <2>27 DEF IInv, TypeOK, Nonce, HoldsJob, HasVerdict, NoNonceSkipped,
         Working, ConnectionLost, coordinator, solver, channels, node, history
    <2>28. CASE NodeAdvances
        BY <2>28 DEF IInv, TypeOK, Nonce, HoldsJob, HasVerdict, NoNonceSkipped,
         Working, NodeAdvances, coordinator, solver, channels, node, history
    <2>29. CASE NodeAnswers
        BY <2>29 DEF IInv, TypeOK, Nonce, HoldsJob, HasVerdict, NoNonceSkipped,
         Working, NodeAnswers, coordinator, solver, channels, node, history
    <2>30. CASE UNCHANGED vars
        BY <2>30 DEF IInv, TypeOK, Nonce, HoldsJob, HasVerdict, NoNonceSkipped,
         Working, vars, coordinator, solver, channels, node, history
    <2>. QED
        BY <2>1, <2>2, <2>3, <2>4, <2>5, <2>6, <2>7, <2>8, <2>9, <2>10, <2>11, <2>12,
         <2>13, <2>14, <2>15, <2>16, <2>17, <2>18, <2>19, <2>20, <2>21, <2>22,
         <2>23, <2>24, <2>25, <2>26, <2>27, <2>28, <2>29, <2>30 DEF Next,
         Coordinator, Environment, Terminated
  <1>. QED
      BY <1>1, <1>2, InitIInv, NextIInv, PTL DEF Spec

-----------------------------------------------------------------------------
(* Wake-ups *)

\* Without GPU errors no wake-up is lost: a solve on a superseded height, or on
\* a lost connection, has its flag set or the change still to be noticed.  (With
\* them one is, see SwitchesOnNewHeight.)
NoGpuError == task.result # "gpuError" /\ pc # "recover"

WInv == NoGpuError /\ NoticesJob /\ NoticesConnection

LEMMA InitWInv == Init => WInv
  BY DEF Init, WInv, NoGpuError, NoticesJob, NoticesConnection, Working

LEMMA NextWInv ==
    ASSUME "gpuError" \notin Outcomes
    PROVE  IInv /\ WInv /\ [Next]_vars => WInv'
  <1> SUFFICES ASSUME IInv, WInv, [Next]_vars PROVE WInv'
      OBVIOUS
  <1>1. CASE GetJobFails
      BY <1>1 DEF IInv, TypeOK, WInv, NoGpuError, NoticesJob, NoticesConnection,
         Working, Stale, GetJobFails, Fault, coordinator, solver, channels, node,
         history
  <1>2. CASE PeekPushed
      BY <1>2 DEF IInv, TypeOK, WInv, NoGpuError, NoticesJob, NoticesConnection,
         Working, Stale, PeekPushed, JobArrives, Adopt, coordinator, solver,
         channels, node, history
  <1>3. CASE PeekResponse
      BY <1>3 DEF IInv, TypeOK, WInv, NoGpuError, NoticesJob, NoticesConnection,
         Working, Stale, PeekResponse, coordinator, solver, channels, node, history
  <1>4. CASE StoreResponse
      BY <1>4 DEF IInv, TypeOK, WInv, NoGpuError, NoticesJob, NoticesConnection,
         Working, Stale, StoreResponse, JobArrives, Adopt, coordinator, solver,
         channels, node, history
  <1>5. CASE FirstJob
      BY <1>5 DEF IInv, TypeOK, WInv, NoGpuError, NoticesJob, NoticesConnection,
         Working, Stale, FirstJob, Adopt, coordinator, solver, channels, node,
         history
  <1>6. CASE ReconnectFails
      BY <1>6 DEF IInv, TypeOK, WInv, NoGpuError, NoticesJob, NoticesConnection,
         Working, Stale, ReconnectFails, coordinator, solver, channels, node,
         history
  <1>7. CASE Reconnected
      BY <1>7 DEF IInv, TypeOK, WInv, NoGpuError, NoticesJob, NoticesConnection,
         Working, Stale, Reconnected, RequestJob, coordinator, solver, channels,
         node, history
  <1>8. CASE StartSolve
      BY <1>8 DEF IInv, TypeOK, WInv, NoGpuError, NoticesJob, NoticesConnection,
         Working, Stale, StartSolve, coordinator, solver, channels, node, history
  <1>9. CASE GraphsDone
      BY <1>9 DEF IInv, TypeOK, WInv, NoGpuError, NoticesJob, NoticesConnection,
         Working, Stale, GraphsDone, coordinator, solver, channels, node, history
  <1>10. CASE NoticeJob
      BY <1>10 DEF IInv, TypeOK, WInv, NoGpuError, NoticesJob, NoticesConnection,
         Working, Stale, NoticeJob, coordinator, solver, channels, node, history
  <1>11. CASE NoticeConnection
      BY <1>11 DEF IInv, TypeOK, WInv, NoGpuError, NoticesJob, NoticesConnection,
         Working, Stale, NoticeConnection, coordinator, solver, channels, node,
         history
  <1>12. CASE JoinGpuError
      BY <1>12 DEF IInv, TypeOK, WInv, NoGpuError, NoticesJob, NoticesConnection,
         Working, Stale, JoinGpuError, Joined, coordinator, solver, channels, node,
         history
  <1>13. CASE Recovered
      BY <1>13 DEF IInv, TypeOK, WInv, NoGpuError, NoticesJob, NoticesConnection,
         Working, Stale, Recovered, StepNonce, coordinator, solver, channels, node,
         history
  <1>14. CASE JoinFatal
      BY <1>14 DEF IInv, TypeOK, WInv, NoGpuError, NoticesJob, NoticesConnection,
         Working, Stale, JoinFatal, Joined, coordinator, solver, channels, node,
         history
  <1>15. CASE JoinDisconnected
      BY <1>15 DEF IInv, TypeOK, WInv, NoGpuError, NoticesJob, NoticesConnection,
         Working, Stale, JoinDisconnected, Outcome, Joined, coordinator, solver,
         channels, node, history
  <1>16. CASE JoinStale
      BY <1>16 DEF IInv, TypeOK, WInv, NoGpuError, NoticesJob, NoticesConnection,
         Working, Stale, JoinStale, Outcome, Joined, Adopt, coordinator, solver,
         channels, node, history
  <1>17. CASE JoinNoShare
      BY <1>17 DEF IInv, TypeOK, WInv, NoGpuError, NoticesJob, NoticesConnection,
         Working, Stale, JoinNoShare, OutcomeOfCurrentJob, Outcome, Joined,
         StepNonce, coordinator, solver, channels, node, history
  <1>18. CASE JoinCancelled
      BY <1>18 DEF IInv, TypeOK, WInv, NoGpuError, NoticesJob, NoticesConnection,
         Working, Stale, JoinCancelled, OutcomeOfCurrentJob, Outcome, Joined,
         coordinator, solver, channels, node, history
  <1>19. CASE JoinInvalid
      BY <1>19 DEF IInv, TypeOK, WInv, NoGpuError, NoticesJob, NoticesConnection,
         Working, Stale, JoinInvalid, OutcomeOfCurrentJob, Outcome, Joined,
         coordinator, solver, channels, node, history
  <1>20. CASE JoinShare
      BY <1>20 DEF IInv, TypeOK, WInv, NoGpuError, NoticesJob, NoticesConnection,
         Working, Stale, JoinShare, OutcomeOfCurrentJob, Outcome, Joined,
         coordinator, solver, channels, node, history
  <1>21. CASE SubmitWritten
      BY <1>21 DEF IInv, TypeOK, WInv, NoGpuError, NoticesJob, NoticesConnection,
         Working, Stale, SubmitWritten, coordinator, solver, channels, node, history
  <1>22. CASE SubmitAnswered
      BY <1>22 DEF IInv, TypeOK, WInv, NoGpuError, NoticesJob, NoticesConnection,
         Working, Stale, SubmitAnswered, StepNonce, coordinator, solver, channels,
         node, history
  <1>23. CASE SubmitRefused
      BY <1>23 DEF IInv, TypeOK, WInv, NoGpuError, NoticesJob, NoticesConnection,
         Working, Stale, SubmitRefused, coordinator, solver, channels, node, history
  <1>24. CASE SubmitFails
      BY <1>24 DEF IInv, TypeOK, WInv, NoGpuError, NoticesJob, NoticesConnection,
         Working, Stale, SubmitFails, coordinator, solver, channels, node, history
  <1>25. CASE SolverReturns
      BY <1>25 DEF IInv, TypeOK, WInv, NoGpuError, NoticesJob, NoticesConnection,
         Working, Stale, SolverReturns, coordinator, solver, channels, node, history
  <1>26. CASE ReaderDelivers
      BY <1>26 DEF IInv, TypeOK, WInv, NoGpuError, NoticesJob, NoticesConnection,
         Working, Stale, ReaderDelivers, coordinator, solver, channels, node,
         history
  <1>27. CASE ConnectionLost
      BY <1>27 DEF IInv, TypeOK, WInv, NoGpuError, NoticesJob, NoticesConnection,
         Working, Stale, ConnectionLost, coordinator, solver, channels, node,
         history
  <1>28. CASE NodeAdvances
      BY <1>28 DEF IInv, TypeOK, WInv, NoGpuError, NoticesJob, NoticesConnection,
         Working, Stale, NodeAdvances, coordinator, solver, channels, node, history
  <1>29. CASE NodeAnswers
      BY <1>29 DEF IInv, TypeOK, WInv, NoGpuError, NoticesJob, NoticesConnection,
         Working, Stale, NodeAnswers, coordinator, solver, channels, node, history
  <1>30. CASE UNCHANGED vars
      BY <1>30 DEF WInv, NoGpuError, NoticesJob, NoticesConnection, Working, Stale,
         vars, coordinator, solver, channels, node, history
  <1>. QED
      BY <1>1, <1>2, <1>3, <1>4, <1>5, <1>6, <1>7, <1>8, <1>9, <1>10, <1>11, <1>12,
       <1>13, <1>14, <1>15, <1>16, <1>17, <1>18, <1>19, <1>20, <1>21, <1>22,
       <1>23, <1>24, <1>25, <1>26, <1>27, <1>28, <1>29, <1>30 DEF Next,
         Coordinator, Environment, Terminated

\* Whatever the interleaving of pushes, selects and joins, a superseded solve
\* has been told to stop or is about to be.
THEOREM SupersededSolvesStop ==
    ASSUME "gpuError" \notin Outcomes
    PROVE  Spec => []StaleSolveIsCancelled
  <1>1. WInv => StaleSolveIsCancelled
      BY DEF WInv, NoticesJob, Working, StaleSolveIsCancelled
  <1>. QED
      BY <1>1, InitIInv, NextIInv, InitWInv, NextWInv, PTL DEF Spec

\* So has a solve whose connection was lost, unless FirstJob marked that seen.
THEOREM OrphanedSolvesStop ==
    ASSUME "gpuError" \notin Outcomes
    PROVE  Spec => []OrphanedSolveIsCancelled
  <1>1. WInv => OrphanedSolveIsCancelled
      BY DEF WInv, NoticesConnection, Working, OrphanedSolveIsCancelled
  <1>. QED
      BY <1>1, InitIInv, NextIInv, InitWInv, NextWInv, PTL DEF Spec

-----------------------------------------------------------------------------
(* The contract *)

LEMMA InitContract == Init => Contract!Init
  BY MineLoopAssumption DEF Init, Contract!Init, Phase

\* Where mine() takes a template, the contract adopts it: it is not awaiting an
\* answer then.
LEMMA AdoptKeepsContract ==
    ASSUME NEW j \in Job, Adopt(j), Phase # "sent", Phase' = "open", UNCHANGED sent
    PROVE  Contract!Adopt
  BY JobFacts DEF Adopt, Contract!Adopt, Phase

\* Where it steps past a nonce, the contract advances, or is suspended at the
\* last one, where mine() fails.
LEMMA StepKeepsContract ==
    ASSUME ~Saturate, nonce \in Nonce, StepNonce, Phase \in {"open", "sent"},
           UNCHANGED <<prePow, sent>>
    PROVE  Contract!Advance \/ Contract!Suspend
  BY MineLoopAssumption DEF StepNonce, Nonce, Phase, Contract!Advance, Contract!Suspend

\* Everything else is no step of the contract, or suspends it.
LEMMA RestKeepsContract ==
    ASSUME UNCHANGED <<prePow, nonce, sent>>, Phase' \in {Phase, "suspended"}
    PROVE  Contract!Suspend \/ UNCHANGED Contract!cvars
  BY DEF Contract!Suspend, Contract!cvars, Phase

LEMMA SendKeepsContract ==
    ASSUME IInv, SubmitWritten
    PROVE  Contract!Send
  <1>1. NewShare.id = prePow /\ NewShare.header = prePow
        /\ NewShare.nonce = nonce /\ NewShare.solved = nonce
      BY DEF NewShare, IInv, HoldsJob, Working, SubmitWritten
  <1>2. {OnTheWire(x) : x \in sent'} = {OnTheWire(x) : x \in sent} \union {OnTheWire(NewShare)}
      BY DEF SubmitWritten
  <1>3. Phase = "open" /\ Phase' = "sent"
      BY DEF SubmitWritten, Phase
  <1>. QED
      BY <1>1, <1>2, <1>3 DEF SubmitWritten, Contract!Send, OnTheWire

LEMMA NextContract ==
    ASSUME ~Saturate
    PROVE  IInv /\ [Next]_vars => [Contract!Next]_(Contract!cvars)
  <1> SUFFICES ASSUME IInv, [Next]_vars PROVE Contract!Next \/ UNCHANGED Contract!cvars
      BY DEF Contract!cvars
  <1>1. CASE SubmitWritten
      BY <1>1, SendKeepsContract DEF Contract!Next
  <1>2. CASE PeekPushed
    <2>1. watch \in Job
        BY <1>2, JobFacts DEF PeekPushed, IInv, TypeOK, HoldsJob
    <2>2. CASE starting
      <3>1. UNCHANGED <<prePow, nonce, sent>> /\ Phase' = Phase
          BY <1>2, <2>2 DEF PeekPushed, JobArrives, Phase
      <3>. QED
          BY <3>1, RestKeepsContract DEF Contract!Next
    <2>3. CASE ~starting
      <3>1. Adopt(watch) /\ Phase # "sent" /\ Phase' = "open" /\ UNCHANGED sent
          BY <1>2, <2>3 DEF PeekPushed, JobArrives, Phase
      <3>. QED
          BY <2>1, <3>1, AdoptKeepsContract DEF Contract!Next
    <2>. QED
        BY <2>2, <2>3
  <1>3. CASE StoreResponse
    <2>1. reply \in Job
        BY <1>3, JobFacts DEF StoreResponse, IInv, TypeOK, HoldsJob
    <2>2. CASE starting
      <3>1. UNCHANGED <<prePow, nonce, sent>> /\ Phase' = Phase
          BY <1>3, <2>2 DEF StoreResponse, JobArrives, Phase
      <3>. QED
          BY <3>1, RestKeepsContract DEF Contract!Next
    <2>3. CASE ~starting
      <3>1. Adopt(reply) /\ Phase # "sent" /\ Phase' = "open" /\ UNCHANGED sent
          BY <1>3, <2>3 DEF StoreResponse, JobArrives, Phase
      <3>. QED
          BY <2>1, <3>1, AdoptKeepsContract DEF Contract!Next
    <2>. QED
        BY <2>2, <2>3
  <1>4. CASE FirstJob
    <2> DEFINE first == IF Stale(job, watch) THEN watch ELSE job
    <2>1. first \in Job
        BY <1>4 DEF FirstJob, IInv, TypeOK, HoldsJob, Stale
    <2>2. Adopt(first) /\ Phase # "sent" /\ Phase' = "open" /\ UNCHANGED sent
        BY <1>4 DEF FirstJob, Phase
    <2>. QED
        BY <2>1, <2>2, AdoptKeepsContract DEF Contract!Next
  <1>5. CASE JoinStale
    <2>1. watch \in Job
        BY <1>5 DEF JoinStale, IInv, TypeOK, Stale
    <2>2. Adopt(watch) /\ Phase # "sent" /\ Phase' = "open" /\ UNCHANGED sent
        BY <1>5 DEF JoinStale, Phase, Outcome, Joined
    <2>. QED
        BY <2>1, <2>2, AdoptKeepsContract DEF Contract!Next
  <1>6. CASE JoinNoShare
    <2>1. StepNonce /\ Phase \in {"open", "sent"} /\ UNCHANGED <<prePow, sent>>
        BY <1>6 DEF JoinNoShare, OutcomeOfCurrentJob, Outcome, Joined, history, Phase
    <2>. QED
        BY <2>1, StepKeepsContract DEF IInv, TypeOK, Contract!Next
  <1>7. CASE Recovered
    <2>1. Phase \in {"open", "sent"} /\ UNCHANGED <<prePow, sent>>
        BY <1>7 DEF Recovered, history, Phase
    <2>2. CASE StepNonce
        BY <2>1, <2>2, StepKeepsContract DEF IInv, TypeOK, Contract!Next
    <2>3. CASE pc' = "failed" /\ UNCHANGED nonce
      <3>1. UNCHANGED <<prePow, nonce, sent>> /\ Phase' = "suspended"
          BY <2>1, <2>3 DEF Phase
      <3>. QED
          BY <3>1, RestKeepsContract DEF Contract!Next
    <2>. QED
        BY <1>7, <2>2, <2>3 DEF Recovered
  <1>8. CASE SubmitAnswered
    <2>1. StepNonce /\ Phase \in {"open", "sent"} /\ UNCHANGED <<prePow, sent>>
        BY <1>8 DEF SubmitAnswered, history, Phase
    <2>. QED
        BY <2>1, StepKeepsContract DEF IInv, TypeOK, Contract!Next
  <1>9. ASSUME UNCHANGED <<prePow, nonce, sent>>, Phase' \in {Phase, "suspended"}
        PROVE  Contract!Next \/ UNCHANGED Contract!cvars
      BY <1>9, RestKeepsContract DEF Contract!Next
  <1>10. CASE GetJobFails
      BY <1>10, <1>9 DEF GetJobFails, Fault, coordinator, solver, channels, node,
         history, Phase
  <1>11. CASE PeekResponse
      BY <1>11, <1>9 DEF PeekResponse, coordinator, solver, channels, node, history,
         Phase
  <1>12. CASE ReconnectFails
      BY <1>12, <1>9 DEF ReconnectFails, coordinator, solver, channels, node,
         history, Phase
  <1>13. CASE Reconnected
      BY <1>13, <1>9 DEF Reconnected, RequestJob, coordinator, solver, channels,
         node, history, Phase
  <1>14. CASE StartSolve
      BY <1>14, <1>9 DEF StartSolve, coordinator, solver, channels, node, history,
         Phase
  <1>15. CASE GraphsDone
      BY <1>15, <1>9 DEF GraphsDone, coordinator, solver, channels, node, history,
         Phase
  <1>16. CASE NoticeJob
      BY <1>16, <1>9 DEF NoticeJob, coordinator, solver, channels, node, history,
         Phase
  <1>17. CASE NoticeConnection
      BY <1>17, <1>9 DEF NoticeConnection, coordinator, solver, channels, node,
         history, Phase
  <1>18. CASE JoinGpuError
      BY <1>18, <1>9 DEF JoinGpuError, Joined, coordinator, solver, channels, node,
         history, Phase
  <1>19. CASE JoinFatal
      BY <1>19, <1>9 DEF JoinFatal, Joined, coordinator, solver, channels, node,
         history, Phase
  <1>20. CASE JoinDisconnected
      BY <1>20, <1>9 DEF JoinDisconnected, Outcome, Joined, coordinator, solver,
         channels, node, history, Phase
  <1>21. CASE JoinCancelled
      BY <1>21, <1>9 DEF JoinCancelled, OutcomeOfCurrentJob, Outcome, Joined,
         coordinator, solver, channels, node, history, Phase
  <1>22. CASE JoinInvalid
      BY <1>22, <1>9 DEF JoinInvalid, OutcomeOfCurrentJob, Outcome, Joined,
         coordinator, solver, channels, node, history, Phase
  <1>23. CASE JoinShare
      BY <1>23, <1>9 DEF JoinShare, OutcomeOfCurrentJob, Outcome, Joined,
         coordinator, solver, channels, node, history, Phase
  <1>24. CASE SubmitRefused
      BY <1>24, <1>9 DEF SubmitRefused, coordinator, solver, channels, node,
         history, Phase
  <1>25. CASE SubmitFails
      BY <1>25, <1>9 DEF SubmitFails, coordinator, solver, channels, node, history,
         Phase
  <1>26. CASE SolverReturns
      BY <1>26, <1>9 DEF SolverReturns, coordinator, solver, channels, node,
         history, Phase
  <1>27. CASE ReaderDelivers
      BY <1>27, <1>9 DEF ReaderDelivers, coordinator, solver, channels, node,
         history, Phase
  <1>28. CASE ConnectionLost
      BY <1>28, <1>9 DEF ConnectionLost, coordinator, solver, channels, node,
         history, Phase
  <1>29. CASE NodeAdvances
      BY <1>29, <1>9 DEF NodeAdvances, coordinator, solver, channels, node, history,
         Phase
  <1>30. CASE NodeAnswers
      BY <1>30, <1>9 DEF NodeAnswers, coordinator, solver, channels, node, history,
         Phase
  <1>31. CASE UNCHANGED vars
      BY <1>31, <1>9 DEF vars, coordinator, solver, channels, node, history, Phase
  <1>. QED
      BY <1>1, <1>2, <1>3, <1>4, <1>5, <1>6, <1>7, <1>8, <1>9, <1>10, <1>11, <1>12,
         <1>13, <1>14, <1>15, <1>16, <1>17, <1>18, <1>19, <1>20, <1>21, <1>22,
         <1>23, <1>24, <1>25, <1>26, <1>27, <1>28, <1>29, <1>30, <1>31 DEF Next,
         Coordinator, Environment, Terminated

\* mine() implements the contract: one template at a time, its nonces from the
\* first without gaps, at most one share for a nonce, a sound one.  (The bound
\* Saturate, which folds the nonces from NonceMax up, is the model's own.)
THEOREM ImplementsContract ==
    ASSUME ~Saturate
    PROVE  Spec => KeepsContract
  BY InitIInv, NextIInv, InitContract, NextContract, PTL
     DEF Spec, KeepsContract, Contract!Spec
-----------------------------------------------------------------------------
(* A share is written once: what a connection delivers only moves forward *)

\* Pushes are newer than what they follow on the wire, than the job channel and
\* than the response in hand; nothing is newer than the node.
PushesAreNewer ==
    /\ watch.id <= tip.id /\ reply.id <= tip.id
    /\ \A i \in 1..Len(wire) :
          /\ wire[i].job.id <= tip.id
          /\ wire[i].kind = "job" =>
                /\ watch.id < wire[i].job.id
                /\ pc \in {"peek", "store"} => reply.id < wire[i].job.id
                /\ \A k \in 1..(i - 1) : wire[k].job.id < wire[i].job.id

\* So the loop never holds a job newer than the channel's.
JobNotAhead ==
    pc \in Working \union {"adopt"} => job = watch \/ job.id < watch.id

\* The shares of this connection: none before its get_job has returned, and
\* from then on they are behind the template and nonce in hand.
SentIsBehind ==
    \A s \in sent :
        /\ s.session <= session
        /\ s.session = session =>
              /\ pc \notin {"getJob", "peek", "store", "adopt"}
              /\ pc \in Working =>
                    \/ s.id < job.id
                    \/ s.id = job.id /\ s.nonce < nonce
                    \/ s.id = job.id /\ s.nonce = nonce /\ pc = "awaiting"

OInv == PushesAreNewer /\ JobNotAhead /\ SentIsBehind

LEMMA InitOInv == Init => OInv
  BY DEF Init, OInv, PushesAreNewer, JobNotAhead, SentIsBehind, Working, NoJob

\* The ids and nonces that are compared are numbers.
LEMMA IdFacts ==
    ASSUME TypeOK
    PROVE  /\ job.id \in Nat /\ watch.id \in Nat /\ reply.id \in Nat /\ tip.id \in Nat
           /\ nonce \in Nat /\ session \in Nat /\ Len(wire) \in Nat
           /\ \A i \in 1..Len(wire) : wire[i] \in Frame /\ wire[i].job.id \in Nat
           /\ \A s \in sent : s.id \in Nat /\ s.nonce \in Nat /\ s.session \in Nat
  <1>1. \A j \in Job \union {NoJob} : j.id \in Nat
      BY MineLoopAssumption DEF Job, NoJob
  <1>2. \A i \in 1..Len(wire) : wire[i] \in Frame
      BY DEF TypeOK
  <1>3. \A f \in Frame : f.job \in Job
      BY DEF Frame
  <1>4. \A s \in Share : s.id \in Nat /\ s.nonce \in Nat /\ s.session \in Nat
      BY MineLoopAssumption DEF Share, Nonce
  <1>5. nonce \in Nat /\ session \in Nat /\ Len(wire) \in Nat
      BY MineLoopAssumption DEF TypeOK, Nonce
  <1>. QED
      BY <1>1, <1>2, <1>3, <1>4, <1>5 DEF TypeOK

\* The wire is as it was, or was cleared, and the channel is.
LEMMA WireRest ==
    ASSUME PushesAreNewer, UNCHANGED <<tip, watch, reply>>, wire' \in {wire, <<>>},
           pc' \in {"peek", "store"} => pc \in {"peek", "store"}
    PROVE  PushesAreNewer'
  <1>1. CASE wire' = wire
      BY <1>1 DEF PushesAreNewer
  <1>2. CASE wire' = <<>>
      BY <1>2 DEF PushesAreNewer
  <1>. QED
      BY <1>1, <1>2

\* A frame that reaches the end of the wire: the node's newest template.
LEMMA WireAppend ==
    ASSUME TypeOK, PushesAreNewer, NEW frame \in Frame, wire' = Append(wire, frame),
           tip' \in Job, frame.job.id = tip'.id, tip.id <= tip'.id,
           frame.kind = "job" => tip.id < tip'.id, UNCHANGED <<watch, reply, pc>>
    PROVE  PushesAreNewer'
  <1> DEFINE n == Len(wire)
  <1>1. n \in Nat /\ Len(wire') = n + 1 /\ wire'[n + 1] = frame
        /\ \A i \in 1..n : wire'[i] = wire[i]
      BY DEF TypeOK
  <1>2. tip'.id \in Nat
      BY DEF Job
  <1> HIDE DEF n
  <1>3. \A i \in 1..n : wire[i].job.id <= tip.id /\ wire[i].job.id \in Nat
      BY IdFacts DEF PushesAreNewer, n
  <1>4. watch.id <= tip.id /\ reply.id <= tip.id
      BY DEF PushesAreNewer
  <1>5. ASSUME NEW i \in 1..Len(wire')
        PROVE  /\ wire'[i].job.id <= tip'.id
               /\ wire'[i].kind = "job" =>
                     /\ watch'.id < wire'[i].job.id
                     /\ pc' \in {"peek", "store"} => reply'.id < wire'[i].job.id
                     /\ \A k \in 1..(i - 1) : wire'[k].job.id < wire'[i].job.id
    <2>1. CASE i = n + 1
        BY <2>1, <1>1, <1>2, <1>3, <1>4, IdFacts
    <2>2. CASE i \in 1..n
      <3>1. \A k \in 1..(i - 1) : wire'[k] = wire[k]
          BY <2>2, <1>1
      <3>. QED
          BY <3>1, <2>2, <1>1, <1>2, <1>3, IdFacts DEF PushesAreNewer, n
    <2>. QED
        BY <2>1, <2>2, <1>1
  <1>. QED
      BY <1>2, <1>4, <1>5, IdFacts DEF PushesAreNewer

\* The reader takes the first frame: to the channel, to get_job, or to nobody.
LEMMA WireDelivers ==
    ASSUME TypeOK, PushesAreNewer, ReaderDelivers
    PROVE  PushesAreNewer'
  <1>1. wire \in Seq(Frame) /\ wire # <<>>
      BY DEF TypeOK, ReaderDelivers
  <1>2. /\ Len(wire) \in Nat \ {0} /\ Len(wire') = Len(wire) - 1
        /\ \A i \in 1..Len(wire') : wire'[i] = wire[i + 1]
        /\ Head(wire) = wire[1]
      BY <1>1 DEF ReaderDelivers
  <1>3. UNCHANGED tip
      BY DEF ReaderDelivers
  <1>4. watch'.id <= tip.id /\ reply'.id <= tip.id
      BY <1>2 DEF ReaderDelivers, PushesAreNewer
  <1>5. ASSUME NEW i \in 1..Len(wire')
        PROVE  /\ wire'[i].job.id <= tip.id
               /\ wire'[i].kind = "job" =>
                     /\ watch'.id < wire'[i].job.id
                     /\ pc' \in {"peek", "store"} => reply'.id < wire'[i].job.id
                     /\ \A k \in 1..(i - 1) : wire'[k].job.id < wire'[i].job.id
    <2>1. i + 1 \in 1..Len(wire) /\ wire'[i] = wire[i + 1] /\ 1 \in 1..((i + 1) - 1)
        BY <1>2
    <2>2. wire[i + 1].job.id <= tip.id
        BY <2>1 DEF PushesAreNewer
    <2>3. ASSUME wire[i + 1].kind = "job"
          PROVE  /\ watch.id < wire[i + 1].job.id /\ wire[1].job.id < wire[i + 1].job.id
                 /\ pc \in {"peek", "store"} => reply.id < wire[i + 1].job.id
                 /\ \A k \in 1..i : wire[k].job.id < wire[i + 1].job.id
        BY <2>1, <2>3 DEF PushesAreNewer
    <2>4. \A k \in 1..(i - 1) : wire'[k] = wire[k + 1] /\ k + 1 \in 1..i
        BY <1>2
    <2>5. ASSUME wire[i + 1].kind = "job"
          PROVE  \A k \in 1..(i - 1) : wire'[k].job.id < wire[i + 1].job.id
        BY <2>3, <2>4, <2>5
    <2>6. ASSUME wire[i + 1].kind = "job"
          PROVE  watch'.id < wire[i + 1].job.id
        BY <2>3, <2>6, <1>2 DEF ReaderDelivers
    <2>7. ASSUME wire[i + 1].kind = "job", pc' \in {"peek", "store"}
          PROVE  reply'.id < wire[i + 1].job.id
        BY <2>3, <2>7, <1>2 DEF ReaderDelivers
    <2>. QED
        BY <2>1, <2>2, <2>5, <2>6, <2>7
  <1>. QED
      BY <1>3, <1>4, <1>5 DEF PushesAreNewer

\* Where the coordinator neither takes a template nor moves its nonce.
LEMMA SentRest ==
    ASSUME IInv, SentIsBehind, UNCHANGED <<job, nonce, sent, session>>,
           pc' \in Working => pc \in Working /\ (pc = "awaiting" => pc' = pc),
           pc' \in {"getJob", "peek", "store", "adopt"}
               => pc \in {"getJob", "peek", "store", "adopt"}
    PROVE  SentIsBehind'
  BY IdFacts DEF IInv, SentIsBehind, Working

\* Where it takes a template that is newer, or its first of this connection.
LEMMA SentAdopt ==
    ASSUME IInv, SentIsBehind, UNCHANGED <<sent, session>>, pc' = "loop",
           NEW j \in Job, job' = j,
           \/ pc \in {"getJob", "peek", "store", "adopt"}
           \/ pc \in Working /\ job.id < j.id
    PROVE  SentIsBehind'
  <1>1. j.id \in Nat
      BY MineLoopAssumption DEF Job
  <1>. QED
      BY <1>1, IdFacts DEF IInv, SentIsBehind, Working

\* Where it steps past a nonce.
LEMMA SentStep ==
    ASSUME ~Saturate, IInv, SentIsBehind, StepNonce, pc \in Working,
           UNCHANGED <<job, sent, session>>
    PROVE  SentIsBehind'
  BY IdFacts DEF IInv, SentIsBehind, StepNonce, Working

LEMMA NextOInv ==
    ASSUME ~Saturate
    PROVE  IInv /\ OInv /\ [Next]_vars => OInv'
  <1> SUFFICES ASSUME IInv, OInv, [Next]_vars PROVE OInv'
      OBVIOUS
  <1> USE DEF OInv
  <1>1. CASE GetJobFails
    <2>1. /\ UNCHANGED <<tip, watch, reply, job, nonce, sent, session>>
          /\ wire' \in {wire, <<>>}
        BY <1>1 DEF GetJobFails, Fault, coordinator, solver, channels, node,
           history
    <2>2. /\ pc' \in {"peek", "store"} => pc \in {"peek", "store"}
          /\ pc' \in Working => pc \in Working /\ (pc = "awaiting" => pc' = pc)
          /\ pc' \in {"getJob", "peek", "store", "adopt"}
                 => pc \in {"getJob", "peek", "store", "adopt"}
          /\ pc' = "adopt" => pc = "adopt"
        BY <1>1 DEF GetJobFails, Fault, Working, coordinator
    <2>3. JobNotAhead'
        BY <2>1, <2>2 DEF JobNotAhead, Working
    <2>. QED
        BY <2>1, <2>2, <2>3, WireRest, SentRest
  <1>2. CASE PeekResponse
    <2>1. /\ UNCHANGED <<tip, watch, reply, job, nonce, sent, session>>
          /\ wire' \in {wire, <<>>}
        BY <1>2 DEF PeekResponse, coordinator, solver, channels, node,
           history
    <2>2. /\ pc' \in {"peek", "store"} => pc \in {"peek", "store"}
          /\ pc' \in Working => pc \in Working /\ (pc = "awaiting" => pc' = pc)
          /\ pc' \in {"getJob", "peek", "store", "adopt"}
                 => pc \in {"getJob", "peek", "store", "adopt"}
          /\ pc' = "adopt" => pc = "adopt"
        BY <1>2 DEF PeekResponse, Working, coordinator
    <2>3. JobNotAhead'
        BY <2>1, <2>2 DEF JobNotAhead, Working
    <2>. QED
        BY <2>1, <2>2, <2>3, WireRest, SentRest
  <1>3. CASE GraphsDone
    <2>1. /\ UNCHANGED <<tip, watch, reply, job, nonce, sent, session>>
          /\ wire' \in {wire, <<>>}
        BY <1>3 DEF GraphsDone, coordinator, solver, channels, node, history
    <2>2. /\ pc' \in {"peek", "store"} => pc \in {"peek", "store"}
          /\ pc' \in Working => pc \in Working /\ (pc = "awaiting" => pc' = pc)
          /\ pc' \in {"getJob", "peek", "store", "adopt"}
                 => pc \in {"getJob", "peek", "store", "adopt"}
          /\ pc' = "adopt" => pc = "adopt"
        BY <1>3 DEF GraphsDone, Working, coordinator
    <2>3. JobNotAhead'
        BY <2>1, <2>2 DEF JobNotAhead, Working
    <2>. QED
        BY <2>1, <2>2, <2>3, WireRest, SentRest
  <1>4. CASE StartSolve
    <2>1. /\ UNCHANGED <<tip, watch, reply, job, nonce, sent, session>>
          /\ wire' \in {wire, <<>>}
        BY <1>4 DEF StartSolve, coordinator, solver, channels, node, history
    <2>2. /\ pc' \in {"peek", "store"} => pc \in {"peek", "store"}
          /\ pc' \in Working => pc \in Working /\ (pc = "awaiting" => pc' = pc)
          /\ pc' \in {"getJob", "peek", "store", "adopt"}
                 => pc \in {"getJob", "peek", "store", "adopt"}
          /\ pc' = "adopt" => pc = "adopt"
        BY <1>4 DEF StartSolve, Working, coordinator
    <2>3. JobNotAhead'
        BY <2>1, <2>2 DEF JobNotAhead, Working
    <2>. QED
        BY <2>1, <2>2, <2>3, WireRest, SentRest
  <1>5. CASE NoticeJob
    <2>1. /\ UNCHANGED <<tip, watch, reply, job, nonce, sent, session>>
          /\ wire' \in {wire, <<>>}
        BY <1>5 DEF NoticeJob, coordinator, solver, channels, node, history
    <2>2. /\ pc' \in {"peek", "store"} => pc \in {"peek", "store"}
          /\ pc' \in Working => pc \in Working /\ (pc = "awaiting" => pc' = pc)
          /\ pc' \in {"getJob", "peek", "store", "adopt"}
                 => pc \in {"getJob", "peek", "store", "adopt"}
          /\ pc' = "adopt" => pc = "adopt"
        BY <1>5 DEF NoticeJob, Working, coordinator
    <2>3. JobNotAhead'
        BY <2>1, <2>2 DEF JobNotAhead, Working
    <2>. QED
        BY <2>1, <2>2, <2>3, WireRest, SentRest
  <1>6. CASE NoticeConnection
    <2>1. /\ UNCHANGED <<tip, watch, reply, job, nonce, sent, session>>
          /\ wire' \in {wire, <<>>}
        BY <1>6 DEF NoticeConnection, coordinator, solver, channels, node,
           history
    <2>2. /\ pc' \in {"peek", "store"} => pc \in {"peek", "store"}
          /\ pc' \in Working => pc \in Working /\ (pc = "awaiting" => pc' = pc)
          /\ pc' \in {"getJob", "peek", "store", "adopt"}
                 => pc \in {"getJob", "peek", "store", "adopt"}
          /\ pc' = "adopt" => pc = "adopt"
        BY <1>6 DEF NoticeConnection, Working, coordinator
    <2>3. JobNotAhead'
        BY <2>1, <2>2 DEF JobNotAhead, Working
    <2>. QED
        BY <2>1, <2>2, <2>3, WireRest, SentRest
  <1>7. CASE JoinGpuError
    <2>1. /\ UNCHANGED <<tip, watch, reply, job, nonce, sent, session>>
          /\ wire' \in {wire, <<>>}
        BY <1>7 DEF JoinGpuError, Joined, coordinator, solver, channels,
           node, history
    <2>2. /\ pc' \in {"peek", "store"} => pc \in {"peek", "store"}
          /\ pc' \in Working => pc \in Working /\ (pc = "awaiting" => pc' = pc)
          /\ pc' \in {"getJob", "peek", "store", "adopt"}
                 => pc \in {"getJob", "peek", "store", "adopt"}
          /\ pc' = "adopt" => pc = "adopt"
        BY <1>7 DEF JoinGpuError, Joined, Working, coordinator
    <2>3. JobNotAhead'
        BY <2>1, <2>2 DEF JobNotAhead, Working
    <2>. QED
        BY <2>1, <2>2, <2>3, WireRest, SentRest
  <1>8. CASE JoinFatal
    <2>1. /\ UNCHANGED <<tip, watch, reply, job, nonce, sent, session>>
          /\ wire' \in {wire, <<>>}
        BY <1>8 DEF JoinFatal, Joined, coordinator, solver, channels, node,
           history
    <2>2. /\ pc' \in {"peek", "store"} => pc \in {"peek", "store"}
          /\ pc' \in Working => pc \in Working /\ (pc = "awaiting" => pc' = pc)
          /\ pc' \in {"getJob", "peek", "store", "adopt"}
                 => pc \in {"getJob", "peek", "store", "adopt"}
          /\ pc' = "adopt" => pc = "adopt"
        BY <1>8 DEF JoinFatal, Joined, Working, coordinator
    <2>3. JobNotAhead'
        BY <2>1, <2>2 DEF JobNotAhead, Working
    <2>. QED
        BY <2>1, <2>2, <2>3, WireRest, SentRest
  <1>9. CASE JoinDisconnected
    <2>1. /\ UNCHANGED <<tip, watch, reply, job, nonce, sent, session>>
          /\ wire' \in {wire, <<>>}
        BY <1>9 DEF JoinDisconnected, Outcome, Joined, coordinator, solver,
           channels, node, history
    <2>2. /\ pc' \in {"peek", "store"} => pc \in {"peek", "store"}
          /\ pc' \in Working => pc \in Working /\ (pc = "awaiting" => pc' = pc)
          /\ pc' \in {"getJob", "peek", "store", "adopt"}
                 => pc \in {"getJob", "peek", "store", "adopt"}
          /\ pc' = "adopt" => pc = "adopt"
        BY <1>9 DEF JoinDisconnected, Outcome, Joined, Working, coordinator
    <2>3. JobNotAhead'
        BY <2>1, <2>2 DEF JobNotAhead, Working
    <2>. QED
        BY <2>1, <2>2, <2>3, WireRest, SentRest
  <1>10. CASE JoinCancelled
    <2>1. /\ UNCHANGED <<tip, watch, reply, job, nonce, sent, session>>
          /\ wire' \in {wire, <<>>}
        BY <1>10 DEF JoinCancelled, OutcomeOfCurrentJob, Outcome, Joined,
           coordinator, solver, channels, node, history
    <2>2. /\ pc' \in {"peek", "store"} => pc \in {"peek", "store"}
          /\ pc' \in Working => pc \in Working /\ (pc = "awaiting" => pc' = pc)
          /\ pc' \in {"getJob", "peek", "store", "adopt"}
                 => pc \in {"getJob", "peek", "store", "adopt"}
          /\ pc' = "adopt" => pc = "adopt"
        BY <1>10 DEF JoinCancelled, OutcomeOfCurrentJob, Outcome, Joined,
           Working, coordinator
    <2>3. JobNotAhead'
        BY <2>1, <2>2 DEF JobNotAhead, Working
    <2>. QED
        BY <2>1, <2>2, <2>3, WireRest, SentRest
  <1>11. CASE JoinInvalid
    <2>1. /\ UNCHANGED <<tip, watch, reply, job, nonce, sent, session>>
          /\ wire' \in {wire, <<>>}
        BY <1>11 DEF JoinInvalid, OutcomeOfCurrentJob, Outcome, Joined,
           coordinator, solver, channels, node, history
    <2>2. /\ pc' \in {"peek", "store"} => pc \in {"peek", "store"}
          /\ pc' \in Working => pc \in Working /\ (pc = "awaiting" => pc' = pc)
          /\ pc' \in {"getJob", "peek", "store", "adopt"}
                 => pc \in {"getJob", "peek", "store", "adopt"}
          /\ pc' = "adopt" => pc = "adopt"
        BY <1>11 DEF JoinInvalid, OutcomeOfCurrentJob, Outcome, Joined,
           Working, coordinator
    <2>3. JobNotAhead'
        BY <2>1, <2>2 DEF JobNotAhead, Working
    <2>. QED
        BY <2>1, <2>2, <2>3, WireRest, SentRest
  <1>12. CASE JoinShare
    <2>1. /\ UNCHANGED <<tip, watch, reply, job, nonce, sent, session>>
          /\ wire' \in {wire, <<>>}
        BY <1>12 DEF JoinShare, OutcomeOfCurrentJob, Outcome, Joined,
           coordinator, solver, channels, node, history
    <2>2. /\ pc' \in {"peek", "store"} => pc \in {"peek", "store"}
          /\ pc' \in Working => pc \in Working /\ (pc = "awaiting" => pc' = pc)
          /\ pc' \in {"getJob", "peek", "store", "adopt"}
                 => pc \in {"getJob", "peek", "store", "adopt"}
          /\ pc' = "adopt" => pc = "adopt"
        BY <1>12 DEF JoinShare, OutcomeOfCurrentJob, Outcome, Joined,
           Working, coordinator
    <2>3. JobNotAhead'
        BY <2>1, <2>2 DEF JobNotAhead, Working
    <2>. QED
        BY <2>1, <2>2, <2>3, WireRest, SentRest
  <1>13. CASE SubmitRefused
    <2>1. /\ UNCHANGED <<tip, watch, reply, job, nonce, sent, session>>
          /\ wire' \in {wire, <<>>}
        BY <1>13 DEF SubmitRefused, coordinator, solver, channels, node,
           history
    <2>2. /\ pc' \in {"peek", "store"} => pc \in {"peek", "store"}
          /\ pc' \in Working => pc \in Working /\ (pc = "awaiting" => pc' = pc)
          /\ pc' \in {"getJob", "peek", "store", "adopt"}
                 => pc \in {"getJob", "peek", "store", "adopt"}
          /\ pc' = "adopt" => pc = "adopt"
        BY <1>13 DEF SubmitRefused, Working, coordinator
    <2>3. JobNotAhead'
        BY <2>1, <2>2 DEF JobNotAhead, Working
    <2>. QED
        BY <2>1, <2>2, <2>3, WireRest, SentRest
  <1>14. CASE SubmitFails
    <2>1. /\ UNCHANGED <<tip, watch, reply, job, nonce, sent, session>>
          /\ wire' \in {wire, <<>>}
        BY <1>14 DEF SubmitFails, coordinator, solver, channels, node,
           history
    <2>2. /\ pc' \in {"peek", "store"} => pc \in {"peek", "store"}
          /\ pc' \in Working => pc \in Working /\ (pc = "awaiting" => pc' = pc)
          /\ pc' \in {"getJob", "peek", "store", "adopt"}
                 => pc \in {"getJob", "peek", "store", "adopt"}
          /\ pc' = "adopt" => pc = "adopt"
        BY <1>14 DEF SubmitFails, Working, coordinator
    <2>3. JobNotAhead'
        BY <2>1, <2>2 DEF JobNotAhead, Working
    <2>. QED
        BY <2>1, <2>2, <2>3, WireRest, SentRest
  <1>15. CASE SolverReturns
    <2>1. /\ UNCHANGED <<tip, watch, reply, job, nonce, sent, session>>
          /\ wire' \in {wire, <<>>}
        BY <1>15 DEF SolverReturns, coordinator, solver, channels, node,
           history
    <2>2. /\ pc' \in {"peek", "store"} => pc \in {"peek", "store"}
          /\ pc' \in Working => pc \in Working /\ (pc = "awaiting" => pc' = pc)
          /\ pc' \in {"getJob", "peek", "store", "adopt"}
                 => pc \in {"getJob", "peek", "store", "adopt"}
          /\ pc' = "adopt" => pc = "adopt"
        BY <1>15 DEF SolverReturns, Working, coordinator
    <2>3. JobNotAhead'
        BY <2>1, <2>2 DEF JobNotAhead, Working
    <2>. QED
        BY <2>1, <2>2, <2>3, WireRest, SentRest
  <1>16. CASE ReconnectFails
    <2>1. /\ UNCHANGED <<tip, watch, reply, job, nonce, sent, session>>
          /\ wire' \in {wire, <<>>}
        BY <1>16 DEF ReconnectFails, coordinator, solver, channels, node,
           history
    <2>2. /\ pc' \in {"peek", "store"} => pc \in {"peek", "store"}
          /\ pc' \in Working => pc \in Working /\ (pc = "awaiting" => pc' = pc)
          /\ pc' \in {"getJob", "peek", "store", "adopt"}
                 => pc \in {"getJob", "peek", "store", "adopt"}
          /\ pc' = "adopt" => pc = "adopt"
        BY <1>16 DEF ReconnectFails, Working, coordinator
    <2>3. JobNotAhead'
        BY <2>1, <2>2 DEF JobNotAhead, Working
    <2>. QED
        BY <2>1, <2>2, <2>3, WireRest, SentRest
  <1>17. CASE ConnectionLost
    <2>1. /\ UNCHANGED <<tip, watch, reply, job, nonce, sent, session>>
          /\ wire' \in {wire, <<>>}
        BY <1>17 DEF ConnectionLost, coordinator, solver, channels, node,
           history
    <2>2. /\ pc' \in {"peek", "store"} => pc \in {"peek", "store"}
          /\ pc' \in Working => pc \in Working /\ (pc = "awaiting" => pc' = pc)
          /\ pc' \in {"getJob", "peek", "store", "adopt"}
                 => pc \in {"getJob", "peek", "store", "adopt"}
          /\ pc' = "adopt" => pc = "adopt"
      <3>1. pc' = pc
          BY <1>17, Zenon DEF ConnectionLost, coordinator
      <3>. QED
          BY <3>1 DEF Working
    <2>3. JobNotAhead'
        BY <2>1, <2>2 DEF JobNotAhead, Working
    <2>. QED
        BY <2>1, <2>2, <2>3, WireRest, SentRest
  <1>18. CASE Recovered
    <2>1. UNCHANGED <<tip, wire, watch, reply, job, sent, session>> /\ pc \in Working
        BY <1>18 DEF Recovered, Working, coordinator, solver, channels,
           node, history
    <2>2. pc' \in {"loop", "failed"}
        BY <1>18 DEF Recovered, StepNonce
    <2>3. JobNotAhead'
        BY <2>1, <2>2 DEF JobNotAhead, Working
    <2>4. CASE StepNonce
        BY <2>1, <2>2, <2>3, <2>4, WireRest, SentStep
    <2>5. CASE pc' = "failed" /\ UNCHANGED nonce
      <3>1. pc' \notin Working /\ pc' \notin {"getJob", "peek", "store", "adopt"}
          BY <2>5 DEF Working
      <3>. QED
          BY <2>1, <2>3, <2>5, <3>1, WireRest, SentRest
    <2>. QED
        BY <1>18, <2>4, <2>5 DEF Recovered
  <1>19. CASE JoinNoShare
    <2>1. UNCHANGED <<tip, wire, watch, reply, job, sent, session>> /\ StepNonce /\ pc \in Working
        BY <1>19 DEF JoinNoShare, OutcomeOfCurrentJob, Outcome, Joined,
           Working, coordinator, solver, channels, node, history
    <2>2. pc' \in {"loop", "failed"}
        BY <2>1 DEF StepNonce
    <2>3. JobNotAhead'
        BY <2>1, <2>2 DEF JobNotAhead, Working
    <2>. QED
        BY <2>1, <2>2, <2>3, WireRest, SentStep
  <1>20. CASE SubmitAnswered
    <2>1. UNCHANGED <<tip, wire, watch, reply, job, sent, session>> /\ StepNonce /\ pc \in Working
        BY <1>20 DEF SubmitAnswered, Working, coordinator, solver, channels,
           node, history
    <2>2. pc' \in {"loop", "failed"}
        BY <2>1 DEF StepNonce
    <2>3. JobNotAhead'
        BY <2>1, <2>2 DEF JobNotAhead, Working
    <2>. QED
        BY <2>1, <2>2, <2>3, WireRest, SentStep
  <1>21. CASE PeekPushed
    <2>1. job' = watch /\ watch \in Job /\ pc' \in {"adopt", "loop"} /\ watch' = watch
      <3>1. job' = watch /\ pc' \in {"adopt", "loop"} /\ watch' = watch
          BY <1>21 DEF PeekPushed, JobArrives, Adopt, channels
      <3>2. watch \in Job
          BY <1>21, JobFacts DEF IInv, TypeOK, HoldsJob, PeekPushed
      <3>. QED
          BY <3>1, <3>2
    <2>2. UNCHANGED <<tip, wire, reply, sent, session>> /\ pc \in {"peek", "store"}
        BY <1>21 DEF PeekPushed, node
    <2>3. PushesAreNewer'
        BY <2>1, <2>2 DEF PushesAreNewer
    <2>4. SentIsBehind'
        BY <2>1, <2>2 DEF SentIsBehind, Working
    <2>. QED
        BY <2>1, <2>3, <2>4 DEF JobNotAhead
  <1>22. CASE StoreResponse
    <2>1. job' = reply /\ reply \in Job /\ pc' \in {"adopt", "loop"} /\ watch' = reply
        BY <1>22, JobFacts DEF IInv, TypeOK, HoldsJob, StoreResponse,
           JobArrives, Adopt
    <2>2. UNCHANGED <<tip, wire, reply, sent, session>> /\ pc \in {"peek", "store"}
        BY <1>22 DEF StoreResponse, node
    <2>3. PushesAreNewer'
        BY <2>1, <2>2 DEF PushesAreNewer
    <2>4. SentIsBehind'
        BY <2>1, <2>2 DEF SentIsBehind, Working
    <2>. QED
        BY <2>1, <2>3, <2>4 DEF JobNotAhead
  <1>23. CASE FirstJob
    <2> DEFINE first == IF Stale(job, watch) THEN watch ELSE job
    <2>1. job' = first /\ first \in Job /\ pc' = "loop" /\ pc = "adopt"
        BY <1>23 DEF FirstJob, Adopt, IInv, TypeOK, HoldsJob, Stale
    <2>2. UNCHANGED <<tip, wire, watch, reply, sent, session>>
        BY <1>23 DEF FirstJob, node
    <2>3. PushesAreNewer'
        BY <2>1, <2>2, WireRest
    <2>4. SentIsBehind'
        BY <2>1, <2>2, SentAdopt
    <2>5. JobNotAhead'
        BY <2>1, <2>2 DEF JobNotAhead
    <2>. QED
        BY <2>3, <2>4, <2>5
  <1>24. CASE JoinStale
    <2>1. job' = watch /\ watch \in Job /\ pc' = "loop" /\ pc = "solving" /\ job # watch
        BY <1>24 DEF JoinStale, Outcome, Joined, Adopt, IInv, TypeOK, Stale
    <2>2. UNCHANGED <<tip, wire, watch, reply, sent, session>>
        BY <1>24 DEF JoinStale, Outcome, node
    <2>3. PushesAreNewer'
        BY <2>1, <2>2, WireRest
    <2>4. job.id < watch.id
        BY <2>1 DEF JobNotAhead, Working
    <2>5. SentIsBehind'
        BY <2>1, <2>2, <2>4, SentAdopt DEF Working
    <2>6. JobNotAhead'
        BY <2>1, <2>2 DEF JobNotAhead
    <2>. QED
        BY <2>3, <2>5, <2>6
  <1>25. CASE Reconnected
    <2>1. /\ UNCHANGED <<tip, watch, reply, sent>> /\ wire' = <<>>
          /\ pc' = "getJob" /\ session' = session + 1
        BY <1>25 DEF Reconnected, RequestJob
    <2>2. PushesAreNewer'
        BY <2>1, WireRest
    <2>3. SentIsBehind'
        BY <2>1, IdFacts DEF IInv, SentIsBehind, Working
    <2>. QED
        BY <2>1, <2>2, <2>3 DEF JobNotAhead, Working
  <1>26. CASE SubmitWritten
    <2>1. /\ UNCHANGED <<tip, wire, watch, reply, job, nonce, session>>
          /\ sent' = sent \union {NewShare} /\ pc = "submit" /\ pc' = "awaiting"
        BY <1>26 DEF SubmitWritten, channels, node
    <2>2. PushesAreNewer'
        BY <2>1, WireRest
    <2>3. NewShare.id = job.id /\ NewShare.nonce = nonce /\ NewShare.session = session
        BY DEF NewShare
    <2>4. SentIsBehind'
        BY <2>1, <2>3, IdFacts DEF IInv, SentIsBehind, Working
    <2>. QED
        BY <2>1, <2>2, <2>4 DEF JobNotAhead, Working
  <1>27. CASE ReaderDelivers
    <2>1. UNCHANGED <<job, nonce, sent, session>>
        BY <1>27 DEF ReaderDelivers, history
    <2>2. /\ pc' \in Working => pc' = pc
          /\ pc' \in {"getJob", "peek", "store", "adopt"}
                 => pc \in {"getJob", "peek", "store", "adopt"}
          /\ pc' = pc \/ (pc = "getJob" /\ pc' = "peek")
        BY <1>27 DEF ReaderDelivers, Working
    <2>3. PushesAreNewer'
        BY <1>27, WireDelivers DEF IInv
    <2>4. SentIsBehind'
        BY <2>1, <2>2 DEF SentIsBehind
    <2>5. watch' = watch \/ watch.id < watch'.id
      <3>1. wire \in Seq(Frame) /\ wire # <<>>
          BY <1>27 DEF IInv, TypeOK, ReaderDelivers
      <3>2. 1 \in 1..Len(wire) /\ Head(wire) = wire[1]
          BY <3>1
      <3>. QED
          BY <1>27, <3>2 DEF ReaderDelivers, PushesAreNewer
    <2>6. JobNotAhead'
      <3>1. TypeOK'
          BY NextIInv DEF IInv
      <3>2. watch'.id \in Nat /\ job.id \in Nat /\ watch.id \in Nat
        <4>1. \A j \in Job \union {NoJob} : j.id \in Nat
            BY MineLoopAssumption DEF Job, NoJob
        <4>. QED
            BY <3>1, <4>1 DEF IInv, TypeOK
      <3>. QED
          BY <3>2, <2>1, <2>2, <2>5 DEF JobNotAhead, Working
    <2>. QED
        BY <2>3, <2>4, <2>6
  <1>28. CASE NodeAdvances
    <2> DEFINE push == [kind |-> "job", job |-> tip']
    <2>1. UNCHANGED <<pc, watch, reply, job, nonce, sent, session>>
        BY <1>28 DEF NodeAdvances, coordinator, channels, history
    <2>2. tip' \in Job
        BY NextIInv DEF IInv, TypeOK
    <2>3. tip'.id = tip.id + 1
        BY <1>28 DEF NodeAdvances
    <2>4. PushesAreNewer'
      <3>1. CASE wire' = wire
          BY <3>1, <2>1, <2>2, <2>3, IdFacts DEF IInv, PushesAreNewer
      <3>2. CASE wire' = Append(wire, push)
        <4>1. push \in Frame /\ push.job.id = tip'.id
            BY <2>2 DEF Frame
        <4>2. tip.id < tip'.id /\ tip.id <= tip'.id
            BY <2>3, IdFacts DEF IInv
        <4> HIDE DEF push
        <4>. QED
            BY <3>2, <4>1, <4>2, <2>1, <2>2, WireAppend DEF IInv
      <3>. QED
          BY <3>1, <3>2, <1>28 DEF NodeAdvances
    <2>5. JobNotAhead' /\ SentIsBehind'
        BY <2>1 DEF JobNotAhead, SentIsBehind
    <2>. QED
        BY <2>4, <2>5
  <1>29. CASE NodeAnswers
    <2> DEFINE answer == [kind |-> "template", job |-> tip]
    <2>1. UNCHANGED <<pc, tip, watch, reply, job, nonce, sent, session>>
        BY <1>29 DEF NodeAnswers, coordinator, channels, history
    <2>2. answer \in Frame /\ answer.job.id = tip.id /\ answer.kind # "job" /\ tip \in Job
        BY DEF IInv, TypeOK, Frame
    <2>3. wire' = Append(wire, answer)
        BY <1>29 DEF NodeAnswers
    <2> HIDE DEF answer
    <2>4. PushesAreNewer'
        BY <2>1, <2>2, <2>3, WireAppend, IdFacts DEF IInv
    <2>. QED
        BY <2>1, <2>4 DEF JobNotAhead, SentIsBehind
  <1>30. CASE UNCHANGED vars
      BY <1>30 DEF vars, coordinator, solver, channels, node, history, PushesAreNewer, JobNotAhead, SentIsBehind
  <1>. QED
        BY <1>1, <1>2, <1>3, <1>4, <1>5, <1>6, <1>7, <1>8, <1>9, <1>10,
           <1>11, <1>12, <1>13, <1>14, <1>15, <1>16, <1>17, <1>18, <1>19,
           <1>20, <1>21, <1>22, <1>23, <1>24, <1>25, <1>26, <1>27, <1>28,
           <1>29, <1>30 DEF Next, Coordinator, Environment, Terminated

\* Within one connection no share is written twice, whatever the node pushes and
\* the loop adopts.  (Saturate folds nonces, so it is the bound's exception.)
THEOREM SharesAreSentOnce ==
    ASSUME ~Saturate
    PROVE  Spec => SentOncePerSession
  <1>1. IInv /\ OInv => (pc = "submit" => NewShare \notin sent)
    <2>1. NewShare.id = job.id /\ NewShare.nonce = nonce /\ NewShare.session = session
        BY DEF NewShare
    <2>. QED
        BY <2>1, IdFacts DEF IInv, OInv, SentIsBehind, Working
  <1>2. IInv /\ OInv /\ [Next]_vars
            => [pc = "submit" /\ pc' = "awaiting" => NewShare \notin sent]_vars
      BY <1>1
  <1>. QED
      BY <1>2, InitIInv, NextIInv, InitOInv, NextOInv, PTL DEF Spec, SentOncePerSession

=============================================================================
