--------------------------- MODULE StratumProofs ---------------------------
(***************************************************************************)
(* What StratumClient promises, for any number of connections, calls and   *)
(* frames in flight.                                                       *)
(***************************************************************************)
EXTENDS StratumClient, FiniteSetTheorems, SequenceTheorems, TLAPS

InCall == {"writing", "waiting", "returned"}

\* The answers that a server may send on connection g; ids are the serial
\* numbers of calls.
OwnAnswers(g) == {a \in Answer : a.id = a.call /\ a.gen = g}
Frames(g)     == OwnAnswers(g) \union {Skipped, Oversized}

IdsInv == nextId = call + 1 /\ (pc \in InCall => call > 0)

FramesInv ==
    \A g \in Generations :
       /\ held[g] \in OwnAnswers(g) \union {None}
       /\ wire[g] \in Seq(Frames(g))
       /\ \A r \in received[g] : r.id = r.call

\* What is pending is the call in progress, on the stream in use, unanswered.
PendingInv ==
    \A g \in Generations : pending[g] # {} =>
       /\ g = conn /\ pc \in {"writing", "waiting"} /\ slot = "empty"
       /\ pending[g] = {OwnId}

AnswerInv ==
    pc \in InCall /\ slot = "answered" => answer.call = call /\ answer.gen = conn

\* Only the stream in use is read, and not while reconnect replaces it.
ReaderInv ==
    /\ \A g \in Generations : Live(g) => g = conn
    /\ pc \in {"clear", "dial"} => ~Live(conn)

\* A flag that is up has a reader that will lower it, unless the reader died
\* before the flag rose: then login cannot be answered any more.
FlagInv ==
    /\ pc \in {"stop", "clear", "dial", "up"} => ~connected
    /\ pc = "up" => generation = conn
    /\ connected /\ pc \in InCall \union {"idle"} =>
          /\ generation = conn
          /\ Live(conn) \/ (pc # "idle" /\ after = "login" /\ slot # "answered")

ClientInv ==
    TypeOK /\ IdsInv /\ FramesInv /\ PendingInv /\ AnswerInv /\ ReaderInv /\ FlagInv

-----------------------------------------------------------------------------

\* The client that connect returns satisfies the invariant.
LEMMA InitClient == Init => ClientInv
<1> SUFFICES ASSUME Init PROVE ClientInv
  OBVIOUS
<1> USE StratumAssumption DEF Init, Generations
<1>1. TypeOK
  <2>1. wire \in [Generations -> Seq(Answer \union {Skipped, Oversized})]
    OBVIOUS
  <2>2. /\ conn \in Generations /\ generation \in Generations
        /\ nextId \in 1..(MaxCalls + 1) /\ call \in 0..MaxCalls
    OBVIOUS
  <2> QED
    BY <2>1, <2>2 DEF TypeOK, Pc, ReaderState
<1>2. IdsInv /\ PendingInv /\ AnswerInv
  BY DEF IdsInv, PendingInv, AnswerInv, InCall
<1>3. FramesInv
  BY DEF FramesInv
<1>4. ReaderInv /\ FlagInv
  BY DEF ReaderInv, FlagInv, Live, InCall
<1> QED
  BY <1>1, <1>2, <1>3, <1>4 DEF ClientInv

\* An id is taken for each call.
LEMMA IdsKept == ASSUME ClientInv, [Next]_vars PROVE IdsInv'
<1> USE DEF ClientInv, TypeOK, IdsInv, InCall, Calls
<1>1. CASE Call \/ RaiseFlag
  BY <1>1 DEF Call, RaiseFlag, Register
<1>2. CASE Written \/ WriteFails \/ Wakes \/ TimesOut \/ Return \/ Reconnect \/ DropFlag
           \/ StopReader \/ ClearPending \/ DialFails \/ Dialled
  BY <1>2 DEF Written, WriteFails, Wakes, TimesOut, Return, Reconnect, DropFlag,
              StopReader, ClearPending, DialFails, Dialled
<1>3. CASE \E g \in Generations : Reader(g) \/ Answers(g) \/ Babbles(g) \/ Closes(g)
  BY <1>3 DEF Reader, ReadFrame, RefuseFrame, Deliver, StreamEnds, Superseded, ClearMap,
              FlipFlag, Answers, Babbles, Closes, caller
<1>4. CASE UNCHANGED vars
  BY <1>4 DEF vars, caller
<1> QED
  BY <1>1, <1>2, <1>3, <1>4 DEF Next, Caller

-----------------------------------------------------------------------------

\* Each step keeps the type.
LEMMA ClientTypeKept == ASSUME ClientInv, [Next]_vars PROVE TypeOK'
<1> USE StratumAssumption DEF ClientInv, TypeOK, IdsInv, Calls, Generations, Pc, ReaderState
<1>a. <<>> \in Seq(Answer \union {Skipped, Oversized})
  OBVIOUS
<1>1. ASSUME NEW then \in {"call", "login"}, Register(then) PROVE
         /\ pc' \in Pc /\ after' \in {"call", "login"}
         /\ nextId' \in 1..(MaxCalls + 1) /\ call' \in 0..MaxCalls
         /\ slot' = "empty" /\ answer' = None
         /\ pending' \in [Generations -> SUBSET Calls]
  BY <1>1 DEF Register
<1>2. CASE Call
  BY <1>2, <1>1 DEF Call, client, stream
<1>3. CASE RaiseFlag
  BY <1>3, <1>1 DEF RaiseFlag, stream
<1>4. CASE Written
  <2>1. received' \in [Generations -> SUBSET Request]
    <3>1. [id |-> OwnId, call |-> call] \in Request
      BY <1>4 DEF Written, Request, OwnId, InCall
    <3> QED
      BY <1>4, <3>1 DEF Written
  <2> QED
    BY <1>4, <2>1 DEF Written, client, tasks
<1>5. CASE WriteFails \/ Wakes \/ TimesOut \/ Return
  BY <1>5 DEF WriteFails, Wakes, TimesOut, Return, Succeeded, client, tasks, stream
<1>6. CASE Reconnect
  BY <1>6 DEF Reconnect, tasks, stream
<1>7. CASE DropFlag \/ DialFails
  BY <1>7 DEF DropFlag, DialFails, client, tasks, stream
<1>8. CASE StopReader
  BY <1>8, <1>a DEF StopReader, client
<1>9. CASE ClearPending \/ Dialled
  BY <1>9 DEF ClearPending, Dialled, client
<1>10. ASSUME NEW g \in Generations,
             Reader(g) \/ Answers(g) \/ Babbles(g) \/ Closes(g)
      PROVE  TypeOK'
  <2>1. CASE ReadFrame(g)
    <3>1. wire[g] \in Seq(Answer \union {Skipped, Oversized}) /\ wire[g] # <<>>
      BY <2>1 DEF ReadFrame
    <3>2. /\ Head(wire[g]) \in Answer \union {Skipped, Oversized}
          /\ Tail(wire[g]) \in Seq(Answer \union {Skipped, Oversized})
      BY <3>1, HeadTailProperties
    <3>3. wire' \in [Generations -> Seq(Answer \union {Skipped, Oversized})]
      BY <2>1, <3>2 DEF ReadFrame
    <3>4. held' \in [Generations -> Answer \union {None}]
      BY <2>1, <3>2 DEF ReadFrame
    <3>5. reader' \in [Generations -> ReaderState]
      BY <2>1 DEF ReadFrame
    <3> QED
      BY <2>1, <3>3, <3>4, <3>5 DEF ReadFrame, caller, client
  <2>2. CASE RefuseFrame(g)
    BY <2>2, <1>a DEF RefuseFrame, caller, client
  <2>3. CASE StreamEnds(g) \/ Superseded(g)
    BY <2>3 DEF StreamEnds, Superseded, caller, client, stream
  <2>4. CASE ClearMap(g)
    BY <2>4, <1>a DEF ClearMap, client
  <2>5. CASE FlipFlag(g)
    BY <2>5 DEF FlipFlag, caller, stream
  <2>6. CASE Deliver(g)
    <3>1. held[g].id \in pending[g] => held[g] \in Answer
      BY DEF None
    <3> QED
      BY <2>6, <3>1 DEF Deliver, client, stream
  <2>7. CASE Answers(g)
    <3>1. PICK r \in received[g], ok \in BOOLEAN, again \in BOOLEAN :
             /\ wire' = [wire EXCEPT ![g] =
                           Append(@, [id |-> r.id, call |-> r.call, gen |-> g, ok |-> ok])]
             /\ received' = [received EXCEPT ![g] = IF again THEN @ ELSE @ \ {r}]
      BY <2>7 DEF Answers
    <3>2. [id |-> r.id, call |-> r.call, gen |-> g, ok |-> ok] \in Answer
      BY DEF Answer, Request
    <3>3. wire' \in [Generations -> Seq(Answer \union {Skipped, Oversized})]
      BY <3>1, <3>2, AppendProperties
    <3> QED
      BY <2>7, <3>1, <3>3 DEF Answers, caller, client, tasks
  <2>8. CASE Babbles(g)
    <3>1. PICK frame \in {Skipped, Oversized} : wire' = [wire EXCEPT ![g] = Append(@, frame)]
      BY <2>8 DEF Babbles
    <3>2. wire' \in [Generations -> Seq(Answer \union {Skipped, Oversized})]
      BY <3>1, AppendProperties
    <3> QED
      BY <2>8, <3>2 DEF Babbles, caller, client, tasks
  <2>9. CASE Closes(g)
    BY <2>9 DEF Closes, caller, client, tasks
  <2> QED
    BY <1>10, <2>1, <2>2, <2>3, <2>4, <2>5, <2>6, <2>7, <2>8, <2>9 DEF Reader
<1>11. CASE UNCHANGED vars
  BY <1>11 DEF vars, caller, client, tasks, stream
<1> QED
  BY <1>2, <1>3, <1>4, <1>5, <1>6, <1>7, <1>8, <1>9, <1>10, <1>11 DEF Next, Caller

\* What is on the wire or in a reader's hand answers a call of its connection.
LEMMA FramesKept == ASSUME ClientInv, [Next]_vars PROVE FramesInv'
<1> USE DEF ClientInv, FramesInv
<1>a. \A g : <<>> \in Seq(Frames(g)) /\ None \in OwnAnswers(g) \union {None}
  OBVIOUS
<1>1. CASE UNCHANGED <<held, wire, received>>
  BY <1>1
<1>2. CASE Written
  <2>1. OwnId = call
    BY DEF OwnId, IdsInv, TypeOK
  <2> QED
    BY <1>2, <2>1 DEF Written, tasks, TypeOK
<1>3. CASE StopReader
  BY <1>3, <1>a DEF StopReader, TypeOK
<1>4. ASSUME NEW g \in Generations, ReadFrame(g) PROVE FramesInv'
  <2>1. wire[g] \in Seq(Frames(g)) /\ wire[g] # <<>>
    BY <1>4 DEF ReadFrame
  <2>2. Head(wire[g]) \in Frames(g) /\ Tail(wire[g]) \in Seq(Frames(g))
    BY <2>1, HeadTailProperties
  <2>3. Head(wire[g]) \in OwnAnswers(g) \union {Skipped}
    BY <1>4, <2>2 DEF ReadFrame, Frames
  <2> QED
    BY <1>4, <2>2, <2>3 DEF ReadFrame, TypeOK
<1>5. ASSUME NEW g \in Generations, RefuseFrame(g) \/ ClearMap(g) \/ Deliver(g) PROVE FramesInv'
  BY <1>5, <1>a DEF RefuseFrame, ClearMap, Deliver, stream, TypeOK
<1>6. ASSUME NEW g \in Generations, Answers(g) PROVE FramesInv'
  <2>1. PICK r \in received[g], ok \in BOOLEAN, again \in BOOLEAN :
           /\ wire' = [wire EXCEPT ![g] =
                         Append(@, [id |-> r.id, call |-> r.call, gen |-> g, ok |-> ok])]
           /\ received' = [received EXCEPT ![g] = IF again THEN @ ELSE @ \ {r}]
    BY <1>6 DEF Answers
  <2>2. r \in Request /\ r.id = r.call
    BY DEF TypeOK
  <2>3. [id |-> r.id, call |-> r.call, gen |-> g, ok |-> ok] \in Frames(g)
    BY <2>2 DEF Frames, OwnAnswers, Answer, Request
  <2>4. wire'[g] \in Seq(Frames(g))
    BY <2>1, <2>3, AppendProperties DEF TypeOK
  <2>5. \A h \in Generations : wire'[h] \in Seq(Frames(h))
    BY <2>1, <2>4 DEF TypeOK
  <2>6. \A h \in Generations : received'[h] \subseteq received[h]
    BY <2>1 DEF TypeOK
  <2> QED
    BY <1>6, <2>5, <2>6 DEF Answers, tasks
<1>7. ASSUME NEW g \in Generations, Babbles(g) PROVE FramesInv'
  <2>1. PICK frame \in {Skipped, Oversized} : wire' = [wire EXCEPT ![g] = Append(@, frame)]
    BY <1>7 DEF Babbles
  <2>2. wire'[g] \in Seq(Frames(g))
    BY <2>1, AppendProperties DEF TypeOK, Frames
  <2> QED
    BY <1>7, <2>1, <2>2 DEF Babbles, tasks, TypeOK
<1>8. CASE Call \/ WriteFails \/ Wakes \/ TimesOut \/ Return \/ Reconnect \/ DropFlag
           \/ ClearPending \/ DialFails \/ Dialled \/ RaiseFlag \/ UNCHANGED vars
  <2>1. UNCHANGED <<held, wire, received>>
    BY <1>8 DEF Call, WriteFails, Wakes, TimesOut, Return, Reconnect, DropFlag, ClearPending,
                DialFails, Dialled, RaiseFlag, vars, tasks, stream
  <2> QED
    BY <2>1, <1>1
<1>9. ASSUME NEW g \in Generations, StreamEnds(g) \/ Superseded(g) \/ FlipFlag(g) \/ Closes(g)
      PROVE  FramesInv'
  BY <1>9, <1>1 DEF StreamEnds, Superseded, FlipFlag, Closes, tasks, stream
<1> QED
  BY <1>2, <1>3, <1>4, <1>5, <1>6, <1>7, <1>8, <1>9 DEF Next, Caller, Reader

\* Nothing but the call in progress is pending.
LEMMA PendingKept == ASSUME ClientInv, [Next]_vars PROVE PendingInv'
<1> USE DEF ClientInv, PendingInv
<1>1. CASE Call \/ RaiseFlag
  <2>1. pc \notin {"writing", "waiting"}
    BY <1>1 DEF Call, RaiseFlag
  <2>2. \A g \in Generations : pending[g] = {}
    BY <2>1
  <2>3. \A g \in Generations : pending'[g] = IF g = conn THEN {nextId} ELSE {}
    BY <1>1, <2>2 DEF Call, RaiseFlag, Register, TypeOK
  <2>4. pc' = "writing" /\ slot' = "empty" /\ conn' = conn /\ OwnId' = nextId
    BY <1>1 DEF Call, RaiseFlag, Register, OwnId, client, TypeOK
  <2> HIDE DEF OwnId
  <2> QED
    BY <2>3, <2>4
<1>2. CASE Written
  BY <1>2 DEF Written, OwnId, client, tasks
<1>3. CASE WriteFails \/ TimesOut
  BY <1>3 DEF WriteFails, TimesOut, client, TypeOK
<1>4. CASE Wakes \/ Return \/ Reconnect \/ DropFlag \/ DialFails
  BY <1>4 DEF Wakes, Return, Reconnect, DropFlag, DialFails, OwnId, client, tasks
<1>5. CASE StopReader \/ ClearPending \/ Dialled
  BY <1>5 DEF StopReader, ClearPending, Dialled, OwnId, client, TypeOK
<1>6. ASSUME NEW g \in Generations, Deliver(g) \/ ClearMap(g) PROVE PendingInv'
  BY <1>6 DEF Deliver, ClearMap, OwnId, client, TypeOK
<1>7. ASSUME NEW g \in Generations,
             \/ ReadFrame(g) \/ RefuseFrame(g) \/ StreamEnds(g) \/ Superseded(g)
             \/ FlipFlag(g) \/ Answers(g) \/ Babbles(g) \/ Closes(g)
      PROVE  PendingInv'
  BY <1>7 DEF ReadFrame, RefuseFrame, StreamEnds, Superseded, FlipFlag, Answers, Babbles,
              Closes, OwnId, caller, client, tasks
<1>8. CASE UNCHANGED vars
  BY <1>8 DEF vars, caller, client, tasks, OwnId
<1> QED
  BY <1>1, <1>2, <1>3, <1>4, <1>5, <1>6, <1>7, <1>8 DEF Next, Caller, Reader

\* The answer a caller holds is to its own call.
LEMMA AnswerKept == ASSUME ClientInv, [Next]_vars PROVE AnswerInv'
<1> USE DEF ClientInv, AnswerInv, InCall
<1>1. CASE Call \/ RaiseFlag
  BY <1>1 DEF Call, RaiseFlag, Register
<1>2. CASE Written \/ WriteFails \/ Wakes \/ TimesOut
  BY <1>2 DEF Written, WriteFails, Wakes, TimesOut, client
<1>3. CASE Return \/ Reconnect \/ DropFlag \/ StopReader \/ ClearPending \/ DialFails \/ Dialled
  BY <1>3 DEF Return, Reconnect, DropFlag, StopReader, ClearPending, DialFails, Dialled
<1>4. ASSUME NEW g \in Generations, Deliver(g) PROVE AnswerInv'
  <2>1. CASE held[g].id \in pending[g] /\ held[g].id = OwnId
    <3>1. g = conn /\ OwnId = call
      BY <2>1 DEF PendingInv, OwnId, IdsInv, TypeOK
    <3>2. held[g] \in OwnAnswers(g)
      BY <2>1 DEF FramesInv, None, TypeOK, Calls
    <3> QED
      BY <1>4, <2>1, <3>1, <3>2 DEF Deliver, OwnAnswers, client
  <2>2. CASE ~(held[g].id \in pending[g] /\ held[g].id = OwnId)
    BY <1>4, <2>2 DEF Deliver, client
  <2> QED
    BY <2>1, <2>2
<1>5. ASSUME NEW g \in Generations,
             \/ ReadFrame(g) \/ RefuseFrame(g) \/ StreamEnds(g) \/ Superseded(g)
             \/ ClearMap(g) \/ FlipFlag(g) \/ Answers(g) \/ Babbles(g) \/ Closes(g)
      PROVE  AnswerInv'
  BY <1>5 DEF ReadFrame, RefuseFrame, StreamEnds, Superseded, ClearMap, FlipFlag, Answers,
              Babbles, Closes, caller, client
<1>6. CASE UNCHANGED vars
  BY <1>6 DEF vars, caller, client
<1> QED
  BY <1>1, <1>2, <1>3, <1>4, <1>5, <1>6 DEF Next, Caller, Reader

\* The old reader has ended when a new one starts.
LEMMA ReaderKept == ASSUME ClientInv, [Next]_vars PROVE ReaderInv'
<1> USE DEF ClientInv, ReaderInv, Live
<1>1. CASE StopReader \/ Dialled
  BY <1>1 DEF StopReader, Dialled, client, TypeOK
<1>2. CASE \/ Call \/ Written \/ WriteFails \/ Wakes \/ TimesOut \/ Return \/ Reconnect
           \/ DropFlag \/ ClearPending \/ DialFails \/ RaiseFlag \/ UNCHANGED vars
  BY <1>2 DEF Call, Written, WriteFails, Wakes, TimesOut, Return, Reconnect, DropFlag,
              ClearPending, DialFails, RaiseFlag, Register, vars, caller, client, tasks
<1>3. ASSUME NEW g \in Generations, Reader(g) PROVE ReaderInv'
  <2>1. /\ \A h \in Generations \ {g} : reader'[h] = reader[h]
        /\ Live(g) /\ UNCHANGED <<pc, conn>>
    BY <1>3 DEF Reader, ReadFrame, RefuseFrame, Deliver, StreamEnds, Superseded, ClearMap,
                FlipFlag, caller, client, TypeOK
  <2> QED
    BY <2>1 DEF TypeOK
<1>4. ASSUME NEW g \in Generations, Answers(g) \/ Babbles(g) \/ Closes(g) PROVE ReaderInv'
  BY <1>4 DEF Answers, Babbles, Closes, caller, client, tasks
<1> QED
  BY <1>1, <1>2, <1>3, <1>4 DEF Next, Caller

\* The flag falls with the reader of the stream in use, or with login.
LEMMA FlagKept == ASSUME ClientInv, [Next]_vars PROVE FlagInv'
<1> USE DEF ClientInv, FlagInv, InCall, Live
<1>1. CASE Call \/ RaiseFlag
  BY <1>1 DEF Call, RaiseFlag, Register, client
<1>2. CASE Written \/ WriteFails \/ Wakes \/ TimesOut
  BY <1>2 DEF Written, WriteFails, Wakes, TimesOut, client, tasks
<1>3. CASE Return
  BY <1>3 DEF Return, Succeeded, tasks, TypeOK
<1>4. CASE Reconnect \/ DropFlag \/ DialFails \/ ClearPending
  BY <1>4 DEF Reconnect, DropFlag, DialFails, ClearPending, client, tasks
<1>5. CASE StopReader \/ Dialled
  BY <1>5 DEF StopReader, Dialled, client
<1>6. ASSUME NEW g \in Generations, Reader(g) PROVE FlagInv'
  <2>1. g = conn /\ Live(g)
    BY <1>6 DEF Reader, ReadFrame, RefuseFrame, Deliver, StreamEnds, Superseded, ClearMap,
                FlipFlag, ReaderInv
  <2>2. CASE FlipFlag(g)
    BY <2>2 DEF FlipFlag, caller
  <2>3. CASE ClearMap(g)
    BY <2>1, <2>3 DEF ClearMap, client, TypeOK
  <2>4. CASE Deliver(g)
    BY <2>1, <2>4 DEF Deliver, client, TypeOK
  <2>5. CASE ReadFrame(g) \/ RefuseFrame(g) \/ StreamEnds(g) \/ Superseded(g)
    BY <2>1, <2>5 DEF ReadFrame, RefuseFrame, StreamEnds, Superseded, caller, client, TypeOK
  <2> QED
    BY <1>6, <2>2, <2>3, <2>4, <2>5 DEF Reader
<1>7. ASSUME NEW g \in Generations, Answers(g) \/ Babbles(g) \/ Closes(g) PROVE FlagInv'
  BY <1>7 DEF Answers, Babbles, Closes, caller, client, tasks
<1>8. CASE UNCHANGED vars
  BY <1>8 DEF vars, caller, client, tasks
<1> QED
  BY <1>1, <1>2, <1>3, <1>4, <1>5, <1>6, <1>7, <1>8 DEF Next, Caller

-----------------------------------------------------------------------------

\* The strengthening holds in every state: ids, frames, the pending map, the
\* reader and the flag of the stream in use.
THEOREM ClientInvariant == Spec => []ClientInv
<1>1. Init => ClientInv
  BY InitClient
<1>2. ClientInv /\ [Next]_vars => ClientInv'
  BY ClientTypeKept, IdsKept, FramesKept, PendingKept, AnswerKept, ReaderKept, FlagKept
  DEF ClientInv
<1> QED
  BY <1>1, <1>2, PTL DEF Spec

\* The client's variables keep their type.
THEOREM ClientTypeCorrect == Spec => []TypeOK
<1>1. ClientInv => TypeOK
  BY DEF ClientInv
<1> QED
  BY <1>1, ClientInvariant, PTL

\* No call is handed the answer to another: not a late one, not one answered
\* twice, not one of an earlier connection.
THEOREM AnswersReachTheirCall == Spec => []AnswersOwnCall
<1>1. ClientInv => AnswersOwnCall
  BY DEF ClientInv, AnswerInv, AnswersOwnCall, InCall
<1> QED
  BY <1>1, ClientInvariant, PTL

\* However often reconnect runs, one connection at most is read.
THEOREM OneReaderAlways == Spec => []OneReader
<1>1. ClientInv => OneReader
  <2> SUFFICES ASSUME ClientInv PROVE OneReader
    OBVIOUS
  <2>1. {g \in Generations : Live(g)} \subseteq {conn}
    BY DEF ClientInv, ReaderInv
  <2>2. IsFiniteSet({conn}) /\ Cardinality({conn}) = 1
    BY FS_Singleton
  <2>3. Cardinality({g \in Generations : Live(g)}) <= Cardinality({conn})
    BY <2>1, <2>2, FS_Subset
  <2> QED
    BY <2>2, <2>3 DEF OneReader
<1> QED
  BY <1>1, ClientInvariant, PTL

\* A raised flag is read: the death of a reader during reconnect is not masked
\* by the flag that goes up after it.
THEOREM FlagIsRead == Spec => []ConnectedIsRead
<1>1. ClientInv => ConnectedIsRead
  BY DEF ClientInv, FlagInv, ConnectedIsRead
<1> QED
  BY <1>1, ClientInvariant, PTL

\* Every path out of a call, answered, refused, timed out or cut off, leaves the
\* maps of all connections empty.
THEOREM NothingLeftBehind == Spec => []NothingLeftPending
<1>1. ClientInv => NothingLeftPending
  BY DEF ClientInv, PendingInv, NothingLeftPending
<1> QED
  BY <1>1, ClientInvariant, PTL
=============================================================================
