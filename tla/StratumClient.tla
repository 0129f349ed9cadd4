--------------------------- MODULE StratumClient ---------------------------
(***************************************************************************)
(* The Stratum client of src/stratum.rs: one caller (mine() owns the       *)
(* client), one reader task per connection, the map of pending requests a  *)
(* connection's reader and the caller share, the reader generation and the *)
(* `connected' channel.  A connection, its reader and its pending map have *)
(* the generation they were made in as their name.                         *)
(*                                                                         *)
(* A request is its id; `call' is the serial number of the call it belongs *)
(* to, which the server's answer carries along so that properties can tell *)
(* whose answer it is.  What an answer says, beyond success or error, and  *)
(* the job channel belong to MineLoop.tla.                                 *)
(***************************************************************************)
EXTENDS Naturals, Sequences, FiniteSets

CONSTANTS
    MaxGenerations,   \* bound: connections opened
    MaxCalls,         \* bound: requests made
    MaxWire           \* bound: answers in flight on one connection

ASSUME StratumAssumption ==
    MaxGenerations \in Nat \ {0} /\ MaxCalls \in Nat \ {0} /\ MaxWire \in Nat \ {0}

VARIABLES
    \* the caller
    pc, after, nextId, call, slot, answer,
    \* StratumClient: the stream in use, the shared generation, the flag
    conn, generation, connected,
    \* per generation: the reader task, the frame it holds, the pending map
    reader, held, pending,
    \* per generation: the server's side of the stream
    closed, received, wire

caller == <<pc, after, nextId, call, slot, answer>>
client == <<conn, generation, connected>>
tasks  == <<reader, held, pending>>
stream == <<closed, received, wire>>
vars   == <<caller, client, tasks, stream>>

Generations == 1..MaxGenerations
Calls       == 1..MaxCalls
Request     == [id : Calls, call : Calls]
Answer      == [id : Calls, call : Calls, gen : Generations, ok : BOOLEAN]
None        == [id |-> 0]

\* Frames that answer nothing: one the reader skips (no JSON, or a push), and
\* one longer than MAX_STRATUM_FRAME_BYTES.
Skipped   == [id |-> 0, oversized |-> FALSE]
Oversized == [id |-> 0, oversized |-> TRUE]

\* Where the caller stands.  "up" is between spawn_reader and the flag.
Pc == {"idle", "writing", "waiting", "returned", "drop", "stop", "clear", "dial",
       "up"}

\* A reader awaits a frame, the lock to hand one over, or the lock to clear
\* the map; "flip" is between its last look at the generation and the flag.
ReaderState == {"absent", "reading", "deliver", "clearing", "flip", "ended"}
Awaiting    == {"reading", "deliver", "clearing"}
Live(g)     == reader[g] \notin {"absent", "ended"}

-----------------------------------------------------------------------------
(* request *)

\* Mutant of Register: the sender is filed under the previous id.
RegisterPrevious(then) ==
    /\ call < MaxCalls
    /\ call' = call + 1
    /\ nextId' = nextId + 1
    /\ pending' = [pending EXCEPT ![conn] = @ \union {nextId - 1}]
    /\ slot' = "empty"
    /\ answer' = None
    /\ after' = then
    /\ pc' = "writing"

\* request: a fresh id goes into the pending map of the stream in use.
Register(then) ==
    /\ call < MaxCalls
    /\ call' = call + 1
    /\ nextId' = nextId + 1
    /\ pending' = [pending EXCEPT ![conn] = @ \union {nextId}]
    /\ slot' = "empty"
    /\ answer' = None
    /\ after' = then
    /\ pc' = "writing"

\* get_job and submit
Call ==
    /\ pc = "idle"
    /\ Register("call")
    /\ UNCHANGED <<client, reader, held, stream>>

\* The id of the call in progress.
OwnId == nextId - 1

Written ==
    /\ pc = "writing"
    /\ pc' = "waiting"
    /\ received' = IF closed[conn] THEN received
                   ELSE [received EXCEPT ![conn] = @ \union {[id |-> OwnId, call |-> call]}]
    /\ UNCHANGED <<after, nextId, call, slot, answer, client, tasks, closed, wire>>

WriteFails ==
    /\ pc = "writing" /\ closed[conn]
    /\ pending' = [pending EXCEPT ![conn] = @ \ {OwnId}]
    /\ slot' = "closed"
    /\ pc' = "returned"
    /\ UNCHANGED <<after, nextId, call, answer, client, reader, held, stream>>

\* Mutant of Wakes: only an answer wakes the receiver.
WakesOnAnswer ==
    /\ pc = "waiting" /\ slot = "answered"
    /\ pc' = "returned"
    /\ UNCHANGED <<after, nextId, call, slot, answer, client, tasks, stream>>

\* The receiver wakes: the answer, or the sender was dropped.
Wakes ==
    /\ pc = "waiting" /\ slot # "empty"
    /\ pc' = "returned"
    /\ UNCHANGED <<after, nextId, call, slot, answer, client, tasks, stream>>

\* Mutant of TimesOut: the pending entry stays behind.
TimesOutKeepsEntry ==
    /\ pc = "waiting" /\ slot = "empty"
    /\ slot' = "closed"
    /\ pc' = "returned"
    /\ UNCHANGED <<after, nextId, call, answer, client, tasks, stream>>

\* 30 s without an answer.
TimesOut ==
    /\ pc = "waiting" /\ slot = "empty"
    /\ pending' = [pending EXCEPT ![conn] = @ \ {OwnId}]
    /\ slot' = "closed"
    /\ pc' = "returned"
    /\ UNCHANGED <<after, nextId, call, answer, client, reader, held, stream>>

Succeeded == slot = "answered" /\ answer.ok

\* Mutant of Return: the flag goes up when login is answered, whether or not
\* the reader has died since.
ReturnRaisesFlag ==
    /\ pc = "returned"
    /\ connected' = IF after = "login" THEN Succeeded ELSE connected
    /\ pc' = "idle"
    /\ UNCHANGED <<after, nextId, call, slot, answer, conn, generation, tasks, stream>>

\* get_job and submit hand the result on; a login that failed (no answer, or
\* ensure_ok refuses it) takes the flag down, one that worked is connected.
Return ==
    /\ pc = "returned"
    /\ connected' = (connected /\ (after = "login" => Succeeded))
    /\ pc' = "idle"
    /\ UNCHANGED <<after, nextId, call, slot, answer, conn, generation, tasks, stream>>

-----------------------------------------------------------------------------
(* reconnect *)

\* The generation moves before the flag falls.
Reconnect ==
    /\ pc = "idle" /\ generation < MaxGenerations
    /\ generation' = generation + 1
    /\ pc' = "drop"
    /\ UNCHANGED <<after, nextId, call, slot, answer, conn, connected, tasks, stream>>

DropFlag ==
    /\ pc = "drop"
    /\ connected' = FALSE
    /\ pc' = "stop"
    /\ UNCHANGED <<after, nextId, call, slot, answer, conn, generation, tasks, stream>>

\* Mutant of StopReader: the old reader is neither aborted nor awaited.
StopReaderDetached ==
    /\ pc = "stop"
    /\ pc' = "clear"
    /\ UNCHANGED <<after, nextId, call, slot, answer, client, tasks, stream>>

\* stop_reader: abort takes effect where the reader awaits, and drops what it
\* holds; past that the caller waits for it to run to its end.
StopReader ==
    /\ pc = "stop"
    /\ reader[conn] # "flip"
    /\ reader' = [reader EXCEPT ![conn] = "ended"]
    /\ held' = [held EXCEPT ![conn] = None]
    /\ wire' = [wire EXCEPT ![conn] = <<>>]
    /\ pc' = "clear"
    /\ UNCHANGED <<after, nextId, call, slot, answer, client, pending, closed, received>>

\* The writer is shut down and the old map emptied.
ClearPending ==
    /\ pc = "clear"
    /\ closed' = [closed EXCEPT ![conn] = TRUE]
    /\ pending' = [pending EXCEPT ![conn] = {}]
    /\ pc' = "dial"
    /\ UNCHANGED <<after, nextId, call, slot, answer, client, reader, held, received,
                   wire>>

DialFails ==
    /\ pc = "dial"
    /\ pc' = "idle"
    /\ UNCHANGED <<after, nextId, call, slot, answer, client, tasks, stream>>

\* A new stream, map and reader, of the generation taken above.
Dialled ==
    /\ pc = "dial"
    /\ conn' = generation
    /\ closed' = [closed EXCEPT ![generation] = FALSE]
    /\ reader' = [reader EXCEPT ![generation] = "reading"]
    /\ pc' = "up"
    /\ UNCHANGED <<after, nextId, call, slot, answer, generation, connected, held,
                   pending, received, wire>>

\* The flag goes up before login is asked.
RaiseFlag ==
    /\ pc = "up"
    /\ connected' = TRUE
    /\ Register("login")
    /\ UNCHANGED <<conn, generation, reader, held, stream>>

-----------------------------------------------------------------------------
(* spawn_reader: the task of generation g *)

\* A frame is read and the generation looked at again.
ReadFrame(g) ==
    /\ reader[g] = "reading" /\ wire[g] # <<>> /\ Head(wire[g]) # Oversized
    /\ held' = [held EXCEPT ![g] = IF Head(wire[g]) = Skipped THEN None ELSE Head(wire[g])]
    /\ wire' = [wire EXCEPT ![g] = Tail(@)]
    /\ reader' = [reader EXCEPT ![g] = CASE generation # g -> "clearing"
                                         [] Head(wire[g]) = Skipped -> "reading"
                                         [] OTHER -> "deliver"]
    /\ UNCHANGED <<caller, client, pending, closed, received>>

\* read_frame refuses a frame, and the reader gives up a stream that is open:
\* requests can still be written to it.
RefuseFrame(g) ==
    /\ reader[g] = "reading" /\ wire[g] # <<>> /\ Head(wire[g]) = Oversized
    /\ wire' = [wire EXCEPT ![g] = <<>>]
    /\ reader' = [reader EXCEPT ![g] = "clearing"]
    /\ UNCHANGED <<caller, client, held, pending, closed, received>>

\* Mutant of Deliver: whatever call is waiting gets the answer.
DeliverToAny(g) ==
    /\ reader[g] = "deliver"
    /\ \/ /\ pending[g] # {}
          /\ pending' = [pending EXCEPT ![g] = {}]
          /\ slot' = "answered" /\ answer' = held[g]
       \/ pending[g] = {} /\ UNCHANGED <<pending, slot, answer>>
    /\ reader' = [reader EXCEPT ![g] = "reading"]
    /\ held' = [held EXCEPT ![g] = None]
    /\ UNCHANGED <<pc, after, nextId, call, client, stream>>

\* The sender registered under the answer's id gets it; no such id, no effect.
Deliver(g) ==
    /\ reader[g] = "deliver"
    /\ \/ /\ held[g].id \in pending[g]
          /\ pending' = [pending EXCEPT ![g] = @ \ {held[g].id}]
          /\ \/ held[g].id = OwnId /\ slot' = "answered" /\ answer' = held[g]
             \/ held[g].id # OwnId /\ UNCHANGED <<slot, answer>>
       \/ held[g].id \notin pending[g] /\ UNCHANGED <<pending, slot, answer>>
    /\ reader' = [reader EXCEPT ![g] = "reading"]
    /\ held' = [held EXCEPT ![g] = None]
    /\ UNCHANGED <<pc, after, nextId, call, client, stream>>

\* End of stream, or a read error, which loses what was still to be read.
StreamEnds(g) ==
    /\ reader[g] = "reading" /\ closed[g]
    /\ reader' = [reader EXCEPT ![g] = "clearing"]
    /\ UNCHANGED <<caller, client, held, pending, stream>>

\* Between frames it sees that reconnect has moved the generation on.
Superseded(g) ==
    /\ reader[g] = "reading" /\ generation # g
    /\ reader' = [reader EXCEPT ![g] = "clearing"]
    /\ UNCHANGED <<caller, client, held, pending, stream>>

\* The senders left are dropped, which wakes their receivers with an error.
\* What the reader has not read it never will.
ClearMap(g) ==
    /\ reader[g] = "clearing"
    /\ pending' = [pending EXCEPT ![g] = {}]
    /\ held' = [held EXCEPT ![g] = None]
    /\ wire' = [wire EXCEPT ![g] = <<>>]
    /\ slot' = IF OwnId \in pending[g] THEN "closed" ELSE slot
    /\ reader' = [reader EXCEPT ![g] = IF generation = g THEN "flip" ELSE "ended"]
    /\ UNCHANGED <<pc, after, nextId, call, answer, client, closed, received>>

FlipFlag(g) ==
    /\ reader[g] = "flip"
    /\ connected' = FALSE
    /\ reader' = [reader EXCEPT ![g] = "ended"]
    /\ UNCHANGED <<caller, conn, generation, held, pending, stream>>

-----------------------------------------------------------------------------
(* The server; what it sends where nobody reads has no effect. *)

Heard(g) == reader[g] \in {"reading", "deliver"} /\ ~closed[g]

\* It answers a request it has received, at any time and in any order, and
\* may answer it again.
Answers(g) ==
    /\ Heard(g) /\ Len(wire[g]) < MaxWire
    /\ \E r \in received[g], ok, again \in BOOLEAN :
          /\ wire' = [wire EXCEPT ![g] =
                         Append(@, [id |-> r.id, call |-> r.call, gen |-> g, ok |-> ok])]
          /\ received' = [received EXCEPT ![g] = IF again THEN @ ELSE @ \ {r}]
    /\ UNCHANGED <<caller, client, tasks, closed>>

\* It sends what is not an answer.
Babbles(g) ==
    /\ Heard(g) /\ Len(wire[g]) < MaxWire
    /\ \E frame \in {Skipped, Oversized} : wire' = [wire EXCEPT ![g] = Append(@, frame)]
    /\ UNCHANGED <<caller, client, tasks, closed, received>>

\* It closes, or the link breaks; what has arrived can still be read.
Closes(g) ==
    /\ ~closed[g] /\ reader[g] # "absent"
    /\ closed' = [closed EXCEPT ![g] = TRUE]
    /\ UNCHANGED <<caller, client, tasks, received, wire>>

-----------------------------------------------------------------------------
\* connect: the first generation is 1 and its reader runs before the flag.
Init ==
    /\ pc = "up" /\ after = "login" /\ nextId = 1 /\ call = 0
    /\ slot = "closed" /\ answer = None
    /\ conn = 1 /\ generation = 1 /\ connected = FALSE
    /\ reader = [g \in Generations |-> IF g = 1 THEN "reading" ELSE "absent"]
    /\ held = [g \in Generations |-> None]
    /\ pending = [g \in Generations |-> {}]
    /\ closed = [g \in Generations |-> g # 1]
    /\ received = [g \in Generations |-> {}]
    /\ wire = [g \in Generations |-> <<>>]

Caller ==
    \/ Call \/ Written \/ WriteFails \/ Wakes \/ TimesOut \/ Return
    \/ Reconnect \/ DropFlag \/ StopReader \/ ClearPending
    \/ DialFails \/ Dialled \/ RaiseFlag

Reader(g) ==
    \/ ReadFrame(g) \/ RefuseFrame(g) \/ Deliver(g) \/ StreamEnds(g)
    \/ Superseded(g) \/ ClearMap(g) \/ FlipFlag(g)

Next == Caller \/ \E g \in Generations : Reader(g) \/ Answers(g) \/ Babbles(g) \/ Closes(g)

Spec == Init /\ [][Next]_vars

\* The runtime runs every ready task, and the timer of a request fires.
FairSpec ==
    /\ Spec
    /\ WF_vars(Written \/ Wakes \/ TimesOut \/ Return \/ DropFlag \/ StopReader
               \/ ClearPending)
    /\ \A g \in Generations : WF_vars(Reader(g))

-----------------------------------------------------------------------------
(* Correctness *)

TypeOK ==
    /\ pc \in Pc /\ after \in {"call", "login"}
    /\ nextId \in 1..(MaxCalls + 1) /\ call \in 0..MaxCalls
    /\ slot \in {"empty", "answered", "closed"} /\ answer \in Answer \union {None}
    /\ conn \in Generations /\ generation \in Generations /\ connected \in BOOLEAN
    /\ reader \in [Generations -> ReaderState]
    /\ held \in [Generations -> Answer \union {None}]
    /\ pending \in [Generations -> SUBSET Calls]
    /\ closed \in [Generations -> BOOLEAN]
    /\ received \in [Generations -> SUBSET Request]
    /\ wire \in [Generations -> Seq(Answer \union {Skipped, Oversized})]

\* A call that gets an answer gets its own: not the late answer to a call
\* that timed out before it, not one from an earlier connection.
AnswersOwnCall ==
    pc \in {"waiting", "returned"} /\ slot = "answered"
        => answer.call = call /\ answer.gen = conn

\* Two connections are never read at once: the reader of the old one has run
\* to its end before the new stream exists, so nothing of the old connection
\* is published after the new one is up.
OneReader == Cardinality({g \in Generations : Live(g)}) <= 1

\* Between calls, `connected' says there is a reader to notice the end of the
\* stream: a reader that dies while reconnect runs is not masked by the flag
\* going up after it.
ConnectedIsRead == pc = "idle" /\ connected => Live(conn)

\* Between calls nothing is pending: no error path leaves its entry behind.
NothingLeftPending == pc = "idle" => \A g \in Generations : pending[g] = {}

\* A caller waiting on a connection that has been read to its end is woken at
\* once, by the drop of its sender or by the timer, and every call returns.
CallsReturn == pc \in {"writing", "waiting"} ~> pc = "idle"
=============================================================================
