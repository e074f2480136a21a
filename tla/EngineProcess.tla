--------------------------- MODULE EngineProcess ---------------------------
(***************************************************************************)
(* The engine in a process of its own (runtime/engine/process.py): a       *)
(* client in the HTTP process, a server around the engine, and a pipe.     *)
(* The engine itself is any engine: a stream yields tokens and then        *)
(* finishes or raises, as EngineCore's StreamsEnd says.                    *)
(*                                                                         *)
(* A reader thread and its callback queue only lengthen the pipe, so each  *)
(* side takes a message off the pipe and handles it in one step.           *)
(***************************************************************************)
EXTENDS Naturals, Sequences, FiniteSets, SequencesExt

CONSTANTS
    MaxOperations, \* bound: streams and metrics calls made by the client
    MaxTokens,    \* bound: tokens of a stream
    Errors        \* exceptions an engine stream may raise

\* The exception classes that keep their identity across the pipe.
Kinds == {"not_ready", "overloaded", "rejected", "generation"}

ASSUME ProcessAssumption ==
    /\ MaxTokens \in Nat
    /\ MaxOperations \in Nat
    /\ Errors \subseteq Kinds \cup {"other"}

\* Ids are counted from 1 and used once.
Streams == 1..MaxOperations
Calls == 1..MaxOperations

VARIABLES
    \* the client
    started,      \* _started_future: "pending", "ok" or "failed"
    stopped,      \* _stopped
    reader,       \* the response reader: "reading" or "done"
    closePhase,   \* close(): "open", "stopping", "joining" or "closed"
    clientOpen,   \* the client's end of the pipe
    registered,   \* keys of _streams
    queue,        \* _streams[r]: what the consumer has not read yet
    consumer,     \* the generator returned by stream()
    got,          \* what the generator has yielded so far (ghost)
    call,         \* state of each snapshot() call and its waiter
    asked,        \* when the call was made (ghost)
    answer,       \* the snapshot in the waiter, as the time it was taken
    kept,         \* _snapshot: none, or the one of the last call to return an
                  \* answer: when it was taken, when the call was made (ghost)
    \* the pipe
    toServer, toClient,
    \* the server
    phase,        \* "boot", "serving", "draining", "flushing" or "exited"
    tasks,        \* the forwarding task of each stream
    responses,    \* the writer's asyncio queue
    writer,       \* "running", "done", "failed"; "none" without a process
    graceful,     \* graceful_shutdown
    emitted       \* what each engine stream has said (ghost)

clientVars == <<started, stopped, reader, closePhase, clientOpen>>
streamVars == <<registered, queue, consumer, got>>
callVars   == <<call, asked, answer, kept>>
pipeVars   == <<toServer, toClient>>
serverVars == <<phase, tasks, responses, writer, graceful, emitted>>
vars == <<clientVars, streamVars, callVars, pipeVars, serverVars>>

---------------------------------------------------------------------------
(* Messages *)

StartStream(r)  == [kind |-> "start", id |-> r]
CancelStream(r) == [kind |-> "cancel", id |-> r]
ReadMetrics(c)  == [kind |-> "metrics", id |-> c]
Shutdown        == [kind |-> "shutdown"]

Token(n)    == [kind |-> "token", n |-> n]
Finished(n) == [kind |-> "finished", n |-> n]
Raised(e)   == [kind |-> "error", n |-> e]

StreamEvent(r, item)   == [kind |-> "event", id |-> r, item |-> item]
StreamFailure(r, what) == [kind |-> "failure", id |-> r, item |-> Raised(what)]
MetricsResult(c, v)    == [kind |-> "metrics", id |-> c, value |-> v]
Started        == [kind |-> "started"]
ProcessFailure == [kind |-> "processFailure"]
Stopped        == [kind |-> "stopped"]
WriterEnd      == [kind |-> "none"]

\* The error of a lost connection, put in the queue by the client itself.
LostError == Raised("lost")

FailureKind(e) == IF e \in Kinds THEN e ELSE "generation"

\* The class the client raises for a kind; one it does not know is generic.
RemoteError(k) ==
    IF k \in {"not_ready", "overloaded", "rejected"} THEN k ELSE "generation"

---------------------------------------------------------------------------
Init ==
    /\ started = "pending" /\ stopped = FALSE /\ reader = "reading"
    /\ closePhase = "open" /\ clientOpen = TRUE
    /\ registered = {}
    /\ queue = [r \in Streams |-> << >>]
    /\ consumer = [r \in Streams |-> "idle"]
    /\ got = [r \in Streams |-> << >>]
    /\ call = [c \in Calls |-> "idle"]
    /\ asked = [c \in Calls |-> 0]
    /\ answer = [c \in Calls |-> 0]
    /\ kept = {}
    /\ toServer = << >> /\ toClient = << >>
    /\ phase = "boot"
    /\ tasks = [r \in Streams |-> "none"]
    /\ responses = << >>
    /\ writer = "running"
    /\ graceful = FALSE
    /\ emitted = [r \in Streams |-> << >>]

ServerAlive == phase # "exited"
closing == closePhase # "open"

\* ConnectionEngineClient.ready
ready == ~closing /\ started = "ok" /\ ~stopped

\* _send reaches the pipe; with the other end closed it raises.
CanSend == ServerAlive /\ clientOpen

\* The operations made so far: a clock that the client moves.
Clock == Cardinality({r \in Streams : consumer[r] # "idle"})
         + Cardinality({c \in Calls : call[c] # "idle"})

---------------------------------------------------------------------------
(* The client: streams *)

\* stream() up to its first await.  A send that raises is outside the
\* generator's try, so the entry of _streams stays.
OpenStream(r) ==
    /\ consumer[r] = "idle" /\ ready
    /\ Clock < MaxOperations
    /\ \A q \in 1..(r - 1) : consumer[q] # "idle"
    /\ registered' = registered \cup {r}
    /\ toServer' = IF CanSend THEN Append(toServer, StartStream(r)) ELSE toServer
    /\ consumer' = [consumer EXCEPT ![r] = IF CanSend THEN "open" ELSE "ended"]
    /\ UNCHANGED <<clientVars, queue, got, callVars, toClient, serverVars>>

\* The generator's finally: drop the entry, cancel what has not finished.
LeaveStream(r, finished) ==
    /\ consumer' = [consumer EXCEPT ![r] = "ended"]
    /\ registered' = registered \ {r}
    /\ queue' = [queue EXCEPT ![r] = << >>]
    /\ got' = [got EXCEPT ![r] = << >>]
    /\ toServer' = IF ~finished /\ ready /\ CanSend
                   THEN Append(toServer, CancelStream(r)) ELSE toServer

Consume(r) ==
    /\ consumer[r] = "open" /\ queue[r] # << >>
    /\ LET item == Head(queue[r]) IN
       \/ /\ item.kind = "token"
          /\ got' = [got EXCEPT ![r] = Append(@, item)]
          /\ queue' = [queue EXCEPT ![r] = Tail(@)]
          /\ UNCHANGED <<registered, consumer, toServer>>
       \/ item.kind = "finished" /\ LeaveStream(r, TRUE)
       \/ item.kind = "error" /\ LeaveStream(r, FALSE)
    /\ UNCHANGED <<clientVars, callVars, toClient, serverVars>>

\* The consumer closes the generator or is cancelled.
Abandon(r) ==
    /\ consumer[r] = "open"
    /\ LeaveStream(r, FALSE)
    /\ UNCHANGED <<clientVars, callVars, toClient, serverVars>>

---------------------------------------------------------------------------
(* The client: metrics, called on other threads *)

\* Calls are made in the order of their numbers.
NextCall(c) ==
    /\ call[c] = "idle" /\ Clock < MaxOperations
    /\ \A d \in 1..(c - 1) : call[d] # "idle"

\* snapshot() finds the client not ready: it returns what is kept, however
\* old, and raises if there is nothing.
ReadKept(c) ==
    /\ NextCall(c) /\ ~ready
    /\ call' = [call EXCEPT ![c] = "done"]
    /\ asked' = [asked EXCEPT ![c] = 0]
    /\ UNCHANGED <<clientVars, streamVars, answer, kept, pipeVars, serverVars>>

\* snapshot() finds the client ready ...
AskMetrics(c) ==
    /\ NextCall(c) /\ ready
    /\ call' = [call EXCEPT ![c] = "ready"]
    /\ asked' = [asked EXCEPT ![c] = Clock + 1]
    /\ UNCHANGED <<clientVars, streamVars, answer, kept, pipeVars, serverVars>>

\* ... and then registers its waiter and sends, when it may no longer be.
SendReadMetrics(c) ==
    /\ call[c] = "ready"
    /\ call' = [call EXCEPT ![c] = IF CanSend THEN "waiting" ELSE "done"]
    /\ toServer' = IF CanSend THEN Append(toServer, ReadMetrics(c)) ELSE toServer
    /\ UNCHANGED <<clientVars, streamVars, asked, answer, kept, toClient, serverVars>>

\* The snapshot of _Started, older than every call that asks.
KeptAtStart == [asked |-> 0, taken |-> 0]

\* An answer becomes what the client keeps; a timeout or an error leaves it.
Kept(c) ==
    IF call[c] = "answered" THEN {[asked |-> asked[c], taken |-> answer[c]]} ELSE kept

\* The waiter is answered or failed; or the wait times out, and the finally
\* removes the waiter.
ReturnMetrics(c) ==
    /\ call[c] \in {"waiting", "answered", "failed"}
    /\ call' = [call EXCEPT ![c] = "done"]
    /\ asked' = [asked EXCEPT ![c] = 0]
    /\ answer' = [answer EXCEPT ![c] = 0]
    /\ kept' = Kept(c)
    /\ UNCHANGED <<clientVars, streamVars, pipeVars, serverVars>>

---------------------------------------------------------------------------
(* The client: responses *)

IsOf(kind, batch) == \E i \in DOMAIN batch : batch[i].kind = kind

\* What a message puts in the queue of a stream: an event, an error, nothing.
ItemsOf(r, m) ==
    IF m.kind \notin {"event", "failure"} THEN << >>
    ELSE IF m.id # r THEN << >>
    ELSE IF m.kind = "event" THEN <<m.item>>
    ELSE <<Raised(RemoteError(m.item.n))>>

ItemsFor(r, batch) == FlattenSeq([i \in DOMAIN batch |-> ItemsOf(r, batch[i])])

\* Variant: an event goes to every open stream.
StreamQueuesForAll(batch) ==
    [r \in Streams |-> IF r \in registered
                       THEN queue[r] \o ItemsFor(1, batch) \o ItemsFor(2, batch)
                       ELSE queue[r]]

\* _streams[r].put_nowait, for the streams that are still there.
StreamQueues(batch) ==
    [r \in Streams |-> IF r \in registered THEN queue[r] \o ItemsFor(r, batch)
                       ELSE queue[r]]

\* Variant: whoever waits takes the next result.
AnswersAny(c, batch) ==
    {batch[i].value : i \in {j \in DOMAIN batch : batch[j].kind = "metrics"}}

\* The metrics results of a batch for a call.
Answers(c, batch) ==
    {batch[i].value : i \in {j \in DOMAIN batch : batch[j].kind = "metrics"
                                                  /\ batch[j].id = c}}

Waiting(c) == call[c] \in {"waiting", "answered", "failed"}

\* Variant: only the start and the waiters are told.
FailAllCalls ==
    /\ started' = IF started = "pending" THEN "failed" ELSE started
    /\ call' = [c \in Calls |-> IF Waiting(c) THEN "failed" ELSE call[c]]
    /\ UNCHANGED queue

\* _fail: the start, every stream and every waiter gets the error.
FailAll ==
    /\ started' = IF started = "pending" THEN "failed" ELSE started
    /\ queue' = [r \in Streams |-> IF r \in registered
                                   THEN Append(queue[r], LostError) ELSE queue[r]]
    /\ call' = [c \in Calls |-> IF Waiting(c) THEN "failed" ELSE call[c]]

\* _dispatch of one message of the pipe; a batch is dispatched in one go.
Dispatch ==
    /\ reader = "reading" /\ toClient # << >>
    /\ toClient' = Tail(toClient)
    /\ LET batch == Head(toClient) IN
       IF IsOf("processFailure", batch)
       THEN FailAll /\ UNCHANGED <<stopped, reader, answer, kept>>
       ELSE /\ started' = IF IsOf("started", batch) /\ started = "pending"
                          THEN "ok" ELSE started
            /\ queue' = StreamQueues(batch)
            /\ call' = [c \in Calls |-> IF call[c] = "waiting"
                                           /\ Answers(c, batch) # {}
                                        THEN "answered" ELSE call[c]]
            /\ answer' = [c \in Calls |-> IF Waiting(c) /\ Answers(c, batch) # {}
                                          THEN CHOOSE v \in Answers(c, batch) : TRUE
                                          ELSE answer[c]]
            /\ kept' = IF IsOf("started", batch)
                       THEN {KeptAtStart} ELSE kept
            /\ stopped' = (stopped \/ IsOf("stopped", batch))
            /\ reader' = IF IsOf("stopped", batch) THEN "done" ELSE reader
    /\ UNCHANGED <<closePhase, clientOpen, registered, consumer, got, asked,
                   toServer, serverVars>>

\* Variant: a client that is closing does not note the loss.
LostUnnoted ==
    /\ reader = "reading"
    /\ (~ServerAlive /\ toClient = << >>) \/ ~clientOpen
    /\ reader' = "done"
    /\ stopped' = (stopped \/ ~closing)
    /\ IF closing THEN UNCHANGED <<started, queue, call>> ELSE FailAll
    /\ UNCHANGED <<closePhase, clientOpen, registered, consumer, got, asked,
                   answer, kept, pipeVars, serverVars>>

\* EOF, or the client's own end closed under the reader: _lost.
Lost ==
    /\ reader = "reading"
    /\ (~ServerAlive /\ toClient = << >>) \/ ~clientOpen
    /\ reader' = "done"
    /\ stopped' = TRUE
    /\ IF closing THEN UNCHANGED <<started, queue, call>> ELSE FailAll
    /\ UNCHANGED <<closePhase, clientOpen, registered, consumer, got, asked,
                   answer, kept, pipeVars, serverVars>>

---------------------------------------------------------------------------
(* The client: close, with the process around it *)

\* close() up to its wait; start() comes here when it fails or times out.
CloseBegins ==
    /\ closePhase = "open"
    /\ IF stopped
       THEN closePhase' = "joining" /\ clientOpen' = FALSE /\ UNCHANGED toServer
       ELSE /\ closePhase' = "stopping"
            /\ toServer' = IF CanSend THEN Append(toServer, Shutdown) ELSE toServer
            /\ UNCHANGED clientOpen
    /\ UNCHANGED <<started, stopped, reader, streamVars, callVars, toClient,
                   serverVars>>

\* The wait for _stopped ends, by itself or by its timeout.
CloseConnection ==
    /\ closePhase = "stopping"
    /\ closePhase' = "joining"
    /\ clientOpen' = FALSE
    /\ UNCHANGED <<started, stopped, reader, streamVars, callVars, pipeVars,
                   serverVars>>

\* The process is gone, and what it had in memory with it.
Die ==
    /\ phase' = "exited"
    /\ responses' = << >> /\ toServer' = << >>
    /\ tasks' = [r \in Streams |-> "none"]
    /\ writer' = "none" /\ graceful' = FALSE
    /\ UNCHANGED emitted

\* process.join returns because the process has ended, or times out and the
\* process is terminated.
JoinProcess ==
    /\ closePhase = "joining"
    /\ closePhase' = "closed"
    /\ Die
    /\ UNCHANGED <<started, stopped, reader, clientOpen, streamVars, callVars,
                   toClient>>

---------------------------------------------------------------------------
(* The server: start, crash, end *)

\* serve_engine_connection up to its loop: send _Started.
Boot ==
    /\ phase = "boot"
    /\ phase' = "serving"
    /\ toClient' = Append(toClient, <<Started>>)
    /\ UNCHANGED <<clientVars, streamVars, callVars, toServer, tasks,
                   responses, writer, graceful, emitted>>

\* The end of run_engine_server: an exception is reported if the pipe allows.
Exit(raising) ==
    /\ Die
    /\ toClient' = IF raising /\ clientOpen
                   THEN Append(toClient, <<ProcessFailure>>) ELSE toClient

\* The factory raises, the engine is not ready, or _Started cannot be sent.
BootFails ==
    /\ phase = "boot"
    /\ Exit(TRUE)
    /\ UNCHANGED <<clientVars, streamVars, callVars>>

\* The process dies; what it has written can still be read.
Crash ==
    /\ ServerAlive
    /\ Die
    /\ UNCHANGED <<clientVars, streamVars, callVars, toClient>>

---------------------------------------------------------------------------
(* The server: the pump *)

\* The finally of serve_engine_connection cancels every forwarding task.
Drain ==
    /\ phase' = "draining"
    /\ tasks' = [r \in Streams |-> IF tasks[r] = "running"
                                   THEN "cancelled" ELSE tasks[r]]

\* One command.
Pump ==
    /\ phase = "serving" /\ toServer # << >>
    /\ toServer' = Tail(toServer)
    /\ LET command == Head(toServer) IN
       \/ /\ command.kind = "start"
          /\ tasks' = [tasks EXCEPT ![command.id] = "running"]
          /\ UNCHANGED <<phase, responses, graceful>>
       \/ /\ command.kind = "cancel"
          /\ tasks' = [tasks EXCEPT ![command.id] =
                          IF @ = "running" THEN "cancelled" ELSE @]
          /\ UNCHANGED <<phase, responses, graceful>>
       \/ /\ command.kind = "metrics"
          /\ responses' = Append(responses, MetricsResult(command.id, Clock))
          /\ UNCHANGED <<phase, tasks, graceful>>
       \/ /\ command.kind = "shutdown"
          /\ graceful' = TRUE
          /\ Drain
          /\ UNCHANGED responses
    /\ UNCHANGED <<clientVars, streamVars, callVars, toClient, writer, emitted>>

\* EOF, after or in the middle of a burst (what was read of it is dropped), or
\* the writer has failed: the pump stops without a _Shutdown.
PumpWoken ==
    /\ phase = "serving"
    /\ ~clientOpen \/ writer = "failed"
    /\ Drain
    /\ UNCHANGED <<clientVars, streamVars, callVars, pipeVars, responses, writer,
                   graceful, emitted>>

---------------------------------------------------------------------------
(* The server: forwarding tasks and the writer *)

LoopRuns == phase \in {"serving", "draining", "flushing"}

\* The engine stream yields a token; after its last event the task ends.
Forward(r) ==
    /\ LoopRuns /\ tasks[r] = "running"
    /\ LET n == Len(emitted[r]) + 1 IN
       \/ /\ n <= MaxTokens
          /\ emitted' = [emitted EXCEPT ![r] = Append(@, Token(n))]
          /\ responses' = Append(responses, StreamEvent(r, Token(n)))
          /\ UNCHANGED tasks
       \/ /\ emitted' = [emitted EXCEPT ![r] = Append(@, Finished(n))]
          /\ responses' = Append(responses, StreamEvent(r, Finished(n)))
          /\ tasks' = [tasks EXCEPT ![r] = "ended"]
       \/ \E e \in Errors :
          /\ emitted' = [emitted EXCEPT ![r] = Append(@, Raised(e))]
          /\ responses' = Append(responses, StreamFailure(r, FailureKind(e)))
          /\ tasks' = [tasks EXCEPT ![r] = "ended"]
    /\ UNCHANGED <<clientVars, streamVars, callVars, pipeVars, phase,
                   writer, graceful>>

\* A cancelled task closes its engine stream and says nothing.
ForwardCancelled(r) ==
    /\ LoopRuns /\ tasks[r] = "cancelled"
    /\ tasks' = [tasks EXCEPT ![r] = "ended"]
    /\ UNCHANGED <<clientVars, streamVars, callVars, pipeVars, phase,
                   responses, writer, graceful, emitted>>

\* _write_responses: everything ready goes out as one message.
Write ==
    /\ LoopRuns /\ writer = "running" /\ responses # << >>
    /\ LET ends  == Last(responses) = WriterEnd
           batch == IF ends THEN Front(responses) ELSE responses IN
       \/ /\ toClient' = IF batch = << >> THEN toClient ELSE Append(toClient, batch)
          /\ writer' = IF ends THEN "done" ELSE writer
       \/ /\ ~clientOpen
          /\ writer' = "failed"
          /\ UNCHANGED toClient
    /\ responses' = << >>
    /\ UNCHANGED <<clientVars, streamVars, callVars, toServer, phase, tasks,
                   graceful, emitted>>

---------------------------------------------------------------------------
(* The server: shutdown *)

Drained == phase = "draining" /\ \A r \in Streams : tasks[r] \in {"none", "ended"}

\* runtime.close() after a _Shutdown command: say so and let the writer end.
CloseRuntime ==
    /\ Drained /\ graceful
    /\ phase' = "flushing"
    /\ responses' = IF writer = "running"
                    THEN responses \o <<Stopped, WriterEnd>> ELSE responses
    /\ UNCHANGED <<clientVars, streamVars, callVars, pipeVars, tasks,
                   writer, graceful, emitted>>

\* runtime.close() raises, or nobody asked for a shutdown: the writer is
\* cancelled with whatever it had.  A failed writer has raised in the pump.
CloseAbruptly ==
    /\ Drained
    /\ \E raises \in BOOLEAN :
          /\ graceful => raises
          /\ Exit(raises \/ writer = "failed")
    /\ UNCHANGED <<clientVars, streamVars, callVars>>

\* await writer, then the process ends.
EndServer ==
    /\ phase = "flushing" /\ writer \in {"done", "failed"}
    /\ Exit(writer = "failed")
    /\ UNCHANGED <<clientVars, streamVars, callVars>>

---------------------------------------------------------------------------
Client ==
    \/ \E r \in Streams : OpenStream(r) \/ Consume(r) \/ Abandon(r)
    \/ \E c \in Calls : ReadKept(c) \/ AskMetrics(c)
    \/ \E c \in Calls : SendReadMetrics(c) \/ ReturnMetrics(c)
    \/ Dispatch \/ Lost
    \/ CloseBegins \/ CloseConnection \/ JoinProcess

Server ==
    \/ Boot \/ BootFails \/ Crash
    \/ Pump \/ PumpWoken
    \/ \E r \in Streams : Forward(r) \/ ForwardCancelled(r)
    \/ Write \/ CloseRuntime \/ CloseAbruptly \/ EndServer

Next == Client \/ Server

\* The steps that threads and tasks take by themselves.  The application need
\* not open or abandon a stream, no exception and no crash must happen, and no
\* timeout is relied upon: CloseConnection and JoinProcess are here only once
\* what they wait for has come.
ClientRuns ==
    \/ \E r \in Streams : Consume(r)
    \/ Dispatch \/ Lost
    \/ started = "failed" /\ CloseBegins
    \/ stopped /\ CloseConnection
    \/ ~ServerAlive /\ JoinProcess

ServerRuns ==
    \/ \E r \in Streams : Forward(r) \/ ForwardCancelled(r)
    \/ Boot \/ Pump \/ PumpWoken \/ Write
    \/ CloseRuntime \/ CloseAbruptly \/ EndServer

\* Neither process stops while it can go on.
Fairness == WF_vars(ClientRuns) /\ WF_vars(ServerRuns)

Spec == Init /\ [][Next]_vars /\ Fairness

---------------------------------------------------------------------------
(* Properties *)

\* What the engine said, as the consumer is meant to see it.
AsSeen(item) ==
    IF item.kind = "error" /\ item.n \notin Kinds THEN Raised("generation") ELSE item

Said(r) == [i \in DOMAIN emitted[r] |-> AsSeen(emitted[r][i])]

Known(items) ==
    FlattenSeq([i \in DOMAIN items |->
                    IF items[i] = LostError THEN << >> ELSE <<items[i]>>])

Seen(r) == Known(got[r] \o queue[r])

InFlight(r) == ItemsFor(r, FlattenSeq(toClient) \o responses)

\* What a consumer has read and will read of its stream is what the engine
\* said on that stream, in that order: events of other streams, late events
\* and the events of a batch are never mixed up, and the error class survives.
\* While the server serves, everything else the engine said is on its way.
\* (process.py _forward_stream, _write_responses, _dispatch)
Delivered ==
    \A r \in Streams :
        /\ IsPrefix(Seen(r), Said(r))
        /\ (consumer[r] = "open" /\ phase = "serving" /\ writer = "running")
              => Seen(r) \o InFlight(r) = Said(r)

\* A snapshot() that asks the engine and is answered shows it at some time
\* during the call: an answer that comes after its own timeout is not given to
\* a later call.  A snapshot() that finds the client not ready shows what is
\* kept, however old: of that it is only claimed that it is no older than the
\* last call to return an answer.  (process.py snapshot, _dispatch)
MetricsFresh ==
    /\ \A c \in Calls : call[c] = "answered" => asked[c] <= answer[c]
    /\ \A k \in kept : k.asked <= k.taken

\* Every consumer of a client that is not being closed comes to an end, also
\* when the engine raises or its process fails or dies.  (process.py stream,
\* _forward_stream, _lost)
StreamsEnd ==
    \A r \in Streams : (consumer[r] = "open") ~> (consumer[r] # "open" \/ closing)

\* close() returns and the engine process is gone, without help of a timeout:
\* the handshake, an EOF on either side and a failed start all lead there.
\* (process.py close, serve_engine_connection, start)
EngineGone ==
    (closing \/ started = "failed") ~> (closePhase = "closed" /\ ~ServerAlive)

\* EngineClient promises a stream that ends; docs/architecture.md asks the
\* process client not to change EngineClient.  Here close() itself is included.
EveryStreamEnds ==
    \A r \in Streams : (consumer[r] = "open") ~> (consumer[r] # "open")
============================================================================
