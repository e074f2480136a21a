------------------------------ MODULE TextStream ------------------------------
(***************************************************************************)
(* One HTTP request from the route to the engine's stream and back: the    *)
(* OpenAI adapter (incremental decoder, stop buffer, deadline, SSE), the   *)
(* token adapter, close_stream, and below them either EngineCore.stream or *)
(* the stream of the in-process client, which runs a synchronous generator *)
(* on a thread of its own.                                                 *)
(*                                                                         *)
(* The web framework is external: while a streamed response is sent, a     *)
(* client that leaves, or a cancelled handler, cancels the scope of the    *)
(* sending task, again on every turn of the loop until the task has ended; *)
(* a generator nobody refers to is closed by a task of the loop.           *)
(***************************************************************************)
EXTENDS Integers, FiniteSets, Sequences, SequencesExt, FiniteSetsExt

CONSTANTS Pieces,      \* [token ids -> bytes]; "H" and "L" are the halves of "c"
          Eos,         \* the eos token id
          Stops,       \* sets of stop sequences a request may name
          Engines,     \* subset of {"core", "in_process"}
          Adapters,    \* subset of {"openai", "token"}
          MaxTokens,   \* max_tokens of the request
          MaxAhead     \* bound: events the engine is ahead of its reader

ASSUME TextStreamAssumption ==
  /\ Eos \in DOMAIN Pieces /\ MaxTokens \in Nat \ {0} /\ MaxAhead \in Nat \ {0}
  /\ \A stops \in Stops : <<>> \notin stops

VARIABLES route,   \* [engine, adapter, streaming, stops]
          source,  \* the engine: [live, last, made, queue, thread]
          frame,   \* its generator: [at, why, runner]
          at,      \* where the task of the response is
          timer,   \* asyncio.timeout of _text_stream: "off", "armed", "fired"
          client,  \* [gone, scope]: it has left; the sending task is cancelled
          text,    \* [ids, prefix, read, pending] of decoder and buffer
          outbox,  \* chunks made and not sent
          shown    \* chunks the client has
vars == <<route, source, frame, at, timer, client, text, outbox, shown>>

Core == route.engine = "core"
OpenAI == route.adapter = "openai"
Chunk(kind, value) == [kind |-> kind, value |-> value]
Fail == Chunk("error", "")
Ends(chunks) == \E i \in DOMAIN chunks : chunks[i].kind \in {"finish", "error"}

-----------------------------------------------------------------------------
(* The decoder and the stop buffer *)

\* External: the tokenizer.  Half a character is "?", and the space that
\* starts the first piece is not text.
Texts ==
  LET text_of(bytes) ==
        LET is(i, byte) == i \in DOMAIN bytes /\ bytes[i] = byte
            char(i) == CASE is(i, "H") -> IF is(i + 1, "L") THEN <<"c">> ELSE <<"?">>
                         [] is(i, "L") -> IF is(i - 1, "H") THEN <<>> ELSE <<"?">>
                         [] OTHER -> <<bytes[i]>>
            all == FlattenSeq([i \in DOMAIN bytes |-> char(i)])
        IN  IF all # <<>> /\ Head(all) = " " THEN Tail(all) ELSE all
  IN  [ids \in BoundedSeq(DOMAIN Pieces, MaxTokens) |->
         text_of(FlattenSeq([i \in DOMAIN ids |-> Pieces[ids[i]]]))]

Decode(ids) == Texts[ids]

\* _HuggingFaceIncrementalDecoder: what it decoded before, and now.
Before(d) == Decode(SubSeq(d.ids, d.prefix + 1, d.read))
Now(d) == Decode(SubSeq(d.ids, d.prefix + 1, Len(d.ids)))
Delta(d) == SubSeq(Now(d), Len(Before(d)) + 1, Len(Now(d)))

Incomplete(d) == Len(Now(d)) <= Len(Before(d)) \/ Last(Now(d)) = "?"

Finish(d) == IF IsPrefix(Before(d), Now(d)) THEN Delta(d) ELSE Now(d)

\* Where a stop sequence starts in some text.
Matches(string, stops) ==
  { i \in DOMAIN string : \E stop \in stops : IsPrefix(stop, SubSeq(string, i, Len(string))) }

Longest(stops) == Max({ Len(stop) : stop \in stops } \union {0})

Split(string, n, stopped) ==
  [visible |-> SubSeq(string, 1, n), stopped |-> stopped,
   pending |-> IF stopped THEN <<>> ELSE SubSeq(string, n + 1, Len(string))]

\* Variant: one character less is held back.
BufferedShort(pending, final, stops) ==
  LET matches == Matches(pending, stops)
  IN  IF matches # {} THEN Split(pending, Min(matches) - 1, TRUE)
      ELSE IF final THEN Split(pending, Len(pending), FALSE)
      ELSE Split(pending, Max({0, Len(pending) - Max({0, Longest(stops) - 2})}), FALSE)

\* _StopBuffer.push, its new text already in pending.
Buffered(pending, final, stops) ==
  LET matches == Matches(pending, stops)
  IN  IF matches # {} THEN Split(pending, Min(matches) - 1, TRUE)
      ELSE IF final THEN Split(pending, Len(pending), FALSE)
      ELSE Split(pending, Max({0, Len(pending) - Max({0, Longest(stops) - 1})}), FALSE)

Deltas(visible) == IF visible = <<>> THEN <<>> ELSE <<Chunk("delta", visible)>>
Finished(reason, usage) == Chunk("finish", [reason |-> reason, usage |-> usage])

\* _consume_text: the chunks of an event, and what the decoder keeps.
TextOf(event) ==
  LET pushed == IF event.kind = "token" THEN [text EXCEPT !.ids = Append(@, event.value)]
                                        ELSE text
      final == event.kind = "finish"
      held == ~final /\ Incomplete(pushed)
      delta == CASE final -> Finish(pushed) [] held -> <<>> [] OTHER -> Delta(pushed)
      buffered == Buffered(text.pending \o delta, final, route.stops)
      usage == Len(pushed.ids)
      reason == IF buffered.stopped \/ event.value = "eos" THEN "stop" ELSE "length"
  IN  [chunks |-> Deltas(buffered.visible) \o
                    (IF final \/ buffered.stopped THEN <<Finished(reason, usage)>> ELSE <<>>),
       text |-> [pushed EXCEPT !.pending = buffered.pending,
                               !.prefix = IF held \/ final THEN @ ELSE pushed.read,
                               !.read = IF held \/ final THEN @ ELSE usage]]

\* _encoded_stream and generate(): every event is a chunk.
TokenOf(event) ==
  [chunks |-> <<IF event.kind = "token" THEN Chunk("delta", <<event.value>>)
                ELSE Finished(event.value, Len(text.ids))>>,
   text |-> IF event.kind = "token" THEN [text EXCEPT !.ids = Append(@, event.value)] ELSE text]

Consumed(event) == IF OpenAI THEN TextOf(event) ELSE TokenOf(event)

-----------------------------------------------------------------------------
(* The engine's side *)

Init ==
  /\ \E engine \in Engines, adapter \in Adapters, streaming \in BOOLEAN, stops \in Stops :
       /\ adapter = "token" => stops = {}
       /\ route = [engine |-> engine, adapter |-> adapter, streaming |-> streaming,
                   stops |-> stops]
  /\ source = [live |-> FALSE, last |-> "token", made |-> 0, queue |-> <<>>, thread |-> "idle"]
  /\ frame = [at |-> "new", why |-> "", runner |-> "response"]
  /\ at = "start" /\ timer = "off" /\ client = [gone |-> FALSE, scope |-> FALSE]
  /\ text = [ids |-> <<>>, prefix |-> 0, read |-> 0, pending |-> <<>>]
  /\ outbox = <<>> /\ shown = <<>>

\* What the engine may say next: tokens, the end after the last, or a failure.
NextEvents ==
  CASE source.last = "token" /\ source.made < MaxTokens ->
         { Chunk("token", t) : t \in IF OpenAI THEN DOMAIN Pieces ELSE {Eos} } \union {Fail}
    [] source.last = "token" -> {Chunk("finish", "length"), Fail}
    [] source.last = "eos" -> {Chunk("finish", "eos"), Fail}
    [] OTHER -> {Chunk("end", "")}

Said(event) ==
  [source EXCEPT !.queue = Append(@, event), !.made = @ + IF event.kind = "token" THEN 1 ELSE 0,
                 !.last = IF event.kind # "token" THEN event.kind
                          ELSE IF event.value = Eos THEN "eos" ELSE "token",
                 !.thread = "idle"]

\* A step of the driver puts events in the queue of the request; the thread
\* of the in-process client returns from one next() of the reference service.
Produce ==
  /\ source.live
  /\ IF Core THEN Len(source.queue) < MaxAhead /\ source.last \in {"token", "eos"}
             ELSE source.thread = "next"
  /\ \E event \in NextEvents : source' = Said(event)
  /\ UNCHANGED <<route, frame, at, timer, client, text, outbox, shown>>

\* close() of the synchronous generator, on the thread.
CloseReturns ==
  /\ source.thread = "close"
  /\ source' = [source EXCEPT !.thread = "idle", !.live = FALSE]
  /\ UNCHANGED <<route, frame, at, timer, client, text, outbox, shown>>

-----------------------------------------------------------------------------
(* stream() of the engine, a generator                                      *)

\* Its finally: a task that cancels the request, or close() for the thread.
Cleanup(why, runner) == frame' = [at |-> "cleanup", why |-> why, runner |-> runner]

\* The thread is free for close(), unless the job was cancelled before.
CloseStarts ==
  /\ ~Core /\ source.live /\ source.thread = "idle"
  /\ frame.at \in {"cleanup", "cleanup_wait"}
  /\ source' = [source EXCEPT !.thread = "close"]
  /\ UNCHANGED <<route, frame, at, timer, client, text, outbox, shown>>

\* Variant: stream() of the engine cleans up after its last event only.
FrameLost ==
  CASE frame.at = "waiting" -> frame' = [frame EXCEPT !.at = "done", !.why = "cancel"]
    [] frame.at = "draining" -> Cleanup("cancel", frame.runner)
    [] frame.at = "cleanup" -> frame' = [frame EXCEPT !.at = "cleanup_wait", !.why = "cancel"]
    [] frame.at = "cleanup_wait" /\ ~Core -> frame' = [frame EXCEPT !.at = "shutdown"]

\* A cancellation reaches what stream() waits for: the queue; the step of the
\* thread, first behind a shield (_run_sync_step) and then not; the cleanup,
\* in the same way.  The task that cancels a request needs one turn of the
\* loop and is done before the second.
FrameCancelled ==
  CASE frame.at = "waiting" /\ Core -> Cleanup("cancel", frame.runner)
    [] frame.at = "waiting" /\ ~Core -> frame' = [frame EXCEPT !.at = "draining", !.why = "cancel"]
    [] frame.at = "draining" -> Cleanup("cancel", frame.runner)
    [] frame.at = "cleanup" -> frame' = [frame EXCEPT !.at = "cleanup_wait", !.why = "cancel"]
    [] frame.at = "cleanup_wait" /\ ~Core -> frame' = [frame EXCEPT !.at = "shutdown"]

Cancellable ==
  frame.at \in {"waiting", "draining", "cleanup"} \union (IF Core THEN {} ELSE {"cleanup_wait"})

\* _run_sync_step was cancelled and its step has returned.
Drained ==
  /\ frame.at = "draining" /\ source.thread = "idle"
  /\ Cleanup("cancel", frame.runner)
  /\ UNCHANGED <<route, source, at, timer, client, text, outbox, shown>>

\* The last of stream(): worker.shutdown(wait=True) stops the whole loop until
\* the thread is free, and nobody refers to the generator any more.
FrameEnds ==
  /\ \/ frame.at \in {"cleanup", "cleanup_wait"} /\ (Core \/ ~source.live)
     \/ frame.at = "shutdown" /\ source.thread = "idle"
  /\ frame' = [frame EXCEPT !.at = "done"]
  /\ source' = [source EXCEPT !.live = FALSE]
  /\ UNCHANGED <<route, at, timer, client, text, outbox, shown>>

-----------------------------------------------------------------------------
(* The task of the response *)

\* The route calls stream() and waits for its first event; the engine may
\* refuse the request at once.
Begin ==
  /\ at = "start"
  /\ \/ /\ source' = [(IF Core THEN source ELSE [source EXCEPT !.thread = "next"])
                        EXCEPT !.live = TRUE]
        /\ frame' = [frame EXCEPT !.at = "waiting"]
     \/ /\ Core
        /\ frame' = [frame EXCEPT !.at = "done", !.why = "raise"]
        /\ UNCHANGED source
  /\ at' = IF route.streaming THEN "first" ELSE "collect"
  /\ timer' = IF OpenAI THEN "armed" ELSE "off"
  /\ UNCHANGED <<route, client, text, outbox, shown>>

Dequeue ==
  /\ frame.at = "waiting" /\ source.queue # <<>>
  /\ source' = [source EXCEPT !.queue = Tail(@)]

\* An event of the engine comes to the adapter, or its failure or end.
Take ==
  /\ Dequeue
  /\ LET event == Head(source.queue)
         consumed == Consumed(event)
     IN  IF event.kind \in {"error", "end"}
         THEN /\ Cleanup(IF event.kind = "end" THEN "return" ELSE "raise", "response")
              /\ UNCHANGED <<at, text, outbox>>
         ELSE /\ frame' = [frame EXCEPT !.at = "paused"]
              /\ text' = consumed.text /\ outbox' = consumed.chunks
              /\ at' = "ready"
  /\ UNCHANGED <<route, timer, client, shown>>

\* The task runs with what it got: chunks are sent or collected, a text that
\* has ended closes its stream, and otherwise the next event is awaited.
Proceed ==
  /\ at = "ready"
  /\ IF outbox # <<>> /\ route.streaming
     THEN at' = "send" /\ UNCHANGED <<source, frame, timer, outbox, shown>>
     ELSE /\ shown' = shown \o outbox /\ outbox' = <<>>
          /\ CASE frame.at = "done" ->
                    at' = "over" /\ UNCHANGED <<source, frame, timer>>
               [] frame.at = "paused" /\ OpenAI /\ Ends(shown') ->
                    /\ at' = "close" /\ timer' = "off"
                    /\ Cleanup("close", "closer") /\ UNCHANGED source
               [] frame.at = "paused" /\ ~(OpenAI /\ Ends(shown')) ->
                    /\ at' = IF ~route.streaming THEN "collect"
                             ELSE IF shown' = <<>> THEN "first" ELSE "pull"
                    /\ IF Core /\ Ends(shown')
                       THEN Cleanup("return", "response") /\ UNCHANGED source
                       ELSE /\ frame' = [frame EXCEPT !.at = "waiting"]
                            /\ source' = IF Core THEN source
                                         ELSE [source EXCEPT !.thread = "next"]
                    /\ UNCHANGED timer
  /\ UNCHANGED <<route, client, text>>

Send ==
  /\ at = "send"
  /\ shown' = Append(shown, Head(outbox)) /\ outbox' = Tail(outbox)
  /\ at' = IF Tail(outbox) = <<>> THEN "ready" ELSE "send"
  /\ UNCHANGED <<route, source, frame, timer, client, text>>

\* What ends an SSE stream of the OpenAI adapter.
Done == IF OpenAI THEN <<Chunk("done", "")>> ELSE <<>>

\* stream() has ended below the task: an error status before the first chunk,
\* an error chunk after it, and nothing if the task was cancelled and not by
\* its deadline.
Unwound ==
  /\ frame.at = "done" /\ frame.runner = "response" /\ at \in {"first", "collect", "pull"}
  /\ LET complete == frame.why = "return" /\ Ends(shown)
         cancelled == frame.why = "cancel" /\ timer # "fired"
     IN  \/ cancelled /\ at' = "over" /\ UNCHANGED <<outbox, shown>>
         \/ /\ ~cancelled /\ at = "pull" /\ at' = "ready"
            /\ outbox' = (IF complete THEN <<>> ELSE <<Fail>>) \o Done
            /\ UNCHANGED shown
         \/ /\ ~cancelled /\ at # "pull" /\ at' = "over"
            /\ shown' = IF complete THEN shown ELSE <<Fail>>
            /\ UNCHANGED outbox
  /\ timer' = "off"
  /\ UNCHANGED <<route, source, frame, client, text>>

\* close_stream returns; if it was cancelled meanwhile it raises only now.
Closed ==
  /\ frame.at = "done" /\ at \in {"close", "close_wait"}
  /\ IF at = "close" /\ route.streaming THEN at' = "ready" /\ outbox' = Done
                                         ELSE at' = "over" /\ UNCHANGED outbox
  /\ UNCHANGED <<route, source, frame, timer, client, text, shown>>

-----------------------------------------------------------------------------
(* Time and the client *)

Sending == route.streaming /\ at \in {"send", "pull", "close", "close_wait"}

\* The deadline cancels the task that asked for the first event: it waits for
\* an event itself, or it watches over the task that sends.
Timeout ==
  /\ timer = "armed" /\ timer' = "fired"
  /\ \/ at \in {"first", "collect"} /\ Cancellable /\ FrameCancelled /\ UNCHANGED client
     \/ at \in {"send", "pull"} /\ client' = [client EXCEPT !.scope = TRUE] /\ UNCHANGED frame
  /\ UNCHANGED <<route, source, at, text, outbox, shown>>

Disconnect ==
  /\ ~client.gone /\ client' = [client EXCEPT !.gone = TRUE]
  /\ UNCHANGED <<route, source, frame, at, timer, text, outbox, shown>>

\* A streamed response looks for a client that has left.
Noticed ==
  /\ client.gone /\ ~client.scope /\ Sending
  /\ client' = [client EXCEPT !.scope = TRUE]
  /\ UNCHANGED <<route, source, frame, at, timer, text, outbox, shown>>

\* One delivery of the cancellation of the scope.  close_stream waits behind a
\* shield the first time and without one the second.
Cancel ==
  /\ client.scope
  /\ \/ at = "pull" /\ Cancellable /\ FrameCancelled /\ UNCHANGED <<at, timer>>
     \/ /\ at = "send" /\ at' = "over" /\ timer' = "off"
        /\ IF frame.at = "done" THEN UNCHANGED frame ELSE Cleanup("dropped", "finalizer")
     \/ at = "close" /\ at' = "close_wait" /\ UNCHANGED <<frame, timer>>
     \/ at = "close_wait" /\ Cancellable /\ FrameCancelled /\ UNCHANGED <<at, timer>>
  /\ UNCHANGED <<route, source, client, text, outbox, shown>>

Runs ==
  \/ Produce \/ CloseStarts \/ CloseReturns \/ Drained \/ FrameEnds
  \/ Begin \/ Proceed \/ Send \/ Unwound \/ Closed \/ Noticed \/ Cancel

Next == Runs \/ Take \/ Timeout \/ Disconnect

\* The engine steps, the thread and the tasks run, and a client reads or leaves.
\* (Fairness of Take is stated of what it takes: that makes it enabled.)
Spec == Init /\ [][Next]_vars /\ WF_vars(Runs) /\ WF_source(Dequeue)

-----------------------------------------------------------------------------
(* Properties *)

Cut(string, stops) ==
  LET matches == Matches(string, stops)
  IN  IF matches = {} THEN string ELSE SubSeq(string, 1, Min(matches) - 1)

\* Whatever the engine's tokens are cut into, and however a stop sequence is
\* spread over them, a client reads the text of all tokens up to the first stop
\* sequence and not one character of it before it is known not to be one; the
\* reason and the usage of the last chunk say what happened; and a response,
\* collected or streamed, has one end, finish or error, unless it was cancelled.
ResponseExact ==
  LET chunks == shown \o outbox
      terminals == { i \in DOMAIN chunks : chunks[i].kind \in {"finish", "error"} }
      read == FlattenSeq([i \in DOMAIN chunks |->
                            IF chunks[i].kind = "delta" THEN chunks[i].value ELSE <<>>])
      whole == IF OpenAI THEN Decode(text.ids) ELSE text.ids
      stopped == OpenAI /\ (Matches(whole, route.stops) # {} \/ Eos \in ToSet(text.ids))
  IN  /\ Cardinality(terminals) <= 1
      /\ \A i \in terminals, j \in DOMAIN chunks : j > i => chunks[j].kind = "done"
      /\ at = "over" /\ ~client.scope => terminals # {}
      /\ IsPrefix(read, Cut(whole, route.stops))
      /\ \A i \in terminals : chunks[i].kind = "finish" =>
           /\ read = Cut(whole, route.stops)
           /\ chunks[i].value.usage = Len(text.ids)
           /\ OpenAI => (chunks[i].value.reason = "stop") = stopped

\* Every response ends, and with it the request in the engine: after a stop
\* sequence, a deadline, a client that has left at any point, a failure, and a
\* cancellation in the middle of closing, the engine's stream is closed.
EngineReleased == <>(at = "over" /\ frame.at = "done" /\ ~source.live)

=============================================================================
