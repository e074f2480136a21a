----------------------------- MODULE EngineCore -----------------------------
(***************************************************************************)
(* EngineCore of runtime/engine/core.py: the client streams, the driver    *)
(* task that repeats schedule -> execute -> apply, the execution lane it   *)
(* hands a step to, and close().                                           *)
(*                                                                         *)
(* Every critical section of the asyncio lock is free of awaits and is one *)
(* action, except that the driver's longest one, _advance_locked, is two   *)
(* actions with the lock held in between.  The Scheduler is any Scheduler: *)
(* it picks any requests it knows and any amount of their work, or raises  *)
(* (module TokenBudgetScheduler models the real one).                      *)
(***************************************************************************)
EXTENDS Integers, Sequences, FiniteSets

CONSTANTS
  Requests,   \* one id for every call of stream()
  PromptLen,  \* tokens of a prompt
  MaxNew,     \* max_new_tokens
  MaxOutput,  \* max_output_tokens of a step, see DecodingBudget
  Faults      \* what may go wrong by itself

ASSUME BoundAssumption ==
  /\ PromptLen \in Nat \ {0} /\ MaxNew \in Nat \ {0} /\ MaxOutput \in Nat \ {0}
  /\ IsFiniteSet(Requests)
  /\ Faults \subseteq {"schedule", "execute", "release"}

VARIABLES
  client,     \* what the consumer of a stream is doing
  events,     \* the whole history of a stream's event queue ...
  read,       \* ... and how much of it was consumed
  live,       \* the keys of _states
  generated,  \* generated_count
  pending,    \* Scheduler: known tokens that are not computed yet
  known,      \* Scheduler: requests it has, with their KV blocks
  active,     \* Executor: _active_requests
  executing,  \* _executing_request_ids
  removals,   \* _pending_scheduler_removals
  driver,     \* where _driver_task is; "none" when it is None
  batch,      \* the SchedulerOutput in flight: request -> planned work
  result,     \* what became of it
  closing,    \* "open", "closing" or "closed"
  recorded    \* request_finished calls for a request

streams == <<client, events, read>>
engine == <<live, generated, pending, known, active, executing, removals>>
step == <<driver, batch, result>>
vars == <<streams, engine, step, closing, recorded>>

----------------------------------------------------------------------------

AtMost(a, b) == IF a <= b THEN a ELSE b

Token(position) == <<"token", position>>
Finished(reason) == <<"finished", reason>>
Failed == <<"failed", "error">>
Terminal(e) == e[1] \in {"finished", "failed"}

NoBatch == [r \in {} |-> 0]
InFlight == DOMAIN batch

(* The driver holds the lock only within _advance_locked.                  *)
Unlocked == driver # "settled"

Init ==
  /\ client = [r \in Requests |-> "new"]
  /\ events = [r \in Requests |-> << >>] /\ read = [r \in Requests |-> 0]
  /\ live = {} /\ known = {} /\ active = {}
  /\ generated = [r \in Requests |-> 0] /\ pending = [r \in Requests |-> 0]
  /\ executing = {} /\ removals = {}
  /\ driver = "none" /\ batch = NoBatch /\ result = [kind |-> "none"]
  /\ closing = "open"
  /\ recorded = [r \in Requests |-> 0]

(* Variant: the Scheduler frees the blocks of a request at once.           *)
RemoveAtOnce(S) ==
  /\ live' = live \ S
  /\ known' = known \ S
  /\ active' = active \ S
  /\ UNCHANGED removals
  /\ recorded' = [r \in Requests |-> recorded[r] + (IF r \in S THEN 1 ELSE 0)]

(* _remove_request_locked for the requests of S \subseteq live, and the    *)
(* observer's request_finished: the Executor forgets them at once, the     *)
(* Scheduler keeps what the step in flight may still write to.             *)
Remove(S) ==
  /\ live' = live \ S
  /\ removals' = removals \cup (S \cap executing)
  /\ known' = known \ (S \ executing)
  /\ active' = active \ S
  /\ recorded' = [r \in Requests |-> recorded[r] + (IF r \in S THEN 1 ELSE 0)]

(* put_nowait(e) for every request of S.                                   *)
Publish(S, e) ==
  events' = [r \in Requests |-> IF r \in S THEN Append(events[r], e)
                                ELSE events[r]]

----------------------------------------------------------------------------
(* Clients.                                                                *)

(* _register: Executor and Scheduler learn the request, and the driver is  *)
(* started unless there is one already.                                    *)
Register(r) ==
  /\ Unlocked
  /\ client[r] = "new"
  /\ closing = "open"
  /\ client' = [client EXCEPT ![r] = "open"]
  /\ live' = live \cup {r}
  /\ active' = active \cup {r}
  /\ known' = known \cup {r}
  /\ pending' = [pending EXCEPT ![r] = PromptLen]
  /\ driver' = IF driver = "none" THEN "advance" ELSE driver
  /\ UNCHANGED <<events, read, generated, executing, removals, batch, result,
                 closing, recorded>>

(* It is refused: closed, not ready, too long, or overloaded.              *)
Refuse(r) ==
  /\ Unlocked
  /\ client[r] = "new"
  /\ client' = [client EXCEPT ![r] = "refused"]
  /\ UNCHANGED <<events, read, engine, step, closing, recorded>>

(* stream() yields the next event; after a terminal one it cleans up.      *)
Consume(r) ==
  /\ Unlocked
  /\ client[r] = "open"
  /\ read[r] < Len(events[r])
  /\ read' = [read EXCEPT ![r] = @ + 1]
  /\ client' = IF Terminal(events[r][read[r] + 1])
               THEN [client EXCEPT ![r] = "leaving"] ELSE client
  /\ UNCHANGED <<events, engine, step, closing, recorded>>

(* The consumer is cancelled, or closes the generator early.               *)
Abandon(r) ==
  /\ Unlocked
  /\ client[r] = "open"
  /\ client' = [client EXCEPT ![r] = "leaving"]
  /\ UNCHANGED <<events, read, engine, step, closing, recorded>>

(* _cancel, in the finally block of stream().                              *)
Cancel(r) ==
  /\ Unlocked
  /\ client[r] = "leaving"
  /\ client' = [client EXCEPT ![r] = "gone"]
  /\ Remove({r} \cap live)
  /\ UNCHANGED <<events, read, generated, pending, executing, step, closing>>

----------------------------------------------------------------------------
(* The driver task.                                                        *)

(* What a request may see of k returned tokens, of which the eos-th (0 for *)
(* none) is its end-of-sequence token, and how that ends it.               *)
Visible(r, k, eos) ==
  AtMost(IF eos = 0 THEN k ELSE eos, MaxNew - generated[r])

Reason(r, visible, eos) ==
  CASE eos # 0 /\ visible = eos -> "eos"
    [] ~(eos # 0 /\ visible = eos) /\ generated[r] + visible = MaxNew -> "length"
    [] OTHER -> "none"

(* Variant: a removal that was put off is forgotten.                       *)
KeepOverdue(S) == known

(* What the Scheduler keeps when the step ends for S: not the requests     *)
(* whose removal was put off, the loop of _finish_execution_locked.        *)
DropOverdue(S) == known \ (S \cap removals)

(* Variant: requests that left during the step get their tokens.           *)
Everybody == InFlight

(* The requests of the step that are still there.                          *)
Staying == InFlight \cap live

(* _apply_output_locked: nothing for a request that has left, else its     *)
(* visible tokens, and its end.                                            *)
ApplyOutput ==
  LET visible(r) == Visible(r, result.of[r].tokens, result.of[r].eos)
      reason(r) == Reason(r, visible(r), result.of[r].eos)
      done == { r \in Staying : reason(r) # "none" }
      cached(r) == AtMost(result.of[r].cached, visible(r))
  IN  /\ events' = [r \in Requests |->
           IF r \notin Staying THEN events[r]
           ELSE events[r]
                  \o [i \in 1 .. visible(r) |-> Token(generated[r] + i - 1)]
                  \o (IF r \in done THEN <<Finished(reason(r))>> ELSE << >>)]
      /\ generated' = [r \in Requests |->
           generated[r] + (IF r \in Staying THEN visible(r) ELSE 0)]
      /\ pending' = [r \in Requests |->
           IF r \in Staying
           THEN pending[r] - batch[r].tokens + visible(r) - cached(r)
           ELSE pending[r]]
      /\ executing' = executing \ InFlight
      /\ removals' = removals \ InFlight
      /\ known' = DropOverdue(InFlight) \ done
      /\ live' = live \ done
      /\ active' = active \ done
      /\ recorded' = [r \in Requests |->
                        recorded[r] + (IF r \in done THEN 1 ELSE 0)]

(* Variant: those that left during the step are reported as failed again.  *)
FailEverybody ==
  /\ Publish(Staying, Failed)
  /\ executing' = executing \ InFlight
  /\ removals' = removals \ InFlight
  /\ known' = known \ InFlight
  /\ live' = live \ InFlight
  /\ active' = active \ InFlight
  /\ recorded' = [r \in Requests |->
                    recorded[r] + (IF r \in InFlight THEN 1 ELSE 0)]
  /\ UNCHANGED <<generated, pending>>

(* _fail_batch_locked: the step failed, and with it all of its requests.   *)
FailBatch ==
  /\ Publish(Staying, Failed)
  /\ executing' = executing \ InFlight
  /\ removals' = removals \ InFlight
  /\ known' = DropOverdue(InFlight) \ Staying
  /\ live' = live \ Staying
  /\ active' = active \ Staying
  /\ recorded' = [r \in Requests |->
                    recorded[r] + (IF r \in Staying THEN 1 ELSE 0)]
  /\ UNCHANGED <<generated, pending>>

(* _advance_locked, first half: settle the completed step, if there is one.*)
Settle ==
  /\ driver = "advance"
  /\ driver' = "settled"
  /\ CASE result.kind = "none" -> UNCHANGED <<events, engine, recorded>>
       [] result.kind = "output" -> ApplyOutput
       [] result.kind = "error" -> FailBatch
  /\ batch' = NoBatch
  /\ result' = [kind |-> "none"]
  /\ UNCHANGED <<client, read, closing>>

(* What a Scheduler may plan for r: a part of its known tokens, or all of  *)
(* them and some new ones.                                                 *)
Work(r) ==
  { w \in [tokens : 1 .. pending[r], output : 0 .. MaxOutput] :
      IF w.tokens = pending[r]
      THEN w.output \in 1 .. AtMost(MaxOutput, MaxNew - generated[r])
      ELSE w.output = 0 }

(* ... second half: schedule, build the batch, acquire the lease.          *)
Prepare ==
  /\ driver = "settled"
  /\ known # {}
  /\ \E S \in (SUBSET known) \ {{}} :
     \E plan \in [S -> UNION { Work(r) : r \in S }] :
       /\ \A r \in S : plan[r] \in Work(r)
       /\ batch' = plan
       /\ executing' = executing \cup S
  /\ driver' = "prepared"
  /\ UNCHANGED <<streams, live, generated, pending, known, active, removals,
                 result, closing, recorded>>

(* schedule() raises instead.                                              *)
ScheduleRaises ==
  /\ driver = "settled"
  /\ known # {}
  /\ "schedule" \in Faults
  /\ driver' = "failing"
  /\ UNCHANGED <<streams, engine, batch, result, closing, recorded>>

(* There is nothing to schedule: _drive returns.                           *)
NothingToDo ==
  /\ driver = "settled"
  /\ known = {}
  /\ driver' = "exiting"
  /\ UNCHANGED <<streams, engine, batch, result, closing, recorded>>

(* The lane calls the Executor, which looks up its active requests first.  *)
BeginExecute ==
  /\ driver = "prepared"
  /\ IF InFlight \subseteq active
     THEN driver' = "executing" /\ UNCHANGED result
     ELSE driver' = "executed" /\ result' = [kind |-> "error"]
  /\ UNCHANGED <<streams, engine, batch, closing, recorded>>

(* Variant: the last token of a step is cached as well.                    *)
OutputsAllCached(r) ==
  { o \in [tokens : 0 .. MaxOutput, eos : {0}, cached : 0 .. MaxOutput] :
      /\ o.tokens = batch[r].output
      /\ o.cached = o.tokens }

(* What passes _validated_output: tokens if and only if some were to be    *)
(* returned, perhaps with an end-of-sequence token among them.  The decode *)
(* handlers never cache the last one.                                      *)
Outputs(r) ==
  { o \in [tokens : 0 .. MaxOutput, eos : 0 .. MaxOutput, cached : 0 .. MaxOutput] :
      /\ o.tokens <= batch[r].output
      /\ o.tokens = 0 <=> batch[r].output = 0
      /\ o.eos <= o.tokens
      /\ o.cached < o.tokens \/ o.cached = 0 }

(* The model has run.                                                      *)
EndExecute ==
  /\ driver = "executing"
  /\ \E of \in [InFlight -> UNION { Outputs(r) : r \in InFlight }] :
       /\ \A r \in InFlight : of[r] \in Outputs(r)
       /\ result' = [kind |-> "output", of |-> of]
  /\ driver' = "executed"
  /\ UNCHANGED <<streams, engine, batch, closing, recorded>>

ExecuteRaises ==
  /\ driver = "executing"
  /\ "execute" \in Faults
  /\ result' = [kind |-> "error"]
  /\ driver' = "executed"
  /\ UNCHANGED <<streams, engine, batch, closing, recorded>>

(* Back on the event loop, lease.release().                                *)
ReleaseLease ==
  /\ driver = "executed"
  /\ driver' = "advance"
  /\ UNCHANGED <<streams, engine, batch, result, closing, recorded>>

(* Variant: ... and the requests stay marked as executing.                 *)
ReleaseRaisesUnfinished ==
  /\ driver = "executed"
  /\ "release" \in Faults
  /\ batch' = NoBatch
  /\ result' = [kind |-> "none"]
  /\ driver' = "failing"
  /\ UNCHANGED <<streams, engine, closing, recorded>>

(* release() raises: the step is over, and its result lost.                *)
ReleaseRaises ==
  /\ driver = "executed"
  /\ "release" \in Faults
  /\ executing' = executing \ InFlight
  /\ removals' = removals \ InFlight
  /\ known' = DropOverdue(InFlight)
  /\ batch' = NoBatch
  /\ result' = [kind |-> "none"]
  /\ driver' = "failing"
  /\ UNCHANGED <<streams, live, generated, pending, active, closing, recorded>>

(* _fail_all_locked.                                                       *)
FailAll ==
  /\ driver = "failing"
  /\ Remove(live)
  /\ Publish(live, Failed)
  /\ driver' = "exiting"
  /\ UNCHANGED <<client, read, generated, pending, executing, batch, result,
                 closing>>

(* Variant: a driver that ends does not look whether it is needed again.   *)
ExitForGood ==
  /\ driver = "exiting"
  /\ driver' = "none"
  /\ UNCHANGED <<streams, engine, batch, result, closing, recorded>>

(* The finally block of _drive: requests that arrived since get a new one. *)
Exit ==
  /\ driver = "exiting"
  /\ driver' = IF known # {} /\ closing = "open" THEN "advance" ELSE "none"
  /\ UNCHANGED <<streams, engine, batch, result, closing, recorded>>

----------------------------------------------------------------------------
(* Shutting down.                                                          *)

(* Variant: close() does not tell the streams.                             *)
CloseSilently ==
  /\ Unlocked
  /\ closing = "open"
  /\ closing' = "closing"
  /\ Remove(live)
  /\ UNCHANGED <<streams, generated, pending, executing, step>>

(* close(), first half: every request leaves with a failure.               *)
Close ==
  /\ Unlocked
  /\ closing = "open"
  /\ closing' = "closing"
  /\ Remove(live)
  /\ Publish(live, Failed)
  /\ UNCHANGED <<client, read, generated, pending, executing, step>>

(* Variant: close() does not wait for the driver.                          *)
CloseEndsEarly ==
  /\ closing = "closing"
  /\ closing' = "closed"
  /\ UNCHANGED <<streams, engine, step, recorded>>

(* ... second half: the driver has ended, the lane is closed.              *)
CloseEnds ==
  /\ closing = "closing"
  /\ driver = "none"
  /\ closing' = "closed"
  /\ UNCHANGED <<streams, engine, step, recorded>>

Next ==
  \/ \E r \in Requests : Register(r)
  \/ \E r \in Requests : Refuse(r)
  \/ \E r \in Requests : Consume(r)
  \/ \E r \in Requests : Abandon(r)
  \/ \E r \in Requests : Cancel(r)
  \/ Settle
  \/ Prepare
  \/ ScheduleRaises
  \/ NothingToDo
  \/ BeginExecute
  \/ EndExecute
  \/ ExecuteRaises
  \/ ReleaseLease
  \/ ReleaseRaises
  \/ FailAll
  \/ Exit
  \/ Close
  \/ CloseEnds

Drive ==
  \/ Settle \/ Prepare \/ ScheduleRaises \/ NothingToDo
  \/ BeginExecute \/ EndExecute \/ ExecuteRaises
  \/ ReleaseLease \/ ReleaseRaises \/ FailAll \/ Exit

(* The event loop runs ready tasks, the lane's thread runs, and a model    *)
(* step ends.  Nobody has to register, give up, or close.                  *)
Fairness ==
  /\ WF_vars(Drive)
  /\ WF_vars(CloseEnds)
  /\ \A r \in Requests : WF_vars(Consume(r)) /\ WF_vars(Cancel(r))

Spec == Init /\ [][Next]_vars

FairSpec == Spec /\ Fairness

----------------------------------------------------------------------------
(* Properties.                                                             *)

(* Every variable has its type, and what the Scheduler keeps of a request  *)
(* still has a token to compute, as _RequestState.num_pending_tokens must. *)
TypeOK ==
  /\ client \in [Requests -> {"new", "refused", "open", "leaving", "gone"}]
  /\ live \subseteq Requests /\ known \subseteq Requests
  /\ active \subseteq Requests /\ executing \subseteq Requests
  /\ removals \subseteq Requests /\ InFlight \subseteq Requests
  /\ generated \in [Requests -> 0 .. MaxNew]
  /\ \A r \in known : pending[r] \in 1 .. PromptLen + MaxNew
  /\ \A r \in Requests : read[r] \in 0 .. Len(events[r])
  /\ driver \in {"none", "advance", "settled", "prepared", "executing",
                 "executed", "failing", "exiting"}
  /\ closing \in {"open", "closing", "closed"}

(* While the Executor may write to the KV blocks of a step, the Scheduler  *)
(* does not have them to give away: a request that leaves meanwhile is     *)
(* removed from it at the next safe boundary, and no later.                *)
BlocksHeldInFlight ==
  /\ driver \in {"prepared", "executing", "executed"} => InFlight \subseteq known
  /\ known \ live \subseteq InFlight
  /\ removals = known \ live

(* Engine, Scheduler and Executor agree on who is there, and only the step *)
(* in flight is marked as executing.                                       *)
OwnersAgree ==
  /\ live \subseteq known
  /\ active = live
  /\ executing = InFlight

(* A stream is its tokens, numbered from 0 without a gap or repetition,    *)
(* and at the end at most one terminal event, "length" exactly when all    *)
(* max_new_tokens were made without an end-of-sequence token.              *)
StreamsWellFormed ==
  \A r \in Requests :
    LET n == Len(events[r])
        ended == n > 0 /\ Terminal(events[r][n])
        tokens == IF ended THEN n - 1 ELSE n
    IN  /\ \A i \in 1 .. tokens : events[r][i] = Token(i - 1)
        /\ tokens = generated[r]
        /\ ended /\ events[r][n] = Finished("length") => tokens = MaxNew
        /\ tokens = MaxNew => ended
        /\ r \in live => ~ended

(* Nobody is left hanging: a consumer that listens is a live request, or   *)
(* its terminal event is in the queue.                                     *)
NobodyForgotten ==
  \A r \in Requests :
    client[r] = "open" =>
      \/ r \in live
      \/ events[r] # << >> /\ Terminal(events[r][Len(events[r])])

(* Every request is reported finished, cancelled or failed exactly once.   *)
OutcomeRecordedOnce ==
  \A r \in Requests :
    recorded[r] = IF r \in live \/ client[r] \in {"new", "refused"} THEN 0 ELSE 1

(* No lost wakeup: as long as there are requests there is a driver.        *)
DriverPresent == known # {} => driver # "none"

(* When close() returns, nothing runs and nobody holds anything.           *)
ClosedIsQuiet ==
  closing = "closed" =>
    /\ driver = "none"
    /\ known = {} /\ active = {} /\ executing = {} /\ live = {}

(* Every stream() that is being consumed comes to its end, with whatever   *)
(* event, and its cleanup is done.                                         *)
StreamsEnd == \A r \in Requests : client[r] = "open" ~> client[r] = "gone"

(* A close() that was begun returns: the driver sees that nobody is left,  *)
(* whatever step was in flight.                                            *)
CloseReturns == closing = "closing" ~> closing = "closed"

(* A request that is cancelled during a step has its own output discarded; *)
(* it does not make the step fail for the others.                          *)
CancelSparesOthers ==
  \A r \in Requests :
    closing = "open" => \A i \in DOMAIN events[r] : events[r][i] # Failed

=============================================================================
