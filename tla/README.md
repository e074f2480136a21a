# Verification of light-vllm's runtime

This directory holds TLA+ models of the part of light-vllm that decides *who
computes what, when, on which KV pages* (the paged KV cache manager, the token
budget scheduler, the engine core), of what computes it (the model worker, its
caches, speculative decoding, the ranks of a tensor-parallel group) and of the
way a text takes to its client (the engine process, the text streams of the HTTP
server), with model-checking runs and machine-checked proofs. Paths below are relative to `src/light_vllm/`.

    tlc  -workers 2 -config MCEngineCore.cfg MCEngineCore     # a run
    tlapm EngineCore_proofs.tla                               # the proofs

`PROJECT.json` lists the runs, the source lines behind every definition, the
hazards, and for every checked property a small mutation of the model (the
operators commented *Variant:* in the modules) that violates it.

## 1. The system and its parts

One event loop owns all request state. A **driver task** repeats *schedule,
execute, apply*: under the engine's lock it settles the previous step and plans
the next one, then the model computes outside the lock (on a lane thread, in
line, or on all tensor-parallel ranks).

| part | state | operations | talks to |
| --- | --- | --- | --- |
| `EngineCore` (`runtime/engine/core.py`) | `_states`, event queues, `_executing_request_ids`, `_pending_scheduler_removals`, driver task, closed flag | stream/register, cancel, drive, advance, close | Scheduler and Executor by calls under its lock; clients by queues |
| `ExecutionLane` (`runtime/engine/execution_lane.py`) | one pending step, a thread, a work queue | execute, close | Executor on the thread, event loop by `call_soon_threadsafe` |
| `TokenBudgetScheduler` (`runtime/scheduler/`) | waiting/running requests, two lanes, slots, aging and rollback counters | add, remove, schedule, complete | KV manager by calls |
| `PagedKVCacheManager` (`runtime/kv_cache.py`) | free heap, LRU order, reference counts, prefix index, block tables, claims, epoch | try_add_request, reserve, commit, free, preview | called by the Scheduler only |
| `ContiguousKVCache`, `UnboundedKVCacheManager` (`runtime/kv_cache.py`) | per-request tensors, leases | allocate, append, truncate, compact, free, acquire | step handler |
| `LocalModelWorker`, step and decode handlers (`runtime/execution/worker.py`, `speculative.py`, `paged_cache.py`) | session, physical cache, active requests | initialize, add/free, acquire, execute | Engine, on the lane's thread |
| `TensorParallelModelExecutor`, command channels (`runtime/execution/distributed.py`) | pending updates, leases, deferred frees; sockets | add/free, acquire, execute, shutdown; worker loop | other ranks |
| engine process and connection client (`runtime/engine/process.py`) | stream and metrics tables, pipe, queues | stream, cancel, snapshot, close | the other process |
| admission (`runtime/engine/admission.py`) | latency window | validate, step_completed | Engine |
| text streams, OpenAI, HTTP (`serving/`) | stop buffer, decoder | stream, stop, disconnect | engine client |
| sampling, attention, models, loaders, quantization, observability | numeric or I/O | | |

What is hard, and what makes each part correct:

* **Pages.** Pages are shared between requests, trimmed, published, evicted and
  promised before they exist. Correct: every page is in exactly one place; a
  block table holds its request's tokens whoever computed them; nothing that
  may still be written is shared; nothing is promised twice.
* **Scheduling.** Short-request lanes, aging, optimistic claims and rollback
  interact over long sequences of calls. Correct: budgets and slots hold,
  `schedule()` always finds work, nobody starves, promises keep their priority.
* **Engine.** Clients register, cancel and close at any point of a step that
  runs outside the lock; the driver ends and is started again. Correct: pages
  of a step in flight are not given away; streams are well formed and end; no
  lost wakeup; `close()` returns with nothing held.
* **Execution.** Chunked prompts, shared pages, cancels in the middle of a step,
  drafts that are half accepted and a reload all change *how* a text is computed.
  Correct: the tokens are those of the reference service; the cache holds the
  K/V of what the engine counts as computed; nothing is freed under a lease.
* **Ranks.** Rank 0 queues adds and frees and sends them with the next command;
  any rank may fail, die or stop answering at any line. Correct: all ranks hold
  the same requests, a step keeps those it uses, nothing runs after a failure,
  and every rank ends.
* **Processes.** Commands and event batches cross on a pipe while either side
  closes, fails or dies. Correct: a consumer reads what its engine stream said,
  a late answer is not taken for a new one, everybody ends.
* **Text.** Tokens cut characters and stop sequences anywhere; deadlines,
  disconnects and repeated cancellations hit any line of four nested generators.
  Correct: exactly the text up to the first stop, and the engine gets every
  request back.

## 2. Modules

| module | models |
| --- | --- |
| `KVLedger` | abstract: what the KV manager promises about capacity (used + pledged) |
| `PagedKVCache` | `PagedKVCacheManager`; implements `KVLedger` |
| `TokenBudgetScheduler` | the scheduler and its two policies, on a counting abstraction of the manager |
| `EngineCore` | engine, driver, lane and the worker's active set, with any scheduler |
| `..._proofs` | the theorems about the module of that name (`Attention_proofs`: also about `DraftTrees`; `PagedKVCache_proofs`: also about `KVLedger`) |
| `DataLemmas` | counting, and induction over sequences, for the proofs |
| `DraftTrees` | the two N-gram proposers and greedy tree acceptance |
| `Attention` | layouts, slot mapping, and which K/V the three back ends read; on `DraftTrees` |
| `ModelWorker` | `ModelRunner.load`, `LocalModelWorker`, step and decode handlers, both caches; on `Attention` |
| `TensorParallel` | rank 0 and workers over the socket command channel |
| `EngineProcess` | `ConnectionEngineClient`, `ProcessEngineClient`, `serve_engine_connection` and the pipe |
| `TextStream` | one HTTP request through the OpenAI or token adapter, on `EngineCore` or the in-process client |
| `MC...` | instances for TLC |

The modules meet at interfaces that each states for itself: `EngineCore` runs
any scheduler and any executor, `TokenBudgetScheduler` counts the blocks that
`PagedKVCache` names, `ModelWorker` takes the steps `EngineCore` may plan,
`TensorParallel` has rank 0 in the executor's place, `EngineProcess` and
`TextStream` take any stream an engine may give.

**PagedKVCache.** One variable per field of the manager; actions `TryAdd`,
`TryAddNewEpoch` (the same call when `_ensure_cache_epoch` resets the pool),
`Reserve`, `Commit`, `Free`, and `Reload` for a new model generation. Errors
and refusals that change nothing are disabled guards. The LRU `OrderedDict` is
the set of its keys and the relation `older`; heap order is "lowest id first".
A prefix digest is a model value that stands for the whole prefix, tagged with
the epoch. The ghost `stored` says which tokens' K/V a physical page holds, so
that "the block table holds its own tokens" can be stated. The caller commits
at most what it reserved and a request never goes past its maximum, which is
what the scheduler guarantees. Left out: digest collisions, and a change of
the pool's *size* (`_sync_capacity`), which resets the pool as a new epoch does.

**TokenBudgetScheduler.** `schedule()` runs under the lock and calls nothing
asynchronous, so it is one action, composed of one operator per method on a
record `sched`. The engine's side is `Complete` (one result is applied, with or
without an end of sequence), `Discard` (cancelled during the step, or failed),
`Cancel`. Blocks are counted, not named: prompts of the instance are
pairwise different, and `published` remembers how many prompt blocks of a
request may be in the index; how many are still there is chosen at every
`Schedule`. Prefix hits on idle blocks, claims and both watermarks are as in
`try_add_request`/`reserve`. `schedule()` raising is
the field `error` and ends the model; `EngineCore` has what the engine does then.

**EngineCore.** Every critical section of the lock is one action, except that
`_advance_locked` is `Settle` followed by `Prepare`, `ScheduleRaises` or
`NothingToDo` with the lock held (`Unlocked`). `BeginExecute` is the worker's
lookup of its active requests, `EndExecute`/`ExecuteRaises` the end of the
model step, `ReleaseLease`/`ReleaseRaises` the lease, `FailAll` and `Exit` the
end of the driver, `Close` and `CloseEnds` the two halves of `close()`. The
scheduler is *any* scheduler: it plans any part of the known work of any of the
requests it has. `events` keeps the whole history of a stream's queue and
`read` how much was consumed; an event carries the position of its token and no
value, so a `stop` that an eos caused is not told from another. Left out:
cancellation of the driver task itself,
observers other than `request_finished`, the lane's thread and its pending flag.

**ModelWorker, Attention, DraftTrees.** The K/V of a token is modelled by what
went into it: the tokens up to and with it, if its query read exactly their K/V
at their positions, and `Garbage` otherwise. `Attention` computes which slots a
query reads, from the row each back end is given (`DenseReads`, `TorchReads`,
`TritonReads` with the kernel's mask), and `ModelWorker` what is predicted from
the K/V, so a wrong mask, slot, position or copy shows as a wrong token.
`DraftTrees` names the nodes of a trie by their paths; its operators are the
proposers' and the sampler's loops. Actions: `Load`, `Initialize` and `Install`
(the two locked halves of `initialize()`), `AddRequest`, `FreeRequest`,
`Acquire`, `Execute`, the forward of either handler, `Sample` or
`AcceptAndCompact`, `StepFails`, and the engine's slice `Apply`/`ApplyFailure`.
External: which first pages two equal prompts share (that is `PagedKVCache`).
A failing step frees its requests, so what it wrote is not kept, and a request
id is used once: `allocate` refuses an id that is still held. What `Install`
looks at again before it installs, `AddRequest` would also refuse, so the runs
show the two checks together and not the first by itself. Left out:
`warmup_model_executor`, heads and arithmetic, random
sampling, what observers record.

**TensorParallel.** `at[r]` is the source line a rank is at (listed at the head
of the module), so that every crash, timeout and failing call can come between
two lines. `call` is the command inside `_run_command`, `pending` the updates no
worker has been sent, `lease` the one lease of the one driver, `deferred` the
frees put off by it. A collective is one external step of all ranks that have
entered it; it fails for a rank when another will not come. `Abort` closes the
channel as `_run_command` does. The socket channel only: the gloo fallback is
two library calls.

**EngineProcess.** Client and server, and a pipe each way. A reader thread and
its callback queue only lengthen the pipe, so a message is taken and handled in
one step, and a batch of events is dispatched whole, as it is in one callback.
`Pump` is one command of the loop of `serve_engine_connection`, `Forward` one
event of `_forward_stream`, `Write` one batch of `_write_responses`, `Dispatch`
and `Lost` the client's reader. `snapshot()` is `AskMetrics`, `SendReadMetrics`
and `ReturnMetrics` on a client that is ready; on one that is not, `ReadKept`
returns what is `kept`, the snapshot of the last call to return an answer or
that of the start, and raises before there is one. That snapshot may be of any
age, and calls that overlap may leave the older of their answers: `MetricsFresh`
says of it only that it is no older than the call that got it. Moreover
`CloseBegins`, `CloseConnection`, `JoinProcess` the three waits of `close()`; a
second, concurrent `close()` is left out. Ghosts: what each engine stream said,
what each consumer got, and a clock that counts the client's calls, by which the
age of a metrics answer is told.

**TextStream.** `route` is the choice of adapter, engine and streaming; `frame`
is the suspended position of the engine's `stream()` generator and why it is
being left; `at` is the task of the response. `Take` is an event through decoder
and stop buffer (`TextOf`) or the token adapter, `Proceed`, `Send`, `Unwound` and
`Closed` the adapter's own lines. `FrameCancelled` is where a `CancelledError`
lands: a shield holds for the first, not for the second. In-process, `thread` is
what the worker thread of the synchronous generator does. External: the
tokenizer (`Texts`: half a character decodes to "?", and a leading space is
dropped), the framework's cancel scope, which cancels again on every turn until
the task has ended, and the finalizer of a dropped generator. The cleanup of
`EngineCore.stream` needs one turn of the loop, since the engine never awaits
while it holds its lock, and so is done before a second cancellation. Left out:
a tokenizer that raises, validation of requests, the lock that lets one request
at a time into the in-process client.

## 3. Runs

| run | result | what it shows |
| --- | --- | --- |
| `kv_paged` | pass, 172 591 states | `PoolExact`, `IndexSound`, `CommittedContent`, `WritableIsPrivate`, `ClaimsExact`, `StrictAlwaysServed`, `EvictionOnlyUnderPressure`, and that every step is a step of `KVLedger` |
| `kv_orphan` | violation | `NoOrphanedPages`, finding 3 |
| `scheduler` | pass, 58 524 states | `QueuesExact`, `WithinBudget`, `NeverStuck`, `FirstTokenAtOnce`, `AgedFirst`, and the liveness `EveryoneServed` |
| `scheduler_idle` | violation | `IdleEngineServes`, finding 1 |
| `engine` | pass, 231 697 states | `BlocksHeldInFlight`, `OwnersAgree`, `StreamsWellFormed`, `NobodyForgotten`, `OutcomeRecordedOnce`, `DriverPresent`, `ClosedIsQuiet`, and the liveness `StreamsEnd`, `CloseReturns` |
| `engine_cancel` | violation | `CancelSparesOthers`, finding 2 |
| `decode` | pass, 391 536 states | `OutputIsReference` (the tokens are those of token-by-token decoding), `CacheHoldsPrefix`, `EntriesExact`, `DraftsContinueHistory` |
| `tensor_parallel` | pass, 499 764 states | `TablesAgree`, `StepOwnsItsRequests`, `NothingAfterFailure`, and the liveness `RanksEnd` |
| `tp_idle` | violation | `EndsForCause`, finding 4 |
| `process` | pass, 390 804 states | `Delivered`, `MetricsFresh`, and the liveness `StreamsEnd`, `EngineGone` |
| `process_close` | violation | `EveryStreamEnds`, finding 5 |
| `text` | pass, 921 563 states | `ResponseExact`, and the liveness `EngineReleased` |

### Bounds

* `kv_paged`: four pages of two tokens; two requests with the same prompt of two
  full pages and one more token, one private request; a strict claim and two
  optimistic ones with the two watermarks; one reload. Sharing needs two equal
  prompts, a second published page makes the release order matter, the pool
  holds one and a half requests, so admission, growth and eviction all meet its
  limit. `MaxGeneration` bounds reloads, `MaxReserve` a reservation. The two
  equal requests are symmetric. `kv_orphan` is the same with three pages and no
  reload.
* `scheduler`: six blocks of two tokens, three slots, a budget of four tokens
  with one speculative position; a short, a regular and a pool-filling request,
  whose ids are used again, so that runs are infinite; none or one reserved
  short sequence, strict or optimistic claims, two rollbacks, aging after two
  steps. One reserved sequence is enough for a slot to be full, handed over and
  returned; three requests are enough for one to be bypassed by two.
  `scheduler_idle` has one request that nearly fills four blocks.
* `engine`: two requests, since every race is between one that acts and one
  that is in flight; two prompt tokens (so prompts may be computed in two
  chunks), two new tokens, up to two per step, and every fault. The counters of
  the module are bounded by the prompt and the maximal length, there is no
  other bound. Deadlock is not checked: the engine may stop for good.
* `decode`: two requests with one prompt of four tokens whose suffix occurred
  twice before with different continuations, so that chain and trie have
  something to find and pages are shared; pages of two tokens numbered out of
  order; an engine that computes prompts in chunks of three; up to three drafts
  and four new tokens, so that a tree is accepted wholly, partly, past the end
  of sequence and past the limit; five assemblies of back end and decoder, two
  models that disagree about every text and after K/V that is no text's say a
  token (`Noise`) that neither says otherwise, one failing step. `MCOtherDrafts` are
  trees the code's proposers do not make: acceptance and compaction must work
  for any proposer behind the port.
* `tensor_parallel`: two workers, so that one may fail while another runs and
  one is sent a command before the other; two requests; three commands
  (`MaxCommands`), so that a failed one has a predecessor and a successor; two
  pending updates and one fault (`MaxFaults`: a raise, a crash or a timeout) at
  any line. `tp_idle` has one request and two commands.
* `process`: two operations (`MaxOperations`: streams and metrics calls, in any
  mix), one token per stream, one exception whose class is lost on the pipe;
  closing, exceptions, a crash and timeouts may come at any line.
  `process_close` needs one stream.
* `text`: texts of up to four tokens over pieces that are half a character, two
  characters, a leading space, or nothing (the eos); two stop sequences at once,
  one across three pieces, one inside; `MaxAhead` lets the engine be two events
  ahead, so that its end or failure is queued behind text.

### Fairness

* `EngineCore!Fairness`: weak fairness of the driver as one process (`Drive`),
  of the end of `close()`, and of consuming and cleaning up by each client. The
  event loop runs every ready task, the lane's thread runs, a model step ends;
  `asyncio.Lock` is granted in order of arrival. A client need not register,
  give up or close. A model step that hangs for ever is outside these
  assumptions, and would be outside the code's as well: nothing times it out.
* `TokenBudgetScheduler!Fairness`: `schedule()` is called again while there are
  requests, and results are applied; no promise on clients. It is written as
  recurrence of the states that disable these actions, which is equivalent to
  weak fairness here because each of them disables itself.
* `TensorParallel`: each thread runs, a socket reports a peer that is gone, and a
  collective that some rank will not join fails. The timeout of a peer that is
  merely slow is never relied upon.
* `EngineProcess`: neither process stops while it can go on (`ClientRuns`,
  `ServerRuns`). A client need not open or leave a stream; the timeouts of
  `close()` count only once what they wait for has come.
* `TextStream`: the engine steps, the thread and the tasks run, and a client
  reads what it is sent or leaves. No deadline and no disconnect is promised.
  That an event is taken is stated of the queue alone (`WF_source(Dequeue)`):
  a taken event is always a step of `Take`.

### Findings

1. **An idle engine may refuse what it accepted** (`scheduler_idle`). With
   self-resubmit the decode watermark counts even when nothing runs. A request
   that fits the pool but not 90 % of it is never admitted; `schedule()` raises
   and the engine fails *all* requests. `docs/architecture.md:307` says only
   what an idle engine cannot complete is refused.
2. **A cancellation can fail a whole step** (`engine_cancel`). A request that
   leaves after planning and before `LocalModelWorker.execute` looks it up makes
   the lookup raise, and the other requests of the step fail with it.
   `docs/architecture.md:259-261` says only its own output is discarded. With
   the tensor-parallel executor, which defers the free, it cannot happen.
3. **Orphaned prefix pages** (`kv_orphan`). The release order in `free()` is
   meant to keep unreachable children out of the index; it does so only within
   one request. The page is wasted until it is evicted; its content is right.
4. **An idle group loses its workers** (`tp_idle`). The timeout of the handshake
   stays on a worker's command socket, so waiting for the next command raises
   when the engine has nothing to do for that long. `entrypoints/http.py:776`
   calls it the "maximum wait for a failed or stalled distributed operation".
5. **close() of the process client forgets its readers** (`process_close`).
   The server cancels the forwarding tasks, the client does not fail its queues
   while it is closing, and a consumer of an open stream waits for ever.
   `EngineCore.close()`, behind the same port, ends every stream, and
   `docs/architecture.md:374-375` says the split must not change the port.

A second cancellation that reaches the in-process client while it waits for a
`next()` on its thread makes it go on to `close()` before that step has ended,
which the docstring at `engine/in_process.py:43` excludes. No run is spent on it:
the single thread still does one after the other, and `EngineReleased` holds.

## 4. Proofs

Each is proved for every value of the constants that the named assumption
admits, so for any number of requests, pages, workers or streams. An invariant
is seldom inductive alone; what was added to it is said below. Every inductive
invariant was first checked by TLC on the instance of its component's run, or on
a smaller one.

### Engine (`EngineCore_proofs`, `BoundAssumption`)

| theorem | property |
| --- | --- |
| `TypeCorrect` | `TypeOK` |
| `BlocksAreHeldInFlight` | `BlocksHeldInFlight` |
| `OwnersDoAgree` | `OwnersAgree` |
| `DriverIsPresent` | `DriverPresent` |
| `ClosedMeansQuiet` | `ClosedIsQuiet` |
| `StreamsAreWellFormed` | `StreamsWellFormed` |
| `NobodyIsForgotten` | `NobodyForgotten` |
| `OutcomesRecordedOnce` | `OutcomeRecordedOnce` |

`OwnerInv` adds to the agreement of the owners *where the driver is* (`Phases`:
there is a step in flight exactly from planning to settling), *what closing
means* (`Closing`: a driver that ended left an empty scheduler behind, and after
`close()` nobody is live), *that unseen requests are nowhere* (`Unseen`), and
*that work remains* (`Progress`: the step in flight is a plan the scheduler may
make, its result one the executor may give, and what the scheduler keeps has
tokens left to compute). The last part is why a multi-token result that is cut
off by an end of sequence or by the limit still leaves a legal state.
`StreamInv` then says of every request that its stream is `generated[r]` tokens
in order, plus one terminal event if and only if it has left with one, and that
its outcome counter agrees. There is one lemma per action (or group of actions
that touch the same state) for each of the two invariants.

### KV manager and its ledger (`PagedKVCache_proofs`, `DataLemmas`)

From `CapacityAssumption`, `RequestAssumption`, `KeyAssumption` (a prefix key
stands for the whole prefix up to its block) and `AdmissionAssumption` (a strict
claim asks for no initial extra):

| theorem | property |
| --- | --- |
| `CacheTypes` | `TypeOK` |
| `PoolIsExact` | `PoolExact` |
| `IndexIsSound` | `IndexSound` |
| `SharingIsInvisible` | `CommittedContent` |
| `WritesArePrivate` | `WritableIsPrivate` |
| `ClaimsAreExact` | `ClaimsExact` |
| `StrictIsServed` | `StrictAlwaysServed` |
| `EvictsUnderPressure` | `EvictionOnlyUnderPressure` (an action property) |
| `ManagerImplementsLedger` | `ImplementsLedger`: `Spec => KVLedger!Spec` |
| `LedgerCovered` | `Ledger!Spec => []Ledger!PromisesCovered`: the ledger's rules alone never promise more than there is |
| `ManagerPromisesCovered` | so neither does the manager |

The invariant `CacheInv` adds to the properties that the LRU order relates idle
pages only (`Ordered`: a page that is taken or reset is forgotten by it), that
the index is never ahead of the model and is the model's while a request is
attached (`Epochs`: so a reset finds nobody attached), that nothing is kept of a
request that has left (`Detached`), and that a block table is exactly as long as
what was committed and reserved, within the maximum, with the filled prompt pages
read-only (`Tables`: so growing and trimming stay within the claim). The refinement maps the pages in use and the sum of the claims to
the ledger's `used` and `pledged`; each action is a step of the ledger or leaves
both alone. Sums over requests are sizes of sets of *pledges* (one element for
each promised page), so that `DataLemmas` can reason about them by counting.

### Ranks (`TensorParallel_proofs`, `TensorParallelAssumption`)

| theorem | property |
| --- | --- |
| `StepsOwnTheirRequests` | `StepOwnsItsRequests` |
| `NothingFollowsFailure` | `NothingAfterFailure` |
| `TablesStayEqual` | `TablesAgree` |
| `RanksStepTogether` | two ranks in a model step run the same command |

`GroupInv` says which commands are under way (`OneCommand`: at most one to a
worker, the same for all; `InStep`: while the channel is open it is the one rank
0 executes, and no worker outside the call has any), what the lease holds
(`LeaseHeld`, `WorkersHold`), and why a failed command cannot complete
(`FailureKept`: an error is still on the worker, in a reply that rank 0 expects,
or on rank 0, until the channel closes). `TablesInv` adds that the updates in a
worker's inbox, then those of a call that is still to be sent to it, then those
pending *lead* from its table to that of rank 0, refusing none. Leading composes
over concatenation (`LeadsOn`), so each step is one of three: updates move along
that sequence, one is added at its end, or one is applied at its front.

### Processes (`EngineProcess_proofs`, `ProcessAssumption`)

| theorem | property |
| --- | --- |
| `DeliveredInOrder` | `Delivered` |
| `SnapshotsAreFresh` | `MetricsFresh` |

The invariant (`ProcessInvariant`) follows every event: what the engine said on
a stream is what the consumer's queue has got, then what is on the pipe, then
what the writer still holds (`Flow`); a stream that was never opened has no
trace (`Entered`); a failure is the last of its stream (`FailureAlone`); and the
answer to a metrics call is no older than the call (`Times`), and so is what a
call that is answered leaves behind (`MetricsFresh`). `DataLemmas`
proves what the events of one stream in a joined sequence of batches are.
It was model-checked with `MaxOperations` 2 and `MaxTokens` 1.

### Scheduler (`TokenBudgetScheduler_proofs`)

From `PolicyAssumption`, `BudgetAssumption` and `RequestAssumption`:

| theorem | property |
| --- | --- |
| `SchedulerTypeOK` | `TypeOK` |
| `SchedulerQueuesExact` | `QueuesExact` |
| `SchedulerWithinBudget` | `WithinBudget` |
| `SchedulerFirstTokenAtOnce` | `FirstTokenAtOnce` |
| `SchedulerPromisesKept` | what is used and promised fits the pool, and `schedule()` never raises for a broken promise, for a request with nothing to compute or for one at its limit |
| `SchedulerNeverStuck` | `NeverStuck`, wherever self-resubmission is off |

`schedule()` is a long sequence of calls, so its invariant, `Sound`, is one that
holds between any two of them: each request is in one queue (`Queues`), what is
kept of a request agrees with its queue (`Local`: who has a block table, whose
claim is strict, how many blocks a request holds that has no work in the step),
the blocks in use and those promised fit the pool (`Ledger`), each lane leaves
the other its sequences (`Slots`), and every item of the step is work that its
request has, with blocks for all of it (`InFlight`). `complete` applies the
result of one request at a time, so `Local` is relative to the set `X` of
those whose result is being applied. There is one lemma per call
(`_schedule_request`, rollback, admission, handover, ...) that keeps `Sound` and
says what it leaves alone. `SchedInv`, which holds between the operations, adds
that the step is within its budgets, that the one reserved sequence serves the
short request waiting for its first output (`StepFits`), that nobody
rolled back is left over, and that the only error is "no progress". That error
is out of the question without self-resubmission: if nobody runs, an idle pool has
blocks for whoever waits (`IdleAdmits`), so that admission leaves somebody running
(`AdmitWaitingSound`), every claim is strict, and the first request of a lane gets
its blocks (`LaneSound`, `ScheduleAdmittedSound`). The loops
(rebalancing, admission, a lane) are folds, walked through state by state
(`Goes`, `FoldGoes`); a sum over the queues or over the items of a step is the
size of a set of positions (`Counted`, `Positions`), so that it can be reasoned
about by counting.

### Worker, attention and drafts (`ModelWorker_proofs`, `Attention_proofs`)

From `DraftTreesAssumption`, `AttentionAssumption` and `ModelWorkerAssumption`:

| theorem | property |
| --- | --- |
| `WorkerEntriesExact` | `EntriesExact` |
| `WorkerCacheHoldsPrefix` | `CacheHoldsPrefix` |
| `WorkerOutputIsReference` | `OutputIsReference` |
| `WorkerDraftsContinueHistory` | `DraftsContinueHistory` |

They hold for any prompts, models, page size, draft bounds and proposer trees,
and for every assembly of back end and decoder: what is decoded speculatively, in
chunks and on shared pages is token by token what plain decoding would give.

`Standing` says which model generation a request and the step in flight belong
to, `EntriesInv` who holds which tensor; together they give `EntriesExact`.
`TextInv` is about the texts. Of a request (`Alive`, `Sound`, `Stocked`): its
tokens are the model's own, its pages are its own but for read-only first ones,
and the cache holds the K/V of whatever counts as computed. Of the step in flight
(`Scheduled`, `Stepped`): its plans are of their requests as they are, and, phase
by phase, what the forward has written, what the model answered, and what
acceptance and compaction leave. A step keeps it for four reasons:

1. in each layout, dense or paged, every query reads exactly the K/V of the
   text before it: its ancestors in the draft, the input, the cached prefix
   (`AllAttending`, `ComputedTexts`, with the shape of a layout in `LayoutShape`
   and of what it sees in `SeenShape`);
2. nobody writes what another request reads (`OwnPage`, `Apart`);
3. accepted draft tokens are what the model would have said (`AcceptedTexts`),
   and compaction moves their K/V, and no other, behind the input
   (`CompactedShape`, `RetainedTexts`);
4. what is shown and counted in the end is no more than what the cache holds,
   with the cuts at the end of sequence and at the limit (`SteppedNumbers`,
   `SteppedHeld`).

`OutputIsReference` compares with a recursive function, so `NarratedExists`
first proves that a text told by the model exists for any length, and
`ToldToTheEnd` that what was generated is its beginning. A query that read
anything else than the text before it leaves `Garbage`, after which the model
says `Noise`; the proofs show that no such K/V is ever predicted from, whatever
`Noise` is.

`DraftsContinueHistory` needs of a state only that a leased plan is of its
request as it is and looks no further ahead than the budget allows (`Bounded`).
The rest is about the two proposers, for any context (`ChainHistoric`,
`TrieHistoric`):

1. the loop of the trie's proposer chooses nodes of the trie one by one, each
   after its parent (`Picked`, `ChosenShape`; the best of a frontier is in it,
   `BestShape`);
2. the order `append_subtree` gives the chosen nodes is a strict total one
   (`DepthFirstIs` says it in terms of where two paths part; `OrderStrict`,
   `OrderTotal`, `OrderTransitive`), so numbering each node by how many come
   before it, which is what `Flatten` does, gives each index one node
   (`FlattenOrdered`);
3. in that order a node's parent is the node before it or one of that node's
   ancestors (`NodesConsecutive`): if it were not, the parent would come after
   the node before and yet before the node;
4. so parents precede their children, siblings differ in their token, the path
   to an index is the chosen node (`NodesTree`), and a query sees exactly such
   ancestors (`AncestorsSeen`).

### How induction over data is done

The provers cannot instantiate an induction scheme, which takes an operator. A
property of the numbers is therefore stated as the *set* of the numbers that
have it: `Induct` says that a set with 0 and every successor holds them all, and
is proved from the well-foundedness of inclusion on finite sets. With it, the
values of the recursive functions behind `FlattenSeq` and `Tables` are proved for
sequences of any length.

### Only model-checked

* The liveness properties (`EveryoneServed`, `StreamsEnd`, `CloseReturns`,
  `RanksEnd`, `EngineGone`, `EngineReleased`): the prover has no fairness and no
  `ENABLED`.
* `NeverStuck` of `TokenBudgetScheduler` with self-resubmission: finding 1 is a
  violation of it for other constants. `SchedulerPromisesKept` proves all of it
  but "no progress".
* `AgedFirst`, an action property of the scheduler: it relies on no step rolling
  everybody back, which holds for the constants of the run (what a request asks
  for beyond its claim is small) and not for those of finding 1.
* `ResponseExact` of `TextStream`: the texts an adapter may build are compared
  with the first stop over bounded token sequences.

## 5. Not modelled

* Numeric parts: random sampling, the arithmetic of attention, models,
  quantization. Of the models only that a prediction follows from its K/V and
  the generation counter is used.
* Loading, argument parsing, wiring, request validation, HTTP and metrics
  formats: data and I/O, no control that outlives a call.
* The TTFT predictor of `runtime/engine/admission.py`: a numeric heuristic; the
  engine model lets any request be refused.
* The thread of `ExecutionLane`, its pending flag and a loop that is already
  closed; the gloo command channel and `nccl.py`, which only call libraries.

## 6. Plan

Done: the modules of section 2, in the order pool, scheduler, engine, worker and
caches, ranks, processes, texts, which is what a wrong step costs: silent
corruption of another request's cache first, hangs and lost requests next, then
wrong text. Proved: the safety invariants of the engine, the pool and its
ledger, the scheduler, the worker and its proposers, the ranks and the processes.
Left:

1. The texts: `ResponseExact` of `TextStream`.
2. The lane's thread and pending flag as a refinement of the execute actions of
   `EngineCore`.
