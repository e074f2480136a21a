--------------------------- MODULE TensorParallel ---------------------------
(***************************************************************************)
(* The ranks of one tensor-parallel group, from distributed.py: rank 0     *)
(* runs TensorParallelModelExecutor below the engine, every other rank     *)
(* runs run_tensor_parallel_worker, and _SocketCommandChannel carries the  *)
(* commands of rank 0 to the workers and their results back.               *)
(*                                                                         *)
(* at[r] is the line a rank is at:                                         *)
(*   rank 0  accept  handshake, accepting the workers                      *)
(*           idle    nobody holds the command lock                         *)
(*           send    in broadcast(), with call.peers still to be sent to   *)
(*           collect in complete(), with call.peers still to be read       *)
(*   worker  connect loading, not connected yet                            *)
(*           receive blocked in broadcast(None)                            *)
(*           reply   about to send its result                              *)
(*           ended   run_tensor_parallel_worker returned or raised         *)
(*           crashed the process is gone                                   *)
(*   any     before, in, after: the model step, around its collectives     *)
(***************************************************************************)
EXTENDS Integers, FiniteSets, Sequences, SequencesExt, FiniteSetsExt

CONSTANTS NumWorkers,   \* world_size - 1
          Requests,     \* request ids the engine may register
          MaxCommands,  \* bound: commands rank 0 issues before shutdown()
          MaxPending,   \* bound: add_request() waits while so many updates do
          MaxFaults     \* bound: steps that raise, crashes and timeouts

ASSUME TensorParallelAssumption ==
  NumWorkers \in Nat \ {0} /\ {MaxCommands, MaxPending, MaxFaults} \subseteq Nat

Workers == 1..NumWorkers
Ranks == 0..NumWorkers

VARIABLES
  active,       \* _active_requests of rank 0
  pending,      \* _pending: the updates the workers have not been sent
  lease,        \* requests of the engine's lease (one driver, one lease)
  deferred,     \* _deferred_frees
  driver,       \* the engine's step: idle, leased, or executed
  closing,      \* _closed of the executor
  capable,      \* _capabilities is set
  channelOpen,  \* rank 0's channel is not _closed
  call,         \* the command in _run_command
  issued,       \* number of commands issued
  at, result,   \* the line and the command result of every rank
  inbox,        \* commands on their way to a worker
  reply,        \* what a worker sent and rank 0 has not read
  current,      \* the command a worker is applying
  owns,         \* requests the local worker of each rank holds
  failedAt,     \* ghost: the first command that failed on some rank
  faults        \* number of faults so far

requestVars == <<active, pending, lease, deferred, driver>>
leaderVars == <<closing, capable, channelOpen, call, issued>>
wireVars == <<inbox, reply>>
vars == <<requestVars, leaderVars, wireVars, at, result, current, owns, failedAt,
          faults>>

Fault == faults < MaxFaults /\ faults' = faults + 1
FaultUnless(expected) == IF expected THEN UNCHANGED faults ELSE Fault

Add(r) == [op |-> "add", request |-> r]
Free(r) == [op |-> "free", request |-> r]
Command(kind, updates, batch) ==
  [kind |-> kind, updates |-> updates, batch |-> batch, number |-> issued + 1]
NoCommand == [kind |-> "none", updates |-> <<>>, batch |-> {}, number |-> 0]
NoCall == [command |-> NoCommand, peers |-> {}]
Set(f, r, v) == [f EXCEPT ![r] = v]

\* The requests a rank owns after one update.
After(t, u) == IF u.op = "add" THEN t \union {u.request} ELSE t \ {u.request}

\* The same after the first i updates, after all of them, and whether it refuses
\* one: to add what it holds already, or to free what it does not hold.
Tables(owned, updates) ==
  LET holds[i \in 0..Len(updates)] ==
        IF i = 0 THEN owned ELSE After(holds[i - 1], updates[i])
  IN  holds
Updated(owned, updates) == Tables(owned, updates)[Len(updates)]
Refuses(owned, updates) ==
  \E i \in DOMAIN updates :
    (updates[i].op = "add") <=> (updates[i].request \in Tables(owned, updates)[i - 1])

Init ==
  /\ active = {} /\ pending = <<>> /\ lease = {} /\ deferred = {} /\ driver = "idle"
  /\ closing = FALSE /\ capable = FALSE /\ channelOpen = TRUE
  /\ call = [NoCall EXCEPT !.peers = Workers] /\ issued = 0
  /\ at = [r \in Ranks |-> IF r = 0 THEN "accept" ELSE "connect"]
  /\ result = [r \in Ranks |-> "none"]
  /\ inbox = [w \in Workers |-> <<>>] /\ reply = [w \in Workers |-> "none"]
  /\ current = [w \in Workers |-> NoCommand]
  /\ owns = [r \in Ranks |-> {}]
  /\ failedAt = 0 /\ faults = 0

Gone(w) == at[w] \in {"ended", "crashed"}
CommandOf(r) == IF r = 0 THEN call.command ELSE current[r]
Running(r) == at[r] \in {"before", "in", "after"}
RunsModel(c) == c.kind \in {"initialize", "execute"}

-----------------------------------------------------------------------------
(* Requests, under the state lock of rank 0 *)

AddRequest(r) ==
  /\ ~closing /\ capable
  /\ r \notin owns[0]                    \* or the local worker raises
  /\ Len(pending) < MaxPending
  /\ owns' = [owns EXCEPT ![0] = @ \union {r}]
  /\ active' = active \union {r}
  /\ pending' = Append(pending, Add(r))
  /\ UNCHANGED <<lease, deferred, driver, leaderVars, wireVars, at, result,
                 current, failedAt, faults>>

FreeLocal(rs) ==
  /\ owns' = [owns EXCEPT ![0] = @ \ rs]
  /\ pending' = pending \o SetToSeq({Free(r) : r \in rs})

FreeRequestUnleased(r) ==
  /\ ~closing
  /\ r \in active
  /\ active' = active \ {r}
  /\ FreeLocal({r})
  /\ UNCHANGED <<lease, deferred, driver, leaderVars, wireVars, at, result,
                 current, failedAt, faults>>

FreeRequest(r) ==
  /\ ~closing
  /\ r \in active
  /\ active' = active \ {r}
  /\ IF r \in lease
       THEN deferred' = deferred \union {r} /\ UNCHANGED <<owns, pending>>
       ELSE FreeLocal({r}) /\ UNCHANGED deferred
  /\ UNCHANGED <<lease, driver, leaderVars, wireVars, at, result, current, failedAt, faults>>

Acquire(batch) ==
  /\ ~closing /\ driver = "idle"
  /\ batch # {} /\ batch \subseteq active
  /\ lease' = batch /\ driver' = "leased"
  /\ UNCHANGED <<active, pending, deferred, leaderVars, wireVars, at, result,
                 current, owns, failedAt, faults>>

\* The engine calls release() on every path; it is not refused after shutdown().
ReleaseLease ==
  /\ driver = "executed" \/ (driver = "leased" /\ closing)
  /\ FreeLocal(deferred)
  /\ lease' = {} /\ deferred' = {} /\ driver' = "idle"
  /\ UNCHANGED <<active, leaderVars, wireVars, at, result, current, failedAt, faults>>

-----------------------------------------------------------------------------
(* Rank 0, under the command lock *)

\* TorchDistributedGroup.initialize: workers connect, rank 0 accepts them.
Connect(w) ==
  /\ at[w] = "connect" /\ channelOpen
  /\ at' = Set(at, w, "receive") /\ reply' = Set(reply, w, "hello")
  /\ UNCHANGED <<requestVars, leaderVars, inbox, result, current, owns, failedAt, faults>>

ConnectFails(w) ==
  /\ at[w] = "connect"
  /\ at' = Set(at, w, "ended")
  /\ FaultUnless(~channelOpen)
  /\ UNCHANGED <<requestVars, leaderVars, wireVars, result, current, owns, failedAt>>

Accept(w) ==
  /\ at[0] = "accept" /\ w \in call.peers /\ reply[w] = "hello"
  /\ reply' = Set(reply, w, "none")
  /\ LET waiting == call.peers \ {w} IN
       /\ call' = [call EXCEPT !.peers = waiting]
       /\ at' = Set(at, 0, IF waiting = {} THEN "idle" ELSE "accept")
  /\ UNCHANGED <<requestVars, closing, capable, channelOpen, issued, inbox, result,
                 current, owns, failedAt, faults>>

Begin(command) ==
  /\ issued' = command.number
  /\ call' = [command |-> command, peers |-> Workers]
  /\ at' = Set(at, 0, "send")

Initialize ==
  /\ at[0] = "idle" /\ ~closing /\ issued = 0
  /\ Begin(Command("initialize", <<>>, {}))
  /\ UNCHANGED <<requestVars, closing, capable, channelOpen, wireVars, result,
                 current, owns, failedAt, faults>>

ExecuteKeepsPending ==
  /\ at[0] = "idle" /\ ~closing /\ driver = "leased" /\ issued < MaxCommands
  /\ Begin(Command("execute", pending, lease))
  /\ UNCHANGED <<requestVars, closing, capable, channelOpen,
                 wireVars, result, current, owns, failedAt, faults>>

Execute ==
  /\ at[0] = "idle" /\ ~closing /\ driver = "leased" /\ issued < MaxCommands
  /\ Begin(Command("execute", pending, lease))
  /\ pending' = <<>>
  /\ UNCHANGED <<active, lease, deferred, driver, closing, capable, channelOpen,
                 wireVars, result, current, owns, failedAt, faults>>

\* shutdown() closes the executor, then flushes, then sends _Shutdown.
Shutdown ==
  /\ at[0] = "idle" /\ ~closing
  /\ closing' = TRUE
  /\ pending' = <<>>
  /\ Begin(IF pending = <<>> THEN Command("shutdown", <<>>, {})
                             ELSE Command("update", pending, {}))
  /\ UNCHANGED <<active, lease, deferred, driver, capable, channelOpen, wireVars,
                 result, current, owns, failedAt, faults>>

Returned == IF call.command.kind = "execute" THEN driver' = "executed"
                                             ELSE UNCHANGED driver

AbortKeepsPeers ==
  /\ call' = NoCall
  /\ at' = Set(at, 0, "idle") /\ result' = Set(result, 0, "none")
  /\ Returned
  /\ UNCHANGED <<active, pending, lease, deferred, closing, capable, issued,
                 channelOpen, wireVars, current, owns, failedAt>>

\* An exception of _run_command, or of the handshake: every socket is closed.
Abort ==
  /\ channelOpen' = FALSE
  /\ call' = NoCall
  /\ at' = Set(at, 0, "idle") /\ result' = Set(result, 0, "none")
  /\ reply' = [w \in Workers |-> "none"]
  /\ Returned
  /\ UNCHANGED <<active, pending, lease, deferred, closing, capable, issued, inbox,
                 current, owns, failedAt>>

\* The listener's timeout expires: for a worker that is gone, or is late.
AcceptFails ==
  /\ at[0] = "accept" /\ Abort
  /\ FaultUnless(\E w \in call.peers : Gone(w) /\ reply[w] = "none")

\* broadcast(): one payload, to the peers in the order of their ranks.
Send ==
  /\ at[0] = "send" /\ channelOpen
  /\ LET w == Min(call.peers)
         others == call.peers \ {w}
     IN  /\ ~Gone(w)
         /\ inbox' = [inbox EXCEPT ![w] = Append(@, call.command)]
         /\ call' = [call EXCEPT !.peers = IF others = {} THEN Workers ELSE others]
         /\ at' = Set(at, 0, IF others # {} THEN "send"
                             ELSE IF RunsModel(call.command) THEN "before"
                             ELSE "collect")
         /\ result' = Set(result, 0, IF others = {} /\ ~RunsModel(call.command)
                                       THEN "ok" ELSE "none")
  /\ UNCHANGED <<requestVars, closing, capable, channelOpen, issued, reply,
                 current, owns, failedAt, faults>>

PeerLost == ~channelOpen \/ \E w \in call.peers : w = Min(call.peers) /\ Gone(w)

\* The channel is closed, the peer is gone, or the payload exceeds the limit.
SendFails ==
  /\ at[0] = "send"
  /\ PeerLost \/ call.peers = Workers
  /\ Abort /\ FaultUnless(PeerLost)

\* complete(): the results, in the order of the ranks.
Collect ==
  /\ at[0] = "collect"
  /\ call.peers # {}
  /\ LET w == Min(call.peers) IN
       /\ reply[w] # "none"
       /\ reply' = Set(reply, w, "none")
       /\ call' = [call EXCEPT !.peers = @ \ {w}]
       /\ result' = IF reply[w] = "error" THEN Set(result, 0, "error") ELSE result
  /\ UNCHANGED <<requestVars, closing, capable, channelOpen, issued, inbox, at,
                 current, owns, failedAt, faults>>

\* The worker is gone and has answered nothing, or it is too slow.
CollectFails ==
  /\ at[0] = "collect"
  /\ call.peers # {}
  /\ reply[Min(call.peers)] = "none"
  /\ Abort /\ FaultUnless(PeerLost)

\* Every result is there and none is an error.
Completes ==
  /\ at[0] = "collect" /\ call.peers = {} /\ result[0] = "ok"
  /\ result' = Set(result, 0, "none")
  /\ Returned
  /\ IF call.command.kind = "update"
       THEN Begin(Command("shutdown", <<>>, {}))
       ELSE call' = NoCall /\ at' = Set(at, 0, "idle") /\ UNCHANGED issued
     \* capabilities of another parallel size are refused, with no abort
  /\ capable' \in IF call.command.kind = "initialize" THEN BOOLEAN ELSE {capable}
  /\ UNCHANGED <<active, pending, lease, deferred, closing, channelOpen, wireVars,
                 current, owns, failedAt, faults>>

\* A rank reported an error, or the ranks' capabilities differ.
Invalid ==
  /\ at[0] = "collect" /\ call.peers = {}
  /\ result[0] = "error" \/ call.command.kind = "initialize"
  /\ Abort /\ FaultUnless(result[0] = "error")

LeaderCrash ==
  /\ at[0] # "gone"
  /\ active' = {} /\ pending' = <<>> /\ lease' = {} /\ deferred' = {} /\ driver' = "idle"
  /\ closing' = TRUE /\ capable' = FALSE /\ channelOpen' = FALSE
  /\ call' = NoCall
  /\ at' = Set(at, 0, "gone") /\ result' = Set(result, 0, "none")
  /\ reply' = [w \in Workers |-> "none"]
  /\ owns' = [owns EXCEPT ![0] = {}]
  /\ Fault
  /\ UNCHANGED <<issued, inbox, current, failedAt>>

-----------------------------------------------------------------------------
(* The model step of any rank *)

NoteFailure(r) ==
  failedAt' = IF failedAt = 0 THEN CommandOf(r).number ELSE failedAt

\* operation() is over with v: rank 0 collects, a worker replies.
Ends(r, v) ==
  /\ result' = Set(result, r, v)
  /\ at' = Set(at, r, IF r = 0 THEN "collect" ELSE "reply")
  /\ IF v = "error" THEN NoteFailure(r) ELSE UNCHANGED failedAt
  /\ UNCHANGED <<requestVars, leaderVars, wireVars, current, owns>>

EnterCollective(r) ==
  /\ at[r] = "before"
  /\ at' = Set(at, r, "in")
  /\ UNCHANGED <<requestVars, leaderVars, wireVars, result, current, owns, failedAt, faults>>

\* The step raises on this rank alone, before its collectives or after them.
StepRaises(r) == at[r] \in {"before", "after"} /\ Ends(r, "error") /\ Fault

CollectiveCompletes ==
  /\ \A r \in Ranks : at[r] = "in"
  /\ at' = [r \in Ranks |-> "after"]
  /\ UNCHANGED <<requestVars, leaderVars, wireVars, result, current, owns, failedAt, faults>>

\* Some rank will not come to the collective r waits in.
Deserted(r) ==
  \E q \in Ranks : ~Running(q) /\ ~(q # 0 /\ inbox[q] # <<>>) /\ at[q] # "send"

\* The others have not all arrived when the collective's timeout expires.
CollectiveFails(r) ==
  /\ at[r] = "in" /\ \E q \in Ranks : at[q] # "in"
  /\ Ends(r, "error") /\ FaultUnless(Deserted(r))

StepReturns(r) == at[r] = "after" /\ Ends(r, "ok") /\ UNCHANGED faults


-----------------------------------------------------------------------------
(* The command loop of a worker *)

Receive(w) ==
  /\ at[w] = "receive" /\ inbox[w] # <<>>
  /\ LET c == Head(inbox[w])
         refused == Refuses(owns[w], c.updates)
     IN  /\ current' = Set(current, w, c)
         /\ owns' = [owns EXCEPT ![w] = Updated(@, c.updates)]
         /\ at' = Set(at, w, IF RunsModel(c) /\ ~refused /\ c.batch \subseteq owns'[w]
                               THEN "before" ELSE "reply")
         /\ result' = Set(result, w, IF at'[w] = "before" THEN "none"
                                     ELSE IF refused \/ RunsModel(c) THEN "error"
                                     ELSE "ok")
         /\ failedAt' = IF result'[w] = "error" /\ failedAt = 0 THEN c.number
                                                                ELSE failedAt
  /\ inbox' = [inbox EXCEPT ![w] = Tail(@)]
  /\ UNCHANGED <<requestVars, leaderVars, reply, faults>>

Leave(w, how) ==
  /\ at' = Set(at, w, how)
  /\ result' = Set(result, w, "none") /\ current' = Set(current, w, NoCommand)
  /\ inbox' = Set(inbox, w, <<>>) /\ owns' = Set(owns, w, {})

\* complete(), then _validate_results raises for an error.
Reply(w) ==
  /\ at[w] = "reply" /\ channelOpen
  /\ reply' = Set(reply, w, result[w])
  /\ IF result[w] = "error" \/ current[w].kind = "shutdown"
       THEN Leave(w, "ended")
       ELSE /\ at' = Set(at, w, "receive") /\ result' = Set(result, w, "none")
            /\ current' = Set(current, w, NoCommand) /\ UNCHANGED <<inbox, owns>>
  /\ UNCHANGED <<requestVars, leaderVars, failedAt, faults>>

ReplyFails(w) ==
  /\ at[w] = "reply" /\ ~channelOpen
  /\ Leave(w, "ended")
  /\ UNCHANGED <<requestVars, leaderVars, reply, failedAt, faults>>

PeerExited(w) ==
  /\ at[w] = "receive" /\ inbox[w] = <<>> /\ ~channelOpen
  /\ Leave(w, "ended")
  /\ UNCHANGED <<requestVars, leaderVars, reply, failedAt, faults>>

\* recv times out: the socket keeps the timeout of the handshake.
ReceiveTimesOut(w) ==
  /\ at[w] = "receive" /\ inbox[w] = <<>> /\ channelOpen
  /\ Leave(w, "ended")
  /\ Fault
  /\ UNCHANGED <<requestVars, leaderVars, reply, failedAt>>

WorkerCrash(w) ==
  /\ ~Gone(w)
  /\ Leave(w, "crashed")
  /\ Fault
  /\ UNCHANGED <<requestVars, leaderVars, reply, failedAt>>

-----------------------------------------------------------------------------
Next ==
  \/ Initialize \/ Execute \/ Shutdown \/ ReleaseLease
  \/ AcceptFails \/ Send \/ SendFails \/ Collect \/ CollectFails \/ Completes
  \/ Invalid \/ LeaderCrash \/ CollectiveCompletes
  \/ \E r \in Requests : AddRequest(r) \/ FreeRequest(r)
  \/ \E batch \in SUBSET Requests : Acquire(batch)
  \/ \E r \in Ranks : EnterCollective(r) \/ StepRaises(r) \/ CollectiveFails(r)
                        \/ StepReturns(r)
  \/ \E w \in Workers : Connect(w) \/ ConnectFails(w) \/ Accept(w) \/ Receive(w)
                        \/ Reply(w) \/ ReplyFails(w) \/ PeerExited(w)
                        \/ ReceiveTimesOut(w) \/ WorkerCrash(w)

\* Each thread runs, a socket reports a peer that is gone, and a collective that
\* some rank will not join fails. No timeout of a slow peer is taken for granted.
LeaderFairness ==
  /\ WF_vars(Send \/ (PeerLost /\ SendFails) \/ Collect \/ Completes
             \/ (result[0] = "error" /\ Invalid)
             \/ (PeerLost /\ CollectFails))
  /\ WF_vars(EnterCollective(0) \/ StepReturns(0) \/ (Deserted(0) /\ CollectiveFails(0)))
  /\ WF_vars(CollectiveCompletes)
WorkerFairness ==
  \A w \in Workers :
    /\ WF_vars(Receive(w) \/ Reply(w) \/ ReplyFails(w) \/ PeerExited(w))
    /\ WF_vars(EnterCollective(w) \/ StepReturns(w) \/ (Deserted(w) /\ CollectiveFails(w)))
    /\ WF_vars(~channelOpen /\ ConnectFails(w))

Spec == Init /\ [][Next]_vars /\ LeaderFairness /\ WorkerFairness

-----------------------------------------------------------------------------
\* Updates rank 0 has taken from pending and worker w has not applied yet.
Outstanding(w) ==
  FlattenSeq([i \in DOMAIN inbox[w] |-> inbox[w][i].updates])
    \o IF at[0] = "send" /\ w \in call.peers THEN call.command.updates ELSE <<>>

\* While the group works, what a worker holds, after the updates on their way to
\* it and those still pending, is what rank 0 holds, and it refuses none of them:
\* no registration is lost, doubled or out of order (_apply_request_updates).
TablesAgree ==
  channelOpen =>
    \A w \in Workers :
      ~Gone(w) /\ result[w] # "error" =>
        LET updates == Outstanding(w) \o pending
        IN  /\ ~Refuses(owns[w], updates)
            /\ Updated(owns[w], updates) = owns[0]

\* A rank that runs a step holds every request of it, until the step is over,
\* however the engine frees requests meanwhile (free_request, _release_lease).
StepOwnsItsRequests ==
  \A r \in Ranks :
    Running(r) /\ CommandOf(r).kind = "execute" => CommandOf(r).batch \subseteq owns[r]

\* Once a command has failed on a rank, no rank applies a later one: the ranks'
\* KV caches differ from then on (_run_command's abort).
NothingAfterFailure ==
  failedAt # 0 =>
    \A r \in Ranks : (Running(r) \/ at[r] = "reply") => CommandOf(r).number <= failedAt

\* shutdown(), or a channel that was aborted, ends every rank: no worker stays
\* in recv or in a collective, and rank 0 does not hold its command lock.
RanksEnd ==
  (closing \/ ~channelOpen) ~> (at[0] \in {"idle", "gone"} /\ \A w \in Workers : Gone(w))

\* Once the group serves, a worker leaves its loop only because something failed
\* or ended ("maximum wait for a failed or stalled distributed operation",
\* http.py): the engine having nothing to run is no failure.
EndsForCause ==
  [][ capable /\ ~closing /\ channelOpen /\ at[0] = "idle" /\ failedAt = 0
        => \A w \in Workers : at'[w] = "ended" => at[w] = "ended" ]_vars
=============================================================================
