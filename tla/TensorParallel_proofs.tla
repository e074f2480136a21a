------------------------ MODULE TensorParallel_proofs ------------------------
(***************************************************************************)
(* What the ranks of a tensor-parallel group agree on, for any number of   *)
(* workers, requests, commands and faults: a rank owns the requests of the *)
(* step it runs, and once a command failed on one rank no rank applies a   *)
(* later one.  The invariant says which commands are under way: at most    *)
(* one to a worker, the same one for all, and while the channel is open    *)
(* the one rank 0 is executing; and why a failed command cannot complete.  *)
(*                                                                         *)
(* The last part is about the requests the ranks hold.  The updates of one *)
(* sequence followed by those of another lead where the second leads from  *)
(* where the first does (LeadsOn), so a step may move updates from pending *)
(* to a call, to an inbox, and into a worker's table.                      *)
(***************************************************************************)
EXTENDS TensorParallel, DataLemmas, TLAPS

LeaderLines ==
  {"accept", "idle", "send", "before", "in", "after", "collect", "gone"}
WorkerLines ==
  {"connect", "receive", "before", "in", "after", "reply", "ended", "crashed"}
Calling == {"send", "before", "in", "after", "collect"}

TypeOK ==
  /\ {active, lease, deferred} \subseteq SUBSET Requests
  /\ driver \in {"idle", "leased", "executed"}
  /\ closing \in BOOLEAN /\ channelOpen \in BOOLEAN
  /\ call = [command |-> call.command, peers |-> call.peers]
  /\ call.peers \subseteq Workers
  /\ issued \in Nat /\ failedAt \in Nat /\ faults \in Nat
  /\ at \in [Ranks -> LeaderLines \cup WorkerLines]
  /\ at[0] \in LeaderLines /\ \A w \in Workers : at[w] \in WorkerLines
  /\ result \in [Ranks -> {"none", "ok", "error"}]
  /\ reply \in [Workers -> {"none", "hello", "ok", "error"}]
  /\ DOMAIN inbox = Workers /\ DOMAIN current = Workers /\ DOMAIN owns = Ranks

\* What rank 0 does in a call, and with which command.
CallExact ==
  /\ at[0] \notin Calling => call.command = NoCommand
  /\ at[0] \in Calling => call.command.number = issued /\ issued > 0
  /\ at[0] = "send" => call.peers # {}
  /\ Running(0) => call.peers = Workers
  /\ at[0] \in {"accept", "before", "in", "after", "collect"} => channelOpen
  /\ at[0] = "gone" => ~channelOpen

\* The batch of the command rank 0 executes is the engine's lease, and the
\* local worker holds every request of it, active, leased or waiting to be freed.
LeaseHeld ==
  /\ active \subseteq owns[0] /\ lease \subseteq owns[0] /\ deferred \subseteq owns[0]
  /\ active \cap deferred = {}
  /\ call.command.kind = "execute" =>
       driver = "leased" /\ ~closing /\ lease = call.command.batch

\* A worker that runs a step holds the requests of it.
WorkersHold ==
  \A w \in Workers :
    Running(w) /\ current[w].kind = "execute" => current[w].batch \subseteq owns[w]

\* A worker has a command from the moment it is sent until it is answered.
Busy(w) == Running(w) \/ at[w] = "reply"
HasCommand(w) == inbox[w] # <<>> \/ Busy(w)
NumberAt(w) == IF inbox[w] # <<>> THEN inbox[w][1].number ELSE current[w].number
Quiet(w) == ~HasCommand(w) /\ reply[w] = "none" /\ at[w] # "connect"

OneCommand ==
  /\ \A w \in Workers :
       /\ inbox[w] # <<>> => inbox[w] = <<inbox[w][1]>> /\ at[w] = "receive"
       /\ HasCommand(w) => reply[w] = "none" /\ NumberAt(w) \in Nat \ {0}
       /\ reply[w] # "none" => at[w] # "connect"
  /\ \A v, w \in Workers :
       HasCommand(v) /\ HasCommand(w) => NumberAt(v) = NumberAt(w)

\* While the channel is open, the commands under way are those of this call.
InStep ==
  channelOpen =>
    /\ \A w \in Workers : HasCommand(w) => at[0] \in Calling /\ NumberAt(w) = issued
    /\ at[0] = "idle" => \A w \in Workers : Quiet(w)
    /\ at[0] = "send" => \A w \in call.peers : Quiet(w)
    /\ at[0] \in {"accept", "collect"} => \A w \in Workers \ call.peers : Quiet(w)
    /\ at[0] # "accept" => \A w \in Workers : at[w] # "connect"

\* An error of this call, on rank 0 or on a worker whose result it still expects.
Failing(w) ==
  \/ at[w] = "reply" /\ result[w] = "error"
  \/ reply[w] = "error"
  \/ Gone(w) /\ reply[w] = "none"
Doomed ==
  \/ at[0] = "collect" /\ result[0] = "error"
  \/ \E w \in Workers : Failing(w) /\ (at[0] = "collect" => w \in call.peers)

FailureKept ==
  failedAt # 0 =>
    /\ \A w \in Workers : HasCommand(w) => NumberAt(w) = failedAt
    /\ channelOpen => at[0] \in Calling /\ failedAt = issued /\ Doomed

GroupInv ==
  TypeOK /\ CallExact /\ LeaseHeld /\ WorkersHold /\ OneCommand /\ InStep /\ FailureKept

----------------------------------------------------------------------------
(* Rank 0 and the workers are the ranks, and there is a worker.            *)
LEMMA GroupRanks ==
  /\ 0 \in Ranks /\ 0 \notin Workers /\ Workers \subseteq Ranks /\ Workers # {}
  /\ \A r \in Ranks : r = 0 \/ r \in Workers
  /\ Workers \subseteq Nat
  BY TensorParallelAssumption DEF Ranks, Workers

(* The smallest of a nonempty set of numbers is one of them: the peers are *)
(* taken in the order of their ranks.                                      *)
LEMMA MinOf == ASSUME NEW S \in SUBSET Nat, S # {} PROVE Min(S) \in S
  BY Smallest DEF Min

(* A sequence of one command.                                              *)
LEMMA OneInSeq ==
  ASSUME NEW c
  PROVE  /\ Append(<<>>, c) = <<c>> /\ Head(<<c>>) = c /\ Tail(<<c>>) = <<>>
         /\ <<c>>[1] = c /\ <<c>> # <<>>
  OBVIOUS

(* The next peer of a call is a worker.                                    *)
LEMMA NextPeer ==
  ASSUME call.peers \subseteq Workers, call.peers # {}
  PROVE  Min(call.peers) \in call.peers /\ Min(call.peers) \in Workers
  BY MinOf, GroupRanks

----------------------------------------------------------------------------

(* A new request is held by the local worker from add_request() on.        *)
LEMMA AddRequestKeeps ==
  ASSUME GroupInv, NEW r \in Requests, AddRequest(r)
  PROVE  GroupInv'
  <1>1. /\ TypeOK /\ CallExact /\ LeaseHeld /\ WorkersHold /\ OneCommand /\ InStep
        /\ FailureKept
    BY DEF GroupInv
  <1>2. TypeOK'
    BY <1>1, GroupRanks
    DEF AddRequest, Add, leaderVars, wireVars, TypeOK, LeaderLines, WorkerLines
  <1>3. CallExact'
    BY <1>1, GroupRanks
    DEF AddRequest, Add, leaderVars, wireVars, CallExact, Calling, Running,
        TypeOK
  <1>4. LeaseHeld'
    BY <1>1, GroupRanks
    DEF AddRequest, Add, leaderVars, wireVars, LeaseHeld, TypeOK
  <1>5. WorkersHold'
    BY <1>1, GroupRanks
    DEF AddRequest, Add, leaderVars, wireVars, WorkersHold, Running, TypeOK
  <1>6. OneCommand'
    BY <1>1, GroupRanks
    DEF AddRequest, Add, leaderVars, wireVars, OneCommand, HasCommand, Busy,
        NumberAt, Running, TypeOK
  <1>7. InStep'
    BY <1>1, GroupRanks
    DEF AddRequest, Add, leaderVars, wireVars, InStep, Calling, HasCommand,
        Busy, NumberAt, Quiet, Running, TypeOK
  <1>8. FailureKept'
    BY <1>1, GroupRanks
    DEF AddRequest, Add, leaderVars, wireVars, FailureKept, Doomed, Failing,
        Calling, HasCommand, Busy, NumberAt, Running, Gone, TypeOK
  <1>. QED  BY <1>2, <1>3, <1>4, <1>5, <1>6, <1>7, <1>8 DEF GroupInv

(* A request of the leased batch stays with the local worker; any other    *)
(* leaves.                                                                 *)
LEMMA FreeRequestKeeps ==
  ASSUME GroupInv, NEW r \in Requests, FreeRequest(r)
  PROVE  GroupInv'
  <1>1. /\ TypeOK /\ CallExact /\ LeaseHeld /\ WorkersHold /\ OneCommand /\ InStep
        /\ FailureKept
    BY DEF GroupInv
  <1>2. TypeOK'
    BY <1>1, GroupRanks
    DEF FreeRequest, FreeLocal, leaderVars, wireVars, TypeOK, LeaderLines,
        WorkerLines
  <1>3. CallExact'
    BY <1>1, GroupRanks
    DEF FreeRequest, FreeLocal, leaderVars, wireVars, CallExact, Calling,
        Running, TypeOK
  <1>4. LeaseHeld'
    BY <1>1, GroupRanks
    DEF FreeRequest, FreeLocal, leaderVars, wireVars, LeaseHeld, TypeOK
  <1>5. WorkersHold'
    BY <1>1, GroupRanks
    DEF FreeRequest, FreeLocal, leaderVars, wireVars, WorkersHold, Running,
        TypeOK
  <1>6. OneCommand'
    BY <1>1, GroupRanks
    DEF FreeRequest, FreeLocal, leaderVars, wireVars, OneCommand, HasCommand,
        Busy, NumberAt, Running, TypeOK
  <1>7. InStep'
    BY <1>1, GroupRanks
    DEF FreeRequest, FreeLocal, leaderVars, wireVars, InStep, Calling,
        HasCommand, Busy, NumberAt, Quiet, Running, TypeOK
  <1>8. FailureKept'
    BY <1>1, GroupRanks
    DEF FreeRequest, FreeLocal, leaderVars, wireVars, FailureKept, Doomed,
        Failing, Calling, HasCommand, Busy, NumberAt, Running, Gone, TypeOK
  <1>. QED  BY <1>2, <1>3, <1>4, <1>5, <1>6, <1>7, <1>8 DEF GroupInv

(* The lease is of active requests.                                        *)
LEMMA AcquireKeeps ==
  ASSUME GroupInv, NEW batch \in SUBSET Requests, Acquire(batch)
  PROVE  GroupInv'
  <1>1. /\ TypeOK /\ CallExact /\ LeaseHeld /\ WorkersHold /\ OneCommand /\ InStep
        /\ FailureKept
    BY DEF GroupInv
  <1>2. TypeOK'
    BY <1>1, GroupRanks
    DEF Acquire, leaderVars, wireVars, TypeOK, LeaderLines, WorkerLines
  <1>3. CallExact'
    BY <1>1, GroupRanks
    DEF Acquire, leaderVars, wireVars, CallExact, Calling, Running, TypeOK
  <1>4. LeaseHeld'
    BY <1>1, GroupRanks DEF Acquire, leaderVars, wireVars, LeaseHeld, TypeOK
  <1>5. WorkersHold'
    BY <1>1, GroupRanks
    DEF Acquire, leaderVars, wireVars, WorkersHold, Running, TypeOK
  <1>6. OneCommand'
    BY <1>1, GroupRanks
    DEF Acquire, leaderVars, wireVars, OneCommand, HasCommand, Busy, NumberAt,
        Running, TypeOK
  <1>7. InStep'
    BY <1>1, GroupRanks
    DEF Acquire, leaderVars, wireVars, InStep, Calling, HasCommand, Busy,
        NumberAt, Quiet, Running, TypeOK
  <1>8. FailureKept'
    BY <1>1, GroupRanks
    DEF Acquire, leaderVars, wireVars, FailureKept, Doomed, Failing, Calling,
        HasCommand, Busy, NumberAt, Running, Gone, TypeOK
  <1>. QED  BY <1>2, <1>3, <1>4, <1>5, <1>6, <1>7, <1>8 DEF GroupInv

(* What is freed when the lease ends is not active, and no step runs on    *)
(* it.                                                                     *)
LEMMA ReleaseLeaseKeeps ==
  ASSUME GroupInv, ReleaseLease
  PROVE  GroupInv'
  <1>1. /\ TypeOK /\ CallExact /\ LeaseHeld /\ WorkersHold /\ OneCommand /\ InStep
        /\ FailureKept
    BY DEF GroupInv
  <1>2. TypeOK'
    BY <1>1, GroupRanks
    DEF ReleaseLease, FreeLocal, leaderVars, wireVars, TypeOK, LeaderLines,
        WorkerLines
  <1>3. CallExact'
    BY <1>1, GroupRanks
    DEF ReleaseLease, FreeLocal, leaderVars, wireVars, CallExact, Calling,
        Running, TypeOK
  <1>4. LeaseHeld'
    BY <1>1, GroupRanks
    DEF ReleaseLease, FreeLocal, leaderVars, wireVars, LeaseHeld, TypeOK
  <1>5. WorkersHold'
    BY <1>1, GroupRanks
    DEF ReleaseLease, FreeLocal, leaderVars, wireVars, WorkersHold, Running,
        TypeOK
  <1>6. OneCommand'
    BY <1>1, GroupRanks
    DEF ReleaseLease, FreeLocal, leaderVars, wireVars, OneCommand, HasCommand,
        Busy, NumberAt, Running, TypeOK
  <1>7. InStep'
    BY <1>1, GroupRanks
    DEF ReleaseLease, FreeLocal, leaderVars, wireVars, InStep, Calling,
        HasCommand, Busy, NumberAt, Quiet, Running, TypeOK
  <1>8. FailureKept'
    BY <1>1, GroupRanks
    DEF ReleaseLease, FreeLocal, leaderVars, wireVars, FailureKept, Doomed,
        Failing, Calling, HasCommand, Busy, NumberAt, Running, Gone, TypeOK
  <1>. QED  BY <1>2, <1>3, <1>4, <1>5, <1>6, <1>7, <1>8 DEF GroupInv

(* A worker that connects has no command and no result.                    *)
LEMMA ConnectKeeps ==
  ASSUME GroupInv, NEW w \in Workers, Connect(w)
  PROVE  GroupInv'
  <1>1. /\ TypeOK /\ CallExact /\ LeaseHeld /\ WorkersHold /\ OneCommand /\ InStep
        /\ FailureKept
    BY DEF GroupInv
  <1>2. TypeOK'
    BY <1>1, GroupRanks
    DEF Connect, Set, requestVars, leaderVars, TypeOK, LeaderLines, WorkerLines
  <1>3. CallExact'
    BY <1>1, GroupRanks
    DEF Connect, Set, requestVars, leaderVars, CallExact, Calling, Running,
        TypeOK
  <1>4. LeaseHeld'
    BY <1>1, GroupRanks
    DEF Connect, Set, requestVars, leaderVars, LeaseHeld, TypeOK
  <1>5. WorkersHold'
    BY <1>1, GroupRanks
    DEF Connect, Set, requestVars, leaderVars, WorkersHold, Running, TypeOK
  <1>6. OneCommand'
    BY <1>1, GroupRanks
    DEF Connect, Set, requestVars, leaderVars, OneCommand, HasCommand, Busy,
        NumberAt, Running, TypeOK
  <1>7. InStep'
    BY <1>1, GroupRanks
    DEF Connect, Set, requestVars, leaderVars, InStep, Calling, HasCommand,
        Busy, NumberAt, Quiet, Running, TypeOK
  <1>8. FailureKept'
    <2>1. /\ at' = [at EXCEPT ![w] = "receive"] /\ reply' = [reply EXCEPT ![w] = "hello"]
          /\ at[w] = "connect" /\ inbox[w] = <<>> /\ reply[w] = "none"
          /\ UNCHANGED <<leaderVars, inbox, result, current, failedAt>>
      BY <1>1 DEF Connect, Set, OneCommand
    <2>2. \A v \in Workers : Failing(v) => Failing(v)'
      BY <1>1, <2>1, GroupRanks DEF Failing, Gone, TypeOK
    <2>3. \A v \in Workers : HasCommand(v)' => HasCommand(v) /\ NumberAt(v)' = NumberAt(v)
      BY <1>1, <2>1, GroupRanks DEF HasCommand, Busy, Running, NumberAt, TypeOK
    <2>4. at'[0] = at[0] /\ result'[0] = result[0]
      BY <1>1, <2>1, GroupRanks DEF TypeOK
    <2>5. Doomed => Doomed'
      BY <2>1, <2>2, <2>4 DEF Doomed, leaderVars
    <2>. QED  BY <1>1, <2>1, <2>3, <2>4, <2>5 DEF FailureKept, leaderVars
  <1>. QED  BY <1>2, <1>3, <1>4, <1>5, <1>6, <1>7, <1>8 DEF GroupInv

(* A worker that never connected has no command and no result.             *)
LEMMA ConnectFailsKeeps ==
  ASSUME GroupInv, NEW w \in Workers, ConnectFails(w)
  PROVE  GroupInv'
  <1>1. /\ TypeOK /\ CallExact /\ LeaseHeld /\ WorkersHold /\ OneCommand /\ InStep
        /\ FailureKept
    BY DEF GroupInv
  <1>2. TypeOK'
    BY <1>1, GroupRanks
    DEF ConnectFails, Fault, FaultUnless, Set, requestVars, leaderVars,
        wireVars, TypeOK, LeaderLines, WorkerLines
  <1>3. CallExact'
    BY <1>1, GroupRanks
    DEF ConnectFails, Fault, FaultUnless, Set, requestVars, leaderVars,
        wireVars, CallExact, Calling, Running, TypeOK
  <1>4. LeaseHeld'
    BY <1>1, GroupRanks
    DEF ConnectFails, Fault, FaultUnless, Set, requestVars, leaderVars,
        wireVars, LeaseHeld, TypeOK
  <1>5. WorkersHold'
    BY <1>1, GroupRanks
    DEF ConnectFails, Fault, FaultUnless, Set, requestVars, leaderVars,
        wireVars, WorkersHold, Running, TypeOK
  <1>6. OneCommand'
    BY <1>1, GroupRanks
    DEF ConnectFails, Fault, FaultUnless, Set, requestVars, leaderVars,
        wireVars, OneCommand, HasCommand, Busy, NumberAt, Running, TypeOK
  <1>7. InStep'
    BY <1>1, GroupRanks
    DEF ConnectFails, Fault, FaultUnless, Set, requestVars, leaderVars,
        wireVars, InStep, Calling, HasCommand, Busy, NumberAt, Quiet, Running,
        TypeOK
  <1>8. FailureKept'
    BY <1>1, GroupRanks
    DEF ConnectFails, Fault, FaultUnless, Set, requestVars, leaderVars,
        wireVars, FailureKept, Doomed, Failing, Calling, HasCommand, Busy, NumberAt,
        Running, Gone, TypeOK
  <1>. QED  BY <1>2, <1>3, <1>4, <1>5, <1>6, <1>7, <1>8 DEF GroupInv

(* Once rank 0 has accepted every worker, all of them wait for a command.  *)
LEMMA AcceptKeeps ==
  ASSUME GroupInv, NEW w \in Workers, Accept(w)
  PROVE  GroupInv'
  <1>1. /\ TypeOK /\ CallExact /\ LeaseHeld /\ WorkersHold /\ OneCommand /\ InStep
        /\ FailureKept
    BY DEF GroupInv
  <1>2. TypeOK'
    BY <1>1, GroupRanks
    DEF Accept, Set, requestVars, TypeOK, LeaderLines, WorkerLines
  <1>3. CallExact'
    BY <1>1, GroupRanks
    DEF Accept, Set, requestVars, CallExact, Calling, Running, TypeOK
  <1>4. LeaseHeld'
    BY <1>1, GroupRanks DEF Accept, Set, requestVars, LeaseHeld, TypeOK
  <1>5. WorkersHold'
    BY <1>1, GroupRanks
    DEF Accept, Set, requestVars, WorkersHold, Running, TypeOK
  <1>6. OneCommand'
    BY <1>1, GroupRanks
    DEF Accept, Set, requestVars, OneCommand, HasCommand, Busy, NumberAt,
        Running, TypeOK
  <1>7. InStep'
    <2>1. /\ at[0] = "accept" /\ channelOpen /\ w \in call.peers /\ reply[w] = "hello"
          /\ reply' = [reply EXCEPT ![w] = "none"] /\ call'.peers = call.peers \ {w}
          /\ inbox' = inbox /\ current' = current /\ channelOpen' = channelOpen
          /\ at'[0] \in {"idle", "accept"} /\ (at'[0] = "idle" => call'.peers = {})
          /\ \A v \in Workers : at'[v] = at[v]
      BY <1>1, GroupRanks DEF Accept, CallExact, Set, TypeOK
    <2>2. \A v \in Workers : ~HasCommand(v)
      BY <1>1, <2>1 DEF InStep, Calling
    <2>3. \A v \in Workers : ~HasCommand(v)'
      BY <2>1, <2>2 DEF HasCommand, Busy, Running
    <2>4. \A v \in Workers \ call'.peers : reply'[v] = "none" /\ at'[v] # "connect"
      BY <1>1, <2>1 DEF InStep, OneCommand, Quiet, TypeOK
    <2>. QED  BY <2>1, <2>3, <2>4 DEF InStep, Quiet
  <1>8. FailureKept'
    BY <1>1, GroupRanks
    DEF Accept, Set, requestVars, FailureKept, Doomed, Failing, Calling,
        HasCommand, Busy, NumberAt, Running, Gone, TypeOK
  <1>. QED  BY <1>2, <1>3, <1>4, <1>5, <1>6, <1>7, <1>8 DEF GroupInv

(* The first command: nobody has another one.                              *)
LEMMA InitializeKeeps ==
  ASSUME GroupInv, Initialize
  PROVE  GroupInv'
  <1>1. /\ TypeOK /\ CallExact /\ LeaseHeld /\ WorkersHold /\ OneCommand /\ InStep
        /\ FailureKept
    BY DEF GroupInv
  <1>2. TypeOK'
    BY <1>1, GroupRanks
    DEF Initialize, Begin, Command, Set, requestVars, wireVars, TypeOK,
        LeaderLines, WorkerLines
  <1>3. CallExact'
    BY <1>1, GroupRanks
    DEF Initialize, Begin, Command, Set, requestVars, wireVars, CallExact,
        Calling, Running, TypeOK
  <1>4. LeaseHeld'
    BY <1>1, GroupRanks
    DEF Initialize, Begin, Command, Set, requestVars, wireVars, LeaseHeld,
        TypeOK
  <1>5. WorkersHold'
    BY <1>1, GroupRanks
    DEF Initialize, Begin, Command, Set, requestVars, wireVars, WorkersHold,
        Running, TypeOK
  <1>6. OneCommand'
    BY <1>1, GroupRanks
    DEF Initialize, Begin, Command, Set, requestVars, wireVars, OneCommand,
        HasCommand, Busy, NumberAt, Running, TypeOK
  <1>7. InStep'
    BY <1>1, GroupRanks
    DEF Initialize, Begin, Command, Set, requestVars, wireVars, InStep, Calling,
        HasCommand, Busy, NumberAt, Quiet, Running, TypeOK
  <1>8. FailureKept'
    BY <1>1, GroupRanks
    DEF Initialize, Begin, Command, Set, requestVars, wireVars, FailureKept,
        Doomed, Failing, Calling, HasCommand, Busy, NumberAt, Running, Gone, TypeOK
  <1>. QED  BY <1>2, <1>3, <1>4, <1>5, <1>6, <1>7, <1>8 DEF GroupInv

(* The command of a step carries the lease.                                *)
LEMMA ExecuteKeeps ==
  ASSUME GroupInv, Execute
  PROVE  GroupInv'
  <1>1. /\ TypeOK /\ CallExact /\ LeaseHeld /\ WorkersHold /\ OneCommand /\ InStep
        /\ FailureKept
    BY DEF GroupInv
  <1>2. TypeOK'
    BY <1>1, GroupRanks
    DEF Execute, Begin, Command, Set, wireVars, TypeOK, LeaderLines, WorkerLines
  <1>3. CallExact'
    BY <1>1, GroupRanks
    DEF Execute, Begin, Command, Set, wireVars, CallExact, Calling, Running,
        TypeOK
  <1>4. LeaseHeld'
    BY <1>1, GroupRanks
    DEF Execute, Begin, Command, Set, wireVars, LeaseHeld, TypeOK
  <1>5. WorkersHold'
    BY <1>1, GroupRanks
    DEF Execute, Begin, Command, Set, wireVars, WorkersHold, Running, TypeOK
  <1>6. OneCommand'
    BY <1>1, GroupRanks
    DEF Execute, Begin, Command, Set, wireVars, OneCommand, HasCommand, Busy,
        NumberAt, Running, TypeOK
  <1>7. InStep'
    BY <1>1, GroupRanks
    DEF Execute, Begin, Command, Set, wireVars, InStep, Calling, HasCommand,
        Busy, NumberAt, Quiet, Running, TypeOK
  <1>8. FailureKept'
    BY <1>1, GroupRanks
    DEF Execute, Begin, Command, Set, wireVars, FailureKept, Doomed, Failing,
        Calling, HasCommand, Busy, NumberAt, Running, Gone, TypeOK
  <1>. QED  BY <1>2, <1>3, <1>4, <1>5, <1>6, <1>7, <1>8 DEF GroupInv

(* Shutdown begins between two calls.                                      *)
LEMMA ShutdownKeeps ==
  ASSUME GroupInv, Shutdown
  PROVE  GroupInv'
  <1>1. /\ TypeOK /\ CallExact /\ LeaseHeld /\ WorkersHold /\ OneCommand /\ InStep
        /\ FailureKept
    BY DEF GroupInv
  <1>2. TypeOK'
    BY <1>1, GroupRanks
    DEF Shutdown, Begin, Command, Set, wireVars, TypeOK, LeaderLines,
        WorkerLines
  <1>3. CallExact'
    BY <1>1, GroupRanks
    DEF Shutdown, Begin, Command, Set, wireVars, CallExact, Calling, Running,
        TypeOK
  <1>4. LeaseHeld'
    BY <1>1, GroupRanks
    DEF Shutdown, Begin, Command, Set, wireVars, LeaseHeld, TypeOK
  <1>5. WorkersHold'
    BY <1>1, GroupRanks
    DEF Shutdown, Begin, Command, Set, wireVars, WorkersHold, Running, TypeOK
  <1>6. OneCommand'
    BY <1>1, GroupRanks
    DEF Shutdown, Begin, Command, Set, wireVars, OneCommand, HasCommand, Busy,
        NumberAt, Running, TypeOK
  <1>7. InStep'
    BY <1>1, GroupRanks
    DEF Shutdown, Begin, Command, Set, wireVars, InStep, Calling, HasCommand,
        Busy, NumberAt, Quiet, Running, TypeOK
  <1>8. FailureKept'
    BY <1>1, GroupRanks
    DEF Shutdown, Begin, Command, Set, wireVars, FailureKept, Doomed, Failing,
        Calling, HasCommand, Busy, NumberAt, Running, Gone, TypeOK
  <1>. QED  BY <1>2, <1>3, <1>4, <1>5, <1>6, <1>7, <1>8 DEF GroupInv

(* The end of a call that fails closes the channel: nothing is sent after  *)
(* it.                                                                     *)
LEMMA AbortKeeps ==
  ASSUME GroupInv, at[0] \notin {"idle", "gone"}, faults' \in Nat, Abort
  PROVE  GroupInv'
  <1>1. /\ TypeOK /\ CallExact /\ LeaseHeld /\ WorkersHold /\ OneCommand /\ InStep
        /\ FailureKept
    BY DEF GroupInv
  <1>2. TypeOK'
    BY <1>1, GroupRanks
    DEF Abort, Returned, NoCall, NoCommand, Set, TypeOK, LeaderLines,
        WorkerLines
  <1>3. CallExact'
    BY <1>1, GroupRanks
    DEF Abort, Returned, NoCall, NoCommand, Set, CallExact, Calling, Running,
        TypeOK
  <1>4. LeaseHeld'
    BY <1>1, GroupRanks
    DEF Abort, Returned, NoCall, NoCommand, Set, LeaseHeld, TypeOK
  <1>5. WorkersHold'
    BY <1>1, GroupRanks
    DEF Abort, Returned, NoCall, NoCommand, Set, WorkersHold, Running, TypeOK
  <1>6. OneCommand'
    BY <1>1, GroupRanks
    DEF Abort, Returned, NoCall, NoCommand, Set, OneCommand, HasCommand, Busy,
        NumberAt, Running, TypeOK
  <1>7. InStep'
    BY <1>1, GroupRanks
    DEF Abort, Returned, NoCall, NoCommand, Set, InStep, Calling, HasCommand,
        Busy, NumberAt, Quiet, Running, TypeOK
  <1>8. FailureKept'
    BY <1>1, GroupRanks
    DEF Abort, Returned, NoCall, NoCommand, Set, FailureKept, Doomed, Failing,
        Calling, HasCommand, Busy, NumberAt, Running, Gone, TypeOK
  <1>. QED  BY <1>2, <1>3, <1>4, <1>5, <1>6, <1>7, <1>8 DEF GroupInv

(* The peer that is sent the command had none, and no failure is           *)
(* forgotten.                                                              *)
LEMMA SendKeeps ==
  ASSUME GroupInv, Send
  PROVE  GroupInv'
  <1>1. /\ TypeOK /\ CallExact /\ LeaseHeld /\ WorkersHold /\ OneCommand /\ InStep
        /\ FailureKept
    BY DEF GroupInv
  <1>2. PICK w \in call.peers : w = Min(call.peers) /\ w \in Workers
    BY <1>1, NextPeer DEF Send, CallExact, TypeOK
  <1> DEFINE others == call.peers \ {w}
  <1>3. channelOpen /\ Quiet(w) /\ inbox[w] = <<>> /\ at[w] = "receive"
    BY <1>1, <1>2
    DEF Send, InStep, TypeOK, WorkerLines, Quiet, HasCommand, Busy, Running,
        Gone
  <1>4. /\ inbox' = [inbox EXCEPT ![w] = <<call.command>>]
        /\ <<call.command>> # <<>> /\ <<call.command>>[1] = call.command
    BY <1>2, <1>3, OneInSeq DEF Send, TypeOK
  <1>5. /\ at[0] = "send" /\ \A v \in Workers : at'[v] = at[v] /\ result'[v] = result[v]
        /\ call.command.number = issued /\ issued' = issued /\ issued \in Nat \ {0}
        /\ at'[0] \in {"send", "before", "collect"}
        /\ reply' = reply /\ current' = current /\ failedAt' = failedAt
        /\ channelOpen' = channelOpen
        /\ call'.peers = (IF others = {} THEN Workers ELSE others)
        /\ at'[0] = "send" <=> others # {}
    BY <1>1, <1>2, GroupRanks
    DEF Send, Set, TypeOK, CallExact, Calling, requestVars, leaderVars, wireVars
  <1> HIDE DEF others
  <1>6. \A v \in Workers :
          /\ HasCommand(v)' <=> (HasCommand(v) \/ v = w)
          /\ HasCommand(v)' => NumberAt(v)' = issued
          /\ Failing(v)' <=> Failing(v)
    BY <1>1, <1>2, <1>3, <1>4, <1>5
    DEF InStep, TypeOK, Failing, HasCommand, Busy, NumberAt, Quiet, Running, Gone
  <1>7. TypeOK'
    <2>1. /\ at' = [at EXCEPT ![0] = at'[0]] /\ result' = [result EXCEPT ![0] = result'[0]]
          /\ result'[0] \in {"none", "ok"} /\ DOMAIN inbox' = Workers
          /\ UNCHANGED <<requestVars, closing, faults, owns>>
      BY <1>1, <1>4, GroupRanks DEF Send, Set, TypeOK
    <2>2. call' = [command |-> call'.command, peers |-> call'.peers]
      BY <1>1 DEF Send, TypeOK
    <2>3. call'.peers \subseteq Workers
      BY <1>1, <1>5 DEF TypeOK, others
    <2>4. /\ at' \in [Ranks -> LeaderLines \cup WorkerLines] /\ at'[0] \in LeaderLines
          /\ \A v \in Workers : at'[v] \in WorkerLines
      BY <1>1, <1>5, <2>1, GroupRanks DEF TypeOK, LeaderLines
    <2>. QED  BY <1>1, <1>5, <2>1, <2>2, <2>3, <2>4, GroupRanks DEF TypeOK, requestVars
  <1>8. CallExact'
    BY <1>1, <1>2, <1>5, GroupRanks
    DEF Send, RunsModel, Set, requestVars, CallExact, Calling, Running, TypeOK
  <1>9. LeaseHeld'
    BY <1>1, <1>2, <1>5, GroupRanks
    DEF Send, RunsModel, Set, requestVars, LeaseHeld, TypeOK
  <1>10. WorkersHold'
    BY SMTT(40), <1>1, <1>2, <1>5, GroupRanks
    DEF Send, RunsModel, Set, requestVars, WorkersHold, Running, TypeOK
  <1>11. OneCommand'
    <2>1. \A v \in Workers :
            inbox'[v] # <<>> => inbox'[v] = <<inbox'[v][1]>> /\ at'[v] = "receive"
      BY <1>1, <1>2, <1>3, <1>4, <1>5, OneInSeq DEF OneCommand, TypeOK
    <2>2. \A v \in Workers : HasCommand(v)' => reply'[v] = "none"
      BY <1>1, <1>3, <1>5, <1>6 DEF OneCommand, Quiet
    <2>. QED  BY <1>1, <1>5, <1>6, <2>1, <2>2 DEF OneCommand
  <1>12. InStep'
    <2>1. \A v \in Workers : v # w /\ Quiet(v) => Quiet(v)'
      BY <1>5, <1>6 DEF Quiet
    <2>2. at'[0] = "send" => \A v \in call'.peers : Quiet(v)'
      BY <1>1, <1>3, <1>5, <2>1 DEF InStep, TypeOK, others
    <2>. QED  BY <1>1, <1>3, <1>5, <1>6, <2>2 DEF InStep, Calling
  <1>13. FailureKept'
    <2>1. Doomed => Doomed'
      BY <1>5, <1>6 DEF Doomed, others
    <2>. QED  BY <1>1, <1>3, <1>5, <1>6, <2>1 DEF FailureKept, Calling
  <1>. QED  BY <1>7, <1>8, <1>9, <1>10, <1>11, <1>12, <1>13 DEF GroupInv

(* A result is read from a peer that has answered: an error stays an       *)
(* error.                                                                  *)
LEMMA CollectKeeps ==
  ASSUME GroupInv, Collect
  PROVE  GroupInv'
  <1>1. /\ TypeOK /\ CallExact /\ LeaseHeld /\ WorkersHold /\ OneCommand /\ InStep
        /\ FailureKept
    BY DEF GroupInv
  <1>2. PICK w \in call.peers : w = Min(call.peers) /\ w \in Workers
    BY <1>1, NextPeer DEF Collect, TypeOK
  <1>3. /\ at[0] = "collect" /\ at' = at /\ channelOpen /\ channelOpen' /\ reply[w] # "none"
        /\ reply' = [reply EXCEPT ![w] = "none"] /\ inbox' = inbox /\ current' = current
        /\ call'.peers = call.peers \ {w} /\ issued' = issued /\ failedAt' = failedAt
        /\ \A v \in Workers : result'[v] = result[v]
        /\ reply[w] = "error" \/ result[0] = "error" => result'[0] = "error"
    BY <1>1, <1>2, GroupRanks
    DEF Collect, CallExact, Set, TypeOK, requestVars, leaderVars, wireVars
  <1>4. /\ ~HasCommand(w) /\ at[w] # "connect"
        /\ \A v \in Workers : /\ HasCommand(v)' <=> HasCommand(v)
                              /\ NumberAt(v)' = NumberAt(v)
                              /\ v # w /\ Quiet(v) => Quiet(v)'
    BY <1>1, <1>2, <1>3
    DEF OneCommand, TypeOK, HasCommand, Busy, NumberAt, Quiet, Running
  <1>5. TypeOK'
    BY <1>1, <1>2, GroupRanks
    DEF Collect, Set, requestVars, TypeOK, LeaderLines, WorkerLines
  <1>6. CallExact'
    BY <1>1, <1>2, GroupRanks
    DEF Collect, Set, requestVars, CallExact, Calling, Running, TypeOK
  <1>7. LeaseHeld'
    BY <1>1, <1>2, GroupRanks DEF Collect, Set, requestVars, LeaseHeld, TypeOK
  <1>8. WorkersHold'
    BY <1>1, <1>2, GroupRanks
    DEF Collect, Set, requestVars, WorkersHold, Running, TypeOK
  <1>9. OneCommand'
    BY <1>1, <1>2, GroupRanks
    DEF Collect, Set, requestVars, OneCommand, HasCommand, Busy, NumberAt,
        Running, TypeOK
  <1>10. InStep'
    <2>1. Quiet(w)'
      <3>1. ~HasCommand(w)'
        BY <1>2, <1>4
      <3>2. reply'[w] = "none" /\ at'[w] # "connect"
        BY <1>1, <1>2, <1>3, <1>4 DEF TypeOK
      <3>. QED  BY <3>1, <3>2 DEF Quiet
    <2>2. \A v \in Workers \ call'.peers : Quiet(v)'
      BY <1>1, <1>3, <1>4, <2>1 DEF InStep
    <2>. QED  BY <1>1, <1>3, <1>4, <2>2 DEF InStep
  <1>11. FailureKept'
    <2>1. ASSUME NEW v \in Workers, Failing(v), v \in call.peers PROVE Doomed'
      <3>1. CASE v = w
        BY <1>1, <1>2, <1>3, <1>4, <2>1, <3>1
        DEF Doomed, Failing, HasCommand, Busy, TypeOK
      <3>2. CASE v # w
        BY <1>1, <1>2, <1>3, <1>4, <2>1, <3>2 DEF Doomed, Failing, Gone, TypeOK
      <3>. QED  BY <3>1, <3>2
    <2>2. Doomed => Doomed'
      BY <1>3, <2>1 DEF Doomed
    <2>3. \A v \in Workers : failedAt # 0 /\ HasCommand(v) => NumberAt(v) = failedAt
      BY <1>1 DEF FailureKept
    <2>. QED  BY <1>1, <1>3, <1>4, <2>2, <2>3 DEF FailureKept, Calling
  <1>. QED  BY <1>5, <1>6, <1>7, <1>8, <1>9, <1>10, <1>11 DEF GroupInv

(* A call completes only without an error: every worker is ready for the   *)
(* next.                                                                   *)
LEMMA CompletesKeeps ==
  ASSUME GroupInv, Completes
  PROVE  GroupInv'
  <1>1. /\ TypeOK /\ CallExact /\ LeaseHeld /\ WorkersHold /\ OneCommand /\ InStep
        /\ FailureKept
    BY DEF GroupInv
  <1>2. TypeOK'
    BY SMTT(40), <1>1, GroupRanks
    DEF Completes, Returned, Begin, Command, NoCall, NoCommand, Set, wireVars,
        TypeOK, LeaderLines, WorkerLines
  <1>3. CallExact'
    <2>1. CASE call.command.kind = "update"
      BY <1>1, <2>1, GroupRanks
      DEF Completes, Returned, Begin, Command, Set, CallExact, Calling, Running, TypeOK
    <2>2. CASE call.command.kind # "update"
      <3>1. call' = NoCall /\ at'[0] = "idle"
        BY <1>1, <2>2, GroupRanks DEF Completes, Set, TypeOK
      <3>. QED  BY <3>1 DEF CallExact, Calling, Running, NoCall
    <2>. QED  BY <2>1, <2>2
  <1>4. LeaseHeld'
    BY <1>1, GroupRanks
    DEF Completes, Returned, Begin, Command, NoCall, NoCommand, Set, wireVars,
        LeaseHeld, TypeOK
  <1>5. WorkersHold'
    BY <1>1, GroupRanks
    DEF Completes, Returned, Begin, Command, NoCall, NoCommand, Set, wireVars,
        WorkersHold, Running, TypeOK
  <1>6. OneCommand'
    BY <1>1, GroupRanks
    DEF Completes, Returned, Begin, Command, NoCall, NoCommand, Set, wireVars,
        OneCommand, HasCommand, Busy, NumberAt, Running, TypeOK
  <1>7. InStep'
    BY <1>1, GroupRanks
    DEF Completes, Returned, Begin, Command, NoCall, NoCommand, Set, wireVars,
        InStep, Calling, HasCommand, Busy, NumberAt, Quiet, Running, TypeOK
  <1>8. FailureKept'
    BY <1>1, GroupRanks
    DEF Completes, Returned, Begin, Command, NoCall, NoCommand, Set, wireVars,
        FailureKept, Doomed, Failing, Calling, HasCommand, Busy, NumberAt, Running,
        Gone, TypeOK
  <1>. QED  BY <1>2, <1>3, <1>4, <1>5, <1>6, <1>7, <1>8 DEF GroupInv

(* With rank 0 its channel is gone.                                        *)
LEMMA LeaderCrashKeeps ==
  ASSUME GroupInv, LeaderCrash
  PROVE  GroupInv'
  <1>1. /\ TypeOK /\ CallExact /\ LeaseHeld /\ WorkersHold /\ OneCommand /\ InStep
        /\ FailureKept
    BY DEF GroupInv
  <1>2. TypeOK'
    <2>1. /\ call' = NoCall /\ at' = [at EXCEPT ![0] = "gone"]
          /\ result' = [result EXCEPT ![0] = "none"]
          /\ owns' = [owns EXCEPT ![0] = {}] /\ reply' = [w \in Workers |-> "none"]
          /\ active' = {} /\ lease' = {} /\ deferred' = {} /\ driver' = "idle"
          /\ closing' = TRUE /\ channelOpen' = FALSE /\ faults' = faults + 1
          /\ UNCHANGED <<issued, inbox, current, failedAt>>
      BY DEF LeaderCrash, Set, Fault
    <2>2. call' = [command |-> call'.command, peers |-> call'.peers] /\ call'.peers = {}
      BY <2>1 DEF NoCall
    <2>3. {active', lease', deferred'} \subseteq SUBSET Requests
      BY <2>1
    <2>4. /\ at' \in [Ranks -> LeaderLines \cup WorkerLines] /\ at'[0] \in LeaderLines
          /\ \A w \in Workers : at'[w] \in WorkerLines
      BY <1>1, <2>1, GroupRanks DEF TypeOK, LeaderLines
    <2>5. /\ result' \in [Ranks -> {"none", "ok", "error"}]
          /\ reply' \in [Workers -> {"none", "hello", "ok", "error"}]
          /\ issued' \in Nat /\ failedAt' \in Nat /\ faults' \in Nat /\ closing' \in BOOLEAN
          /\ DOMAIN inbox' = Workers /\ DOMAIN current' = Workers /\ DOMAIN owns' = Ranks
      BY <1>1, <2>1, GroupRanks DEF TypeOK
    <2> HIDE DEF NoCall
    <2>. QED  BY <2>1, <2>2, <2>3, <2>4, <2>5 DEF TypeOK
  <1>3. CallExact'
    BY <1>1, GroupRanks
    DEF LeaderCrash, NoCall, NoCommand, Fault, Set, CallExact, Calling, Running,
        TypeOK
  <1>4. LeaseHeld'
    BY <1>1, GroupRanks
    DEF LeaderCrash, NoCall, NoCommand, Fault, Set, LeaseHeld, TypeOK
  <1>5. WorkersHold'
    BY <1>1, GroupRanks
    DEF LeaderCrash, NoCall, NoCommand, Fault, Set, WorkersHold, Running, TypeOK
  <1>6. OneCommand'
    BY <1>1, GroupRanks
    DEF LeaderCrash, NoCall, NoCommand, Fault, Set, OneCommand, HasCommand,
        Busy, NumberAt, Running, TypeOK
  <1>7. InStep'
    BY <1>1, GroupRanks
    DEF LeaderCrash, NoCall, NoCommand, Fault, Set, InStep, Calling, HasCommand,
        Busy, NumberAt, Quiet, Running, TypeOK
  <1>8. FailureKept'
    BY <1>1, GroupRanks
    DEF LeaderCrash, NoCall, NoCommand, Fault, Set, FailureKept, Doomed,
        Failing, Calling, HasCommand, Busy, NumberAt, Running, Gone, TypeOK
  <1>. QED  BY <1>2, <1>3, <1>4, <1>5, <1>6, <1>7, <1>8 DEF GroupInv

(* A rank that enters the collective keeps its command.                    *)
LEMMA EnterKeeps ==
  ASSUME GroupInv, NEW r \in Ranks, EnterCollective(r)
  PROVE  GroupInv'
  <1>1. /\ TypeOK /\ CallExact /\ LeaseHeld /\ WorkersHold /\ OneCommand /\ InStep
        /\ FailureKept
    BY DEF GroupInv
  <1>2. TypeOK'
    BY <1>1, GroupRanks
    DEF EnterCollective, Set, requestVars, leaderVars, wireVars, TypeOK,
        LeaderLines, WorkerLines
  <1>3. CallExact'
    BY <1>1, GroupRanks
    DEF EnterCollective, Set, requestVars, leaderVars, wireVars, CallExact,
        Calling, Running, TypeOK
  <1>4. LeaseHeld'
    BY <1>1, GroupRanks
    DEF EnterCollective, Set, requestVars, leaderVars, wireVars, LeaseHeld,
        TypeOK
  <1>5. WorkersHold'
    BY <1>1, GroupRanks
    DEF EnterCollective, Set, requestVars, leaderVars, wireVars, WorkersHold,
        Running, TypeOK
  <1>6. OneCommand'
    BY <1>1, GroupRanks
    DEF EnterCollective, Set, requestVars, leaderVars, wireVars, OneCommand,
        HasCommand, Busy, NumberAt, Running, TypeOK
  <1>7. InStep'
    BY <1>1, GroupRanks
    DEF EnterCollective, Set, requestVars, leaderVars, wireVars, InStep,
        Calling, HasCommand, Busy, NumberAt, Quiet, Running, TypeOK
  <1>8. FailureKept'
    BY <1>1, GroupRanks
    DEF EnterCollective, Set, requestVars, leaderVars, wireVars, FailureKept,
        Doomed, Failing, Calling, HasCommand, Busy, NumberAt, Running, Gone, TypeOK
  <1>. QED  BY <1>2, <1>3, <1>4, <1>5, <1>6, <1>7, <1>8 DEF GroupInv

(* A collective is left by all ranks together.                             *)
LEMMA CollectiveKeeps ==
  ASSUME GroupInv, CollectiveCompletes
  PROVE  GroupInv'
  <1>1. /\ TypeOK /\ CallExact /\ LeaseHeld /\ WorkersHold /\ OneCommand /\ InStep
        /\ FailureKept
    BY DEF GroupInv
  <1>2. TypeOK'
    BY <1>1, GroupRanks
    DEF CollectiveCompletes, requestVars, leaderVars, wireVars, TypeOK,
        LeaderLines, WorkerLines
  <1>3. CallExact'
    BY <1>1, GroupRanks
    DEF CollectiveCompletes, requestVars, leaderVars, wireVars, CallExact,
        Calling, Running, TypeOK
  <1>4. LeaseHeld'
    BY <1>1, GroupRanks
    DEF CollectiveCompletes, requestVars, leaderVars, wireVars, LeaseHeld,
        TypeOK
  <1>5. WorkersHold'
    BY <1>1, GroupRanks
    DEF CollectiveCompletes, requestVars, leaderVars, wireVars, WorkersHold,
        Running, TypeOK
  <1>6. OneCommand'
    BY <1>1, GroupRanks
    DEF CollectiveCompletes, requestVars, leaderVars, wireVars, OneCommand,
        HasCommand, Busy, NumberAt, Running, TypeOK
  <1>7. InStep'
    BY <1>1, GroupRanks
    DEF CollectiveCompletes, requestVars, leaderVars, wireVars, InStep, Calling,
        HasCommand, Busy, NumberAt, Quiet, Running, TypeOK
  <1>8. FailureKept'
    BY <1>1, GroupRanks
    DEF CollectiveCompletes, requestVars, leaderVars, wireVars, FailureKept,
        Doomed, Failing, Calling, HasCommand, Busy, NumberAt, Running, Gone, TypeOK
  <1>. QED  BY <1>2, <1>3, <1>4, <1>5, <1>6, <1>7, <1>8 DEF GroupInv

(* Rank 0 ends its step: if it failed, it collects with an error.          *)
LEMMA LeaderEndsKeeps ==
  ASSUME GroupInv, NEW v \in {"ok", "error"}, Running(0), faults' \in Nat,
         Ends(0, v)
  PROVE  GroupInv'
  <1>1. /\ TypeOK /\ CallExact /\ LeaseHeld /\ WorkersHold /\ OneCommand /\ InStep
        /\ FailureKept
    BY DEF GroupInv
  <1>2. /\ channelOpen /\ call.peers = Workers /\ at[0] \in Calling
        /\ call.command.number = issued /\ issued \in Nat \ {0}
    BY <1>1 DEF CallExact, Running, Calling, TypeOK
  <1>3. /\ at' = [at EXCEPT ![0] = "collect"] /\ result' = [result EXCEPT ![0] = v]
        /\ failedAt' = (IF v = "error" /\ failedAt = 0 THEN issued ELSE failedAt)
        /\ UNCHANGED <<requestVars, leaderVars, wireVars, current, owns>>
    BY <1>2 DEF Ends, Set, NoteFailure, CommandOf
  <1>4. /\ at'[0] = "collect" /\ result'[0] = v
        /\ \A w \in Workers : at'[w] = at[w] /\ result'[w] = result[w]
    BY <1>1, <1>3, GroupRanks DEF TypeOK
  <1>5. \A w \in Workers : /\ HasCommand(w)' <=> HasCommand(w)
                           /\ NumberAt(w)' = NumberAt(w)
                           /\ Failing(w) => Failing(w)'
    BY <1>3, <1>4
    DEF HasCommand, Busy, Running, NumberAt, Failing, Gone, wireVars
  <1>6. TypeOK'
    BY <1>1, <1>2, <1>3, GroupRanks
    DEF TypeOK, LeaderLines, WorkerLines, requestVars, leaderVars, wireVars
  <1>7. CallExact'
    BY <1>1, <1>2, <1>3, <1>4 DEF CallExact, Calling, Running, leaderVars
  <1>8. LeaseHeld'
    BY <1>1, <1>2, <1>3, <1>4, GroupRanks
    DEF Ends, NoteFailure, CommandOf, Set, requestVars, leaderVars, wireVars,
        LeaseHeld, TypeOK
  <1>9. WorkersHold'
    BY <1>1, <1>2, <1>3, <1>4, GroupRanks
    DEF Ends, NoteFailure, CommandOf, Set, requestVars, leaderVars, wireVars,
        WorkersHold, Running, TypeOK
  <1>10. OneCommand'
    BY <1>1, <1>2, <1>3, <1>4, GroupRanks
    DEF Ends, NoteFailure, CommandOf, Set, requestVars, leaderVars, wireVars,
        OneCommand, HasCommand, Busy, NumberAt, Running, TypeOK
  <1>11. InStep'
    BY <1>1, <1>2, <1>3, <1>4, <1>5 DEF InStep, Calling, leaderVars
  <1>12. FailureKept'
    <2>1. ASSUME failedAt' # 0 PROVE Doomed'
      <3>1. CASE v = "error"
        BY <1>4, <3>1 DEF Doomed
      <3>2. CASE v = "ok"
        <4>1. failedAt # 0 /\ \E w \in Workers : Failing(w)
          BY <1>1, <1>2, <1>3, <2>1, <3>2 DEF FailureKept, Doomed, Running
        <4>. QED  BY <4>1, <1>2, <1>3, <1>5 DEF Doomed, leaderVars
      <3>. QED  BY <3>1, <3>2
    <2>. QED  BY <1>1, <1>2, <1>3, <1>4, <1>5, <2>1
              DEF FailureKept, InStep, Calling, leaderVars
  <1>. QED  BY <1>6, <1>7, <1>8, <1>9, <1>10, <1>11, <1>12 DEF GroupInv

(* A worker ends its step: if it failed, rank 0 still waits for its        *)
(* result.                                                                 *)
LEMMA WorkerEndsKeeps ==
  ASSUME GroupInv, NEW w \in Workers, NEW v \in {"ok", "error"}, Running(w),
         faults' \in Nat, Ends(w, v)
  PROVE  GroupInv'
  <1>1. /\ TypeOK /\ CallExact /\ LeaseHeld /\ WorkersHold /\ OneCommand /\ InStep
        /\ FailureKept
    BY DEF GroupInv
  <1>2. inbox[w] = <<>> /\ HasCommand(w) /\ reply[w] = "none"
        /\ NumberAt(w) = current[w].number /\ NumberAt(w) \in Nat \ {0} /\ w # 0
    BY <1>1, GroupRanks DEF Running, OneCommand, HasCommand, Busy, NumberAt
  <1>3. /\ at' = [at EXCEPT ![w] = "reply"] /\ result' = [result EXCEPT ![w] = v]
        /\ failedAt' = (IF v = "error" /\ failedAt = 0 THEN NumberAt(w) ELSE failedAt)
        /\ UNCHANGED <<requestVars, leaderVars, wireVars, current, owns>>
    BY <1>2 DEF Ends, Set, NoteFailure, CommandOf
  <1>4. /\ at'[w] = "reply" /\ result'[w] = v
        /\ \A q \in Ranks : q # w => at'[q] = at[q] /\ result'[q] = result[q]
    BY <1>1, <1>3, GroupRanks DEF TypeOK
  <1>5. \A q \in Workers : /\ HasCommand(q)' <=> HasCommand(q)
                           /\ NumberAt(q)' = NumberAt(q)
                           /\ q # w /\ Failing(q) => Failing(q)'
    BY <1>2, <1>3, <1>4, GroupRanks
    DEF HasCommand, Busy, Running, NumberAt, Failing, Gone, wireVars
  <1>6. TypeOK'
    BY <1>1, <1>2, <1>3, GroupRanks
    DEF TypeOK, LeaderLines, WorkerLines, requestVars, leaderVars, wireVars
  <1>7. CallExact'
    BY <1>1, <1>2, <1>3, <1>4, GroupRanks
    DEF Ends, NoteFailure, CommandOf, Set, requestVars, leaderVars, wireVars,
        CallExact, Calling, Running, TypeOK
  <1>8. LeaseHeld'
    BY <1>1, <1>2, <1>3, <1>4, GroupRanks
    DEF Ends, NoteFailure, CommandOf, Set, requestVars, leaderVars, wireVars,
        LeaseHeld, TypeOK
  <1>9. WorkersHold'
    BY <1>1, <1>2, <1>3, <1>4, GroupRanks
    DEF Ends, NoteFailure, CommandOf, Set, requestVars, leaderVars, wireVars,
        WorkersHold, Running, TypeOK
  <1>10. OneCommand'
    BY <1>1, <1>2, <1>3, <1>4, GroupRanks
    DEF Ends, NoteFailure, CommandOf, Set, requestVars, leaderVars, wireVars,
        OneCommand, HasCommand, Busy, NumberAt, Running, TypeOK
  <1>11. InStep'
    <2>1. \A q \in Workers : Quiet(q) => Quiet(q)'
      BY <1>2, <1>3, <1>4, <1>5, GroupRanks DEF Quiet, wireVars
    <2>2. /\ at'[0] = at[0] /\ \A q \in Workers : at'[q] = "connect" => at[q] = "connect"
          /\ UNCHANGED leaderVars
      BY <1>2, <1>3, <1>4, GroupRanks
    <2>3. channelOpen' = channelOpen /\ call' = call /\ issued' = issued
      BY <2>2 DEF leaderVars
    <2>4. channelOpen => \A q \in Workers :
                           HasCommand(q)' => at[0] \in Calling /\ NumberAt(q)' = issued
      BY <1>1, <1>5 DEF InStep
    <2>. QED  BY <1>1, <2>1, <2>2, <2>3, <2>4 DEF InStep, TypeOK
  <1>12. FailureKept'
    <2>1. ASSUME channelOpen, failedAt' # 0 PROVE Doomed'
      <3>1. CASE v = "error"
        <4>1. Failing(w)' /\ (at[0] = "collect" => w \in call.peers)
          BY <1>1, <1>2, <1>4, <2>1, <3>1 DEF Failing, InStep, Quiet
        <4>. QED  BY <4>1, <1>2, <1>3, <1>4, GroupRanks DEF Doomed, leaderVars
      <3>2. CASE v = "ok"
        <4>1. ~Failing(w)
          BY <1>2 DEF Running, Failing, Gone
        <4>2. failedAt # 0 /\ Doomed
          BY <1>1, <1>3, <2>1, <3>2 DEF FailureKept
        <4>. QED  BY <4>1, <4>2, <1>2, <1>3, <1>4, <1>5, GroupRanks DEF Doomed, leaderVars
      <3>. QED  BY <3>1, <3>2
    <2>2. \A q \in Workers : HasCommand(q)' /\ failedAt' # 0 => NumberAt(q)' = failedAt'
      BY <1>1, <1>2, <1>3, <1>5 DEF FailureKept, OneCommand
    <2>3. channelOpen /\ failedAt' # 0 => at[0] \in Calling /\ failedAt' = issued
      BY <1>1, <1>2, <1>3 DEF FailureKept, InStep
    <2>. QED  BY <1>2, <1>3, <1>4, <2>1, <2>2, <2>3, GroupRanks DEF FailureKept, leaderVars
  <1>. QED  BY <1>6, <1>7, <1>8, <1>9, <1>10, <1>11, <1>12 DEF GroupInv

(* The worker applies the command it was sent: it runs the step only with  *)
(* every request of the batch.                                             *)
LEMMA ReceiveKeeps ==
  ASSUME GroupInv, NEW w \in Workers, Receive(w)
  PROVE  GroupInv'
  <1>1. /\ TypeOK /\ CallExact /\ LeaseHeld /\ WorkersHold /\ OneCommand /\ InStep
        /\ FailureKept
    BY DEF GroupInv
  <1>2. /\ inbox[w] # <<>> /\ inbox[w] = <<inbox[w][1]>> /\ at[w] = "receive"
        /\ HasCommand(w) /\ reply[w] = "none"
    BY <1>1 DEF Receive, OneCommand, HasCommand
  <1>3. Head(inbox[w]) = inbox[w][1] /\ Tail(inbox[w]) = <<>>
    <2>1. Head(<<inbox[w][1]>>) = inbox[w][1] /\ Tail(<<inbox[w][1]>>) = <<>>
      BY OneInSeq
    <2>. QED  BY <1>2, <2>1, Zenon
  <1>4. /\ at' = [at EXCEPT ![w] = at'[w]] /\ at'[w] \in {"before", "reply"}
        /\ result' = [result EXCEPT ![w] = result'[w]]
        /\ result'[w] \in {"none", "ok", "error"}
        /\ result'[w] = "error" => at'[w] = "reply"
    BY <1>1, <1>2, <1>3, GroupRanks DEF Receive, Set, TypeOK
  <1>5. /\ inbox' = [inbox EXCEPT ![w] = <<>>]
        /\ current' = [current EXCEPT ![w] = inbox[w][1]]
        /\ owns' = [owns EXCEPT ![w] = owns'[w]]
        /\ at'[w] = "before" /\ inbox[w][1].kind = "execute" =>
             inbox[w][1].batch \subseteq owns'[w]
        /\ failedAt' = IF result'[w] = "error" /\ failedAt = 0
                         THEN inbox[w][1].number ELSE failedAt
    BY <1>1, <1>2, <1>3, <1>4, GroupRanks DEF Receive, Set, TypeOK, RunsModel
  <1>6. /\ NumberAt(w) = inbox[w][1].number /\ NumberAt(w) \in Nat \ {0}
        /\ UNCHANGED <<requestVars, leaderVars, reply, faults>>
        /\ \A q \in Ranks : q # w => at'[q] = at[q] /\ result'[q] = result[q]
    BY <1>1, <1>2, <1>4 DEF Receive, NumberAt, OneCommand, TypeOK
  <1>7. HasCommand(w)' /\ NumberAt(w)' = NumberAt(w)
    BY <1>1, <1>4, <1>5, <1>6 DEF HasCommand, NumberAt, Busy, Running, TypeOK
  <1>8. \A v \in Workers : v # w => /\ HasCommand(v)' <=> HasCommand(v)
                                    /\ NumberAt(v)' = NumberAt(v)
    BY <1>1, <1>5, <1>6, GroupRanks
    DEF HasCommand, NumberAt, Busy, Running, TypeOK
  <1>9. TypeOK'
    BY SMTT(40), <1>1, <1>4, <1>5, <1>6, GroupRanks
    DEF TypeOK, LeaderLines, WorkerLines, OneCommand, requestVars, leaderVars
  <1>10. CallExact'
    BY <1>1, <1>2, GroupRanks
    DEF Receive, Set, requestVars, leaderVars, CallExact, Calling, Running,
        TypeOK
  <1>11. LeaseHeld'
    BY <1>1, <1>2, GroupRanks
    DEF Receive, Set, requestVars, leaderVars, LeaseHeld, TypeOK
  <1>12. WorkersHold'
    BY <1>1, <1>2, GroupRanks
    DEF Receive, Set, requestVars, leaderVars, WorkersHold, Running, TypeOK
  <1>13. OneCommand'
    BY <1>1, <1>2, GroupRanks
    DEF Receive, Set, requestVars, leaderVars, OneCommand, HasCommand, Busy,
        NumberAt, Running, TypeOK
  <1>14. InStep'
    BY <1>1, <1>2, GroupRanks
    DEF Receive, Set, requestVars, leaderVars, InStep, Calling, HasCommand,
        Busy, NumberAt, Quiet, Running, TypeOK
  <1>15. FailureKept'
    <2>1. \A v \in Workers : HasCommand(v)' /\ failedAt' # 0 => NumberAt(v)' = failedAt'
      BY <1>1, <1>2, <1>5, <1>6, <1>7, <1>8 DEF FailureKept, OneCommand
    <2>2. \A v \in Workers : Failing(v) => Failing(v)'
      BY <1>1, <1>2, <1>4, <1>6, GroupRanks DEF Failing, Gone, leaderVars
    <2>3. result'[w] = "error" => Failing(w)'
      BY <1>4 DEF Failing
    <2>4. channelOpen /\ failedAt' # 0 => at[0] \in Calling /\ failedAt' = issued
      BY <1>1, <1>2, <1>5, <1>6 DEF FailureKept, InStep
    <2>5. channelOpen /\ at[0] = "collect" => w \in call.peers
      BY <1>1, <1>2 DEF InStep, Quiet
    <2>6. channelOpen /\ failedAt' # 0 => Doomed'
      <3>1. CASE result'[w] = "error"
        BY <2>3, <2>5, <3>1, <1>6, GroupRanks DEF Doomed, leaderVars
      <3>2. CASE result'[w] # "error"
        BY <1>1, <1>5, <1>6, <2>2, <3>2, GroupRanks
        DEF FailureKept, Doomed, leaderVars
      <3>. QED  BY <3>1, <3>2
    <2>. QED  BY <1>6, <2>1, <2>4, <2>6, GroupRanks DEF FailureKept, leaderVars
  <1>. QED  BY <1>9, <1>10, <1>11, <1>12, <1>13, <1>14, <1>15 DEF GroupInv

(* A worker that replied has no command; an error is on its way to rank 0. *)
LEMMA ReplyKeeps ==
  ASSUME GroupInv, NEW w \in Workers, Reply(w)
  PROVE  GroupInv'
  <1>1. /\ TypeOK /\ CallExact /\ LeaseHeld /\ WorkersHold /\ OneCommand /\ InStep
        /\ FailureKept
    BY DEF GroupInv
  <1>2. /\ at[w] = "reply" /\ channelOpen /\ inbox[w] = <<>>
        /\ HasCommand(w) /\ reply[w] = "none"
        /\ \A q \in Ranks : q # w => at'[q] = at[q] /\ result'[q] = result[q]
        /\ at'[w] \in {"ended", "receive"} /\ reply' = [reply EXCEPT ![w] = result[w]]
        /\ result[w] = "error" => at'[w] = "ended"
        /\ \A v \in Workers : inbox'[v] = inbox[v]
        /\ \A v \in Workers : v # w => current'[v] = current[v]
        /\ UNCHANGED <<leaderVars, failedAt>>
    BY <1>1, GroupRanks
    DEF Reply, Leave, Set, OneCommand, HasCommand, Busy, TypeOK
  <1>3. /\ ~HasCommand(w)' /\ at'[0] = at[0] /\ result'[0] = result[0]
        /\ \A v \in Workers : v # w => /\ HasCommand(v)' <=> HasCommand(v)
                                       /\ NumberAt(v)' = NumberAt(v)
                                       /\ Failing(v) => Failing(v)'
    BY <1>1, <1>2, GroupRanks
    DEF HasCommand, Busy, Running, NumberAt, Failing, Gone, TypeOK
  <1>4. TypeOK'
    BY SMTT(40), <1>1, GroupRanks
    DEF Reply, Leave, Set, requestVars, leaderVars, TypeOK, LeaderLines,
        WorkerLines
  <1>5. CallExact'
    BY <1>1, GroupRanks
    DEF Reply, Leave, Set, requestVars, leaderVars, CallExact, Calling, Running,
        TypeOK
  <1>6. LeaseHeld'
    BY <1>1, GroupRanks
    DEF Reply, Leave, Set, requestVars, leaderVars, LeaseHeld, TypeOK
  <1>7. WorkersHold'
    BY <1>1, GroupRanks
    DEF Reply, Leave, Set, requestVars, leaderVars, WorkersHold, Running, TypeOK
  <1>8. OneCommand'
    <2>1. \A v \in Workers : v # w => reply'[v] = reply[v] /\ at'[v] = at[v]
      BY <1>1, <1>2, GroupRanks DEF TypeOK
    <2>2. \A v \in Workers :
            /\ HasCommand(v)' => v # w /\ HasCommand(v) /\ NumberAt(v)' = NumberAt(v)
            /\ inbox'[v] # <<>> => v # w
      BY <1>2, <1>3
    <2>3. at'[w] # "connect"
      BY <1>2
    <2>. QED  BY <1>1, <1>2, <2>1, <2>2, <2>3 DEF OneCommand
  <1>9. InStep'
    BY <1>1, GroupRanks
    DEF Reply, Leave, Set, requestVars, leaderVars, InStep, Calling, HasCommand,
        Busy, NumberAt, Quiet, Running, TypeOK
  <1>10. FailureKept'
    <2>1. Failing(w) => Failing(w)'
      BY <1>1, <1>2 DEF Failing, Gone, TypeOK
    <2>2. Doomed => Doomed'
      BY <1>2, <1>3, <2>1 DEF Doomed, leaderVars
    <2>. QED  BY <1>1, <1>2, <1>3, <2>2 DEF FailureKept, leaderVars
  <1>. QED  BY <1>4, <1>5, <1>6, <1>7, <1>8, <1>9, <1>10 DEF GroupInv

(* A worker without a channel leaves, and takes its command with it.       *)
LEMMA ReplyFailsKeeps ==
  ASSUME GroupInv, NEW w \in Workers, ReplyFails(w)
  PROVE  GroupInv'
  <1>1. /\ TypeOK /\ CallExact /\ LeaseHeld /\ WorkersHold /\ OneCommand /\ InStep
        /\ FailureKept
    BY DEF GroupInv
  <1>2. TypeOK'
    BY <1>1, GroupRanks
    DEF ReplyFails, Leave, NoCommand, Set, requestVars, leaderVars, TypeOK,
        LeaderLines, WorkerLines
  <1>3. CallExact'
    BY <1>1, GroupRanks
    DEF ReplyFails, Leave, NoCommand, Set, requestVars, leaderVars, CallExact,
        Calling, Running, TypeOK
  <1>4. LeaseHeld'
    BY <1>1, GroupRanks
    DEF ReplyFails, Leave, NoCommand, Set, requestVars, leaderVars, LeaseHeld,
        TypeOK
  <1>5. WorkersHold'
    BY <1>1, GroupRanks
    DEF ReplyFails, Leave, NoCommand, Set, requestVars, leaderVars, WorkersHold,
        Running, TypeOK
  <1>6. OneCommand'
    BY <1>1, GroupRanks
    DEF ReplyFails, Leave, NoCommand, Set, requestVars, leaderVars, OneCommand,
        HasCommand, Busy, NumberAt, Running, TypeOK
  <1>7. InStep'
    BY <1>1, GroupRanks
    DEF ReplyFails, Leave, NoCommand, Set, requestVars, leaderVars, InStep,
        Calling, HasCommand, Busy, NumberAt, Quiet, Running, TypeOK
  <1>8. FailureKept'
    BY <1>1, GroupRanks
    DEF ReplyFails, Leave, NoCommand, Set, requestVars, leaderVars, FailureKept,
        Doomed, Failing, Calling, HasCommand, Busy, NumberAt, Running, Gone, TypeOK
  <1>. QED  BY <1>2, <1>3, <1>4, <1>5, <1>6, <1>7, <1>8 DEF GroupInv

(* A worker that finds the channel closed leaves.                          *)
LEMMA PeerExitedKeeps ==
  ASSUME GroupInv, NEW w \in Workers, PeerExited(w)
  PROVE  GroupInv'
  <1>1. /\ TypeOK /\ CallExact /\ LeaseHeld /\ WorkersHold /\ OneCommand /\ InStep
        /\ FailureKept
    BY DEF GroupInv
  <1>2. TypeOK'
    BY <1>1, GroupRanks
    DEF PeerExited, Leave, Set, requestVars, leaderVars, TypeOK, LeaderLines,
        WorkerLines
  <1>3. CallExact'
    BY <1>1, GroupRanks
    DEF PeerExited, Leave, Set, requestVars, leaderVars, CallExact, Calling,
        Running, TypeOK
  <1>4. LeaseHeld'
    BY <1>1, GroupRanks
    DEF PeerExited, Leave, Set, requestVars, leaderVars, LeaseHeld, TypeOK
  <1>5. WorkersHold'
    BY <1>1, GroupRanks
    DEF PeerExited, Leave, Set, requestVars, leaderVars, WorkersHold, Running,
        TypeOK
  <1>6. OneCommand'
    BY <1>1, GroupRanks
    DEF PeerExited, Leave, Set, requestVars, leaderVars, OneCommand, HasCommand,
        Busy, NumberAt, Running, TypeOK
  <1>7. InStep'
    BY <1>1, GroupRanks
    DEF PeerExited, Leave, Set, requestVars, leaderVars, InStep, Calling,
        HasCommand, Busy, NumberAt, Quiet, Running, TypeOK
  <1>8. FailureKept'
    BY <1>1, GroupRanks
    DEF PeerExited, Leave, Set, requestVars, leaderVars, FailureKept, Doomed,
        Failing, Calling, HasCommand, Busy, NumberAt, Running, Gone, TypeOK
  <1>. QED  BY <1>2, <1>3, <1>4, <1>5, <1>6, <1>7, <1>8 DEF GroupInv

(* A worker that waited too long had no command.                           *)
LEMMA ReceiveTimesOutKeeps ==
  ASSUME GroupInv, NEW w \in Workers, ReceiveTimesOut(w)
  PROVE  GroupInv'
  <1>1. /\ TypeOK /\ CallExact /\ LeaseHeld /\ WorkersHold /\ OneCommand /\ InStep
        /\ FailureKept
    BY DEF GroupInv
  <1>2. TypeOK'
    BY <1>1, GroupRanks
    DEF ReceiveTimesOut, Leave, Fault, Set, requestVars, leaderVars, TypeOK,
        LeaderLines, WorkerLines
  <1>3. CallExact'
    BY <1>1, GroupRanks
    DEF ReceiveTimesOut, Leave, Fault, Set, requestVars, leaderVars, CallExact,
        Calling, Running, TypeOK
  <1>4. LeaseHeld'
    BY <1>1, GroupRanks
    DEF ReceiveTimesOut, Leave, Fault, Set, requestVars, leaderVars, LeaseHeld,
        TypeOK
  <1>5. WorkersHold'
    BY <1>1, GroupRanks
    DEF ReceiveTimesOut, Leave, Fault, Set, requestVars, leaderVars,
        WorkersHold, Running, TypeOK
  <1>6. OneCommand'
    BY <1>1, GroupRanks
    DEF ReceiveTimesOut, Leave, Fault, Set, requestVars, leaderVars, OneCommand,
        HasCommand, Busy, NumberAt, Running, TypeOK
  <1>7. InStep'
    BY <1>1, GroupRanks
    DEF ReceiveTimesOut, Leave, Fault, Set, requestVars, leaderVars, InStep,
        Calling, HasCommand, Busy, NumberAt, Quiet, Running, TypeOK
  <1>8. FailureKept'
    BY <1>1, GroupRanks
    DEF ReceiveTimesOut, Leave, Fault, Set, requestVars, leaderVars,
        FailureKept, Doomed, Failing, Calling, HasCommand, Busy, NumberAt, Running,
        Gone, TypeOK
  <1>. QED  BY <1>2, <1>3, <1>4, <1>5, <1>6, <1>7, <1>8 DEF GroupInv

(* A worker that is gone without a result fails the call.                  *)
LEMMA WorkerCrashKeeps ==
  ASSUME GroupInv, NEW w \in Workers, WorkerCrash(w)
  PROVE  GroupInv'
  <1>1. /\ TypeOK /\ CallExact /\ LeaseHeld /\ WorkersHold /\ OneCommand /\ InStep
        /\ FailureKept
    BY DEF GroupInv
  <1>2. /\ ~Gone(w) /\ at'[w] = "crashed" /\ inbox'[w] = <<>> /\ reply' = reply
        /\ \A q \in Ranks : q # w => at'[q] = at[q] /\ result'[q] = result[q]
        /\ \A v \in Workers : v # w => current'[v] = current[v] /\ inbox'[v] = inbox[v]
        /\ UNCHANGED <<leaderVars, failedAt>>
    BY <1>1, GroupRanks DEF WorkerCrash, Leave, Set, TypeOK
  <1>3. /\ ~HasCommand(w)' /\ at'[0] = at[0] /\ result'[0] = result[0]
        /\ \A v \in Workers : v # w => /\ HasCommand(v)' <=> HasCommand(v)
                                       /\ NumberAt(v)' = NumberAt(v)
                                       /\ Failing(v) => Failing(v)'
    BY <1>1, <1>2, GroupRanks
    DEF HasCommand, Busy, Running, NumberAt, Failing, Gone, TypeOK
  <1>4. TypeOK'
    BY <1>1, GroupRanks
    DEF WorkerCrash, Leave, Fault, Set, requestVars, leaderVars, TypeOK,
        LeaderLines, WorkerLines
  <1>5. CallExact'
    BY <1>1, GroupRanks
    DEF WorkerCrash, Leave, Fault, Set, requestVars, leaderVars, CallExact,
        Calling, Running, TypeOK
  <1>6. LeaseHeld'
    BY <1>1, GroupRanks
    DEF WorkerCrash, Leave, Fault, Set, requestVars, leaderVars, LeaseHeld,
        TypeOK
  <1>7. WorkersHold'
    BY <1>1, GroupRanks
    DEF WorkerCrash, Leave, Fault, Set, requestVars, leaderVars, WorkersHold,
        Running, TypeOK
  <1>8. OneCommand'
    BY <1>1, GroupRanks
    DEF WorkerCrash, Leave, Fault, Set, requestVars, leaderVars, OneCommand,
        HasCommand, Busy, NumberAt, Running, Gone, TypeOK
  <1>9. InStep'
    BY <1>1, GroupRanks
    DEF WorkerCrash, Leave, Fault, Set, requestVars, leaderVars, InStep,
        Calling, HasCommand, Busy, NumberAt, Quiet, Running, Gone, TypeOK
  <1>10. FailureKept'
    <2>1. Failing(w) => Failing(w)'
      BY <1>1, <1>2 DEF Failing, Gone, OneCommand, HasCommand, Busy
    <2>2. Doomed => Doomed'
      BY <1>2, <1>3, <2>1 DEF Doomed, leaderVars
    <2>. QED  BY <1>1, <1>2, <1>3, <2>2 DEF FailureKept, leaderVars
  <1>. QED  BY <1>4, <1>5, <1>6, <1>7, <1>8, <1>9, <1>10 DEF GroupInv

----------------------------------------------------------------------------

(* At the start no worker is connected and nothing was commanded.          *)
LEMMA InitGroup == Init => GroupInv
  <1>. SUFFICES ASSUME Init PROVE GroupInv
    OBVIOUS
  <1>1. /\ call.command = NoCommand /\ call.peers = Workers
        /\ call = [command |-> call.command, peers |-> call.peers]
        /\ at[0] = "accept" /\ \A w \in Workers : at[w] = "connect"
        /\ \A w \in Workers : ~HasCommand(w)
    BY GroupRanks DEF Init, NoCall, HasCommand, Busy, Running
  <1>2. TypeOK
    BY <1>1, GroupRanks DEF Init, TypeOK, LeaderLines, WorkerLines
  <1>3. CallExact
    BY <1>1 DEF Init, CallExact, Calling, Running
  <1>4. LeaseHeld /\ WorkersHold
    BY <1>1, GroupRanks DEF Init, LeaseHeld, WorkersHold, NoCommand, Running
  <1>5. OneCommand
    BY <1>1 DEF Init, OneCommand
  <1>6. InStep /\ FailureKept
    BY <1>1 DEF Init, InStep, FailureKept
  <1>. QED  BY <1>2, <1>3, <1>4, <1>5, <1>6 DEF GroupInv

(* Every step of the group keeps the invariant.                            *)
LEMMA NextGroup ==
  ASSUME GroupInv, [Next]_vars
  PROVE  GroupInv'
  <1>1. faults \in Nat
    BY DEF GroupInv, TypeOK
  <1>2. ASSUME NEW r \in Requests, AddRequest(r) \/ FreeRequest(r)
        PROVE  GroupInv'
    BY <1>2, AddRequestKeeps, FreeRequestKeeps
  <1>3. ASSUME NEW batch \in SUBSET Requests, Acquire(batch)
        PROVE  GroupInv'
    BY <1>3, AcquireKeeps
  <1>4. CASE Initialize \/ Execute \/ Shutdown \/ ReleaseLease \/ LeaderCrash
    BY <1>4, InitializeKeeps, ExecuteKeeps, ShutdownKeeps, ReleaseLeaseKeeps,
       LeaderCrashKeeps
  <1>5. CASE Send \/ Collect \/ Completes \/ CollectiveCompletes
    BY <1>5, SendKeeps, CollectKeeps, CompletesKeeps, CollectiveKeeps
  <1>6. CASE AcceptFails \/ SendFails \/ CollectFails \/ Invalid
    <2>1. Abort /\ at[0] \notin {"idle", "gone"} /\ faults' \in Nat
      BY <1>1, <1>6 DEF AcceptFails, SendFails, CollectFails, Invalid, Fault, FaultUnless
    <2>. QED  BY <2>1, AbortKeeps
  <1>7. ASSUME NEW r \in Ranks,
               EnterCollective(r) \/ StepRaises(r) \/ CollectiveFails(r) \/ StepReturns(r)
        PROVE  GroupInv'
    <2>1. CASE EnterCollective(r)
      BY <2>1, EnterKeeps
    <2>2. ASSUME NEW v \in {"ok", "error"}, Ends(r, v), Running(r), faults' \in Nat
          PROVE  GroupInv'
      BY <2>2, LeaderEndsKeeps, WorkerEndsKeeps, GroupRanks
    <2>3. CASE StepRaises(r)
      BY <1>1, <2>2, <2>3 DEF StepRaises, Running, Fault
    <2>4. CASE CollectiveFails(r)
      BY <1>1, <2>2, <2>4 DEF CollectiveFails, Running, Fault, FaultUnless
    <2>5. CASE StepReturns(r)
      BY <1>1, <2>2, <2>5 DEF StepReturns, Running
    <2>. QED  BY <1>7, <2>1, <2>3, <2>4, <2>5
  <1>8. ASSUME NEW w \in Workers,
               \/ Connect(w) \/ ConnectFails(w) \/ Accept(w) \/ Receive(w) \/ Reply(w)
               \/ ReplyFails(w) \/ PeerExited(w) \/ ReceiveTimesOut(w) \/ WorkerCrash(w)
        PROVE  GroupInv'
    BY <1>8, ConnectKeeps, ConnectFailsKeeps, AcceptKeeps, ReceiveKeeps, ReplyKeeps,
       ReplyFailsKeeps, PeerExitedKeeps, ReceiveTimesOutKeeps, WorkerCrashKeeps
  <1>9. CASE UNCHANGED vars
    BY <1>9
    DEF vars, requestVars, leaderVars, wireVars, GroupInv, TypeOK, CallExact, LeaseHeld,
        WorkersHold, OneCommand, InStep, FailureKept, HasCommand, Busy, NumberAt, Quiet,
        Running, Gone, Doomed, Failing
  <1>. QED  BY <1>2, <1>3, <1>4, <1>5, <1>6, <1>7, <1>8, <1>9 DEF Next

(* The invariant of the group: at most one command is under way, and a     *)
(* command that failed on a rank is not completed by rank 0.               *)
THEOREM GroupInvariant == Spec => []GroupInv
  <1>1. Init => GroupInv
    BY InitGroup
  <1>2. GroupInv /\ [Next]_vars => GroupInv'
    BY NextGroup
  <1>. QED  BY <1>1, <1>2, PTL DEF Spec

(* A rank that runs a step holds every request of it until the step is     *)
(* over, whatever the engine frees meanwhile (_deferred_frees).            *)
THEOREM StepsOwnTheirRequests == Spec => []StepOwnsItsRequests
  <1>1. GroupInv => StepOwnsItsRequests
    <2> SUFFICES ASSUME GroupInv, NEW r \in Ranks,
                        Running(r), CommandOf(r).kind = "execute"
                 PROVE  CommandOf(r).batch \subseteq owns[r]
      BY DEF StepOwnsItsRequests
    <2>1. CASE r = 0
      BY <2>1 DEF GroupInv, LeaseHeld, CommandOf
    <2>2. CASE r # 0
      BY <2>2, GroupRanks DEF GroupInv, WorkersHold, CommandOf
    <2>. QED  BY <2>1, <2>2
  <1>. QED  BY <1>1, GroupInvariant, PTL

(* Once a command failed on a rank, no rank applies a later one: rank 0    *)
(* aborts before it could issue it (_run_command).                         *)
THEOREM NothingFollowsFailure == Spec => []NothingAfterFailure
  <1>1. GroupInv => NothingAfterFailure
    <2> SUFFICES ASSUME GroupInv, failedAt # 0, NEW r \in Ranks,
                        Running(r) \/ at[r] = "reply"
                 PROVE  CommandOf(r).number <= failedAt
      BY DEF NothingAfterFailure
    <2>1. failedAt \in Nat /\ issued \in Nat
      BY DEF GroupInv, TypeOK
    <2>2. CASE r = 0
      <3>1. Running(0)
        BY <2>2 DEF GroupInv, TypeOK, LeaderLines
      <3>2. channelOpen /\ call.command.number = issued
        BY <3>1 DEF GroupInv, CallExact, Running, Calling
      <3>3. failedAt = issued
        BY <3>2 DEF GroupInv, FailureKept
      <3>. QED  BY <2>1, <2>2, <3>2, <3>3 DEF CommandOf
    <2>3. CASE r # 0
      <3>1. r \in Workers /\ HasCommand(r)
        BY <2>3, GroupRanks DEF HasCommand, Busy
      <3>2. inbox[r] = <<>>
        BY <3>1 DEF GroupInv, OneCommand, Running
      <3>3. current[r].number = failedAt
        BY <3>1, <3>2 DEF GroupInv, FailureKept, NumberAt
      <3>. QED  BY <2>1, <2>3, <3>3 DEF CommandOf
    <2>. QED  BY <2>2, <2>3
  <1>. QED  BY <1>1, GroupInvariant, PTL

\* Two ranks that run a model step run the step of the same command.
StepsTogether ==
  \A q, r \in Ranks :
    Running(q) /\ Running(r) => CommandOf(q).number = CommandOf(r).number

(* Two ranks that are in a model step at the same time, a collective of it *)
(* for instance, are in the step of the same command: no rank's collective *)
(* is ever answered by another rank's next step.                           *)
THEOREM RanksStepTogether == Spec => []StepsTogether
  <1>1. GroupInv => StepsTogether
    <2> SUFFICES ASSUME GroupInv PROVE StepsTogether
      OBVIOUS
    <2>1. ASSUME NEW w \in Workers, Running(w)
          PROVE  /\ HasCommand(w) /\ NumberAt(w) = CommandOf(w).number
                 /\ Running(0) => CommandOf(w).number = CommandOf(0).number
      <3>1. HasCommand(w) /\ NumberAt(w) = CommandOf(w).number
        BY <2>1, GroupRanks
        DEF GroupInv, OneCommand, HasCommand, Busy, Running, NumberAt, CommandOf
      <3>2. Running(0) => NumberAt(w) = CommandOf(0).number
        BY <3>1 DEF GroupInv, CallExact, InStep, Running, Calling, CommandOf
      <3>. QED  BY <3>1, <3>2
    <2>2. ASSUME NEW v \in Workers, NEW w \in Workers, Running(v), Running(w)
          PROVE  CommandOf(v).number = CommandOf(w).number
      BY <2>1, <2>2 DEF GroupInv, OneCommand
    <2>. QED  BY <2>1, <2>2, GroupRanks DEF StepsTogether
  <1>. QED  BY <1>1, GroupInvariant, PTL

----------------------------------------------------------------------------

\* f holds the tables after each of the first n updates.
IsTables(f, owned, updates, n) ==
  f = [i \in 0..n |-> IF i = 0 THEN owned ELSE After(f[i - 1], updates[i])]

(* The tables after each update exist: by induction on their number.       *)
LEMMA TablesExist ==
  \A owned, updates : \A n \in Nat : \E f : IsTables(f, owned, updates, n)
<1> SUFFICES ASSUME NEW owned, NEW updates
             PROVE  \A n \in Nat : \E f : IsTables(f, owned, updates, n)
  OBVIOUS
<1> DEFINE B == {n \in Nat : \E f : IsTables(f, owned, updates, n)}
<1>1. 0 \in B
  <2>1. IsTables([i \in 0..0 |-> owned], owned, updates, 0) BY DEF IsTables
  <2> QED BY <2>1
<1>2. ASSUME NEW n \in Nat, n \in B PROVE n + 1 \in B
  <2>1. PICK f : IsTables(f, owned, updates, n) BY <1>2
  <2> DEFINE x == After(f[n], updates[n + 1])
             g == [i \in 0..(n + 1) |-> IF i = n + 1 THEN x ELSE f[i]]
  <2>2. ASSUME NEW i \in 0..(n + 1)
        PROVE  g[i] = IF i = 0 THEN owned ELSE After(g[i - 1], updates[i])
    <3>1. CASE i = n + 1 BY <3>1
    <3>2. CASE i # n + 1
      <4>1. i \in 0..n /\ (i # 0 => i - 1 \in 0..n) BY <3>2
      <4>2. f[i] = IF i = 0 THEN owned ELSE After(f[i - 1], updates[i])
        BY <2>1, <4>1 DEF IsTables
      <4>3. g[i] = f[i] /\ (i # 0 => g[i - 1] = f[i - 1]) BY <4>1
      <4> QED BY <4>2, <4>3
    <3> QED BY <3>1, <3>2
  <2>3. IsTables(g, owned, updates, n + 1)
    <3> HIDE DEF x
    <3> QED BY <2>2 DEF IsTables
  <2> QED BY <2>3
<1>3. \A n \in Nat : n \in B
  <2> HIDE DEF B
  <2> QED BY <1>1, <1>2, Induct
<1> QED BY <1>3

Update == [op : {"add", "free"}, request : Requests]
Updates == Seq(Update)

(* The tables start with what the rank owns and follow the updates.        *)
LEMMA TablesAre ==
  ASSUME NEW s, NEW us \in Updates
  PROVE  /\ Tables(s, us)[0] = s
         /\ \A i \in 1..Len(us) : Tables(s, us)[i] = After(Tables(s, us)[i - 1], us[i])
<1>1. Len(us) \in Nat BY DEF Updates
<1>2. PICK f : IsTables(f, s, us, Len(us)) BY <1>1, TablesExist
<1>3. IsTables(Tables(s, us), s, us, Len(us)) BY <1>2, Zenon DEF Tables, IsTables
<1> DEFINE g == Tables(s, us)
<1> HIDE DEF g
<1>4. g = [i \in 0..Len(us) |-> IF i = 0 THEN s ELSE After(g[i - 1], us[i])]
  BY <1>3 DEF IsTables, g
<1>5. g[0] = s BY <1>1, <1>4
<1>6. \A i \in 1..Len(us) : g[i] = After(g[i - 1], us[i])
  <2> SUFFICES ASSUME NEW i \in 1..Len(us) PROVE g[i] = After(g[i - 1], us[i]) OBVIOUS
  <2>1. i \in 0..Len(us) /\ i # 0 BY <1>1
  <2> QED BY <1>4, <2>1
<1> QED BY <1>5, <1>6 DEF g

\* The updates lead a rank from one table to another, and it refuses none.
Leads(s, us, t) == ~Refuses(s, us) /\ Updated(s, us) = t

(* No update changes nothing.                                              *)
LEMMA LeadsNowhere == ASSUME NEW s, NEW t PROVE Leads(s, << >>, t) <=> s = t
<1>1. << >> \in Updates /\ Len(<< >>) = 0 /\ DOMAIN << >> = {} BY DEF Updates
<1>2. Tables(s, << >>)[0] = s BY <1>1, TablesAre
<1> QED BY <1>1, <1>2 DEF Leads, Refuses, Updated

(* The updates of one sequence, then those of another.                     *)
LEMMA TablesOfCat ==
  ASSUME NEW s, NEW us \in Updates, NEW vs \in Updates
  PROVE  /\ \A i \in 0..Len(us) : Tables(s, Cat(us, vs))[i] = Tables(s, us)[i]
         /\ \A i \in 0..Len(vs) :
              Tables(s, Cat(us, vs))[Len(us) + i] = Tables(Updated(s, us), vs)[i]
<1> DEFINE m == Len(us)
           n == Len(vs)
           f == Tables(s, us)
           h == Tables(s, Cat(us, vs))
           g == Tables(Updated(s, us), vs)
<1>1. m \in Nat /\ n \in Nat BY DEF Updates
<1>2. Cat(us, vs) \in Updates BY CatType DEF Updates
<1>3. /\ Len(Cat(us, vs)) = m + n
      /\ \A i \in 1..m : Cat(us, vs)[i] = us[i]
      /\ \A i \in 1..n : Cat(us, vs)[m + i] = vs[i]
  BY CatShape DEF Updates
<1>4. f[0] = s /\ \A i \in 1..m : f[i] = After(f[i - 1], us[i])
  BY TablesAre
<1>5. h[0] = s /\ \A i \in 1..(m + n) : h[i] = After(h[i - 1], Cat(us, vs)[i])
  <2>1. h[0] = s /\ \A i \in 1..Len(Cat(us, vs)) : h[i] = After(h[i - 1], Cat(us, vs)[i])
    BY <1>2, TablesAre
  <2> QED BY <1>3, <2>1
<1>6. g[0] = f[m] /\ \A i \in 1..n : g[i] = After(g[i - 1], vs[i])
  BY TablesAre DEF Updated
<1> HIDE DEF f, g, h, m, n
<1>7. \A i \in 0..m : h[i] = f[i]
  <2> DEFINE B == {i \in Nat : i \in 0..m => h[i] = f[i]}
  <2>1. 0 \in B BY <1>4, <1>5
  <2>2. ASSUME NEW i \in Nat, i \in B PROVE i + 1 \in B
    <3> SUFFICES ASSUME i + 1 \in 0..m PROVE h[i + 1] = f[i + 1] OBVIOUS
    <3>1. i + 1 \in 1..m /\ i + 1 \in 1..(m + n) /\ (i + 1) - 1 = i /\ i \in 0..m
      BY <1>1
    <3>2. h[i] = f[i] BY <2>2, <3>1
    <3>3. f[i + 1] = After(f[i], us[i + 1]) BY <1>4, <3>1
    <3>4. h[i + 1] = After(h[i], us[i + 1]) BY <1>3, <1>5, <3>1
    <3> QED BY <3>2, <3>3, <3>4
  <2>3. \A i \in Nat : i \in B
    <3> HIDE DEF B
    <3> QED BY <2>1, <2>2, Induct
  <2> QED BY <1>1, <2>3
<1>8. \A i \in 0..n : h[m + i] = g[i]
  <2> DEFINE B == {i \in Nat : i \in 0..n => h[m + i] = g[i]}
  <2>1. 0 \in B BY <1>1, <1>6, <1>7
  <2>2. ASSUME NEW i \in Nat, i \in B PROVE i + 1 \in B
    <3> SUFFICES ASSUME i + 1 \in 0..n PROVE h[m + (i + 1)] = g[i + 1] OBVIOUS
    <3>1. /\ i + 1 \in 1..n /\ m + (i + 1) \in 1..(m + n)
          /\ (m + (i + 1)) - 1 = m + i /\ (i + 1) - 1 = i /\ i \in 0..n
      BY <1>1
    <3>2. h[m + i] = g[i] BY <2>2, <3>1
    <3>3. g[i + 1] = After(g[i], vs[i + 1]) BY <1>6, <3>1
    <3>4. h[m + (i + 1)] = After(h[m + i], vs[i + 1]) BY <1>3, <1>5, <3>1
    <3> QED BY <3>2, <3>3, <3>4
  <2>3. \A i \in Nat : i \in B
    <3> HIDE DEF B
    <3> QED BY <2>1, <2>2, Induct
  <2> QED BY <1>1, <2>3
<1> QED BY <1>7, <1>8 DEF f, g, h, m, n

(* Following two sequences is following the second from where the first    *)
(* leads.                                                                  *)
LEMMA LeadsOn ==
  ASSUME NEW s, NEW t, NEW us \in Updates, NEW vs \in Updates
  PROVE  /\ Cat(us, vs) \in Updates
         /\ Leads(s, Cat(us, vs), t) <=>
              /\ ~Refuses(s, us)
              /\ Leads(Updated(s, us), vs, t)
<1> DEFINE m == Len(us)
           n == Len(vs)
           f == Tables(s, us)
           h == Tables(s, Cat(us, vs))
           g == Tables(Updated(s, us), vs)
           ws == Cat(us, vs)
<1>1. m \in Nat /\ n \in Nat /\ DOMAIN us = 1..m /\ DOMAIN vs = 1..n BY DEF Updates
<1>2. ws \in Updates BY CatType DEF Updates
<1>3. /\ Len(ws) = m + n /\ DOMAIN ws = 1..(m + n)
      /\ \A i \in 1..m : ws[i] = us[i]
      /\ \A i \in 1..n : ws[m + i] = vs[i]
  BY CatShape DEF Updates
<1>4. /\ \A i \in 0..m : h[i] = f[i]
      /\ \A i \in 0..n : h[m + i] = g[i]
  BY TablesOfCat
<1>5. Updated(s, ws) = h[m + n] /\ Updated(Updated(s, us), vs) = g[n]
  BY <1>3 DEF Updated
<1>6. Refuses(s, ws) <=> \E i \in 1..(m + n) : (ws[i].op = "add") <=> (ws[i].request \in h[i - 1])
  BY <1>3 DEF Refuses
<1>7. Refuses(s, us) <=> \E i \in 1..m : (us[i].op = "add") <=> (us[i].request \in f[i - 1])
  BY <1>1 DEF Refuses
<1>8. Refuses(Updated(s, us), vs) <=>
        \E i \in 1..n : (vs[i].op = "add") <=> (vs[i].request \in g[i - 1])
  BY <1>1 DEF Refuses
<1> HIDE DEF f, g, h, m, n, ws
<1>9. Refuses(s, ws) <=> Refuses(s, us) \/ Refuses(Updated(s, us), vs)
  <2>1. ASSUME NEW i \in 1..m
        PROVE  i \in 1..(m + n) /\ ws[i] = us[i] /\ h[i - 1] = f[i - 1]
    <3>1. i - 1 \in 0..m BY <1>1
    <3> QED BY <1>1, <1>3, <1>4, <3>1
  <2>2. ASSUME NEW i \in 1..n
        PROVE  m + i \in 1..(m + n) /\ ws[m + i] = vs[i] /\ h[(m + i) - 1] = g[i - 1]
    <3>1. i - 1 \in 0..n /\ m + (i - 1) = (m + i) - 1 BY <1>1
    <3>2. h[m + (i - 1)] = g[i - 1] BY <1>4, <3>1
    <3>3. h[(m + i) - 1] = g[i - 1] BY <3>1, <3>2
    <3> QED BY <1>1, <1>3, <3>3
  <2>3. ASSUME NEW i \in 1..(m + n)
        PROVE  i \in 1..m \/ \E j \in 1..n : i = m + j
    <3>1. CASE i =< m BY <1>1, <3>1
    <3>2. CASE i > m
      <4>1. i - m \in 1..n /\ i = m + (i - m) BY <1>1, <3>2
      <4> QED BY <4>1
    <3> QED BY <1>1, <3>1, <3>2
  <2>4. Refuses(s, us) => Refuses(s, ws) BY <1>6, <1>7, <2>1
  <2>5. Refuses(Updated(s, us), vs) => Refuses(s, ws)
    <3> SUFFICES ASSUME NEW i \in 1..n, (vs[i].op = "add") <=> (vs[i].request \in g[i - 1])
                 PROVE  \E j \in 1..(m + n) : (ws[j].op = "add") <=> (ws[j].request \in h[j - 1])
      BY <1>6, <1>8
    <3> QED BY <2>2
  <2>6. Refuses(s, ws) => Refuses(s, us) \/ Refuses(Updated(s, us), vs)
    <3> SUFFICES ASSUME NEW i \in 1..(m + n),
                        (ws[i].op = "add") <=> (ws[i].request \in h[i - 1])
                 PROVE  Refuses(s, us) \/ Refuses(Updated(s, us), vs)
      BY <1>6
    <3>1. CASE i \in 1..m BY <1>7, <2>1, <3>1
    <3>2. ASSUME NEW j \in 1..n, i = m + j PROVE Refuses(Updated(s, us), vs)
      BY <1>8, <2>2, <3>2
    <3> QED BY <2>3, <3>1, <3>2
  <2> QED BY <2>4, <2>5, <2>6
<1>10. Updated(s, ws) = Updated(Updated(s, us), vs)
  <2>1. n \in 0..n BY <1>1
  <2> QED BY <1>4, <1>5, <2>1
<1> QED BY <1>2, <1>9, <1>10 DEF Leads, ws

(* One more update.                                                        *)
LEMMA LeadsOne ==
  ASSUME NEW s, NEW u \in Update, (u.op = "add") <=> (u.request \notin s)
  PROVE  Leads(s, <<u>>, After(s, u))
<1>1. <<u>> \in Updates /\ Len(<<u>>) = 1 /\ DOMAIN <<u>> = {1} /\ <<u>>[1] = u BY DEF Updates
<1>2. Tables(s, <<u>>)[0] = s /\ Tables(s, <<u>>)[1] = After(s, u)
  <2>1. \A i \in 1..1 : Tables(s, <<u>>)[i] = After(Tables(s, <<u>>)[i - 1], <<u>>[i])
    BY <1>1, TablesAre
  <2>2. Tables(s, <<u>>)[0] = s BY <1>1, TablesAre
  <2>3. 1 \in 1..1 /\ 1 - 1 = 0 OBVIOUS
  <2>4. Tables(s, <<u>>)[1] = After(Tables(s, <<u>>)[1 - 1], <<u>>[1]) BY <2>1, <2>3
  <2> QED BY <1>1, <2>2, <2>3, <2>4
<1>3. Updated(s, <<u>>) = After(s, u) BY <1>1, <1>2 DEF Updated
<1>4. ~Refuses(s, <<u>>)
  <2> SUFFICES ASSUME NEW i \in {1}, (<<u>>[i].op = "add") <=>
                                       (<<u>>[i].request \in Tables(s, <<u>>)[i - 1])
               PROVE  FALSE
    BY <1>1 DEF Refuses
  <2>1. i = 1 /\ 1 - 1 = 0 OBVIOUS
  <2>2. (u.op = "add") <=> (u.request \in s) BY <1>1, <1>2, <2>1
  <2> QED BY <2>2
<1> QED BY <1>3, <1>4 DEF Leads

(* The updates that free a finite set are each of its requests once.       *)
LEMMA FreesAre ==
  ASSUME NEW rs \in SUBSET Requests, IsFiniteSet(rs)
  PROVE  LET q == SetToSeq({Free(r) : r \in rs}) IN
         /\ q \in Updates
         /\ \A i \in 1..Len(q) : q[i].op = "free" /\ q[i].request \in rs
         /\ \A i, j \in 1..Len(q) : q[i].request = q[j].request => i = j
         /\ \A r \in rs : \E i \in 1..Len(q) : q[i].request = r
<1> DEFINE S == {Free(r) : r \in rs}
           n == Cardinality(S)
           q == SetToSeq(S)
<1>1. IsFiniteSet(S)
  <2> DEFINE f == [r \in rs |-> Free(r)]
  <2>1. f \in Surjection(rs, S) BY DEF Surjection
  <2> HIDE DEF f, S
  <2> QED BY <2>1, FS_Surjection
<1>2. S \subseteq Update BY DEF Free, Update
<1>3. \A u \in S : u.op = "free" /\ u.request \in rs /\ u = Free(u.request)
  BY DEF Free
<1>4. \A r \in rs : Free(r) \in S /\ Free(r).request = r BY DEF Free
<1> HIDE DEF S
<1>5. n \in Nat /\ ExistsBijection(1..n, S) BY <1>1, FS_CardinalityType
<1> HIDE DEF n
<1>6. \E f \in [1..n -> S] : IsInjective(f)
  <2>1. PICK f : f \in Bijection(1..n, S) BY <1>5 DEF ExistsBijection
  <2> QED BY <2>1 DEF Bijection, Injection
<1>7. q \in [1..n -> S] /\ IsInjective(q)
  <2>1. q = CHOOSE f \in [1..n -> S] : IsInjective(f) BY DEF SetToSeq, n
  <2> HIDE DEF q
  <2> QED BY <1>6, <2>1, Zenon
<1> HIDE DEF q
<1>8. q \in Surjection(1..n, S)
  <2>1. q \in Injection(1..n, S) BY <1>7 DEF Injection
  <2>2. n \in Nat BY <1>5
  <2>3. Cardinality(1..n) = n
    <3>1. Cardinality(1..n) = IF 1 > n THEN 0 ELSE n - 1 + 1 BY <1>5, FS_Interval
    <3> QED BY <1>5, <3>1
  <2>4. Cardinality(1..n) = Cardinality(S) BY <2>3 DEF n
  <2> QED BY <1>1, <2>1, <2>4, FS_Injection
<1>9. q \in Updates /\ Len(q) = n
  <2>1. q \in Seq(S) BY <1>5, <1>7
  <2>2. q \in Updates BY <1>2, <2>1 DEF Updates
  <2>3. Len(q) = n BY <1>5, <1>7, <2>1
  <2> QED BY <2>2, <2>3
<1>10. \A i \in 1..n : q[i] \in S BY <1>7
<1>11. \A i, j \in 1..n : q[i].request = q[j].request => i = j
  <2> SUFFICES ASSUME NEW i \in 1..n, NEW j \in 1..n, q[i].request = q[j].request
               PROVE  i = j
    OBVIOUS
  <2>1. q[i] = Free(q[i].request) /\ q[j] = Free(q[j].request) BY <1>3, <1>10
  <2>2. q[i] = q[j] BY <2>1
  <2> QED BY <1>7, <2>2 DEF IsInjective
<1>12. \A r \in rs : \E i \in 1..n : q[i].request = r
  <2> SUFFICES ASSUME NEW r \in rs PROVE \E i \in 1..n : q[i].request = r OBVIOUS
  <2>1. PICK i \in 1..n : q[i] = Free(r) BY <1>4, <1>8 DEF Surjection
  <2> QED BY <1>4, <2>1
<1> QED BY <1>3, <1>9, <1>10, <1>11, <1>12 DEF q, S

(* Freeing requests that a rank holds leads it to what it holds without    *)
(* them.                                                                   *)
LEMMA LeadsFree ==
  ASSUME NEW s, NEW rs \in SUBSET Requests, IsFiniteSet(rs), rs \subseteq s
  PROVE  /\ SetToSeq({Free(r) : r \in rs}) \in Updates
         /\ Leads(s, SetToSeq({Free(r) : r \in rs}), s \ rs)
<1> DEFINE q == SetToSeq({Free(r) : r \in rs})
           n == Len(q)
           g == Tables(s, q)
<1>1. /\ q \in Updates
      /\ \A i \in 1..n : q[i].op = "free" /\ q[i].request \in rs
      /\ \A i, j \in 1..n : q[i].request = q[j].request => i = j
      /\ \A r \in rs : \E i \in 1..n : q[i].request = r
  BY FreesAre
<1> HIDE DEF q
<1>2. n \in Nat /\ DOMAIN q = 1..n BY <1>1 DEF Updates
<1>3. g[0] = s /\ \A i \in 1..n : g[i] = After(g[i - 1], q[i]) BY <1>1, TablesAre
<1>4. Updated(s, q) = g[n] BY DEF Updated
<1>5. Refuses(s, q) <=> \E i \in 1..n : (q[i].op = "add") <=> (q[i].request \in g[i - 1])
  BY <1>2 DEF Refuses
<1> HIDE DEF n, g
<1> DEFINE freed(i) == {q[j].request : j \in 1..i}
           B == {i \in Nat : i \in 0..n => g[i] = s \ freed(i)}
<1>6. 0 \in B BY <1>3
<1>7. ASSUME NEW i \in Nat, i \in B PROVE i + 1 \in B
  <2> SUFFICES ASSUME i + 1 \in 0..n PROVE g[i + 1] = s \ freed(i + 1) OBVIOUS
  <2>1. i \in 0..n /\ i + 1 \in 1..n /\ (i + 1) - 1 = i BY <1>2
  <2>2. g[i] = s \ freed(i) BY <1>7, <2>1
  <2>3. g[i + 1] = g[i] \ {q[i + 1].request} BY <1>1, <1>3, <2>1 DEF After
  <2>4. 1..(i + 1) = (1..i) \cup {i + 1} OBVIOUS
  <2>5. freed(i + 1) = freed(i) \cup {q[i + 1].request} BY <2>4
  <2> QED BY <2>2, <2>3, <2>5
<1>8. \A i \in Nat : i \in B
  <2> HIDE DEF B
  <2> QED BY <1>6, <1>7, Induct
<1>9. \A i \in 0..n : g[i] = s \ freed(i) BY <1>2, <1>8
<1>10. freed(n) = rs BY <1>1, <1>2
<1>11. g[n] = s \ rs BY <1>2, <1>9, <1>10
<1>12. ~Refuses(s, q)
  <2> SUFFICES ASSUME NEW i \in 1..n, (q[i].op = "add") <=> (q[i].request \in g[i - 1])
               PROVE  FALSE
    BY <1>5
  <2>1. q[i].op = "free" /\ q[i].request \in s BY <1>1
  <2>2. i - 1 \in 0..n /\ \A j \in 1..(i - 1) : j \in 1..n /\ j # i BY <1>2
  <2>3. q[i].request \notin freed(i - 1) BY <1>1, <2>2
  <2>4. g[i - 1] = s \ freed(i - 1) BY <1>9, <2>2
  <2> QED BY <2>1, <2>3, <2>4
<1>13. q \in Updates /\ Leads(s, q, s \ rs) BY <1>1, <1>4, <1>11, <1>12 DEF Leads
<1> QED BY <1>13 DEF q

----------------------------------------------------------------------------

\* What the tables are made of.  A worker's result is set only while it replies.
UpdatesTyped ==
  /\ pending \in Updates
  /\ owns \in [Ranks -> SUBSET Requests]
  /\ IsFiniteSet(owns[0])
  /\ call.command.updates \in Updates
  /\ \A w \in Workers : \A i \in DOMAIN inbox[w] : inbox[w][i].updates \in Updates
  /\ \A w \in Workers : result[w] # "none" => at[w] = "reply"

\* A worker that has not failed, and the updates it is behind.
Follows(w) == ~Gone(w) /\ result[w] # "error"
Behind(w) == Cat(Outstanding(w), pending)

TablesFollow ==
  channelOpen => \A w \in Workers : Follows(w) => Leads(owns[w], Behind(w), owns[0])

TablesInv == UpdatesTyped /\ TablesFollow

\* The updates in an inbox, and in a call that has yet to be sent to the worker.
Arriving(box) == FlattenSeq([i \in DOMAIN box |-> box[i].updates])
ToSend(line, peers, updates, w) == IF line = "send" /\ w \in peers THEN updates ELSE << >>
Queued(w) == Cat(Arriving(inbox[w]), ToSend(at[0], call.peers, call.command.updates, w))

(* The updates of an inbox with no command, and with one.                  *)
LEMMA ArrivingIs ==
  /\ Arriving(<< >>) = << >>
  /\ \A c : c.updates \in Updates => Arriving(<<c>>) = c.updates
<1>1. Arriving(<< >>) = << >>
  <2>1. [i \in DOMAIN << >> |-> << >>[i].updates] = << >> OBVIOUS
  <2> QED BY <2>1, FlattenEmpty DEF Arriving
<1>2. ASSUME NEW c, c.updates \in Updates PROVE Arriving(<<c>>) = c.updates
  <2>1. [i \in DOMAIN <<c>> |-> <<c>>[i].updates] = <<c.updates>> OBVIOUS
  <2>2. FlattenSeq(<<c.updates>>) = c.updates BY <1>2, FlattenOne DEF Updates
  <2> QED BY <2>1, <2>2 DEF Arriving
<1> QED BY <1>1, <1>2

(* What is outstanding, with the concatenation named.                      *)
LEMMA OutstandingIs == \A w : Outstanding(w) = Queued(w)
  BY DEF Outstanding, Queued, Arriving, ToSend, Cat

(* An inbox holds at most one command, so what arrives is well typed.      *)
LEMMA ArrivingType ==
  ASSUME GroupInv, UpdatesTyped, NEW w \in Workers
  PROVE  /\ Arriving(inbox[w]) \in Updates
         /\ ToSend(at[0], call.peers, call.command.updates, w) \in Updates
<1>0. << >> \in Updates BY DEF Updates
<1>1. ToSend(at[0], call.peers, call.command.updates, w) \in Updates
  BY <1>0 DEF ToSend, UpdatesTyped
<1>2. CASE inbox[w] = << >> BY <1>0, <1>1, <1>2, ArrivingIs
<1>3. CASE inbox[w] # << >>
  <2> DEFINE c == inbox[w][1]
  <2>1. inbox[w] = <<c>> BY <1>3 DEF GroupInv, OneCommand
  <2>2. 1 \in DOMAIN <<c>> OBVIOUS
  <2>3. c.updates \in Updates
    <3>1. 1 \in DOMAIN inbox[w] BY <2>1, <2>2
    <3> QED BY <3>1 DEF UpdatesTyped
  <2>4. Arriving(<<c>>) = c.updates BY <2>3, ArrivingIs
  <2> QED BY <1>1, <2>1, <2>3, <2>4
<1> QED BY <1>2, <1>3

(* What a worker is behind is well typed.                                  *)
LEMMA BehindType ==
  ASSUME GroupInv, UpdatesTyped, NEW w \in Workers
  PROVE  Outstanding(w) \in Updates /\ Behind(w) \in Updates /\ pending \in Updates
<1>1. Arriving(inbox[w]) \in Updates
      /\ ToSend(at[0], call.peers, call.command.updates, w) \in Updates
  BY ArrivingType
<1>2. Queued(w) \in Updates BY <1>1, CatType DEF Updates, Queued
<1>3. Outstanding(w) \in Updates BY <1>2, OutstandingIs
<1>4. pending \in Updates BY DEF UpdatesTyped
<1>5. Cat(Outstanding(w), pending) \in Updates BY <1>3, <1>4, CatType DEF Updates
<1> QED BY <1>3, <1>4, <1>5 DEF Behind

(* Where neither rank 0's table nor a worker's changes, nor the updates    *)
(* between them.                                                           *)
LEMMA NothingMoves ==
  ASSUME TablesFollow, UNCHANGED pending, owns'[0] = owns[0],
         channelOpen' => channelOpen,
         channelOpen' =>
           \A w \in Workers :
             Follows(w)' => /\ Follows(w) /\ owns'[w] = owns[w]
                            /\ Queued(w)' = Queued(w)
  PROVE  TablesFollow'
<1>1. \A w : Outstanding(w)' = Queued(w)'
  BY DEF Outstanding, Queued, Arriving, ToSend, Cat
<1>2. \A w : Outstanding(w) = Queued(w) BY OutstandingIs
<1> SUFFICES ASSUME channelOpen', NEW w \in Workers, Follows(w)'
             PROVE  Leads(owns'[w], Behind(w)', owns'[0])
  BY DEF TablesFollow
<1>3. Leads(owns[w], Behind(w), owns[0]) BY DEF TablesFollow
<1>4. Outstanding(w)' = Outstanding(w) BY <1>1, <1>2
<1>5. Behind(w)' = Behind(w) BY <1>4 DEF Behind
<1> QED BY <1>3, <1>5

(* Where rank 0's table moves, and pending says how.                       *)
LEMMA PendingGrows ==
  ASSUME GroupInv, TablesInv, NEW vs \in Updates, Leads(owns[0], vs, owns'[0]),
         pending' = Cat(pending, vs), \A w \in Workers : owns'[w] = owns[w],
         UNCHANGED <<inbox, at, call, result, channelOpen>>
  PROVE  TablesFollow'
<1>1. \A w : Outstanding(w)' = Queued(w)'
  BY DEF Outstanding, Queued, Arriving, ToSend, Cat
<1>2. \A w : Outstanding(w) = Queued(w) BY OutstandingIs
<1> SUFFICES ASSUME channelOpen', NEW w \in Workers, Follows(w)'
             PROVE  Leads(owns'[w], Behind(w)', owns'[0])
  BY DEF TablesFollow
<1>3. Follows(w) BY DEF Follows, Gone
<1>4. Leads(owns[w], Behind(w), owns[0]) BY <1>3 DEF TablesFollow, TablesInv
<1>5. Outstanding(w)' = Outstanding(w) BY <1>1, <1>2 DEF Queued
<1>6. /\ Outstanding(w) \in Updates /\ Behind(w) \in Updates
      /\ pending \in Updates
  BY BehindType DEF TablesInv
<1>7. Behind(w)' = Cat(Outstanding(w), Cat(pending, vs)) BY <1>5 DEF Behind
<1>8. Cat(Outstanding(w), Cat(pending, vs)) = Cat(Behind(w), vs)
  BY <1>6, CatAssociative DEF Behind, Updates
<1>9. Leads(owns[w], Cat(Behind(w), vs), owns'[0])
  <2>1. ~Refuses(owns[w], Behind(w)) /\ Updated(owns[w], Behind(w)) = owns[0]
    BY <1>4 DEF Leads
  <2> QED BY <1>6, <2>1, LeadsOn
<1> QED BY <1>7, <1>8, <1>9

----------------------------------------------------------------------------

(* The steps that move no update: a lease, a connection, a model step, a   *)
(* result.  An error of a worker's step is the end of what it promises.    *)
LEMMA IdleTables ==
  ASSUME GroupInv, TablesInv, UNCHANGED <<pending, owns, inbox, channelOpen>>,
         call'.command.updates \in Updates,
         \A w \in Workers : ToSend(at[0], call.peers, call.command.updates, w)
                          = ToSend(at'[0], call'.peers, call'.command.updates, w),
         \A w \in Workers : /\ result'[w] # "none" => at'[w] = "reply"
                            /\ Follows(w)' => Follows(w)
  PROVE  TablesInv'
<1>1. UpdatesTyped' BY DEF TablesInv, UpdatesTyped
<1>2. \A w \in Workers : Queued(w)' = Queued(w) BY DEF Queued
<1>3. TablesFollow' BY <1>2, NothingMoves DEF TablesInv
<1> QED BY <1>1, <1>3 DEF TablesInv

(* Acquiring a lease, connecting and accepting a worker move no update.    *)
LEMMA AcquireTables ==
  ASSUME GroupInv, TablesInv, NEW batch \in SUBSET Requests, Acquire(batch)
  PROVE  TablesInv'
<1>1. UNCHANGED <<pending, owns, inbox, channelOpen, call, at, result>>
  BY DEF Acquire, leaderVars, wireVars
<1>2. call'.command.updates \in Updates BY <1>1 DEF TablesInv, UpdatesTyped
<1>3. \A w \in Workers : /\ result'[w] # "none" => at'[w] = "reply"
                         /\ Follows(w)' => Follows(w)
  BY <1>1 DEF TablesInv, UpdatesTyped, Follows, Gone
<1> QED BY <1>1, <1>2, <1>3, IdleTables

(* A worker that has connected has no result.                              *)
LEMMA ConnectTables ==
  ASSUME GroupInv, TablesInv, NEW w \in Workers,
         Connect(w) \/ ConnectFails(w) \/ Accept(w)
  PROVE  TablesInv'
<1>1. /\ at \in [Ranks -> LeaderLines \cup WorkerLines] /\ 0 \in Ranks /\ w \in Ranks
      /\ w # 0 /\ Workers \subseteq Ranks /\ 0 \notin Workers
  BY GroupRanks DEF GroupInv, TypeOK
<1>2. UNCHANGED <<pending, owns, inbox, channelOpen, result>>
      /\ call'.command = call.command
  BY DEF Connect, ConnectFails, Accept, leaderVars, wireVars, requestVars, GroupInv, TypeOK
<1>3. call'.command.updates \in Updates BY <1>2 DEF TablesInv, UpdatesTyped
<1>4. \A v \in Workers : ToSend(at[0], call.peers, call.command.updates, v)
                       = ToSend(at'[0], call'.peers, call'.command.updates, v)
  <2>1. CASE Connect(w) \/ ConnectFails(w)
    <3>1. at'[0] = at[0] /\ call' = call
      BY <1>1, <2>1 DEF Connect, ConnectFails, Set, leaderVars
    <3> QED BY <3>1
  <2>2. CASE Accept(w)
    <3>1. at[0] = "accept" /\ at'[0] \in {"idle", "accept"}
      BY <1>1, <2>2 DEF Accept, Set
    <3> QED BY <3>1 DEF ToSend
  <2> QED BY <2>1, <2>2
<1>5. \A v \in Workers : /\ result'[v] # "none" => at'[v] = "reply"
                         /\ Follows(v)' => Follows(v)
  <2>1. \A v \in Workers : v # w => at'[v] = at[v]
    BY <1>1 DEF Connect, ConnectFails, Accept, Set
  <2>2. at[w] = "connect" \/ at'[w] = at[w]
    BY <1>1 DEF Connect, ConnectFails, Accept, Set
  <2> QED BY <1>2, <2>1, <2>2 DEF TablesInv, UpdatesTyped, Follows, Gone
<1> QED BY <1>2, <1>3, <1>4, <1>5, IdleTables

(* A step that ends on a rank, with a result or an error.                  *)
LEMMA EndsTables ==
  ASSUME GroupInv, TablesInv, NEW r \in Ranks, NEW v \in {"ok", "error"},
         Running(r), Ends(r, v)
  PROVE  TablesInv'
<1>1. /\ at \in [Ranks -> LeaderLines \cup WorkerLines] /\ 0 \in Ranks
      /\ result \in [Ranks -> {"none", "ok", "error"}]
      /\ Workers \subseteq Ranks /\ 0 \notin Workers /\ (r # 0 => r \in Workers)
  BY GroupRanks DEF GroupInv, TypeOK
<1>2. UNCHANGED <<pending, owns, inbox, channelOpen, call>>
  BY DEF Ends, leaderVars, wireVars, requestVars
<1>3. call'.command.updates \in Updates BY <1>2 DEF TablesInv, UpdatesTyped
<1>4. \A w \in Workers : ToSend(at[0], call.peers, call.command.updates, w)
                       = ToSend(at'[0], call'.peers, call'.command.updates, w)
  <2>1. at'[0] = at[0] \/ (at[0] # "send" /\ at'[0] # "send")
    BY <1>1 DEF Ends, Set, Running
  <2> QED BY <1>2, <2>1 DEF ToSend
<1>5. \A w \in Workers : /\ result'[w] # "none" => at'[w] = "reply"
                         /\ Follows(w)' => Follows(w)
  <2> SUFFICES ASSUME NEW w \in Workers
               PROVE  /\ result'[w] # "none" => at'[w] = "reply"
                      /\ Follows(w)' => Follows(w)
    OBVIOUS
  <2>0. result[w] # "none" => at[w] = "reply" BY DEF TablesInv, UpdatesTyped
  <2>1. CASE w = r
    <3>1. result[w] = "none" /\ ~Gone(w) BY <2>0, <2>1 DEF Running, Gone
    <3>2. at'[w] = "reply" BY <1>1, <2>1 DEF Ends, Set
    <3> QED BY <3>1, <3>2 DEF Follows
  <2>2. CASE w # r
    <3>1. at'[w] = at[w] /\ result'[w] = result[w] BY <1>1, <2>2 DEF Ends, Set
    <3> QED BY <2>0, <3>1 DEF Follows, Gone
  <2> QED BY <2>1, <2>2
<1> QED BY <1>2, <1>3, <1>4, <1>5, IdleTables

(* The collectives move no update.                                         *)
LEMMA CollectiveTables ==
  ASSUME GroupInv, TablesInv,
         CollectiveCompletes \/ \E r \in Ranks : EnterCollective(r)
  PROVE  TablesInv'
<1>1. /\ at \in [Ranks -> LeaderLines \cup WorkerLines] /\ 0 \in Ranks
      /\ Workers \subseteq Ranks /\ 0 \notin Workers
  BY GroupRanks DEF GroupInv, TypeOK
<1>2. UNCHANGED <<pending, owns, inbox, channelOpen, call, result>>
  BY DEF CollectiveCompletes, EnterCollective, leaderVars, wireVars, requestVars
<1>3. call'.command.updates \in Updates BY <1>2 DEF TablesInv, UpdatesTyped
<1>4. \A r \in Ranks : \/ at'[r] = at[r]
                       \/ at[r] \in {"before", "in"} /\ at'[r] \in {"in", "after"}
  BY <1>1 DEF CollectiveCompletes, EnterCollective, Set
<1>5. \A w \in Workers : ToSend(at[0], call.peers, call.command.updates, w)
                       = ToSend(at'[0], call'.peers, call'.command.updates, w)
  BY <1>1, <1>2, <1>4 DEF ToSend
<1>6. \A w \in Workers : /\ result'[w] # "none" => at'[w] = "reply"
                         /\ Follows(w)' => Follows(w)
  <2> SUFFICES ASSUME NEW w \in Workers
               PROVE  /\ result'[w] # "none" => at'[w] = "reply"
                      /\ Follows(w)' => Follows(w)
    OBVIOUS
  <2>1. result[w] # "none" => at[w] = "reply" BY DEF TablesInv, UpdatesTyped
  <2>2. w \in Ranks BY <1>1
  <2> QED BY <1>2, <1>4, <2>1, <2>2 DEF Follows, Gone
<1> QED BY <1>2, <1>3, <1>5, <1>6, IdleTables

(* Rank 0 reads a result, completes a call, or starts one with no update.  *)
LEMMA CallTables ==
  ASSUME GroupInv, TablesInv, Initialize \/ Collect \/ Completes
  PROVE  TablesInv'
<1>1. /\ at \in [Ranks -> LeaderLines \cup WorkerLines] /\ 0 \in Ranks
      /\ result \in [Ranks -> {"none", "ok", "error"}]
      /\ Workers \subseteq Ranks /\ 0 \notin Workers /\ << >> \in Updates
      /\ call = [command |-> call.command, peers |-> call.peers]
  BY GroupRanks DEF GroupInv, TypeOK, Updates
<1>2. UNCHANGED <<pending, owns, inbox, channelOpen>>
  BY DEF Initialize, Collect, Completes, Begin, wireVars, requestVars
<1>3. /\ at[0] # "send" /\ \A w \in Workers : at'[w] = at[w] /\ result'[w] = result[w]
      /\ \/ call'.command = call.command /\ at'[0] = at[0]
         \/ call' = NoCall /\ at'[0] = "idle"
         \/ call'.command.updates = << >>
  <2>1. CASE Initialize BY <1>1, <2>1 DEF Initialize, Begin, Command, Set
  <2>2. CASE Collect BY <1>1, <2>2 DEF Collect, Set
  <2>3. CASE Completes
    <3>1. at[0] = "collect" /\ \A w \in Workers : result'[w] = result[w]
      BY <1>1, <2>3 DEF Completes, Set
    <3>2. CASE call.command.kind = "update"
      BY <1>1, <2>3, <3>1, <3>2 DEF Completes, Begin, Command, Set
    <3>3. CASE call.command.kind # "update"
      BY <1>1, <2>3, <3>1, <3>3 DEF Completes, Set
    <3> QED BY <3>2, <3>3
  <2> QED BY <2>1, <2>2, <2>3
<1>4. call'.command.updates \in Updates
  BY <1>1, <1>3 DEF TablesInv, UpdatesTyped, NoCall, NoCommand
<1>5. \A w \in Workers : ToSend(at[0], call.peers, call.command.updates, w)
                       = ToSend(at'[0], call'.peers, call'.command.updates, w)
  BY <1>3 DEF ToSend
<1>6. \A w \in Workers : /\ result'[w] # "none" => at'[w] = "reply"
                         /\ Follows(w)' => Follows(w)
  BY <1>3 DEF TablesInv, UpdatesTyped, Follows, Gone
<1> QED BY <1>2, <1>4, <1>5, <1>6, IdleTables

(* What is pending becomes the command of a call, for every worker.        *)
LEMMA FlushTables ==
  ASSUME GroupInv, TablesInv, Execute \/ Shutdown
  PROVE  TablesInv'
<1>1. /\ at \in [Ranks -> LeaderLines \cup WorkerLines] /\ 0 \in Ranks
      /\ Workers \subseteq Ranks /\ 0 \notin Workers
  BY GroupRanks DEF GroupInv, TypeOK
<1>2. /\ UNCHANGED <<owns, inbox, channelOpen, result>>
      /\ pending' = << >> /\ at[0] = "idle" /\ at'[0] = "send"
      /\ \A w \in Workers : at'[w] = at[w]
      /\ call'.command.updates = pending /\ call'.peers = Workers
  <2>1. CASE Execute BY <1>1, <2>1 DEF Execute, Begin, Command, Set, wireVars
  <2>2. CASE Shutdown
    <3>1. CASE pending = << >>
      BY <1>1, <2>2, <3>1 DEF Shutdown, Begin, Command, Set, wireVars
    <3>2. CASE pending # << >>
      BY <1>1, <2>2, <3>2 DEF Shutdown, Begin, Command, Set, wireVars
    <3> QED BY <3>1, <3>2
  <2> QED BY <2>1, <2>2
<1>3. << >> \in Updates /\ pending \in Updates
  BY DEF Updates, TablesInv, UpdatesTyped
<1>4. UpdatesTyped' BY <1>2, <1>3 DEF TablesInv, UpdatesTyped
<1>5. TablesFollow'
  <2>1. \A w : Outstanding(w)' = Queued(w)'
    BY DEF Outstanding, Queued, Arriving, ToSend, Cat
  <2> SUFFICES ASSUME channelOpen', NEW w \in Workers, Follows(w)'
               PROVE  Leads(owns'[w], Behind(w)', owns'[0])
    BY DEF TablesFollow
  <2>2. inbox[w] = << >>
    BY <1>2 DEF GroupInv, InStep, Quiet, HasCommand
  <2>3. Follows(w) BY <1>2 DEF Follows, Gone
  <2>4. Leads(owns[w], Behind(w), owns[0])
    BY <1>2, <2>3 DEF TablesInv, TablesFollow
  <2>5. Arriving(inbox[w]) = << >> BY <2>2, ArrivingIs
  <2>6. Outstanding(w) = Cat(<< >>, << >>)
    <3>1. ToSend(at[0], call.peers, call.command.updates, w) = << >>
      BY <1>2 DEF ToSend
    <3> QED BY <2>5, <3>1, OutstandingIs DEF Queued
  <2>7. Outstanding(w)' = Cat(<< >>, pending)
    <3>1. ToSend(at'[0], call'.peers, call'.command.updates, w) = pending
      BY <1>2 DEF ToSend
    <3> QED BY <1>2, <2>1, <2>5, <3>1 DEF Queued
  <2>8. /\ Cat(<< >>, << >>) = << >> /\ Cat(<< >>, pending) = pending
        /\ Cat(pending, << >>) = pending
    BY <1>3, CatEmpty DEF Updates
  <2>9. Behind(w) = pending BY <2>6, <2>8 DEF Behind
  <2>10. Behind(w)' = pending BY <1>2, <2>7, <2>8 DEF Behind
  <2> QED BY <1>2, <2>4, <2>9, <2>10
<1> QED BY <1>4, <1>5 DEF TablesInv

(* Sending moves the updates of the call to the inbox of one worker.       *)
LEMMA SendTables ==
  ASSUME GroupInv, TablesInv, Send
  PROVE  TablesInv'
<1> DEFINE w == Min(call.peers)
           others == call.peers \ {w}
<1>1. /\ at \in [Ranks -> LeaderLines \cup WorkerLines] /\ 0 \in Ranks
      /\ result \in [Ranks -> {"none", "ok", "error"}]
      /\ Workers \subseteq Ranks /\ 0 \notin Workers /\ << >> \in Updates
      /\ call = [command |-> call.command, peers |-> call.peers]
      /\ call.peers \subseteq Workers /\ DOMAIN inbox = Workers
  BY GroupRanks DEF GroupInv, TypeOK, Updates
<1>2. at[0] = "send" /\ channelOpen BY DEF Send
<1>3. w \in call.peers /\ w \in Workers
  BY <1>1, <1>2, NextPeer DEF GroupInv, CallExact
<1>4. inbox[w] = << >> BY <1>2, <1>3 DEF GroupInv, InStep, Quiet, HasCommand
<1>5. /\ inbox' = [inbox EXCEPT ![w] = Append(@, call.command)]
      /\ call' = [call EXCEPT !.peers = IF others = {} THEN Workers ELSE others]
      /\ at' = Set(at, 0, IF others # {} THEN "send"
                          ELSE IF RunsModel(call.command) THEN "before"
                          ELSE "collect")
      /\ result' = Set(result, 0, IF others = {} /\ ~RunsModel(call.command)
                                    THEN "ok" ELSE "none")
      /\ UNCHANGED <<requestVars, channelOpen, owns>>
  BY DEF Send
<1> HIDE DEF w
<1>6. /\ inbox'[w] = <<call.command>>
      /\ \A v \in Workers : v # w => inbox'[v] = inbox[v]
  <2>1. inbox'[w] = Append(<< >>, call.command) BY <1>1, <1>3, <1>4, <1>5
  <2> QED BY <1>1, <1>5, <2>1, OneInSeq
<1>7. call'.command = call.command
      /\ \A v \in Workers : at'[v] = at[v] /\ result'[v] = result[v]
  BY <1>1, <1>5 DEF Set
<1>8. \/ others # {} /\ at'[0] = "send" /\ call'.peers = others
      \/ others = {} /\ at'[0] # "send"
  <2>1. CASE others # {} BY <1>1, <1>5, <2>1 DEF Set
  <2>2. CASE others = {}
    <3>1. at'[0] = IF RunsModel(call.command) THEN "before" ELSE "collect"
      BY <1>1, <1>5, <2>2 DEF Set
    <3> QED BY <2>2, <3>1
  <2> QED BY <2>1, <2>2
<1>9. call.command.updates \in Updates BY DEF TablesInv, UpdatesTyped
<1>10. UpdatesTyped'
  <2>1. \A v \in Workers : \A i \in DOMAIN inbox'[v] : inbox'[v][i].updates \in Updates
    <3> SUFFICES ASSUME NEW v \in Workers, NEW i \in DOMAIN inbox'[v]
                 PROVE  inbox'[v][i].updates \in Updates
      OBVIOUS
    <3>1. CASE v = w
      <4>1. i = 1 BY <1>6, <3>1
      <4> QED BY <1>6, <1>9, <3>1, <4>1
    <3>2. CASE v # w BY <1>6, <3>2 DEF TablesInv, UpdatesTyped
    <3> QED BY <3>1, <3>2
  <2> QED BY <1>5, <1>7, <1>9, <2>1 DEF requestVars, TablesInv, UpdatesTyped
<1>11. \A v \in Workers : Queued(v)' = Queued(v)
  <2> SUFFICES ASSUME NEW v \in Workers PROVE Queued(v)' = Queued(v) OBVIOUS
  <2> DEFINE us == call.command.updates
  <2>1. CASE v = w
    <3>1. Arriving(inbox[v]) = << >> /\ Arriving(inbox'[v]) = us
      BY <1>4, <1>6, <1>9, <2>1, ArrivingIs
    <3>2. ToSend(at[0], call.peers, us, v) = us BY <1>2, <1>3, <2>1 DEF ToSend
    <3>3. ToSend(at'[0], call'.peers, us, v) = << >> BY <1>8, <2>1 DEF ToSend
    <3>4. Cat(<< >>, us) = us /\ Cat(us, << >>) = us BY <1>9, CatEmpty DEF Updates
    <3> QED BY <1>7, <3>1, <3>2, <3>3, <3>4 DEF Queued
  <2>2. CASE v # w
    <3>1. ToSend(at'[0], call'.peers, us, v) = ToSend(at[0], call.peers, us, v)
      BY <1>2, <1>8, <2>2 DEF ToSend
    <3> QED BY <1>6, <1>7, <2>2, <3>1 DEF Queued
  <2> QED BY <2>1, <2>2
<1>12. TablesFollow'
  <2>1. \A v \in Workers : Follows(v)' => Follows(v) BY <1>7 DEF Follows, Gone
  <2> QED BY <1>2, <1>5, <1>11, <2>1, NothingMoves DEF requestVars, TablesInv
<1> QED BY <1>10, <1>12 DEF TablesInv

(* Updates of requests lead to a table of requests.                        *)
LEMMA UpdatedType ==
  ASSUME NEW s \in SUBSET Requests, NEW us \in Updates
  PROVE  Updated(s, us) \in SUBSET Requests
<1> DEFINE n == Len(us)
           f == Tables(s, us)
<1>1. n \in Nat BY DEF Updates
<1>2. \A i \in 1..n : us[i].request \in Requests
  <2>1. \A i \in 1..n : us[i] \in Update BY DEF Updates
  <2> QED BY <2>1 DEF Update
<1>3. f[0] = s /\ \A i \in 1..n : f[i] = After(f[i - 1], us[i]) BY TablesAre
<1>4. Updated(s, us) = f[n] BY DEF Updated
<1> HIDE DEF n, f
<1> DEFINE B == {i \in Nat : i \in 0..n => f[i] \in SUBSET Requests}
<1>5. 0 \in B BY <1>3
<1>6. ASSUME NEW i \in Nat, i \in B PROVE i + 1 \in B
  <2> SUFFICES ASSUME i + 1 \in 0..n PROVE f[i + 1] \in SUBSET Requests OBVIOUS
  <2>1. i \in 0..n /\ i + 1 \in 1..n /\ (i + 1) - 1 = i BY <1>1
  <2>2. f[i + 1] = After(f[i], us[i + 1]) BY <1>3, <2>1
  <2>3. f[i] \in SUBSET Requests BY <1>6, <2>1
  <2> QED BY <1>2, <2>1, <2>2, <2>3 DEF After
<1>7. \A i \in Nat : i \in B
  <2> HIDE DEF B
  <2> QED BY <1>5, <1>6, Induct
<1> QED BY <1>1, <1>4, <1>7

(* A worker that receives a command follows its updates, or fails.         *)
LEMMA ReceiveTables ==
  ASSUME GroupInv, TablesInv, NEW w \in Workers, Receive(w)
  PROVE  TablesInv'
<1> DEFINE c == inbox[w][1]
           us == c.updates
<1>1. /\ at \in [Ranks -> LeaderLines \cup WorkerLines] /\ 0 \in Ranks
      /\ result \in [Ranks -> {"none", "ok", "error"}]
      /\ Workers \subseteq Ranks /\ 0 \notin Workers /\ w \in Ranks /\ w # 0
      /\ DOMAIN inbox = Workers
  BY GroupRanks DEF GroupInv, TypeOK
<1>2. inbox[w] = <<c>> /\ at[w] = "receive"
  BY DEF GroupInv, OneCommand, Receive
<1>3. Head(inbox[w]) = c /\ Tail(inbox[w]) = << >> BY <1>2, OneInSeq
<1>4. us \in Updates
  <2>1. 1 \in DOMAIN <<c>> OBVIOUS
  <2>2. 1 \in DOMAIN inbox[w] BY <1>2, <2>1
  <2> QED BY <2>2 DEF TablesInv, UpdatesTyped
<1>5. owns \in [Ranks -> SUBSET Requests] /\ pending \in Updates
  BY DEF TablesInv, UpdatesTyped
<1> HIDE DEF c
<1>6. /\ owns' = [owns EXCEPT ![w] = Updated(@, us)]
      /\ at' = Set(at, w, IF RunsModel(c) /\ ~Refuses(owns[w], us) /\ c.batch \subseteq owns'[w]
                            THEN "before" ELSE "reply")
      /\ result' = Set(result, w, IF at'[w] = "before" THEN "none"
                                  ELSE IF Refuses(owns[w], us) \/ RunsModel(c) THEN "error"
                                  ELSE "ok")
      /\ inbox' = [inbox EXCEPT ![w] = << >>]
      /\ UNCHANGED <<requestVars, leaderVars>>
  BY <1>3 DEF Receive
<1>7. /\ owns'[w] = Updated(owns[w], us) /\ \A r \in Ranks : r # w => owns'[r] = owns[r]
      /\ inbox'[w] = << >> /\ \A v \in Workers : v # w => inbox'[v] = inbox[v]
      /\ \A r \in Ranks : r # w => at'[r] = at[r] /\ result'[r] = result[r]
      /\ UNCHANGED <<pending, call, channelOpen>>
  BY <1>1, <1>5, <1>6 DEF Set, requestVars, leaderVars
<1>8. /\ at'[w] \in {"before", "reply"}
      /\ result'[w] # "none" => at'[w] = "reply"
      /\ Refuses(owns[w], us) => result'[w] = "error"
  <2>1. at'[w] = IF RunsModel(c) /\ ~Refuses(owns[w], us) /\ c.batch \subseteq owns'[w]
                   THEN "before" ELSE "reply"
    BY <1>1, <1>6 DEF Set
  <2>2. result'[w] = IF at'[w] = "before" THEN "none"
                     ELSE IF Refuses(owns[w], us) \/ RunsModel(c) THEN "error" ELSE "ok"
    BY <1>1, <1>6 DEF Set
  <2> QED BY <2>1, <2>2
<1>9. result[w] = "none" BY <1>1, <1>2 DEF TablesInv, UpdatesTyped
<1>10. TablesFollow'
  <2>1. \A v : Outstanding(v)' = Queued(v)'
    BY DEF Outstanding, Queued, Arriving, ToSend, Cat
  <2>2. \A v : Outstanding(v) = Queued(v) BY OutstandingIs
  <2> SUFFICES ASSUME channelOpen', NEW v \in Workers, Follows(v)'
               PROVE  Leads(owns'[v], Behind(v)', owns'[0])
    BY DEF TablesFollow
  <2>3. CASE v # w
    <3>1. owns'[v] = owns[v] /\ owns'[0] = owns[0] /\ Queued(v)' = Queued(v)
      BY <1>1, <1>7, <2>3 DEF Queued
    <3>2. Follows(v) BY <1>1, <1>7, <2>3 DEF Follows, Gone
    <3>3. Behind(v)' = Behind(v) BY <1>7, <2>1, <2>2, <3>1 DEF Behind
    <3>4. Leads(owns[v], Behind(v), owns[0]) BY <1>7, <3>2 DEF TablesInv, TablesFollow
    <3> QED BY <3>1, <3>3, <3>4
  <2>4. CASE v = w
    <3> DEFINE x == ToSend(at[0], call.peers, call.command.updates, w)
               y == Cat(x, pending)
    <3>1. Follows(w) BY <1>2, <1>9 DEF Follows, Gone
    <3>2. Leads(owns[w], Behind(w), owns[0]) BY <1>7, <3>1 DEF TablesInv, TablesFollow
    <3>3. ~Refuses(owns[w], us) BY <1>8, <2>4 DEF Follows
    <3>4. x \in Updates BY ArrivingType DEF TablesInv
    <3>5. Outstanding(w) = Cat(us, x)
      <4>1. Arriving(inbox[w]) = us BY <1>2, <1>4, ArrivingIs
      <4> QED BY <2>2, <4>1 DEF Queued
    <3>6. Outstanding(w)' = Cat(<< >>, x)
      <4>1. Arriving(inbox'[w]) = << >> BY <1>7, ArrivingIs
      <4>2. ToSend(at'[0], call'.peers, call'.command.updates, w) = x
        BY <1>1, <1>7
      <4> QED BY <2>1, <4>1, <4>2 DEF Queued
    <3> HIDE DEF x
    <3>7. y \in Updates /\ Cat(<< >>, x) = x /\ Cat(Cat(us, x), pending) = Cat(us, y)
      <4>1. us \in Seq(Update) /\ x \in Seq(Update) /\ pending \in Seq(Update)
        BY <1>4, <1>5, <3>4 DEF Updates
      <4> HIDE DEF us
      <4>2. y \in Updates BY <4>1, CatType DEF Updates
      <4>3. Cat(<< >>, x) = x BY <4>1, CatEmpty
      <4>4. Cat(Cat(us, x), pending) = Cat(us, y) BY <4>1, CatAssociative
      <4> QED BY <4>2, <4>3, <4>4
    <3>8. Behind(w) = Cat(us, y) BY <3>5, <3>7 DEF Behind
    <3>9. Behind(w)' = y BY <1>7, <3>6, <3>7 DEF Behind
    <3> HIDE DEF y
    <3>10. Leads(Updated(owns[w], us), y, owns[0])
      BY <1>4, <3>2, <3>7, <3>8, LeadsOn
    <3>11. owns'[0] = owns[0] BY <1>1, <1>7
    <3> QED BY <1>7, <2>4, <3>9, <3>10, <3>11
  <2> QED BY <2>3, <2>4
<1>11. UpdatesTyped'
  <2>1. owns' \in [Ranks -> SUBSET Requests]
    <3>1. Updated(owns[w], us) \in SUBSET Requests BY <1>1, <1>4, <1>5, UpdatedType
    <3> QED BY <1>5, <1>6, <3>1
  <2>2. IsFiniteSet(owns'[0])
    <3>1. owns'[0] = owns[0] BY <1>1, <1>7
    <3> QED BY <3>1 DEF TablesInv, UpdatesTyped
  <2>3. \A v \in Workers : \A i \in DOMAIN inbox'[v] : inbox'[v][i].updates \in Updates
    BY <1>7 DEF TablesInv, UpdatesTyped
  <2>4. \A v \in Workers : result'[v] # "none" => at'[v] = "reply"
    BY <1>1, <1>7, <1>8 DEF TablesInv, UpdatesTyped
  <2> QED BY <1>7, <2>1, <2>2, <2>3, <2>4 DEF TablesInv, UpdatesTyped
<1> QED BY <1>10, <1>11 DEF TablesInv

(* A new request goes into the table of rank 0 and at the end of pending.  *)
LEMMA AddRequestTables ==
  ASSUME GroupInv, TablesInv, NEW r \in Requests, AddRequest(r)
  PROVE  TablesInv'
<1>1. 0 \in Ranks /\ 0 \notin Workers /\ Workers \subseteq Ranks BY GroupRanks
<1>2. owns \in [Ranks -> SUBSET Requests] /\ pending \in Updates /\ IsFiniteSet(owns[0])
  BY DEF TablesInv, UpdatesTyped
<1>3. /\ owns' = [owns EXCEPT ![0] = @ \union {r}] /\ pending' = Append(pending, Add(r))
      /\ r \notin owns[0]
      /\ UNCHANGED <<inbox, at, call, result, channelOpen>>
  BY DEF AddRequest, leaderVars, wireVars
<1>4. owns'[0] = owns[0] \union {r} /\ \A w \in Workers : owns'[w] = owns[w]
  BY <1>1, <1>2, <1>3
<1>5. Add(r) \in Update /\ Add(r).op = "add" /\ Add(r).request = r BY DEF Add, Update
<1>6. pending' = Cat(pending, <<Add(r)>>)
  BY <1>2, <1>3, <1>5, CatOne DEF Updates
<1>7. <<Add(r)>> \in Updates /\ pending' \in Updates
  BY <1>2, <1>3, <1>5 DEF Updates
<1>8. Leads(owns[0], <<Add(r)>>, owns'[0])
  <2>1. After(owns[0], Add(r)) = owns'[0] BY <1>4, <1>5 DEF After
  <2> QED BY <1>3, <1>5, <2>1, LeadsOne
<1>9. TablesFollow' BY <1>3, <1>4, <1>6, <1>7, <1>8, PendingGrows
<1>10. UpdatesTyped'
  <2>1. IsFiniteSet(owns'[0]) BY <1>2, <1>4, FS_AddElement
  <2>2. owns' \in [Ranks -> SUBSET Requests] BY <1>2, <1>3
  <2> QED BY <1>3, <1>7, <2>1, <2>2 DEF TablesInv, UpdatesTyped
<1> QED BY <1>9, <1>10 DEF TablesInv

(* Requests that rank 0 frees leave its table, and pending says so.        *)
LEMMA FreeTables ==
  ASSUME GroupInv, TablesInv, NEW rs \in SUBSET Requests, rs \subseteq owns[0],
         FreeLocal(rs), UNCHANGED <<inbox, at, call, result, channelOpen>>
  PROVE  TablesInv'
<1> DEFINE vs == SetToSeq({Free(r) : r \in rs})
<1>1. 0 \in Ranks /\ 0 \notin Workers /\ Workers \subseteq Ranks BY GroupRanks
<1>2. owns \in [Ranks -> SUBSET Requests] /\ pending \in Updates /\ IsFiniteSet(owns[0])
  BY DEF TablesInv, UpdatesTyped
<1>3. owns' = [owns EXCEPT ![0] = @ \ rs] /\ pending' = Cat(pending, vs)
  BY DEF FreeLocal, Cat
<1>4. owns'[0] = owns[0] \ rs /\ \A w \in Workers : owns'[w] = owns[w]
  BY <1>1, <1>2, <1>3
<1>5. IsFiniteSet(rs) BY <1>2, FS_Subset
<1>6. vs \in Updates /\ Leads(owns[0], vs, owns'[0]) BY <1>4, <1>5, LeadsFree
<1> HIDE DEF vs
<1>7. pending' \in Updates BY <1>2, <1>3, <1>6, CatType DEF Updates
<1>8. TablesFollow' BY <1>3, <1>4, <1>6, PendingGrows
<1>9. UpdatesTyped'
  <2>1. IsFiniteSet(owns'[0]) BY <1>2, <1>4, FS_Subset
  <2>2. owns' \in [Ranks -> SUBSET Requests] BY <1>2, <1>3
  <2> QED BY <1>7, <2>1, <2>2 DEF TablesInv, UpdatesTyped
<1> QED BY <1>8, <1>9 DEF TablesInv

(* A freed request leaves the table at once, or with the lease it is in;   *)
(* what a lease has kept leaves when it ends.                              *)
LEMMA FreeRequestTables ==
  ASSUME GroupInv, TablesInv, ReleaseLease \/ \E r \in Requests : FreeRequest(r)
  PROVE  TablesInv'
<1>1. active \subseteq owns[0] /\ deferred \subseteq owns[0] /\ deferred \subseteq Requests
  BY DEF GroupInv, LeaseHeld, TypeOK
<1>2. UNCHANGED <<inbox, at, call, result, channelOpen>>
  BY DEF ReleaseLease, FreeRequest, leaderVars, wireVars
<1>3. CASE ReleaseLease
  <2>1. FreeLocal(deferred) BY <1>3 DEF ReleaseLease
  <2> QED BY <1>1, <1>2, <2>1, FreeTables
<1>4. ASSUME NEW r \in Requests, FreeRequest(r) PROVE TablesInv'
  <2>1. {r} \subseteq owns[0] /\ {r} \in SUBSET Requests BY <1>1, <1>4 DEF FreeRequest
  <2>2. CASE FreeLocal({r}) BY <1>2, <2>1, <2>2, FreeTables
  <2>3. CASE UNCHANGED <<owns, pending>>
    <3>1. call'.command.updates \in Updates BY <1>2 DEF TablesInv, UpdatesTyped
    <3>2. \A w \in Workers : /\ result'[w] # "none" => at'[w] = "reply"
                             /\ Follows(w)' => Follows(w)
      BY <1>2 DEF TablesInv, UpdatesTyped, Follows, Gone
    <3> QED BY <1>2, <2>3, <3>1, <3>2, IdleTables
  <2> QED BY <1>4, <2>2, <2>3 DEF FreeRequest
<1> QED BY <1>3, <1>4

(* A worker that leaves has nothing more to follow.                        *)
LEMMA LeaveTables ==
  ASSUME GroupInv, TablesInv, NEW w \in Workers, NEW how \in {"ended", "crashed"},
         Leave(w, how), UNCHANGED <<requestVars, leaderVars>>
  PROVE  TablesInv'
<1>1. /\ at \in [Ranks -> LeaderLines \cup WorkerLines] /\ 0 \in Ranks
      /\ result \in [Ranks -> {"none", "ok", "error"}]
      /\ Workers \subseteq Ranks /\ 0 \notin Workers /\ w \in Ranks /\ w # 0
      /\ DOMAIN inbox = Workers
  BY GroupRanks DEF GroupInv, TypeOK
<1>2. owns \in [Ranks -> SUBSET Requests] BY DEF TablesInv, UpdatesTyped
<1>3. /\ at'[w] = how /\ result'[w] = "none" /\ inbox'[w] = << >> /\ owns'[w] = {}
      /\ \A r \in Ranks : r # w => /\ at'[r] = at[r] /\ result'[r] = result[r]
                                   /\ owns'[r] = owns[r]
      /\ \A v \in Workers : v # w => inbox'[v] = inbox[v]
      /\ UNCHANGED <<pending, call, channelOpen>>
  BY <1>1, <1>2 DEF Leave, Set, requestVars, leaderVars
<1>4. UpdatesTyped'
  <2>1. owns' \in [Ranks -> SUBSET Requests] BY <1>1, <1>2 DEF Leave, Set
  <2>2. IsFiniteSet(owns'[0])
    <3>1. owns'[0] = owns[0] BY <1>1, <1>3
    <3> QED BY <3>1 DEF TablesInv, UpdatesTyped
  <2>3. \A v \in Workers : \A i \in DOMAIN inbox'[v] : inbox'[v][i].updates \in Updates
    BY <1>3 DEF TablesInv, UpdatesTyped
  <2>4. \A v \in Workers : result'[v] # "none" => at'[v] = "reply"
    BY <1>1, <1>3 DEF TablesInv, UpdatesTyped
  <2> QED BY <1>3, <2>1, <2>2, <2>3, <2>4 DEF TablesInv, UpdatesTyped
<1>5. TablesFollow'
  <2>1. \A v \in Workers : Follows(v)' => /\ Follows(v) /\ owns'[v] = owns[v]
                                          /\ Queued(v)' = Queued(v)
    <3> SUFFICES ASSUME NEW v \in Workers, Follows(v)'
                 PROVE  Follows(v) /\ owns'[v] = owns[v] /\ Queued(v)' = Queued(v)
      OBVIOUS
    <3>1. v # w BY <1>3 DEF Follows, Gone
    <3> QED BY <1>1, <1>3, <3>1 DEF Follows, Gone, Queued
  <2>2. owns'[0] = owns[0] BY <1>1, <1>3
  <2> QED BY <1>3, <2>1, <2>2, NothingMoves DEF TablesInv
<1> QED BY <1>4, <1>5 DEF TablesInv

(* A worker that replies goes on, or leaves with its error.                *)
LEMMA ReplyTables ==
  ASSUME GroupInv, TablesInv, NEW w \in Workers, Reply(w)
  PROVE  TablesInv'
<1>1. /\ at \in [Ranks -> LeaderLines \cup WorkerLines] /\ 0 \in Ranks
      /\ result \in [Ranks -> {"none", "ok", "error"}]
      /\ Workers \subseteq Ranks /\ 0 \notin Workers /\ w \in Ranks /\ w # 0
  BY GroupRanks DEF GroupInv, TypeOK
<1>2. CASE result[w] = "error" \/ current[w].kind = "shutdown"
  <2>1. Leave(w, "ended") /\ UNCHANGED <<requestVars, leaderVars>>
    BY <1>2 DEF Reply
  <2> QED BY <2>1, LeaveTables
<1>3. CASE ~(result[w] = "error" \/ current[w].kind = "shutdown")
  <2>1. /\ UNCHANGED <<pending, owns, inbox, channelOpen, call>>
        /\ at' = Set(at, w, "receive") /\ result' = Set(result, w, "none")
        /\ at[w] = "reply"
    BY <1>3 DEF Reply, requestVars, leaderVars
  <2>2. /\ at'[w] = "receive" /\ result'[w] = "none"
        /\ \A r \in Ranks : r # w => at'[r] = at[r] /\ result'[r] = result[r]
    BY <1>1, <2>1 DEF Set
  <2>3. call'.command.updates \in Updates BY <2>1 DEF TablesInv, UpdatesTyped
  <2>4. \A v \in Workers : ToSend(at[0], call.peers, call.command.updates, v)
                         = ToSend(at'[0], call'.peers, call'.command.updates, v)
    BY <1>1, <2>1, <2>2
  <2>5. \A v \in Workers : /\ result'[v] # "none" => at'[v] = "reply"
                           /\ Follows(v)' => Follows(v)
    <3> SUFFICES ASSUME NEW v \in Workers
                 PROVE  /\ result'[v] # "none" => at'[v] = "reply"
                        /\ Follows(v)' => Follows(v)
      OBVIOUS
    <3>1. CASE v = w BY <1>3, <2>1, <2>2, <3>1 DEF Follows, Gone
    <3>2. CASE v # w
      <4>1. at'[v] = at[v] /\ result'[v] = result[v] BY <1>1, <2>2, <3>2
      <4> QED BY <4>1 DEF TablesInv, UpdatesTyped, Follows, Gone
    <3> QED BY <3>1, <3>2
  <2> QED BY <2>1, <2>3, <2>4, <2>5, IdleTables
<1> QED BY <1>2, <1>3

(* A channel that closes has no more to agree on.                          *)
LEMMA CloseTables ==
  ASSUME GroupInv, TablesInv, Abort \/ LeaderCrash
  PROVE  TablesInv'
<1>1. /\ at \in [Ranks -> LeaderLines \cup WorkerLines] /\ 0 \in Ranks
      /\ result \in [Ranks -> {"none", "ok", "error"}]
      /\ Workers \subseteq Ranks /\ 0 \notin Workers /\ << >> \in Updates
  BY GroupRanks DEF GroupInv, TypeOK, Updates
<1>2. owns \in [Ranks -> SUBSET Requests] /\ pending \in Updates /\ IsFiniteSet(owns[0])
  BY DEF TablesInv, UpdatesTyped
<1>3. /\ ~channelOpen' /\ call' = NoCall /\ UNCHANGED inbox
      /\ \A w \in Workers : at'[w] = at[w] /\ result'[w] = result[w]
      /\ pending' \in {pending, << >>}
      /\ owns' = owns \/ owns' = [owns EXCEPT ![0] = {}]
  BY <1>1 DEF Abort, LeaderCrash, Set
<1>4. owns' \in [Ranks -> SUBSET Requests] /\ owns'[0] \in {owns[0], {}}
  BY <1>1, <1>2, <1>3
<1>5. IsFiniteSet(owns'[0]) BY <1>2, <1>4, FS_EmptySet
<1>6. UpdatesTyped'
  <2>1. call'.command.updates \in Updates BY <1>1, <1>3 DEF NoCall, NoCommand
  <2>2. pending' \in Updates BY <1>1, <1>2, <1>3
  <2> QED BY <1>3, <1>4, <1>5, <2>1, <2>2 DEF TablesInv, UpdatesTyped
<1> QED BY <1>3, <1>6 DEF TablesInv, TablesFollow

(* At the start nobody holds a request and no update is on its way.        *)
LEMMA InitTables == Init => TablesInv
<1> SUFFICES ASSUME Init PROVE TablesInv OBVIOUS
<1>1. 0 \in Ranks /\ 0 \notin Workers /\ Workers \subseteq Ranks /\ << >> \in Updates
  BY GroupRanks DEF Updates
<1>2. /\ pending = << >> /\ at[0] = "accept"
      /\ \A w \in Workers : inbox[w] = << >> /\ result[w] = "none"
      /\ call.command.updates = << >> /\ owns = [r \in Ranks |-> {}]
  BY <1>1 DEF Init, NoCall, NoCommand
<1>3. UpdatesTyped
  <2>1. IsFiniteSet(owns[0]) BY <1>1, <1>2, FS_EmptySet
  <2> QED BY <1>1, <1>2, <2>1 DEF UpdatesTyped
<1>4. ASSUME NEW w \in Workers PROVE Leads(owns[w], Behind(w), owns[0])
  <2>1. Arriving(inbox[w]) = << >> BY <1>2, ArrivingIs
  <2>2. ToSend(at[0], call.peers, call.command.updates, w) = << >> BY <1>2 DEF ToSend
  <2>3. Cat(<< >>, << >>) = << >> BY <1>1, CatEmpty DEF Updates
  <2>4. Behind(w) = << >> BY <1>2, <2>1, <2>2, <2>3, OutstandingIs DEF Queued, Behind
  <2>5. owns[w] = {} /\ owns[0] = {} BY <1>1, <1>2
  <2> QED BY <2>4, <2>5, LeadsNowhere
<1> QED BY <1>3, <1>4 DEF TablesInv, TablesFollow

(* Every step of the group keeps the tables in agreement.                  *)
LEMMA NextTables ==
  ASSUME GroupInv, TablesInv, [Next]_vars
  PROVE  TablesInv'
<1>1. ASSUME NEW r \in Requests, AddRequest(r) \/ FreeRequest(r) PROVE TablesInv'
  BY <1>1, AddRequestTables, FreeRequestTables
<1>2. ASSUME NEW batch \in SUBSET Requests, Acquire(batch) PROVE TablesInv'
  BY <1>2, AcquireTables
<1>3. CASE Initialize \/ Collect \/ Completes BY <1>3, CallTables
<1>4. CASE Execute \/ Shutdown BY <1>4, FlushTables
<1>5. CASE ReleaseLease BY <1>5, FreeRequestTables
<1>6. CASE Send BY <1>6, SendTables
<1>7. CASE AcceptFails \/ SendFails \/ CollectFails \/ Invalid \/ LeaderCrash
  <2>1. Abort \/ LeaderCrash BY <1>7 DEF AcceptFails, SendFails, CollectFails, Invalid
  <2> QED BY <2>1, CloseTables
<1>8. CASE CollectiveCompletes BY <1>8, CollectiveTables
<1>9. ASSUME NEW r \in Ranks,
             EnterCollective(r) \/ StepRaises(r) \/ CollectiveFails(r) \/ StepReturns(r)
      PROVE  TablesInv'
  <2>1. CASE EnterCollective(r) BY <2>1, CollectiveTables
  <2>2. CASE StepRaises(r) \/ CollectiveFails(r) \/ StepReturns(r)
    <3>1. Running(r) /\ (Ends(r, "error") \/ Ends(r, "ok"))
      BY <2>2 DEF StepRaises, CollectiveFails, StepReturns, Running
    <3> QED BY <3>1, EndsTables
  <2> QED BY <1>9, <2>1, <2>2
<1>10. ASSUME NEW w \in Workers, Connect(w) \/ ConnectFails(w) \/ Accept(w) PROVE TablesInv'
  BY <1>10, ConnectTables
<1>11. ASSUME NEW w \in Workers, Receive(w) \/ Reply(w) PROVE TablesInv'
  BY <1>11, ReceiveTables, ReplyTables
<1>12. ASSUME NEW w \in Workers,
              ReplyFails(w) \/ PeerExited(w) \/ ReceiveTimesOut(w) \/ WorkerCrash(w)
       PROVE  TablesInv'
  <2>1. /\ Leave(w, "ended") \/ Leave(w, "crashed")
        /\ UNCHANGED <<requestVars, leaderVars>>
    BY <1>12 DEF ReplyFails, PeerExited, ReceiveTimesOut, WorkerCrash
  <2> QED BY <2>1, LeaveTables
<1>13. CASE UNCHANGED vars
  <2>1. UNCHANGED <<pending, owns, inbox, channelOpen, call, at, result>>
    BY <1>13 DEF vars, requestVars, leaderVars, wireVars
  <2>2. call'.command.updates \in Updates BY <2>1 DEF TablesInv, UpdatesTyped
  <2>3. \A w \in Workers : /\ result'[w] # "none" => at'[w] = "reply"
                           /\ Follows(w)' => Follows(w)
    BY <2>1 DEF TablesInv, UpdatesTyped, Follows, Gone
  <2> QED BY <2>1, <2>2, <2>3, IdleTables
<1> QED
  BY <1>1, <1>2, <1>3, <1>4, <1>5, <1>6, <1>7, <1>8, <1>9, <1>10, <1>11, <1>12, <1>13
  DEF Next

(* While the channel is open, what a worker that has not failed holds is,  *)
(* after the updates on their way to it and those pending, what rank 0     *)
(* holds, and it refuses none of them: no registration is lost, doubled or *)
(* out of order (_apply_request_updates, free_request, _release_lease).    *)
THEOREM TablesStayEqual == Spec => []TablesAgree
<1>1. Init => GroupInv /\ TablesInv BY InitGroup, InitTables
<1>2. GroupInv /\ TablesInv /\ [Next]_vars => (GroupInv /\ TablesInv)'
  BY NextGroup, NextTables
<1>3. TablesInv => TablesAgree
  <2>1. \A w : Behind(w) = Outstanding(w) \o pending BY DEF Behind, Cat
  <2> SUFFICES ASSUME TablesInv, channelOpen, NEW w \in Workers,
                      ~Gone(w) /\ result[w] # "error"
               PROVE  /\ ~Refuses(owns[w], Outstanding(w) \o pending)
                      /\ Updated(owns[w], Outstanding(w) \o pending) = owns[0]
    BY DEF TablesAgree
  <2>2. Leads(owns[w], Behind(w), owns[0]) BY DEF TablesInv, TablesFollow, Follows
  <2> QED BY <2>1, <2>2 DEF Leads
<1> QED BY <1>1, <1>2, <1>3, PTL DEF Spec

=============================================================================
