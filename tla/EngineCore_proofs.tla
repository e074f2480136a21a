-------------------------- MODULE EngineCore_proofs --------------------------
(***************************************************************************)
(* Proofs about EngineCore, for any set of requests and any lengths: who   *)
(* owns a request, its KV blocks and its place in the step in flight       *)
(* agrees between Engine, Scheduler and Executor, in every interleaving of *)
(* clients, the driver and close().                                        *)
(***************************************************************************)
EXTENDS EngineCore, SequenceTheorems, TLAPS

(* The inductive invariant, first part: types.                             *)
Typed ==
  /\ client \in [Requests -> {"new", "refused", "open", "leaving", "gone"}]
  /\ read \in [Requests -> Nat]
  /\ live \subseteq Requests /\ known \subseteq Requests
  /\ generated \in [Requests -> 0 .. MaxNew]
  /\ pending \in [Requests -> Int]
  /\ recorded \in [Requests -> Nat]
  /\ driver \in {"none", "advance", "settled", "prepared", "executing",
                 "executed", "failing", "exiting"}
  /\ closing \in {"open", "closing", "closed"}
  /\ result.kind \in {"none", "output", "error"}

(* Who has what: what the Scheduler keeps for a request that has left is   *)
(* part of the step in flight, and its removal has been put off.           *)
Owners ==
  /\ active = live
  /\ live \subseteq known
  /\ executing = InFlight
  /\ InFlight \subseteq known
  /\ known \ live \subseteq InFlight
  /\ removals = known \ live

(* There is a step in flight from its planning to its settling.            *)
Phases ==
  /\ driver \in {"none", "settled", "failing", "exiting"} => InFlight = {}
  /\ driver = "executed" => result.kind # "none"
  /\ driver = "advance" /\ result.kind = "none" => InFlight = {}
  /\ driver \notin {"executed", "advance"} => result.kind = "none"

(* When the engine is closing nobody is left, and when it has closed the   *)
(* driver has ended, which it only does when the Scheduler knows nobody.   *)
Closing ==
  /\ closing # "open" => live = {}
  /\ driver = "none" => known = {}
  /\ closing = "closed" => driver = "none"

(* A request the engine has not seen, or refused, is nowhere.              *)
Unseen ==
  \A r \in Requests :
    client[r] \in {"new", "refused"} => r \notin known /\ generated[r] = 0

(* The step in flight is a plan the Scheduler may make and a result the    *)
(* Executor may give for it; a request whose blocks the Scheduler keeps    *)
(* has something left to compute, a live one something left to generate.   *)
Progress ==
  /\ \A r \in InFlight : batch[r] \in Work(r)
  /\ result.kind = "output" => \A r \in InFlight : result.of[r] \in Outputs(r)
  /\ \A r \in known : pending[r] > 0 /\ pending[r] <= PromptLen + generated[r]
  /\ \A r \in live : generated[r] < MaxNew

OwnerInv == Typed /\ Owners /\ Phases /\ Closing /\ Unseen /\ Progress

----------------------------------------------------------------------------

(* A new engine has no requests, so its owners agree.                      *)
LEMMA InitOwner == Init => OwnerInv
  BY BoundAssumption
  DEF Init, OwnerInv, Typed, Owners, Phases, Closing, Unseen, Progress, InFlight,
      NoBatch

(* What a request gets to see of a result leaves it something to compute   *)
(* unless it ends it.                                                      *)
LEMMA VisibleLeavesWork ==
  ASSUME NEW r \in InFlight, NEW o \in Outputs(r),
         batch[r] \in Work(r),
         pending[r] \in Nat, generated[r] \in Nat, generated[r] < MaxNew
  PROVE  LET v == Visible(r, o.tokens, o.eos)
             left == pending[r] - batch[r].tokens + v - AtMost(o.cached, v)
         IN  /\ v \in Nat /\ generated[r] + v <= MaxNew
             /\ left \in Int /\ left <= pending[r] + v
             /\ Reason(r, v, o.eos) = "none" => left > 0 /\ generated[r] + v < MaxNew
  BY BoundAssumption DEF Visible, Reason, AtMost, Outputs, Work

(* _register makes a request known to all three owners at once.            *)
LEMMA RegisterOwner ==
  ASSUME OwnerInv, NEW r \in Requests, Register(r) PROVE OwnerInv'
  BY SMTT(40), BoundAssumption
  DEF Register, OwnerInv, Typed, Owners, Phases, Closing, Unseen, Progress, InFlight,
      Unlocked, Work, Outputs

(* _remove_request_locked keeps the owners in agreement, whoever calls it. *)
LEMMA RemoveOwners ==
  ASSUME OwnerInv, NEW S \in SUBSET live, Remove(S),
         executing' = executing, batch' = batch
  PROVE  /\ Owners'
         /\ live' \subseteq live /\ known' \subseteq known
         /\ recorded' \in [Requests -> Nat]
         /\ InFlight = {} /\ S = live => known' = {}
  <1>1. InFlight' = InFlight  BY DEF InFlight
  <1>2. /\ active' = live' /\ executing' = InFlight'
        /\ live' \subseteq known' /\ InFlight' \subseteq known'
    BY <1>1 DEF Remove, OwnerInv, Owners
  <1>3. known' \ live' \subseteq InFlight' /\ removals' = known' \ live'
    BY <1>1 DEF Remove, OwnerInv, Owners
  <1>4. recorded' \in [Requests -> Nat]
    BY DEF Remove, OwnerInv, Typed
  <1>. QED  BY <1>2, <1>3, <1>4 DEF Remove, OwnerInv, Owners

(* _cancel, of a request in flight or not, keeps the owners in agreement.  *)
LEMMA CancelOwner ==
  ASSUME OwnerInv, NEW r \in Requests, Cancel(r) PROVE OwnerInv'
  <1>1. Remove({r} \cap live) /\ UNCHANGED <<executing, batch, result, driver,
          closing, generated, pending, read>>
    BY DEF Cancel, step
  <1>2. /\ Owners' /\ live' \subseteq live /\ known' \subseteq known
        /\ recorded' \in [Requests -> Nat]
    BY <1>1, RemoveOwners
  <1>3. /\ client' = [client EXCEPT ![r] = "gone"]
        /\ driver # "none" => driver' # "none"
        /\ InFlight' = InFlight
    BY <1>1 DEF Cancel, InFlight
  <1>4. Typed' /\ Unseen'  BY <1>1, <1>2, <1>3 DEF OwnerInv, Typed, Unseen
  <1>5. Phases' /\ Closing'
    BY <1>1, <1>2, <1>3 DEF OwnerInv, Phases, Closing
  <1>6. Progress'
    BY <1>1, <1>2, <1>3 DEF OwnerInv, Progress, Work, Outputs
  <1>. QED  BY <1>2, <1>4, <1>5, <1>6 DEF OwnerInv

(* What consumers do between register and cancel touches no owner.         *)
LEMMA ClientOwner ==
  ASSUME OwnerInv, NEW r \in Requests,
         Refuse(r) \/ Consume(r) \/ Abandon(r)
  PROVE  OwnerInv'
  <1>1. /\ client' \in [Requests -> {"new", "refused", "open", "leaving", "gone"}]
        /\ \A q \in Requests : client'[q] \in {"new", "refused"} =>
                                 client[q] \in {"new", "refused"}
        /\ read' \in [Requests -> Nat]
    <2>1. CASE Refuse(r)  BY <2>1 DEF OwnerInv, Typed, Refuse
    <2>2. CASE Consume(r)  BY <2>2 DEF OwnerInv, Typed, Consume
    <2>3. CASE Abandon(r)  BY <2>3 DEF OwnerInv, Typed, Abandon
    <2>. QED  BY <2>1, <2>2, <2>3
  <1>2. UNCHANGED <<engine, step, closing, recorded>>
    BY DEF Refuse, Consume, Abandon
  <1>3. InFlight' = InFlight  BY <1>2 DEF InFlight, step
  <1>4. Typed'  BY <1>1, <1>2 DEF OwnerInv, Typed, engine, step
  <1>5. Owners' /\ Phases' /\ Closing'
    BY <1>2, <1>3 DEF OwnerInv, Owners, Phases, Closing, engine, step
  <1>6. Unseen'  BY <1>1, <1>2 DEF OwnerInv, Unseen, engine
  <1>7. Progress'
    BY <1>2, <1>3 DEF OwnerInv, Progress, Work, Outputs, engine, step
  <1>. QED  BY <1>4, <1>5, <1>6, <1>7 DEF OwnerInv

(* Leaving with a failure: close() and _fail_all_locked.                   *)
LEMMA CloseOwner == ASSUME OwnerInv, Close PROVE OwnerInv'
  <1>1. Remove(live) /\ closing' = "closing"
        /\ UNCHANGED <<executing, batch, result, driver, client, generated, pending, read>>
    BY DEF Close, step
  <1>2. Owners' /\ live' \subseteq live /\ known' \subseteq known
        /\ recorded' \in [Requests -> Nat]
    BY <1>1, RemoveOwners
  <1>3. live' = {} /\ InFlight' = InFlight
    BY <1>1 DEF Remove, InFlight
  <1>. QED
    BY <1>1, <1>2, <1>3
    DEF OwnerInv, Typed, Phases, Closing, Unseen, Progress, Work, Outputs, Close

(* _fail_all_locked leaves nobody live, and nothing is in flight then.     *)
LEMMA FailAllOwner == ASSUME OwnerInv, FailAll PROVE OwnerInv'
  <1>1. Remove(live) /\ driver = "failing" /\ driver' = "exiting"
        /\ UNCHANGED <<executing, batch, result, closing, client, generated, pending, read>>
    BY DEF FailAll
  <1>2. Owners' /\ live' \subseteq live /\ known' \subseteq known
        /\ recorded' \in [Requests -> Nat]
    BY <1>1, RemoveOwners
  <1>3. live' = {} /\ InFlight' = InFlight /\ InFlight = {}
    BY <1>1 DEF Remove, InFlight, OwnerInv, Phases
  <1>. QED
    BY <1>1, <1>2, <1>3
    DEF OwnerInv, Typed, Phases, Closing, Unseen, Progress, Work, Outputs

(* Planning a step marks exactly its requests as executing.                *)
LEMMA PrepareOwner == ASSUME OwnerInv, Prepare PROVE OwnerInv'
  <1>1. PICK S \in (SUBSET known) \ {{}} :
          \E plan \in [S -> UNION { Work(r) : r \in S }] :
            /\ \A r \in S : plan[r] \in Work(r)
            /\ batch' = plan
            /\ executing' = executing \cup S
    BY DEF Prepare
  <1>2. InFlight' = S /\ S \subseteq known /\ \A r \in S : batch'[r] \in Work(r)
    BY <1>1 DEF InFlight
  <1>3. driver = "settled" /\ driver' = "prepared"
        /\ UNCHANGED <<client, read, live, generated, pending, known, active, removals,
                       result, closing, recorded>>
    BY DEF Prepare, streams
  <1>4. InFlight = {} /\ executing' = S
    BY <1>1, <1>3 DEF OwnerInv, Owners, Phases
  <1>5. Owners'
    BY <1>2, <1>3, <1>4 DEF OwnerInv, Owners
  <1>6. Progress'
    BY <1>2, <1>3, <1>4 DEF OwnerInv, Progress, Work, Phases
  <1>. QED
    BY <1>2, <1>3, <1>5, <1>6
    DEF OwnerInv, Typed, Phases, Closing, Unseen

(* Settling a result: those who left during the step leave the Scheduler,  *)
(* those who are done leave altogether, the others have work left.         *)
LEMMA ApplyOutputOwner ==
  ASSUME OwnerInv, Settle, result.kind = "output" PROVE OwnerInv'
  <1> DEFINE v(r) == Visible(r, result.of[r].tokens, result.of[r].eos)
             w(r) == Reason(r, v(r), result.of[r].eos)
             done == { r \in Staying : w(r) # "none" }
             c(r) == AtMost(result.of[r].cached, v(r))
  <1>1. /\ driver = "advance" /\ driver' = "settled"
        /\ InFlight' = {} /\ result'.kind = "none"
        /\ UNCHANGED <<client, read, closing>>
    BY DEF Settle, InFlight, NoBatch
  <1>2. ApplyOutput  BY DEF Settle
  <1>3. /\ generated' = [r \in Requests |->
             generated[r] + (IF r \in Staying THEN v(r) ELSE 0)]
        /\ pending' = [r \in Requests |->
             IF r \in Staying
             THEN pending[r] - batch[r].tokens + v(r) - c(r) ELSE pending[r]]
        /\ executing' = executing \ InFlight
        /\ removals' = removals \ InFlight
        /\ known' = DropOverdue(InFlight) \ done
        /\ live' = live \ done
        /\ active' = active \ done
        /\ recorded' = [r \in Requests |->
                          recorded[r] + (IF r \in done THEN 1 ELSE 0)]
    BY <1>2 DEF ApplyOutput
  <1>4. Owners' /\ known' = live'
    BY <1>1, <1>3 DEF OwnerInv, Owners, DropOverdue, Staying
  <1>5. \A r \in Staying :
          /\ v(r) \in Nat /\ generated[r] + v(r) <= MaxNew
          /\ pending[r] - batch[r].tokens + v(r) - c(r) \in Int
          /\ pending[r] - batch[r].tokens + v(r) - c(r) <= pending[r] + v(r)
          /\ w(r) = "none" => /\ pending[r] - batch[r].tokens + v(r) - c(r) > 0
                              /\ generated[r] + v(r) < MaxNew
    <2> SUFFICES ASSUME NEW r \in Staying
        PROVE  /\ v(r) \in Nat /\ generated[r] + v(r) <= MaxNew
               /\ pending[r] - batch[r].tokens + v(r) - c(r) \in Int
               /\ pending[r] - batch[r].tokens + v(r) - c(r) <= pending[r] + v(r)
               /\ w(r) = "none" => /\ pending[r] - batch[r].tokens + v(r) - c(r) > 0
                                   /\ generated[r] + v(r) < MaxNew
      OBVIOUS
    <2>1. /\ r \in InFlight /\ r \in known /\ r \in live /\ r \in Requests
          /\ batch[r] \in Work(r) /\ result.of[r] \in Outputs(r)
          /\ pending[r] \in Nat /\ generated[r] \in Nat /\ generated[r] < MaxNew
      BY BoundAssumption DEF OwnerInv, Typed, Owners, Progress, Staying
    <2>. QED  BY <2>1, VisibleLeavesWork
  <1>6. Typed'
    BY <1>1, <1>3, <1>4, <1>5, BoundAssumption DEF OwnerInv, Typed, Owners, Staying
  <1>7. Phases' /\ Closing'
    BY <1>1, <1>3 DEF OwnerInv, Phases, Closing
  <1>8. Unseen'
    BY <1>1, <1>3, <1>4 DEF OwnerInv, Unseen, Owners, Staying
  <1>9. Progress'
    BY <1>1, <1>3, <1>4, <1>5, BoundAssumption
    DEF OwnerInv, Progress, Typed, Owners, Staying
  <1>. QED  BY <1>4, <1>6, <1>7, <1>8, <1>9 DEF OwnerInv

(* _fail_batch_locked removes everybody in the step from all owners.       *)
LEMMA FailBatchOwner ==
  ASSUME OwnerInv, Settle, result.kind = "error" PROVE OwnerInv'
  <1>1. /\ driver = "advance" /\ driver' = "settled"
        /\ InFlight' = {} /\ result'.kind = "none"
        /\ UNCHANGED <<client, read, closing>>
    BY DEF Settle, InFlight, NoBatch
  <1>2. FailBatch  BY DEF Settle
  <1>3. Owners' /\ known' \subseteq known /\ live' \subseteq live
    BY <1>1, <1>2 DEF FailBatch, OwnerInv, Owners, DropOverdue, Staying
  <1>4. /\ recorded' \in [Requests -> Nat]
        /\ UNCHANGED <<generated, pending>>
    BY <1>2 DEF FailBatch, OwnerInv, Typed
  <1>. QED
    BY <1>1, <1>3, <1>4
    DEF OwnerInv, Typed, Phases, Closing, Unseen, Progress

(* Whatever became of a step, settling it leaves the owners in agreement.  *)
LEMMA SettleOwner == ASSUME OwnerInv, Settle PROVE OwnerInv'
  <1>1. CASE result.kind = "none"
    <2>1. /\ driver = "advance" /\ driver' = "settled"
          /\ InFlight = {} /\ InFlight' = {} /\ result'.kind = "none"
          /\ UNCHANGED <<client, read, closing, engine, recorded>>
      BY <1>1 DEF Settle, InFlight, NoBatch, OwnerInv, Phases
    <2>. QED
      BY <2>1
      DEF OwnerInv, Typed, Owners, Phases, Closing, Unseen, Progress, engine
  <1>. QED
    BY <1>1, ApplyOutputOwner, FailBatchOwner DEF OwnerInv, Typed

(* Between planning and settling only the driver's place and the result    *)
(* change.                                                                 *)
LEMMA ExecuteOwner ==
  ASSUME OwnerInv, BeginExecute \/ EndExecute \/ ExecuteRaises \/ ReleaseLease
  PROVE  OwnerInv'
  <1>1. /\ UNCHANGED <<streams, engine, batch, closing, recorded>>
        /\ InFlight' = InFlight
    BY DEF BeginExecute, EndExecute, ExecuteRaises, ReleaseLease, InFlight
  <1>2. /\ driver' \in {"executing", "executed", "advance"}
        /\ driver \in {"prepared", "executing", "executed"}
        /\ result'.kind \in {"none", "output", "error"}
        /\ driver' \in {"executed", "advance"} => result'.kind # "none"
        /\ driver' = "executing" => result'.kind = "none"
        /\ result'.kind = "output" =>
             \A r \in InFlight : result'.of[r] \in Outputs(r)
    <2>1. CASE BeginExecute
      BY <2>1 DEF BeginExecute, OwnerInv, Phases, Typed
    <2>2. CASE EndExecute
      BY <2>2 DEF EndExecute
    <2>3. CASE ExecuteRaises
      BY <2>3 DEF ExecuteRaises
    <2>4. CASE ReleaseLease
      BY <2>4 DEF ReleaseLease, OwnerInv, Phases, Typed, Progress
    <2>. QED  BY <2>1, <2>2, <2>3, <2>4
  <1>3. Typed'  BY <1>1, <1>2 DEF OwnerInv, Typed, streams, engine
  <1>4. Owners' /\ Phases' /\ Closing' /\ Unseen'
    BY <1>1, <1>2
    DEF OwnerInv, Owners, Phases, Closing, Unseen, streams, engine
  <1>5. Progress'
    BY <1>1, <1>2 DEF OwnerInv, Progress, Work, Outputs, streams, engine
  <1>. QED  BY <1>3, <1>4, <1>5 DEF OwnerInv

(* A lease that fails to be released ends the step, and drops who left.    *)
LEMMA ReleaseRaisesOwner == ASSUME OwnerInv, ReleaseRaises PROVE OwnerInv'
  <1>1. /\ driver' = "failing" /\ InFlight' = {} /\ result'.kind = "none"
        /\ executing' = executing \ InFlight
        /\ removals' = removals \ InFlight
        /\ known' = known \ (InFlight \cap removals)
        /\ driver = "executed"
        /\ UNCHANGED <<client, read, live, generated, pending, active, closing, recorded>>
    BY DEF ReleaseRaises, InFlight, NoBatch, DropOverdue, streams
  <1>2. Owners' /\ known' \subseteq known
    BY <1>1 DEF OwnerInv, Owners
  <1>. QED
    BY <1>1, <1>2
    DEF OwnerInv, Typed, Phases, Closing, Unseen, Progress

(* The driver ends its turn; it ends for good only when nobody is left.    *)
LEMMA DriverOwner ==
  ASSUME OwnerInv, ScheduleRaises \/ NothingToDo \/ Exit PROVE OwnerInv'
  <1>1. /\ UNCHANGED <<streams, engine, batch, result, closing, recorded>>
        /\ InFlight' = InFlight /\ InFlight = {}
        /\ driver' \in {"failing", "exiting", "advance", "none"}
        /\ driver \in {"settled", "exiting"}
        /\ driver' = "none" => known = {} \/ closing # "open"
    BY DEF ScheduleRaises, NothingToDo, Exit, InFlight, OwnerInv, Phases
  <1>2. known = live  BY <1>1 DEF OwnerInv, Owners
  <1>3. Typed' /\ Owners' /\ Unseen'
    BY <1>1 DEF OwnerInv, Typed, Owners, Unseen, streams, engine
  <1>4. Phases' /\ Closing'
    BY <1>1, <1>2 DEF OwnerInv, Phases, Closing, engine
  <1>5. Progress'
    BY <1>1 DEF OwnerInv, Progress, Phases, streams, engine
  <1>. QED  BY <1>3, <1>4, <1>5 DEF OwnerInv

(* close() returns only after the driver, which found nobody left.         *)
LEMMA CloseEndsOwner == ASSUME OwnerInv, CloseEnds PROVE OwnerInv'
  <1>1. /\ UNCHANGED <<streams, engine, step, recorded>>
        /\ InFlight' = InFlight
        /\ closing = "closing" /\ closing' = "closed" /\ driver = "none"
    BY DEF CloseEnds, InFlight, step
  <1>2. Typed' /\ Owners' /\ Unseen' /\ Phases' /\ Closing'
    BY <1>1
    DEF OwnerInv, Typed, Owners, Unseen, Phases, Closing, streams, engine, step
  <1>3. Progress'
    BY <1>1 DEF OwnerInv, Progress, Work, Outputs, streams, engine, step
  <1>. QED  BY <1>2, <1>3 DEF OwnerInv

(* The invariant speaks of the module's variables only.                    *)
LEMMA StutterOwner == ASSUME OwnerInv, UNCHANGED vars PROVE OwnerInv'
  BY DEF vars, streams, engine, step, OwnerInv, Typed, Owners, Phases, Closing,
         Unseen, Progress, InFlight, Work, Outputs

(* In every reachable state the owners of a request agree.                 *)
THEOREM OwnerInvariant == Spec => []OwnerInv
  <1>1. OwnerInv /\ [Next]_vars => OwnerInv'
    BY RegisterOwner, ClientOwner, CancelOwner, SettleOwner, PrepareOwner,
       DriverOwner, ExecuteOwner, ReleaseRaisesOwner, FailAllOwner, CloseOwner,
       CloseEndsOwner, StutterOwner
    DEF Next
  <1>. QED  BY InitOwner, <1>1, PTL DEF Spec

(* The Scheduler gives away no block the Executor may still write to.      *)
THEOREM BlocksAreHeldInFlight == Spec => []BlocksHeldInFlight
  <1>1. OwnerInv => BlocksHeldInFlight
    BY DEF OwnerInv, Owners, BlocksHeldInFlight
  <1>. QED  BY <1>1, OwnerInvariant, PTL

(* Engine, Scheduler and Executor agree on who is there.                   *)
THEOREM OwnersDoAgree == Spec => []OwnersAgree
  <1>1. OwnerInv => OwnersAgree
    BY DEF OwnerInv, Owners, OwnersAgree
  <1>. QED  BY <1>1, OwnerInvariant, PTL

(* While there are requests there is a driver that will see them.          *)
THEOREM DriverIsPresent == Spec => []DriverPresent
  <1>1. OwnerInv => DriverPresent
    BY DEF OwnerInv, Closing, DriverPresent
  <1>. QED  BY <1>1, OwnerInvariant, PTL

(* A closed engine holds nothing and runs nothing.                         *)
THEOREM ClosedMeansQuiet == Spec => []ClosedIsQuiet
  <1>1. OwnerInv => ClosedIsQuiet
    BY DEF OwnerInv, Owners, Closing, Phases, ClosedIsQuiet
  <1>. QED  BY <1>1, OwnerInvariant, PTL

----------------------------------------------------------------------------
(* What a client reads.                                                    *)

Events == { Token(i) : i \in Nat } \cup {Finished("eos"), Finished("length"), Failed}

(* The first generated[r] events of a stream are its tokens.               *)
Counted(r) == \A i \in 1 .. generated[r] : events[r][i] = Token(i - 1)

Unended(r) ==
  /\ Len(events[r]) = generated[r] /\ Counted(r)
  /\ generated[r] < MaxNew

Ended(r) ==
  /\ Len(events[r]) = generated[r] + 1 /\ Counted(r)
  /\ events[r][generated[r] + 1] \in {Finished("eos"), Finished("length"), Failed}
  /\ events[r][generated[r] + 1] = Finished("length") => generated[r] = MaxNew

StreamOK(r) ==
  /\ events[r] \in Seq(Events)
  /\ read[r] <= Len(events[r])
  /\ Unended(r) \/ (Ended(r) /\ r \notin live)
  /\ client[r] = "open" => r \in live \/ Ended(r)
  /\ client[r] \in {"new", "refused"} => r \notin live /\ events[r] = << >>
  /\ recorded[r] = IF r \in live \/ client[r] \in {"new", "refused"} THEN 0 ELSE 1

StreamInv == \A r \in Requests : StreamOK(r)

(* A stream that has no events yet is well formed.                         *)
LEMMA InitStream == Init => StreamInv
  BY BoundAssumption
  DEF Init, StreamInv, StreamOK, Unended, Counted, Events

(* Nothing happens to r, or its consumer reads on, or gives up.            *)
LEMMA QuietStream ==
  ASSUME NEW r \in Requests, Typed, StreamOK(r),
         UNCHANGED <<events[r], generated[r], recorded[r]>>,
         read'[r] \in Nat, read'[r] <= Len(events[r]),
         r \in live' <=> r \in live,
         \/ client'[r] = client[r]
         \/ client[r] = "open" /\ client'[r] = "leaving"
         \/ client[r] = "leaving" /\ client'[r] = "gone"
         \/ client[r] = "new" /\ client'[r] = "refused"
  PROVE  StreamOK(r)'
  BY DEF StreamOK, Unended, Ended, Counted, Typed

(* r leaves and is told so.                                                *)
LEMMA FailedStream ==
  ASSUME NEW r \in Requests, Typed, Unseen, Progress, Owners,
         StreamOK(r), r \in live, r \notin live',
         events'[r] = Append(events[r], Failed),
         generated'[r] = generated[r], read'[r] = read[r],
         client'[r] = client[r],
         recorded'[r] = recorded[r] + 1
  PROVE  StreamOK(r)'
  <1>1. events[r] \in Seq(Events) /\ Failed \in Events
    BY DEF StreamOK, Events
  <1>2. /\ events'[r] \in Seq(Events)
        /\ Len(events'[r]) = Len(events[r]) + 1
        /\ \A i \in 1 .. Len(events[r]) : events'[r][i] = events[r][i]
        /\ events'[r][Len(events[r]) + 1] = Failed
    BY <1>1
  <1>3. Unended(r)  BY DEF StreamOK
  <1>4. Ended(r)'
    BY <1>2, <1>3, BoundAssumption
    DEF Ended, Unended, Counted, Typed, Failed, Finished
  <1>. QED  BY <1>2, <1>4, BoundAssumption DEF StreamOK, Typed

(* s has the elements of a, then those of b, then those of c.              *)
InARow(E, a, b, c, s) ==
  /\ s \in Seq(E)
  /\ Len(s) = Len(a) + Len(b) + Len(c)
  /\ \A i \in 1 .. Len(a) : s[i] = a[i]
  /\ \A i \in 1 .. Len(b) : s[Len(a) + i] = b[i]
  /\ \A i \in 1 .. Len(c) : s[Len(a) + Len(b) + i] = c[i]

(* What the three parts of a concatenation are, place by place.            *)
LEMMA ThreeInARow ==
  ASSUME NEW E, NEW a \in Seq(E), NEW b \in Seq(E), NEW c \in Seq(E)
  PROVE  InARow(E, a, b, c, (a \o b) \o c)
  <1>1. /\ a \o b \in Seq(E) /\ Len(a \o b) = Len(a) + Len(b)
        /\ Len(a) \in Nat /\ Len(b) \in Nat /\ Len(c) \in Nat
        /\ \A i \in 1 .. Len(a) + Len(b) :
             (a \o b)[i] = IF i <= Len(a) THEN a[i] ELSE b[i - Len(a)]
    BY ConcatProperties
  <1> DEFINE ab == a \o b
  <1>2. /\ ab \o c \in Seq(E) /\ Len(ab \o c) = Len(ab) + Len(c)
        /\ \A i \in 1 .. Len(ab) + Len(c) :
             (ab \o c)[i] = IF i <= Len(ab) THEN ab[i] ELSE c[i - Len(ab)]
    BY <1>1, ConcatProperties
  <1>3. /\ ab \in Seq(E) /\ Len(ab) = Len(a) + Len(b)
        /\ \A i \in 1 .. Len(a) + Len(b) :
             ab[i] = IF i <= Len(a) THEN a[i] ELSE b[i - Len(a)]
    BY <1>1
  <1> HIDE DEF ab
  <1>4. \A i \in 1 .. Len(a) : (ab \o c)[i] = a[i]
    BY <1>1, <1>2, <1>3
  <1>5. \A i \in 1 .. Len(b) : (ab \o c)[Len(a) + i] = b[i]
    <2> TAKE i \in 1 .. Len(b)
    <2>1. /\ Len(a) + i \in 1 .. Len(a) + Len(b) /\ ~(Len(a) + i <= Len(a))
          /\ Len(a) + i <= Len(ab) /\ (Len(a) + i) - Len(a) = i
          /\ Len(a) + i \in 1 .. Len(ab) + Len(c)
      BY <1>1, <1>3
    <2>. QED  BY <2>1, <1>2, <1>3
  <1>6. \A i \in 1 .. Len(c) : (ab \o c)[Len(a) + Len(b) + i] = c[i]
    <2> TAKE i \in 1 .. Len(c)
    <2>1. /\ Len(a) + Len(b) + i \in 1 .. Len(ab) + Len(c)
          /\ ~(Len(a) + Len(b) + i <= Len(ab))
          /\ (Len(a) + Len(b) + i) - Len(ab) = i
      BY <1>1, <1>3
    <2>. QED  BY <2>1, <1>2
  <1>7. ab \o c \in Seq(E) /\ Len(ab \o c) = Len(a) + Len(b) + Len(c)
    BY <1>2, <1>3
  <1>. QED  BY <1>4, <1>5, <1>6, <1>7 DEF ab, InARow

(* The stream s is its first k tokens and `last`.                          *)
TokensThen(k, last, s) ==
  /\ s \in Seq(Events)
  /\ Len(s) = k + Len(last)
  /\ \A i \in 1 .. k : s[i] = Token(i - 1)
  /\ \A i \in 1 .. Len(last) : s[k + i] = last[i]

(* A stream of g tokens, n more of them, and the end of the stream.        *)
LEMMA TokensAppended ==
  ASSUME NEW g \in Nat, NEW n \in Nat,
         NEW old \in Seq(Events), Len(old) = g,
         \A i \in 1 .. g : old[i] = Token(i - 1),
         NEW last \in Seq(Events)
  PROVE  TokensThen(g + n, last,
                    old \o [i \in 1 .. n |-> Token(g + i - 1)] \o last)
  <1> DEFINE new == [i \in 1 .. n |-> Token(g + i - 1)]
             all == (old \o new) \o last
  <1>1. /\ new \in Seq(Events) /\ Len(new) = n
        /\ \A i \in 1 .. n : new[i] = Token(g + i - 1)
    <2>1. \A i \in 1 .. n : Token(g + i - 1) \in Events
      BY DEF Events
    <2>. QED  BY <2>1
  <1> HIDE DEF new
  <1>2. /\ all \in Seq(Events) /\ Len(all) = g + n + Len(last)
        /\ \A i \in 1 .. g : all[i] = Token(i - 1)
        /\ \A i \in 1 .. n : all[g + i] = Token(g + i - 1)
        /\ \A i \in 1 .. Len(last) : all[g + n + i] = last[i]
    <2>1. InARow(Events, old, new, last, all)
      BY <1>1, ThreeInARow
    <2> HIDE DEF all
    <2>. QED  BY <1>1, <2>1 DEF InARow
  <1> HIDE DEF all
  <1>3. ASSUME NEW i \in 1 .. g + n  PROVE all[i] = Token(i - 1)
    <2>1. CASE i <= g  BY <1>2, <2>1
    <2>2. CASE ~(i <= g)
      <3>1. i - g \in 1 .. n /\ g + (i - g) = i  BY <2>2
      <3>2. all[g + (i - g)] = Token(g + (i - g) - 1)  BY <1>2, <3>1
      <3>. QED  BY <3>1, <3>2
    <2>. QED  BY <2>1, <2>2
  <1>4. TokensThen(g + n, last, all)  BY <1>2, <1>3 DEF TokensThen
  <1>. QED  BY <1>4 DEF all, new

(* r gets n more tokens, and is finished unless the reason is "none".      *)
LEMMA TokensStream ==
  ASSUME NEW r \in Requests, Typed, StreamOK(r), r \in live,
         NEW n \in Nat, generated[r] + n <= MaxNew,
         NEW reason \in {"none", "eos", "length"},
         reason = "length" => generated[r] + n = MaxNew,
         reason = "none" => generated[r] + n < MaxNew,
         r \in live' <=> reason = "none",
         events'[r] \in Seq(Events),
         Len(events'[r]) = generated[r] + n + (IF reason # "none" THEN 1 ELSE 0),
         \A i \in 1 .. generated[r] + n : events'[r][i] = Token(i - 1),
         reason # "none" => events'[r][generated[r] + n + 1] = Finished(reason),
         generated'[r] = generated[r] + n,
         read'[r] = read[r], client'[r] = client[r],
         recorded'[r] = recorded[r] + (IF reason # "none" THEN 1 ELSE 0)
  PROVE  StreamOK(r)'
  <1>1. /\ generated[r] \in Nat /\ MaxNew \in Nat /\ read[r] \in Nat
        /\ read[r] <= generated[r]
        /\ client[r] \notin {"new", "refused"} /\ recorded[r] = 0
    BY BoundAssumption DEF Typed, StreamOK, Unended
  <1>2. CASE reason = "none"
    <2>1. Unended(r)'  BY <1>1, <1>2 DEF Unended, Counted
    <2>. QED  BY <1>1, <1>2, <2>1 DEF StreamOK
  <1>3. CASE reason # "none"
    <2>1. Counted(r)' /\ Len(events'[r]) = generated'[r] + 1
      BY <1>1, <1>3 DEF Counted
    <2>2. events'[r][generated'[r] + 1] = Finished(reason)  BY <1>3
    <2>3. Finished(reason) = Finished("length") => reason = "length"
      BY DEF Finished
    <2>4. Ended(r)'
      BY <1>1, <1>3, <2>1, <2>2, <2>3 DEF Ended
    <2>. QED  BY <1>1, <1>3, <2>1, <2>4 DEF StreamOK
  <1>. QED  BY <1>2, <1>3

(* _register starts a stream with no event and no outcome.                 *)
LEMMA RegisterStream ==
  ASSUME OwnerInv, StreamInv, NEW q \in Requests, Register(q), NEW r \in Requests
  PROVE  StreamOK(r)'
  <1>1. Typed /\ Unseen /\ StreamOK(r)  BY DEF OwnerInv, StreamInv
  <1>2. /\ UNCHANGED <<events, read, generated, recorded>>
        /\ client[q] = "new" /\ client' = [client EXCEPT ![q] = "open"]
        /\ live' = live \cup {q}
    BY DEF Register
  <1>3. CASE q = r
    <2>1. /\ client'[r] = "open" /\ r \in live' /\ generated[r] = 0
          /\ events[r] = << >> /\ recorded[r] = 0
      BY <1>1, <1>2, <1>3 DEF StreamOK, Unseen, Typed
    <2>2. events[r] \in Seq(Events) /\ read[r] <= Len(events[r])
      BY <1>1 DEF StreamOK
    <2>3. Unended(r)'
      BY <1>2, <2>1, BoundAssumption DEF Unended, Counted
    <2>. QED
      BY <1>2, <2>1, <2>2, <2>3 DEF StreamOK
  <1>4. CASE q # r
    BY <1>1, <1>2, <1>4, QuietStream DEF StreamOK, Typed
  <1>. QED  BY <1>3, <1>4

(* Reading on, giving up or being refused leaves the events as they are.   *)
LEMMA ClientStream ==
  ASSUME OwnerInv, StreamInv, NEW q \in Requests,
         Refuse(q) \/ Consume(q) \/ Abandon(q), NEW r \in Requests
  PROVE  StreamOK(r)'
  <1>1. Typed /\ StreamOK(r)  BY DEF OwnerInv, StreamInv
  <1>2. UNCHANGED <<events, engine, recorded>>
    BY DEF Refuse, Consume, Abandon
  <1>3. UNCHANGED <<events[r], generated[r], recorded[r]>> /\ live' = live
    BY <1>2 DEF engine
  <1>4. \/ client'[r] = client[r]
        \/ client[r] = "open" /\ client'[r] = "leaving"
        \/ client[r] = "new" /\ client'[r] = "refused"
    BY <1>1 DEF Refuse, Consume, Abandon, Typed
  <1>5. read'[r] \in Nat /\ read'[r] <= Len(events[r])
    <2>1. Len(events[r]) \in Nat  BY <1>1 DEF StreamOK
    <2>2. CASE read' = read
      BY <1>1, <2>1, <2>2 DEF Typed, StreamOK
    <2>3. CASE Consume(q)
      <3>1. /\ read' = [read EXCEPT ![q] = read[q] + 1]
            /\ read[q] < Len(events[q])
        BY <2>3 DEF Consume
      <3>. QED  BY <1>1, <2>1, <3>1 DEF Typed, StreamOK
    <2>. QED  BY <2>2, <2>3 DEF Refuse, Abandon
  <1>. QED  BY <1>1, <1>3, <1>4, <1>5, QuietStream

(* _cancel records an outcome for a live request, and for no other.        *)
LEMMA CancelStream ==
  ASSUME OwnerInv, StreamInv, NEW q \in Requests, Cancel(q), NEW r \in Requests
  PROVE  StreamOK(r)'
  <1>1. Typed /\ StreamOK(r)  BY DEF OwnerInv, StreamInv
  <1>2. /\ UNCHANGED <<events, read, generated>>
        /\ client[q] = "leaving" /\ client' = [client EXCEPT ![q] = "gone"]
        /\ Remove({q} \cap live)
    BY DEF Cancel
  <1>3. CASE q = r /\ r \in live
    <2>1. r \notin live' /\ recorded'[r] = recorded[r] + 1 /\ client'[r] = "gone"
      BY <1>1, <1>2, <1>3 DEF Remove, Typed
    <2>. QED  BY <1>1, <1>2, <1>3, <2>1 DEF StreamOK, Unended, Counted, Typed
  <1>4. CASE ~(q = r /\ r \in live)
    <2>1. /\ r \in live' <=> r \in live
          /\ recorded'[r] = recorded[r]
      BY <1>1, <1>2, <1>4 DEF Remove, Typed
    <2>2. client'[r] = client[r] \/ (client[r] = "leaving" /\ client'[r] = "gone")
      BY <1>1, <1>2 DEF Typed
    <2>. QED  BY <1>1, <1>2, <2>1, <2>2, QuietStream DEF StreamOK, Typed
  <1>. QED  BY <1>3, <1>4

(* The streams of S \subseteq live end with a failure, when the engine is  *)
(* closed, when it gives up, and when a step fails.                        *)
LEMMA FailStreams ==
  ASSUME OwnerInv, StreamInv, NEW S \in SUBSET live, NEW r \in Requests,
         Publish(S, Failed), live' = live \ S,
         recorded' = [q \in Requests |-> recorded[q] + (IF q \in S THEN 1 ELSE 0)],
         UNCHANGED <<client, read, generated>>
  PROVE  StreamOK(r)'
  <1>1. /\ Typed /\ Unseen /\ Progress /\ Owners /\ StreamOK(r)
        /\ recorded[r] \in Nat
    BY DEF OwnerInv, StreamInv, Typed
  <1>2. CASE r \in S
    BY <1>1, <1>2, FailedStream DEF Publish
  <1>3. CASE r \notin S
    <2>1. /\ UNCHANGED <<events[r], generated[r], recorded[r]>>
          /\ client'[r] = client[r] /\ read'[r] = read[r]
          /\ r \in live' <=> r \in live
      BY <1>1, <1>3 DEF Publish, Typed
    <2>2. read'[r] \in Nat /\ read'[r] <= Len(events[r])
      BY <1>1, <2>1 DEF StreamOK, Typed
    <2>. QED  BY <1>1, <2>1, <2>2, QuietStream
  <1>. QED  BY <1>2, <1>3

(* _apply_output_locked appends the next tokens and perhaps the end.       *)
LEMMA ApplyOutputStream ==
  ASSUME OwnerInv, StreamInv, Settle, result.kind = "output", NEW r \in Requests
  PROVE  StreamOK(r)'
  <1> DEFINE v(q) == Visible(q, result.of[q].tokens, result.of[q].eos)
             w(q) == Reason(q, v(q), result.of[q].eos)
             done == { q \in Staying : w(q) # "none" }
             last == IF r \in done THEN <<Finished(w(r))>> ELSE << >>
  <1>1. Typed /\ StreamOK(r) /\ recorded[r] \in Nat
    BY DEF OwnerInv, StreamInv, Typed
  <1>2. ApplyOutput /\ UNCHANGED <<client, read>>
    BY DEF Settle
  <1>3. /\ events'[r] =
             IF r \notin Staying THEN events[r]
             ELSE events[r] \o [i \in 1 .. v(r) |-> Token(generated[r] + i - 1)] \o last
        /\ generated'[r] = generated[r] + (IF r \in Staying THEN v(r) ELSE 0)
        /\ live' = live \ done
        /\ recorded'[r] = recorded[r] + (IF r \in done THEN 1 ELSE 0)
    BY <1>2 DEF ApplyOutput
  <1>4. CASE r \notin Staying
    <2>1. generated'[r] = generated[r] /\ recorded'[r] = recorded[r]
          /\ events'[r] = events[r] /\ (r \in live' <=> r \in live)
      BY <1>1, <1>3, <1>4 DEF Typed
    <2>. QED  BY <1>1, <1>2, <2>1, QuietStream DEF StreamOK, Typed
  <1>5. CASE r \in Staying
    <2>1. /\ r \in InFlight /\ r \in live
          /\ batch[r] \in Work(r) /\ result.of[r] \in Outputs(r)
          /\ pending[r] \in Nat /\ generated[r] \in Nat /\ generated[r] < MaxNew
      BY <1>5, BoundAssumption DEF OwnerInv, Typed, Owners, Progress, Staying
    <2>2. /\ v(r) \in Nat /\ generated[r] + v(r) <= MaxNew
          /\ w(r) = "none" => generated[r] + v(r) < MaxNew
      BY <2>1, VisibleLeavesWork
    <2>3. /\ w(r) \in {"none", "eos", "length"}
          /\ w(r) = "length" => generated[r] + v(r) = MaxNew
      BY DEF Reason
    <2>4. /\ events[r] \in Seq(Events) /\ Len(events[r]) = generated[r]
          /\ \A i \in 1 .. generated[r] : events[r][i] = Token(i - 1)
      BY <1>1, <2>1 DEF StreamOK, Unended, Counted
    <2>5. /\ last \in Seq(Events)
          /\ w(r) = "none" => Len(last) = 0
          /\ w(r) # "none" => Len(last) = 1 /\ last[1] = Finished(w(r))
      <3>1. CASE w(r) = "none"  BY <3>1
      <3>2. CASE w(r) # "none"
        <4>1. last = <<Finished(w(r))>>  BY <1>5, <3>2
        <4>2. Finished(w(r)) \in Events  BY <2>3, <3>2 DEF Events
        <4>. QED  BY <3>2, <4>1, <4>2
      <3>. QED  BY <3>1, <3>2
    <2>6. /\ r \in live' <=> w(r) = "none"
          /\ generated'[r] = generated[r] + v(r)
          /\ recorded'[r] = recorded[r] + (IF w(r) # "none" THEN 1 ELSE 0)
          /\ events'[r] = events[r]
               \o [i \in 1 .. v(r) |-> Token(generated[r] + i - 1)] \o last
      BY <1>3, <1>5, <2>1
    <2> HIDE DEF v, w, last
    <2>7. TokensThen(generated[r] + v(r), last, events'[r])
      BY <2>1, <2>2, <2>4, <2>5, <2>6, TokensAppended
    <2>8. /\ events'[r] \in Seq(Events)
          /\ Len(events'[r]) = generated[r] + v(r) + Len(last)
          /\ \A i \in 1 .. generated[r] + v(r) : events'[r][i] = Token(i - 1)
          /\ \A i \in 1 .. Len(last) : events'[r][generated[r] + v(r) + i] = last[i]
      BY <2>7 DEF TokensThen
    <2>9. /\ Len(events'[r]) = generated[r] + v(r) + (IF w(r) # "none" THEN 1 ELSE 0)
          /\ w(r) # "none" =>
               events'[r][generated[r] + v(r) + 1] = Finished(w(r))
      BY <2>1, <2>2, <2>5, <2>8
    <2>10. read'[r] = read[r] /\ client'[r] = client[r]  BY <1>2
    <2>11. generated[r] + v(r) <= MaxNew
           /\ (w(r) = "none" => generated[r] + v(r) < MaxNew)
           /\ v(r) \in Nat /\ w(r) \in {"none", "eos", "length"}
           /\ (w(r) = "length" => generated[r] + v(r) = MaxNew)
      BY <2>2, <2>3
    <2>12. ASSUME NEW n \in Nat, n = v(r),
                  NEW reason \in {"none", "eos", "length"}, reason = w(r)
           PROVE  StreamOK(r)'
      <3>1. /\ generated[r] + n <= MaxNew
            /\ reason = "length" => generated[r] + n = MaxNew
            /\ reason = "none" => generated[r] + n < MaxNew
            /\ r \in live' <=> reason = "none"
        BY <2>6, <2>11, <2>12
      <3>2. /\ events'[r] \in Seq(Events)
            /\ Len(events'[r]) =
                 generated[r] + n + (IF reason # "none" THEN 1 ELSE 0)
            /\ \A i \in 1 .. generated[r] + n : events'[r][i] = Token(i - 1)
            /\ reason # "none" =>
                 events'[r][generated[r] + n + 1] = Finished(reason)
        BY <2>8, <2>9, <2>12
      <3>3. /\ generated'[r] = generated[r] + n
            /\ recorded'[r] = recorded[r] + (IF reason # "none" THEN 1 ELSE 0)
        BY <2>6, <2>12
      <3>. QED  BY <1>1, <2>1, <2>10, <3>1, <3>2, <3>3, TokensStream
    <2>. QED  BY <2>11, <2>12
  <1>. QED  BY <1>4, <1>5

(* Whatever became of a step, settling it leaves the streams well formed.  *)
LEMMA SettleStream ==
  ASSUME OwnerInv, StreamInv, Settle, NEW r \in Requests PROVE StreamOK(r)'
  <1>1. Typed /\ Owners /\ StreamOK(r)  BY DEF OwnerInv, StreamInv
  <1>2. UNCHANGED <<client, read>>  BY DEF Settle
  <1>3. CASE result.kind = "none"
    <2>1. UNCHANGED <<events, engine, recorded>>  BY <1>3 DEF Settle
    <2>. QED
      BY <1>1, <1>2, <2>1, QuietStream DEF engine, StreamOK, Typed
  <1>4. CASE result.kind = "error"
    <2>1. FailBatch  BY <1>4 DEF Settle
    <2>. QED  BY <1>2, <2>1, FailStreams DEF FailBatch, Staying
  <1>. QED  BY <1>1, <1>3, <1>4, ApplyOutputStream DEF Typed

(* The steps that have nothing to do with any stream.                      *)
LEMMA OtherStream ==
  ASSUME OwnerInv, StreamInv, UNCHANGED <<streams, live, generated, recorded>>,
         NEW r \in Requests
  PROVE  StreamOK(r)'
  BY QuietStream DEF OwnerInv, StreamInv, StreamOK, Typed, streams

(* Every step of the engine leaves every stream well formed.               *)
LEMMA StreamStep ==
  ASSUME OwnerInv, StreamInv, [Next]_vars PROVE StreamInv'
  <1> SUFFICES ASSUME NEW r \in Requests  PROVE StreamOK(r)'
    BY DEF StreamInv
  <1>1. CASE \E q \in Requests : Register(q)
    BY <1>1, RegisterStream
  <1>2. CASE \E q \in Requests : Refuse(q) \/ Consume(q) \/ Abandon(q)
    BY <1>2, ClientStream
  <1>3. CASE \E q \in Requests : Cancel(q)
    BY <1>3, CancelStream
  <1>4. CASE Settle  BY <1>4, SettleStream
  <1>5. CASE Close \/ FailAll
    <2>1. /\ live' = live \ live
          /\ recorded' = [q \in Requests |-> recorded[q] + (IF q \in live THEN 1 ELSE 0)]
          /\ Publish(live, Failed) /\ UNCHANGED <<client, read, generated>>
      BY <1>5 DEF Close, FailAll, Remove
    <2>. QED  BY <2>1, FailStreams
  <1>6. CASE Prepare \/ ScheduleRaises \/ NothingToDo \/ BeginExecute \/ EndExecute
             \/ ExecuteRaises \/ ReleaseLease \/ ReleaseRaises \/ Exit \/ CloseEnds
    <2>1. UNCHANGED <<streams, live, generated, recorded>>
      BY <1>6 DEF Prepare, ScheduleRaises, NothingToDo, BeginExecute, EndExecute,
                  ExecuteRaises, ReleaseLease, ReleaseRaises, Exit, CloseEnds, engine
    <2>. QED  BY <2>1, OtherStream
  <1>7. CASE UNCHANGED vars
    <2>1. UNCHANGED <<streams, live, generated, recorded>>
      BY <1>7 DEF vars, engine
    <2>. QED  BY <2>1, OtherStream
  <1>. QED  BY <1>1, <1>2, <1>3, <1>4, <1>5, <1>6, <1>7 DEF Next

(* In every reachable state every stream is well formed.                   *)
THEOREM StreamInvariant == Spec => []StreamInv
  <1>1. OwnerInv /\ StreamInv /\ [Next]_vars => StreamInv'  BY StreamStep
  <1>. QED  BY InitStream, OwnerInvariant, <1>1, PTL DEF Spec

(* Every stream is its tokens in order and then at most one end, which is  *)
(* "length" only after max_new_tokens.                                     *)
THEOREM StreamsAreWellFormed == Spec => []StreamsWellFormed
  <1>1. ASSUME OwnerInv, StreamInv PROVE StreamsWellFormed
    <2> SUFFICES ASSUME NEW r \in Requests
        PROVE LET n == Len(events[r])
                  ended == n > 0 /\ Terminal(events[r][n])
                  tokens == IF ended THEN n - 1 ELSE n
              IN  /\ \A i \in 1 .. tokens : events[r][i] = Token(i - 1)
                  /\ tokens = generated[r]
                  /\ ended /\ events[r][n] = Finished("length") => tokens = MaxNew
                  /\ tokens = MaxNew => ended
                  /\ r \in live => ~ended
      BY DEF StreamsWellFormed
    <2>1. StreamOK(r) /\ generated[r] \in Nat /\ MaxNew \in Nat
      BY <1>1, BoundAssumption DEF OwnerInv, StreamInv, Typed
    <2>2. \A i : ~Terminal(Token(i))  BY DEF Terminal, Token
    <2>3. CASE Unended(r)
      <3>1. ~(Len(events[r]) > 0 /\ Terminal(events[r][Len(events[r])]))
        BY <2>1, <2>2, <2>3 DEF Unended, Counted
      <3>. QED  BY <2>1, <2>3, <3>1 DEF Unended, Counted
    <2>4. CASE Ended(r) /\ r \notin live
      <3>1. Len(events[r]) > 0 /\ Terminal(events[r][Len(events[r])])
        BY <2>1, <2>4 DEF Ended, Terminal, Finished, Failed
      <3>. QED  BY <2>1, <2>4, <3>1 DEF Ended, Counted
    <2>. QED  BY <2>1, <2>3, <2>4 DEF StreamOK
  <1>. QED  BY <1>1, OwnerInvariant, StreamInvariant, PTL

(* Whoever listens is still served, or has been told the end.              *)
THEOREM NobodyIsForgotten == Spec => []NobodyForgotten
  <1>1. ASSUME OwnerInv, StreamInv, NEW r \in Requests, client[r] = "open", r \notin live
        PROVE  events[r] # << >> /\ Terminal(events[r][Len(events[r])])
    <2>1. Ended(r) /\ events[r] \in Seq(Events)
          /\ generated[r] \in Nat
      BY <1>1, BoundAssumption DEF StreamInv, StreamOK, OwnerInv, Typed
    <2>2. Len(events[r]) = generated[r] + 1 /\ Len(events[r]) # 0
      BY <2>1 DEF Ended
    <2>3. Terminal(events[r][Len(events[r])])
      BY <2>1, <2>2 DEF Ended, Terminal, Finished, Failed
    <2>. QED  BY <2>1, <2>2, <2>3
  <1>2. OwnerInv /\ StreamInv => NobodyForgotten
    BY <1>1 DEF NobodyForgotten
  <1>. QED  BY <1>2, OwnerInvariant, StreamInvariant, PTL

(* Every request is reported finished, cancelled or failed exactly once.   *)
THEOREM OutcomesRecordedOnce == Spec => []OutcomeRecordedOnce
  <1>1. StreamInv => OutcomeRecordedOnce
    BY DEF StreamInv, StreamOK, OutcomeRecordedOnce
  <1>. QED  BY <1>1, StreamInvariant, PTL

(* Every variable has its type; in particular a request the Scheduler has  *)
(* always has a token left to compute, and never more than it may.         *)
THEOREM TypeCorrect == Spec => []TypeOK
  <1>1. ASSUME OwnerInv, StreamInv PROVE TypeOK
    <2>1. \A r \in known : pending[r] \in 1 .. PromptLen + MaxNew
      BY <1>1, BoundAssumption DEF OwnerInv, Typed, Progress
    <2>2. \A r \in Requests : read[r] \in 0 .. Len(events[r])
      <3> SUFFICES ASSUME NEW r \in Requests  PROVE read[r] \in 0 .. Len(events[r])
        OBVIOUS
      <3>1. /\ events[r] \in Seq(Events) /\ read[r] <= Len(events[r])
            /\ read[r] \in Nat
        BY <1>1 DEF StreamInv, StreamOK, OwnerInv, Typed
      <3>2. Len(events[r]) \in Nat  BY <3>1
      <3>. QED  BY <3>1, <3>2
    <2>. QED  BY <1>1, <2>1, <2>2 DEF OwnerInv, Typed, Owners, TypeOK
  <1>. QED  BY <1>1, OwnerInvariant, StreamInvariant, PTL
=============================================================================
