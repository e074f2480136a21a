------------------------ MODULE TokenBudgetScheduler ------------------------
(***************************************************************************)
(* TokenBudgetScheduler of runtime/scheduler/token_budget.py, on the       *)
(* capacity ledger of PagedKVCacheManager: which request runs in a step,   *)
(* with how many tokens, and what happens to one that gets no KV blocks.   *)
(*                                                                         *)
(* schedule() is one call under the Engine's lock and mostly sequential,   *)
(* so it is a composition of operators on a record `sched` that holds the  *)
(* fields of the object.  Blocks are counted, not named: the requests have *)
(* different prompts, so that two of them never share a block, but each    *)
(* may find blocks of its own prompt in the prefix index.                  *)
(***************************************************************************)
EXTENDS Integers, SequencesExt

CONSTANTS
  Requests,      \* request ids, used again once a request has left
  PromptLen,     \* PromptLen[r]: tokens of the prompt
  MaxTokens,     \* MaxTokens[r]: prompt and new tokens at most
  IdlePrefix,    \* IdlePrefix[r]: prompt blocks earlier requests may have left
  NumBlocks, BlockSize,
  MaxSequences,  \* max_num_sequences
  TokenBudget,   \* max_num_scheduled_tokens
  Lookahead, MaxOutput,  \* the DecodingBudget
  Policies       \* the configured pairs of policies

(* A ShortRequestPolicy and a SelfResubmitPolicy; `on` is FALSE where the  *)
(* code has None.                                                          *)
ShortPolicies ==
  [on : BOOLEAN, effective : Nat, total : Nat, tokens : Nat, kvTokens : Nat,
   sequences : Nat, aging : Nat]
ResubmitPolicies ==
  [on : BOOLEAN, max : Nat, rolledBack : Nat, extra : Nat, watermark : 1 .. 100]

ASSUME PolicyAssumption ==
  \A p \in Policies :
    /\ p \in [short : ShortPolicies, resubmit : ResubmitPolicies]
    /\ p.short.on =>
         /\ 0 < p.short.effective /\ p.short.effective <= p.short.tokens
         /\ 0 < p.short.total /\ p.short.total - 1 <= p.short.kvTokens
         /\ 0 < p.short.sequences /\ p.short.sequences < MaxSequences
         /\ 0 < p.short.tokens /\ p.short.tokens < TokenBudget
         /\ 0 < p.short.aging
    /\ p.resubmit.on => p.resubmit.max > 0 /\ p.resubmit.extra > 0

ASSUME BudgetAssumption ==
  /\ MaxSequences \in Nat \ {0} /\ TokenBudget \in Nat \ {0}
  /\ MaxOutput \in Nat \ {0} /\ Lookahead \in Nat
  /\ NumBlocks \in Nat \ {0} /\ BlockSize \in Nat \ {0}

(* CapacityAdmission: every request fits the pool when it has it alone.    *)
ASSUME RequestAssumption ==
  \A r \in Requests :
    /\ PromptLen[r] \in Nat \ {0}
    /\ MaxTokens[r] \in Nat /\ MaxTokens[r] > PromptLen[r]
    /\ MaxTokens[r] <= NumBlocks * BlockSize
    /\ IdlePrefix[r] \in 0 .. (PromptLen[r] - 1) \div BlockSize

VARIABLES
  policy,  \* what the Scheduler was constructed with
  sched    \* its fields

vars == <<policy, sched>>

Short == policy.short
Resubmit == policy.resubmit

----------------------------------------------------------------------------
(* The fields of the Scheduler and of a request.                           *)

(* The members of a set, in the order of a queue, and a queue without one. *)
Among(order, requests) ==
  FlattenSeq([i \in DOMAIN order |->
                IF order[i] \in requests THEN <<order[i]>> ELSE << >>])
Without(order, r) == Among(order, Requests \ {r})

AtMost(a, b) == IF a <= b THEN a ELSE b
AtLeast(a, b) == IF a >= b THEN a ELSE b

BlocksFor(n) == (n + BlockSize - 1) \div BlockSize

(* _RequestState, and from `blocks` on what the KV manager knows of it.    *)
Fresh(r) ==
  [tokens |-> PromptLen[r], computed |-> 0, attached |-> FALSE,
   short |-> FALSE, slot |-> FALSE, visible |-> FALSE, waited |-> 0,
   strict |-> FALSE, forced |-> FALSE, resubmits |-> 0, rolledBack |-> 0,
   blocks |-> 0, limit |-> 0, minFree |-> 0, published |-> IdlePrefix[r]]

Init ==
  /\ policy \in Policies
  /\ sched =
    [known |-> {},            \* the keys of _states
     waiting |-> << >>, running |-> {},
     launch |-> << >>,        \* _short_launch_order
     common |-> << >>,        \* _common_order
     req |-> [r \in Requests |-> Fresh(r)],
     resubmitted |-> << >>,   \* _resubmitted_in_step
     out |-> << >>,           \* the SchedulerOutput in flight, a ghost
     tokensLeft |-> 0, seqsLeft |-> 0,  \* of the lane being scheduled
     error |-> "none"]        \* what schedule() raises; EngineCore goes on

Scheduled == { sched.out[i].id : i \in DOMAIN sched.out }

(* One element for each of the counted blocks of some requests.            *)
Counted(count, requests) == UNION { {r} \X (1 .. count[r]) : r \in requests }

Used(s) == Cardinality(Counted([r \in Requests |-> s.req[r].blocks], s.running))

Claim(q) == AtLeast(0, q.limit - q.blocks)

Claimed(s) == Cardinality(Counted([r \in Requests |-> Claim(s.req[r])], s.running))

Released(q) ==
  [q EXCEPT !.attached = FALSE, !.blocks = 0, !.limit = 0, !.minFree = 0]

----------------------------------------------------------------------------
(* Admission.                                                              *)

Guarantee(q, isShort) == ~Resubmit.on \/ isShort \/ q.forced

(* capacity - floor(capacity * kv_admission_watermark), in tokens.         *)
DecodeReserve ==
  LET capacity == NumBlocks * BlockSize
  IN  capacity - (capacity * Resubmit.watermark) \div 100

BlockLimit(r, strict) ==
  BlocksFor(IF strict THEN MaxTokens[r] - 1
            ELSE AtMost(MaxTokens[r] - 1,
                        PromptLen[r] + Resubmit.extra * BlockSize))

(* Variant: what is promised to admitted requests is admitted once more.   *)
CanAdmitUnclaimed(s, r, isShort, minFreeTokens) ==
  Used(s) + BlockLimit(r, Guarantee(s.req[r], isShort)) <= NumBlocks

(* try_add_request accepts: what is used and claimed, the blocks of the    *)
(* matched prefix and the new claim fit beside both watermarks.            *)
CanAdmit(s, r, isShort, minFreeTokens) ==
  LET strict == Guarantee(s.req[r], isShort)
      watermark == AtLeast(BlocksFor(minFreeTokens),
                           IF strict THEN 0 ELSE BlocksFor(DecodeReserve))
  IN  Used(s) + Claimed(s) + BlockLimit(r, strict) + watermark <= NumBlocks

(* _try_admit; `hits` are the prompt blocks found in the prefix index.     *)
TryAdmit(s, r, isShort, minFreeTokens, hits) ==
  LET strict == Guarantee(s.req[r], isShort)
  IN  IF ~CanAdmit(s, r, isShort, minFreeTokens) THEN s
      ELSE [s EXCEPT
              !.waiting = Without(@, r),
              !.running = @ \cup {r},
              !.launch = IF isShort THEN Append(@, r) ELSE @,
              !.common = IF isShort THEN @ ELSE Append(@, r),
              !.req[r] = [@ EXCEPT !.computed = hits[r] * BlockSize,
                                   !.attached = TRUE,
                                   !.short = isShort, !.slot = isShort,
                                   !.strict = strict,
                                   !.blocks = hits[r],
                                   !.limit = BlockLimit(r, strict),
                                   !.minFree = BlocksFor(minFreeTokens)]]

ShortSlots(s) == Cardinality({ r \in s.running : s.req[r].slot })

HasShortSlot(s) == ShortSlots(s) < Short.sequences

HasCommonSlot(s) ==
  Cardinality(s.running) - ShortSlots(s) < MaxSequences - Short.sequences

(* _rebalance_admission_slots: a short request that has had its first      *)
(* output gives its reserved slot back for a common one.                   *)
HandBack(s, r) ==
  IF HasCommonSlot(s) THEN [s EXCEPT !.req[r].slot = FALSE] ELSE s

Rebalance(s) ==
  IF ~Short.on THEN s
  ELSE FoldLeft(LAMBDA t, r : HandBack(t, r), s, s.common)

IsShort(s, r, hits) ==
  /\ Short.on
  /\ ~s.req[r].visible
  /\ MaxTokens[r] <= Short.total
  /\ PromptLen[r] - hits[r] * BlockSize <= Short.effective

(* Variant: waiting requests do not age.                                   *)
Ageless(s, short) == s

(* _age_waiting_requests; steps past the threshold make no difference.     *)
Age(s, short) ==
  IF ~Short.on THEN s
  ELSE [s EXCEPT !.req =
          [r \in Requests |->
             IF Contains(s.waiting, r) /\ ~short[r]
             THEN [s.req[r] EXCEPT !.waited = AtMost(@ + 1, Short.aging)]
             ELSE s.req[r]]]

Aged(s, short) ==
  Among(s.waiting, { r \in Requests : ~short[r] /\ s.req[r].waited >= Short.aging })

(* What a lane admits within; without a short-request policy there is one. *)
HasSlot(s, isShort) ==
  CASE ~Short.on -> Cardinality(s.running) < MaxSequences
    [] Short.on /\ isShort -> HasShortSlot(s)
    [] Short.on /\ ~isShort -> HasCommonSlot(s)

(* Admit requests in order, up to the first that has no slot or no blocks. *)
AdmitNext(acc, r, isShort, minFreeTokens, hits) ==
  LET t == TryAdmit(acc.s, r, isShort, minFreeTokens, hits)
  IN  IF acc.open /\ HasSlot(acc.s, isShort) /\ r \in t.running
      THEN [s |-> t, open |-> TRUE] ELSE [acc EXCEPT !.open = FALSE]

AdmitInOrder(s, order, isShort, minFreeTokens, hits) ==
  FoldLeft(LAMBDA acc, r : AdmitNext(acc, r, isShort, minFreeTokens, hits),
           [s |-> s, open |-> TRUE], order).s

(* _admit_waiting_requests without a short-request policy: FCFS.           *)
AdmitFCFS(s, hits) == AdmitInOrder(s, s.waiting, FALSE, 0, hits)

(* ... once the oldest aged regular request is in: the short requests, the *)
(* regular ones beside the watermark kept for short ones, and somebody at  *)
(* all events.                                                             *)
AdmitLanes(s, short, hits) ==
  LET theShort == { r \in Requests : short[r] }
      shorts == AdmitInOrder(s, Among(s.waiting, theShort), TRUE, 0, hits)
      both == AdmitInOrder(shorts, Among(shorts.waiting, Requests \ theShort),
                           FALSE, Short.kvTokens, hits)
  IN  IF both.running = {} /\ both.waiting # << >>
      THEN LET oldest == Head(both.waiting)
           IN  TryAdmit(both, oldest, short[oldest], 0, hits)
      ELSE both

(* Variant: an aged request that does not fit does not hold up the others. *)
AdmitPastBarrier(s, short, hits) ==
  IF ~Short.on THEN AdmitFCFS(s, hits)
  ELSE LET aged == Aged(s, short)
       IN  IF aged = << >> \/ ~HasCommonSlot(s) THEN AdmitLanes(s, short, hits)
           ELSE AdmitLanes(TryAdmit(s, Head(aged), FALSE, 0, hits), short, hits)

(* _admit_waiting_requests.  The first aged regular request is a barrier:  *)
(* while it does not fit nobody else is admitted.                          *)
AdmitWaiting(s, short, hits) ==
  IF ~Short.on THEN AdmitFCFS(s, hits)
  ELSE LET aged == Aged(s, short)
           t == IF aged # << >> /\ HasCommonSlot(s)
                THEN TryAdmit(s, Head(aged), FALSE, 0, hits) ELSE s
       IN  IF aged # << >> /\ Head(aged) \notin t.running THEN t
           ELSE AdmitLanes(t, short, hits)

----------------------------------------------------------------------------
(* Planning the work of a step.                                            *)

Pending(q) == q.tokens - q.computed

(* Variant: the positions of speculative tokens are not paid for.          *)
PlanFreeLookahead(r, q, budget, first) ==
  LET n == AtMost(Pending(q), budget)
      output == AtMost(MaxOutput, MaxTokens[r] - q.tokens)
      lookahead == AtMost(Lookahead, output - 1)
  IN  IF n < Pending(q) THEN [tokens |-> n, lookahead |-> 0, output |-> 0]
      ELSE [tokens |-> n, lookahead |-> lookahead, output |-> output]

(* How many known tokens a request computes in this step, for how many     *)
(* speculative positions it asks, and how many tokens it may return.       *)
Plan(r, q, budget, first) ==
  LET n == AtMost(Pending(q), budget)
      output == AtMost(MaxOutput, MaxTokens[r] - q.tokens)
      lookahead == AtMost(Lookahead, output - 1)
  IN  CASE n < Pending(q) -> [tokens |-> n, lookahead |-> 0, output |-> 0]
        [] n = Pending(q) /\ n + lookahead <= budget ->
             [tokens |-> n, lookahead |-> lookahead, output |-> output]
        [] n = Pending(q) /\ n + lookahead > budget /\ (n = 1 \/ first) ->
             [tokens |-> n, lookahead |-> 0, output |-> 1]
        [] OTHER -> [tokens |-> n - 1, lookahead |-> 0, output |-> 0]

(* reserve() accepts `count` more blocks for r, and the pool has them.     *)
CanGrow(s, q, count) ==
  /\ Used(s) + count <= NumBlocks
  /\ IF q.strict THEN count <= q.limit - q.blocks
     ELSE count > 0 =>
            Used(s) + Claimed(s) + count - AtMost(count, Claim(q)) + q.minFree
              <= NumBlocks

(* _resubmit: the request releases its own blocks and starts over, from    *)
(* the tokens it has, at the end of the queue.                             *)
RollBack(s, r) ==
  LET q == s.req[r]
      resubmits == q.resubmits + 1
      rolledBack == q.rolledBack + q.computed
  IN  [s EXCEPT
         !.running = @ \ {r},
         !.launch = Without(@, r), !.common = Without(@, r),
         !.waiting = Append(@, r), !.resubmitted = Append(@, r),
         !.req[r] =
           [Released(q) EXCEPT
              !.resubmits = resubmits, !.rolledBack = rolledBack,
              !.computed = 0, !.short = FALSE, !.slot = FALSE, !.strict = FALSE,
              !.forced = @ \/ resubmits >= Resubmit.max
                           \/ rolledBack >= Resubmit.rolledBack]]

(* _schedule_request: plan, reserve, and append to the output; a request   *)
(* that gets no blocks is rolled back if it was admitted optimistically.   *)
ScheduleRequest(s, r, first) ==
  LET q == s.req[r]
      plan == Plan(r, q, s.tokensLeft, first)
      cost == plan.tokens + plan.lookahead
      count == BlocksFor(q.computed + cost) - q.blocks
  IN  CASE Pending(q) <= 0 -> [s EXCEPT !.error = "no pending tokens"]
        [] Pending(q) > 0 /\ q.tokens >= MaxTokens[r] /\ Pending(q) <= s.tokensLeft ->
             [s EXCEPT !.error = "token limit reached"]
        [] OTHER ->
             IF CanGrow(s, q, count)
             THEN [s EXCEPT !.req[r].blocks = @ + count,
                            !.tokensLeft = @ - cost, !.seqsLeft = @ - 1,
                            !.out = Append(@,
                              [id |-> r, tokens |-> plan.tokens,
                               lookahead |-> plan.lookahead,
                               output |-> plan.output])]
             ELSE IF Resubmit.on /\ ~q.strict THEN RollBack(s, r)
             ELSE [s EXCEPT !.error = "lost completion guarantee"]

(* One lane of _schedule_admitted_requests, with its own two budgets.      *)
ScheduleNext(s, r, first) ==
  IF s.tokensLeft = 0 \/ s.seqsLeft = 0 \/ s.error # "none" THEN s
  ELSE ScheduleRequest(s, r, first)

ScheduleLane(s, order, tokens, sequences, first) ==
  FoldLeft(LAMBDA t, r : ScheduleNext(t, r, first),
           [s EXCEPT !.tokensLeft = tokens, !.seqsLeft = sequences], order)

(* _rotate_request_ids: the next round starts one request later.           *)
Rotated(order) ==
  IF order = << >> THEN order ELSE Append(Tail(order), Head(order))

(* Variant: the lane of the short requests comes last.                     *)
ScheduleCommonFirst(s) ==
  LET t == ScheduleLane([s EXCEPT !.common = Rotated(@)], s.common,
                        TokenBudget, MaxSequences, FALSE)
  IN  ScheduleLane([t EXCEPT !.launch = Rotated(@)], t.launch,
                   t.tokensLeft, t.seqsLeft, TRUE)

(* _schedule_admitted_requests: what is reserved for first outputs of      *)
(* short requests is spent first, the rest round-robin on everybody else.  *)
ScheduleAdmitted(s) ==
  LET tokens == IF Short.on THEN Short.tokens ELSE 0
      sequences == IF Short.on THEN Short.sequences ELSE 0
      t == ScheduleLane([s EXCEPT !.launch = Rotated(@)], s.launch,
                        tokens, sequences, TRUE)
  IN  ScheduleLane([t EXCEPT !.common = Rotated(@)], t.common,
                   TokenBudget - tokens, MaxSequences - sequences, FALSE)

----------------------------------------------------------------------------
(* The operations.                                                         *)

Add(r) ==
  /\ r \notin sched.known
  /\ sched.error = "none"
  /\ sched' = [sched EXCEPT !.known = @ \cup {r},
                            !.waiting = Append(@, r),
                            !.req[r] = Fresh(r)]
  /\ UNCHANGED policy

(* Variant: a removed request stays in the order of its lane.              *)
LeaveQueues(s, r) ==
  [s EXCEPT !.known = @ \ {r}, !.running = @ \ {r},
            !.waiting = Without(@, r), !.launch = Without(@, r),
            !.req[r] = Fresh(r)]

(* remove(): out of every queue, and its blocks back to the pool.          *)
Removed(s, r) ==
  [s EXCEPT !.known = @ \ {r}, !.running = @ \ {r},
            !.waiting = Without(@, r), !.launch = Without(@, r),
            !.common = Without(@, r), !.req[r] = Fresh(r)]

(* A client gives up; the Engine defers the removal of a request that is   *)
(* part of the step in flight, see Discard.                                *)
Cancel(r) ==
  /\ r \in sched.known \ Scheduled
  /\ sched.error = "none"
  /\ sched' = Removed(sched, r)
  /\ UNCHANGED policy

(* What the prefix index may hold of the prompts when a step is planned:   *)
(* blocks that were published may have been evicted since.                 *)
Hits ==
  { hits \in [Requests -> 0 .. NumBlocks] :
      \A r \in Requests :
        hits[r] <= IF r \in sched.known /\ ~sched.req[r].strict
                   THEN sched.req[r].published ELSE 0 }

(* The first half of schedule(): rebalance, age, admit and plan.           *)
FirstPass(hits) ==
  LET s == Rebalance(sched)
      short == [r \in Requests |-> IsShort(s, r, hits)]
  IN  ScheduleAdmitted(AdmitWaiting(Age(s, short), short, hits))

(* When everybody was rolled back, the first of them moves to the head of  *)
(* the queue with a strict claim, and admission and planning start again.  *)
Recover(s, hits) ==
  LET first == Head(s.resubmitted)
      t == [s EXCEPT !.req[first].forced = TRUE,
                     !.waiting = <<first>> \o Without(@, first)]
      short == [r \in Requests |-> IsShort(t, r, hits)]
  IN  ScheduleAdmitted(AdmitWaiting(t, short, hits))

(* What schedule() returns or raises.                                      *)
Returned(s) ==
  [s EXCEPT !.resubmitted = << >>, !.tokensLeft = 0, !.seqsLeft = 0,
            !.out = IF s.error = "none" THEN @ ELSE << >>,
            !.error = IF @ = "none" /\ s.out = << >> THEN "no progress" ELSE @]

MaySchedule ==
  sched.known # {} /\ sched.out = << >> /\ sched.error = "none"

Schedule ==
  /\ MaySchedule
  /\ \E hits \in Hits :
       LET s == FirstPass(hits)
       IN  sched' = IF s.error = "none" /\ s.out = << >> /\ s.resubmitted # << >>
                    THEN Returned(Recover(s, hits)) ELSE Returned(s)
  /\ UNCHANGED policy

(* Variant: new tokens are taken for computed, the last one too.           *)
CompletedOutputs(s, r, committed, new) ==
  [s EXCEPT !.req[r].computed = @ + committed + new, !.req[r].tokens = @ + new]

(* complete(): commit, count the new tokens, and move a short request that *)
(* has had its first output to the common lane.                            *)
Completed(s, r, committed, new) ==
  LET q == s.req[r]
      computed == q.computed + committed
      leaves == q.short /\ ~q.visible /\ new > 0
  IN  [s EXCEPT
         !.req[r] =
           [q EXCEPT !.computed = computed, !.tokens = @ + new,
                     !.visible = @ \/ new > 0,
                     !.blocks = BlocksFor(computed),
                     !.published =
                       AtLeast(@, AtMost(computed, PromptLen[r] - 1) \div BlockSize)],
         !.launch = IF leaves THEN Without(@, r) ELSE @,
         !.common = IF leaves THEN Append(@, r) ELSE @]

(* The Engine applies the result of the next request of the step: `new`    *)
(* tokens, of which the executor has cached all but the last at most; at   *)
(* the end of the sequence, or at its maximal length, the request leaves.  *)
Complete ==
  /\ sched.out # << >>
  /\ LET item == Head(sched.out)
         r == item.id
         rest == [sched EXCEPT !.out = Tail(@)]
     IN  \E new \in IF item.output = 0 THEN {0} ELSE 1 .. item.output :
         \E cached \in 0 .. AtMost(item.lookahead, AtLeast(new - 1, 0)) :
           LET s == Completed(rest, r, item.tokens + cached, new)
           IN  \/ /\ s.req[r].tokens < MaxTokens[r]
                  /\ sched' = s
               \/ /\ new > 0
                  /\ sched' = Removed(s, r)
  /\ UNCHANGED policy

(* The request was cancelled during the step, or the step failed: it is    *)
(* removed at the safe boundary and its result thrown away.                *)
Discard ==
  /\ sched.out # << >>
  /\ sched' = Removed([sched EXCEPT !.out = Tail(@)], Head(sched.out).id)
  /\ UNCHANGED policy

Next ==
  \/ \E r \in Requests : Add(r)
  \/ \E r \in Requests : Cancel(r)
  \/ Schedule
  \/ Complete
  \/ Discard

(* The driver task calls schedule() again and again and applies every      *)
(* result; clients promise nothing.  This is WF(Schedule) /\ WF(Complete), *)
(* spelled out because TLC cannot afford ENABLED Schedule: both of them    *)
(* disable themselves after finitely many steps, so that each is taken     *)
(* whenever it stays enabled if and only if it is disabled again and again.*)
Fairness ==
  /\ []<>~MaySchedule
  /\ []<>(sched.out = << >>)

Spec == Init /\ [][Next]_vars

FairSpec == Spec /\ Fairness

----------------------------------------------------------------------------
(* Properties.                                                             *)

RequestState ==
  [tokens : Nat, computed : Nat, attached : BOOLEAN, short : BOOLEAN,
   slot : BOOLEAN, visible : BOOLEAN, waited : Nat, strict : BOOLEAN,
   forced : BOOLEAN, resubmits : Nat, rolledBack : Nat, blocks : Nat,
   limit : Nat, minFree : Nat, published : Nat]

(* A request never has more tokens than it may, nor computed tokens that   *)
(* it does not have.                                                       *)
TypeOK ==
  /\ sched.known \subseteq Requests /\ sched.running \subseteq Requests
  /\ {sched.waiting, sched.launch, sched.common} \subseteq Seq(Requests)
  /\ sched.req \in [Requests -> RequestState]
  /\ \A r \in sched.known :
       /\ sched.req[r].tokens \in PromptLen[r] .. MaxTokens[r] - 1
       /\ sched.req[r].computed < sched.req[r].tokens

(* Every request is in exactly one queue, once; it is in a lane if and     *)
(* only if it runs and owns KV, and in the launch lane if and only if it   *)
(* is short and has had no output.  What add, admit, roll back, first      *)
(* output and remove must keep between them.                               *)
QueuesExact ==
  LET lanes == ToSet(sched.launch) \cup ToSet(sched.common)
  IN  /\ ToSet(sched.waiting) \cup lanes = sched.known
      /\ Len(sched.waiting) + Len(sched.launch) + Len(sched.common)
            = Cardinality(sched.known)
      /\ lanes = sched.running
      /\ \A r \in Requests :
           /\ sched.req[r].attached <=> r \in sched.running
           /\ r \notin sched.running => sched.req[r].blocks = 0
      /\ ToSet(sched.launch) =
           { r \in sched.running : sched.req[r].short /\ ~sched.req[r].visible }

(* The positions that a step computes, speculative ones included.          *)
Positions(out) ==
  UNION { {out[i].id} \X (1 .. out[i].tokens + out[i].lookahead) : i \in DOMAIN out }

(* A step computes at most max_num_scheduled_tokens tokens, speculative    *)
(* positions included, for at most max_num_sequences different requests,   *)
(* each with KV for all of its positions; "running never exceeds           *)
(* max_num_sequences", and neither kind of request takes the admission     *)
(* slots kept for the other, over any run of admissions, handovers,        *)
(* completions, rollbacks and removals.                                    *)
WithinBudget ==
  /\ Cardinality(Positions(sched.out)) <= TokenBudget
  /\ Len(sched.out) <= MaxSequences
  /\ Cardinality(Scheduled) = Len(sched.out)
  /\ \A i \in DOMAIN sched.out :
       LET item == sched.out[i]
           q == sched.req[item.id]
       IN  /\ item.tokens > 0
           /\ q.computed + item.tokens + item.lookahead <= q.blocks * BlockSize
           /\ item.output > 0 => q.computed + item.tokens = q.tokens
  /\ Cardinality(sched.running) <= MaxSequences
  /\ Short.on =>
       /\ ShortSlots(sched) <= Short.sequences
       /\ Cardinality(sched.running) - ShortSlots(sched)
             <= MaxSequences - Short.sequences

(* schedule() always finds work for somebody, and an admitted request      *)
(* never loses the blocks it was promised.                                 *)
NeverStuck == sched.error = "none"

(* With one reserved sequence, a short request has its first token in the  *)
(* very step it is admitted in: the reserved tokens cover its prompt, and  *)
(* a long prefill beside it costs it nothing.                              *)
FirstTokenAtOnce ==
  Short.sequences = 1 =>
    \A r \in ToSet(sched.launch) :
      \E i \in DOMAIN sched.out : sched.out[i].id = r /\ sched.out[i].output > 0

(* A request that fits the pool when it has it alone is served when it has *)
(* it alone: only what an idle engine cannot hold either is refused.       *)
IdleEngineServes == sched.running = {} => sched.error # "no progress"

(* While the oldest waiting request is a regular one that has aged, no     *)
(* other request is admitted past it, unless everybody was rolled back and *)
(* one of them needs a strict claim.                                       *)
AgedFirst ==
  [][ \A r \in Requests :
        ( /\ Short.on
          /\ MaxTokens[r] > Short.total
          /\ sched.waiting # << >> /\ Head(sched.waiting) = r
          /\ sched.req[r].waited >= Short.aging
          /\ Contains(sched'.waiting, r) )
        => \A q \in sched'.running \ sched.running : sched'.req[q].forced
    ]_vars

(* No request starves: everyone that was added leaves, however many short  *)
(* or other requests keep coming and however often it is rolled back.      *)
EveryoneServed ==
  \A r \in Requests : r \in sched.known ~> r \notin sched.known

=============================================================================
