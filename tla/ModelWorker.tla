----------------------------- MODULE ModelWorker -----------------------------
(***************************************************************************)
(* The execution side of one process: ModelRunner and LocalModelWorker,    *)
(* its step handlers with their K/V storage, its decode handlers, and the  *)
(* engine's slice of a request that feeds them.                            *)
(*                                                                         *)
(* The K/V of a token is modelled by what went into it: the tokens up to   *)
(* it, when the query read exactly their K/V at their positions, Garbage   *)
(* otherwise.  What the model predicts after a token follows from its K/V. *)
(***************************************************************************)
EXTENDS Attention

CONSTANTS Requests,        \* request ids, each used once
          Prompts,         \* prompts a request may have
          EosTokens,       \* what its eos_token_id may be
          MaxNew,          \* max_new_tokens of every request
          Weights(_, _),   \* the token a model generation puts after some tokens
          Noise,           \* the token it puts after K/V that is no text's
          Assemblies,      \* attention and decoding of the executors: pairs of "dense",
                           \* "torch", "triton" and "standard", "chain", "trie", "any"
          OtherDrafts,     \* trees the proposer "any" may answer with
          NumLookahead,    \* of the decoding budget
          Blocks,          \* [Requests -> sequences of pages], disjoint
          Chunks,          \* bound: tokens of a part of the pending input
          MaxLoads,        \* bound: models loaded
          MaxFaults        \* bound: steps that raise

ASSUME ModelWorkerAssumption ==
  /\ IsFiniteSet(Requests)
  /\ {MaxNew, MaxLoads} \subseteq Nat \ {0} /\ {NumLookahead, MaxFaults, Noise} \subseteq Nat
  /\ \A prompt \in Prompts : prompt \in Seq(Nat) /\ prompt # <<>>
  /\ Assemblies \subseteq {"dense", "torch", "triton"} \X {"standard", "chain", "trie", "any"}
  /\ \A r \in Requests, prompt \in Prompts :
       Blocks[r] \in Seq(Nat) /\ Len(Blocks[r]) >= Pages(Len(prompt) + MaxNew)
  /\ \A r, o \in Requests : \A i \in DOMAIN Blocks[r], j \in DOMAIN Blocks[o] :
       Blocks[r][i] = Blocks[o][j] => r = o /\ i = j

VARIABLES backend, decoder,  \* how the executor was assembled
          loaded,            \* generation of ModelRunner, 0 before the first load
          installed,         \* generation of the worker's _model and _step, 0: none
          opening,           \* generation initialize() builds a cache for, 0: none
          request,           \* what engine and worker know of each request
          claims,            \* _allocations of UnboundedKVCacheManager
          entries,           \* per generation: _entries of ContiguousKVCache
          cells,             \* per generation: K/V by slot
          step,              \* the step in flight
          faults

assembly == <<backend, decoder>>
modelVars == <<loaded, installed, opening>>
vars == <<assembly, modelVars, request, claims, entries, cells, step, faults>>

Garbage == <<>>              \* no K/V is that of an empty context
NoToken == -1
NoStep == [at |-> "idle", generation |-> 0, work |-> << >>]
Generations == 1..MaxLoads
NewRequest == [status |-> "new", model |-> 0, prompt |-> 0, tokens |-> <<>>,
               eos |-> NoToken, computed |-> 0, blocks |-> <<>>, readonly |-> 0]

Contiguous == backend = "dense"
Active == { r \in Requests : request[r].status = "active" }
Batch == DOMAIN step.work
Put(f, x, y) == [z \in DOMAIN f \union {x} |-> IF z = x THEN y ELSE f[z]]
Read(g, slot) == IF slot \in DOMAIN cells[g] THEN cells[g][slot] ELSE Garbage

Init ==
  /\ \E assembled \in Assemblies : backend = assembled[1] /\ decoder = assembled[2]
  /\ loaded = 0 /\ installed = 0 /\ opening = 0
  /\ request = [r \in Requests |-> NewRequest] /\ claims = << >>
  /\ entries = [g \in Generations |-> << >>] /\ cells = [g \in Generations |-> << >>]
  /\ step = NoStep /\ faults = 0

-----------------------------------------------------------------------------
(* ModelRunner.load and LocalModelWorker.initialize *)

Load ==
  /\ loaded < MaxLoads
  /\ loaded' = loaded + 1
  /\ UNCHANGED <<assembly, installed, opening, request, claims, entries, cells, step, faults>>

\* The session is open; the cache is built outside the worker's lock.
Initialize ==
  /\ opening = 0 /\ Active = {} /\ loaded # 0 /\ installed # loaded
  /\ opening' = loaded
  /\ UNCHANGED <<assembly, loaded, installed, request, claims, entries, cells, step, faults>>

Install ==
  /\ opening # 0
  /\ opening' = 0
  /\ installed' = IF Active = {} /\ loaded = opening THEN opening ELSE installed
  /\ UNCHANGED <<assembly, loaded, request, claims, entries, cells, step, faults>>

-----------------------------------------------------------------------------
(* ContiguousKVCache: [length, capacity, users, released] of each request,  *)
(* and UnboundedKVCacheManager: what is committed and reserved              *)

Allocate(stored, r, capacity) ==
  Put(stored, r, [length |-> 0, capacity |-> capacity, users |-> 0, released |-> FALSE])

AcquireEntries(stored, leased) ==
  [r \in DOMAIN stored |->
     IF r \in leased THEN [stored[r] EXCEPT !.users = @ + 1] ELSE stored[r]]

\* Variant: free() does not look at who uses the entry.
FreedNow(stored, gone) == Restrict(stored, DOMAIN stored \ gone)

Freed(stored, gone) ==
  LET kept == { r \in DOMAIN stored : r \in gone => stored[r].users > 0 }
  IN  [r \in kept |-> [stored[r] EXCEPT !.released = @ \/ r \in gone]]

ReleaseLease(stored, leased) ==
  LET left == [r \in DOMAIN stored |->
                 IF r \in leased THEN [stored[r] EXCEPT !.users = @ - 1] ELSE stored[r]]
  IN  Restrict(left, { r \in DOMAIN left : left[r].users > 0 \/ ~left[r].released })

SetLength(stored, lengths) ==
  [r \in DOMAIN stored |->
     IF r \in DOMAIN lengths THEN [stored[r] EXCEPT !.length = lengths[r]] ELSE stored[r]]

Reserve(held, plans) ==
  [r \in DOMAIN held |->
     IF r \in DOMAIN plans
     THEN [held[r] EXCEPT !.reserved = plans[r].input + plans[r].lookahead] ELSE held[r]]

Commit(held, counts) ==
  [r \in DOMAIN held |->
     IF r \in DOMAIN counts
     THEN [committed |-> held[r].committed + counts[r], reserved |-> 0] ELSE held[r]]

FreeClaims(held, gone) == Restrict(held, DOMAIN held \ gone)

-----------------------------------------------------------------------------
(* Requests *)

\* Requests whose first page a new one with this prompt may share: the
\* prefix index is that of the installed generation.
Sharable(prompt) ==
  { o \in Requests :
      /\ ~Contiguous /\ BlockSize < Len(prompt)
      /\ request[o].status \in {"active", "finished"}
      /\ request[o].model = installed /\ request[o].readonly >= 1
      /\ SubSeq(request[o].tokens, 1, BlockSize) = SubSeq(prompt, 1, BlockSize) }

Admitted(r, prompt, eos, shared) ==
  [status |-> "active", model |-> installed, prompt |-> Len(prompt),
   tokens |-> prompt, eos |-> eos, computed |-> Cardinality(shared) * BlockSize,
   blocks |-> IF Contiguous THEN <<r>>
              ELSE IF shared = {} THEN Blocks[r]
              ELSE [Blocks[r] EXCEPT ![1] = request[CHOOSE o \in shared : TRUE].blocks[1]],
   readonly |-> Cardinality(shared)]

\* add_request of the worker, below EngineCore.stream.
AddRequest(r) ==
  /\ request[r].status = "new"
  /\ installed # 0 /\ installed = loaded
  /\ \E prompt \in Prompts, eos \in EosTokens :
       \E shared \in {{}} \union { {o} : o \in Sharable(prompt) } :
         request' = [request EXCEPT ![r] = Admitted(r, prompt, eos, shared)]
  /\ IF Contiguous
     THEN /\ entries' = [entries EXCEPT ![installed] =
                           Allocate(@, r, request'[r].prompt + MaxNew)]
          /\ claims' = Put(claims, r, [committed |-> 0, reserved |-> 0])
     ELSE UNCHANGED <<entries, claims>>
  /\ UNCHANGED <<assembly, modelVars, cells, step, faults>>

\* Nobody looks at what is left of a request that was cancelled or failed.
Without(gone) ==
  [r \in Requests |-> IF r \in gone THEN [NewRequest EXCEPT !.status = "dropped"]
                                   ELSE request[r]]

\* The tensor or pages that no request and no step names are never read again.
Keep(newRequest, newStep) ==
  LET named == (UNION { ToSet(newRequest[r].blocks) : r \in Requests })
                 \union (UNION { ToSet(newStep.work[r].blocks) : r \in DOMAIN newStep.work })
  IN  cells' = [g \in Generations |->
                  Restrict(cells[g], { slot \in DOMAIN cells[g] : slot[1] \in named })]

\* free_request of the worker, when the engine cancels a request at any time;
\* the scheduler's claim goes with it unless a step is using it.
FreeRequest(r) ==
  /\ request[r].status = "active"
  /\ request' = Without({r}) /\ Keep(Without({r}), step)
  /\ entries' = [entries EXCEPT ![installed] = Freed(@, {r})]
  /\ claims' = FreeClaims(claims, {r} \ Batch)
  /\ UNCHANGED <<assembly, modelVars, step, faults>>

-----------------------------------------------------------------------------
(* One step: acquire, execute, forward, accept and compact, apply *)

\* What the scheduler may plan for a request under the decoding budget, and
\* the slice of the request that _build_execution_batch_locked adds.
Plan(r, input, lookahead, output) ==
  [context |-> request[r].tokens, start |-> request[r].computed, input |-> input,
   lookahead |-> lookahead, output |-> output,
   blocks |-> IF Contiguous THEN <<r>>
              ELSE SubSeq(request[r].blocks, 1,
                          Pages(request[r].computed + input + lookahead)),
   readonly |-> request[r].readonly, draft |-> NoDraft, result |-> <<>>, cached |-> 0]

Plans(r) ==
  LET pending == Len(request[r].tokens) - request[r].computed
      remaining == request[r].prompt + MaxNew - Len(request[r].tokens)
      ahead == IF decoder = "standard" THEN 0 ELSE Least(NumLookahead, remaining - 1)
  IN  { Plan(r, n, 0, 0) : n \in Chunks \intersect 1 .. pending - 1 }
        \union { Plan(r, pending, ahead, ahead + 1), Plan(r, pending, 0, 1) }

Acquire ==
  /\ step.at = "idle"
  /\ \E batch \in (SUBSET Active) \ {{}} :
       \E work \in [batch -> UNION { Plans(r) : r \in batch }] :
         /\ \A r \in batch : work[r] \in Plans(r)
         /\ step' = [at |-> "leased", generation |-> installed, work |-> work]
         /\ claims' = Reserve(claims, work)
         /\ entries' = [entries EXCEPT ![installed] = AcquireEntries(@, batch)]
  /\ UNCHANGED <<assembly, modelVars, request, cells, faults>>

StepFailed == step' = [step EXCEPT !.at = "failed"]

MaxNodes(plan) == Least(plan.lookahead, IF plan.output = 0 THEN 0 ELSE plan.output - 1)

\* The drafts a proposer may answer with: "any" is a proposer of someone else.
Drafts(plan) ==
  CASE decoder = "standard" \/ MaxNodes(plan) = 0 -> {NoDraft}
    [] decoder = "chain" /\ MaxNodes(plan) > 0 -> {Chain(plan.context, MaxNodes(plan))}
    [] decoder = "trie" /\ MaxNodes(plan) > 0 -> {Trie(plan.context, MaxNodes(plan))}
    [] OTHER -> OtherDrafts

\* The constructor of DraftTree and the decode handler look at every draft.
Acceptable(plan, draft) == IsTree(draft) /\ Size(draft) <= MaxNodes(plan)

\* LocalModelWorker.execute fixes model and step, and refuses a batch with a
\* freed request; the decode handler then makes its model step of each request.
Execute ==
  /\ step.at = "leased"
  /\ \/ /\ Batch \subseteq Active
        /\ \E drafts \in [Batch -> UNION { Drafts(step.work[r]) : r \in Batch }] :
             /\ \A r \in Batch : drafts[r] \in Drafts(step.work[r])
             /\ IF \A r \in Batch : Acceptable(step.work[r], drafts[r])
                THEN step' = [step EXCEPT !.at = "running", !.generation = installed,
                       !.work = [r \in Batch |-> [step.work[r] EXCEPT !.draft = drafts[r]]]]
                ELSE StepFailed
     \/ ~(Batch \subseteq Active) /\ StepFailed
  /\ UNCHANGED <<assembly, modelVars, request, claims, entries, cells, faults>>

QueryTokens(plan) ==
  SubSeq(plan.context, plan.start + 1, plan.start + plan.input) \o plan.draft.tokens

\* What attention knows of the step.
Row(plan) ==
  [table |-> plan.blocks, computed |-> plan.start, readonly |-> plan.readonly,
   layout |-> DraftLayout(plan.input, plan.draft), reserved |-> plan.input + plan.lookahead]
Rows == [r \in Batch |-> Row(step.work[r])]

Place(plan, position) ==
  IF Contiguous THEN <<plan.blocks[1], position>> ELSE Slot(plan.blocks, position)

Reads(r) ==
  CASE backend = "dense" -> DenseReads(Rows[r], entries[step.generation][r].length)
    [] backend = "torch" -> TorchReads(Rows[r])
    [] backend = "triton" -> TritonReads(Rows, r)

\* The K/V of one query: it reads what was stored and what the other queries
\* of its request have put there, and knows its own position.
Attended(plan, kv, positions) ==
  [p \in positions |-> IF p < plan.start THEN Read(step.generation, Place(plan, p))
                       ELSE kv[p - plan.start + 1]]

QueryKV(plan, kv, q, reads, position) ==
  LET own == Position(Row(plan), q)
      read == Attended(plan, kv, reads \ {own})
      text == CHOOSE c \in Range(read) \union {<<>>} :
                \A d \in Range(read) : Len(d) <= Len(c)
  IN  IF /\ Range(read) = { SubSeq(text, 1, n) : n \in 1 .. Len(text) }
         /\ IsInjective(read)
         /\ own \in reads /\ position = Len(text)
      THEN Append(text, QueryTokens(plan)[q]) ELSE Garbage

Computed(r) ==
  LET plan == step.work[r]
      reads == Reads(r)
      position == SemanticPositions(Row(plan))
      kv[q \in Queries(Row(plan))] == QueryKV(plan, kv, q, reads[q], position[q])
  IN  kv

Predicted(g, kv) == IF kv = Garbage THEN Noise ELSE Weights(g, kv)

\* The logits rows the decode handler asked for: from the last input token on.
Target(plan, kv) ==
  IF plan.output = 0 THEN <<>>
  ELSE [i \in 1 .. Size(plan.draft) + 1 |-> Predicted(step.generation, kv[plan.input + i - 1])]

Written(plan, kv) ==
  LET place == [q \in Queries(Row(plan)) |-> Place(plan, plan.start + q - 1)]
  IN  [slot \in Range(place) |-> kv[CHOOSE q \in DOMAIN place : slot = place[q]]]

\* A cache after what is written for each request of a batch.
Stored(cache, writes) ==
  LET of(slot) == { r \in DOMAIN writes : slot \in DOMAIN writes[r] }
  IN  [slot \in DOMAIN cache \union UNION { DOMAIN writes[r] : r \in DOMAIN writes } |->
         IF of(slot) = {} THEN cache[slot] ELSE writes[CHOOSE r \in of(slot) : TRUE][slot]]

StoreQueries ==
  LET kv == [r \in Batch |-> Computed(r)]
  IN  /\ cells' = [cells EXCEPT ![step.generation] =
           Stored(@, [r \in Batch |-> Written(step.work[r], kv[r])])]
      /\ step' = [step EXCEPT !.at = "forwarded",
           !.work = [r \in Batch |->
                       [step.work[r] EXCEPT !.result = Target(step.work[r], kv[r])]]]

\* ContiguousStepHandler.forward: one request after the other, each tensor as
\* long as the scheduler thinks and with room for the queries.
ContiguousForward ==
  /\ step.at = "running" /\ Contiguous
  /\ LET stored == entries[step.generation]
         longer(r) == stored[r].length + Len(QueryTokens(step.work[r]))
     IN  IF \A r \in Batch :
              stored[r].length = step.work[r].start /\ longer(r) <= stored[r].capacity
         THEN /\ StoreQueries
              /\ entries' = [entries EXCEPT ![step.generation] =
                   SetLength(@, [r \in Batch |-> longer(r)])]
         ELSE StepFailed /\ UNCHANGED <<entries, cells>>
  /\ UNCHANGED <<assembly, modelVars, request, claims, faults>>

\* PagedStepHandler.forward: one packed stream of queries over the pages.
PagedForward ==
  /\ step.at = "running" /\ ~Contiguous
  /\ IF ValidTables(Rows) THEN StoreQueries ELSE StepFailed /\ UNCHANGED cells
  /\ UNCHANGED <<assembly, modelVars, request, claims, entries, faults>>

\* Query indices whose K/V survives: the input and the accepted path.
Retained(plan) ==
  LET accepted == Accept(plan.draft, plan.result).accepted
  IN  [i \in 1 .. plan.input |-> i]
        \o [i \in DOMAIN accepted |-> plan.input + accepted[i]]

\* Variant: the tail is cut to its new length and nothing moves.
Truncated(plan) == << >>

\* compact(): the retained K/V is gathered, then written at the tail's front.
Compacted(plan) ==
  LET retained == Retained(plan)
      place(q) == Place(plan, plan.start + q - 1)
  IN  [ slot \in { place(k) : k \in DOMAIN retained } |->
          Read(step.generation,
               place(retained[CHOOSE k \in DOMAIN retained : slot = place(k)])) ]

\* What accept() and AcceptanceResult demand of the tokens, the handler of the
\* acceptance, and _validate_accepted_path.
SoundAcceptance(plan) ==
  LET a == Accept(plan.draft, plan.result)
  IN  /\ plan.result \in Seq(Nat)
      /\ Len(a.output) <= plan.output
      /\ \A k \in DOMAIN a.accepted :
           /\ plan.draft.parents[a.accepted[k]] = IF k = 1 THEN 0 ELSE a.accepted[k - 1]
           /\ a.output[k] = plan.draft.tokens[a.accepted[k]]

\* StandardDecodeHandler.execute after the forward: one token, if any, that
\* RequestOutput accepts.
Sample ==
  /\ step.at = "forwarded" /\ decoder = "standard"
  /\ IF \A r \in Batch : step.work[r].result \in Seq(Nat)
     THEN step' = [step EXCEPT !.at = "done"] ELSE StepFailed
  /\ UNCHANGED <<assembly, modelVars, request, claims, entries, cells, faults>>

Sampled == { r \in Batch : step.work[r].output > 0 }
Drafted == { r \in Sampled : Size(step.work[r].draft) > 0 }

Verified(plan) ==
  LET a == Accept(plan.draft, plan.result)
  IN  [plan EXCEPT !.result = a.output, !.cached = Len(a.accepted)]

\* SpeculativeDecodeHandler.execute after the forward.
AcceptAndCompact ==
  /\ step.at = "forwarded" /\ decoder # "standard"
  /\ IF \A r \in Sampled : SoundAcceptance(step.work[r])
     THEN /\ cells' = [cells EXCEPT ![step.generation] =
               Stored(@, [r \in Drafted |-> Compacted(step.work[r])])]
          /\ entries' = [entries EXCEPT ![step.generation] =
               SetLength(@, [r \in Drafted |->
                               step.work[r].start + Len(Retained(step.work[r]))])]
          /\ step' = [step EXCEPT !.at = "done",
               !.work = [r \in Batch |-> IF r \in Sampled THEN Verified(step.work[r])
                                                          ELSE step.work[r]]]
     ELSE StepFailed /\ UNCHANGED <<cells, entries>>
  /\ UNCHANGED <<assembly, modelVars, request, claims, faults>>

\* The model raises, before it has written or after.
StepFails ==
  /\ step.at \in {"running", "forwarded"} /\ faults < MaxFaults
  /\ faults' = faults + 1
  /\ StepFailed
  /\ UNCHANGED <<assembly, modelVars, request, claims, entries, cells>>

\* _visible_tokens: up to the first eos or the last token allowed.
VisibleTokens(r, output) ==
  LET room == request[r].prompt + MaxNew - Len(request[r].tokens)
      cuts == { i \in DOMAIN output : output[i] = request[r].eos \/ i = room }
  IN  IF cuts = {} THEN output ELSE SubSeq(output, 1, Min(cuts))

Ends(r, tokens) ==
  \/ Len(tokens) = request[r].prompt + MaxNew
  \/ Len(tokens) > request[r].prompt /\ Last(tokens) = request[r].eos

\* The requests of the batch that nobody has cancelled, and what the step gives
\* them; the scheduler commits, and full pages of the prompt become read-only.
Here == Batch \intersect Active
Visible(r) == VisibleTokens(r, step.work[r].result)
NewTokens(r) == request[r].tokens \o Visible(r)
Count(r) == step.work[r].input + Least(step.work[r].cached, Len(Visible(r)))
Over == { r \in Here : Ends(r, NewTokens(r)) }

Advanced(r) ==
  LET computed == request[r].computed + Count(r)
  IN  [request[r] EXCEPT
         !.tokens = NewTokens(r), !.computed = computed,
         !.readonly = IF Contiguous THEN 0
                      ELSE Max({@, Least(computed, request[r].prompt) \div BlockSize}),
         !.status = IF r \in Over THEN "finished" ELSE @]

After == [r \in Requests |-> IF r \in Here THEN Advanced(r) ELSE request[r]]

\* The lease is released, then _apply_output_locked.
Apply ==
  /\ step.at = "done"
  /\ request' = After /\ Keep(After, NoStep)
  /\ claims' = FreeClaims(Commit(claims, [r \in Here |-> Count(r)]), Over \union (Batch \ Here))
  /\ entries' = [entries EXCEPT ![step.generation] = Freed(ReleaseLease(@, Batch), Over)]
  /\ step' = NoStep
  /\ UNCHANGED <<assembly, modelVars, faults>>

\* The lease is released, then _fail_batch_locked.
ApplyFailure ==
  /\ step.at = "failed"
  /\ request' = Without(Here) /\ Keep(Without(Here), NoStep)
  /\ claims' = FreeClaims(claims, Batch)
  /\ entries' = [entries EXCEPT ![step.generation] = Freed(ReleaseLease(@, Batch), Here)]
  /\ step' = NoStep
  /\ UNCHANGED <<assembly, modelVars, faults>>

Next ==
  \/ Load \/ Initialize \/ Install
  \/ \E r \in Requests : AddRequest(r) \/ FreeRequest(r)
  \/ Acquire \/ Execute \/ ContiguousForward \/ PagedForward
  \/ Sample \/ AcceptAndCompact \/ StepFails \/ Apply \/ ApplyFailure

Spec == Init /\ [][Next]_vars

-----------------------------------------------------------------------------
(* Properties *)

\* ReferenceGenerationService.stream on the model the request was admitted
\* with: every token from the whole text so far, no cache, until eos or length.
Reference(g, prompt, eos, n) ==
  LET text[i \in 0..n] ==
        IF i = 0 THEN prompt
        ELSE LET before == text[i - 1]
             IN  IF i > 1 /\ Last(before) = eos THEN before
                 ELSE Append(before, Weights(g, before))
  IN  text[n]

\* A request's tokens are those of the reference service, and a request that
\* finished has all of them, whatever was drafted, however its prompt was cut
\* into steps, whoever shared the batch, its pages or the worker, and whichever
\* model was loaded in between: execute, accept, compact and _visible_tokens
\* change how fast a text comes, never the text.
OutputIsReference ==
  \A r \in Requests : request[r].status \in {"active", "finished"} =>
    LET prompt == SubSeq(request[r].tokens, 1, request[r].prompt)
        text == Reference(request[r].model, prompt, request[r].eos, MaxNew)
    IN  IF request[r].status = "finished" THEN request[r].tokens = text
                                          ELSE IsPrefix(request[r].tokens, text)

\* What the engine counts as computed is what the cache holds: each position
\* below computed has the K/V of the tokens up to it, shared pages included,
\* and between steps the contiguous tensor and the manager's commitment are
\* exactly that long, so that no step is refused for its length.
CacheHoldsPrefix ==
  \A r \in Active :
    /\ \A p \in 0 .. request[r].computed - 1 :
         Read(request[r].model, Place(request[r], p)) = SubSeq(request[r].tokens, 1, p + 1)
    /\ Contiguous /\ r \notin Batch =>
         /\ entries[request[r].model][r].length = request[r].computed
         /\ claims[r] = [committed |-> request[r].computed, reserved |-> 0]

\* A contiguous tensor exists as long as its request is active or a step
\* holds its lease, and not an instant longer, and so does the scheduler's
\* claim: a free in the middle of a step takes nothing away from the model and
\* leaves nothing behind after it.
EntriesExact ==
  Contiguous =>
    /\ DOMAIN claims = Active \union Batch
    /\ \A g \in Generations :
         /\ DOMAIN entries[g] = { r \in Active : request[r].model = g }
                                  \union (IF step.generation = g THEN Batch ELSE {})
         /\ \A r \in DOMAIN entries[g] : entries[g][r].released = (r \notin Active)

\* A proposed tree is one the step can run, no bigger than its lookahead; each
\* of its paths has followed the matched suffix before; and a node comes after
\* its parent or after the subtree of a better sibling, so that the likeliest
\* path lies in consecutive slots and its acceptance moves no K/V.
DraftsContinueHistory ==
  decoder \in {"chain", "trie"} /\ step.at = "leased" =>
    \A r \in Batch : \A draft \in Drafts(step.work[r]) :
      LET context == step.work[r].context
          layout == DraftLayout(1, draft)
      IN  /\ Acceptable(step.work[r], draft)
          /\ \A i \in DOMAIN draft.tokens :
               /\ \E s \in Starts(context) :
                    IsPrefix(PathTo(draft, i), Continuation(context, s, NumLookahead))
               /\ i > 1 => layout[i + 1] \in Visibility(layout)[i]
=============================================================================
