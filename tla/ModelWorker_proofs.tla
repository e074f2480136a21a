------------------------- MODULE ModelWorker_proofs -------------------------
(***************************************************************************)
(* Proofs about ModelWorker, for any requests, prompts, models, drafts and *)
(* bounds.                                                                 *)
(*                                                                         *)
(* Standing says which generation a request and the step belong to, and    *)
(* EntriesInv who holds which tensor: together they give EntriesExact.     *)
(*                                                                         *)
(* TextInv is about the texts.  Of a request: its tokens are the model's   *)
(* own, its pages are its own but for a read-only first one, and the cache *)
(* has the K/V of what counts as computed.  Of the step in flight: its     *)
(* plans are of their requests as they are and, phase by phase, what the   *)
(* forward has written, what the model answered and what acceptance and    *)
(* compaction leave.  The proof of a step rests on four arguments, in this *)
(* order: every query reads the K/V of the text before it, in each layout  *)
(* of attention (AllAttending, ComputedTexts); nobody writes what another  *)
(* reads (OwnPage, Apart); accepted drafts are what the model would have   *)
(* said (AcceptedTexts) and compaction moves their K/V behind the input    *)
(* (CompactedShape, RetainedTexts); what is shown and counted at the end   *)
(* is no more than what the cache holds (SteppedNumbers, SteppedHeld).     *)
(* With it come CacheHoldsPrefix and OutputIsReference.                    *)
(***************************************************************************)
EXTENDS ModelWorker, Attention_proofs

RequestFields == {"status", "model", "prompt", "tokens", "eos", "computed", "blocks", "readonly"}
EntryFields == {"length", "capacity", "users", "released"}

(* Who is active, who is in the step and on which model.                   *)
Standing ==
  /\ loaded \in 0..MaxLoads /\ installed \in 0..MaxLoads /\ opening \in 0..MaxLoads
  /\ DOMAIN request = Requests /\ \A r \in Requests : DOMAIN request[r] = RequestFields
  /\ DOMAIN step = {"at", "generation", "work"}
  /\ DOMAIN entries = Generations /\ DOMAIN cells = Generations
  /\ \A r \in Active : request[r].model = installed /\ installed \in Generations
  /\ Batch \subseteq Requests
  /\ step.at = "idle" <=> Batch = {}
  /\ Batch # {} => step.generation \in Generations
  /\ \A r \in Batch : /\ request[r].status \in {"active", "dropped"}
                      /\ r \in Active => step.generation = installed

(* The fields of a request and of an entry after EXCEPT.                   *)
LEMMA DroppedFields ==
  /\ DOMAIN [NewRequest EXCEPT !.status = "dropped"] = RequestFields
  /\ [NewRequest EXCEPT !.status = "dropped"].status = "dropped"
  BY DEF NewRequest, RequestFields

(* Requests that are taken out: the others stay as they are.               *)
LEMMA WithoutShape ==
  ASSUME NEW gone \in SUBSET Requests,
         DOMAIN request = Requests, \A r \in Requests : DOMAIN request[r] = RequestFields
  PROVE  LET new == Without(gone)
         IN  /\ DOMAIN new = Requests /\ \A r \in Requests : DOMAIN new[r] = RequestFields
             /\ \A r \in gone : new[r].status = "dropped"
             /\ \A r \in Requests \ gone : new[r] = request[r]
<1> DEFINE d == [NewRequest EXCEPT !.status = "dropped"]
<1>1. DOMAIN d = RequestFields /\ d.status = "dropped" BY DroppedFields
<1> HIDE DEF d
<1>2. Without(gone) = [r \in Requests |-> IF r \in gone THEN d ELSE request[r]]
  BY Zenon DEF Without, d
<1> QED BY <1>1, <1>2

(* A request that a step advances keeps its record.                        *)
LEMMA AdvancedFields ==
  ASSUME NEW r, DOMAIN request[r] = RequestFields
  PROVE  /\ DOMAIN Advanced(r) = RequestFields
         /\ Advanced(r).model = request[r].model
         /\ Advanced(r).prompt = request[r].prompt
         /\ Advanced(r).eos = request[r].eos
         /\ Advanced(r).blocks = request[r].blocks
         /\ Advanced(r).tokens = NewTokens(r)
         /\ Advanced(r).computed = request[r].computed + Count(r)
         /\ Advanced(r).status = IF r \in Over THEN "finished" ELSE request[r].status
<1> DEFINE c == request[r].computed + Count(r)
           m == Max({request[r].readonly, Least(c, request[r].prompt) \div BlockSize})
           d == IF Contiguous THEN 0 ELSE m
           s == IF r \in Over THEN "finished" ELSE request[r].status
           t == NewTokens(r)
<1>1. Advanced(r) = [request[r] EXCEPT !.tokens = t, !.computed = c, !.readonly = d, !.status = s]
  BY DEF Advanced
<1> HIDE DEF c, d, s, t
<1>2. /\ DOMAIN Advanced(r) = RequestFields
      /\ Advanced(r).model = request[r].model
      /\ Advanced(r).prompt = request[r].prompt
      /\ Advanced(r).eos = request[r].eos
      /\ Advanced(r).blocks = request[r].blocks
      /\ Advanced(r).tokens = t
      /\ Advanced(r).computed = c
      /\ Advanced(r).status = s
  BY <1>1 DEF RequestFields
<1> QED BY <1>2 DEF c, s, t

(* Of a step's requests only those that are over leave the active ones.    *)
LEMMA AfterShape ==
  ASSUME DOMAIN request = Requests, \A r \in Requests : DOMAIN request[r] = RequestFields
  PROVE  /\ DOMAIN After = Requests /\ \A r \in Requests : DOMAIN After[r] = RequestFields
         /\ \A r \in Here : After[r] = Advanced(r)
         /\ \A r \in Requests \ Here : After[r] = request[r]
         /\ \A r \in Requests : /\ After[r].model = request[r].model
                                /\ After[r].status = IF r \in Over THEN "finished"
                                                     ELSE request[r].status
<1>1. Over \subseteq Here BY DEF Over
<1>2. Here \subseteq Requests BY DEF Here, Active
<1>3. DOMAIN After = Requests BY DEF After
<1>4. ASSUME NEW r \in Here
      PROVE  /\ After[r] = Advanced(r) /\ DOMAIN After[r] = RequestFields
             /\ After[r].model = request[r].model
             /\ After[r].status = IF r \in Over THEN "finished" ELSE request[r].status
  <2>1. r \in Requests BY <1>2
  <2>2. After[r] = Advanced(r) BY <2>1, <1>4 DEF After
  <2> QED BY <2>1, <2>2, AdvancedFields
<1>5. ASSUME NEW r \in Requests \ Here PROVE After[r] = request[r] BY <1>5 DEF After
<1> QED BY <1>1, <1>2, <1>3, <1>4, <1>5

(* At the start nobody is active and no step is in flight.                 *)
LEMMA StandingInit == Init => Standing
  BY ModelWorkerAssumption, SMTT(20) DEF Init, Standing, NewRequest, NoStep, RequestFields, Active, Batch, Generations

(* Every step keeps the requests and the step in flight on their models.   *)
LEMMA StandingStep == Standing /\ [Next]_vars => Standing'
<1> SUFFICES ASSUME Standing, [Next]_vars PROVE Standing' OBVIOUS
<1> USE DEF Standing
<1>0. MaxLoads \in Nat \ {0} BY ModelWorkerAssumption
<1> USE <1>0
<1>1. CASE Load
  BY <1>1 DEF Load, Active, Batch, assembly
<1>2. CASE Initialize BY <1>2 DEF Initialize, Active, Batch, assembly
<1>3. CASE Install
  <2>1. installed' \in 0..MaxLoads BY <1>3 DEF Install
  <2>2. Active # {} => installed' = installed BY <1>3 DEF Install
  <2> QED BY <1>3, <2>1, <2>2 DEF Install, Active, Batch, assembly
<1>4. ASSUME NEW r \in Requests, AddRequest(r) PROVE Standing'
  <2>1. PICK prompt \in Prompts, eos \in EosTokens :
          \E shared \in {{}} \union { {o} : o \in Sharable(prompt) } :
            request' = [request EXCEPT ![r] = Admitted(r, prompt, eos, shared)]
    BY <1>4, Zenon DEF AddRequest
  <2>1a. PICK shared \in {{}} \union { {o} : o \in Sharable(prompt) } :
            request' = [request EXCEPT ![r] = Admitted(r, prompt, eos, shared)]
    BY <2>1
  <2>2. /\ DOMAIN Admitted(r, prompt, eos, shared) = RequestFields
        /\ Admitted(r, prompt, eos, shared).status = "active"
        /\ Admitted(r, prompt, eos, shared).model = installed
    BY DEF Admitted, RequestFields
  <2>3. UNCHANGED <<loaded, installed, opening, step, cells>> /\ installed # 0
        /\ request[r].status = "new" BY <1>4 DEF AddRequest, modelVars
  <2>4. DOMAIN entries' = Generations BY <1>4 DEF AddRequest
  <2>5. r \notin Batch BY <2>3
  <2>6. /\ DOMAIN request' = Requests /\ request'[r] = Admitted(r, prompt, eos, shared)
        /\ \A o \in Requests \ {r} : request'[o] = request[o] BY <2>1a
  <2>7. Active' = Active \cup {r} BY <2>2, <2>6 DEF Active
  <2>8. \A o \in Active' : request'[o].model = installed /\ installed \in Generations
    BY <2>2, <2>3, <2>6, <2>7 DEF Generations, Active
  <2>9. Batch' = Batch BY <2>3 DEF Batch
  <2>10. \A o \in Batch : o # r /\ o \in Requests /\ request'[o] = request[o] BY <2>5, <2>6
  <2>11. \A o \in Batch : o \in Active' => o \in Active BY <2>5, <2>7
  <2> QED BY <2>2, <2>3, <2>4, <2>6, <2>8, <2>9, <2>10, <2>11
<1>5. ASSUME NEW r \in Requests, FreeRequest(r) PROVE Standing'
  <2>1. request' = Without({r}) /\ UNCHANGED <<loaded, installed, opening, step>>
        /\ DOMAIN entries' = Generations /\ DOMAIN cells' = Generations
    BY <1>5 DEF FreeRequest, modelVars, Keep
  <2>2. /\ DOMAIN request' = Requests /\ \A o \in Requests : DOMAIN request'[o] = RequestFields
        /\ request'[r].status = "dropped"
        /\ \A o \in Requests \ {r} : request'[o] = request[o]
    BY <2>1, WithoutShape
  <2>3. Active' \subseteq Active BY <2>2 DEF Active
  <2>4. Batch' = Batch BY <2>1 DEF Batch
  <2>5. \A o \in Active' : request'[o] = request[o] BY <2>2, <2>3 DEF Active
  <2> QED BY <2>1, <2>2, <2>3, <2>4, <2>5
<1>6. CASE Acquire
  <2>1. PICK batch, work :
          /\ batch \in (SUBSET Active) \ {{}}
          /\ work \in [batch -> UNION { Plans(r) : r \in batch }]
          /\ step' = [at |-> "leased", generation |-> installed, work |-> work]
    BY <1>6 DEF Acquire
  <2>2. UNCHANGED <<loaded, installed, opening, request, cells>> /\ DOMAIN entries' = Generations
    BY <1>6 DEF Acquire, modelVars
  <2>3. Batch' = batch BY <2>1 DEF Batch
  <2>4. Active' = Active BY <2>2 DEF Active
  <2>5. batch # {} /\ batch \subseteq Requests /\ \A r \in batch : request[r].status = "active"
    <3>1. batch # {} /\ batch \in SUBSET Active BY <2>1
    <3> QED BY <3>1 DEF Active
  <2>6. installed \in Generations BY <2>1, <2>5
  <2>7. step'.generation = installed /\ step'.at = "leased" /\ DOMAIN step' = {"at", "generation", "work"}
    BY <2>1
  <2> QED BY <2>2, <2>3, <2>4, <2>5, <2>6, <2>7
<1>7. ASSUME UNCHANGED <<loaded, installed, opening, request>>, DOMAIN entries' = Generations,
             DOMAIN cells' = Generations, DOMAIN step' = DOMAIN step, Batch' = Batch,
             step'.at # "idle", step.at # "idle",
             \/ Batch \subseteq Active /\ step'.generation = installed
             \/ step'.generation = step.generation
      PROVE  Standing'
  <2>1. Active' = Active BY <1>7 DEF Active
  <2>2. Batch # {} BY <1>7
  <2>3. step'.generation \in Generations BY <1>7, <2>2
  <2>4. \A r \in Batch : r \in Active => step'.generation = installed BY <1>7
  <2> QED BY <1>7, <2>1, <2>2, <2>3, <2>4
<1>8. ASSUME StepFailed, step.at # "idle"
      PROVE  /\ DOMAIN step' = DOMAIN step /\ Batch' = Batch /\ step'.at # "idle"
             /\ step'.generation = step.generation
  BY <1>8 DEF StepFailed, Batch
<1>9. CASE Execute
  <2>1. CASE StepFailed BY <1>7, <1>8, <1>9, <2>1 DEF Execute, modelVars
  <2>2. CASE ~StepFailed
    <3>1. Batch \subseteq Active BY <1>9, <2>2 DEF Execute
    <3>2. PICK work : /\ step' = [step EXCEPT !.at = "running", !.generation = installed, !.work = work]
                      /\ DOMAIN work = Batch
      BY <1>9, <2>2 DEF Execute
    <3>3. DOMAIN step' = DOMAIN step /\ Batch' = Batch /\ step'.at = "running"
          /\ step'.generation = installed BY <3>2 DEF Batch
    <3> QED BY <1>7, <1>9, <3>1, <3>3 DEF Execute, modelVars
  <2> QED BY <2>1, <2>2
<1>10. ASSUME StoreQueries PROVE /\ DOMAIN cells' = Generations /\ DOMAIN step' = DOMAIN step
                                 /\ Batch' = Batch /\ step'.at = "forwarded"
                                 /\ step'.generation = step.generation
  <2>1. DOMAIN cells' = Generations BY <1>10 DEF StoreQueries
  <2> DEFINE work == [r \in Batch |->
                       [step.work[r] EXCEPT !.result = Target(step.work[r], Computed(r))]]
  <2>2. DOMAIN work = Batch /\ step' = [step EXCEPT !.at = "forwarded", !.work = work]
    BY <1>10, Zenon DEF StoreQueries
  <2> HIDE DEF work
  <2> QED BY <2>1, <2>2 DEF Batch
<1>11. CASE ContiguousForward
  <2>1. step.at = "running" /\ UNCHANGED <<loaded, installed, opening, request>>
    BY <1>11 DEF ContiguousForward, modelVars
  <2>2. CASE StepFailed /\ UNCHANGED <<entries, cells>>
    BY <1>7, <1>8, <2>1, <2>2
  <2>3. CASE StoreQueries /\ DOMAIN entries' = Generations
    BY <1>7, <1>10, <2>1, <2>3
  <2>4. \/ StepFailed /\ UNCHANGED <<entries, cells>>
        \/ StoreQueries /\ DOMAIN entries' = Generations
    BY <1>11 DEF ContiguousForward
  <2> QED BY <2>2, <2>3, <2>4
<1>12. CASE PagedForward
  <2>1. step.at = "running" /\ UNCHANGED <<loaded, installed, opening, request, entries>>
    BY <1>12 DEF PagedForward, modelVars
  <2>2. CASE StepFailed /\ UNCHANGED cells
    BY <1>7, <1>8, <2>1, <2>2
  <2>3. CASE StoreQueries
    BY <1>7, <1>10, <2>1, <2>3
  <2> QED BY <1>12, <2>2, <2>3 DEF PagedForward
<1>13. CASE Sample
  <2>1. step.at = "forwarded" /\ UNCHANGED <<loaded, installed, opening, request, entries, cells>>
    BY <1>13 DEF Sample, modelVars
  <2>2. CASE StepFailed BY <1>7, <1>8, <2>1, <2>2
  <2>3. CASE step' = [step EXCEPT !.at = "done"]
    <3>1. DOMAIN step' = DOMAIN step /\ Batch' = Batch /\ step'.at = "done"
          /\ step'.generation = step.generation BY <2>3 DEF Batch
    <3> QED BY <1>7, <2>1, <3>1
  <2> QED BY <1>13, <2>2, <2>3 DEF Sample
<1>14. CASE AcceptAndCompact
  <2>1. step.at = "forwarded" /\ UNCHANGED <<loaded, installed, opening, request>>
    BY <1>14 DEF AcceptAndCompact, modelVars
  <2>2. CASE StepFailed /\ UNCHANGED <<cells, entries>> BY <1>7, <1>8, <2>1, <2>2
  <2>3. CASE ~(StepFailed /\ UNCHANGED <<cells, entries>>)
    <3>1. DOMAIN entries' = Generations /\ DOMAIN cells' = Generations
      BY <1>14, <2>3 DEF AcceptAndCompact
    <3> DEFINE work == [r \in Batch |-> IF r \in Sampled THEN Verified(step.work[r])
                                                          ELSE step.work[r]]
    <3>2. step' = [step EXCEPT !.at = "done", !.work = work] /\ DOMAIN work = Batch
      BY <1>14, <2>3, Zenon DEF AcceptAndCompact
    <3> HIDE DEF work
    <3>3. DOMAIN step' = DOMAIN step /\ Batch' = Batch /\ step'.at = "done"
          /\ step'.generation = step.generation BY <3>2 DEF Batch
    <3> QED BY <1>7, <2>1, <3>1, <3>3
  <2> QED BY <2>2, <2>3
<1>15. CASE StepFails
  <2>1. step.at # "idle" /\ StepFailed /\ UNCHANGED <<loaded, installed, opening, request, entries, cells>>
    BY <1>15 DEF StepFails, modelVars
  <2> QED BY <1>7, <1>8, <2>1
<1>16. ASSUME step' = NoStep PROVE DOMAIN step' = {"at", "generation", "work"} /\ Batch' = {} /\ step'.at = "idle"
  BY <1>16 DEF NoStep, Batch
<1>17. CASE Apply
  <2>1. /\ request' = After /\ step' = NoStep /\ UNCHANGED <<loaded, installed, opening>>
        /\ DOMAIN entries' = Generations /\ DOMAIN cells' = Generations
    BY <1>17 DEF Apply, modelVars, Keep
  <2>2. /\ DOMAIN request' = Requests /\ \A r \in Requests : DOMAIN request'[r] = RequestFields
        /\ \A r \in Requests : /\ request'[r].model = request[r].model
                               /\ request'[r].status = IF r \in Over THEN "finished" ELSE request[r].status
    BY <2>1, AfterShape
  <2>3. Active' \subseteq Active BY <2>2 DEF Active
  <2>4. \A r \in Active' : r \in Active /\ request'[r].model = request[r].model BY <2>2, <2>3 DEF Active
  <2> QED BY <1>16, <2>1, <2>2, <2>3, <2>4
<1>18. CASE ApplyFailure
  <2>1. /\ request' = Without(Here) /\ step' = NoStep /\ UNCHANGED <<loaded, installed, opening>>
        /\ DOMAIN entries' = Generations /\ DOMAIN cells' = Generations
    BY <1>18 DEF ApplyFailure, modelVars, Keep
  <2>2. Here \subseteq Requests BY DEF Here
  <2>3. /\ DOMAIN request' = Requests /\ \A r \in Requests : DOMAIN request'[r] = RequestFields
        /\ \A r \in Here : request'[r].status = "dropped"
        /\ \A r \in Requests \ Here : request'[r] = request[r]
    BY <2>1, <2>2, WithoutShape
  <2>4. \A r \in Active' : r \in Active /\ request'[r].model = request[r].model BY <2>3 DEF Active
  <2> QED BY <1>16, <2>1, <2>3, <2>4
<1>19. CASE UNCHANGED vars
  BY <1>19 DEF vars, modelVars, Active, Batch
<1> QED BY <1>1, <1>2, <1>3, <1>4, <1>5, <1>6, <1>9, <1>11, <1>12, <1>13, <1>14, <1>15, <1>17,
           <1>18, <1>19 DEF Next

(* An entry that was freed while a step used it.                           *)
Marked(entry) == entry.released = TRUE

(* Entries of a cache that have all their fields.                          *)
WholeEntry(entry) ==
  /\ DOMAIN entry = EntryFields /\ entry.users \in Int /\ entry.released \in BOOLEAN

Whole(stored) ==
  \A r \in DOMAIN stored : WholeEntry(stored[r])

(* free() takes away what nobody uses and marks the rest.                  *)
LEMMA FreedShape ==
  ASSUME NEW stored, NEW gone, NEW new, Whole(stored), new = Freed(stored, gone)
  PROVE  /\ \A r : r \in DOMAIN new <=> r \in DOMAIN stored /\ (r \in gone => stored[r].users > 0)
         /\ \A r \in DOMAIN new : /\ WholeEntry(new[r])
                                  /\ new[r].length = stored[r].length
                                  /\ new[r].users = stored[r].users
                                  /\ Marked(new[r]) <=> Marked(stored[r]) \/ r \in gone
<1> DEFINE kept == { r \in DOMAIN stored : r \in gone => stored[r].users > 0 }
           bit(r) == stored[r].released \/ r \in gone
           made == [r \in kept |-> [stored[r] EXCEPT !.released = bit(r)]]
<1>1. Freed(stored, gone) = made BY Zenon DEF Freed
<1>2. ASSUME NEW r \in kept
      PROVE  /\ DOMAIN made[r] = EntryFields /\ made[r].length = stored[r].length
             /\ made[r].users = stored[r].users /\ made[r].released = bit(r)
  <2>1. made[r] = [stored[r] EXCEPT !.released = bit(r)] OBVIOUS
  <2>2. DOMAIN stored[r] = EntryFields BY DEF Whole, WholeEntry
  <2> HIDE DEF bit, made
  <2> QED BY <2>1, <2>2 DEF EntryFields
<1>3. ASSUME NEW r \in kept PROVE bit(r) \in BOOLEAN /\ (bit(r) = TRUE <=> stored[r].released = TRUE \/ r \in gone)
  <2>1. stored[r].released \in BOOLEAN BY DEF Whole, WholeEntry
  <2> QED BY <2>1, Zenon
<1>4. \A r \in kept : stored[r].users \in Int BY DEF Whole, WholeEntry
<1>5. DOMAIN made = kept OBVIOUS
<1> HIDE DEF made, bit
<1> QED BY <1>1, <1>2, <1>3, <1>4, <1>5 DEF Whole, WholeEntry, Marked

(* release() gives one use back and drops what was freed meanwhile.        *)
LEMMA ReleasedShape ==
  ASSUME NEW stored, NEW leased, NEW new, Whole(stored), new = ReleaseLease(stored, leased)
  PROVE  LET left(r) == IF r \in leased THEN stored[r].users - 1 ELSE stored[r].users
         IN  /\ \A r : r \in DOMAIN new <=> r \in DOMAIN stored /\ (left(r) > 0 \/ ~Marked(stored[r]))
             /\ \A r \in DOMAIN new : /\ WholeEntry(new[r])
                                      /\ new[r].length = stored[r].length
                                      /\ new[r].users = left(r)
                                      /\ (Marked(new[r]) <=> Marked(stored[r]))
<1> DEFINE left(r) == IF r \in leased THEN stored[r].users - 1 ELSE stored[r].users
           one(r) == IF r \in leased THEN [stored[r] EXCEPT !.users = @ - 1] ELSE stored[r]
           all == [r \in DOMAIN stored |-> one(r)]
           made == Restrict(all, { r \in DOMAIN all : all[r].users > 0 \/ ~all[r].released })
<1>1. ReleaseLease(stored, leased) = made BY Zenon DEF ReleaseLease
<1>2. ASSUME NEW r \in DOMAIN stored
      PROVE  /\ DOMAIN one(r) = EntryFields /\ one(r).length = stored[r].length
             /\ one(r).users = left(r) /\ one(r).released = stored[r].released
             /\ left(r) \in Int
  BY DEF Whole, WholeEntry, EntryFields
<1>3. DOMAIN all = DOMAIN stored /\ \A r \in DOMAIN stored : all[r] = one(r) OBVIOUS
<1> HIDE DEF one, all
<1>4. ASSUME NEW r \in DOMAIN stored
      PROVE  all[r].users > 0 \/ ~all[r].released <=> left(r) > 0 \/ stored[r].released # TRUE
  <2>1. stored[r].released \in BOOLEAN BY DEF Whole, WholeEntry
  <2>2. ~all[r].released <=> stored[r].released # TRUE BY <1>2, <1>3, <2>1, Zenon
  <2>3. all[r].users = left(r) BY <1>2, <1>3
  <2> QED BY <2>2, <2>3, Zenon
<1>5. DOMAIN made = { r \in DOMAIN stored : left(r) > 0 \/ stored[r].released # TRUE }
  <2>1. DOMAIN made = { r \in DOMAIN all : all[r].users > 0 \/ ~all[r].released }
    BY Zenon DEF Restrict
  <2> HIDE DEF made, left
  <2> QED BY <1>3, <1>4, <2>1, Zenon
<1>6. \A r \in DOMAIN made : made[r] = all[r] /\ r \in DOMAIN stored
  <2>1. \A r \in DOMAIN made : made[r] = all[r] BY Zenon DEF Restrict
  <2> HIDE DEF made, left
  <2> QED BY <1>5, <2>1
<1> HIDE DEF made, left
<1>7. \A r \in DOMAIN stored : stored[r].released \in BOOLEAN BY DEF Whole, WholeEntry
<1>8. \A r \in DOMAIN made : /\ DOMAIN made[r] = EntryFields
                            /\ made[r].length = stored[r].length /\ made[r].users = left(r)
                            /\ made[r].released = stored[r].released /\ left(r) \in Int
  BY <1>2, <1>3, <1>6
<1>9. Whole(made) BY <1>6, <1>7, <1>8 DEF Whole, WholeEntry
<1> QED BY <1>1, <1>5, <1>8, <1>9 DEF left, Whole, Marked

(* acquire() counts one use of each entry it leases.                       *)
LEMMA AcquiredShape ==
  ASSUME NEW stored, NEW leased, NEW new, Whole(stored), new = AcquireEntries(stored, leased)
  PROVE  /\ DOMAIN new = DOMAIN stored
         /\ \A r \in DOMAIN stored :
              /\ WholeEntry(new[r])
              /\ new[r].length = stored[r].length /\ (Marked(new[r]) <=> Marked(stored[r]))
              /\ new[r].users = IF r \in leased THEN stored[r].users + 1 ELSE stored[r].users
<1> DEFINE made == AcquireEntries(stored, leased)
<1>1. DOMAIN made = DOMAIN stored BY DEF AcquireEntries
<1>2. ASSUME NEW r \in DOMAIN stored
      PROVE  /\ made[r].length = stored[r].length /\ made[r].released = stored[r].released
             /\ made[r].users = IF r \in leased THEN stored[r].users + 1 ELSE stored[r].users
             /\ DOMAIN made[r] = EntryFields /\ made[r].users \in Int
  <2>1. made[r] = IF r \in leased THEN [stored[r] EXCEPT !.users = @ + 1] ELSE stored[r]
    BY DEF AcquireEntries
  <2>2. DOMAIN stored[r] = EntryFields /\ stored[r].users \in Int BY DEF Whole, WholeEntry
  <2> HIDE DEF made
  <2> QED BY <2>1, <2>2 DEF EntryFields
<1>3. \A r \in DOMAIN stored : stored[r].released \in BOOLEAN BY DEF Whole, WholeEntry
<1> HIDE DEF made
<1>4. Whole(made) BY <1>1, <1>2, <1>3 DEF Whole, WholeEntry
<1> QED BY <1>1, <1>2, <1>4 DEF made, Whole, Marked

(* A tensor's made length changes nothing else of its entry.                *)
LEMMA LengthShape ==
  ASSUME NEW stored, NEW lengths, NEW new, Whole(stored), new = SetLength(stored, lengths)
  PROVE  /\ DOMAIN new = DOMAIN stored
         /\ \A r \in DOMAIN stored :
              /\ WholeEntry(new[r])
              /\ new[r].users = stored[r].users /\ (Marked(new[r]) <=> Marked(stored[r]))
              /\ new[r].length = IF r \in DOMAIN lengths THEN lengths[r] ELSE stored[r].length
<1> DEFINE made == SetLength(stored, lengths)
<1>1. DOMAIN made = DOMAIN stored BY DEF SetLength
<1>2. ASSUME NEW r \in DOMAIN stored
      PROVE  /\ made[r].users = stored[r].users /\ made[r].released = stored[r].released
             /\ made[r].length = IF r \in DOMAIN lengths THEN lengths[r] ELSE stored[r].length
             /\ DOMAIN made[r] = EntryFields
  <2>1. made[r] = IF r \in DOMAIN lengths THEN [stored[r] EXCEPT !.length = lengths[r]] ELSE stored[r]
    BY DEF SetLength
  <2>2. DOMAIN stored[r] = EntryFields BY DEF Whole, WholeEntry
  <2> HIDE DEF made
  <2> QED BY <2>1, <2>2 DEF EntryFields
<1>3. \A r \in DOMAIN stored : stored[r].released \in BOOLEAN /\ stored[r].users \in Int BY DEF Whole, WholeEntry
<1> HIDE DEF made
<1>4. Whole(made) BY <1>1, <1>2, <1>3 DEF Whole, WholeEntry
<1> QED BY <1>1, <1>2, <1>4 DEF made, Whole, Marked

(* allocate() adds an empty tensor.                                        *)
LEMMA AllocatedShape ==
  ASSUME NEW stored, NEW r, NEW capacity, NEW new, Whole(stored), new = Allocate(stored, r, capacity)
  PROVE  /\ \A o : o \in DOMAIN new <=> o \in DOMAIN stored \/ o = r
         /\ new[r].length = 0 /\ new[r].users = 0 /\ ~Marked(new[r])
         /\ \A o \in DOMAIN new : WholeEntry(new[o])
         /\ \A o \in DOMAIN stored : o # r => new[o] = stored[o]
<1> DEFINE made == Allocate(stored, r, capacity)
           entry == [length |-> 0, capacity |-> capacity, users |-> 0, released |-> FALSE]
<1>1. made = [o \in DOMAIN stored \cup {r} |-> IF o = r THEN entry ELSE stored[o]]
  BY Zenon DEF Allocate, Put
<1>2. DOMAIN entry = EntryFields /\ entry.length = 0 /\ entry.users = 0 /\ entry.released = FALSE
  BY DEF EntryFields
<1> HIDE DEF made, entry
<1>3. DOMAIN made = DOMAIN stored \cup {r} /\ made[r] = entry /\ \A o \in DOMAIN stored \ {r} : made[o] = stored[o]
  BY <1>1
<1>4. Whole(made)
  <2> SUFFICES ASSUME NEW o \in DOMAIN made
               PROVE  /\ DOMAIN made[o] = EntryFields
                      /\ made[o].users \in Int /\ made[o].released \in BOOLEAN
    BY DEF Whole, WholeEntry
  <2>1. CASE o = r
    <3>1. made[o] = entry BY <1>3, <2>1
    <3>2. FALSE \in BOOLEAN BY Zenon
    <3>3. made[o].released \in BOOLEAN BY <1>2, <3>1, <3>2, Zenon
    <3> QED BY <1>2, <3>1, <3>3
  <2>2. CASE o # r
    <3>1. o \in DOMAIN stored /\ made[o] = stored[o] BY <1>3, <2>2
    <3> QED BY <3>1 DEF Whole, WholeEntry
  <2> QED BY <2>1, <2>2
<1> QED BY <1>2, <1>3, <1>4 DEF made, Whole, Marked

(* Whose tensor a generation's cache must have, and the state of each.     *)
Holders(g) ==
  { r \in Active : request[r].model = g } \cup (IF step.generation = g THEN Batch ELSE {})

Accounted(g) ==
  /\ DOMAIN entries[g] = Holders(g) /\ Whole(entries[g])
  /\ \A r \in Holders(g) :
       /\ Marked(entries[g][r]) <=> r \notin Active
       /\ entries[g][r].users = IF step.generation = g /\ r \in Batch THEN 1 ELSE 0

EntriesInv ==
  Contiguous => /\ DOMAIN claims = Active \cup Batch
                /\ \A g \in Generations : Accounted(g)

(* A cache whose tensors only change their lengths.                        *)
SameTensors(old, new) ==
  /\ DOMAIN new = DOMAIN old /\ Whole(new)
  /\ \A r \in DOMAIN old : new[r].users = old[r].users /\ (Marked(new[r]) <=> Marked(old[r]))

(* The accounts of every generation add up to EntriesExact.                *)
LEMMA EntriesExactOf == Standing /\ EntriesInv => EntriesExact
<1> SUFFICES ASSUME Standing, EntriesInv, Contiguous PROVE EntriesExact!2
  BY DEF EntriesExact
<1>1. DOMAIN claims = Active \cup Batch BY DEF EntriesInv
<1>2. ASSUME NEW g \in Generations
      PROVE  /\ DOMAIN entries[g] = { r \in Active : request[r].model = g }
                                      \union (IF step.generation = g THEN Batch ELSE {})
             /\ \A r \in DOMAIN entries[g] : entries[g][r].released = (r \notin Active)
  <2>1. Accounted(g) BY DEF EntriesInv
  <2>2. ASSUME NEW r \in DOMAIN entries[g] PROVE entries[g][r].released = (r \notin Active)
    <3>1. entries[g][r].released \in BOOLEAN /\ (Marked(entries[g][r]) <=> r \notin Active)
      BY <2>1, Zenon DEF Accounted, Whole, WholeEntry, Marked
    <3> QED BY <3>1, Zenon DEF Marked
  <2> QED BY <2>1, <2>2 DEF Accounted, Holders
<1> QED BY <1>1, <1>2

(* Nothing of the accounts moves when nobody comes, goes, leases or frees. *)
LEMMA EntriesFrame ==
  ASSUME EntriesInv, backend' = backend, Active' = Active, Batch' = Batch,
         \A r \in Active : request'[r].model = request[r].model,
         Batch = {} \/ step'.generation = step.generation,
         DOMAIN claims' = DOMAIN claims,
         \A g \in Generations : SameTensors(entries[g], entries'[g])
  PROVE  EntriesInv'
<1> SUFFICES ASSUME Contiguous PROVE DOMAIN claims' = Active \cup Batch /\ \A g \in Generations : Accounted(g)'
  BY DEF EntriesInv, Contiguous
<1>1. ASSUME NEW g \in Generations PROVE Accounted(g)'
  <2>1. Accounted(g) BY DEF EntriesInv
  <2>2. Holders(g)' = Holders(g) BY DEF Holders
  <2>3. \A r : (step'.generation = g /\ r \in Batch) <=> (step.generation = g /\ r \in Batch)
    OBVIOUS
  <2>4. SameTensors(entries[g], entries'[g]) OBVIOUS
  <2> QED BY <2>1, <2>2, <2>3, <2>4 DEF Accounted, SameTensors
<1> QED BY <1>1 DEF EntriesInv

(* The same entries are the same tensors.                                  *)
LEMMA EntriesSame ==
  ASSUME EntriesInv, Contiguous, entries' = entries
  PROVE  \A g \in Generations : SameTensors(entries[g], entries'[g])
  BY DEF EntriesInv, Accounted, SameTensors

(* There are no tensors and no claims at the start.                        *)
LEMMA EntriesInit == Init => EntriesInv
<1> SUFFICES ASSUME Init PROVE EntriesInv OBVIOUS
<1>1. Active = {} BY DEF Init, Active, NewRequest
<1>2. Batch = {} BY DEF Init, Batch, NoStep
<1>3. ASSUME NEW g \in Generations PROVE Accounted(g)
  <2>1. entries[g] = << >> BY DEF Init
  <2>2. Holders(g) = {} BY <1>1, <1>2 DEF Holders
  <2>3. DOMAIN entries[g] = {} BY <2>1
  <2> QED BY <2>2, <2>3 DEF Accounted, Whole, WholeEntry
<1>4. DOMAIN claims = {} BY DEF Init
<1> QED BY <1>1, <1>2, <1>3, <1>4 DEF EntriesInv

(* add_request allocates the tensor and the claim of a new request.        *)
LEMMA AddEntries ==
  ASSUME Standing, Standing', EntriesInv, Contiguous, NEW r \in Requests, AddRequest(r)
  PROVE  EntriesInv'
<1> USE DEF Standing
<1>1. PICK prompt \in Prompts, eos \in EosTokens :
        \E shared \in {{}} \union { {o} : o \in Sharable(prompt) } :
          request' = [request EXCEPT ![r] = Admitted(r, prompt, eos, shared)]
  BY Zenon DEF AddRequest
<1>2. PICK shared \in {{}} \union { {o} : o \in Sharable(prompt) } :
        request' = [request EXCEPT ![r] = Admitted(r, prompt, eos, shared)]
  BY <1>1
<1>3. /\ Admitted(r, prompt, eos, shared).status = "active"
      /\ Admitted(r, prompt, eos, shared).model = installed
  BY DEF Admitted
<1>4. /\ UNCHANGED <<step, backend>> /\ installed # 0 /\ request[r].status = "new"
      /\ entries' = [entries EXCEPT ![installed] = Allocate(@, r, request'[r].prompt + MaxNew)]
      /\ claims' = Put(claims, r, [committed |-> 0, reserved |-> 0])
  BY DEF AddRequest, assembly
<1>5. r \notin Batch /\ r \notin Active BY <1>4 DEF Active
<1>6. request'[r] = Admitted(r, prompt, eos, shared) /\ \A o \in Requests \ {r} : request'[o] = request[o]
  BY <1>2
<1>7. Active' = Active \cup {r} BY <1>3, <1>6 DEF Active
<1>8. Batch' = Batch /\ step' = step BY <1>4 DEF Batch
<1>9. installed \in Generations BY <1>4 DEF Generations
<1>10. DOMAIN claims' = DOMAIN claims \cup {r} BY <1>4 DEF Put
<1>11. ASSUME NEW g \in Generations PROVE Accounted(g)'
  <2>1. Accounted(g) BY DEF EntriesInv
  <2>2. \A o \in Active : request'[o].model = request[o].model BY <1>5, <1>6 DEF Active
  <2>3. Holders(g)' = IF g = installed THEN Holders(g) \cup {r} ELSE Holders(g)
    <3>1. { o \in Active' : request'[o].model = g }
            = IF g = installed THEN { o \in Active : request[o].model = g } \cup {r}
              ELSE { o \in Active : request[o].model = g }
      BY <1>3, <1>5, <1>6, <1>7, <2>2
    <3> QED BY <1>8, <3>1 DEF Holders
  <2>4. CASE g # installed
    <3>1. entries'[g] = entries[g] BY <1>4, <2>4
    <3>2. \A o \in Holders(g) : o \in Active <=> o \in Active'
      BY <1>5, <1>7 DEF Holders
    <3>3. Holders(g)' = Holders(g) BY <2>3, <2>4
    <3> QED BY <1>8, <2>1, <3>1, <3>2, <3>3 DEF Accounted
  <2>5. CASE g = installed
    <3> DEFINE n == request'[r].prompt + MaxNew
    <3>1. entries'[g] = Allocate(entries[g], r, n) BY <1>4, <2>5
    <3> HIDE DEF n
    <3>2. /\ DOMAIN entries'[g] = DOMAIN entries[g] \cup {r} /\ Whole(entries'[g])
          /\ entries'[g][r].users = 0 /\ ~Marked(entries'[g][r])
          /\ \A o \in DOMAIN entries[g] \ {r} : entries'[g][o] = entries[g][o]
      <4>1. Whole(entries[g]) BY <2>1 DEF Accounted
      <4>2. /\ \A o : o \in DOMAIN entries'[g] <=> o \in DOMAIN entries[g] \/ o = r
            /\ entries'[g][r].users = 0 /\ ~Marked(entries'[g][r])
            /\ \A o \in DOMAIN entries'[g] : WholeEntry(entries'[g][o])
            /\ \A o \in DOMAIN entries[g] : o # r => entries'[g][o] = entries[g][o]
        BY <3>1, <4>1, AllocatedShape
      <4> QED BY <4>2 DEF Whole
    <3>3. r \notin Holders(g) BY <1>5 DEF Holders
    <3>4. Holders(g)' = Holders(g) \cup {r} BY <2>3, <2>5
    <3>5. \A o \in Holders(g) : o # r /\ (o \in Active <=> o \in Active')
      BY <1>7, <3>3
    <3>6. ~Marked(entries'[g][r]) BY <3>2, Zenon
    <3> QED BY <1>5, <1>7, <1>8, <2>1, <3>2, <3>4, <3>5, <3>6 DEF Accounted
  <2> QED BY <2>4, <2>5
<1>12. Contiguous' BY <1>4 DEF Contiguous
<1> QED BY <1>7, <1>8, <1>10, <1>11 DEF EntriesInv

(* Cancelling takes a request out, its tensor at once or when its step ends. *)
LEMMA FreeEntries ==
  ASSUME Standing, EntriesInv, Contiguous, NEW r \in Requests, FreeRequest(r)
  PROVE  EntriesInv'
<1> USE DEF Standing
<1>1. /\ request[r].status = "active" /\ request' = Without({r}) /\ UNCHANGED <<step, backend>>
      /\ entries' = [entries EXCEPT ![installed] = Freed(@, {r})]
      /\ claims' = FreeClaims(claims, {r} \ Batch)
  BY DEF FreeRequest, assembly
<1>2. /\ request'[r].status = "dropped"
      /\ \A o \in Requests \ {r} : request'[o] = request[o]
  BY <1>1, WithoutShape
<1>3. r \in Active BY <1>1 DEF Active
<1>4. Active' = Active \ {r} BY <1>2 DEF Active
<1>5. Batch' = Batch BY <1>1 DEF Batch
<1>6. DOMAIN claims' = DOMAIN claims \ ({r} \ Batch) BY <1>1, Zenon DEF FreeClaims, Restrict
<1>7. DOMAIN claims' = Active' \cup Batch
  <2>1. DOMAIN claims = Active \cup Batch BY DEF EntriesInv
  <2> QED BY <1>3, <1>4, <1>6, <2>1
<1>8. ASSUME NEW g \in Generations PROVE Accounted(g)'
  <2>1. Accounted(g) BY DEF EntriesInv
  <2>2. \A o \in Active \ {r} : request'[o].model = request[o].model BY <1>2 DEF Active
  <2>3. \A o \in Active : request[o].model = installed OBVIOUS
  <2>4. step'.generation = step.generation BY <1>1
  <2>5. CASE g # installed
    <3>1. entries'[g] = entries[g] BY <1>1, <2>5
    <3>2. Holders(g) = IF step.generation = g THEN Batch ELSE {} BY <2>3, <2>5 DEF Holders
    <3>3. Holders(g)' = Holders(g) BY <1>4, <1>5, <2>2, <2>3, <2>4, <2>5, <3>2 DEF Holders
    <3>4. \A o \in Holders(g) : o # r /\ o \notin Active
      <4> SUFFICES ASSUME NEW o \in Holders(g), o \in Active PROVE FALSE BY <1>3
      <4>1. o \in Batch /\ step.generation = g BY <3>2
      <4> QED BY <2>5, <4>1
    <3> QED BY <1>4, <1>5, <2>1, <2>4, <3>1, <3>3, <3>4 DEF Accounted, Whole
  <2>6. CASE g = installed
    <3>1. entries'[g] = Freed(entries[g], {r}) BY <1>1, <2>6
    <3>2. Whole(entries[g]) /\ DOMAIN entries[g] = Holders(g) BY <2>1 DEF Accounted, Whole
    <3>3. /\ \A o : o \in DOMAIN entries'[g] <=> o \in DOMAIN entries[g] /\ (o \in {r} => entries[g][o].users > 0)
          /\ \A o \in DOMAIN entries'[g] :
               /\ WholeEntry(entries'[g][o])
               /\ entries'[g][o].users = entries[g][o].users
               /\ Marked(entries'[g][o]) <=> Marked(entries[g][o]) \/ o \in {r}
      BY <3>1, <3>2, FreedShape
    <3>4. r \in Holders(g) BY <1>3, <2>3, <2>6 DEF Holders
    <3>5. entries[g][r].users = IF step.generation = g /\ r \in Batch THEN 1 ELSE 0
      BY <2>1, <3>4 DEF Accounted, Whole
    <3>6. r \in Batch => step.generation = g BY <1>3, <2>6
    <3>7. DOMAIN entries'[g] = Holders(g) \ ({r} \ Batch)
      BY <3>2, <3>3, <3>5, <3>6
    <3>8. Holders(g)' = Holders(g) \ ({r} \ Batch)
      <4>1. { o \in Active' : request'[o].model = g } = { o \in Active : request[o].model = g } \ {r}
        BY <1>4, <2>2
      <4> QED BY <1>5, <2>4, <3>6, <4>1 DEF Holders
    <3>9. \A o \in Holders(g)' : o \in Holders(g) /\ (o \notin Active' <=> o \notin Active \/ o = r)
      BY <1>4, <3>8
    <3>10. \A o \in Holders(g) : /\ Marked(entries[g][o]) <=> o \notin Active
                                 /\ entries[g][o].users = IF step.generation = g /\ o \in Batch THEN 1 ELSE 0
      BY <2>1 DEF Accounted, Whole
    <3>11. ASSUME NEW o \in Holders(g)'
           PROVE  /\ Marked(entries'[g][o]) <=> o \notin Active'
                  /\ entries'[g][o].users = IF step'.generation = g /\ o \in Batch' THEN 1 ELSE 0
      <4>1. o \in DOMAIN entries'[g] /\ o \in Holders(g) BY <3>7, <3>8
      <4>2. Marked(entries'[g][o]) <=> Marked(entries[g][o]) \/ o = r
        BY <3>3, <4>1, Zenon
      <4>3. Marked(entries'[g][o]) <=> o \notin Active' BY <3>9, <3>10, <4>1, <4>2, Zenon
      <4>4. entries'[g][o].users = entries[g][o].users BY <3>3, <4>1
      <4> QED BY <1>5, <2>4, <3>10, <4>1, <4>3, <4>4
    <3> QED BY <3>3, <3>7, <3>8, <3>11 DEF Accounted, Whole
  <2> QED BY <2>5, <2>6
<1> QED BY <1>5, <1>7, <1>8 DEF EntriesInv

(* A lease counts once.                                                    *)
LEMMA AcquireEntriesInv ==
  ASSUME Standing, EntriesInv, Contiguous, Acquire
  PROVE  EntriesInv'
<1> USE DEF Standing
<1>1. PICK batch, work :
          /\ batch \in (SUBSET Active) \ {{}}
          /\ work \in [batch -> UNION { Plans(r) : r \in batch }]
          /\ step' = [at |-> "leased", generation |-> installed, work |-> work]
          /\ claims' = Reserve(claims, work)
          /\ entries' = [entries EXCEPT ![installed] = AcquireEntries(@, batch)]
  BY DEF Acquire
<1>2. UNCHANGED <<backend, request>> /\ step.at = "idle" BY DEF Acquire, assembly
<1>3. Batch' = batch /\ step'.generation = installed BY <1>1 DEF Batch
<1>4. Batch = {} BY <1>2
<1>5. Active' = Active BY <1>2 DEF Active
<1>6. batch # {} /\ batch \in SUBSET Active BY <1>1
<1>7. DOMAIN claims' = DOMAIN claims BY <1>1 DEF Reserve
<1>8. DOMAIN claims' = Active' \cup Batch' BY <1>3, <1>4, <1>5, <1>6, <1>7 DEF EntriesInv
<1>9. ASSUME NEW g \in Generations PROVE Accounted(g)'
  <2>1. Accounted(g) BY DEF EntriesInv
  <2>2. \A r \in Active : request[r].model = installed OBVIOUS
  <2>3. Holders(g) = { r \in Active : request[r].model = g } BY <1>4 DEF Holders
  <2>4. Holders(g)' = Holders(g) BY <1>2, <1>3, <1>5, <1>6, <2>2, <2>3 DEF Holders
  <2>5. Whole(entries[g]) /\ DOMAIN entries[g] = Holders(g) BY <2>1 DEF Accounted, Whole
  <2>6. \A r \in Holders(g) : /\ Marked(entries[g][r]) <=> r \notin Active
                              /\ entries[g][r].users = 0
    BY <1>4, <2>1 DEF Accounted, Whole
  <2>7. CASE g # installed
    <3>1. entries'[g] = entries[g] BY <1>1, <2>7
    <3> QED BY <1>3, <1>5, <2>4, <2>5, <2>6, <2>7, <3>1 DEF Accounted, Whole
  <2>8. CASE g = installed
    <3>1. entries'[g] = AcquireEntries(entries[g], batch) BY <1>1, <2>8
    <3>2. /\ DOMAIN entries'[g] = DOMAIN entries[g]
          /\ \A r \in DOMAIN entries[g] :
               /\ WholeEntry(entries'[g][r])
               /\ (Marked(entries'[g][r]) <=> Marked(entries[g][r]))
               /\ entries'[g][r].users = IF r \in batch THEN entries[g][r].users + 1 ELSE entries[g][r].users
      BY <2>5, <3>1, AcquiredShape
    <3>3. ASSUME NEW r \in Holders(g)'
          PROVE  /\ Marked(entries'[g][r]) <=> r \notin Active'
                 /\ entries'[g][r].users = IF step'.generation = g /\ r \in Batch' THEN 1 ELSE 0
      <4>1. r \in Holders(g) /\ r \in DOMAIN entries[g] BY <2>4, <2>5
      <4>2. Marked(entries'[g][r]) <=> r \notin Active' BY <1>5, <2>6, <3>2, <4>1, Zenon
      <4>3. entries'[g][r].users = IF r \in batch THEN 1 ELSE 0 BY <2>6, <3>2, <4>1
      <4> QED BY <1>3, <2>8, <4>2, <4>3
    <3> QED BY <2>4, <2>5, <3>2, <3>3 DEF Accounted, Whole
  <2> QED BY <2>7, <2>8
<1> QED BY <1>8, <1>9 DEF EntriesInv

(* A step ends: its leases are given back, and gone are those requests that *)
(* were cancelled before and those that leave now.                         *)
LEMMA EndEntries ==
  ASSUME Standing, Standing', EntriesInv, Contiguous, NEW gone \in SUBSET Here,
         backend' = backend, step' = NoStep,
         Active' = Active \ gone, \A r \in Active' : request'[r].model = request[r].model,
         entries' = [entries EXCEPT ![step.generation] = Freed(ReleaseLease(@, Batch), gone)],
         DOMAIN claims' = DOMAIN claims \ (gone \cup (Batch \ Here))
  PROVE  EntriesInv'
<1> USE DEF Standing
<1>1. Batch' = {} BY DEF Batch, NoStep
<1>2. Here = Batch \cap Active BY DEF Here
<1>3. DOMAIN claims' = Active' \cup Batch' BY <1>1, <1>2 DEF EntriesInv
<1>4. ASSUME NEW g \in Generations PROVE Accounted(g)'
  <2>1. Accounted(g) BY DEF EntriesInv
  <2>2. Whole(entries[g]) /\ DOMAIN entries[g] = Holders(g) BY <2>1 DEF Accounted, Whole
  <2>3. Holders(g)' = { r \in Active' : request[r].model = g } BY <1>1 DEF Holders
  <2>4. \A r \in Holders(g) : /\ Marked(entries[g][r]) <=> r \notin Active
                              /\ entries[g][r].users = IF step.generation = g /\ r \in Batch THEN 1 ELSE 0
    BY <2>1 DEF Accounted, Whole
  <2>5. \A r \in Batch : r \in Active => request[r].model = step.generation OBVIOUS
  <2>6. CASE g # step.generation
    <3>1. entries'[g] = entries[g] BY <2>6
    <3>2. Holders(g) = { r \in Active : request[r].model = g } BY <2>6 DEF Holders
    <3>3. \A r \in gone : request[r].model # g BY <1>2, <2>5, <2>6
    <3>4. Holders(g)' = Holders(g) BY <2>3, <3>2, <3>3
    <3>5. \A r \in Holders(g) : r \in Active /\ r \in Active' BY <3>2, <3>3
    <3> QED BY <1>1, <2>2, <2>4, <2>6, <3>1, <3>4, <3>5 DEF Accounted, Whole
  <2>7. CASE g = step.generation
    <3> DEFINE mid == ReleaseLease(entries[g], Batch)
               left(r) == IF r \in Batch THEN entries[g][r].users - 1 ELSE entries[g][r].users
    <3>1. entries'[g] = Freed(mid, gone) BY <2>7
    <3>2. /\ \A r : r \in DOMAIN mid <=> r \in DOMAIN entries[g] /\ (left(r) > 0 \/ ~Marked(entries[g][r]))
          /\ \A r \in DOMAIN mid : WholeEntry(mid[r])
          /\ \A r \in DOMAIN mid : mid[r].users = left(r) /\ (Marked(mid[r]) <=> Marked(entries[g][r]))
      BY <2>2, ReleasedShape
    <3> HIDE DEF mid
    <3>3. \A r \in Holders(g) : left(r) = 0 BY <2>4, <2>7
    <3>4. DOMAIN mid = Holders(g) \cap Active
      <4>1. \A r \in Holders(g) : ~(left(r) > 0) BY <3>3
      <4>2. \A r \in Holders(g) : (left(r) > 0 \/ ~Marked(entries[g][r])) <=> r \in Active
        BY <2>4, <4>1, Zenon
      <4>3. \A r : r \in DOMAIN mid <=> r \in Holders(g) /\ (left(r) > 0 \/ ~Marked(entries[g][r]))
        BY <2>2, <3>2, Zenon
      <4>4. \A r : r \in DOMAIN mid <=> r \in Holders(g) \cap Active BY <4>2, <4>3, Zenon
      <4> QED BY <4>4, Zenon
    <3>11. Whole(mid) BY <3>2 DEF Whole
    <3>5. /\ \A r : r \in DOMAIN entries'[g] <=> r \in DOMAIN mid /\ (r \in gone => mid[r].users > 0)
          /\ \A r \in DOMAIN entries'[g] :
               /\ WholeEntry(entries'[g][r])
               /\ entries'[g][r].users = mid[r].users
               /\ Marked(entries'[g][r]) <=> Marked(mid[r]) \/ r \in gone
      BY <3>1, <3>11, FreedShape
    <3>6. \A r \in DOMAIN mid : mid[r].users = 0 BY <3>2, <3>3, <3>4
    <3>7. DOMAIN entries'[g] = (Holders(g) \cap Active) \ gone
      <4>1. \A r \in DOMAIN mid : ~(mid[r].users > 0) BY <3>6
      <4>2. \A r : r \in DOMAIN entries'[g] <=> r \in DOMAIN mid /\ (r \in gone => mid[r].users > 0)
        BY <3>5, Zenon
      <4>3. \A r : r \in DOMAIN entries'[g] <=> r \in DOMAIN mid \ gone BY <4>1, <4>2, Zenon
      <4> QED BY <3>4, <4>3, Zenon
    <3>8. Holders(g) \cap Active = { r \in Active : request[r].model = g }
      BY <2>5, <2>7 DEF Holders
    <3>9. Holders(g)' = DOMAIN entries'[g] BY <2>3, <3>7, <3>8
    <3>10. ASSUME NEW r \in Holders(g)'
           PROVE  /\ Marked(entries'[g][r]) <=> r \notin Active'
                  /\ entries'[g][r].users = IF step'.generation = g /\ r \in Batch' THEN 1 ELSE 0
      <4>1. r \in DOMAIN entries'[g] /\ r \in DOMAIN mid /\ r \in Holders(g) /\ r \in Active
            /\ r \notin gone /\ r \in Active'
        BY <3>4, <3>7, <3>9
      <4>2. (Marked(mid[r]) <=> Marked(entries[g][r])) BY <3>2, <4>1, Zenon
      <4>3. ~(Marked(entries[g][r])) BY <2>4, <4>1, Zenon
      <4>4. ~(Marked(entries'[g][r])) BY <3>5, <4>1, <4>2, <4>3, Zenon
      <4>5. entries'[g][r].users = 0 BY <3>5, <3>6, <4>1
      <4> QED BY <1>1, <4>1, <4>4, <4>5
    <3> QED BY <3>5, <3>9, <3>10 DEF Accounted, Whole
  <2> QED BY <2>6, <2>7
<1> QED BY <1>3, <1>4 DEF EntriesInv

(* A step of the batch that has not ended: it leases the same tensors.     *)
LEMMA EntriesBatch ==
  ASSUME Standing, EntriesInv, UNCHANGED <<backend, request, claims>>, Batch' = Batch,
         Batch = {} \/ step'.generation = step.generation,
         Contiguous => \A g \in Generations : SameTensors(entries[g], entries'[g])
  PROVE  EntriesInv'
<1>1. Active' = Active BY DEF Active
<1>2. CASE Contiguous
  BY <1>1, <1>2, EntriesFrame
<1>3. CASE ~Contiguous
  BY <1>3 DEF EntriesInv, Contiguous
<1> QED BY <1>2, <1>3

(* New lengths of some tensors of one generation.                          *)
LEMMA EntriesLengths ==
  ASSUME Standing, EntriesInv, Contiguous, NEW lengths,
         entries' = [entries EXCEPT ![step.generation] = SetLength(@, lengths)]
  PROVE  \A g \in Generations : SameTensors(entries[g], entries'[g])
<1> SUFFICES ASSUME NEW g \in Generations PROVE SameTensors(entries[g], entries'[g]) OBVIOUS
<1>1. Whole(entries[g]) BY DEF EntriesInv, Accounted
<1>2. DOMAIN entries = Generations BY DEF Standing
<1>3. CASE g = step.generation
  <2>1. entries'[g] = SetLength(entries[g], lengths) BY <1>2, <1>3
  <2>2. /\ DOMAIN entries'[g] = DOMAIN entries[g]
        /\ \A r \in DOMAIN entries[g] :
             /\ WholeEntry(entries'[g][r]) /\ entries'[g][r].users = entries[g][r].users
             /\ (Marked(entries'[g][r]) <=> Marked(entries[g][r]))
    BY <1>1, <2>1, LengthShape
  <2> QED BY <2>2 DEF SameTensors, Whole
<1>4. CASE g # step.generation
  <2>1. entries'[g] = entries[g] BY <1>2, <1>4
  <2> QED BY <1>1, <2>1 DEF SameTensors
<1> QED BY <1>3, <1>4

(* A step that fails or moves on keeps its batch.                          *)
LEMMA FailedBatch ==
  ASSUME Standing, StepFailed
  PROVE  Batch' = Batch /\ step'.generation = step.generation /\ step'.at = "failed"
         /\ step'.work = step.work
  BY DEF Standing, StepFailed, Batch

(* A forward keeps its batch.                                              *)
LEMMA StoredBatch ==
  ASSUME Standing, StoreQueries
  PROVE  Batch' = Batch /\ step'.generation = step.generation /\ step'.at = "forwarded"
<1> DEFINE work == [r \in Batch |->
                       [step.work[r] EXCEPT !.result = Target(step.work[r], Computed(r))]]
<1>1. DOMAIN work = Batch /\ step' = [step EXCEPT !.at = "forwarded", !.work = work]
  BY Zenon DEF StoreQueries
<1> HIDE DEF work
<1> QED BY <1>1 DEF Batch, Standing

(* Every step keeps the accounts of tensors and claims.                    *)
LEMMA EntriesStep == Standing /\ Standing' /\ EntriesInv /\ [Next]_vars => EntriesInv'
<1> SUFFICES ASSUME Standing, Standing', EntriesInv, [Next]_vars PROVE EntriesInv' OBVIOUS
<1>0. Contiguous /\ entries' = entries => \A g \in Generations : SameTensors(entries[g], entries'[g])
  BY EntriesSame
<1>1. CASE Load
  <2>1. UNCHANGED <<backend, request, claims, step, entries>> BY <1>1 DEF Load, assembly
  <2> QED BY <1>0, <2>1, EntriesBatch DEF Batch
<1>2. CASE Initialize
  <2>1. UNCHANGED <<backend, request, claims, step, entries>> BY <1>2 DEF Initialize, assembly
  <2> QED BY <1>0, <2>1, EntriesBatch DEF Batch
<1>3. CASE Install
  <2>1. UNCHANGED <<backend, request, claims, step, entries>> BY <1>3 DEF Install, assembly
  <2> QED BY <1>0, <2>1, EntriesBatch DEF Batch
<1>4. ASSUME backend' = backend, ~Contiguous PROVE EntriesInv' BY <1>4 DEF EntriesInv, Contiguous
<1>5. ASSUME NEW r \in Requests, AddRequest(r) PROVE EntriesInv'
  <2>1. backend' = backend BY <1>5 DEF AddRequest, assembly
  <2> QED BY <1>4, <1>5, <2>1, AddEntries
<1>6. ASSUME NEW r \in Requests, FreeRequest(r) PROVE EntriesInv'
  <2>1. backend' = backend BY <1>6 DEF FreeRequest, assembly
  <2> QED BY <1>4, <1>6, <2>1, FreeEntries
<1>7. CASE Acquire
  <2>1. backend' = backend BY <1>7 DEF Acquire, assembly
  <2> QED BY <1>4, <1>7, <2>1, AcquireEntriesInv
<1>8. CASE Execute
  <2>1. UNCHANGED <<backend, request, claims, entries>> BY <1>8 DEF Execute, assembly
  <2>2. CASE StepFailed BY <1>0, <2>1, <2>2, EntriesBatch, FailedBatch
  <2>3. CASE ~StepFailed
    <3>1. Batch \subseteq Active BY <1>8, <2>3 DEF Execute
    <3>2. PICK work : /\ step' = [step EXCEPT !.at = "running", !.generation = installed, !.work = work]
                      /\ DOMAIN work = Batch
      BY <1>8, <2>3, ZenonT(30) DEF Execute
    <3>3. Batch' = Batch /\ step'.generation = installed BY <3>2 DEF Batch, Standing
    <3>4. Batch = {} \/ step'.generation = step.generation BY <3>1, <3>3 DEF Standing
    <3> QED BY <1>0, <2>1, <3>3, <3>4, EntriesBatch
  <2> QED BY <2>2, <2>3
<1>9. CASE ContiguousForward
  <2>1. UNCHANGED <<backend, request, claims>> /\ Contiguous BY <1>9 DEF ContiguousForward, assembly
  <2>2. CASE StepFailed /\ UNCHANGED entries BY <1>0, <2>1, <2>2, EntriesBatch, FailedBatch
  <2>3. CASE ~(StepFailed /\ UNCHANGED entries)
    <3>1. PICK lengths : entries' = [entries EXCEPT ![step.generation] = SetLength(@, lengths)]
      BY <1>9, <2>3 DEF ContiguousForward
    <3>2. StoreQueries BY <1>9, <2>3 DEF ContiguousForward
    <3>3. \A g \in Generations : SameTensors(entries[g], entries'[g])
      BY <2>1, <3>1, EntriesLengths
    <3> QED BY <2>1, <3>2, <3>3, EntriesBatch, StoredBatch
  <2> QED BY <2>2, <2>3
<1>10. CASE PagedForward
  <2>1. backend' = backend /\ ~Contiguous BY <1>10 DEF PagedForward, assembly
  <2> QED BY <1>4, <2>1
<1>11. CASE Sample
  <2>1. UNCHANGED <<backend, request, claims, entries>> BY <1>11 DEF Sample, assembly
  <2>2. CASE StepFailed BY <1>0, <2>1, <2>2, EntriesBatch, FailedBatch
  <2>3. CASE step' = [step EXCEPT !.at = "done"]
    <3>1. Batch' = Batch /\ step'.generation = step.generation BY <2>3 DEF Batch, Standing
    <3> QED BY <1>0, <2>1, <3>1, EntriesBatch
  <2> QED BY <1>11, <2>2, <2>3 DEF Sample
<1>12. CASE AcceptAndCompact
  <2>1. UNCHANGED <<backend, request, claims>> BY <1>12 DEF AcceptAndCompact, assembly
  <2>2. CASE StepFailed /\ UNCHANGED entries BY <1>0, <2>1, <2>2, EntriesBatch, FailedBatch
  <2>3. CASE ~(StepFailed /\ UNCHANGED entries)
    <3>1. PICK lengths : entries' = [entries EXCEPT ![step.generation] = SetLength(@, lengths)]
      BY <1>12, <2>3 DEF AcceptAndCompact
    <3> DEFINE work == [r \in Batch |-> IF r \in Sampled THEN Verified(step.work[r])
                                                          ELSE step.work[r]]
    <3>2. step' = [step EXCEPT !.at = "done", !.work = work] /\ DOMAIN work = Batch
      BY <1>12, <2>3, Zenon DEF AcceptAndCompact
    <3> HIDE DEF work
    <3>3. Batch' = Batch /\ step'.generation = step.generation BY <3>2 DEF Batch, Standing
    <3>4. Contiguous => \A g \in Generations : SameTensors(entries[g], entries'[g])
      BY <3>1, EntriesLengths
    <3> QED BY <2>1, <3>3, <3>4, EntriesBatch
  <2> QED BY <2>2, <2>3
<1>13. CASE StepFails
  <2>1. UNCHANGED <<backend, request, claims, entries>> /\ StepFailed BY <1>13 DEF StepFails, assembly
  <2> QED BY <1>0, <2>1, EntriesBatch, FailedBatch
<1>14. CASE Apply
  <2>1. /\ request' = After /\ step' = NoStep /\ backend' = backend
        /\ claims' = FreeClaims(Commit(claims, [r \in Here |-> Count(r)]), Over \union (Batch \ Here))
        /\ entries' = [entries EXCEPT ![step.generation] = Freed(ReleaseLease(@, Batch), Over)]
    BY <1>14 DEF Apply, assembly
  <2>2. \A r \in Requests : /\ request'[r].model = request[r].model
                            /\ request'[r].status = IF r \in Over THEN "finished" ELSE request[r].status
    BY <2>1, AfterShape DEF Standing
  <2>3. Over \in SUBSET Here BY DEF Over
  <2>4. Here \subseteq Active BY DEF Here
  <2>5. Active' = Active \ Over BY <2>2, <2>3, <2>4 DEF Active
  <2>6. \A r \in Active' : request'[r].model = request[r].model BY <2>2 DEF Active
  <2>7. DOMAIN claims' = DOMAIN claims \ (Over \cup (Batch \ Here))
    BY <2>1, Zenon DEF FreeClaims, Commit, Restrict
  <2> QED BY <1>4, <2>1, <2>3, <2>5, <2>6, <2>7, EndEntries
<1>15. CASE ApplyFailure
  <2>1. /\ request' = Without(Here) /\ step' = NoStep /\ backend' = backend
        /\ claims' = FreeClaims(claims, Batch)
        /\ entries' = [entries EXCEPT ![step.generation] = Freed(ReleaseLease(@, Batch), Here)]
    BY <1>15 DEF ApplyFailure, assembly
  <2>2. Here \in SUBSET Here /\ Here \in SUBSET Requests /\ Here \subseteq Active /\ Here \subseteq Batch
    BY DEF Here, Active
  <2>3. /\ \A r \in Here : request'[r].status = "dropped"
        /\ \A r \in Requests \ Here : request'[r] = request[r]
    BY <2>1, <2>2, WithoutShape DEF Standing
  <2>4. Active' = Active \ Here BY <2>2, <2>3 DEF Active
  <2>5. \A r \in Active' : request'[r].model = request[r].model BY <2>3, <2>4 DEF Active
  <2>6. DOMAIN claims' = DOMAIN claims \ Batch BY <2>1, Zenon DEF FreeClaims, Restrict
  <2>7. Batch = Here \cup (Batch \ Here) BY <2>2
  <2>8. DOMAIN claims' = DOMAIN claims \ (Here \cup (Batch \ Here)) BY <2>6, <2>7, Zenon
  <2> QED BY <1>4, <2>1, <2>2, <2>4, <2>5, <2>8, EndEntries
<1>16. CASE UNCHANGED vars
  <2>1. UNCHANGED <<backend, request, claims, step, entries>> BY <1>16 DEF vars, assembly
  <2> QED BY <1>0, <2>1, EntriesBatch DEF Batch
<1> QED BY <1>1, <1>2, <1>3, <1>5, <1>6, <1>7, <1>8, <1>9, <1>10, <1>11, <1>12, <1>13, <1>14, <1>15,
           <1>16 DEF Next

(* EntriesExact: a contiguous tensor exists as long as its request is      *)
(* active or a step holds its lease, and so does the scheduler's claim.    *)
THEOREM WorkerEntriesExact == Spec => []EntriesExact
<1>1. Init => Standing /\ EntriesInv BY StandingInit, EntriesInit
<1>2. Standing /\ EntriesInv /\ [Next]_vars => (Standing /\ EntriesInv)'
  BY StandingStep, EntriesStep
<1>3. Standing /\ EntriesInv => EntriesExact BY EntriesExactOf
<1> QED BY <1>1, <1>2, <1>3, PTL DEF Spec

PlanFields == {"context", "start", "input", "lookahead", "output", "blocks", "readonly",
               "draft", "result", "cached"}

(* The numbers and the draft of a plan fit together.                       *)
Sized(plan) ==
  /\ DOMAIN plan = PlanFields
  /\ plan.context \in Seq(Nat) /\ plan.input \in Nat \ {0}
  /\ plan.start \in Nat /\ plan.lookahead \in Nat /\ plan.output \in Nat
  /\ plan.readonly \in Nat /\ plan.readonly * BlockSize <= plan.start
  /\ plan.output <= plan.lookahead + 1
  /\ plan.output = 0 => plan.start + plan.input < Len(plan.context)
  /\ plan.output # 0 => plan.start + plan.input = Len(plan.context)
  /\ IsTree(plan.draft) /\ Size(plan.draft) <= plan.lookahead
  /\ plan.output = 0 \/ decoder = "standard" => Size(plan.draft) = 0

(* The text each query of a plan stands for: the context up to it, and     *)
(* below the input the path of its draft node.                             *)
Writing(l, base, tok, f) ==
  f = [q \in DOMAIN l |-> Append(IF l[q] = 0 THEN base ELSE f[l[q]], tok[q])]
Texts(plan) ==
  CHOOSE f : Writing(DraftLayout(plan.input, plan.draft), Upto(plan.context, plan.start),
                     QueryTokens(plan), f)

Placing(row, f) ==
  f = [q \in Queries(row) |-> IF row.layout[q] = 0 THEN row.computed ELSE f[row.layout[q]] + 1]

(* The semantic position of a query is one after its parent's.             *)
LEMMA PositionsShape ==
  ASSUME NEW row, NEW l, NEW N \in Nat, row.layout = l, DOMAIN l = 1 .. N, Parents(l, N),
         row.computed \in Nat
  PROVE  \A q \in 1 .. N :
           SemanticPositions(row)[q] =
             IF l[q] = 0 THEN row.computed ELSE SemanticPositions(row)[l[q]] + 1
<1> DEFINE R == [x \in (1 .. N) \X Int |-> x[2] + 1]
           base == row.computed - 1
<1>1. base \in Int /\ base + 1 = row.computed OBVIOUS
<1> HIDE DEF base
<1>2. \A q \in 1 .. N : \A v \in Int : R[<<q, v>>] = v + 1 OBVIOUS
<1> HIDE DEF R
<1>4. Rule(R, N, Int)
  <2> SUFFICES ASSUME NEW q \in 1 .. N, NEW v \in Int PROVE R[<<q, v>>] \in Int
    BY Zenon DEF Rule
  <2>1. R[<<q, v>>] = v + 1 BY <1>2
  <2> QED BY <2>1
<1>5. PICK f \in [0 .. N -> Int] : Along(l, N, R, base, f) BY <1>1, <1>4, AlongParents
<1> DEFINE g == [q \in 1 .. N |-> f[q]]
<1>6. ASSUME NEW q \in 1 .. N PROVE g[q] = IF l[q] = 0 THEN row.computed ELSE g[l[q]] + 1
  <2>1. l[q] \in 0 .. q - 1 BY DEF Parents
  <2>2. l[q] \in 0 .. N /\ (l[q] # 0 => l[q] \in 1 .. N) BY <2>1
  <2>3. f[l[q]] \in Int BY <2>2
  <2>4. f[q] = R[<<q, f[l[q]]>>] /\ f[0] = base BY <1>5 DEF Along
  <2>5. f[q] = f[l[q]] + 1 BY <1>2, <2>3, <2>4
  <2> QED BY <1>1, <2>2, <2>4, <2>5
<1> HIDE DEF g
<1>7. DOMAIN g = 1 .. N /\ g = [q \in 1 .. N |-> g[q]] BY DEF g
<1>8. g = [q \in 1 .. N |-> IF l[q] = 0 THEN row.computed ELSE g[l[q]] + 1] BY <1>6, <1>7
<1>9. Placing(row, g) BY <1>8, Zenon DEF Placing, Queries
<1>10. SemanticPositions(row) = CHOOSE h : Placing(row, h)
  BY Zenon DEF SemanticPositions, Placing
<1>11. Placing(row, SemanticPositions(row)) BY <1>9, <1>10, Zenon
<1> DEFINE s == SemanticPositions(row)
<1> HIDE DEF s
<1>12. s = [q \in 1 .. N |-> IF l[q] = 0 THEN row.computed ELSE s[l[q]] + 1]
  BY <1>11, Zenon DEF Placing, Queries, s
<1>13. \A q \in 1 .. N : s[q] = IF l[q] = 0 THEN row.computed ELSE s[l[q]] + 1
  BY <1>12, Zenon
<1> QED BY <1>13, Zenon DEF s

(* The tokens of a step's queries.                                         *)
LEMMA QueryTokensShape ==
  ASSUME NEW plan, Sized(plan), NEW N, N = plan.input + Size(plan.draft)
  PROVE  /\ N \in Nat /\ QueryTokens(plan) \in Seq(Nat) /\ Len(QueryTokens(plan)) = N
         /\ \A q \in 1 .. N : QueryTokens(plan)[q] \in Nat
         /\ \A q \in 1 .. plan.input : QueryTokens(plan)[q] = plan.context[plan.start + q]
         /\ \A i \in 1 .. Size(plan.draft) :
              QueryTokens(plan)[plan.input + i] = plan.draft.tokens[i]
<1> DEFINE n == plan.input
           s == plan.start
           a == SubSeq(plan.context, s + 1, s + n)
           b == plan.draft.tokens
           t == QueryTokens(plan)
<1>1. n \in Nat /\ s \in Nat /\ plan.context \in Seq(Nat) /\ s + n <= Len(plan.context)
  BY DEF Sized
<1>2. b \in Seq(Nat) /\ Size(plan.draft) = Len(b) /\ Len(b) \in Nat BY DEF Sized, IsTree, Size
<1>3. a \in Seq(Nat) /\ Len(a) = n /\ \A q \in 1 .. n : a[q] = plan.context[s + q]
  <2> DEFINE c == plan.context
  <2>1. c \in Seq(Nat) /\ n \in Nat /\ s \in Nat /\ s + n <= Len(c) BY <1>1
  <2> HIDE DEF c, n, s
  <2>2. /\ SubSeq(c, s + 1, s + n) \in Seq(Nat) /\ Len(SubSeq(c, s + 1, s + n)) = n
        /\ \A q \in 1 .. n : SubSeq(c, s + 1, s + n)[q] = c[s + q]
    BY <2>1
  <2> QED BY <2>2 DEF c, n, s
<1>4. t = a \o b BY DEF QueryTokens
<1> HIDE DEF a, b, t
<1>5. t = Cat(a, b) BY <1>4 DEF Cat
<1>6. a \in Seq(Nat) /\ b \in Seq(Nat) BY <1>2, <1>3
<1>7. t \in Seq(Nat) BY <1>5, <1>6, CatType
<1>8. /\ Len(t) = Len(a) + Len(b)
      /\ \A i \in 1 .. Len(a) : t[i] = a[i]
      /\ \A i \in 1 .. Len(b) : t[Len(a) + i] = b[i]
  BY <1>5, <1>6, CatShape, SMTT(30)
<1>9. /\ N \in Nat /\ Len(t) = N
      /\ \A q \in 1 .. n : t[q] = plan.context[s + q]
      /\ \A i \in 1 .. Size(plan.draft) : t[n + i] = b[i]
  BY <1>1, <1>2, <1>3, <1>8
<1>10. \A q \in 1 .. N : t[q] \in Nat BY <1>7, <1>9
<1> QED BY <1>7, <1>9, <1>10 DEF t, b

IsFunction(f, S) == f = [x \in S |-> f[x]]

(* Texts exist: each is its parent's and one token more.                   *)
LEMMA TextsShape ==
  ASSUME NEW plan, Sized(plan), NEW N, N = plan.input + Size(plan.draft),
         NEW l, l = DraftLayout(plan.input, plan.draft)
  PROVE  /\ DOMAIN Texts(plan) = 1 .. N /\ IsFunction(Texts(plan), 1 .. N)
         /\ \A q \in 1 .. N :
              Texts(plan)[q] = Append(IF l[q] = 0 THEN Upto(plan.context, plan.start)
                                                  ELSE Texts(plan)[l[q]],
                                      QueryTokens(plan)[q])
<1> DEFINE R == [x \in (1 .. N) \X Seq(Nat) |-> Append(x[2], QueryTokens(plan)[x[1]])]
           base == Upto(plan.context, plan.start)
           tok == QueryTokens(plan)
<1>0. N \in Nat /\ DOMAIN l = 1 .. N /\ Parents(l, N)
  <2>1. plan.input \in Nat \ {0} /\ IsTree(plan.draft) BY DEF Sized
  <2> QED BY <2>1, LayoutShape
<1>1. base \in Seq(Nat)
  <2>1. plan.context \in Seq(Nat) /\ plan.start \in 0 .. Len(plan.context) BY DEF Sized
  <2> QED BY <2>1, UptoShape
<1>2. \A q \in 1 .. N : tok[q] \in Nat BY QueryTokensShape
<1>3. \A q \in 1 .. N : \A v \in Seq(Nat) : R[<<q, v>>] = Append(v, tok[q]) OBVIOUS
<1> HIDE DEF R, tok, base
<1>4. Rule(R, N, Seq(Nat))
  <2> SUFFICES ASSUME NEW q \in 1 .. N, NEW v \in Seq(Nat) PROVE R[<<q, v>>] \in Seq(Nat)
    BY Zenon DEF Rule
  <2>1. R[<<q, v>>] = Append(v, tok[q]) /\ tok[q] \in Nat BY <1>2, <1>3
  <2> QED BY <2>1
<1>5. PICK f \in [0 .. N -> Seq(Nat)] : Along(l, N, R, base, f)
  BY <1>0, <1>1, <1>4, AlongParents
<1> DEFINE g == [q \in 1 .. N |-> f[q]]
<1>6. ASSUME NEW q \in 1 .. N PROVE g[q] = Append(IF l[q] = 0 THEN base ELSE g[l[q]], tok[q])
  <2>1. l[q] \in 0 .. q - 1 BY <1>0 DEF Parents
  <2>2. l[q] \in 0 .. N /\ (l[q] # 0 => l[q] \in 1 .. N) BY <1>0, <2>1
  <2>3. f[l[q]] \in Seq(Nat) BY <2>2
  <2>4. f[q] = R[<<q, f[l[q]]>>] /\ f[0] = base BY <1>5 DEF Along
  <2>5. f[q] = Append(f[l[q]], tok[q]) BY <1>3, <2>3, <2>4
  <2>6. g[q] = f[q] /\ (l[q] # 0 => g[l[q]] = f[l[q]]) BY <2>2
  <2> HIDE DEF g
  <2> QED BY <2>4, <2>5, <2>6
<1> HIDE DEF g
<1>7. DOMAIN g = 1 .. N /\ g = [q \in 1 .. N |-> g[q]] BY DEF g
<1>8. g = [q \in 1 .. N |-> Append(IF l[q] = 0 THEN base ELSE g[l[q]], tok[q])] BY <1>6, <1>7
<1>9. Writing(l, base, tok, g) BY <1>0, <1>8, Zenon DEF Writing
<1>10. Texts(plan) = CHOOSE h : Writing(l, base, tok, h) BY Zenon DEF Texts, base, tok
<1>11. Writing(l, base, tok, Texts(plan)) BY <1>9, <1>10, Zenon
<1> DEFINE s == Texts(plan)
<1> HIDE DEF s
<1>12. s = [q \in 1 .. N |-> Append(IF l[q] = 0 THEN base ELSE s[l[q]], tok[q])]
  BY <1>0, <1>11, Zenon DEF Writing, s
<1>13. DOMAIN s = 1 .. N /\ IsFunction(s, 1 .. N) BY <1>12, Zenon DEF IsFunction
<1>14. \A q \in 1 .. N : s[q] = Append(IF l[q] = 0 THEN base ELSE s[l[q]], tok[q])
  BY <1>12, Zenon
<1> QED BY <1>13, <1>14, Zenon DEF s, base, tok

(* The queries of a step: what they see, their texts and positions.        *)
LEMMA PlanGrown ==
  ASSUME NEW plan, Sized(plan), NEW N, N = plan.input + Size(plan.draft)
  PROVE  /\ Queries(Row(plan)) = 1 .. N /\ N \in Nat
         /\ Grown(Row(plan).layout, N, Upto(plan.context, plan.start), QueryTokens(plan),
                  Visibility(Row(plan).layout), Texts(plan), SemanticPositions(Row(plan)))
<1> DEFINE row == Row(plan)
           l == DraftLayout(plan.input, plan.draft)
           base == Upto(plan.context, plan.start)
           seen == Visibility(l)
           text == Texts(plan)
           pos == SemanticPositions(row)
           tok == QueryTokens(plan)
<1>1. row.layout = l /\ row.computed = plan.start BY DEF Row
<1>2. plan.input \in Nat \ {0} /\ IsTree(plan.draft) BY DEF Sized
<1>3. N \in Nat /\ DOMAIN l = 1 .. N /\ Parents(l, N)
  BY <1>2, LayoutShape
<1>4. plan.context \in Seq(Nat) /\ plan.start \in 0 .. Len(plan.context) /\ plan.start \in Nat
  BY DEF Sized
<1>5. base \in Seq(Nat) /\ Len(base) = plan.start BY <1>4, UptoShape
<1>6. \A q \in 1 .. N : tok[q] \in Nat BY QueryTokensShape
<1>7. \A q \in 1 .. N : text[q] = Append(IF l[q] = 0 THEN base ELSE text[l[q]], tok[q])
  BY TextsShape
<1> HIDE DEF row, l, base, text, tok
<1>8. \A q \in 1 .. N : seen[q] = {q} \union IF l[q] = 0 THEN {} ELSE seen[l[q]]
  BY <1>3, SeenShape
<1>9. \A q \in 1 .. N : pos[q] = IF l[q] = 0 THEN plan.start ELSE pos[l[q]] + 1
  BY <1>1, <1>3, <1>4, PositionsShape
<1> HIDE DEF seen, pos
<1>10. Grown(l, N, base, tok, seen, text, pos)
  BY <1>3, <1>5, <1>6, <1>7, <1>8, <1>9 DEF Grown
<1>11. Queries(row) = 1 .. N BY <1>1, <1>3 DEF Queries
<1> QED BY <1>1, <1>3, <1>10, <1>11 DEF row, l, base, seen, text, pos, tok

(* What a query reads besides itself: the base and the queries it sees.    *)
Reading(base, seen, text, q, read) ==
  /\ \A p : p \in DOMAIN read <=> \/ p \in 0 .. Len(base) - 1
                                  \/ \E k \in seen[q] : k # q /\ p = Len(base) + k - 1
  /\ \A p \in 0 .. Len(base) - 1 : read[p] = Upto(base, p + 1)
  /\ \A k \in seen[q] : k # q => read[Len(base) + k - 1] = text[k]

(* These are the beginnings of its text, each read once.                   *)
LEMMA ReadsBeginnings ==
  ASSUME NEW base, NEW seen, NEW text, NEW pos, NEW q, NEW read, base \in Seq(Nat), q \in Nat,
         Known(base, seen, text, pos, q), Reading(base, seen, text, q, read),
         NEW T, T = Upto(text[q], pos[q])
  PROVE  /\ pos[q] \in Nat /\ T \in Seq(Nat) /\ Len(T) = pos[q]
         /\ \A n \in 1 .. pos[q] : \E p \in DOMAIN read : read[p] = Upto(T, n)
         /\ \A p \in DOMAIN read : \E n \in 1 .. pos[q] : read[p] = Upto(T, n)
         /\ \A a, b \in DOMAIN read : read[a] = read[b] => a = b
<1> DEFINE t == text[q]
           m == pos[q]
           s == Len(base)
<1>1. t \in Seq(Nat) /\ s < Len(t) /\ m = Len(t) - 1 /\ s \in Nat /\ Len(t) \in Nat
  BY DEF Known
<1>2. m \in 0 .. Len(t) /\ m \in Nat /\ s <= m /\ Len(t) = m + 1 BY <1>1, SMTT(30)
<1>3. T \in Seq(Nat) /\ Len(T) = m BY <1>1, <1>2, UptoShape
<1>4. \A n \in 0 .. m : Upto(T, n) = Upto(t, n) /\ Len(Upto(T, n)) = n
  <2> TAKE n \in 0 .. m
  <2>1. Upto(Upto(t, m), n) = Upto(t, n) BY <1>1, <1>2, UptoUpto
  <2>2. n \in 0 .. Len(T) BY <1>3
  <2> QED BY <1>3, <2>1, <2>2, UptoShape
<1>5. ASSUME NEW k \in seen[q], k # q
      PROVE  /\ Len(text[k]) \in s + 1 .. m /\ text[k] = Upto(T, Len(text[k]))
             /\ k \in Nat /\ 1 <= k
  <2>1. /\ Len(text[k]) \in Nat /\ s < Len(text[k]) /\ Len(text[k]) <= Len(t)
        /\ text[k] = Upto(t, Len(text[k])) /\ k \in 1 .. q /\ q \in seen[q]
    BY DEF Known
  <2>2. Len(text[k]) # Len(t) BY <1>5, <2>1 DEF Known
  <2>3. Len(text[k]) \in s + 1 .. m /\ Len(text[k]) \in 0 .. m BY <1>1, <1>2, <2>1, <2>2
  <2>4. Upto(T, Len(text[k])) = Upto(t, Len(text[k])) BY <1>4, <2>3
  <2> QED BY <2>1, <2>3, <2>4
<1>6. ASSUME NEW p \in 0 .. s - 1
      PROVE  p \in DOMAIN read /\ read[p] = Upto(T, p + 1) /\ p + 1 \in 1 .. m
  <2>1. p \in DOMAIN read /\ read[p] = Upto(base, p + 1) BY DEF Reading
  <2>2. p + 1 \in 0 .. s /\ p + 1 \in 0 .. m /\ p + 1 \in 1 .. m BY <1>1, <1>2
  <2>3. Upto(t, p + 1) = Upto(base, p + 1) BY <2>2 DEF Known
  <2> QED BY <1>4, <2>1, <2>2, <2>3
<1>7. \A p \in DOMAIN read : \/ p \in 0 .. s - 1
                             \/ \E k \in seen[q] : k # q /\ p = s + k - 1
  BY DEF Reading
<1>8. \A k \in seen[q] : k # q => s + k - 1 \in DOMAIN read /\ read[s + k - 1] = text[k]
  BY DEF Reading
<1> HIDE DEF t, m, s
<1>9. ASSUME NEW n \in 1 .. m PROVE \E p \in DOMAIN read : read[p] = Upto(T, n)
  <2>1. CASE n <= s
    <3>1. n - 1 \in 0 .. s - 1 /\ (n - 1) + 1 = n BY <1>1, <1>2, <2>1
    <3>2. n - 1 \in DOMAIN read /\ read[n - 1] = Upto(T, n) BY <1>6, <3>1
    <3> QED BY <3>2
  <2>2. CASE ~(n <= s)
    <3>1. n \in s + 1 .. Len(t) /\ n # Len(t) BY <1>1, <1>2, <2>2
    <3>2. PICK k \in seen[q] : Len(text[k]) = n BY <3>1 DEF Known, s, t
    <3>3. k # q BY <3>1, <3>2 DEF t
    <3>4. text[k] = Upto(T, n) BY <1>5, <3>2, <3>3
    <3> QED BY <1>8, <3>3, <3>4
  <2> QED BY <2>1, <2>2
<1>10. ASSUME NEW p \in DOMAIN read PROVE \E n \in 1 .. m : read[p] = Upto(T, n)
  <2>1. CASE p \in 0 .. s - 1 BY <1>6, <2>1
  <2>2. CASE \E k \in seen[q] : k # q /\ p = s + k - 1
    <3>1. PICK k \in seen[q] : k # q /\ p = s + k - 1 BY <2>2
    <3>2. read[p] = text[k] BY <1>8, <3>1
    <3>3. Len(text[k]) \in s + 1 .. m /\ text[k] = Upto(T, Len(text[k])) BY <1>5, <3>1
    <3>4. Len(text[k]) \in 1 .. m BY <1>1, <1>2, <3>3
    <3> QED BY <3>2, <3>3, <3>4
  <2> QED BY <1>7, <2>1, <2>2
<1>11. ASSUME NEW a \in DOMAIN read, NEW b \in DOMAIN read, read[a] = read[b] PROVE a = b
  <2>1. ASSUME NEW p \in 0 .. s - 1 PROVE Len(read[p]) = p + 1 /\ Len(read[p]) <= s
    <3>1. read[p] = Upto(T, p + 1) /\ p + 1 \in 0 .. m /\ p + 1 <= s BY <1>1, <1>2, <1>6
    <3>2. Len(Upto(T, p + 1)) = p + 1 BY <1>4, <3>1
    <3> QED BY <3>1, <3>2
  <2>2. ASSUME NEW k \in seen[q], k # q
        PROVE  Len(read[s + k - 1]) = Len(text[k]) /\ ~(Len(text[k]) <= s)
    <3>1. read[s + k - 1] = text[k] BY <1>8, <2>2
    <3>2. Len(text[k]) \in s + 1 .. m BY <1>5, <2>2
    <3> QED BY <1>1, <1>2, <3>1, <3>2
  <2>3. CASE a \in 0 .. s - 1 /\ b \in 0 .. s - 1
    <3>1. a + 1 = b + 1 BY <1>11, <2>1, <2>3
    <3> QED BY <2>3, <3>1
  <2>4. CASE a \in 0 .. s - 1 /\ b \notin 0 .. s - 1
    <3>1. PICK k \in seen[q] : k # q /\ b = s + k - 1 BY <1>7, <2>4
    <3>2. Len(read[b]) = Len(text[k]) /\ ~(Len(text[k]) <= s) BY <2>2, <3>1
    <3>3. Len(read[a]) <= s BY <2>1, <2>4
    <3> QED BY <1>11, <3>2, <3>3
  <2>5. CASE a \notin 0 .. s - 1 /\ b \in 0 .. s - 1
    <3>1. PICK k \in seen[q] : k # q /\ a = s + k - 1 BY <1>7, <2>5
    <3>2. Len(read[a]) = Len(text[k]) /\ ~(Len(text[k]) <= s) BY <2>2, <3>1
    <3>3. Len(read[b]) <= s BY <2>1, <2>5
    <3> QED BY <1>11, <3>2, <3>3
  <2>6. CASE a \notin 0 .. s - 1 /\ b \notin 0 .. s - 1
    <3>1. PICK k \in seen[q] : k # q /\ a = s + k - 1 BY <1>7, <2>6
    <3>2. PICK j \in seen[q] : j # q /\ b = s + j - 1 BY <1>7, <2>6
    <3>3. Len(text[k]) = Len(text[j]) BY <1>11, <2>2, <3>1, <3>2
    <3>4. k = j BY <3>3 DEF Known
    <3> QED BY <3>1, <3>2, <3>4
  <2> QED BY <2>3, <2>4, <2>5, <2>6
<1> QED BY <1>2, <1>3, <1>9, <1>10, <1>11 DEF m, t

(* The longest of a text's beginnings is the text.                         *)
LEMMA LongestBeginning ==
  ASSUME NEW T \in Seq(Nat), NEW R, \A n \in 1 .. Len(T) : Upto(T, n) \in R,
         \A x \in R : \E n \in 1 .. Len(T) : x = Upto(T, n)
  PROVE  (CHOOSE c \in R \union {<<>>} : \A d \in R : Len(d) <= Len(c)) = T
<1> DEFINE m == Len(T)
           OK(c) == c \in R \union {<<>>} /\ \A d \in R : Len(d) <= Len(c)
<1>1. m \in Nat /\ Upto(T, m) = T /\ \A n \in 0 .. m : Len(Upto(T, n)) = n
  BY UptoEnds, UptoShape
<1>2. \A x \in R : \E n \in 1 .. m : x = Upto(T, n) /\ Len(x) = n BY <1>1
<1>3. ASSUME m = 0 PROVE T = <<>> /\ R = {}
  BY <1>2, <1>3, EmptySeq
<1>4. ASSUME m # 0 PROVE T \in R
  <2>1. m \in 1 .. m BY <1>1, <1>4
  <2> QED BY <1>1, <2>1
<1>5. \A x \in R : Len(x) <= m /\ Len(x) \in Nat /\ (Len(x) = m => x = T)
  <2> TAKE x \in R
  <2>1. PICK n \in 1 .. m : x = Upto(T, n) /\ Len(x) = n BY <1>2
  <2>2. Len(x) <= m /\ Len(x) \in Nat BY <1>1, <2>1
  <2>3. Len(x) = m => n = m BY <2>1
  <2> QED BY <1>1, <2>1, <2>2, <2>3
<1>6. OK(T)
  <2>1. T \in R \union {<<>>} BY <1>3, <1>4
  <2> QED BY <1>5, <2>1
<1>7. ASSUME NEW c, OK(c) PROVE c = T
  <2>1. CASE m = 0 BY <1>3, <1>7, <2>1
  <2>2. CASE m # 0
    <3>1. Len(T) <= Len(c) BY <1>4, <1>7, <2>2
    <3>2. c # <<>>
      <4>1. Len(<<>>) = 0 OBVIOUS
      <4> QED BY <1>1, <2>2, <3>1, <4>1
    <3>3. c \in R BY <1>7, <3>2
    <3>4. Len(c) <= m /\ Len(c) \in Nat /\ (Len(c) = m => c = T) BY <1>5, <3>3
    <3> QED BY <1>1, <3>1, <3>4
  <2> QED BY <2>1, <2>2
<1> QED BY <1>6, <1>7

(* The K/V of the context before a step is where its plan places it.       *)
Stocked(plan) ==
  \A p \in 0 .. plan.start - 1 :
    Read(step.generation, Place(plan, p)) = Upto(plan.context, p + 1)

(* A query attends to the context and to the queries it sees.              *)
Attending(plan, reads, q) ==
  \A p : p \in reads <=> \/ p \in 0 .. plan.start - 1
                         \/ \E k \in Visibility(Row(plan).layout)[q] : p = plan.start + k - 1

(* What a query reads of its step when the queries before it have the K/V  *)
(* of their texts.                                                         *)
LEMMA AttendedReading ==
  ASSUME NEW plan, Sized(plan), Stocked(plan), NEW N, N = plan.input + Size(plan.draft),
         NEW q \in 1 .. N, NEW reads, Attending(plan, reads, q), NEW kv,
         \A k \in 1 .. q - 1 : kv[k] = Texts(plan)[k],
         NEW own, own = Position(Row(plan), q)
  PROVE  /\ own \in reads
         /\ Reading(Upto(plan.context, plan.start), Visibility(Row(plan).layout), Texts(plan), q,
                    Attended(plan, kv, reads \ {own}))
<1> DEFINE s == plan.start
           base == Upto(plan.context, s)
           seen == Visibility(Row(plan).layout)
           text == Texts(plan)
           read == Attended(plan, kv, reads \ {own})
<1>1. s \in Nat /\ plan.context \in Seq(Nat) /\ s \in 0 .. Len(plan.context) BY DEF Sized
<1>2. base \in Seq(Nat) /\ Len(base) = s BY <1>1, UptoShape
<1>3. own = s + q - 1 /\ q \in Nat /\ N \in Nat /\ 1 <= q
  <2>1. N \in Nat BY PlanGrown
  <2> QED BY <1>1, <2>1 DEF Position, Row
<1>4. Known(base, seen, text, SemanticPositions(Row(plan)), q)
  BY PlanGrown, AllKnown
<1>5. q \in seen[q] /\ \A k \in seen[q] : k \in 1 .. q BY <1>4 DEF Known
<1>6. \A p : p \in reads <=> p \in 0 .. s - 1 \/ \E k \in seen[q] : p = s + k - 1
  BY DEF Attending
<1>7. /\ DOMAIN read = reads \ {own}
      /\ \A p \in reads \ {own} : read[p] = IF p < s THEN Read(step.generation, Place(plan, p))
                                                      ELSE kv[p - s + 1]
  BY DEF Attended
<1> HIDE DEF s, base, seen, text, read
<1>8. \A p \in 0 .. s - 1 : p # own /\ p < s BY <1>1, <1>3
<1>9. \A k \in seen[q] : /\ s + k - 1 = own <=> k = q
                         /\ ~(s + k - 1 < s) /\ (s + k - 1) - s + 1 = k
                         /\ k # q => k \in 1 .. q - 1
  <2> TAKE k \in seen[q]
  <2>1. k \in 1 .. q BY <1>5
  <2> QED BY <1>1, <1>3, <2>1
<1>10. own \in reads
  <2>1. own = s + q - 1 BY <1>3
  <2> QED BY <1>5, <1>6, <2>1
<1>11. \A p : p \in DOMAIN read <=> \/ p \in 0 .. s - 1
                                    \/ \E k \in seen[q] : k # q /\ p = s + k - 1
  <2> TAKE p
  <2>1. p \in DOMAIN read <=> p \in reads /\ p # own BY <1>7
  <2>2. CASE p \in 0 .. s - 1 BY <1>6, <1>8, <2>1, <2>2
  <2>3. CASE p \notin 0 .. s - 1
    <3>1. p \in reads <=> \E k \in seen[q] : p = s + k - 1 BY <1>6, <2>3
    <3> QED BY <1>9, <2>1, <2>3, <3>1
  <2> QED BY <2>2, <2>3
<1>12. ASSUME NEW p \in 0 .. s - 1 PROVE read[p] = Upto(base, p + 1)
  <2>1. p \in reads \ {own} BY <1>6, <1>8
  <2>2. read[p] = Read(step.generation, Place(plan, p)) BY <1>7, <1>8, <2>1
  <2>3. Read(step.generation, Place(plan, p)) = Upto(plan.context, p + 1) BY DEF Stocked, s
  <2>4. p + 1 \in 0 .. s BY <1>1
  <2>5. Upto(base, p + 1) = Upto(plan.context, p + 1) BY <1>1, <2>4, UptoUpto DEF base
  <2> QED BY <2>2, <2>3, <2>5
<1>13. ASSUME NEW k \in seen[q], k # q PROVE read[s + k - 1] = text[k]
  <2>1. s + k - 1 \in reads \ {own} BY <1>6, <1>9, <1>13
  <2>2. read[s + k - 1] = kv[k] BY <1>7, <1>9, <2>1
  <2>3. k \in 1 .. q - 1 BY <1>9, <1>13
  <2> QED BY <2>2, <2>3 DEF text
<1>14. Reading(base, seen, text, q, read) BY <1>2, <1>11, <1>12, <1>13 DEF Reading
<1> QED BY <1>10, <1>14 DEF base, seen, text, read, s

Beginnings(T) == { SubSeq(T, 1, n) : n \in 1 .. Len(T) }
Longest(R) == CHOOSE c \in R \union {<<>>} : \A d \in R : Len(d) <= Len(c)

(* A query reads every beginning of L, once, and knows its own position.   *)
Follow(plan, kv, q, reads, position, own, read, L) ==
  /\ own = Position(Row(plan), q) /\ read = Attended(plan, kv, reads \ {own})
  /\ L = Longest(Range(read)) /\ Range(read) = Beginnings(L)
  /\ IsInjective(read) /\ own \in reads /\ position = Len(L)

(* The K/V of such a query.                                                *)
LEMMA QueryKVIs ==
  ASSUME NEW plan, NEW kv, NEW q, NEW reads, NEW position,
         NEW own, NEW read, NEW L, Follow(plan, kv, q, reads, position, own, read, L)
  PROVE  QueryKV(plan, kv, q, reads, position) = Append(L, QueryTokens(plan)[q])
<1> DEFINE C == /\ Range(read) = { SubSeq(L, 1, n) : n \in 1 .. Len(L) }
                /\ IsInjective(read) /\ own \in reads /\ position = Len(L)
           A == Append(L, QueryTokens(plan)[q])
<1>1. C BY DEF Beginnings, Follow
<1>2. QueryKV(plan, kv, q, reads, position) = IF C THEN A ELSE Garbage
  BY DEF QueryKV, Longest, Follow
<1> HIDE DEF C
<1> QED BY <1>1, <1>2

(* Then its own K/V is that of its text.                                   *)
LEMMA QueryText ==
  ASSUME NEW plan, Sized(plan), Stocked(plan), NEW N, N = plan.input + Size(plan.draft),
         NEW q \in 1 .. N, NEW reads, Attending(plan, reads, q), NEW kv,
         \A k \in 1 .. q - 1 : kv[k] = Texts(plan)[k]
  PROVE  QueryKV(plan, kv, q, reads, SemanticPositions(Row(plan))[q]) = Texts(plan)[q]
<1> DEFINE base == Upto(plan.context, plan.start)
           seen == Visibility(Row(plan).layout)
           text == Texts(plan)
           pos == SemanticPositions(Row(plan))
           own == Position(Row(plan), q)
           read == Attended(plan, kv, reads \ {own})
           tok == QueryTokens(plan)
           T == Upto(text[q], pos[q])
           L == Longest(Range(read))
<1>1. own \in reads /\ Reading(base, seen, text, q, read) BY AttendedReading
<1>2. Grown(Row(plan).layout, N, base, tok, seen, text, pos) BY PlanGrown
<1>3. Known(base, seen, text, pos, q) BY <1>2, AllKnown
<1>4. base \in Seq(Nat) /\ N \in Nat /\ tok[q] \in Nat BY <1>2 DEF Grown
<1>5. q \in Nat BY <1>4
<1>6. text[q] = Append(T, tok[q])
  <2> DEFINE l == Row(plan).layout
             u == IF l[q] = 0 THEN base ELSE text[l[q]]
  <2>1. text[q] = Append(u, tok[q]) BY <1>2 DEF Grown
  <2>2. u \in Seq(Nat)
    <3>1. l[q] \in 0 .. q - 1 BY <1>2 DEF Grown, Parents
    <3>2. CASE l[q] = 0 BY <1>4, <3>2
    <3>3. CASE l[q] # 0
      <4>1. l[q] \in 1 .. N BY <1>4, <3>1, <3>3
      <4>2. Known(base, seen, text, pos, l[q]) BY <1>2, <4>1, AllKnown
      <4> QED BY <3>3, <4>2 DEF Known
    <3> QED BY <3>2, <3>3
  <2> HIDE DEF u
  <2>3. Len(text[q]) = Len(u) + 1 /\ Len(u) \in Nat BY <1>4, <2>1, <2>2, UptoAppend
  <2>4. pos[q] = Len(u)
    <3>1. pos[q] = Len(text[q]) - 1 BY <1>3 DEF Known
    <3> QED BY <2>3, <3>1
  <2>5. Upto(Append(u, tok[q]), Len(u)) = Upto(u, Len(u))
    <3>1. Len(u) \in 0 .. Len(u) BY <2>3
    <3> QED BY <1>4, <2>2, <3>1, UptoAppend, SMTT(30)
  <2>6. Upto(u, Len(u)) = u BY <2>2, UptoEnds
  <2> QED BY <2>1, <2>4, <2>5, <2>6
<1> HIDE DEF base, seen, text, pos, own, read, T
<1>7. /\ pos[q] \in Nat /\ T \in Seq(Nat) /\ Len(T) = pos[q]
      /\ \A n \in 1 .. pos[q] : \E p \in DOMAIN read : read[p] = Upto(T, n)
      /\ \A p \in DOMAIN read : \E n \in 1 .. pos[q] : read[p] = Upto(T, n)
      /\ \A a, b \in DOMAIN read : read[a] = read[b] => a = b
  BY <1>1, <1>3, <1>4, <1>5, ReadsBeginnings DEF T
<1>8. \A x : x \in Range(read) <=> \E p \in DOMAIN read : x = read[p] BY DEF Range
<1>9. \A n \in 1 .. Len(T) : Upto(T, n) \in Range(read) BY <1>7, <1>8, Zenon
<1>10. \A x \in Range(read) : \E n \in 1 .. Len(T) : x = Upto(T, n)
  <2> TAKE x \in Range(read)
  <2>1. PICK p \in DOMAIN read : x = read[p] BY <1>8
  <2>2. PICK n \in 1 .. pos[q] : read[p] = Upto(T, n) BY <1>7
  <2>3. n \in 1 .. Len(T) /\ x = Upto(T, n) BY <1>7, <2>1, <2>2
  <2> QED BY <2>3
<1>11. L = T BY <1>7, <1>9, <1>10, LongestBeginning DEF Longest
<1> HIDE DEF L
<1>12. Range(read) = Beginnings(L)
  <2>1. \A x : x \in Range(read) <=> \E n \in 1 .. Len(T) : x = Upto(T, n)
    BY <1>9, <1>10, Zenon
  <2> QED BY <1>11, <2>1, Zenon DEF Upto, Beginnings
<1>13. IsInjective(read) BY <1>7 DEF IsInjective
<1>14. pos[q] = Len(L) BY <1>7, <1>11
<1>15. /\ own = Position(Row(plan), q) /\ read = Attended(plan, kv, reads \ {own})
       /\ L = Longest(Range(read))
  BY Zenon DEF own, read, L
<1>16. QueryKV(plan, kv, q, reads, pos[q]) = Append(L, tok[q])
  <2>1. Follow(plan, kv, q, reads, pos[q], own, read, L)
    BY <1>1, <1>12, <1>13, <1>14, <1>15, Zenon DEF Follow
  <2> QED BY <2>1, QueryKVIs DEF tok
<1> QED BY <1>6, <1>11, <1>16, Zenon DEF pos, text, tok

(* What the back end computes for a request of the step.                   *)
Computing(plan, reads, kv) ==
  kv = [q \in Queries(Row(plan)) |->
          QueryKV(plan, kv, q, reads[q], SemanticPositions(Row(plan))[q])]

(* A step whose queries attend to what they should gives each query the    *)
(* K/V of its text.                                                        *)
LEMMA ComputedTexts ==
  ASSUME NEW r, NEW plan, plan = step.work[r], Sized(plan), Stocked(plan),
         \A q \in Queries(Row(plan)) : Attending(plan, Reads(r)[q], q)
  PROVE  /\ DOMAIN Computed(r) = Queries(Row(plan))
         /\ \A q \in Queries(Row(plan)) : Computed(r)[q] = Texts(plan)[q]
<1> DEFINE N == plan.input + Size(plan.draft)
           reads == Reads(r)
           pos == SemanticPositions(Row(plan))
           text == Texts(plan)
           kv == Computed(r)
<1>1. Queries(Row(plan)) = 1 .. N /\ N \in Nat BY PlanGrown
<1>2. text = [q \in 1 .. N |-> text[q]] BY TextsShape, Zenon DEF IsFunction
<1>3. ASSUME NEW f, NEW q \in 1 .. N, \A k \in 1 .. q - 1 : f[k] = text[k]
      PROVE  QueryKV(plan, f, q, reads[q], pos[q]) = text[q]
  BY <1>1, <1>3, QueryText
<1>4. \A q \in 1 .. N : QueryKV(plan, text, q, reads[q], pos[q]) = text[q] BY <1>3
<1> HIDE DEF N, reads, text, pos, kv
<1>5. text = [q \in 1 .. N |-> QueryKV(plan, text, q, reads[q], pos[q])] BY <1>2, <1>4
<1>6. Computing(plan, reads, text) BY <1>1, <1>5, Zenon DEF Computing, pos
<1>7. kv = CHOOSE f : Computing(plan, reads, f) BY Zenon DEF Computed, Computing, kv, reads
<1>8. Computing(plan, reads, kv) BY <1>6, <1>7, Zenon
<1>9. kv = [q \in 1 .. N |-> QueryKV(plan, kv, q, reads[q], pos[q])]
  BY <1>1, <1>8, Zenon DEF Computing, pos
<1>10. DOMAIN kv = 1 .. N BY <1>9, Zenon
<1>11. \A q \in 1 .. N : kv[q] = QueryKV(plan, kv, q, reads[q], pos[q]) BY <1>9, Zenon
<1> DEFINE B == { n \in Nat : \A q \in 1 .. N : q <= n => kv[q] = text[q] }
<1>12. 0 \in B BY <1>1
<1>13. ASSUME NEW n \in Nat, n \in B PROVE n + 1 \in B
  <2> SUFFICES ASSUME NEW q \in 1 .. N, q <= n + 1 PROVE kv[q] = text[q]
    OBVIOUS
  <2>1. \A k \in 1 .. q - 1 : k \in 1 .. N /\ k <= n BY <1>1
  <2>2. \A k \in 1 .. q - 1 : kv[k] = text[k] BY <1>13, <2>1
  <2>3. QueryKV(plan, kv, q, reads[q], pos[q]) = text[q] BY <1>3, <2>2
  <2> QED BY <1>11, <2>3
<1>14. \A n \in Nat : n \in B
  <2> HIDE DEF B
  <2> QED BY <1>12, <1>13, Induct
<1>15. \A q \in 1 .. N : kv[q] = text[q] BY <1>1, <1>14
<1> QED BY <1>1, <1>10, <1>15, Zenon DEF kv, text

(* In a chain a query sees the queries up to it.                           *)
LEMMA ChainSeen ==
  ASSUME NEW N \in Nat, NEW l, NEW seen,
         \A q \in 1 .. N : l[q] = q - 1,
         \A q \in 1 .. N : seen[q] = {q} \union IF l[q] = 0 THEN {} ELSE seen[l[q]]
  PROVE  \A q \in 1 .. N : \A k : k \in seen[q] <=> k \in 1 .. q
<1> DEFINE B == { n \in Nat : n \in 1 .. N => \A k : k \in seen[n] <=> k \in 1 .. n }
<1>1. 0 \in B OBVIOUS
<1>2. ASSUME NEW n \in Nat, n \in B PROVE n + 1 \in B
  <2> SUFFICES ASSUME n + 1 \in 1 .. N, NEW k PROVE k \in seen[n + 1] <=> k \in 1 .. n + 1
    OBVIOUS
  <2>1. l[n + 1] = n
    <3>1. l[n + 1] = (n + 1) - 1 OBVIOUS
    <3> QED BY <3>1
  <2>2. seen[n + 1] = {n + 1} \union IF n = 0 THEN {} ELSE seen[n] BY <2>1
  <2>3. CASE n = 0
    <3>1. seen[n + 1] = {1} BY <2>2, <2>3
    <3> QED BY <2>3, <3>1
  <2>4. CASE n # 0
    <3>1. n \in 1 .. N BY <2>4
    <3>2. k \in seen[n] <=> k \in 1 .. n BY <1>2, <3>1
    <3>3. k \in seen[n + 1] <=> k = n + 1 \/ k \in seen[n] BY <2>2, <2>4
    <3> QED BY <3>2, <3>3
  <2> QED BY <2>3, <2>4
<1>3. \A n \in Nat : n \in B
  <2> HIDE DEF B
  <2> QED BY <1>1, <1>2, Induct
<1> QED BY <1>3

(* What is known of the queries of a plan, for the back ends.              *)
LEMMA PlanSeen ==
  ASSUME NEW plan, Sized(plan), NEW N, N = plan.input + Size(plan.draft)
  PROVE  /\ N \in Nat /\ plan.start \in Nat /\ Row(plan).computed = plan.start
         /\ Queries(Row(plan)) = 1 .. N /\ Len(Row(plan).layout) = N
         /\ \A q \in 1 .. N : \A k \in Visibility(Row(plan).layout)[q] : k \in 1 .. N
         /\ Row(plan).layout = LinearLayout(N) =>
              \A q \in 1 .. N : \A k : k \in Visibility(Row(plan).layout)[q] <=> k \in 1 .. q
<1> DEFINE l == Row(plan).layout
           seen == Visibility(l)
<1>1. /\ Queries(Row(plan)) = 1 .. N /\ N \in Nat
      /\ Grown(l, N, Upto(plan.context, plan.start), QueryTokens(plan), seen, Texts(plan),
               SemanticPositions(Row(plan)))
  BY PlanGrown
<1>2. plan.start \in Nat /\ plan.input \in Nat \ {0} /\ IsTree(plan.draft) BY DEF Sized
<1>3. l = DraftLayout(plan.input, plan.draft) /\ Row(plan).computed = plan.start BY DEF Row
<1>4. Len(l) = N BY <1>2, <1>3, LayoutShape
<1>5. ASSUME NEW q \in 1 .. N, NEW k \in seen[q] PROVE k \in 1 .. N
  <2>1. k \in 1 .. q BY <1>1, AllKnown DEF Known
  <2> QED BY <1>1, <2>1
<1>6. ASSUME l = LinearLayout(N)
      PROVE  \A q \in 1 .. N : \A k : k \in seen[q] <=> k \in 1 .. q
  <2>1. \A q \in 1 .. N : l[q] = q - 1 BY <1>6 DEF LinearLayout
  <2>2. \A q \in 1 .. N : seen[q] = {q} \union IF l[q] = 0 THEN {} ELSE seen[l[q]]
    BY <1>1 DEF Grown
  <2> HIDE DEF l, seen
  <2> QED BY <1>1, <2>1, <2>2, ChainSeen
<1> QED BY <1>1, <1>2, <1>3, <1>4, <1>5, <1>6

(* Dense tensors: the tensor is as long as the context before the step.    *)
LEMMA DenseAttending ==
  ASSUME NEW plan, Sized(plan), NEW q \in Queries(Row(plan))
  PROVE  Attending(plan, DenseReads(Row(plan), plan.start)[q], q)
<1> DEFINE seen == Visibility(Row(plan).layout)
           reads == DenseReads(Row(plan), plan.start)
<1>1. reads[q] = (0 .. plan.start - 1) \union { plan.start + k - 1 : k \in seen[q] }
  BY DEF DenseReads
<1> HIDE DEF reads, seen
<1>2. \A p : p \in reads[q] <=> \/ p \in 0 .. plan.start - 1
                                \/ \E k \in seen[q] : p = plan.start + k - 1
  BY <1>1
<1> QED BY <1>2 DEF Attending, seen, reads

(* Pages, one after the other.                                             *)
LEMMA TorchAttending ==
  ASSUME NEW plan, Sized(plan), NEW q \in Queries(Row(plan))
  PROVE  Attending(plan, TorchReads(Row(plan))[q], q)
<1> DEFINE row == Row(plan)
           seen == Visibility(row.layout)
           at == VisiblePositions(row)
           ofPage(page) == { p \in at[q] : p \div BlockSize = page }
           reads == TorchReads(row)
<1>1. at[q] = (0 .. row.computed - 1) \union { Position(row, k) : k \in seen[q] }
  BY DEF VisiblePositions
<1>2. row.computed = plan.start BY DEF Row
<1>3. reads[q] = UNION { ofPage(page) : page \in { p \div BlockSize : p \in at[q] } }
  BY DEF TorchReads
<1>4. \A k : Position(row, k) = plan.start + k - 1 BY <1>2 DEF Position
<1> HIDE DEF at, row, seen, reads
<1>5. \A p : p \in reads[q] <=> p \in at[q] BY <1>3
<1>6. \A p : p \in at[q] <=> \/ p \in 0 .. plan.start - 1
                             \/ \E k \in seen[q] : p = plan.start + k - 1
  BY <1>1, <1>2, <1>4
<1> QED BY <1>5, <1>6 DEF Attending, row, seen, reads

(* The length of the scan of a kernel covers every request of the batch.   *)
LEMMA ScanCovers ==
  ASSUME IsFiniteSet(Batch), \A o \in Batch : Sized(step.work[o]), NEW r \in Batch,
         NEW plan, plan = step.work[r]
  PROVE  \A p \in 0 .. (plan.start + (plan.input + Size(plan.draft))) - 1 : p \in Scanned(Rows)
<1> DEFINE last(o) == Rows[o].computed + Len(Rows[o].layout)
           S == { last(o) : o \in Batch }
           m == Max(S)
<1>1. ASSUME NEW o \in Batch
      PROVE  /\ last(o) \in Nat
             /\ last(o) = step.work[o].start + (step.work[o].input + Size(step.work[o].draft))
  <2>1. Rows[o] = Row(step.work[o]) BY DEF Rows
  <2>2. Sized(step.work[o]) OBVIOUS
  <2> QED BY <2>1, <2>2, PlanSeen
<1>2. IsFiniteSet(S)
  <2> DEFINE f == [o \in Batch |-> last(o)]
  <2> HIDE DEF last
  <2>1. f \in Surjection(Batch, S) BY DEF Surjection
  <2> QED BY <2>1, FS_Surjection
<1>3. S # {} /\ \A x \in S : x \in Int
  <2>1. \A x \in S : \E o \in Batch : x = last(o) OBVIOUS
  <2>2. last(r) \in S OBVIOUS
  <2> HIDE DEF S, last
  <2>3. \A x \in S : x \in Nat BY <1>1, <2>1
  <2> QED BY <2>2, <2>3
<1>4. last(r) \in S OBVIOUS
<1>5. DOMAIN Rows = Batch BY DEF Rows
<1>6. Scanned(Rows) = 0 .. m - 1 BY <1>5 DEF Scanned
<1> HIDE DEF S, m, last
<1>7. m \in S /\ \A x \in S : x <= m BY <1>2, <1>3, MaxOf DEF m
<1>8. last(r) <= m /\ m \in Int BY <1>3, <1>4, <1>7
<1>9. last(r) = plan.start + (plan.input + Size(plan.draft)) /\ last(r) \in Nat BY <1>1
<1> DEFINE e == plan.start + (plan.input + Size(plan.draft))
<1>10. e <= m /\ e \in Nat BY <1>8, <1>9
<1> HIDE DEF m, e
<1>11. ASSUME NEW p \in 0 .. e - 1 PROVE p \in 0 .. m - 1 BY <1>8, <1>10
<1>12. \A p \in 0 .. e - 1 : p \in Scanned(Rows) BY <1>6, <1>11
<1> QED BY <1>12, Zenon DEF e

(* Triton: one kernel for the whole batch, whatever shares it.             *)
LEMMA TritonAttending ==
  ASSUME IsFiniteSet(Batch), \A o \in Batch : Sized(step.work[o]), NEW r \in Batch,
         NEW plan, plan = step.work[r], NEW q \in Queries(Row(plan))
  PROVE  Attending(plan, TritonReads(Rows, r)[q], q)
<1> DEFINE row == Row(plan)
           seen == Visibility(row.layout)
           linear == OnlyLinear(Rows)
           N == plan.input + Size(plan.draft)
           reads == TritonReads(Rows, r)
           scanned == Scanned(Rows)
           s == plan.start
<1>1. Rows[r] = row /\ DOMAIN Rows = Batch BY DEF Rows
<1>2. Sized(plan) OBVIOUS
<1>3. /\ N \in Nat /\ s \in Nat /\ row.computed = s
      /\ Queries(row) = 1 .. N /\ Len(row.layout) = N
      /\ \A k \in seen[q] : k \in 1 .. N
      /\ row.layout = LinearLayout(N) => \A k : k \in seen[q] <=> k \in 1 .. q
  BY <1>2, PlanSeen
<1>4. linear => row.layout = LinearLayout(N)
  <2>1. linear => Rows[r].layout = LinearLayout(Len(Rows[r].layout))
    BY <1>1, Zenon DEF OnlyLinear
  <2> QED BY <1>1, <1>3, <2>1
<1>5. linear => \A k : k \in seen[q] <=> k \in 1 .. q BY <1>3, <1>4
<1>6. \A p \in 0 .. (s + N) - 1 : p \in scanned BY ScanCovers
<1>7. \A p \in scanned : p \in Int BY DEF Scanned
<1>7a. \A p \in scanned : p \in Nat BY DEF Scanned
<1>8. reads[q] = { p \in scanned : TokenMask(row, linear, seen, q, p) }
  BY <1>1 DEF TritonReads, Masked
<1>9. \A p : TokenMask(row, linear, seen, q, p) <=>
               \/ p < s
               \/ p - s + 1 \in 1 .. N /\ IF linear THEN p - s + 1 <= q ELSE p - s + 1 \in seen[q]
  BY <1>3 DEF TokenMask
<1> HIDE DEF row, seen, linear, N, reads, scanned, s
<1>10. ASSUME NEW p PROVE p \in reads[q] <=> \/ p \in 0 .. s - 1
                                              \/ \E k \in seen[q] : p = s + k - 1
  <2>1. ASSUME p \in reads[q] PROVE p \in 0 .. s - 1 \/ \E k \in seen[q] : p = s + k - 1
    <3>1. p \in scanned /\ p \in Nat BY <1>7a, <1>8, <2>1
    <3>2. CASE p < s BY <1>3, <3>1, <3>2
    <3>3. CASE ~(p < s)
      <4> DEFINE k == p - s + 1
      <4>1. k \in 1 .. N /\ IF linear THEN k <= q ELSE k \in seen[q]
        BY <1>8, <1>9, <2>1, <3>3
      <4>2. k \in seen[q]
        <5>1. CASE linear
          <6>1. k \in 1 .. q BY <1>3, <4>1, <5>1
          <6> QED BY <1>5, <5>1, <6>1
        <5>2. CASE ~linear BY <4>1, <5>2
        <5> QED BY <5>1, <5>2
      <4>3. p = s + k - 1 BY <1>3, <3>1
      <4> QED BY <4>2, <4>3
    <3> QED BY <3>2, <3>3
  <2>2. ASSUME p \in 0 .. s - 1 PROVE p \in reads[q]
    <3>1. p \in scanned /\ p < s BY <1>3, <1>6, <2>2
    <3> QED BY <1>8, <1>9, <3>1
  <2>3. ASSUME NEW k \in seen[q], p = s + k - 1 PROVE p \in reads[q]
    <3>1. k \in 1 .. N BY <1>3
    <3>2. p - s + 1 = k /\ p \in 0 .. (s + N) - 1 BY <1>3, <2>3, <3>1
    <3>3. linear => k <= q
      <4>1. linear => k \in 1 .. q BY <1>5
      <4> QED BY <1>3, <4>1
    <3>4. TokenMask(row, linear, seen, q, p) BY <1>9, <3>1, <3>2, <3>3
    <3> QED BY <1>6, <1>8, <3>2, <3>4
  <2> QED BY <2>1, <2>2, <2>3
<1> QED BY <1>10 DEF Attending, seen, row, s, reads

(* Whatever the back end, the queries attend to what they should.          *)
LEMMA AllAttending ==
  ASSUME IsFiniteSet(Batch), \A o \in Batch : Sized(step.work[o]), NEW r \in Batch,
         NEW plan, plan = step.work[r], NEW q \in Queries(Row(plan)),
         backend \in {"dense", "torch", "triton"},
         Contiguous => entries[step.generation][r].length = plan.start
  PROVE  Attending(plan, Reads(r)[q], q)
<1>1. Rows[r] = Row(plan) BY DEF Rows
<1>2. Sized(plan) OBVIOUS
<1>3. CASE backend = "dense"
  <2>1. Reads(r) = DenseReads(Row(plan), plan.start) BY <1>1, <1>3 DEF Reads, Contiguous
  <2> QED BY <1>2, <2>1, DenseAttending
<1>4. CASE backend = "torch"
  <2>1. Reads(r) = TorchReads(Row(plan)) BY <1>1, <1>4 DEF Reads
  <2> QED BY <1>2, <2>1, TorchAttending
<1>5. CASE backend = "triton"
  <2>1. Reads(r) = TritonReads(Rows, r) BY <1>5 DEF Reads
  <2> QED BY <2>1, TritonAttending
<1> QED BY <1>3, <1>4, <1>5

(* One turn of the acceptance stays in the tree.                           *)
LEMMA ExtendedType ==
  ASSUME NEW tree, NEW S, S = Size(tree), tree.tokens \in Seq(Nat), NEW target,
         NEW path \in Seq(1 .. S)
  PROVE  Extended(tree, target, path) \in Seq(1 .. S)
<1> DEFINE node == IF path = <<>> THEN 0 ELSE Last(path)
           next == Child(tree, node, target[node + 1])
           c == CHOOSE i \in next : TRUE
<1>1. DOMAIN tree.tokens = 1 .. S BY DEF Size
<1>2. \A i \in next : i \in 1 .. S BY <1>1 DEF Child
<1> HIDE DEF node, next
<1>3. Extended(tree, target, path) = IF next = {} THEN path ELSE Append(path, c)
  BY Zenon DEF Extended, node, next
<1>4. CASE next = {} BY <1>3, <1>4
<1>5. CASE next # {}
  <2>1. c \in next BY <1>5
  <2>2. c \in 1 .. S BY <1>2, <2>1
  <2> HIDE DEF c
  <2>3. Append(path, c) \in Seq(1 .. S) BY <2>2
  <2> QED BY <1>3, <1>5, <2>3
<1> QED BY <1>4, <1>5

Walking(tree, target, f) ==
  f = [n \in 0 .. Size(tree) |-> IF n = 0 THEN <<>> ELSE Extended(tree, target, f[n - 1])]

(* An accepted path names nodes of the tree.                               *)
LEMMA AcceptedType ==
  ASSUME NEW tree, IsTree(tree), NEW target
  PROVE  /\ Accept(tree, target).accepted \in Seq(1 .. Size(tree))
         /\ AcceptedPath(tree, target) = Accept(tree, target).accepted
<1> DEFINE S == Size(tree)
           V == Seq(1 .. S)
           R == [x \in (1 .. S) \X V |-> Extended(tree, target, x[2])]
           l == [n \in 1 .. S |-> n - 1]
<1>1. S \in Nat /\ tree.tokens \in Seq(Nat) BY DEF IsTree, Size
<1> HIDE DEF S
<1>2. <<>> \in V OBVIOUS
<1>3. \A v \in V : Extended(tree, target, v) \in V BY <1>1, ExtendedType DEF S
<1>4. \A n \in 1 .. S : \A v \in V : R[<<n, v>>] = Extended(tree, target, v) OBVIOUS
<1>5. Parents(l, S) BY <1>1 DEF Parents
<1>6. \A n \in 1 .. S : l[n] = n - 1 OBVIOUS
<1> HIDE DEF R, V, l
<1>7. Rule(R, S, V) BY <1>3, <1>4, Zenon DEF Rule
<1>8. PICK f \in [0 .. S -> V] : Along(l, S, R, <<>>, f) BY <1>1, <1>2, <1>5, <1>7, AlongParents
<1>9. ASSUME NEW n \in 0 .. S PROVE f[n] = IF n = 0 THEN <<>> ELSE Extended(tree, target, f[n - 1])
  <2>1. CASE n = 0 BY <1>8, <2>1 DEF Along
  <2>2. CASE n # 0
    <3>1. n \in 1 .. S /\ n - 1 \in 0 .. S BY <1>1, <2>2
    <3>2. f[n] = R[<<n, f[l[n]]>>] BY <1>8, <3>1 DEF Along
    <3>3. f[n - 1] \in V BY <3>1
    <3> QED BY <1>4, <1>6, <2>2, <3>1, <3>2, <3>3
  <2> QED BY <2>1, <2>2
<1>10. f = [n \in 0 .. S |-> f[n]] OBVIOUS
<1>11. f = [n \in 0 .. S |-> IF n = 0 THEN <<>> ELSE Extended(tree, target, f[n - 1])]
  BY <1>9, <1>10
<1>12. Walking(tree, target, f) BY <1>11, Zenon DEF Walking, S
<1> DEFINE g == CHOOSE h : Walking(tree, target, h)
<1>13. Walking(tree, target, g) BY <1>12, Zenon
<1>14. AcceptedPath(tree, target) = g[S] BY Zenon DEF AcceptedPath, Walking, S
<1> HIDE DEF g
<1>15. \A n \in 0 .. S : g[n] = IF n = 0 THEN <<>> ELSE Extended(tree, target, g[n - 1])
  BY <1>13, Zenon DEF Walking, S
<1> DEFINE B == { n \in Nat : n <= S => g[n] \in V }
<1>16. 0 \in B
  <2>1. 0 \in 0 .. S BY <1>1
  <2> QED BY <1>2, <1>15, <2>1
<1>17. ASSUME NEW n \in Nat, n \in B PROVE n + 1 \in B
  <2> SUFFICES ASSUME n + 1 <= S PROVE g[n + 1] \in V OBVIOUS
  <2>1. n + 1 \in 0 .. S /\ n + 1 # 0 /\ (n + 1) - 1 = n /\ n <= S BY <1>1
  <2>2. g[n + 1] = Extended(tree, target, g[n]) BY <1>15, <2>1
  <2> QED BY <1>3, <1>17, <2>1, <2>2
<1>18. S \in B
  <2> HIDE DEF B
  <2> QED BY <1>1, <1>16, <1>17, Induct
<1>19. g[S] \in V BY <1>1, <1>18
<1>20. AcceptedPath(tree, target) = Accept(tree, target).accepted BY DEF Accept
<1> QED BY <1>14, <1>19, <1>20 DEF S, V

(* The tokens of an acceptance: the target after the input, then the       *)
(* target after each accepted node.                                        *)
Outputs(tree, target, acc, out) ==
  /\ acc \in Seq(1 .. Size(tree)) /\ out \in Seq(Nat) /\ Len(acc) \in Nat
  /\ Len(out) = Len(acc) + 1
  /\ out[1] = target[1]
  /\ \A k \in 1 .. Len(acc) : out[k + 1] = target[acc[k] + 1]

(* The output of an acceptance is those tokens.                            *)
LEMMA OutputShape ==
  ASSUME NEW tree, NEW target, NEW acc, NEW out, IsTree(tree), target \in Seq(Nat),
         Len(target) = Size(tree) + 1,
         acc = Accept(tree, target).accepted, out = Accept(tree, target).output
  PROVE  Outputs(tree, target, acc, out)
<1> DEFINE S == Size(tree)
           z == <<0>>
           nodes == Cat(z, acc)
           m == Len(acc)
<1>1. acc \in Seq(1 .. S) BY AcceptedType
<1>2. S \in Nat BY DEF Size, IsTree
<1> HIDE DEF S
<1>3. m \in Nat /\ acc \in Seq(0 .. S) /\ z \in Seq(0 .. S) /\ Len(z) = 1 /\ z[1] = 0
  BY <1>1, <1>2
<1> HIDE DEF z
<1>4. /\ Len(nodes) = Len(z) + m /\ DOMAIN nodes = 1 .. (Len(z) + m)
      /\ \A i \in 1 .. Len(z) : nodes[i] = z[i]
      /\ \A i \in 1 .. m : nodes[Len(z) + i] = acc[i]
  <2>1. acc \in Seq(0 .. S) /\ z \in Seq(0 .. S) BY <1>3
  <2> QED BY <2>1, CatShape
<1>5. nodes \in Seq(0 .. S)
  <2>1. acc \in Seq(0 .. S) /\ z \in Seq(0 .. S) BY <1>3
  <2> QED BY <2>1, CatType
<1> HIDE DEF nodes, m
<1>6. /\ DOMAIN nodes = 1 .. m + 1 /\ nodes[1] = 0 /\ \A i \in 1 .. m : nodes[i + 1] = acc[i]
      /\ \A i \in 1 .. m + 1 : nodes[i] \in 0 .. S
  <2>1. DOMAIN nodes = 1 .. m + 1 BY <1>3, <1>4
  <2>2. nodes[1] = 0 BY <1>3, <1>4
  <2>3. ASSUME NEW i \in 1 .. m PROVE nodes[i + 1] = acc[i]
    <3>1. 1 + i = i + 1 OBVIOUS
    <3>2. nodes[1 + i] = acc[i] BY <1>3, <1>4
    <3> QED BY <3>1, <3>2
  <2>4. ASSUME NEW i \in DOMAIN nodes PROVE nodes[i] \in 0 .. S
    <3>1. i \in 1 .. Len(nodes) /\ nodes \in Seq(0 .. S) BY <1>5
    <3> QED BY <3>1, ElementOfSeq
  <2> QED BY <2>1, <2>2, <2>3, <2>4
<1>7. out = [i \in DOMAIN nodes |-> target[nodes[i] + 1]]
  BY Zenon DEF Accept, nodes, z, Cat
<1>8. out = [i \in 1 .. m + 1 |-> target[nodes[i] + 1]] BY <1>6, <1>7
<1>9. \A i \in 1 .. m + 1 : target[nodes[i] + 1] \in Nat
  <2> TAKE i \in 1 .. m + 1
  <2>1. nodes[i] \in 0 .. S BY <1>6
  <2>2. nodes[i] + 1 \in 1 .. Len(target) BY <1>2, <2>1 DEF S
  <2> QED BY <2>2
<1>10. out \in Seq(Nat) /\ Len(out) = m + 1
  <2>1. out \in [1 .. m + 1 -> Nat] BY <1>8, <1>9, Zenon
  <2>2. m + 1 \in Nat BY <1>3
  <2> QED BY <2>1, <2>2, FunctionSeq
<1>11. \A i \in 1 .. m + 1 : out[i] = target[nodes[i] + 1] BY <1>8
<1>12. out[1] = target[1]
  <2>1. 1 \in 1 .. m + 1 /\ 0 + 1 = 1 BY <1>3
  <2> QED BY <1>6, <1>11, <2>1
<1>13. \A k \in 1 .. m : out[k + 1] = target[acc[k] + 1]
  <2> TAKE k \in 1 .. m
  <2>1. k + 1 \in 1 .. m + 1 /\ nodes[k + 1] = acc[k] BY <1>3, <1>6
  <2> QED BY <1>11, <2>1
<1> QED BY <1>1, <1>3, <1>10, <1>12, <1>13 DEF m, S, Outputs

(* The texts of the input are the beginnings of the context.               *)
LEMMA InputTexts ==
  ASSUME NEW plan, Sized(plan)
  PROVE  \A q \in 1 .. plan.input : Texts(plan)[q] = Upto(plan.context, plan.start + q)
<1> DEFINE n == plan.input
           s == plan.start
           c == plan.context
           K == Texts(plan)
           tok == QueryTokens(plan)
           l == DraftLayout(plan.input, plan.draft)
           N == plan.input + Size(plan.draft)
           B == { q \in Nat : q + 1 <= n => K[q + 1] = Upto(c, s + (q + 1)) }
<1>1. /\ n \in Nat \ {0} /\ s \in Nat /\ c \in Seq(Nat) /\ s + n <= Len(c) /\ IsTree(plan.draft)
  BY DEF Sized
<1>2. Size(plan.draft) \in Nat /\ \A q \in 1 .. n : l[q] = q - 1 BY <1>1, LayoutShape, ZenonT(30)
<1>3. \A q \in 1 .. N : K[q] = Append(IF l[q] = 0 THEN Upto(c, s) ELSE K[l[q]], tok[q])
  BY TextsShape
<1>4. \A q \in 1 .. n : tok[q] = c[s + q] BY QueryTokensShape
<1>5. \A q \in 1 .. n : q \in 1 .. N BY <1>1, <1>2
<1> HIDE DEF n, s, c, K, tok, l, N
<1>6. ASSUME NEW q \in 1 .. n
      PROVE  Upto(c, s + q) = Append(Upto(c, s + (q - 1)), tok[q])
  <2>1. s + (q - 1) \in Nat /\ s + (q - 1) < Len(c) /\ (s + (q - 1)) + 1 = s + q BY <1>1
  <2>2. Upto(c, (s + (q - 1)) + 1) = Append(Upto(c, s + (q - 1)), c[(s + (q - 1)) + 1])
    BY <1>1, <2>1, UptoNext
  <2> QED BY <1>4, <2>1, <2>2
<1>7. 0 \in B
  <2>1. 1 \in 1 .. n /\ s + (1 - 1) = s /\ 0 + 1 = 1 BY <1>1
  <2>2. K[1] = Append(Upto(c, s), tok[1])
    <3>1. l[1] = 0 BY <1>2, <2>1
    <3> QED BY <1>3, <1>5, <2>1, <3>1
  <2>3. Upto(c, s + 1) = Append(Upto(c, s), tok[1]) BY <1>6, <2>1
  <2> QED BY <2>1, <2>2, <2>3
<1>8. ASSUME NEW q \in Nat, q \in B PROVE q + 1 \in B
  <2> SUFFICES ASSUME (q + 1) + 1 <= n PROVE K[(q + 1) + 1] = Upto(c, s + ((q + 1) + 1)) OBVIOUS
  <2> DEFINE p == (q + 1) + 1
  <2>1. p \in 1 .. n /\ p - 1 = q + 1 /\ q + 1 <= n /\ q + 1 # 0 BY <1>1
  <2>2. K[q + 1] = Upto(c, s + (q + 1)) BY <1>8, <2>1
  <2> HIDE DEF p
  <2>3. l[p] = q + 1 BY <1>2, <2>1
  <2>4. K[p] = Append(K[q + 1], tok[p]) BY <1>3, <1>5, <2>1, <2>3
  <2>5. Upto(c, s + p) = Append(Upto(c, s + (q + 1)), tok[p]) BY <1>6, <2>1
  <2> QED BY <2>2, <2>4, <2>5 DEF p
<1>9. \A q \in Nat : q \in B
  <2> HIDE DEF B
  <2> QED BY <1>7, <1>8, Induct
<1>10. ASSUME NEW q \in 1 .. n PROVE K[q] = Upto(c, s + q)
  <2>1. q - 1 \in Nat /\ (q - 1) + 1 = q /\ q <= n BY <1>1
  <2>2. q - 1 \in B BY <1>9, <2>1
  <2> QED BY <2>1, <2>2
<1> QED BY <1>10 DEF n, s, c, K

(* Every text is a sequence of tokens and not empty; that of a draft node  *)
(* follows its parent's.                                                   *)
LEMMA TextsFollow ==
  ASSUME NEW plan, Sized(plan)
  PROVE  /\ plan.input \in Nat \ {0} /\ Size(plan.draft) \in Nat
         /\ \A q \in 1 .. plan.input + Size(plan.draft) :
              Texts(plan)[q] \in Seq(Nat) /\ Texts(plan)[q] # <<>>
         /\ \A i \in 1 .. Size(plan.draft) :
              /\ plan.draft.parents[i] \in 0 .. i - 1
              /\ Texts(plan)[plan.input + i] =
                   Append(Texts(plan)[plan.input + plan.draft.parents[i]], plan.draft.tokens[i])
<1> DEFINE n == plan.input
           S == Size(plan.draft)
           N == n + S
           l == DraftLayout(plan.input, plan.draft)
           K == Texts(plan)
           base == Upto(plan.context, plan.start)
<1>1. n \in Nat \ {0} /\ IsTree(plan.draft) BY DEF Sized
<1>2. /\ S \in Nat /\ N \in Nat
      /\ \A i \in 1 .. S : l[n + i] = n + plan.draft.parents[i] /\ plan.draft.parents[i] \in 0 .. i - 1
  BY <1>1, LayoutShape
<1>3. \A q \in 1 .. N : Known(base, Visibility(Row(plan).layout), K, SemanticPositions(Row(plan)), q)
  <2>1. Grown(Row(plan).layout, N, base, QueryTokens(plan),
              Visibility(Row(plan).layout), K, SemanticPositions(Row(plan)))
    BY PlanGrown
  <2> HIDE DEF base, K, N
  <2> QED BY <2>1, AllKnown
<1>4. base \in Seq(Nat)
  <2>1. plan.context \in Seq(Nat) /\ plan.start \in 0 .. Len(plan.context) BY DEF Sized
  <2> QED BY <2>1, UptoShape
<1>5. \A q \in 1 .. N : K[q] = Append(IF l[q] = 0 THEN base ELSE K[l[q]], QueryTokens(plan)[q])
  BY TextsShape
<1>6. \A i \in 1 .. S : QueryTokens(plan)[n + i] = plan.draft.tokens[i] BY QueryTokensShape
<1> HIDE DEF n, S, N, l, K, base
<1>7. ASSUME NEW q \in 1 .. N PROVE K[q] \in Seq(Nat) /\ K[q] # <<>>
  <2>1. K[q] \in Seq(Nat) /\ Len(base) < Len(K[q]) BY <1>3 DEF Known
  <2>2. Len(base) \in Nat /\ Len(<<>>) = 0 BY <1>4
  <2> QED BY <2>1, <2>2
<1>8. ASSUME NEW i \in 1 .. S
      PROVE  K[n + i] = Append(K[n + plan.draft.parents[i]], plan.draft.tokens[i])
  <2> DEFINE p == plan.draft.parents[i]
  <2>0. p \in 0 .. i - 1 /\ l[n + i] = n + p BY <1>2
  <2> HIDE DEF p
  <2>1. n + i \in 1 .. N /\ l[n + i] # 0 BY <1>1, <1>2, <2>0 DEF N
  <2> QED BY <1>2, <1>5, <1>6, <2>1
<1> QED BY <1>1, <1>2, <1>7, <1>8 DEF n, S, N, K

(* The model's answers after the texts.                                    *)
LEMMA TargetShape ==
  ASSUME NEW plan, Sized(plan), plan.output # 0, NEW kv,
         \A q \in 1 .. plan.input + Size(plan.draft) : kv[q] = Texts(plan)[q]
  PROVE  /\ DOMAIN Target(plan, kv) = 1 .. Size(plan.draft) + 1
         /\ \A i \in 1 .. Size(plan.draft) + 1 :
              Target(plan, kv)[i] = Weights(step.generation, Texts(plan)[plan.input + (i - 1)])
<1> DEFINE n == plan.input
           S == Size(plan.draft)
           K == Texts(plan)
<1>1. n \in Nat \ {0} /\ S \in Nat /\ \A q \in 1 .. n + S : K[q] # <<>> BY TextsFollow
<1>2. Target(plan, kv) = [i \in 1 .. S + 1 |-> Predicted(step.generation, kv[n + (i - 1)])]
  BY DEF Target
<1> HIDE DEF S, K
<1>3. ASSUME NEW i \in 1 .. S + 1
      PROVE  Target(plan, kv)[i] = Weights(step.generation, K[n + (i - 1)])
  <2>1. n + (i - 1) \in 1 .. n + S BY <1>1
  <2>2. kv[n + (i - 1)] = K[n + (i - 1)] /\ K[n + (i - 1)] # <<>> BY <1>1, <2>1 DEF S, K
  <2> QED BY <1>2, <2>2 DEF Predicted, Garbage
<1> QED BY <1>2, <1>3 DEF S, K

(* The logits rows of a step are what the model puts after its texts.      *)
Answered(plan) ==
  /\ plan.output = 0 => plan.result = <<>>
  /\ plan.output # 0 =>
       /\ DOMAIN plan.result = 1 .. Size(plan.draft) + 1
       /\ \A i \in 1 .. Size(plan.draft) + 1 :
            plan.result[i] = Weights(step.generation, Texts(plan)[plan.input + (i - 1)])

(* A sequence of tokens each of which the model puts after the context and *)
(* those before it.                                                        *)
Continues(context, out) ==
  \A k \in 1 .. Len(out) : out[k] = Weights(step.generation, Cat(context, Upto(out, k - 1)))

(* The text of an accepted node is the context and the accepted tokens up  *)
(* to it, so that each token of an acceptance is what the model puts next. *)
LEMMA AcceptedTexts ==
  ASSUME NEW plan, Sized(plan), plan.output # 0, Answered(plan), SoundAcceptance(plan),
         NEW acc, acc = Accept(plan.draft, plan.result).accepted,
         NEW out, out = Accept(plan.draft, plan.result).output
  PROVE  /\ acc \in Seq(1 .. Size(plan.draft)) /\ out \in Seq(Nat) /\ Len(acc) \in Nat
         /\ Len(out) = Len(acc) + 1 /\ Len(out) <= plan.output
         /\ \A k \in 1 .. Len(acc) :
              Texts(plan)[plan.input + acc[k]] = Cat(plan.context, Upto(out, k))
         /\ Continues(plan.context, out)
<1> DEFINE n == plan.input
           S == Size(plan.draft)
           K == Texts(plan)
           c == plan.context
           d == plan.draft.tokens
           up == plan.draft.parents
           t == plan.result
           m == Len(acc)
           node(k) == IF k = 0 THEN 0 ELSE acc[k]
           B == { k \in Nat : k <= m => K[n + node(k)] = Cat(c, Upto(out, k)) }
<1>1. /\ n \in Nat \ {0} /\ S \in Nat
      /\ \A i \in 1 .. S : up[i] \in 0 .. i - 1 /\ K[n + i] = Append(K[n + up[i]], d[i])
  BY TextsFollow
<1>2. /\ c \in Seq(Nat) /\ plan.start \in Nat /\ plan.start + n = Len(c) /\ IsTree(plan.draft)
  BY DEF Sized
<1>3. K[n] = c
  <2>1. n \in 1 .. n BY <1>1
  <2>2. K[n] = Upto(c, plan.start + n) BY <2>1, InputTexts
  <2>3. Upto(c, Len(c)) = c BY <1>2, UptoEnds
  <2> QED BY <1>2, <2>2, <2>3
<1>4. /\ DOMAIN t = 1 .. S + 1
      /\ \A i \in 1 .. S + 1 : t[i] = Weights(step.generation, K[n + (i - 1)])
  BY DEF Answered
<1>5. /\ t \in Seq(Nat) /\ Len(out) <= plan.output
      /\ \A k \in DOMAIN acc : /\ up[acc[k]] = IF k = 1 THEN 0 ELSE acc[k - 1]
                               /\ out[k] = d[acc[k]]
  BY DEF SoundAcceptance
<1>6. Len(t) = S + 1 BY <1>1, <1>4, <1>5
<1>7. /\ acc \in Seq(1 .. S) /\ out \in Seq(Nat) /\ m \in Nat /\ Len(out) = m + 1
      /\ out[1] = t[1] /\ \A k \in 1 .. m : out[k + 1] = t[acc[k] + 1]
  <2> DEFINE tree == plan.draft
  <2>1. IsTree(tree) /\ t \in Seq(Nat) /\ Len(t) = Size(tree) + 1 BY <1>2, <1>5, <1>6
  <2>2. acc = Accept(tree, t).accepted /\ out = Accept(tree, t).output OBVIOUS
  <2> HIDE DEF tree, t
  <2>3. Outputs(tree, t, acc, out) BY <2>1, <2>2, OutputShape
  <2> QED BY <2>3 DEF tree, Outputs
<1>8. \A k \in 1 .. m : acc[k] \in 1 .. S
  <2> TAKE k \in 1 .. m
  <2>1. k \in 1 .. Len(acc) /\ acc \in Seq(1 .. S) BY <1>7
  <2> QED BY <2>1, ElementOfSeq
<1>9. \A k \in 1 .. m : /\ up[acc[k]] = node(k - 1) /\ out[k] = d[acc[k]]
                        /\ K[n + acc[k]] = Append(K[n + node(k - 1)], out[k])
  <2> TAKE k \in 1 .. m
  <2>1. k \in DOMAIN acc /\ acc[k] \in 1 .. S BY <1>7, <1>8
  <2>2. up[acc[k]] = IF k = 1 THEN 0 ELSE acc[k - 1] BY <1>5, <2>1
  <2>3. up[acc[k]] = node(k - 1) BY <1>7, <2>2
  <2>4. out[k] = d[acc[k]] BY <1>5, <2>1
  <2> QED BY <1>1, <2>1, <2>3, <2>4
<1>10. \A k \in 0 .. m + 1 : Upto(out, k) \in Seq(Nat)
  <2> TAKE k \in 0 .. m + 1
  <2>1. k \in 0 .. Len(out) /\ out \in Seq(Nat) BY <1>7
  <2> QED BY <2>1, UptoShape
<1> HIDE DEF n, S, K, c, d, up, t, m
<1>11. 0 \in B
  <2>1. Upto(out, 0) = <<>> BY <1>7, UptoEnds
  <2>2. Cat(c, <<>>) = c BY <1>2, CatEmpty
  <2>3. n + node(0) = n BY <1>1
  <2> QED BY <1>3, <2>1, <2>2, <2>3
<1>12. ASSUME NEW k \in Nat, k \in B PROVE k + 1 \in B
  <2> SUFFICES ASSUME k + 1 <= m PROVE K[n + node(k + 1)] = Cat(c, Upto(out, k + 1)) OBVIOUS
  <2>1. k <= m /\ k + 1 \in 1 .. m /\ (k + 1) - 1 = k /\ node(k + 1) = acc[k + 1] /\ k < Len(out)
    BY <1>7
  <2>2. K[n + node(k)] = Cat(c, Upto(out, k)) BY <1>12, <2>1
  <2>3. K[n + acc[k + 1]] = Append(K[n + node(k)], out[k + 1])
    <3> HIDE DEF node
    <3> QED BY <1>9, <2>1
  <2>4. Upto(out, k + 1) = Append(Upto(out, k), out[k + 1]) /\ out[k + 1] \in Nat
    BY <1>7, <2>1, UptoNext
  <2>5. Cat(c, Append(Upto(out, k), out[k + 1])) = Append(Cat(c, Upto(out, k)), out[k + 1])
    <3>1. Upto(out, k) \in Seq(Nat)
      <4>1. k \in 0 .. m + 1 BY <1>7, <2>1
      <4> QED BY <1>10, <4>1
    <3> QED BY <1>2, <2>4, <3>1, CatAppend, SMTT(30)
  <2> QED BY <2>1, <2>2, <2>3, <2>4, <2>5
<1>13. \A k \in Nat : k \in B
  <2> HIDE DEF B
  <2> QED BY <1>11, <1>12, Induct
<1>14. \A k \in 0 .. m : K[n + node(k)] = Cat(c, Upto(out, k)) BY <1>13
<1>15. ASSUME NEW k \in 1 .. m PROVE K[n + acc[k]] = Cat(c, Upto(out, k))
  <2>1. k \in 0 .. m /\ node(k) = acc[k] BY <1>7
  <2> QED BY <1>14, <2>1
<1>16. ASSUME NEW k \in 1 .. Len(out)
       PROVE  out[k] = Weights(step.generation, Cat(c, Upto(out, k - 1)))
  <2>1. k - 1 \in 0 .. m BY <1>7
  <2>2. out[k] = t[node(k - 1) + 1]
    <3>1. CASE k = 1 BY <1>7, <3>1
    <3>2. CASE k # 1
      <4>1. k - 1 \in 1 .. m /\ (k - 1) + 1 = k /\ node(k - 1) = acc[k - 1] BY <1>7, <3>2, SMTT(30)
      <4> QED BY <1>7, <4>1
    <3> QED BY <3>1, <3>2
  <2>3. node(k - 1) \in 0 .. S
    <3>1. CASE k = 1 BY <1>1, <3>1
    <3>2. CASE k # 1
      <4>1. k - 1 \in 1 .. m /\ node(k - 1) = acc[k - 1] BY <1>7, <3>2
      <4>2. acc[k - 1] \in 1 .. S BY <1>8, <4>1
      <4> QED BY <1>1, <4>1, <4>2
    <3> QED BY <3>1, <3>2
  <2> DEFINE x == node(k - 1)
  <2> HIDE DEF node
  <2>4. x + 1 \in 1 .. S + 1 /\ (x + 1) - 1 = x BY <1>1, <2>3
  <2>5. t[x + 1] = Weights(step.generation, K[n + x]) BY <1>4, <2>4
  <2>6. K[n + x] = Cat(c, Upto(out, k - 1)) BY <1>14, <2>1
  <2> QED BY <2>2, <2>5, <2>6
<1>17. Continues(c, out) BY <1>16 DEF Continues
<1> QED BY <1>5, <1>7, <1>15, <1>17 DEF n, S, K, c, m

Phases == {"idle", "leased", "running", "forwarded", "done", "failed"}

(* The inductive invariant of the texts, part by part.  What is known of a *)
(* request: its tokens are those the model gives, and how many K/V it has. *)
Ended(k, tokens) ==
  \/ Len(tokens) = k.prompt + MaxNew
  \/ Len(tokens) > k.prompt /\ tokens[Len(tokens)] = k.eos

Genuine(k) ==
  \A i \in k.prompt + 1 .. Len(k.tokens) :
    /\ k.tokens[i] = Weights(k.model, Upto(k.tokens, i - 1))
    /\ i < Len(k.tokens) => k.tokens[i] # k.eos

Worded(k) ==
  /\ k.tokens \in Seq(Nat) /\ k.prompt \in Nat \ {0} /\ k.computed \in Nat /\ k.readonly \in Nat
  /\ k.prompt <= Len(k.tokens) /\ Len(k.tokens) <= k.prompt + MaxNew
  /\ k.computed <= Len(k.tokens) /\ k.readonly * BlockSize <= k.computed
  /\ k.status = "active" => k.computed < Len(k.tokens) /\ ~Ended(k, k.tokens)
  /\ k.status = "finished" => Ended(k, k.tokens)
  /\ Genuine(k)

Alive(r) == request[r].status \in {"active", "finished"}

(* Its pages: the first may be another request's, who may not write it.    *)
Lent(x) ==
  /\ request[x].status # "new"
  /\ Alive(x) => request[x].readonly >= 1
  /\ x \in Batch => step.work[x].readonly >= 1

FirstOf(r, x, page) ==
  /\ Blocks[x] \in Seq(Nat) /\ Blocks[x] # <<>> /\ page = Blocks[x][1]
  /\ x # r => request[r].readonly >= 1 /\ Lent(x)

Placed(r) ==
  /\ Contiguous => request[r].blocks = <<r>> /\ request[r].readonly = 0
  /\ ~Contiguous =>
       /\ request[r].blocks \in Seq(Nat) /\ Blocks[r] \in Seq(Nat)
       /\ Len(request[r].blocks) >= Pages(request[r].prompt + MaxNew)
       /\ Len(request[r].blocks) = Len(Blocks[r])
       /\ \A i \in 2 .. Len(request[r].blocks) : request[r].blocks[i] = Blocks[r][i]
       /\ \E x \in Requests : FirstOf(r, x, request[r].blocks[1])

(* The cache has the K/V of every token that counts as computed.           *)
Held(r) ==
  \A p \in 0 .. request[r].computed - 1 :
    Read(request[r].model, Place(request[r], p)) = Upto(request[r].tokens, p + 1)

(* A plan: its pages, and that it is of the request as it is.              *)
Housed(r, plan) ==
  /\ Contiguous => plan.blocks = <<r>>
  /\ ~Contiguous =>
       /\ plan.blocks \in Seq(Nat) /\ Blocks[r] \in Seq(Nat)
       /\ Len(plan.blocks) <= Len(Blocks[r])
       /\ Len(plan.blocks) = Pages(plan.start + (plan.input + plan.lookahead))
       /\ \A i \in 1 .. Len(plan.blocks) :
            i >= 2 \/ plan.readonly = 0 => plan.blocks[i] = Blocks[r][i]

Follows(r, plan) ==
  /\ plan.context = request[r].tokens /\ plan.start = request[r].computed
  /\ plan.readonly = request[r].readonly
  /\ ~Contiguous => Len(plan.blocks) <= Len(request[r].blocks)
  /\ \A i \in 1 .. Len(plan.blocks) : plan.blocks[i] = request[r].blocks[i]

Planned(r) ==
  /\ Sized(step.work[r]) /\ Housed(r, step.work[r])
  /\ r \in Active => Follows(r, step.work[r])
  /\ step.at \in {"leased", "running"} => step.work[r].result = <<>> /\ step.work[r].cached = 0
  /\ step.at = "leased" => step.work[r].draft = NoDraft

(* After the forward and after the acceptance: what the cache holds of the *)
(* step, and what the model answered.                                      *)
Forwarded(plan) ==
  /\ \A q \in 1 .. plan.input + Size(plan.draft) :
       Read(step.generation, Place(plan, plan.start + (q - 1))) = Texts(plan)[q]
  /\ Answered(plan) /\ plan.cached = 0

Done(plan) ==
  /\ plan.result \in Seq(Nat) /\ plan.cached \in Nat /\ Len(plan.result) <= plan.output
  /\ plan.output = 0 => plan.cached = 0 /\ plan.result = <<>>
  /\ plan.output # 0 => Len(plan.result) = plan.cached + 1
  /\ Continues(plan.context, plan.result)
  /\ \A p \in plan.start .. plan.start + (plan.input + plan.cached) - 1 :
       Read(step.generation, Place(plan, p)) = Upto(Cat(plan.context, plan.result), p + 1)

(* The contiguous tensor of a request and its claim.                       *)
LengthNow(r) ==
  IF r \in Batch /\ step.at = "forwarded"
  THEN step.work[r].start + (step.work[r].input + Size(step.work[r].draft))
  ELSE IF r \in Batch /\ step.at = "done"
  THEN step.work[r].start + (step.work[r].input + step.work[r].cached)
  ELSE request[r].computed

Lengths(r) ==
  /\ entries[request[r].model][r].length = LengthNow(r)
  /\ DOMAIN claims[r] = {"committed", "reserved"}
  /\ IsFunction(claims[r], {"committed", "reserved"})
  /\ claims[r].committed = request[r].computed
  /\ r \notin Batch => claims[r].reserved = 0

Phased ==
  /\ step.at \in Phases /\ decoder \in {"standard", "chain", "trie", "any"}
  /\ backend \in {"dense", "torch", "triton"}
Sound(r) ==
  request[r].model \in Generations /\ Worded(request[r]) /\ Placed(r) /\ Held(r)
Recorded == \A r \in Requests : Alive(r) => Sound(r)
Scheduled == \A r \in Batch : Planned(r)
Stepped == \A r \in Here : /\ step.at = "forwarded" => Forwarded(step.work[r])
                           /\ step.at = "done" => Done(step.work[r])
Measured ==
  Contiguous => \A r \in Active : step.at # "failed" \/ r \notin Batch => Lengths(r)
TextInv == Phased /\ Recorded /\ Scheduled /\ Stepped /\ Measured

-----------------------------------------------------------------------------
(* Who may write where.                                                    *)

(* Past what is computed, a plan's pages are its request's own.            *)
LEMMA OwnPage ==
  ASSUME NEW r, NEW plan, NEW p \in Nat, Sized(plan), Housed(r, plan), ~Contiguous,
         plan.start <= p, p < plan.start + (plan.input + plan.lookahead)
  PROVE  /\ p \div BlockSize + 1 \in 1 .. Len(plan.blocks)
         /\ p \div BlockSize + 1 \in DOMAIN Blocks[r]
         /\ plan.blocks[p \div BlockSize + 1] = Blocks[r][p \div BlockSize + 1]
         /\ plan.readonly >= 1 => p \div BlockSize + 1 >= 2
<1> DEFINE n == plan.start + (plan.input + plan.lookahead)
           i == p \div BlockSize + 1
<1>1. /\ plan.start \in Nat /\ plan.input \in Nat /\ plan.lookahead \in Nat
      /\ plan.readonly \in Nat /\ plan.readonly * BlockSize <= plan.start
  BY DEF Sized
<1>2. /\ plan.blocks \in Seq(Nat) /\ Blocks[r] \in Seq(Nat) /\ Len(plan.blocks) <= Len(Blocks[r])
      /\ Len(plan.blocks) = Pages(n)
      /\ \A j \in 1 .. Len(plan.blocks) :
            j >= 2 \/ plan.readonly = 0 => plan.blocks[j] = Blocks[r][j]
  BY DEF Housed
<1>3. n \in Nat /\ p < n BY <1>1
<1> HIDE DEF n
<1>4. p \div BlockSize \in Nat /\ i \in 1 .. Pages(n) BY <1>3, PageOf
<1>5. ASSUME plan.readonly >= 1 PROVE i >= 2
  <2>1. plan.readonly \in Nat \ {0} BY <1>1, <1>5
  <2>2. plan.readonly * BlockSize <= p
    <3>1. BlockSize \in Nat BY AttentionAssumption
    <3> DEFINE b == plan.readonly * BlockSize
    <3>2. b \in Nat /\ b <= plan.start BY <1>1, <3>1
    <3> HIDE DEF b
    <3>3. b <= p BY <1>1, <3>2
    <3> QED BY <3>3 DEF b
  <2>3. p \div BlockSize >= 1 BY <2>1, <2>2, PageBehind
  <2> QED BY <1>4, <2>3
<1>6. plan.readonly = 0 \/ plan.readonly >= 1 BY <1>1
<1> HIDE DEF i
<1>7. i \in 1 .. Len(plan.blocks) /\ i \in 1 .. Len(Blocks[r]) BY <1>2, <1>4
<1>8. plan.blocks[i] = Blocks[r][i] BY <1>2, <1>5, <1>6, <1>7
<1> QED BY <1>2, <1>5, <1>7, <1>8 DEF i

(* Pages of requests are their own.                                        *)
LEMMA OwnBlocks ==
  ASSUME NEW r \in Requests, NEW o \in Requests, NEW i \in DOMAIN Blocks[r],
         NEW j \in DOMAIN Blocks[o], Blocks[r][i] = Blocks[o][j]
  PROVE  r = o /\ i = j
  BY ModelWorkerAssumption

(* What one request has and what another writes in a step lie apart.       *)
LEMMA PlansApart ==
  ASSUME NEW r \in Requests, NEW o \in Requests, NEW a, NEW b, NEW p \in Nat, NEW q \in Nat,
         Sized(a), Housed(r, a), a.start <= p, p < a.start + (a.input + a.lookahead),
         Sized(b), Housed(o, b), b.start <= q, q < b.start + (b.input + b.lookahead),
         Place(a, p) = Place(b, q)
  PROVE  r = o /\ p = q
<1>1. CASE Contiguous
  <2>1. Place(a, p) = <<r, p>> /\ Place(b, q) = <<o, q>> BY <1>1 DEF Place, Housed
  <2>2. <<r, p>> = <<o, q>> BY <2>1
  <2> QED BY <2>2, Zenon
<1>2. CASE ~Contiguous
  <2> DEFINE i == p \div BlockSize + 1
             j == q \div BlockSize + 1
  <2>1. i \in DOMAIN Blocks[r] /\ a.blocks[i] = Blocks[r][i] BY <1>2, OwnPage
  <2>2. j \in DOMAIN Blocks[o] /\ b.blocks[j] = Blocks[o][j] BY <1>2, OwnPage
  <2>3. a.blocks[i] = b.blocks[j] /\ p % BlockSize = q % BlockSize
    BY <1>2 DEF Place, Slot
  <2>4. r = o /\ i = j
    <3> HIDE DEF i, j
    <3>1. Blocks[r][i] = Blocks[o][j] BY <2>1, <2>2, <2>3
    <3> QED BY <2>1, <2>2, <3>1, OwnBlocks
  <2>5. p \div BlockSize = q \div BlockSize
    <3>1. p \div BlockSize \in Nat /\ q \div BlockSize \in Nat BY AttentionAssumption, Split
    <3> QED BY <2>4, <3>1
  <2> QED BY <2>3, <2>4, <2>5, SamePosition
<1> QED BY <1>1, <1>2

(* A page that holds a position of a request.                              *)
LEMMA HeldPage ==
  ASSUME NEW r, NEW p \in Nat, ~Contiguous, Worded(request[r]), Placed(r),
         p < request[r].prompt + MaxNew
  PROVE  /\ p \div BlockSize \in Nat
         /\ p \div BlockSize + 1 \in 1 .. Len(request[r].blocks)
         /\ Len(request[r].blocks) = Len(Blocks[r])
         /\ p \div BlockSize + 1 \in DOMAIN Blocks[r]
<1> DEFINE n == request[r].prompt + MaxNew
           i == p \div BlockSize + 1
<1>1. n \in Nat
  <2>1. MaxNew \in Nat /\ request[r].prompt \in Nat BY ModelWorkerAssumption DEF Worded
  <2> QED BY <2>1
<1>2. /\ request[r].blocks \in Seq(Nat) /\ Blocks[r] \in Seq(Nat)
      /\ Len(request[r].blocks) >= Pages(n) /\ Len(request[r].blocks) = Len(Blocks[r])
  BY DEF Placed
<1> HIDE DEF n
<1>3. p \div BlockSize \in Nat /\ i \in 1 .. Pages(n) /\ Pages(n) \in Nat BY <1>1, PageOf DEF n
<1> HIDE DEF i
<1>4. i \in 1 .. Len(request[r].blocks) /\ i \in DOMAIN Blocks[r] BY <1>2, <1>3
<1> QED BY <1>2, <1>3, <1>4 DEF i

(* What is computed of a request and what a step writes lie apart.         *)
LEMMA Apart ==
  ASSUME NEW r \in Requests, NEW o \in Requests, NEW p \in Nat, NEW q \in Nat,
         Alive(o), Worded(request[o]), Placed(o), p < request[o].computed,
         r \in Batch, Planned(r), Alive(r) => r \in Active,
         step.work[r].start <= q, q < step.work[r].start + (step.work[r].input + step.work[r].lookahead)
  PROVE  Place(request[o], p) # Place(step.work[r], q)
<1> DEFINE plan == step.work[r]
           i == p \div BlockSize + 1
           j == q \div BlockSize + 1
<1> SUFFICES ASSUME Place(request[o], p) = Place(plan, q) PROVE FALSE OBVIOUS
<1>1. Sized(plan) /\ Housed(r, plan) BY DEF Planned
<1>2. ~(o = r /\ p = q)
  <2> SUFFICES ASSUME o = r, p = q PROVE FALSE OBVIOUS
  <2>1. plan.start = request[r].computed BY DEF Planned, Follows
  <2>2. plan.start \in Nat BY <1>1 DEF Sized
  <2> HIDE DEF plan
  <2>3. plan.start <= q BY DEF plan
  <2> QED BY <2>1, <2>2, <2>3
<1>3. CASE Contiguous
  <2>1. Place(request[o], p) = <<o, p>> BY <1>3 DEF Place, Placed
  <2>2. Place(plan, q) = <<r, q>> BY <1>1, <1>3 DEF Place, Housed
  <2>3. <<o, p>> = <<r, q>> BY <2>1, <2>2
  <2>4. o = r /\ p = q BY <2>3, Zenon
  <2> QED BY <1>2, <2>4
<1>4. CASE ~Contiguous
  <2>1. /\ j \in DOMAIN Blocks[r] /\ plan.blocks[j] = Blocks[r][j]
        /\ plan.readonly >= 1 => j >= 2
    <3>1. plan.start <= q /\ q < plan.start + (plan.input + plan.lookahead) OBVIOUS
    <3> HIDE DEF plan
    <3> QED BY <1>1, <1>4, <3>1, OwnPage
  <2>2. request[o].blocks[i] = plan.blocks[j] /\ p % BlockSize = q % BlockSize
    BY <1>4 DEF Place, Slot
  <2>3. p < request[o].prompt + MaxNew
    <3>1. /\ request[o].computed \in Nat /\ Len(request[o].tokens) \in Nat
          /\ request[o].computed <= Len(request[o].tokens)
          /\ Len(request[o].tokens) <= request[o].prompt + MaxNew /\ request[o].prompt \in Nat
      BY DEF Worded
    <3>2. MaxNew \in Nat BY ModelWorkerAssumption
    <3> QED BY <3>1, <3>2
  <2>4. /\ p \div BlockSize \in Nat /\ i \in 1 .. Len(request[o].blocks) /\ i \in DOMAIN Blocks[o]
    BY <1>4, <2>3, HeldPage
  <2>5. q \div BlockSize \in Nat BY AttentionAssumption, Split
  <2>6. i = j /\ o = r => FALSE
    <3>1. i = j => p \div BlockSize = q \div BlockSize BY <2>4, <2>5
    <3> QED BY <1>2, <2>2, <3>1, SamePosition
  <2>7. CASE i >= 2
    <3>1. request[o].blocks[i] = Blocks[o][i]
      <4>1. i \in 2 .. Len(request[o].blocks) BY <2>4, <2>7
      <4> HIDE DEF i
      <4> QED BY <1>4, <4>1 DEF Placed
    <3>2. Blocks[o][i] = Blocks[r][j] BY <2>1, <2>2, <3>1
    <3> HIDE DEF i, j
    <3> QED BY <2>1, <2>4, <2>6, <3>2, OwnBlocks
  <2>8. CASE ~(i >= 2)
    <3>1. i = 1 BY <2>4, <2>8
    <3>2. PICK x \in Requests : FirstOf(o, x, request[o].blocks[1]) BY <1>4 DEF Placed
    <3>3. Blocks[x] \in Seq(Nat) /\ Blocks[x] # <<>> /\ request[o].blocks[1] = Blocks[x][1]
      BY <3>2 DEF FirstOf
    <3>4. 1 \in DOMAIN Blocks[x] BY <3>3
    <3> HIDE DEF i, j
    <3>5. Blocks[x][1] = Blocks[r][j] BY <2>1, <2>2, <3>1, <3>3
    <3>6. x = r /\ j = 1 BY <2>1, <3>4, <3>5, OwnBlocks
    <3>7. o # r BY <2>6, <3>1, <3>6
    <3>8. Lent(r) BY <3>2, <3>6, <3>7 DEF FirstOf
    <3>9. plan.readonly >= 1 BY <3>8 DEF Lent
    <3> QED BY <2>1, <3>6, <3>9
  <2> QED BY <2>7, <2>8
<1> QED BY <1>3, <1>4

(* Nothing of the texts moves with the models that are loaded.             *)
LEMMA FrameText ==
  ASSUME TextInv, UNCHANGED <<backend, decoder, request, claims, entries, cells, step>>
  PROVE  TextInv'
<1>1. Contiguous' = Contiguous /\ Batch' = Batch /\ Active' = Active /\ Here' = Here
  BY DEF Contiguous, Batch, Active, Here
<1>2. Phased' BY DEF TextInv, Phased
<1>3. \A k, p : Place(k, p)' = Place(k, p) BY DEF Place, Contiguous
<1>4. \A g, s : Read(g, s)' = Read(g, s) BY DEF Read
<1>5. Recorded'
  <2> SUFFICES ASSUME NEW r \in Requests, Alive(r)' PROVE Sound(r)' BY DEF Recorded
  <2>1. Sound(r) BY DEF Recorded, TextInv, Alive
  <2>2. Worded(request[r])' BY <2>1 DEF Sound
  <2>3. Placed(r)' BY <2>1 DEF Sound, Placed, FirstOf, Lent, Alive, Contiguous, Batch
  <2>4. Held(r)' BY <1>3, <1>4, <2>1 DEF Sound, Held
  <2> QED BY <2>1, <2>2, <2>3, <2>4 DEF Sound
<1>6. Scheduled'
  BY <1>1 DEF TextInv, Scheduled, Planned, Sized, Housed, Follows
<1>7. Stepped'
  BY <1>1, <1>3, <1>4 DEF TextInv, Stepped, Forwarded, Done, Answered, Continues
<1>8. Measured' BY <1>1 DEF TextInv, Measured, Lengths, LengthNow
<1> QED BY <1>2, <1>5, <1>6, <1>7, <1>8 DEF TextInv

(* A step that fails leaves everything as it was.                          *)
LEMMA FailText ==
  ASSUME Standing, TextInv, StepFailed, UNCHANGED <<backend, decoder, request, claims, entries, cells>>
  PROVE  TextInv'
<1>0. Batch' = Batch /\ step'.generation = step.generation /\ step'.at = "failed"
      /\ step'.work = step.work
  BY FailedBatch
<1>1. Contiguous' = Contiguous /\ Active' = Active /\ Here' = Here
  BY <1>0 DEF Contiguous, Active, Here
<1>2. Phased' BY <1>0 DEF TextInv, Phased, Phases
<1>3. \A k, p : Place(k, p)' = Place(k, p) BY DEF Place, Contiguous
<1>4. \A g, s : Read(g, s)' = Read(g, s) BY DEF Read
<1>5. Recorded'
  <2> SUFFICES ASSUME NEW r \in Requests, Alive(r)' PROVE Sound(r)' BY DEF Recorded
  <2>1. Sound(r) BY DEF Recorded, TextInv, Alive
  <2>2. Worded(request[r])' BY <2>1 DEF Sound
  <2>3. Placed(r)' BY <1>0, <2>1 DEF Sound, Placed, FirstOf, Lent, Alive, Contiguous
  <2>4. Held(r)' BY <1>3, <1>4, <2>1 DEF Sound, Held
  <2> QED BY <2>1, <2>2, <2>3, <2>4 DEF Sound
<1>6. Scheduled'
  <2> SUFFICES ASSUME NEW r \in Batch PROVE Planned(r)' BY <1>0 DEF Scheduled
  <2>1. Planned(r) BY DEF TextInv, Scheduled
  <2> QED BY <1>0, <1>1, <2>1 DEF Planned, Sized, Housed, Follows
<1>7. Stepped' BY <1>0 DEF Stepped
<1>8. Measured'
  <2> SUFFICES ASSUME Contiguous, NEW r \in Active, r \notin Batch PROVE Lengths(r)'
    BY <1>0, <1>1 DEF Measured
  <2>1. Lengths(r) BY DEF TextInv, Measured
  <2> QED BY <1>0, <2>1 DEF Lengths, LengthNow
<1> QED BY <1>2, <1>5, <1>6, <1>7, <1>8 DEF TextInv

(* What is named by a request or by the step is kept.                      *)
LEMMA KeepRead ==
  ASSUME NEW nr, NEW ns, Keep(nr, ns), NEW g \in Generations, NEW slot,
         \/ \E r \in Requests : slot[1] \in ToSet(nr[r].blocks)
         \/ \E r \in DOMAIN ns.work : slot[1] \in ToSet(ns.work[r].blocks)
  PROVE  Read(g, slot)' = Read(g, slot)
<1> DEFINE one == { ToSet(nr[r].blocks) : r \in Requests }
           two == { ToSet(ns.work[r].blocks) : r \in DOMAIN ns.work }
           named == (UNION one) \union (UNION two)
           live == { x \in DOMAIN cells[g] : x[1] \in named }
<1>1. slot[1] \in named
  <2> DEFINE y == slot[1]
  <2>1. \/ \E r \in Requests : y \in ToSet(nr[r].blocks)
        \/ \E r \in DOMAIN ns.work : y \in ToSet(ns.work[r].blocks)
    OBVIOUS
  <2> HIDE DEF y
  <2>3. \A r \in Requests : ToSet(nr[r].blocks) \in one OBVIOUS
  <2>4. \A r \in DOMAIN ns.work : ToSet(ns.work[r].blocks) \in two OBVIOUS
  <2> HIDE DEF one, two, named
  <2>2. y \in named BY <2>1, <2>3, <2>4 DEF named
  <2> QED BY <2>2 DEF y
<1>2. cells'[g] = Restrict(cells[g], live) BY Zenon DEF Keep
<1> HIDE DEF named
<1>3. slot \in live <=> slot \in DOMAIN cells[g] BY <1>1
<1>4. cells'[g] = [x \in live |-> cells[g][x]] BY <1>2, Zenon DEF Restrict
<1> HIDE DEF live
<1>5. slot \in DOMAIN cells'[g] <=> slot \in DOMAIN cells[g] BY <1>3, <1>4
<1>6. slot \in DOMAIN cells[g] => cells'[g][slot] = cells[g][slot] BY <1>3, <1>4
<1> QED BY <1>5, <1>6 DEF Read

(* What is not written stays.                                              *)
LEMMA StoreKeeps ==
  ASSUME NEW cache, NEW writes, NEW slot, NEW new, new = Stored(cache, writes),
         \A r \in DOMAIN writes : slot \notin DOMAIN writes[r]
  PROVE  /\ slot \in DOMAIN new <=> slot \in DOMAIN cache
         /\ slot \in DOMAIN cache => new[slot] = cache[slot]
<1> DEFINE of(s) == { r \in DOMAIN writes : s \in DOMAIN writes[r] }
           all == DOMAIN cache \union UNION { DOMAIN writes[r] : r \in DOMAIN writes }
<1>1. new = [s \in all |-> IF of(s) = {} THEN cache[s]
                           ELSE writes[CHOOSE r \in of(s) : TRUE][s]]
  BY Zenon DEF Stored
<1>2. of(slot) = {} OBVIOUS
<1>3. slot \in all <=> slot \in DOMAIN cache OBVIOUS
<1> HIDE DEF of, all
<1>4. DOMAIN new = all BY <1>1
<1>5. slot \in all => new[slot] = cache[slot] BY <1>1, <1>2
<1> QED BY <1>3, <1>4, <1>5

(* What one request writes, and no other, is there.                        *)
LEMMA StoreWrites ==
  ASSUME NEW cache, NEW writes, NEW new, new = Stored(cache, writes), NEW r \in DOMAIN writes,
         NEW slot \in DOMAIN writes[r], \A o \in DOMAIN writes : slot \in DOMAIN writes[o] => o = r
  PROVE  slot \in DOMAIN new /\ new[slot] = writes[r][slot]
<1> DEFINE of(s) == { o \in DOMAIN writes : s \in DOMAIN writes[o] }
           all == DOMAIN cache \union UNION { DOMAIN writes[o] : o \in DOMAIN writes }
<1>1. new = [s \in all |-> IF of(s) = {} THEN cache[s]
                           ELSE writes[CHOOSE o \in of(s) : TRUE][s]]
  BY Zenon DEF Stored
<1>2. of(slot) = {r} OBVIOUS
<1>3. slot \in all OBVIOUS
<1>4. (CHOOSE o \in {r} : TRUE) = r OBVIOUS
<1> HIDE DEF of, all
<1>5. DOMAIN new = all BY <1>1
<1>6. new[slot] = writes[r][slot] BY <1>1, <1>2, <1>3, <1>4
<1> QED BY <1>3, <1>5, <1>6

(* A request whose record and K/V stay is as sound as before.              *)
LEMMA SoundKept ==
  ASSUME NEW r \in Requests, NEW k, k = request[r], request'[r] = k, backend' = backend,
         Alive(r), Sound(r),
         \A p \in 0 .. k.computed - 1 :
           Read(k.model, Place(k, p))' = Read(k.model, Place(k, p)),
         \A x \in Requests : x # r /\ Lent(x) => Lent(x)'
  PROVE  Sound(r)'
<1>1. Worded(request[r])' BY DEF Sound
<1>2. Placed(r)'
  <2>1. \A x, page : FirstOf(r, x, page) /\ x \in Requests => FirstOf(r, x, page)'
    BY DEF FirstOf
  <2>2. Placed(r) BY DEF Sound
  <2> QED BY <2>1, <2>2 DEF Placed, Contiguous
<1>3. Held(r)'
  <2>1. Held(r) BY DEF Sound
  <2>2. \A p : Place(k, p)' = Place(k, p) BY DEF Place, Contiguous
  <2>3. \A p \in 0 .. k.computed - 1 : Read(k.model, Place(k, p)) = Upto(k.tokens, p + 1)
    BY <2>1 DEF Held
  <2>4. \A p \in 0 .. k.computed - 1 : Read(k.model, Place(k, p))' = Upto(k.tokens, p + 1)
    BY <2>3
  <2> QED BY <2>4 DEF Held
<1>4. request'[r].model \in Generations BY DEF Sound
<1> QED BY <1>1, <1>2, <1>3, <1>4 DEF Sound

(* The slots of a request's K/V are on its pages.                          *)
LEMMA HeldNamed ==
  ASSUME NEW r \in Requests, Alive(r), Sound(r), NEW p \in 0 .. request[r].computed - 1
  PROVE  Place(request[r], p)[1] \in ToSet(request[r].blocks)
<1>1. CASE Contiguous
  <2>1. request[r].blocks = <<r>> BY <1>1 DEF Sound, Placed
  <2>2. request[r].blocks[1] = r /\ 1 \in DOMAIN request[r].blocks BY <2>1
  <2>3. Place(request[r], p)[1] = request[r].blocks[1] BY <1>1 DEF Place
  <2> QED BY <2>2, <2>3 DEF ToSet
<1>2. CASE ~Contiguous
  <2> DEFINE i == p \div BlockSize + 1
  <2>1. p \in Nat /\ p < request[r].prompt + MaxNew
    <3>1. /\ request[r].computed \in Nat /\ Len(request[r].tokens) \in Nat
          /\ request[r].computed <= Len(request[r].tokens)
          /\ Len(request[r].tokens) <= request[r].prompt + MaxNew /\ request[r].prompt \in Nat
      BY DEF Sound, Worded
    <3>2. MaxNew \in Nat BY ModelWorkerAssumption
    <3> QED BY <3>1, <3>2
  <2>2. i \in 1 .. Len(request[r].blocks) BY <1>2, <2>1, HeldPage DEF Sound
  <2>3. request[r].blocks \in Seq(Nat) BY <1>2 DEF Sound, Placed
  <2> DEFINE b == request[r].blocks
  <2>4. Place(request[r], p)[1] = b[i] BY <1>2 DEF Place, Slot
  <2> HIDE DEF i, b
  <2>5. b[i] \in ToSet(b)
    <3>1. i \in DOMAIN b BY <2>2, <2>3 DEF b
    <3> QED BY <3>1 DEF ToSet
  <2> QED BY <2>4, <2>5 DEF b
<1> QED BY <1>1, <1>2

(* ... and those a plan may use are on the plan's.                         *)
LEMMA PlanNamed ==
  ASSUME NEW r, NEW plan, Sized(plan), Housed(r, plan), NEW p \in Nat,
         p < plan.start + (plan.input + plan.lookahead)
  PROVE  Place(plan, p)[1] \in ToSet(plan.blocks)
<1>1. CASE Contiguous
  <2>1. plan.blocks = <<r>> BY <1>1 DEF Housed
  <2>2. plan.blocks[1] = r /\ 1 \in DOMAIN plan.blocks BY <2>1
  <2>3. Place(plan, p)[1] = plan.blocks[1] BY <1>1 DEF Place
  <2> QED BY <2>2, <2>3 DEF ToSet
<1>2. CASE ~Contiguous
  <2> DEFINE i == p \div BlockSize + 1
             n == plan.start + (plan.input + plan.lookahead)
             b == plan.blocks
  <2>1. n \in Nat
    <3>1. plan.start \in Nat /\ plan.input \in Nat /\ plan.lookahead \in Nat BY DEF Sized
    <3> QED BY <3>1
  <2>2. b \in Seq(Nat) /\ Len(b) = Pages(n) BY <1>2 DEF Housed
  <2>3. Place(plan, p)[1] = b[i] BY <1>2 DEF Place, Slot
  <2>4. p < n OBVIOUS
  <2> HIDE DEF n, b
  <2>5. i \in 1 .. Len(b) BY <2>1, <2>2, <2>4, PageOf
  <2> HIDE DEF i
  <2>6. b[i] \in ToSet(b)
    <3>1. i \in DOMAIN b BY <2>2, <2>5
    <3> QED BY <3>1 DEF ToSet
  <2> QED BY <2>3, <2>6 DEF b
<1> QED BY <1>1, <1>2

(* The K/V of a request that stays, while others go, stays.                *)
LEMMA HeldKeep ==
  ASSUME NEW nr, NEW ns, Keep(nr, ns), backend' = backend, NEW r \in Requests, NEW k, k = request[r],
         Alive(r), Sound(r), nr[r].blocks = k.blocks
  PROVE  \A p \in 0 .. k.computed - 1 : Read(k.model, Place(k, p))' = Read(k.model, Place(k, p))
<1> SUFFICES ASSUME NEW p \in 0 .. k.computed - 1, NEW slot, slot = Place(k, p)
             PROVE  Read(k.model, Place(k, p))' = Read(k.model, Place(k, p))
  OBVIOUS
<1>1. Place(k, p)' = slot BY DEF Place, Contiguous
<1>2. slot[1] \in ToSet(nr[r].blocks) BY HeldNamed
<1>3. k.model \in Generations BY DEF Sound
<1>4. \E o \in Requests : slot[1] \in ToSet(nr[o].blocks) BY <1>2
<1>5. Read(k.model, slot)' = Read(k.model, slot) BY <1>3, <1>4, KeepRead
<1> QED BY <1>1, <1>5 DEF Read

(* The entry and the claim of an active request, in the contiguous cache.  *)
LEMMA EntryOf ==
  ASSUME Standing, EntriesInv, Contiguous, NEW r \in Active
  PROVE  /\ installed \in Generations /\ request[r].model = installed
         /\ Whole(entries[installed]) /\ r \in DOMAIN entries[installed]
         /\ r \in DOMAIN claims
<1>1. installed \in Generations /\ request[r].model = installed BY DEF Standing
<1>2. Accounted(installed) /\ r \in DOMAIN claims BY <1>1 DEF EntriesInv
<1>3. r \in Holders(installed) BY <1>1 DEF Holders
<1> QED BY <1>1, <1>2, <1>3 DEF Accounted

(* A plan keeps what is known of it as long as its request is the same.    *)
LEMMA PlannedKept ==
  ASSUME NEW r, Planned(r), UNCHANGED <<backend, decoder>>, step' = step,
         r \in Active' => r \in Active /\ request'[r] = request[r]
  PROVE  Planned(r)'
<1>1. Sized(step.work[r])' BY DEF Planned, Sized
<1>2. Housed(r, step.work[r])' BY DEF Planned, Housed, Contiguous
<1>3. r \in Active' => Follows(r, step.work[r])' BY DEF Planned, Follows, Contiguous
<1> QED BY <1>1, <1>2, <1>3 DEF Planned

(* A request is cancelled: the others keep their records and their K/V.    *)
LEMMA FreeText ==
  ASSUME Standing, EntriesInv, TextInv, NEW r \in Requests, FreeRequest(r)
  PROVE  TextInv'
<1>0. /\ r \in Active /\ request' = Without({r}) /\ Keep(Without({r}), step)
      /\ UNCHANGED <<backend, decoder, step>>
      /\ entries' = [entries EXCEPT ![installed] = Freed(@, {r})]
      /\ claims' = FreeClaims(claims, {r} \ Batch)
  BY DEF FreeRequest, Active, assembly
<1>1. /\ request'[r].status = "dropped" /\ \A o \in Requests \ {r} : request'[o] = request[o]
  BY <1>0, WithoutShape DEF Standing
<1>2. Batch' = Batch /\ Active' = Active \ {r} /\ Contiguous' = Contiguous
  BY <1>0, <1>1 DEF Batch, Active, Contiguous
<1>3. Here' = Here \ {r} BY <1>2 DEF Here
<1>4. Phased' BY <1>0 DEF TextInv, Phased
<1>5. Recorded'
  <2> SUFFICES ASSUME NEW o \in Requests, Alive(o)' PROVE Sound(o)' BY DEF Recorded
  <2>1. o # r BY <1>1 DEF Alive
  <2>2. request'[o] = request[o] BY <1>1, <2>1
  <2>3. Alive(o) BY <2>2 DEF Alive
  <2>4. Sound(o) BY <2>3 DEF TextInv, Recorded
  <2>5. PICK k : k = request[o] OBVIOUS
  <2>6. \A p \in 0 .. k.computed - 1 : Read(k.model, Place(k, p))' = Read(k.model, Place(k, p))
    <3>1. PICK nr : nr = Without({r}) OBVIOUS
    <3>2. PICK ns : ns = step OBVIOUS
    <3>3. nr[o].blocks = k.blocks BY <1>0, <2>2, <2>5, <3>1
    <3>4. backend' = backend /\ Keep(nr, ns) BY <1>0, <3>1, <3>2
    <3> QED BY <2>3, <2>4, <2>5, <3>3, <3>4, HeldKeep
  <2>7. \A x \in Requests : Lent(x) => Lent(x)'
    <3> TAKE x \in Requests
    <3>1. CASE x = r BY <1>0, <1>1, <1>2, <3>1 DEF Lent, Alive
    <3>2. CASE x # r
      <4>1. request'[x] = request[x] BY <1>1, <3>2
      <4> QED BY <1>0, <1>2, <4>1 DEF Lent, Alive
    <3> QED BY <3>1, <3>2
  <2> QED BY <1>0, <2>2, <2>3, <2>4, <2>5, <2>6, <2>7, SoundKept
<1>6. Scheduled'
  <2> SUFFICES ASSUME NEW o \in Batch PROVE Planned(o)' BY <1>2 DEF Scheduled
  <2>1. Planned(o) BY DEF TextInv, Scheduled
  <2>2. o \in Active' => o \in Active /\ request'[o] = request[o] BY <1>1, <1>2 DEF Active
  <2> QED BY <1>0, <2>1, <2>2, PlannedKept
<1>7. Stepped'
  <2> SUFFICES ASSUME NEW o \in Here, o # r
               PROVE  /\ step.at = "forwarded" => Forwarded(step.work[o])'
                      /\ step.at = "done" => Done(step.work[o])'
    BY <1>0, <1>3 DEF Stepped
  <2>1. PICK plan : plan = step.work[o] OBVIOUS
  <2>2. o \in Batch /\ Planned(o) BY DEF TextInv, Scheduled, Here
  <2>3. Sized(plan) /\ Housed(o, plan) BY <2>1, <2>2 DEF Planned
  <2>4. step.generation \in Generations BY <2>2 DEF Standing
  <2>5. ASSUME NEW p \in Nat, p < plan.start + (plan.input + plan.lookahead)
        PROVE  Read(step.generation, Place(plan, p))' = Read(step.generation, Place(plan, p))
    <3>1. PICK slot : slot = Place(plan, p) OBVIOUS
    <3>2. PICK g : g = step.generation OBVIOUS
    <3>3. Place(plan, p)' = slot BY <1>2, <3>1 DEF Place
    <3>4. slot[1] \in ToSet(plan.blocks) BY <2>3, <2>5, <3>1, PlanNamed
    <3>5. \E x \in DOMAIN step.work : slot[1] \in ToSet(step.work[x].blocks)
      BY <2>1, <2>2, <3>4 DEF Batch
    <3>6. g \in Generations BY <2>4, <3>2
    <3>7. Read(g, slot)' = Read(g, slot) BY <1>0, <3>5, <3>6, KeepRead
    <3> QED BY <1>0, <3>1, <3>2, <3>3, <3>7 DEF Read
  <2>6. CASE step.at = "forwarded"
    <3>1. Forwarded(plan) BY <2>1, <2>6 DEF TextInv, Stepped
    <3>2. ASSUME NEW q \in 1 .. plan.input + Size(plan.draft)
          PROVE  Read(step.generation, Place(plan, plan.start + (q - 1)))' = Texts(plan)[q]
      <4> DEFINE p == plan.start + (q - 1)
      <4>1. p \in Nat /\ p < plan.start + (plan.input + plan.lookahead)
        <5>1. /\ plan.start \in Nat /\ plan.input \in Nat /\ plan.lookahead \in Nat
              /\ Size(plan.draft) \in Nat /\ Size(plan.draft) <= plan.lookahead
          BY <2>3 DEF Sized, IsTree, Size
        <5> QED BY <5>1
      <4>2. Read(step.generation, Place(plan, p)) = Texts(plan)[q] BY <3>1 DEF Forwarded
      <4> HIDE DEF p
      <4>3. Read(step.generation, Place(plan, p))' = Texts(plan)[q] BY <2>5, <4>1, <4>2
      <4> QED BY <4>3 DEF p
    <3>3. Answered(plan)' BY <1>0, <3>1 DEF Forwarded, Answered
    <3>4. Forwarded(plan)' BY <3>1, <3>2, <3>3 DEF Forwarded
    <3> QED BY <1>0, <2>1, <2>6, <3>4
  <2>7. CASE step.at = "done"
    <3>1. Done(plan) BY <2>1, <2>7 DEF TextInv, Stepped
    <3>2. ASSUME NEW p \in plan.start .. plan.start + (plan.input + plan.cached) - 1
          PROVE  Read(step.generation, Place(plan, p))' = Upto(Cat(plan.context, plan.result), p + 1)
      <4>1. p \in Nat /\ p < plan.start + (plan.input + plan.lookahead)
        <5>1. /\ plan.start \in Nat /\ plan.input \in Nat /\ plan.lookahead \in Nat
              /\ plan.output \in Nat /\ plan.output <= plan.lookahead + 1
          BY <2>3 DEF Sized
        <5>2. /\ plan.cached \in Nat /\ Len(plan.result) \in Nat /\ Len(plan.result) <= plan.output
              /\ plan.output = 0 => plan.cached = 0
              /\ plan.output # 0 => Len(plan.result) = plan.cached + 1
          BY <3>1 DEF Done
        <5>3. PICK s \in Nat, i \in Nat, h \in Nat :
                s = plan.start /\ i = plan.input /\ h = plan.lookahead
          BY <5>1
        <5>4. PICK k \in Nat : k = plan.cached BY <5>2
        <5>5. k <= h
          <6>1. CASE plan.output = 0 BY <5>2, <5>3, <5>4, <6>1
          <6>2. CASE plan.output # 0
            <7>1. PICK e \in Nat, x \in Nat : e = plan.output /\ x = Len(plan.result)
              BY <5>1, <5>2
            <7>2. x = k + 1 /\ x <= e /\ e <= h + 1 BY <5>1, <5>2, <5>3, <5>4, <6>2, <7>1
            <7> QED BY <7>2
          <6> QED BY <6>1, <6>2
        <5>6. p \in s .. s + (i + k) - 1 BY <5>3, <5>4
        <5>7. p \in Nat /\ p < s + (i + h) BY <5>3, <5>4, <5>5, <5>6
        <5> QED BY <5>3, <5>7
      <4>2. Read(step.generation, Place(plan, p)) = Upto(Cat(plan.context, plan.result), p + 1)
        BY <3>1 DEF Done
      <4> QED BY <2>5, <4>1, <4>2
    <3>3. Continues(plan.context, plan.result)' BY <1>0, <3>1 DEF Done, Continues
    <3>4. Done(plan)' BY <3>1, <3>2, <3>3 DEF Done
    <3> QED BY <1>0, <2>1, <2>7, <3>4
  <2> QED BY <2>6, <2>7
<1>8. Measured'
  <2> SUFFICES ASSUME Contiguous, NEW o \in Active, o # r, step.at # "failed" \/ o \notin Batch
               PROVE  Lengths(o)'
    BY <1>0, <1>2 DEF Measured
  <2>1. Lengths(o) BY DEF TextInv, Measured
  <2>2. /\ installed \in Generations /\ request[o].model = installed
        /\ Whole(entries[installed]) /\ o \in DOMAIN entries[installed] /\ o \in DOMAIN claims
    BY EntryOf
  <2>3. request'[o] = request[o] BY <1>1 DEF Active
  <2>4. entries'[installed] = Freed(entries[installed], {r}) BY <1>0, <2>2 DEF Standing
  <2>5. entries'[installed][o].length = entries[installed][o].length
    <3>1. PICK new : new = Freed(entries[installed], {r}) OBVIOUS
    <3>2. o \in DOMAIN new /\ new[o].length = entries[installed][o].length
      BY <2>2, <3>1, FreedShape
    <3> QED BY <2>4, <3>1, <3>2
  <2>6. claims'[o] = claims[o]
    <3>1. o \in DOMAIN claims \ ({r} \ Batch) BY <2>2
    <3> QED BY <1>0, <3>1 DEF FreeClaims, Restrict
  <2>7. LengthNow(o)' = LengthNow(o) BY <1>0, <1>2, <2>3 DEF LengthNow
  <2> QED BY <1>2, <2>1, <2>2, <2>3, <2>5, <2>6, <2>7 DEF Lengths
<1> QED BY <1>4, <1>5, <1>6, <1>7, <1>8 DEF TextInv

(* The record of a request that is admitted.                               *)
Admission(r, prompt, eos, k, n) ==
  /\ prompt \in Seq(Nat) /\ prompt # <<>>
  /\ k.status = "active" /\ k.model = installed /\ k.prompt = Len(prompt) /\ k.tokens = prompt
  /\ k.eos = eos /\ k.readonly = n /\ k.computed = n * BlockSize

(* Nothing of its text is in question yet.                                 *)
LEMMA AdmittedWorded ==
  ASSUME NEW r, NEW prompt, NEW eos, NEW k, NEW n \in {0, 1}, Admission(r, prompt, eos, k, n),
         n * BlockSize < Len(prompt)
  PROVE  Worded(k)
<1>1. /\ prompt \in Seq(Nat) /\ Len(prompt) \in Nat \ {0} /\ MaxNew \in Nat \ {0} /\ BlockSize \in Nat
  <2>1. prompt \in Seq(Nat) /\ prompt # <<>> BY DEF Admission
  <2>2. Len(prompt) \in Nat \ {0} BY <2>1, EmptySeq
  <2>3. MaxNew \in Nat \ {0} BY ModelWorkerAssumption
  <2> QED BY <2>1, <2>2, <2>3, AttentionAssumption
<1>2. /\ k.status = "active" /\ k.prompt = Len(prompt) /\ k.tokens = prompt
      /\ k.readonly = n /\ k.computed = n * BlockSize
  BY DEF Admission
<1>3. n * BlockSize \in Nat BY <1>1
<1> DEFINE m == n * BlockSize
           L == Len(prompt)
<1>4. m \in Nat /\ L \in Nat \ {0} /\ m < L BY <1>1, <1>3
<1> HIDE DEF m, L
<1>5. ~Ended(k, k.tokens)
  <2>1. L # L + MaxNew /\ ~(L > L) BY <1>1, <1>4
  <2> QED BY <1>2, <2>1 DEF Ended, L
<1>6. Genuine(k)
  <2>1. \A i \in L + 1 .. L : FALSE BY <1>4
  <2> QED BY <1>2, <2>1 DEF Genuine, L
<1>7. L <= L + MaxNew /\ L <= L /\ m <= L /\ m <= m BY <1>1, <1>4
<1>8. k.tokens \in Seq(Nat) /\ k.prompt \in Nat \ {0} /\ k.computed \in Nat /\ k.readonly \in Nat
  BY <1>1, <1>2, <1>4 DEF L, m
<1>9. k.prompt <= Len(k.tokens) /\ Len(k.tokens) <= k.prompt + MaxNew
      /\ k.computed <= Len(k.tokens) /\ k.readonly * BlockSize <= k.computed
      /\ k.computed < Len(k.tokens)
  BY <1>2, <1>4, <1>7 DEF L, m
<1> QED BY <1>2, <1>5, <1>6, <1>8, <1>9 DEF Worded

(* The pages of every request suffice for any prompt.                      *)
LEMMA BlocksSuffice ==
  ASSUME NEW r \in Requests, NEW prompt \in Prompts
  PROVE  /\ prompt \in Seq(Nat) /\ prompt # <<>>
         /\ Blocks[r] \in Seq(Nat) /\ Len(Blocks[r]) >= Pages(Len(prompt) + MaxNew)
         /\ Blocks[r] # <<>>
<1>1. /\ prompt \in Seq(Nat) /\ prompt # <<>>
      /\ Blocks[r] \in Seq(Nat) /\ Len(Blocks[r]) >= Pages(Len(prompt) + MaxNew)
      /\ MaxNew \in Nat \ {0}
  BY ModelWorkerAssumption
<1> DEFINE n == Len(prompt) + MaxNew
<1>2. n \in Nat /\ 0 < n BY <1>1
<1> HIDE DEF n
<1>3. 0 \div BlockSize + 1 \in 1 .. Pages(n) /\ Pages(n) \in Nat BY <1>2, PageOf
<1>4. Pages(n) >= 1 BY <1>3
<1>5. Len(Blocks[r]) >= 1
  <2>1. Len(Blocks[r]) >= Pages(n) /\ Len(Blocks[r]) \in Nat BY <1>1 DEF n
  <2> QED BY <1>3, <1>4, <2>1
<1>6. Blocks[r] # <<>>
  <2>1. Len(<<>>) = 0 OBVIOUS
  <2> QED BY <1>5, <2>1
<1> QED BY <1>1, <1>6

(* A request admitted without sharing.                                     *)
LEMMA AdmittedAlone ==
  ASSUME NEW r \in Requests, NEW prompt \in Prompts, NEW eos, NEW k, k = request'[r],
         Admission(r, prompt, eos, k, 0), backend' = backend, installed \in Generations,
         k.blocks = IF Contiguous THEN <<r>> ELSE Blocks[r]
  PROVE  Sound(r)'
<1>1. /\ prompt \in Seq(Nat) /\ prompt # <<>> /\ Blocks[r] \in Seq(Nat) /\ Blocks[r] # <<>>
      /\ Len(Blocks[r]) >= Pages(Len(prompt) + MaxNew)
  BY BlocksSuffice
<1>2. /\ k.model = installed /\ k.prompt = Len(prompt) /\ k.readonly = 0 /\ k.computed = 0
  BY AttentionAssumption DEF Admission
<1>3. Worded(k)
  <2>1. Len(prompt) \in Nat \ {0} BY <1>1, EmptySeq
  <2>2. 0 * BlockSize < Len(prompt) BY <2>1, AttentionAssumption
  <2> QED BY <2>2, AdmittedWorded
<1>4. Held(r)'
  <2>1. \A p \in 0 .. 0 - 1 : FALSE OBVIOUS
  <2> QED BY <1>2, <2>1 DEF Held
<1>5. Placed(r)'
  <2>1. Contiguous' = Contiguous BY DEF Contiguous
  <2>2. FirstOf(r, r, Blocks[r][1])' BY <1>1 DEF FirstOf
  <2> QED BY <1>1, <1>2, <2>1, <2>2 DEF Placed
<1> QED BY <1>2, <1>3, <1>4, <1>5 DEF Sound

(* A request admitted on the first page of another.                        *)
LEMMA AdmittedSharing ==
  ASSUME Standing, Recorded, Scheduled, NEW r \in Requests, NEW prompt \in Prompts, NEW eos, NEW k,
         k = request'[r], Admission(r, prompt, eos, k, 1), UNCHANGED <<backend, step, cells>>,
         request[r].status = "new", \A x \in Requests \ {r} : request'[x] = request[x],
         installed \in Generations, NEW o \in Sharable(prompt),
         k.blocks = [Blocks[r] EXCEPT ![1] = request[o].blocks[1]]
  PROVE  Sound(r)'
<1>1. /\ prompt \in Seq(Nat) /\ prompt # <<>> /\ Blocks[r] \in Seq(Nat) /\ Blocks[r] # <<>>
      /\ Len(Blocks[r]) >= Pages(Len(prompt) + MaxNew)
  BY BlocksSuffice
<1>2. /\ k.model = installed /\ k.prompt = Len(prompt) /\ k.readonly = 1
      /\ k.computed = 1 * BlockSize /\ k.tokens = prompt
  BY DEF Admission
<1>3. /\ o \in Requests /\ ~Contiguous /\ BlockSize < Len(prompt)
      /\ request[o].status \in {"active", "finished"} /\ request[o].model = installed
      /\ request[o].readonly >= 1
      /\ Upto(request[o].tokens, BlockSize) = Upto(prompt, BlockSize)
  BY DEF Sharable, Upto
<1>4. Alive(o) /\ Sound(o) BY <1>3 DEF Alive, Recorded
<1>5. BlockSize \in Nat \ {0} /\ k.computed = BlockSize BY <1>2, AttentionAssumption
<1>6. Worded(k)
  <2>1. 1 * BlockSize < Len(prompt) BY <1>3, <1>5
  <2> QED BY <2>1, AdmittedWorded
<1>7. request[o].computed \in Nat /\ BlockSize <= request[o].computed
      /\ request[o].computed <= Len(request[o].tokens) /\ request[o].tokens \in Seq(Nat)
  <2>1. /\ request[o].computed \in Nat /\ request[o].readonly \in Nat
        /\ request[o].readonly * BlockSize <= request[o].computed
        /\ request[o].computed <= Len(request[o].tokens) /\ request[o].tokens \in Seq(Nat)
    BY <1>4 DEF Sound, Worded
  <2>2. 1 * BlockSize <= request[o].readonly * BlockSize
    BY <1>3, <1>5, <2>1, Multiples
  <2> DEFINE m == request[o].readonly * BlockSize
  <2>3. m \in Nat BY <1>5, <2>1
  <2> HIDE DEF m
  <2>4. BlockSize <= m BY <1>5, <2>2 DEF m
  <2>5. m <= request[o].computed BY <2>1 DEF m
  <2> QED BY <1>5, <2>1, <2>3, <2>4, <2>5
<1>8. /\ request[o].blocks \in Seq(Nat) /\ Len(request[o].blocks) >= 1
      /\ request[o].blocks[1] \in Nat
  <2>1. 0 < request[o].prompt + MaxNew
    <3>1. request[o].prompt \in Nat \ {0} BY <1>4 DEF Sound, Worded
    <3>2. MaxNew \in Nat BY ModelWorkerAssumption
    <3> QED BY <3>1, <3>2
  <2>2. 0 \div BlockSize + 1 \in 1 .. Len(request[o].blocks)
    BY <1>3, <1>4, <2>1, HeldPage DEF Sound
  <2>3. request[o].blocks \in Seq(Nat) BY <1>3, <1>4 DEF Sound, Placed
  <2>4. 1 \in 1 .. Len(request[o].blocks) BY <2>2, <2>3
  <2> QED BY <2>3, <2>4
<1>9. /\ k.blocks \in Seq(Nat) /\ Len(k.blocks) = Len(Blocks[r])
      /\ k.blocks[1] = request[o].blocks[1]
      /\ \A i \in 2 .. Len(k.blocks) : k.blocks[i] = Blocks[r][i]
  <2> DEFINE b == Blocks[r]
             x == request[o].blocks[1]
  <2>1. b \in Seq(Nat) /\ b # <<>> /\ x \in Nat BY <1>1, <1>8
  <2>2. k.blocks = [b EXCEPT ![1] = x] OBVIOUS
  <2> HIDE DEF b, x
  <2>3. 1 \in DOMAIN b BY <2>1
  <2>3a. b \in [1 .. Len(b) -> Nat] /\ Len(b) \in Nat BY <2>1
  <2>3b. k.blocks \in [1 .. Len(b) -> Nat] BY <2>1, <2>2, <2>3a
  <2>4. k.blocks \in Seq(Nat) /\ Len(k.blocks) = Len(b) BY <2>3a, <2>3b, FunctionSeq
  <2>5. k.blocks[1] = x BY <2>2, <2>3
  <2>6. \A i \in 2 .. Len(b) : k.blocks[i] = b[i] BY <2>1, <2>2
  <2> QED BY <2>4, <2>5, <2>6 DEF b, x
<1>10. Placed(r)'
  <2>1. Contiguous' = Contiguous BY DEF Contiguous
  <2>2a. PICK page : page = request[o].blocks[1] OBVIOUS
  <2>2. PICK x \in Requests : FirstOf(o, x, page)
    BY <1>3, <1>4, <2>2a DEF Sound, Placed
  <2>3. Lent(x)
    <3>1. CASE x = o
      <4>1. o \in Batch => step.work[o].readonly >= 1
        <5> SUFFICES ASSUME o \in Batch PROVE step.work[o].readonly >= 1 OBVIOUS
        <5>1. o \in Active BY <1>3 DEF Standing, Active
        <5>2. Planned(o) BY DEF Scheduled
        <5> QED BY <1>3, <5>1, <5>2 DEF Planned, Follows
      <4> QED BY <1>3, <3>1, <4>1 DEF Lent
    <3>2. CASE x # o BY <2>2, <3>2 DEF FirstOf
    <3> QED BY <3>1, <3>2
  <2>4. x # r BY <2>3 DEF Lent
  <2>5. Lent(x)' BY <2>3, <2>4 DEF Lent, Alive, Batch
  <2>6. FirstOf(r, x, page)' BY <1>2, <2>2, <2>5 DEF FirstOf
  <2> QED BY <1>1, <1>2, <1>3, <1>9, <2>1, <2>2a, <2>6 DEF Placed
<1>11. Held(r)'
  <2> SUFFICES ASSUME NEW p \in 0 .. k.computed - 1
               PROVE  Read(k.model, Place(k, p))' = Upto(k.tokens, p + 1)
    BY DEF Held
  <2>1. /\ p \in 0 .. BlockSize - 1 /\ p \in 0 .. request[o].computed - 1
        /\ p + 1 \in 0 .. BlockSize
    BY <1>5, <1>7, SMTT(30)
  <2>2. p \div BlockSize = 0
    <3>1. 0 * BlockSize + p = p BY <1>5, <2>1
    <3>2. (0 * BlockSize + p) \div BlockSize = 0 BY <1>5, <2>1, Multiples
    <3> QED BY <3>1, <3>2
  <2>3. PICK slot : slot = Place(request[o], p) OBVIOUS
  <2>4. Place(k, p)' = slot
    BY <1>3, <1>9, <2>2, <2>3 DEF Place, Slot, Contiguous
  <2>5. Read(k.model, slot) = Upto(request[o].tokens, p + 1)
    BY <1>2, <1>3, <1>4, <2>1, <2>3 DEF Sound, Held
  <2>6. Upto(request[o].tokens, p + 1) = Upto(prompt, p + 1)
    <3> DEFINE t == request[o].tokens
    <3>1. t \in Seq(Nat) /\ prompt \in Seq(Nat) /\ BlockSize \in 0 .. Len(t)
          /\ BlockSize \in 0 .. Len(prompt)
      BY <1>1, <1>3, <1>5, <1>7, SMTT(30)
    <3> HIDE DEF t
    <3>2. Upto(Upto(t, BlockSize), p + 1) = Upto(t, p + 1) BY <2>1, <3>1, UptoUpto
    <3>3. Upto(Upto(prompt, BlockSize), p + 1) = Upto(prompt, p + 1) BY <2>1, <3>1, UptoUpto
    <3>4. Upto(t, BlockSize) = Upto(prompt, BlockSize) BY <1>3 DEF t
    <3> QED BY <3>2, <3>3, <3>4 DEF t
  <2>7. Read(k.model, slot)' = Read(k.model, slot) BY DEF Read
  <2> QED BY <1>2, <2>4, <2>5, <2>6, <2>7 DEF Read
<1> QED BY <1>2, <1>6, <1>10, <1>11 DEF Sound

(* A request is admitted: it is as sound as the others, which stay.        *)
LEMMA AddText ==
  ASSUME Standing, Standing', EntriesInv, TextInv, NEW r \in Requests, AddRequest(r)
  PROVE  TextInv'
<1>0. /\ request[r].status = "new" /\ UNCHANGED <<backend, decoder, step, cells, installed>>
      /\ IF Contiguous
         THEN /\ entries' = [entries EXCEPT ![installed] =
                               Allocate(@, r, request'[r].prompt + MaxNew)]
              /\ claims' = Put(claims, r, [committed |-> 0, reserved |-> 0])
         ELSE UNCHANGED <<entries, claims>>
  BY DEF AddRequest, assembly, modelVars
<1>1. PICK prompt \in Prompts, eos \in EosTokens :
        \E shared \in {{}} \union { {o} : o \in Sharable(prompt) } :
          request' = [request EXCEPT ![r] = Admitted(r, prompt, eos, shared)]
  BY Zenon DEF AddRequest
<1>2. PICK shared \in {{}} \union { {o} : o \in Sharable(prompt) } :
          request' = [request EXCEPT ![r] = Admitted(r, prompt, eos, shared)]
  BY <1>1
<1>3. PICK k : k = Admitted(r, prompt, eos, shared) OBVIOUS
<1>4. /\ request'[r] = k /\ \A o \in Requests \ {r} : request'[o] = request[o]
  BY <1>2, <1>3 DEF Standing
<1>5. /\ k.status = "active" /\ k.model = installed /\ k.prompt = Len(prompt) /\ k.tokens = prompt
      /\ k.eos = eos /\ k.computed = Cardinality(shared) * BlockSize
      /\ k.readonly = Cardinality(shared)
      /\ k.blocks = IF Contiguous THEN <<r>>
              ELSE IF shared = {} THEN Blocks[r]
              ELSE [Blocks[r] EXCEPT ![1] = request[CHOOSE o \in shared : TRUE].blocks[1]]
  BY <1>3 DEF Admitted
<1>6. Active' = Active \cup {r} /\ Batch' = Batch /\ Contiguous' = Contiguous
  BY <1>0, <1>4, <1>5 DEF Active, Batch, Contiguous
<1>7. r \notin Batch /\ r \notin Active
  BY <1>0 DEF Standing, Active
<1>8. Here' = Here BY <1>6, <1>7 DEF Here
<1>9. installed \in Generations
  <2>1. r \in Active' BY <1>6
  <2>2. Generations' = Generations BY DEF Generations
  <2> QED BY <1>0, <2>1, <2>2 DEF Standing
<1>10. prompt \in Seq(Nat) /\ prompt # <<>> BY BlocksSuffice
<1>11. Sound(r)'
  <2>1. CASE shared = {}
    <3>1. Cardinality(shared) = 0 BY <2>1, FS_EmptySet
    <3>2. Admission(r, prompt, eos, k, 0) BY <1>5, <1>10, <3>1 DEF Admission
    <3>3. k.blocks = IF Contiguous THEN <<r>> ELSE Blocks[r] BY <1>5, <2>1
    <3> QED BY <1>0, <1>4, <1>9, <3>2, <3>3, AdmittedAlone
  <2>2. CASE shared # {}
    <3>1. PICK o \in Sharable(prompt) : shared = {o} BY <2>2
    <3>2. Cardinality(shared) = 1 BY <3>1, FS_Singleton
    <3>3. Admission(r, prompt, eos, k, 1) BY <1>5, <1>10, <3>2 DEF Admission
    <3>4. ~Contiguous BY <3>1 DEF Sharable
    <3>5. (CHOOSE x \in shared : TRUE) = o BY <3>1
    <3>6. k.blocks = [Blocks[r] EXCEPT ![1] = request[o].blocks[1]]
      BY <1>5, <2>2, <3>4, <3>5
    <3>7. Recorded /\ Scheduled BY DEF TextInv
    <3> QED BY <1>0, <1>4, <1>9, <3>1, <3>3, <3>6, <3>7, AdmittedSharing
  <2> QED BY <2>1, <2>2
<1>12. shared # {} => ~Contiguous
  <2> SUFFICES ASSUME shared # {} PROVE ~Contiguous OBVIOUS
  <2>1. PICK o \in Sharable(prompt) : shared = {o} OBVIOUS
  <2> QED BY <2>1 DEF Sharable
<1>13. Phased' BY <1>0 DEF TextInv, Phased
<1>14. Recorded'
  <2> SUFFICES ASSUME NEW o \in Requests, Alive(o)', o # r PROVE Sound(o)' BY <1>11 DEF Recorded
  <2>1. request'[o] = request[o] BY <1>4
  <2>2. Alive(o) BY <2>1 DEF Alive
  <2>3. Sound(o) BY <2>2 DEF TextInv, Recorded
  <2>4. PICK n : n = request[o] OBVIOUS
  <2>5. \A p \in 0 .. n.computed - 1 : Read(n.model, Place(n, p))' = Read(n.model, Place(n, p))
    BY <1>0, <1>6 DEF Read, Place
  <2>6. \A x \in Requests : Lent(x) => Lent(x)'
    <3> TAKE x \in Requests
    <3>1. x = r => ~Lent(x) BY <1>0 DEF Lent
    <3>2. CASE x # r
      <4>1. request'[x] = request[x] BY <1>4, <3>2
      <4> QED BY <1>0, <1>6, <4>1 DEF Lent, Alive
    <3> QED BY <3>1, <3>2
  <2> QED BY <1>0, <2>1, <2>2, <2>3, <2>4, <2>5, <2>6, SoundKept
<1>15. Scheduled'
  <2> SUFFICES ASSUME NEW o \in Batch PROVE Planned(o)' BY <1>6 DEF Scheduled
  <2>1. Planned(o) BY DEF TextInv, Scheduled
  <2>2. o \in Active' => o \in Active /\ request'[o] = request[o] BY <1>4, <1>6, <1>7 DEF Active
  <2> QED BY <1>0, <2>1, <2>2, PlannedKept
<1>16. Stepped'
  <2>1. \A n, p : Place(n, p)' = Place(n, p) BY <1>6 DEF Place
  <2>2. \A g, s : Read(g, s)' = Read(g, s) BY <1>0 DEF Read
  <2> QED BY <1>0, <1>8, <2>1, <2>2 DEF TextInv, Stepped, Forwarded, Done, Answered, Continues
<1>17. Measured'
  <2> SUFFICES ASSUME Contiguous, NEW o \in Active', step.at # "failed" \/ o \notin Batch
               PROVE  Lengths(o)'
    BY <1>0, <1>6 DEF Measured
  <2>1. /\ entries'[installed] = Allocate(entries[installed], r, request'[r].prompt + MaxNew)
        /\ claims' = Put(claims, r, [committed |-> 0, reserved |-> 0])
    BY <1>0, <1>9 DEF Standing
  <2>2. PICK new, capacity : /\ capacity = request'[r].prompt + MaxNew
                             /\ new = Allocate(entries[installed], r, capacity)
    OBVIOUS
  <2>2a. entries'[installed] = new BY <2>1, <2>2
  <2>3. Whole(entries[installed]) BY <1>9 DEF EntriesInv, Accounted
  <2>4. /\ new[r].length = 0
        /\ \A x \in DOMAIN entries[installed] : x # r => new[x] = entries[installed][x]
    BY <2>2, <2>3, AllocatedShape
  <2>5. CASE o = r
    <3>1. k.computed = 0
      <4>1. Cardinality(shared) = 0 BY <1>12, <2>5, FS_EmptySet
      <4>2. BlockSize \in Nat BY AttentionAssumption
      <4> QED BY <1>5, <4>1, <4>2
    <3>2. claims'[r] = [committed |-> 0, reserved |-> 0] BY <2>1 DEF Put
    <3>3. LengthNow(r)' = 0 BY <1>4, <1>6, <1>7, <3>1 DEF LengthNow
    <3>4. IsFunction(claims'[r], {"committed", "reserved"}) BY <3>2 DEF IsFunction
    <3> QED BY <1>0, <1>4, <1>5, <2>2a, <2>4, <2>5, <3>1, <3>2, <3>3, <3>4 DEF Lengths
  <2>6. CASE o # r
    <3>1. o \in Active /\ request'[o] = request[o] BY <1>4, <1>6, <2>6 DEF Active
    <3>2. Lengths(o) BY <3>1 DEF TextInv, Measured
    <3>3. request[o].model = installed /\ o \in DOMAIN entries[installed] /\ o \in DOMAIN claims
      BY <3>1, EntryOf
    <3>4. claims'[o] = claims[o] BY <2>1, <2>6, <3>3 DEF Put
    <3>5. LengthNow(o)' = LengthNow(o) BY <1>0, <1>6, <3>1 DEF LengthNow
    <3>6. entries'[installed][o] = entries[installed][o] BY <2>2a, <2>4, <2>6, <3>3
    <3> QED BY <1>0, <1>6, <3>1, <3>2, <3>3, <3>4, <3>5, <3>6 DEF Lengths
  <2> QED BY <2>5, <2>6
<1> QED BY <1>13, <1>14, <1>15, <1>16, <1>17 DEF TextInv

(* No draft is a tree of no nodes.                                         *)
LEMMA NoDraftShape == IsTree(NoDraft) /\ Size(NoDraft) = 0
  BY DEF IsTree, Size, NoDraft

(* A plan of a request that fits it: its fields, and its pages.            *)
Fitting(r, input, lookahead, output) ==
  /\ input \in Nat \ {0} /\ lookahead \in Nat /\ output \in Nat /\ output <= lookahead + 1
  /\ output = 0 => request[r].computed + input < Len(request[r].tokens)
  /\ output # 0 => request[r].computed + input = Len(request[r].tokens)
  /\ request[r].computed + (input + lookahead) <= request[r].prompt + MaxNew

Fresh(r, plan) ==
  /\ Sized(plan) /\ Housed(r, plan) /\ Follows(r, plan)
  /\ plan.result = <<>> /\ plan.cached = 0 /\ plan.draft = NoDraft

(* The worker's part of a plan is the request's own: the slice that the    *)
(* engine takes of its tokens and its pages.                               *)
LEMMA PlanShape ==
  ASSUME NEW r \in Requests, Worded(request[r]), Placed(r), NEW input, NEW lookahead, NEW output,
         Fitting(r, input, lookahead, output), NEW plan, plan = Plan(r, input, lookahead, output)
  PROVE  Fresh(r, plan)
<1>1. /\ DOMAIN plan = PlanFields
      /\ plan.context = request[r].tokens /\ plan.start = request[r].computed
      /\ plan.input = input /\ plan.lookahead = lookahead /\ plan.output = output
      /\ plan.readonly = request[r].readonly /\ plan.draft = NoDraft /\ plan.result = <<>>
      /\ plan.cached = 0
  BY DEF Plan, PlanFields
<1>2. plan.blocks = IF Contiguous THEN <<r>>
                    ELSE SubSeq(request[r].blocks, 1, Pages(request[r].computed + input + lookahead))
  BY DEF Plan
<1>3. Sized(plan)
  BY <1>1, NoDraftShape DEF Sized, Worded, Fitting
<1>4. Housed(r, plan) /\ Follows(r, plan)
  <2>1. CASE Contiguous
    <3>1. plan.blocks = <<r>> /\ request[r].blocks = <<r>> BY <1>2, <2>1 DEF Placed
    <3> QED BY <1>1, <2>1, <3>1 DEF Housed, Follows
  <2>2. CASE ~Contiguous
    <3> DEFINE n == request[r].computed + (input + lookahead)
               m == request[r].prompt + MaxNew
    <3>1. n \in Nat /\ m \in Nat /\ n <= m /\ n = request[r].computed + input + lookahead
      <4>1. MaxNew \in Nat BY ModelWorkerAssumption
      <4>2. request[r].computed \in Nat /\ request[r].prompt \in Nat BY DEF Worded
      <4> QED BY <4>1, <4>2, SMTT(30) DEF Fitting
    <3>2. n = plan.start + (plan.input + plan.lookahead) BY <1>1
    <3>3. /\ request[r].blocks \in Seq(Nat) /\ Blocks[r] \in Seq(Nat)
          /\ Len(request[r].blocks) >= Pages(m)
          /\ Len(request[r].blocks) = Len(Blocks[r])
          /\ \A i \in 2 .. Len(request[r].blocks) : request[r].blocks[i] = Blocks[r][i]
          /\ \E x \in Requests : FirstOf(r, x, request[r].blocks[1])
      BY <2>2 DEF Placed
    <3>4. plan.blocks = Upto(request[r].blocks, Pages(n)) BY <1>2, <2>2, <3>1 DEF Upto
    <3> HIDE DEF n, m
    <3>5. Pages(n) <= Pages(m) /\ Pages(m) \in Nat /\ Pages(n) \in Nat BY <3>1, PagesOrder
    <3>6. Pages(n) \in 0 .. Len(request[r].blocks) BY <3>3, <3>5
    <3>7. /\ plan.blocks \in Seq(Nat) /\ Len(plan.blocks) = Pages(n)
          /\ \A i \in 1 .. Pages(n) : plan.blocks[i] = request[r].blocks[i]
      <4> DEFINE s == request[r].blocks
      <4>1. s \in Seq(Nat) /\ Pages(n) \in 0 .. Len(s) BY <3>3, <3>6
      <4> HIDE DEF s
      <4>2. /\ Upto(s, Pages(n)) \in Seq(Nat) /\ Len(Upto(s, Pages(n))) = Pages(n)
            /\ \A i \in 1 .. Pages(n) : Upto(s, Pages(n))[i] = s[i]
        BY <4>1, UptoShape
      <4> QED BY <3>4, <4>2 DEF s
    <3>8. ASSUME NEW i \in 1 .. Len(plan.blocks), i >= 2 \/ plan.readonly = 0
          PROVE  plan.blocks[i] = Blocks[r][i]
      <4>1. plan.blocks[i] = request[r].blocks[i] /\ i \in 1 .. Len(request[r].blocks)
        BY <3>6, <3>7
      <4>2. CASE i >= 2
        <5>1. i \in 2 .. Len(request[r].blocks) BY <4>1, <4>2
        <5> QED BY <3>3, <4>1, <5>1
      <4>3. CASE ~(i >= 2)
        <5>1. i = 1 /\ request[r].readonly = 0 BY <1>1, <3>8, <4>3
        <5>2. PICK x \in Requests : FirstOf(r, x, request[r].blocks[1]) BY <3>3
        <5>3. x = r BY <5>1, <5>2 DEF FirstOf
        <5>4. request[r].blocks[1] = Blocks[r][1] BY <5>2, <5>3 DEF FirstOf
        <5>5. i = 1 BY <5>1
        <5>6. plan.blocks[i] = request[r].blocks[i] BY <4>1
        <5>7. request[r].blocks[i] = Blocks[r][i] BY <5>4, <5>5
        <5> QED BY <5>6, <5>7
      <4> QED BY <4>2, <4>3
    <3>9. Housed(r, plan)
      BY <2>2, <3>2, <3>3, <3>6, <3>7, <3>8 DEF Housed
    <3>10. Len(plan.blocks) <= Len(request[r].blocks) BY <3>6, <3>7
    <3>11. \A i \in 1 .. Len(plan.blocks) : plan.blocks[i] = request[r].blocks[i] BY <3>7
    <3>12. Follows(r, plan) BY <1>1, <3>10, <3>11 DEF Follows
    <3> QED BY <3>9, <3>12
  <2> QED BY <2>1, <2>2
<1> QED BY <1>1, <1>3, <1>4 DEF Fresh

(* Whatever the scheduler plans for an active request fits it: a part of   *)
(* its pending tokens, or all of them with as much draft as may be output. *)
LEMMA PlansShape ==
  ASSUME NEW r \in Active, Sound(r), NEW plan \in Plans(r)
  PROVE  Fresh(r, plan)
<1> DEFINE pending == Len(request[r].tokens) - request[r].computed
           remaining == request[r].prompt + MaxNew - Len(request[r].tokens)
           ahead == IF decoder = "standard" THEN 0 ELSE Least(NumLookahead, remaining - 1)
<1>1. /\ r \in Requests /\ request[r].status = "active" BY DEF Active
<1>2. Worded(request[r]) /\ Placed(r) BY DEF Sound
<1>3. /\ request[r].computed \in Nat /\ request[r].prompt \in Nat
      /\ Len(request[r].tokens) \in Nat /\ request[r].computed < Len(request[r].tokens)
      /\ Len(request[r].tokens) <= request[r].prompt + MaxNew
      /\ ~Ended(request[r], request[r].tokens)
  BY <1>1, <1>2 DEF Worded
<1>4. Len(request[r].tokens) # request[r].prompt + MaxNew BY <1>3 DEF Ended
<1>5. MaxNew \in Nat /\ NumLookahead \in Nat BY ModelWorkerAssumption
<1>6. /\ pending \in Nat \ {0} /\ remaining \in Nat \ {0}
      /\ request[r].computed + pending = Len(request[r].tokens)
      /\ Len(request[r].tokens) + remaining = request[r].prompt + MaxNew
  <2>1. \A c, t, p, x \in Nat : c < t /\ t <= p + x /\ t # p + x =>
          /\ t - c \in Nat \ {0} /\ p + x - t \in Nat \ {0}
          /\ c + (t - c) = t /\ t + (p + x - t) = p + x
    OBVIOUS
  <2>2. PICK c, t, p, x \in Nat : /\ c = request[r].computed /\ t = Len(request[r].tokens)
                                  /\ p = request[r].prompt /\ x = MaxNew
    BY <1>3, <1>5
  <2>3. c < t /\ t <= p + x /\ t # p + x BY <1>3, <1>4, <2>2
  <2>4. pending = t - c /\ remaining = p + x - t BY <2>2
  <2>5. /\ t - c \in Nat \ {0} /\ p + x - t \in Nat \ {0}
        /\ c + (t - c) = t /\ t + (p + x - t) = p + x
    BY <2>1, <2>3
  <2> HIDE DEF pending, remaining
  <2>6. pending \in Nat \ {0} /\ c + pending = t BY <2>4, <2>5
  <2>7. remaining \in Nat \ {0} /\ t + remaining = p + x BY <2>4, <2>5
  <2> QED BY <2>2, <2>6, <2>7
<1> HIDE DEF pending, remaining
<1>7. ahead \in Nat /\ ahead <= remaining - 1 BY <1>5, <1>6 DEF Least
<1>8. \/ \E n \in 1 .. pending - 1 : plan = Plan(r, n, 0, 0)
      \/ plan = Plan(r, pending, ahead, ahead + 1)
      \/ plan = Plan(r, pending, 0, 1)
  BY DEF Plans, pending, remaining
<1>9. \A n \in 1 .. pending - 1 : Fitting(r, n, 0, 0) BY <1>3, <1>6 DEF Fitting
<1>10. Fitting(r, pending, ahead, ahead + 1)
  <2> HIDE DEF ahead
  <2> QED BY <1>3, <1>6, <1>7 DEF Fitting
<1>11. Fitting(r, pending, 0, 1) BY <1>3, <1>6 DEF Fitting
<1> HIDE DEF ahead
<1> QED BY <1>1, <1>2, <1>8, <1>9, <1>10, <1>11, PlanShape

(* The worker leases a batch: each plan is of its request as it is, and    *)
(* nothing else is touched but what is reserved.                           *)
LEMMA AcquireText ==
  ASSUME Standing, Standing', EntriesInv, TextInv, Acquire
  PROVE  TextInv'
<1>0. /\ step.at = "idle" /\ Batch = {}
      /\ UNCHANGED <<backend, decoder, request, cells, installed>>
  BY DEF Acquire, Standing, assembly, modelVars
<1>1. PICK batch \in (SUBSET Active) \ {{}} :
        \E work \in [batch -> UNION { Plans(r) : r \in batch }] :
         /\ \A r \in batch : work[r] \in Plans(r)
         /\ step' = [at |-> "leased", generation |-> installed, work |-> work]
         /\ claims' = Reserve(claims, work)
         /\ entries' = [entries EXCEPT ![installed] = AcquireEntries(@, batch)]
  BY DEF Acquire
<1>2. PICK work \in [batch -> UNION { Plans(r) : r \in batch }] :
         /\ \A r \in batch : work[r] \in Plans(r)
         /\ step' = [at |-> "leased", generation |-> installed, work |-> work]
         /\ claims' = Reserve(claims, work)
         /\ entries' = [entries EXCEPT ![installed] = AcquireEntries(@, batch)]
  BY <1>1
<1>3. /\ step'.at = "leased" /\ step'.work = work /\ Batch' = batch
      /\ Active' = Active /\ Contiguous' = Contiguous
  BY <1>0, <1>2 DEF Batch, Active, Contiguous
<1>4. ASSUME NEW r \in batch PROVE Fresh(r, work[r]) /\ r \in Active /\ r \in Requests
  <2>1. r \in Active /\ work[r] \in Plans(r) BY <1>1, <1>2
  <2>2. r \in Requests /\ Alive(r) BY <2>1 DEF Active, Alive
  <2>3. Sound(r) BY <2>2 DEF TextInv, Recorded
  <2> QED BY <2>1, <2>2, <2>3, PlansShape
<1>5. Phased' BY <1>0, <1>3 DEF TextInv, Phased, Phases
<1>6. Recorded'
  <2> SUFFICES ASSUME NEW o \in Requests, Alive(o)' PROVE Sound(o)' BY DEF Recorded
  <2>1. Alive(o) /\ request'[o] = request[o] BY <1>0 DEF Alive
  <2>2. Sound(o) BY <2>1 DEF TextInv, Recorded
  <2>3. PICK n : n = request[o] OBVIOUS
  <2>4. \A p \in 0 .. n.computed - 1 : Read(n.model, Place(n, p))' = Read(n.model, Place(n, p))
    BY <1>0 DEF Read, Place, Contiguous
  <2>5. ASSUME NEW x \in Requests, x # o, Lent(x) PROVE Lent(x)'
    <3>1. request'[x] = request[x] BY <1>0
    <3>2. Alive(x)' <=> Alive(x) BY <3>1 DEF Alive
    <3>3. ASSUME x \in batch PROVE step'.work[x].readonly >= 1
      <4>1. Alive(x) BY <1>4, <3>3 DEF Active, Alive
      <4>2. request[x].readonly >= 1 BY <2>5, <4>1 DEF Lent
      <4>3. work[x].readonly = request[x].readonly BY <1>4, <3>3 DEF Fresh, Follows
      <4> QED BY <1>3, <4>2, <4>3
    <3> QED BY <1>3, <2>5, <3>1, <3>2, <3>3 DEF Lent
  <2> QED BY <1>0, <2>1, <2>2, <2>3, <2>4, <2>5, SoundKept
<1>7. Scheduled'
  <2> SUFFICES ASSUME NEW r \in batch PROVE Planned(r)' BY <1>3 DEF Scheduled
  <2>1. PICK plan : plan = work[r] OBVIOUS
  <2>2. Fresh(r, plan) BY <1>4, <2>1
  <2>3. step'.work[r] = plan BY <1>3, <2>1
  <2>4. Sized(plan)' BY <1>0, <2>2 DEF Fresh, Sized
  <2>5. Housed(r, plan)' BY <1>3, <2>2 DEF Fresh, Housed
  <2>6. Follows(r, plan)' BY <1>0, <1>3, <2>2 DEF Fresh, Follows
  <2> QED BY <2>2, <2>3, <2>4, <2>5, <2>6 DEF Planned, Fresh
<1>8. Stepped' BY <1>3 DEF Stepped
<1>9. Measured'
  <2> SUFFICES ASSUME Contiguous, NEW r \in Active PROVE Lengths(r)' BY <1>3 DEF Measured
  <2>1. Lengths(r) BY <1>0 DEF TextInv, Measured
  <2>2. /\ installed \in Generations /\ request[r].model = installed
        /\ Whole(entries[installed]) /\ r \in DOMAIN entries[installed] /\ r \in DOMAIN claims
    BY EntryOf
  <2>3. PICK new : new = AcquireEntries(entries[installed], batch) OBVIOUS
  <2>4. entries'[installed] = new BY <1>2, <2>2, <2>3 DEF Standing
  <2>5. new[r].length = entries[installed][r].length BY <2>2, <2>3, AcquiredShape
  <2>6. claims' = Reserve(claims, work) BY <1>2
  <2>7. /\ claims'[r].committed = claims[r].committed
        /\ DOMAIN claims'[r] = DOMAIN claims[r]
        /\ IsFunction(claims'[r], {"committed", "reserved"})
        /\ r \notin batch => claims'[r] = claims[r]
    <3>1. claims'[r] = IF r \in DOMAIN work
                       THEN [claims[r] EXCEPT !.reserved = work[r].input + work[r].lookahead]
                       ELSE claims[r]
      BY <2>2, <2>6 DEF Reserve
    <3> QED BY <1>2, <2>1, <3>1 DEF Lengths, IsFunction
  <2>8. LengthNow(r)' = request[r].computed BY <1>0, <1>3 DEF LengthNow
  <2>9. LengthNow(r) = request[r].computed BY <1>0 DEF LengthNow
  <2> QED BY <1>0, <1>3, <2>1, <2>2, <2>4, <2>5, <2>7, <2>8, <2>9 DEF Lengths
<1> QED BY <1>5, <1>6, <1>7, <1>8, <1>9 DEF TextInv

(* A plan with a draft that the decode handler accepts.                    *)
LEMMA DraftedPlan ==
  ASSUME NEW plan, Sized(plan), NEW draft \in Drafts(plan), Acceptable(plan, draft),
         NEW new, new = [plan EXCEPT !.draft = draft]
  PROVE  /\ Sized(new) /\ new.draft = draft
         /\ new.context = plan.context /\ new.start = plan.start /\ new.input = plan.input
         /\ new.lookahead = plan.lookahead /\ new.output = plan.output
         /\ new.blocks = plan.blocks /\ new.readonly = plan.readonly
         /\ new.result = plan.result /\ new.cached = plan.cached
<1>1. DOMAIN plan = PlanFields BY DEF Sized
<1>2. /\ new.draft = draft
      /\ DOMAIN new = PlanFields
      /\ new.context = plan.context /\ new.start = plan.start /\ new.input = plan.input
      /\ new.lookahead = plan.lookahead /\ new.output = plan.output
      /\ new.blocks = plan.blocks /\ new.readonly = plan.readonly
      /\ new.result = plan.result /\ new.cached = plan.cached
  BY <1>1 DEF PlanFields
<1>3. plan.lookahead \in Nat /\ plan.output \in Nat BY DEF Sized
<1>4. /\ IsTree(draft) /\ Size(draft) <= MaxNodes(plan) BY DEF Acceptable
<1>5. Size(draft) \in Nat BY <1>4 DEF IsTree, Size
<1>6. /\ MaxNodes(plan) \in Int /\ MaxNodes(plan) <= plan.lookahead
      /\ plan.output = 0 => MaxNodes(plan) <= 0
  BY <1>3 DEF MaxNodes, Least
<1>7. decoder = "standard" => Size(draft) = 0
  BY NoDraftShape DEF Drafts
<1>8. Size(draft) <= plan.lookahead /\ (plan.output = 0 \/ decoder = "standard" => Size(draft) = 0)
  BY <1>3, <1>4, <1>5, <1>6, <1>7
<1>9. Sized(new)
  <2> HIDE DEF PlanFields
  <2> QED BY <1>2, <1>4, <1>8 DEF Sized
<1> QED BY <1>2, <1>9

(* The worker takes the batch on: the handler drafts, or refuses.          *)
LEMMA ExecuteText ==
  ASSUME Standing, Standing', EntriesInv, TextInv, Execute
  PROVE  TextInv'
<1>0. /\ step.at = "leased"
      /\ UNCHANGED <<backend, decoder, request, claims, entries, cells, installed>>
  BY DEF Execute, assembly, modelVars
<1>1. CASE StepFailed BY <1>0, <1>1, FailText
<1>2. CASE ~StepFailed
  <2>1. /\ Batch \subseteq Active
        /\ \E drafts \in [Batch -> UNION { Drafts(step.work[r]) : r \in Batch }] :
             /\ \A r \in Batch : drafts[r] \in Drafts(step.work[r])
             /\ \A r \in Batch : Acceptable(step.work[r], drafts[r])
             /\ step' = [step EXCEPT !.at = "running", !.generation = installed,
                       !.work = [r \in Batch |-> [step.work[r] EXCEPT !.draft = drafts[r]]]]
    BY <1>2 DEF Execute
  <2>2. PICK drafts \in [Batch -> UNION { Drafts(step.work[r]) : r \in Batch }] :
             /\ \A r \in Batch : drafts[r] \in Drafts(step.work[r])
             /\ \A r \in Batch : Acceptable(step.work[r], drafts[r])
             /\ step' = [step EXCEPT !.at = "running", !.generation = installed,
                       !.work = [r \in Batch |-> [step.work[r] EXCEPT !.draft = drafts[r]]]]
    BY <2>1
  <2> DEFINE W == [r \in Batch |-> [step.work[r] EXCEPT !.draft = drafts[r]]]
  <2>3. step'.at = "running" /\ step'.work = W
    <3> HIDE DEF W
    <3>1. step' = [step EXCEPT !.at = "running", !.generation = installed, !.work = W]
      BY <2>2, Zenon DEF W
    <3> QED BY <3>1 DEF Standing
  <2>4. Batch' = Batch /\ Active' = Active /\ Contiguous' = Contiguous
    BY <1>0, <2>3 DEF Batch, Active, Contiguous
  <2>5. ASSUME NEW r \in Batch
        PROVE  step'.work[r] = [step.work[r] EXCEPT !.draft = drafts[r]]
    BY <2>3
  <2> HIDE DEF W
  <2>6. ASSUME NEW r \in Batch
        PROVE  /\ Planned(r)' /\ step'.work[r].readonly = step.work[r].readonly
    <3>1. Planned(r) BY DEF TextInv, Scheduled
    <3>2. PICK plan, new : plan = step.work[r] /\ new = step'.work[r] OBVIOUS
    <3>3. Sized(plan) /\ Housed(r, plan) /\ (r \in Active => Follows(r, plan))
          /\ plan.result = <<>> /\ plan.cached = 0
      BY <1>0, <3>1, <3>2 DEF Planned
    <3>4. /\ Sized(new) /\ new.draft = drafts[r]
         /\ new.context = plan.context /\ new.start = plan.start /\ new.input = plan.input
         /\ new.lookahead = plan.lookahead /\ new.output = plan.output
         /\ new.blocks = plan.blocks /\ new.readonly = plan.readonly
         /\ new.result = plan.result /\ new.cached = plan.cached
      BY <2>2, <2>5, <3>2, <3>3, DraftedPlan
    <3>5. Sized(new)' BY <1>0, <3>4 DEF Sized
    <3>6. Housed(r, new)' BY <2>4, <3>3, <3>4 DEF Housed
    <3>7. r \in Active' => Follows(r, new)' BY <1>0, <2>4, <3>3, <3>4 DEF Follows
    <3> QED BY <2>3, <3>2, <3>3, <3>4, <3>5, <3>6, <3>7 DEF Planned
  <2>7. Recorded'
    <3> SUFFICES ASSUME NEW o \in Requests, Alive(o)' PROVE Sound(o)' BY DEF Recorded
    <3>1. Alive(o) /\ request'[o] = request[o] BY <1>0 DEF Alive
    <3>2. Sound(o) BY <3>1 DEF TextInv, Recorded
    <3>3. PICK n : n = request[o] OBVIOUS
    <3>4. \A p \in 0 .. n.computed - 1 : Read(n.model, Place(n, p))' = Read(n.model, Place(n, p))
      BY <1>0 DEF Read, Place, Contiguous
    <3>5. ASSUME NEW x \in Requests, x # o, Lent(x) PROVE Lent(x)'
      BY <1>0, <2>4, <2>6, <3>5 DEF Lent, Alive
    <3> QED BY <1>0, <3>1, <3>2, <3>3, <3>4, <3>5, SoundKept
  <2>8. Phased' /\ Stepped' BY <1>0, <2>3 DEF TextInv, Phased, Phases, Stepped
  <2>9. Scheduled' BY <2>4, <2>6 DEF Scheduled
  <2>10. Measured'
    <3> SUFFICES ASSUME Contiguous, NEW r \in Active PROVE Lengths(r)' BY <2>4 DEF Measured
    <3>1. Lengths(r) BY <1>0 DEF TextInv, Measured
    <3>2. LengthNow(r)' = LengthNow(r) BY <1>0, <2>3 DEF LengthNow
    <3> QED BY <1>0, <2>4, <3>1, <3>2 DEF Lengths
  <2> QED BY <2>7, <2>8, <2>9, <2>10 DEF TextInv
<1> QED BY <1>1, <1>2

(* A plan of a request has the request's pages.                            *)
LEMMA SamePlace ==
  ASSUME NEW r, NEW plan, Sized(plan), Housed(r, plan), Follows(r, plan), Placed(r),
         NEW p \in Nat, p < plan.start + (plan.input + plan.lookahead)
  PROVE  Place(plan, p) = Place(request[r], p)
<1>1. CASE Contiguous BY <1>1 DEF Place, Housed, Placed
<1>2. CASE ~Contiguous
  <2> DEFINE n == plan.start + (plan.input + plan.lookahead)
             i == p \div BlockSize + 1
  <2>1. n \in Nat /\ p < n BY DEF Sized
  <2>2. Len(plan.blocks) = Pages(n) BY <1>2 DEF Housed
  <2> HIDE DEF n
  <2>3. i \in 1 .. Pages(n) BY <2>1, PageOf
  <2> HIDE DEF i
  <2>4. plan.blocks[i] = request[r].blocks[i] BY <2>2, <2>3 DEF Follows
  <2> QED BY <1>2, <2>4 DEF i, Place, Slot
<1> QED BY <1>1, <1>2

(* While its request is active, what comes before a plan is in the cache.  *)
LEMMA PlanStocked ==
  ASSUME Standing, TextInv, NEW r \in Here, NEW plan, plan = step.work[r]
  PROVE  /\ r \in Requests /\ Alive(r) /\ Sound(r)
         /\ step.generation = request[r].model /\ step.generation \in Generations
         /\ Sized(plan) /\ Housed(r, plan) /\ Follows(r, plan)
         /\ Stocked(plan)
<1>1. r \in Batch /\ r \in Active /\ r \in Requests BY DEF Here, Active
<1>2. Alive(r) BY <1>1 DEF Active, Alive
<1>3. Sound(r) BY <1>1, <1>2 DEF TextInv, Recorded
<1>4. step.generation = request[r].model /\ step.generation \in Generations
  BY <1>1 DEF Standing
<1>5. Sized(plan) /\ Housed(r, plan) /\ Follows(r, plan)
  BY <1>1 DEF TextInv, Scheduled, Planned
<1>6. Stocked(plan)
  <2> SUFFICES ASSUME NEW p \in 0 .. plan.start - 1
               PROVE  Read(step.generation, Place(plan, p)) = Upto(plan.context, p + 1)
    BY DEF Stocked
  <2>1. /\ plan.start = request[r].computed /\ plan.context = request[r].tokens
        /\ Placed(r) /\ Held(r)
    BY <1>3, <1>5 DEF Follows, Sound
  <2>2. p \in Nat /\ p < plan.start + (plan.input + plan.lookahead)
    <3>1. plan.start \in Nat /\ plan.input \in Nat /\ plan.lookahead \in Nat BY <1>5 DEF Sized
    <3> QED BY <3>1
  <2>3. Place(plan, p) = Place(request[r], p) BY <1>5, <2>1, <2>2, SamePlace
  <2>4. Read(request[r].model, Place(request[r], p)) = Upto(request[r].tokens, p + 1)
    BY <2>1 DEF Held
  <2> QED BY <1>4, <2>1, <2>3, <2>4
<1> QED BY <1>1, <1>2, <1>3, <1>4, <1>5, <1>6

(* The positions of a plan's queries are past what came before and within  *)
(* what was reserved.                                                      *)
LEMMA QueryPosition ==
  ASSUME NEW plan, Sized(plan), NEW q \in 1 .. plan.input + Size(plan.draft)
  PROVE  /\ plan.start + (q - 1) \in Nat /\ plan.start <= plan.start + (q - 1)
         /\ plan.start + (q - 1) < plan.start + (plan.input + plan.lookahead)
<1>1. /\ plan.start \in Nat /\ plan.input \in Nat /\ plan.lookahead \in Nat
      /\ Size(plan.draft) \in Nat /\ Size(plan.draft) <= plan.lookahead
  BY DEF Sized, IsTree, Size
<1> QED BY <1>1

(* What a step writes for one request, and where.                          *)
LEMMA WrittenShape ==
  ASSUME NEW r \in Requests, NEW plan, Sized(plan), Housed(r, plan), NEW kv,
         NEW N, N = plan.input + Size(plan.draft)
  PROVE  /\ \A slot : slot \in DOMAIN Written(plan, kv) <=>
              \E q \in 1 .. N : slot = Place(plan, plan.start + (q - 1))
         /\ \A q \in 1 .. N : Written(plan, kv)[Place(plan, plan.start + (q - 1))] = kv[q]
<1> DEFINE place == [q \in 1 .. N |-> Place(plan, plan.start + (q - 1))]
           W == [slot \in Range(place) |-> kv[CHOOSE q \in DOMAIN place : slot = place[q]]]
<1>1. Queries(Row(plan)) = 1 .. N BY PlanSeen
<1>2. Written(plan, kv) = W BY <1>1 DEF Written
<1>3. \A slot : slot \in Range(place) <=> \E q \in 1 .. N : slot = place[q]
  BY DEF Range
<1>4. \A q, k \in 1 .. N : place[q] = place[k] => q = k
  <2> SUFFICES ASSUME NEW q \in 1 .. N, NEW k \in 1 .. N, place[q] = place[k] PROVE q = k
    OBVIOUS
  <2>1. Place(plan, plan.start + (q - 1)) = Place(plan, plan.start + (k - 1)) OBVIOUS
  <2>2. PICK a, b : a = plan.start + (q - 1) /\ b = plan.start + (k - 1) OBVIOUS
  <2>3. /\ a \in Nat /\ plan.start <= a /\ a < plan.start + (plan.input + plan.lookahead)
        /\ b \in Nat /\ plan.start <= b /\ b < plan.start + (plan.input + plan.lookahead)
    BY <2>2, QueryPosition
  <2>4. a = b BY <2>1, <2>2, <2>3, PlansApart
  <2>5. plan.start \in Nat BY DEF Sized
  <2>6. q \in Int /\ k \in Int BY QueryTokensShape
  <2> QED BY <2>2, <2>4, <2>5, <2>6
<1>5. \A q \in 1 .. N : W[place[q]] = kv[q]
  <2> TAKE q \in 1 .. N
  <2>1. place[q] \in Range(place) BY <1>3
  <2>2. (CHOOSE k \in DOMAIN place : place[q] = place[k]) = q
    <3>1. q \in DOMAIN place /\ place[q] = place[q] OBVIOUS
    <3>2. \A k \in DOMAIN place : place[q] = place[k] => k = q BY <1>4
    <3> HIDE DEF place
    <3> QED BY <3>1, <3>2
  <2> HIDE DEF place
  <2> QED BY <2>1, <2>2
<1>6. \A q \in 1 .. N : place[q] = Place(plan, plan.start + (q - 1)) OBVIOUS
<1>7. DOMAIN W = Range(place) OBVIOUS
<1> HIDE DEF place, W
<1> QED BY <1>2, <1>3, <1>5, <1>6, <1>7

(* What a step stores: for each plan its queries' K/V, at its places.      *)
Storing(kv) ==
  cells' = [cells EXCEPT ![step.generation] =
             Stored(@, [r \in Batch |-> Written(step.work[r], kv[r])])]

(* A slot that no plan of the batch writes keeps its K/V.                  *)
LEMMA StoringKeeps ==
  ASSUME Standing, TextInv, NEW kv, Storing(kv), NEW g \in Generations, NEW slot,
         \A r \in Batch : \A q \in 1 .. step.work[r].input + Size(step.work[r].draft) :
           slot # Place(step.work[r], step.work[r].start + (q - 1))
  PROVE  Read(g, slot)' = Read(g, slot)
<1> DEFINE writes == [r \in Batch |-> Written(step.work[r], kv[r])]
<1>1. CASE g # step.generation BY <1>1 DEF Standing, Storing, Read
<1>2. CASE g = step.generation
  <2>1. PICK new : new = Stored(cells[g], writes) OBVIOUS
  <2>2. cells'[g] = new BY <1>2, <2>1 DEF Standing, Storing
  <2>3. ASSUME NEW r \in Batch PROVE slot \notin DOMAIN writes[r]
    <3>1. r \in Requests BY DEF Standing
    <3>2. Sized(step.work[r]) /\ Housed(r, step.work[r]) BY DEF TextInv, Scheduled, Planned
    <3>3. writes[r] = Written(step.work[r], kv[r]) OBVIOUS
    <3> HIDE DEF writes
    <3> QED BY <3>1, <3>2, <3>3, WrittenShape
  <2>4. DOMAIN writes = Batch OBVIOUS
  <2> HIDE DEF writes
  <2>5. /\ slot \in DOMAIN new <=> slot \in DOMAIN cells[g]
        /\ slot \in DOMAIN cells[g] => new[slot] = cells[g][slot]
    BY <2>1, <2>3, <2>4, StoreKeeps
  <2> QED BY <2>2, <2>5 DEF Read
<1> QED BY <1>1, <1>2

(* The slot of a query has what was computed for it.                       *)
LEMMA StoringWrites ==
  ASSUME Standing, TextInv, NEW kv, Storing(kv), NEW r \in Batch, NEW plan, plan = step.work[r],
         NEW q \in 1 .. plan.input + Size(plan.draft), NEW g, g = step.generation,
         NEW slot, slot = Place(plan, plan.start + (q - 1))
  PROVE  Read(g, slot)' = kv[r][q]
<1> DEFINE writes == [o \in Batch |-> Written(step.work[o], kv[o])]
<1>1. g = step.generation /\ slot = Place(plan, plan.start + (q - 1)) OBVIOUS
<1>3. g \in Generations BY <1>1 DEF Standing
<1>4. PICK new : new = Stored(cells[g], writes) OBVIOUS
<1>5. cells'[g] = new BY <1>1, <1>3, <1>4 DEF Standing, Storing
<1>6. ASSUME NEW o \in Batch
      PROVE  /\ o \in Requests /\ Sized(step.work[o]) /\ Housed(o, step.work[o])
             /\ writes[o] = Written(step.work[o], kv[o])
  BY DEF Standing, TextInv, Scheduled, Planned
<1>7. DOMAIN writes = Batch OBVIOUS
<1> HIDE DEF writes
<1>8. slot \in DOMAIN writes[r] /\ writes[r][slot] = kv[r][q]
  BY <1>1, <1>6, WrittenShape
<1>9. ASSUME NEW o \in Batch, slot \in DOMAIN writes[o] PROVE o = r
  <2>1. PICK k \in 1 .. step.work[o].input + Size(step.work[o].draft) :
           slot = Place(step.work[o], step.work[o].start + (k - 1))
    BY <1>6, <1>9, WrittenShape
  <2>2. PICK p, a, b : p = step.work[o] /\ a = plan.start + (q - 1) /\ b = p.start + (k - 1)
    OBVIOUS
  <2>3. /\ a \in Nat /\ plan.start <= a /\ a < plan.start + (plan.input + plan.lookahead)
    BY <1>6, <2>2, QueryPosition
  <2>4. /\ b \in Nat /\ p.start <= b /\ b < p.start + (p.input + p.lookahead)
    BY <1>6, <2>1, <2>2, QueryPosition
  <2>5. Place(plan, a) = Place(p, b) BY <1>1, <2>1, <2>2
  <2>6. /\ Sized(p) /\ Housed(o, p) /\ Sized(plan) /\ Housed(r, plan)
        /\ r \in Requests /\ o \in Requests
    BY <1>6, <2>2
  <2> QED BY <2>3, <2>4, <2>5, <2>6, PlansApart
<1>10. slot \in DOMAIN new /\ new[slot] = kv[r][q]
  <2>1. r \in DOMAIN writes BY <1>7
  <2>2. \A o \in DOMAIN writes : slot \in DOMAIN writes[o] => o = r BY <1>7, <1>9
  <2> QED BY <1>4, <1>8, <2>1, <2>2, StoreWrites
<1> QED BY <1>5, <1>10 DEF Read

(* What is computed of a request is not written by the step.               *)
LEMMA StoringHeld ==
  ASSUME Standing, TextInv, NEW kv, Storing(kv), backend' = backend, NEW o \in Requests, Alive(o),
         NEW k, k = request[o]
  PROVE  \A p \in 0 .. k.computed - 1 : Read(k.model, Place(k, p))' = Read(k.model, Place(k, p))
<1> TAKE p \in 0 .. k.computed - 1
<1>1. Sound(o) BY DEF TextInv, Recorded
<1>2. k.model \in Generations /\ Worded(k) /\ Placed(o) BY <1>1 DEF Sound
<1>3. p \in Nat /\ p < k.computed BY <1>2 DEF Worded
<1>4. PICK slot, g : slot = Place(k, p) /\ g = k.model OBVIOUS
<1>5. slot = Place(k, p)' BY <1>4 DEF Place, Contiguous
<1>6. ASSUME NEW r \in Batch, NEW q \in 1 .. step.work[r].input + Size(step.work[r].draft)
      PROVE  slot # Place(step.work[r], step.work[r].start + (q - 1))
  <2>1. Planned(r) /\ r \in Requests BY DEF TextInv, Scheduled, Standing
  <2>2. Alive(r) => r \in Active BY <2>1 DEF Standing, Alive, Active
  <2>3. PICK b : b = step.work[r].start + (q - 1) OBVIOUS
  <2>4. /\ b \in Nat /\ step.work[r].start <= b
        /\ b < step.work[r].start + (step.work[r].input + step.work[r].lookahead)
    BY <2>1, <2>3, QueryPosition DEF Planned
  <2>5. Place(request[o], p) # Place(step.work[r], b)
    BY <1>2, <1>3, <2>1, <2>2, <2>4, Apart
  <2> QED BY <1>4, <2>3, <2>5
<1>7. Read(g, slot)' = Read(g, slot) BY <1>2, <1>4, <1>6, StoringKeeps
<1> QED BY <1>4, <1>5, <1>7

(* A plan with another result.                                             *)
LEMMA ResultPlan ==
  ASSUME NEW plan, Sized(plan), NEW result, NEW new, new = [plan EXCEPT !.result = result]
  PROVE  /\ Sized(new) /\ new.draft = plan.draft /\ new.result = result
         /\ new.context = plan.context /\ new.start = plan.start /\ new.input = plan.input
         /\ new.lookahead = plan.lookahead /\ new.output = plan.output
         /\ new.blocks = plan.blocks /\ new.readonly = plan.readonly
         /\ new.cached = plan.cached
<1>1. DOMAIN plan = PlanFields BY DEF Sized
<1>2. /\ new.draft = plan.draft /\ new.result = result
      /\ DOMAIN new = PlanFields
      /\ new.context = plan.context /\ new.start = plan.start /\ new.input = plan.input
      /\ new.lookahead = plan.lookahead /\ new.output = plan.output
      /\ new.blocks = plan.blocks /\ new.readonly = plan.readonly
      /\ new.cached = plan.cached
  BY <1>1 DEF PlanFields
<1>3. Sized(new)
  <2> HIDE DEF PlanFields
  <2> QED BY <1>2 DEF Sized
<1> QED BY <1>2, <1>3

(* The texts of a plan do not depend on its result.                        *)
LEMMA SameTexts ==
  ASSUME NEW plan, NEW new, new.draft = plan.draft, new.context = plan.context,
         new.start = plan.start, new.input = plan.input
  PROVE  Texts(new) = Texts(plan)
<1>1. QueryTokens(new) = QueryTokens(plan) BY DEF QueryTokens
<1> QED BY <1>1 DEF Texts

(* The forward pass: attention reads what came before, each query's K/V is *)
(* that of its text, and the answers follow the texts.                     *)
LEMMA ForwardTexts ==
  ASSUME Standing, TextInv, NEW r \in Here, NEW plan, plan = step.work[r],
         Contiguous => entries[step.generation][r].length = plan.start
  PROVE  \A q \in 1 .. plan.input + Size(plan.draft) : Computed(r)[q] = Texts(plan)[q]
<1>1. Sized(plan) /\ Stocked(plan) BY PlanStocked
<1>2. r \in Batch /\ Batch \subseteq Requests BY DEF Here, Standing
<1>3. IsFiniteSet(Batch) BY <1>2, ModelWorkerAssumption, FS_Subset
<1>4. \A o \in Batch : Sized(step.work[o]) BY DEF TextInv, Scheduled, Planned
<1>5. backend \in {"dense", "torch", "triton"} BY DEF TextInv, Phased
<1>6. \A q \in Queries(Row(plan)) : Attending(plan, Reads(r)[q], q)
  BY <1>2, <1>3, <1>4, <1>5, AllAttending
<1>7. \A q \in Queries(Row(plan)) : Computed(r)[q] = Texts(plan)[q]
  BY <1>1, <1>6, ComputedTexts
<1>8. Queries(Row(plan)) = 1 .. plan.input + Size(plan.draft) BY <1>1, PlanSeen
<1> QED BY <1>7, <1>8

(* The queries are stored and the answers taken.                           *)
LEMMA StoredText ==
  ASSUME Standing, Standing', TextInv, StoreQueries, step.at = "running",
         UNCHANGED <<backend, decoder, request, installed>>,
         \A r \in Here : Contiguous => entries[step.generation][r].length = step.work[r].start
  PROVE  /\ Phased' /\ Recorded' /\ Scheduled' /\ Stepped'
         /\ step'.at = "forwarded" /\ Batch' = Batch
         /\ \A r \in Batch : /\ step'.work[r].start = step.work[r].start
                             /\ step'.work[r].input = step.work[r].input
                             /\ step'.work[r].draft = step.work[r].draft
<1> DEFINE kv == [r \in Batch |-> Computed(r)]
           W == [r \in Batch |-> [step.work[r] EXCEPT !.result = Target(step.work[r], kv[r])]]
<1>1. Storing(kv) BY DEF StoreQueries, Storing
<1>2. step'.at = "forwarded" /\ step'.work = W /\ step'.generation = step.generation
  <2> HIDE DEF W, kv
  <2>1. step' = [step EXCEPT !.at = "forwarded", !.work = W]
    BY Zenon DEF W, kv, StoreQueries
  <2> QED BY <2>1 DEF Standing
<1>3. Batch' = Batch /\ Active' = Active /\ Contiguous' = Contiguous /\ Here' = Here
  BY <1>2 DEF Batch, Active, Contiguous, Here
<1>4. ASSUME NEW r \in Batch
      PROVE  step'.work[r] = [step.work[r] EXCEPT !.result = Target(step.work[r], kv[r])]
  BY <1>2
<1>5. \A r \in Batch : kv[r] = Computed(r) OBVIOUS
<1> HIDE DEF W
<1>6. PICK f : f = kv OBVIOUS
<1> HIDE DEF kv
<1>7. ASSUME NEW r \in Batch, NEW plan, plan = step.work[r], NEW new, new = step'.work[r]
      PROVE  /\ Sized(plan) /\ Housed(r, plan)
             /\ Sized(new) /\ new.draft = plan.draft /\ new.result = Target(plan, kv[r])
             /\ new.context = plan.context /\ new.start = plan.start /\ new.input = plan.input
             /\ new.lookahead = plan.lookahead /\ new.output = plan.output
             /\ new.blocks = plan.blocks /\ new.readonly = plan.readonly
             /\ new.cached = plan.cached
  <2>1. Sized(plan) /\ Housed(r, plan) BY <1>7 DEF TextInv, Scheduled, Planned
  <2>2. new = [plan EXCEPT !.result = Target(plan, kv[r])] BY <1>4, <1>7
  <2> QED BY <2>1, <2>2, ResultPlan
<1>8. Scheduled'
  <2> SUFFICES ASSUME NEW r \in Batch PROVE Planned(r)' BY <1>3 DEF Scheduled
  <2>1. Planned(r) BY DEF TextInv, Scheduled
  <2>2. PICK plan, new : plan = step.work[r] /\ new = step'.work[r] OBVIOUS
  <2>3. Sized(new)'
    <3>1. Sized(new) BY <1>7, <2>2
    <3> QED BY <3>1 DEF Sized
  <2>4. Housed(r, new)'
    <3>1. /\ Housed(r, plan) /\ new.blocks = plan.blocks /\ new.readonly = plan.readonly
          /\ new.start = plan.start /\ new.input = plan.input
          /\ new.lookahead = plan.lookahead
      BY <1>7, <2>2
    <3> QED BY <1>3, <3>1 DEF Housed
  <2>5. r \in Active' => Follows(r, new)' BY <1>3, <1>7, <2>1, <2>2, SMTT(30) DEF Follows, Planned
  <2> QED BY <1>2, <2>2, <2>3, <2>4, <2>5 DEF Planned
<1>9. Recorded'
  <2> SUFFICES ASSUME NEW o \in Requests, Alive(o)' PROVE Sound(o)' BY DEF Recorded
  <2>1. Alive(o) /\ request'[o] = request[o] BY DEF Alive
  <2>2. Sound(o) BY <2>1 DEF TextInv, Recorded
  <2>3. PICK n : n = request[o] OBVIOUS
  <2>4. \A p \in 0 .. n.computed - 1 : Read(n.model, Place(n, p))' = Read(n.model, Place(n, p))
    BY <1>1, <2>1, <2>3, StoringHeld
  <2>5. ASSUME NEW x \in Requests, x # o, Lent(x) PROVE Lent(x)'
    BY <1>3, <1>7, <2>5 DEF Lent, Alive
  <2> QED BY <2>1, <2>2, <2>3, <2>4, <2>5, SoundKept
<1>10. Stepped'
  <2> SUFFICES ASSUME NEW r \in Here PROVE Forwarded(step.work[r])'
    BY <1>2, <1>3 DEF Stepped
  <2>1. r \in Batch BY DEF Here
  <2>2. PICK plan, new : plan = step.work[r] /\ new = step'.work[r] OBVIOUS
  <2>3. PICK g : g = step.generation OBVIOUS
  <2>4. \A q \in 1 .. plan.input + Size(plan.draft) : kv[r][q] = Texts(plan)[q]
    BY <1>5, <2>1, <2>2, ForwardTexts
  <2>5. Texts(new) = Texts(plan) BY <1>7, <2>1, <2>2, SameTexts
  <2>6. ASSUME NEW q \in 1 .. new.input + Size(new.draft)
        PROVE  Read(g, Place(new, new.start + (q - 1)))' = Texts(new)[q]
    <3>1. q \in 1 .. plan.input + Size(plan.draft) BY <1>7, <2>1, <2>2
    <3>2. PICK slot : slot = Place(plan, plan.start + (q - 1)) OBVIOUS
    <3>3. slot = Place(new, new.start + (q - 1))' BY <1>3, <1>7, <2>1, <2>2, <3>2 DEF Place
    <3>4. Read(g, slot)' = kv[r][q] BY <1>1, <2>1, <2>2, <2>3, <3>1, <3>2, StoringWrites
    <3> QED BY <2>4, <2>5, <3>1, <3>3, <3>4
  <2>7. Answered(new)'
    <3>1. plan.output = 0 => new.result = <<>>
      <4>1. new.result = Target(plan, kv[r]) BY <1>7, <2>1, <2>2
      <4>2. plan.output = 0 => Target(plan, kv[r]) = <<>> BY DEF Target
      <4> QED BY <4>1, <4>2
    <3>2. CASE plan.output # 0
      <4>1. /\ DOMAIN Target(plan, kv[r]) = 1 .. Size(plan.draft) + 1
            /\ \A i \in 1 .. Size(plan.draft) + 1 :
                 Target(plan, kv[r])[i] = Weights(g, Texts(plan)[plan.input + (i - 1)])
        BY <1>7, <2>1, <2>2, <2>3, <2>4, <3>2, TargetShape
      <4> QED BY <1>2, <1>7, <2>1, <2>2, <2>3, <2>5, <3>2, <4>1 DEF Answered
    <3> QED BY <1>7, <2>1, <2>2, <3>1, <3>2 DEF Answered
  <2>8. new.cached = 0
    BY <1>7, <2>1, <2>2 DEF TextInv, Scheduled, Planned
  <2> QED BY <1>2, <2>2, <2>3, <2>6, <2>7, <2>8 DEF Forwarded
<1>11. Phased' BY <1>2 DEF TextInv, Phased, Phases
<1>12. \A r \in Batch : /\ step'.work[r].start = step.work[r].start
                        /\ step'.work[r].input = step.work[r].input
                        /\ step'.work[r].draft = step.work[r].draft
  BY <1>7
<1> QED BY <1>2, <1>3, <1>8, <1>9, <1>10, <1>11, <1>12

(* The forward pass over pages.                                            *)
LEMMA PagedText ==
  ASSUME Standing, Standing', TextInv, PagedForward
  PROVE  TextInv'
<1>0. /\ step.at = "running" /\ ~Contiguous
      /\ UNCHANGED <<backend, decoder, request, claims, entries, installed>>
  BY DEF PagedForward, assembly, modelVars
<1>1. CASE StepFailed /\ UNCHANGED cells BY <1>0, <1>1, FailText
<1>2. CASE ~(StepFailed /\ UNCHANGED cells)
  <2>1. StoreQueries BY <1>2 DEF PagedForward
  <2>2. Phased' /\ Recorded' /\ Scheduled' /\ Stepped' BY <1>0, <2>1, StoredText
  <2>3. Measured' BY <1>0 DEF Measured, Contiguous
  <2> QED BY <2>2, <2>3 DEF TextInv
<1> QED BY <1>1, <1>2

(* The forward pass over the tensors of the requests, which grow by what   *)
(* was computed.                                                           *)
LEMMA ContiguousText ==
  ASSUME Standing, Standing', EntriesInv, TextInv, ContiguousForward
  PROVE  TextInv'
<1>0. /\ step.at = "running" /\ Contiguous
      /\ UNCHANGED <<backend, decoder, request, claims, installed>>
  BY DEF ContiguousForward, assembly, modelVars
<1> DEFINE stored == entries[step.generation]
           longer(r) == stored[r].length + Len(QueryTokens(step.work[r]))
<1>1. CASE StepFailed /\ UNCHANGED <<entries, cells>> BY <1>0, <1>1, FailText
<1>2. CASE ~(StepFailed /\ UNCHANGED <<entries, cells>>)
  <2>1. /\ \A r \in Batch : stored[r].length = step.work[r].start
        /\ StoreQueries
        /\ entries' = [entries EXCEPT ![step.generation] =
                   SetLength(@, [r \in Batch |-> longer(r)])]
    BY <1>2 DEF ContiguousForward
  <2>2. \A r \in Here : Contiguous => entries[step.generation][r].length = step.work[r].start
    BY <2>1 DEF Here
  <2>3. /\ Phased' /\ Recorded' /\ Scheduled' /\ Stepped'
        /\ step'.at = "forwarded" /\ Batch' = Batch
        /\ \A r \in Batch : /\ step'.work[r].start = step.work[r].start
                            /\ step'.work[r].input = step.work[r].input
                            /\ step'.work[r].draft = step.work[r].draft
    BY <1>0, <2>1, <2>2, StoredText
  <2>4. Measured'
    <3> SUFFICES ASSUME NEW r \in Active PROVE Lengths(r)'
      BY <1>0 DEF Measured, Active
    <3>1. Lengths(r) BY <1>0 DEF TextInv, Measured
    <3>2. /\ installed \in Generations /\ request[r].model = installed
          /\ Whole(entries[installed]) /\ r \in DOMAIN entries[installed] /\ r \in DOMAIN claims
      BY <1>0, EntryOf
    <3> DEFINE lengths == [o \in Batch |-> longer(o)]
    <3>3. PICK g : g = installed OBVIOUS
    <3>4. LengthNow(r)' = entries'[g][r].length
      <4>1. CASE step.generation = g
        <5>1. PICK new : new = SetLength(stored, lengths) OBVIOUS
        <5>2. entries'[g] = new BY <2>1, <3>2, <3>3, <4>1, <5>1 DEF Standing
        <5>3. DOMAIN lengths = Batch OBVIOUS
        <5>4. \A o \in Batch : lengths[o] = longer(o) OBVIOUS
        <5> HIDE DEF lengths, longer
        <5>5. new[r].length = IF r \in Batch THEN lengths[r] ELSE stored[r].length
          <6>1. Whole(stored) /\ r \in DOMAIN stored BY <3>2, <3>3, <4>1
          <6> HIDE DEF stored
          <6> QED BY <5>1, <5>3, <6>1, LengthShape
        <5>6. CASE r \notin Batch
          <6>1. LengthNow(r)' = request[r].computed /\ LengthNow(r) = request[r].computed
            BY <1>0, <2>3, <5>6 DEF LengthNow
          <6>2. stored[r].length = request[r].computed BY <3>1, <3>2, <3>3, <4>1, <6>1 DEF Lengths
          <6> QED BY <5>2, <5>5, <5>6, <6>1, <6>2
        <5>7. CASE r \in Batch
          <6>1. PICK plan, N : plan = step.work[r] /\ N = plan.input + Size(plan.draft) OBVIOUS
          <6>2. Sized(plan) BY <5>7, <6>1 DEF TextInv, Scheduled, Planned
          <6>3. Len(QueryTokens(plan)) = N BY <6>1, <6>2, QueryTokensShape
          <6>4. longer(r) = plan.start + N BY <2>1, <5>7, <6>1, <6>3 DEF longer
          <6>5. LengthNow(r)' = plan.start + N
            BY <2>3, <5>7, <6>1 DEF LengthNow
          <6> QED BY <5>2, <5>4, <5>5, <5>7, <6>4, <6>5
        <5> QED BY <5>6, <5>7
      <4>2. CASE step.generation # g
        <5>1. r \notin Batch BY <3>2, <3>3, <4>2 DEF Standing
        <5>2. LengthNow(r)' = request[r].computed /\ LengthNow(r) = request[r].computed
          BY <1>0, <2>3, <5>1 DEF LengthNow
        <5>3. entries'[g] = entries[g] BY <2>1, <3>2, <3>3, <4>2 DEF Standing
        <5> QED BY <3>1, <3>2, <3>3, <5>2, <5>3 DEF Lengths
      <4> QED BY <4>1, <4>2
    <3> QED BY <1>0, <2>3, <3>1, <3>2, <3>3, <3>4 DEF Lengths
  <2> QED BY <2>3, <2>4 DEF TextInv
<1> QED BY <1>1, <1>2

(* The end of a plan with an output is the end of its request's tokens.    *)
LEMMA PlanEnds ==
  ASSUME NEW plan, Sized(plan)
  PROVE  /\ plan.start \in Nat /\ plan.input \in Nat \ {0} /\ plan.context \in Seq(Nat)
         /\ plan.output \in Nat /\ Len(plan.context) \in Nat
         /\ plan.start + plan.input <= Len(plan.context)
         /\ plan.output # 0 => plan.start + plan.input = Len(plan.context)
<1>1. /\ plan.start \in Nat /\ plan.input \in Nat \ {0} /\ plan.context \in Seq(Nat)
      /\ plan.output \in Nat
      /\ plan.output = 0 => plan.start + plan.input < Len(plan.context)
      /\ plan.output # 0 => plan.start + plan.input = Len(plan.context)
  BY DEF Sized
<1> QED BY <1>1

(* The input's texts are those of the tokens with any output behind them.  *)
LEMMA InputStays ==
  ASSUME NEW plan, Sized(plan), NEW out \in Seq(Nat)
  PROVE  \A k \in 1 .. plan.input :
           Texts(plan)[k] = Upto(Cat(plan.context, out), plan.start + k)
<1> TAKE k \in 1 .. plan.input
<1>1. /\ plan.start + k \in 0 .. Len(plan.context) /\ plan.context \in Seq(Nat)
  BY PlanEnds
<1>2. Texts(plan)[k] = Upto(plan.context, plan.start + k) BY InputTexts
<1> DEFINE n == plan.start + k
<1> HIDE DEF n
<1>3. n \in 0 .. Len(plan.context) BY <1>1 DEF n
<1>4. Upto(Cat(plan.context, out), n) = Upto(plan.context, n) BY <1>1, <1>3, UptoCat
<1> QED BY <1>2, <1>4 DEF n

(* ... and an accepted node's text is that of the output up to the node.   *)
LEMMA AcceptedStays ==
  ASSUME NEW plan, Sized(plan), plan.output # 0, NEW out \in Seq(Nat), NEW j \in 0 .. Len(out)
  PROVE  Cat(plan.context, Upto(out, j)) = Upto(Cat(plan.context, out), plan.start + (plan.input + j))
<1>1. /\ plan.context \in Seq(Nat)
      /\ Len(plan.context) + j = plan.start + (plan.input + j)
  <2>1. /\ plan.start \in Nat /\ plan.input \in Nat /\ plan.context \in Seq(Nat)
        /\ plan.start + plan.input = Len(plan.context)
    BY PlanEnds
  <2>2. j \in Nat
    <3>1. Len(out) \in Nat OBVIOUS
    <3> QED BY <3>1
  <2>3. (plan.start + plan.input) + j = plan.start + (plan.input + j) BY <2>1, <2>2
  <2> QED BY <2>1, <2>3
<1>2. Upto(Cat(plan.context, out), Len(plan.context) + j) = Cat(plan.context, Upto(out, j))
  <2> DEFINE s == plan.context
  <2>1. s \in Seq(Nat) BY <1>1
  <2> HIDE DEF s
  <2>2. \A k \in 0 .. Len(out) : Upto(Cat(s, out), Len(s) + k) = Cat(s, Upto(out, k))
    BY <2>1, UptoCat
  <2> QED BY <2>2 DEF s
<1> QED BY <1>1, <1>2

(* What makes a plan done, after the step.                                 *)
Results(plan, out, n) ==
  /\ out \in Seq(Nat) /\ n \in Nat /\ Len(out) <= plan.output
  /\ plan.output = 0 => n = 0 /\ out = <<>>
  /\ plan.output # 0 => Len(out) = n + 1

(* A plan whose K/V and output are right is done.                          *)
LEMMA DonePlan ==
  ASSUME NEW plan, Sized(plan), NEW out, NEW n, Results(plan, out, n),
         NEW new, new.context = plan.context, new.start = plan.start, new.input = plan.input,
         new.output = plan.output, new.blocks = plan.blocks, new.result = out, new.cached = n,
         NEW g, g = step.generation, step'.generation = g, backend' = backend,
         Continues(plan.context, out),
         \A k \in 1 .. plan.input + n :
           Read(g, Place(plan, plan.start + (k - 1)))' = Upto(Cat(plan.context, out), plan.start + k)
  PROVE  Done(new)'
<1>1. /\ plan.start \in Nat /\ plan.input \in Nat /\ n \in Nat BY DEF Sized, Results
<1>2. ASSUME NEW p \in plan.start .. plan.start + (plan.input + n) - 1
      PROVE  Read(g, Place(new, p))' = Upto(Cat(plan.context, out), p + 1)
  <2>1. PICK k \in 1 .. plan.input + n : p = plan.start + (k - 1) /\ p + 1 = plan.start + k
    <3> DEFINE k == (p - plan.start) + 1
    <3>1. k \in 1 .. plan.input + n /\ p = plan.start + (k - 1) /\ p + 1 = plan.start + k
      BY <1>1
    <3> QED BY <3>1
  <2>2. Place(new, p)' = Place(plan, p)' BY DEF Place
  <2>3. Read(g, Place(plan, plan.start + (k - 1)))' = Upto(Cat(plan.context, out), plan.start + k)
    OBVIOUS
  <2> QED BY <2>1, <2>2, <2>3
<1>3. Continues(new.context, new.result)' BY DEF Continues
<1> QED BY <1>2, <1>3 DEF Done, Results

(* StandardDecodeHandler: the answer after the last token is the output.   *)
LEMMA SampleText ==
  ASSUME Standing, TextInv, Sample
  PROVE  TextInv'
<1>0. /\ step.at = "forwarded" /\ decoder = "standard"
      /\ UNCHANGED <<backend, decoder, request, claims, entries, cells, installed>>
  BY DEF Sample, assembly, modelVars
<1>1. CASE StepFailed BY <1>0, <1>1, FailText
<1>2. CASE ~StepFailed
  <2>1. /\ \A r \in Batch : step.work[r].result \in Seq(Nat)
        /\ step' = [step EXCEPT !.at = "done"]
    BY <1>2 DEF Sample
  <2>2. /\ step'.at = "done" /\ step'.work = step.work /\ step'.generation = step.generation
    BY <2>1 DEF Standing
  <2>3. Batch' = Batch /\ Active' = Active /\ Contiguous' = Contiguous /\ Here' = Here
    BY <1>0, <2>2 DEF Batch, Active, Contiguous, Here
  <2>4. ASSUME NEW r \in Batch PROVE Planned(r)'
    <3>1. Planned(r) BY DEF TextInv, Scheduled
    <3>2. PICK plan : plan = step.work[r] OBVIOUS
    <3>3. Sized(plan)' BY <1>0, <3>1, <3>2 DEF Sized, Planned
    <3>4. Housed(r, plan)' BY <2>3, <3>1, <3>2 DEF Housed, Planned
    <3>5. r \in Active' => Follows(r, plan)' BY <1>0, <2>3, <3>1, <3>2 DEF Follows, Planned
    <3> QED BY <2>2, <3>2, <3>3, <3>4, <3>5 DEF Planned
  <2>5. Recorded'
    <3> SUFFICES ASSUME NEW o \in Requests, Alive(o)' PROVE Sound(o)' BY DEF Recorded
    <3>1. Alive(o) /\ request'[o] = request[o] BY <1>0 DEF Alive
    <3>2. Sound(o) BY <3>1 DEF TextInv, Recorded
    <3>3. PICK n : n = request[o] OBVIOUS
    <3>4. \A p \in 0 .. n.computed - 1 : Read(n.model, Place(n, p))' = Read(n.model, Place(n, p))
      BY <1>0 DEF Read, Place, Contiguous
    <3>5. ASSUME NEW x \in Requests, x # o, Lent(x) PROVE Lent(x)'
      BY <1>0, <2>2, <2>3, <3>5 DEF Lent, Alive
    <3> QED BY <1>0, <3>1, <3>2, <3>3, <3>4, <3>5, SoundKept
  <2>6. ASSUME NEW r \in Here, NEW plan, plan = step.work[r]
        PROVE  Done(plan)' /\ Size(plan.draft) = 0 /\ plan.cached = 0
    <3>1. r \in Batch BY DEF Here
    <3>2. Sized(plan) /\ Size(plan.draft) = 0
      BY <1>0, <2>6, <3>1 DEF TextInv, Scheduled, Planned, Sized
    <3>3. Forwarded(plan) BY <1>0, <2>6 DEF TextInv, Stepped
    <3>4. PICK out, g : out = plan.result /\ g = step.generation OBVIOUS
    <3>5. out \in Seq(Nat) /\ Answered(plan) /\ plan.cached = 0
      BY <2>1, <2>6, <3>1, <3>3, <3>4 DEF Forwarded
    <3>6. plan.output # 0 => Len(out) = 1
      <4>1. plan.output # 0 => DOMAIN out = 1 .. 1
        BY <3>2, <3>4, <3>5 DEF Answered
      <4> QED BY <3>5, <4>1
    <3>7. Results(plan, out, 0)
      <4>1. plan.output \in Nat BY <3>2, PlanEnds
      <4>2. plan.output = 0 => out = <<>> BY <3>4, <3>5 DEF Answered
      <4>3. Len(out) <= plan.output
        <5>1. CASE plan.output = 0
          <6>1. Len(out) = 0 BY <4>2, <5>1
          <6> QED BY <5>1, <6>1
        <5>2. CASE plan.output # 0
          <6>1. Len(out) = 1 BY <3>6, <5>2
          <6>2. plan.output >= 1 BY <4>1, <5>2
          <6> QED BY <6>1, <6>2
        <5> QED BY <5>1, <5>2
      <4> QED BY <3>5, <3>6, <4>2, <4>3 DEF Results
    <3>8. Continues(plan.context, out)
      <4>1. CASE plan.output = 0
        <5>1. out = <<>> BY <3>4, <3>5, <4>1 DEF Answered
        <5> QED BY <5>1 DEF Continues
      <4>2. CASE plan.output # 0
        <5>1. Texts(plan)[plan.input] = Upto(plan.context, plan.start + plan.input)
          BY <3>2, InputTexts, PlanEnds
        <5>2. plan.start + plan.input = Len(plan.context) /\ plan.context \in Seq(Nat)
          BY <3>2, <4>2, PlanEnds
        <5>3. Upto(plan.context, Len(plan.context)) = plan.context BY <5>2, UptoEnds
        <5>4. Texts(plan)[plan.input] = plan.context BY <5>1, <5>2, <5>3
        <5>5. plan.input + (1 - 1) = plan.input BY <3>2, PlanEnds
        <5>6. out[1] = Weights(g, Texts(plan)[plan.input + (1 - 1)])
          <6>1. 1 \in 1 .. Size(plan.draft) + 1 BY <3>2
          <6> QED BY <3>4, <3>5, <4>2, <6>1 DEF Answered
        <5>7. Cat(plan.context, Upto(out, 0)) = plan.context
          <6>1. Upto(out, 0) = <<>> BY <3>5, UptoEnds
          <6>2. Cat(plan.context, <<>>) = plan.context BY <5>2, CatEmpty
          <6> QED BY <6>1, <6>2
        <5>8. out[1] = Weights(g, Cat(plan.context, Upto(out, 0))) BY <5>4, <5>5, <5>6, <5>7
        <5>9. \A k \in 1 .. Len(out) : k = 1 /\ k - 1 = 0 BY <3>6, <4>2
        <5> QED BY <3>4, <5>8, <5>9 DEF Continues
      <4> QED BY <4>1, <4>2
    <3>9. ASSUME NEW k \in 1 .. plan.input + 0
          PROVE  Read(g, Place(plan, plan.start + (k - 1)))' = Upto(Cat(plan.context, out), plan.start + k)
      <4>1. k \in 1 .. plan.input /\ k \in 1 .. plan.input + Size(plan.draft) BY <3>2, PlanEnds
      <4>2. Read(g, Place(plan, plan.start + (k - 1))) = Texts(plan)[k]
        BY <3>3, <3>4, <4>1 DEF Forwarded
      <4>3. Texts(plan)[k] = Upto(Cat(plan.context, out), plan.start + k)
        BY <3>2, <3>5, <4>1, InputStays
      <4>4. Read(g, Place(plan, plan.start + (k - 1)))' = Read(g, Place(plan, plan.start + (k - 1)))
        BY <1>0, <2>3 DEF Read, Place
      <4> QED BY <4>2, <4>3, <4>4
    <3> QED BY <1>0, <2>2, <3>2, <3>4, <3>5, <3>7, <3>8, <3>9, DonePlan
  <2>7. Stepped' BY <2>2, <2>3, <2>6 DEF Stepped
  <2>8. Measured'
    <3> SUFFICES ASSUME Contiguous, NEW r \in Active PROVE Lengths(r)' BY <2>3 DEF Measured
    <3>1. Lengths(r) BY <1>0 DEF TextInv, Measured
    <3>2. LengthNow(r)' = LengthNow(r)
      <4>1. r \in Batch => Size(step.work[r].draft) = 0 /\ step.work[r].cached = 0
        BY <2>6 DEF Here
      <4> QED BY <1>0, <2>2, <2>3, <4>1 DEF LengthNow
    <3> QED BY <1>0, <2>3, <3>1, <3>2 DEF Lengths
  <2>9. Phased' BY <1>0, <2>2 DEF TextInv, Phased, Phases
  <2> QED BY <2>3, <2>4, <2>5, <2>7, <2>8, <2>9 DEF TextInv, Scheduled
<1> QED BY <1>1, <1>2

(* A position within what was reserved.                                    *)
LEMMA ReservedPosition ==
  ASSUME NEW plan, Sized(plan), NEW q \in 1 .. plan.input + plan.lookahead
  PROVE  /\ plan.start + (q - 1) \in Nat /\ plan.start <= plan.start + (q - 1)
         /\ plan.start + (q - 1) < plan.start + (plan.input + plan.lookahead)
<1>1. plan.start \in Nat /\ plan.input \in Nat /\ plan.lookahead \in Nat BY DEF Sized
<1> QED BY <1>1

(* What survives of a step: the input and the accepted nodes.              *)
LEMMA RetainedShape ==
  ASSUME NEW plan, Sized(plan), NEW acc, acc = Accept(plan.draft, plan.result).accepted,
         NEW R, R = Retained(plan)
  PROVE  /\ acc \in Seq(1 .. Size(plan.draft)) /\ Len(acc) \in Nat
         /\ Size(plan.draft) = 0 => Len(acc) = 0
         /\ Len(R) = plan.input + Len(acc) /\ DOMAIN R = 1 .. plan.input + Len(acc)
         /\ \A i \in 1 .. plan.input : R[i] = i
         /\ \A i \in 1 .. Len(acc) : R[plan.input + i] = plan.input + acc[i]
<1>1. acc \in Seq(1 .. Size(plan.draft)) BY AcceptedType DEF Sized
<1>2. Len(acc) \in Nat /\ DOMAIN acc = 1 .. Len(acc) /\ Size(plan.draft) \in Nat
      /\ plan.input \in Nat /\ \A i \in 1 .. Len(acc) : acc[i] \in 1 .. Size(plan.draft)
  <2>1. Size(plan.draft) \in Nat /\ plan.input \in Nat BY DEF Sized, IsTree, Size
  <2> DEFINE S == 1 .. Size(plan.draft)
  <2>2. acc \in Seq(S) BY <1>1
  <2> HIDE DEF S
  <2>3. Len(acc) \in Nat /\ DOMAIN acc = 1 .. Len(acc) BY <2>2
  <2>4. \A i \in 1 .. Len(acc) : acc[i] \in S BY <2>2, ElementOfSeq
  <2> QED BY <2>1, <2>3, <2>4 DEF S
<1>3. Size(plan.draft) = 0 => Len(acc) = 0
  <2> SUFFICES ASSUME Size(plan.draft) = 0, Len(acc) # 0 PROVE FALSE OBVIOUS
  <2>1. 1 \in 1 .. Len(acc) BY <1>2
  <2>2. acc[1] \in 1 .. 0 BY <1>2, <2>1
  <2> QED BY <2>2
<1> DEFINE a == [i \in 1 .. plan.input |-> i]
           b == [i \in 1 .. Len(acc) |-> plan.input + acc[i]]
<1>4. a \in [1 .. plan.input -> Nat] /\ b \in [1 .. Len(acc) -> Nat] BY <1>2
<1>5. R = a \o b BY <1>2 DEF Retained
<1>6. /\ \A i \in 1 .. plan.input : a[i] = i
      /\ \A i \in 1 .. Len(acc) : b[i] = plan.input + acc[i]
  OBVIOUS
<1> HIDE DEF a, b
<1>7. a \in Seq(Nat) /\ Len(a) = plan.input /\ b \in Seq(Nat) /\ Len(b) = Len(acc)
  BY <1>2, <1>4, FunctionSeq
<1>8. /\ Len(a \o b) = Len(a) + Len(b) /\ DOMAIN (a \o b) = 1 .. Len(a) + Len(b)
      /\ \A i \in 1 .. Len(a) : (a \o b)[i] = a[i]
      /\ \A i \in 1 .. Len(b) : (a \o b)[Len(a) + i] = b[i]
  <2>1. a \in Seq(Nat) /\ b \in Seq(Nat) BY <1>7
  <2> QED BY <2>1, ConcatPlaces
<1> QED BY <1>1, <1>2, <1>3, <1>5, <1>6, <1>7, <1>8

(* The answers that AcceptanceResult takes are one more than the nodes.    *)
LEMMA OutputLonger ==
  ASSUME NEW plan, Sized(plan), NEW acc, acc = Accept(plan.draft, plan.result).accepted,
         Len(Accept(plan.draft, plan.result).output) <= plan.output
  PROVE  Len(acc) <= plan.lookahead
<1> DEFINE out == Accept(plan.draft, plan.result).output
           nodes == <<0>> \o acc
<1>1. acc \in Seq(1 .. Size(plan.draft)) /\ Len(acc) \in Nat BY RetainedShape
<1>2. acc = AcceptedPath(plan.draft, plan.result) BY AcceptedType DEF Sized
<1>3. Size(plan.draft) \in Nat BY DEF Sized, IsTree, Size
<1>4. acc \in Seq(Nat) /\ <<0>> \in Seq(Nat) /\ Len(<<0>>) = 1 BY <1>1, <1>3
<1>5. DOMAIN nodes = 1 .. 1 + Len(acc) BY <1>4, ConcatPlaces
<1>6. out = [i \in 1 .. 1 + Len(acc) |-> plan.result[nodes[i] + 1]]
  BY <1>2, <1>5 DEF Accept
<1> HIDE DEF nodes
<1> DEFINE D == { plan.result[nodes[i] + 1] : i \in 1 .. 1 + Len(acc) }
<1>7. out \in [1 .. 1 + Len(acc) -> D] BY <1>6
<1> HIDE DEF out, D
<1>8. Len(out) = 1 + Len(acc)
  <2>1. 1 + Len(acc) \in Nat BY <1>1
  <2> QED BY <1>7, <2>1, FunctionSeq
<1>9. Len(out) <= plan.output BY DEF out
<1>10. plan.output <= plan.lookahead + 1 /\ plan.output \in Nat /\ plan.lookahead \in Nat
  BY DEF Sized
<1> QED BY <1>1, <1>8, <1>9, <1>10

(* compact(): where it writes, and what.                                   *)
Moved(plan, R, M) ==
  /\ \A slot : slot \in DOMAIN Compacted(plan) <=>
       \E k \in 1 .. M : slot = Place(plan, plan.start + (k - 1))
  /\ \A k \in 1 .. M : Compacted(plan)[Place(plan, plan.start + (k - 1))]
                       = Read(step.generation, Place(plan, plan.start + (R[k] - 1)))

(* A compaction writes the front of the tail, from what is retained.       *)
LEMMA CompactedShape ==
  ASSUME NEW r \in Requests, NEW plan, Sized(plan), Housed(r, plan),
         NEW acc, acc = Accept(plan.draft, plan.result).accepted, Len(acc) <= plan.lookahead,
         NEW R, R = Retained(plan), NEW M, M = plan.input + Len(acc)
  PROVE  Moved(plan, R, M)
<1>1. DOMAIN R = 1 .. M /\ Len(acc) \in Nat BY RetainedShape
<1>2. plan.input \in Nat /\ plan.lookahead \in Nat /\ plan.start \in Nat BY DEF Sized
<1>3. M \in Nat /\ \A k \in 1 .. M : k \in Int /\ k \in 1 .. plan.input + plan.lookahead
  BY <1>1, <1>2
<1> DEFINE place == [k \in 1 .. M |-> Place(plan, plan.start + (k - 1))]
           S == { Place(plan, plan.start + (k - 1)) : k \in 1 .. M }
           from(slot) == CHOOSE k \in 1 .. M : slot = Place(plan, plan.start + (k - 1))
           C == [ slot \in S |->
                    Read(step.generation, Place(plan, plan.start + (R[from(slot)] - 1))) ]
<1>4. Compacted(plan) = C
  <2> DEFINE F(Q, D) ==
        [ slot \in { Place(plan, plan.start + (k - 1)) : k \in D } |->
            Read(step.generation, Place(plan, plan.start +
              (Q[CHOOSE k \in D : slot = Place(plan, plan.start + (k - 1))] - 1))) ]
  <2>1. Compacted(plan) = F(Retained(plan), DOMAIN Retained(plan)) BY Zenon DEF Compacted
  <2>2. C = F(R, 1 .. M) OBVIOUS
  <2> HIDE DEF F, C
  <2> QED BY <1>1, <2>1, <2>2
<1>5. \A q, k \in 1 .. M : place[q] = place[k] => q = k
  <2> SUFFICES ASSUME NEW q \in 1 .. M, NEW k \in 1 .. M, place[q] = place[k] PROVE q = k
    OBVIOUS
  <2>1. Place(plan, plan.start + (q - 1)) = Place(plan, plan.start + (k - 1)) OBVIOUS
  <2>2. PICK a, b : a = plan.start + (q - 1) /\ b = plan.start + (k - 1) OBVIOUS
  <2>3. /\ a \in Nat /\ plan.start <= a /\ a < plan.start + (plan.input + plan.lookahead)
        /\ b \in Nat /\ plan.start <= b /\ b < plan.start + (plan.input + plan.lookahead)
    BY <1>3, <2>2, ReservedPosition
  <2>4. a = b BY <2>1, <2>2, <2>3, PlansApart
  <2>6. q \in Int /\ k \in Int BY <1>3
  <2> QED BY <1>2, <2>2, <2>4, <2>6
<1>6. \A k \in 1 .. M : place[k] \in S /\ from(place[k]) = k
  <2> TAKE k \in 1 .. M
  <2>1. \A q \in 1 .. M : place[k] = Place(plan, plan.start + (q - 1)) => q = k BY <1>5
  <2>2. place[k] = Place(plan, plan.start + (k - 1)) OBVIOUS
  <2> HIDE DEF place
  <2> QED BY <2>1, <2>2
<1>7. \A k \in 1 .. M : place[k] = Place(plan, plan.start + (k - 1)) OBVIOUS
<1>8. \A slot : slot \in S <=> \E k \in 1 .. M : slot = Place(plan, plan.start + (k - 1))
  OBVIOUS
<1>9. /\ DOMAIN C = S
      /\ \A slot \in S : C[slot] = Read(step.generation, Place(plan, plan.start + (R[from(slot)] - 1)))
  OBVIOUS
<1> HIDE DEF C, S, place, from
<1>10. \A slot : slot \in DOMAIN Compacted(plan) <=>
          \E k \in 1 .. M : slot = Place(plan, plan.start + (k - 1))
  BY <1>4, <1>8, <1>9
<1>11. ASSUME NEW k \in 1 .. M
       PROVE  Compacted(plan)[Place(plan, plan.start + (k - 1))]
                = Read(step.generation, Place(plan, plan.start + (R[k] - 1)))
  <2>1. PICK slot : slot = Place(plan, plan.start + (k - 1)) OBVIOUS
  <2>2. slot \in S /\ from(slot) = k BY <1>6, <1>7, <2>1
  <2>3. C[slot] = Read(step.generation, Place(plan, plan.start + (R[k] - 1)))
    BY <1>9, <2>2
  <2> QED BY <1>4, <2>1, <2>3
<1> QED BY <1>10, <1>11 DEF Moved

Accepted(plan) == Accept(plan.draft, plan.result).accepted

(* The cells after compact().                                              *)
Compacting ==
  /\ cells' = [cells EXCEPT ![step.generation] =
                Stored(@, [r \in Drafted |-> Compacted(step.work[r])])]
  /\ \A r \in Drafted : SoundAcceptance(step.work[r])

(* Each plan of the batch that is compacted keeps to what it reserved.     *)
LEMMA DraftedWithin ==
  ASSUME Standing, TextInv, Compacting, NEW r \in Drafted, NEW plan, plan = step.work[r]
  PROVE  /\ r \in Batch /\ r \in Requests /\ Planned(r) /\ Sized(plan) /\ Housed(r, plan)
         /\ Len(Accepted(plan)) \in Nat /\ Len(Accepted(plan)) <= plan.lookahead
         /\ \A k \in 1 .. plan.input + Len(Accepted(plan)) : k \in 1 .. plan.input + plan.lookahead
<1>1. r \in Batch /\ r \in Requests BY DEF Drafted, Sampled, Standing
<1>2. Planned(r) /\ Sized(plan) /\ Housed(r, plan) BY <1>1 DEF TextInv, Scheduled, Planned
<1>3. Len(Accept(plan.draft, plan.result).output) <= plan.output
  BY DEF Compacting, SoundAcceptance
<1>4. PICK acc : acc = Accepted(plan) OBVIOUS
<1>5. Len(acc) \in Nat /\ Len(acc) <= plan.lookahead
  BY <1>2, <1>3, <1>4, RetainedShape, OutputLonger DEF Accepted
<1>6. plan.input \in Nat /\ plan.lookahead \in Nat BY <1>2 DEF Sized
<1>7. \A k \in 1 .. plan.input + Len(acc) : k \in 1 .. plan.input + plan.lookahead BY <1>5, <1>6
<1> QED BY <1>1, <1>2, <1>4, <1>5, <1>7

(* A slot that no compacted plan has reserved keeps its K/V.               *)
LEMMA CompactingKeeps ==
  ASSUME Standing, TextInv, Compacting, NEW g \in Generations, NEW slot,
         \A r \in Drafted : \A k \in 1 .. step.work[r].input + step.work[r].lookahead :
           slot # Place(step.work[r], step.work[r].start + (k - 1))
  PROVE  Read(g, slot)' = Read(g, slot)
<1> DEFINE writes == [r \in Drafted |-> Compacted(step.work[r])]
<1>1. CASE g # step.generation BY <1>1 DEF Standing, Compacting, Read
<1>2. CASE g = step.generation
  <2>1. PICK new : new = Stored(cells[g], writes) OBVIOUS
  <2>2. cells'[g] = new BY <1>2, <2>1 DEF Standing, Compacting
  <2>3. ASSUME NEW r \in Drafted PROVE slot \notin DOMAIN writes[r]
    <3>1. PICK plan, acc : plan = step.work[r] /\ acc = Accepted(plan) OBVIOUS
    <3>2. /\ r \in Requests /\ Sized(plan) /\ Housed(r, plan) /\ Len(acc) <= plan.lookahead
          /\ \A k \in 1 .. plan.input + Len(acc) : k \in 1 .. plan.input + plan.lookahead
      BY <3>1, DraftedWithin
    <3>3. writes[r] = Compacted(plan) BY <3>1
    <3> HIDE DEF writes
    <3>4. slot \in DOMAIN Compacted(plan) =>
             \E k \in 1 .. plan.input + Len(acc) : slot = Place(plan, plan.start + (k - 1))
      <4>1. PICK R, M : R = Retained(plan) /\ M = plan.input + Len(acc) OBVIOUS
      <4>2. Moved(plan, R, M) BY <3>1, <3>2, <4>1, CompactedShape DEF Accepted
      <4> QED BY <4>1, <4>2 DEF Moved
    <3> QED BY <3>1, <3>2, <3>3, <3>4
  <2>4. DOMAIN writes = Drafted OBVIOUS
  <2> HIDE DEF writes
  <2>5. /\ slot \in DOMAIN new <=> slot \in DOMAIN cells[g]
        /\ slot \in DOMAIN cells[g] => new[slot] = cells[g][slot]
    BY <2>1, <2>3, <2>4, StoreKeeps
  <2> QED BY <2>2, <2>5 DEF Read
<1> QED BY <1>1, <1>2

(* The slots from a plan's start on have the K/V of what is retained.      *)
LEMMA CompactingWrites ==
  ASSUME Standing, TextInv, Compacting, NEW r \in Drafted, NEW plan, plan = step.work[r],
         NEW k \in 1 .. plan.input + Len(Accepted(plan)), NEW g, g = step.generation,
         NEW slot, slot = Place(plan, plan.start + (k - 1)), NEW R, R = Retained(plan)
  PROVE  Read(g, slot)' = Read(g, Place(plan, plan.start + (R[k] - 1)))
<1> DEFINE writes == [o \in Drafted |-> Compacted(step.work[o])]
<1>1. g = step.generation /\ slot = Place(plan, plan.start + (k - 1)) OBVIOUS
<1>2. PICK kv : kv = Read(g, Place(plan, plan.start + (R[k] - 1))) OBVIOUS
<1>3. g \in Generations BY <1>1 DEF Standing, Drafted, Sampled
<1>4. PICK new : new = Stored(cells[g], writes) OBVIOUS
<1>5. cells'[g] = new BY <1>1, <1>3, <1>4 DEF Standing, Compacting
<1>6. ASSUME NEW o \in Drafted, NEW p, p = step.work[o]
      PROVE  /\ o \in Requests /\ Sized(p) /\ Housed(o, p)
             /\ Len(Accepted(p)) \in Nat /\ Len(Accepted(p)) <= p.lookahead
             /\ \A j \in 1 .. p.input + Len(Accepted(p)) : j \in 1 .. p.input + p.lookahead
             /\ writes[o] = Compacted(p)
  BY <1>6, DraftedWithin
<1>7. DOMAIN writes = Drafted OBVIOUS
<1> HIDE DEF writes
<1>8. slot \in DOMAIN writes[r] /\ writes[r][slot] = kv
  <2>1. /\ \A s : s \in DOMAIN Compacted(plan) <=>
              \E j \in 1 .. plan.input + Len(Accepted(plan)) : s = Place(plan, plan.start + (j - 1))
        /\ \A j \in 1 .. plan.input + Len(Accepted(plan)) :
             Compacted(plan)[Place(plan, plan.start + (j - 1))]
                              = Read(step.generation, Place(plan, plan.start + (R[j] - 1)))
    <3>1. PICK acc, M : acc = Accepted(plan) /\ M = plan.input + Len(acc) OBVIOUS
    <3>2. r \in Requests /\ Sized(plan) /\ Housed(r, plan) /\ Len(acc) <= plan.lookahead
      BY <1>6, <3>1
    <3>3. acc = Accept(plan.draft, plan.result).accepted BY <3>1 DEF Accepted
    <3>4. /\ \A s : s \in DOMAIN Compacted(plan) <=>
                \E j \in 1 .. M : s = Place(plan, plan.start + (j - 1))
          /\ \A j \in 1 .. M :
               Compacted(plan)[Place(plan, plan.start + (j - 1))]
                              = Read(step.generation, Place(plan, plan.start + (R[j] - 1)))
      <4>1. Moved(plan, R, M) BY <3>1, <3>2, <3>3, CompactedShape
      <4> QED BY <4>1 DEF Moved
    <3> QED BY <3>1, <3>4
  <2>2. slot \in DOMAIN Compacted(plan) BY <1>1, <2>1
  <2>3. Compacted(plan)[slot] = kv BY <1>1, <1>2, <2>1
  <2> QED BY <1>6, <2>2, <2>3
<1>9. ASSUME NEW o \in Drafted, slot \in DOMAIN writes[o] PROVE o = r
  <2>1. PICK p, acc : p = step.work[o] /\ acc = Accepted(p) OBVIOUS
  <2>2. PICK j \in 1 .. p.input + Len(acc) : slot = Place(p, p.start + (j - 1))
    <3>1. o \in Requests /\ Sized(p) /\ Housed(o, p) /\ Len(acc) <= p.lookahead
      BY <1>6, <2>1
    <3>2. acc = Accept(p.draft, p.result).accepted BY <2>1 DEF Accepted
    <3>3. slot \in DOMAIN Compacted(p) BY <1>6, <1>9, <2>1
    <3>4. PICK Q, M : Q = Retained(p) /\ M = p.input + Len(acc) OBVIOUS
    <3>5. Moved(p, Q, M) BY <3>1, <3>2, <3>4, CompactedShape
    <3> QED BY <3>3, <3>4, <3>5 DEF Moved
  <2>3. PICK a, b : a = plan.start + (k - 1) /\ b = p.start + (j - 1) OBVIOUS
  <2>4. a \in Nat /\ plan.start <= a /\ a < plan.start + (plan.input + plan.lookahead)
    BY <1>6, <2>3, ReservedPosition
  <2>5. b \in Nat /\ p.start <= b /\ b < p.start + (p.input + p.lookahead)
    BY <1>6, <2>1, <2>2, <2>3, ReservedPosition
  <2>6. Place(plan, a) = Place(p, b) BY <1>1, <2>2, <2>3
  <2>7. /\ Sized(p) /\ Housed(o, p) /\ Sized(plan) /\ Housed(r, plan)
        /\ r \in Requests /\ o \in Requests
    BY <1>6, <2>1
  <2> QED BY <2>4, <2>5, <2>6, <2>7, PlansApart
<1>10. slot \in DOMAIN new /\ new[slot] = kv
  <2>1. r \in DOMAIN writes BY <1>7
  <2>2. \A o \in DOMAIN writes : slot \in DOMAIN writes[o] => o = r BY <1>7, <1>9
  <2> QED BY <1>4, <1>8, <2>1, <2>2, StoreWrites
<1> QED BY <1>2, <1>5, <1>10 DEF Read

(* What is computed of a request is not touched by a compaction.           *)
LEMMA CompactingHeld ==
  ASSUME Standing, TextInv, Compacting, backend' = backend, NEW o \in Requests, Alive(o),
         NEW k, k = request[o]
  PROVE  \A p \in 0 .. k.computed - 1 : Read(k.model, Place(k, p))' = Read(k.model, Place(k, p))
<1> TAKE p \in 0 .. k.computed - 1
<1>1. Sound(o) BY DEF TextInv, Recorded
<1>2. k.model \in Generations /\ Worded(k) /\ Placed(o) BY <1>1 DEF Sound
<1>3. p \in Nat /\ p < k.computed BY <1>2 DEF Worded
<1>4. PICK slot, g : slot = Place(k, p) /\ g = k.model OBVIOUS
<1>5. slot = Place(k, p)' BY <1>4 DEF Place, Contiguous
<1>6. ASSUME NEW r \in Drafted, NEW q \in 1 .. step.work[r].input + step.work[r].lookahead
      PROVE  slot # Place(step.work[r], step.work[r].start + (q - 1))
  <2>1. Planned(r) /\ r \in Requests /\ r \in Batch BY DraftedWithin
  <2>2. Alive(r) => r \in Active BY <2>1 DEF Standing, Alive, Active
  <2>3. PICK b : b = step.work[r].start + (q - 1) OBVIOUS
  <2>4. /\ b \in Nat /\ step.work[r].start <= b
        /\ b < step.work[r].start + (step.work[r].input + step.work[r].lookahead)
    BY <2>1, <2>3, ReservedPosition DEF Planned
  <2>5. Place(request[o], p) # Place(step.work[r], b)
    BY <1>2, <1>3, <2>1, <2>2, <2>4, Apart
  <2> QED BY <1>4, <2>3, <2>5
<1>7. Read(g, slot)' = Read(g, slot) BY <1>2, <1>4, <1>6, CompactingKeeps
<1> QED BY <1>4, <1>5, <1>7

(* ... nor is a plan that is not compacted.                                *)
LEMMA CompactingOthers ==
  ASSUME Standing, TextInv, Compacting, NEW r \in Batch, r \notin Drafted,
         NEW plan, plan = step.work[r], NEW k \in 1 .. plan.input, NEW g, g = step.generation,
         NEW slot, slot = Place(plan, plan.start + (k - 1))
  PROVE  Read(g, slot)' = Read(g, slot)
<1>1. r \in Requests /\ Sized(plan) /\ Housed(r, plan)
  BY DEF Standing, TextInv, Scheduled, Planned
<1>2. g \in Generations BY DEF Standing
<1>3. k \in 1 .. plan.input + plan.lookahead
  <2>1. plan.input \in Nat /\ plan.lookahead \in Nat BY <1>1 DEF Sized
  <2> QED BY <2>1
<1>4. ASSUME NEW o \in Drafted, NEW q \in 1 .. step.work[o].input + step.work[o].lookahead
      PROVE  slot # Place(step.work[o], step.work[o].start + (q - 1))
  <2>1. Sized(step.work[o]) /\ Housed(o, step.work[o]) /\ o \in Requests BY DraftedWithin
  <2>2. PICK p, a, b : p = step.work[o] /\ a = plan.start + (k - 1) /\ b = p.start + (q - 1)
    OBVIOUS
  <2>3. a \in Nat /\ plan.start <= a /\ a < plan.start + (plan.input + plan.lookahead)
    BY <1>1, <1>3, <2>2, ReservedPosition
  <2>4. b \in Nat /\ p.start <= b /\ b < p.start + (p.input + p.lookahead)
    BY <2>1, <2>2, ReservedPosition
  <2>5. Place(plan, a) # Place(p, b)
    BY <1>1, <2>1, <2>2, <2>3, <2>4, PlansApart
  <2> QED BY <2>2, <2>5
<1> QED BY <1>2, <1>4, CompactingKeeps

(* A plan whose answers were accepted.                                     *)
LEMMA VerifiedPlan ==
  ASSUME NEW plan, Sized(plan), NEW new, new = Verified(plan)
  PROVE  /\ Sized(new) /\ new.draft = plan.draft
         /\ new.result = Accept(plan.draft, plan.result).output
         /\ new.context = plan.context /\ new.start = plan.start /\ new.input = plan.input
         /\ new.lookahead = plan.lookahead /\ new.output = plan.output
         /\ new.blocks = plan.blocks /\ new.readonly = plan.readonly
         /\ new.cached = Len(Accepted(plan))
<1>1. DOMAIN plan = PlanFields BY DEF Sized
<1>2. PICK out, n : out = Accept(plan.draft, plan.result).output /\ n = Len(Accepted(plan))
  OBVIOUS
<1>3. new = [plan EXCEPT !.result = out, !.cached = n] BY <1>2 DEF Verified, Accepted
<1>4. /\ new.draft = plan.draft /\ new.result = out
      /\ DOMAIN new = PlanFields
      /\ new.context = plan.context /\ new.start = plan.start /\ new.input = plan.input
      /\ new.lookahead = plan.lookahead /\ new.output = plan.output
      /\ new.blocks = plan.blocks /\ new.readonly = plan.readonly
      /\ new.cached = n
  BY <1>1, <1>3 DEF PlanFields
<1>5. Sized(new)
  <2> HIDE DEF PlanFields
  <2> QED BY <1>4 DEF Sized
<1> QED BY <1>2, <1>4, <1>5

(* What is retained has the K/V of the tokens followed by the output.      *)
LEMMA RetainedTexts ==
  ASSUME NEW plan, Sized(plan), Forwarded(plan), plan.output # 0, SoundAcceptance(plan),
         NEW acc, acc = Accepted(plan), NEW out, out = Accept(plan.draft, plan.result).output,
         NEW R, R = Retained(plan), NEW g, g = step.generation
  PROVE  /\ Results(plan, out, Len(acc)) /\ Continues(plan.context, out)
         /\ \A k \in 1 .. plan.input + Len(acc) :
              Read(g, Place(plan, plan.start + (R[k] - 1)))
                = Upto(Cat(plan.context, out), plan.start + k)
<1>1. Answered(plan) /\ acc = Accept(plan.draft, plan.result).accepted
  BY DEF Forwarded, Accepted
<1>2. /\ acc \in Seq(1 .. Size(plan.draft)) /\ out \in Seq(Nat) /\ Len(acc) \in Nat
      /\ Len(out) = Len(acc) + 1 /\ Len(out) <= plan.output
      /\ \A k \in 1 .. Len(acc) :
           Texts(plan)[plan.input + acc[k]] = Cat(plan.context, Upto(out, k))
      /\ Continues(plan.context, out)
  BY <1>1, AcceptedTexts, SMTT(30)
<1>3. /\ \A i \in 1 .. plan.input : R[i] = i
      /\ \A i \in 1 .. Len(acc) : R[plan.input + i] = plan.input + acc[i]
  BY <1>1, RetainedShape
<1>4. Results(plan, out, Len(acc)) BY <1>2 DEF Results
<1>5. plan.input \in Nat /\ Size(plan.draft) \in Nat BY DEF Sized, IsTree, Size
<1>6. ASSUME NEW k \in 1 .. plan.input + Len(acc)
      PROVE  Read(g, Place(plan, plan.start + (R[k] - 1)))
                = Upto(Cat(plan.context, out), plan.start + k)
  <2>1. CASE k <= plan.input
    <3>1. k \in 1 .. plan.input BY <2>1
    <3>2. k \in 1 .. plan.input + Size(plan.draft) BY <1>5, <3>1
    <3>3. Read(g, Place(plan, plan.start + (k - 1))) = Texts(plan)[k] BY <3>2 DEF Forwarded
    <3>4. Texts(plan)[k] = Upto(Cat(plan.context, out), plan.start + k)
      BY <1>2, <3>1, InputStays
    <3>5. R[k] = k BY <1>3, <3>1
    <3> QED BY <3>3, <3>4, <3>5
  <2>2. CASE k > plan.input
    <3>1. PICK j \in 1 .. Len(acc) : k = plan.input + j
      <4>1. k - plan.input \in 1 .. Len(acc) /\ k = plan.input + (k - plan.input)
        BY <1>2, <1>5, <2>2
      <4> QED BY <4>1
    <3>2. R[k] = plan.input + acc[j] BY <1>3, <3>1
    <3>3. acc[j] \in 1 .. Size(plan.draft) BY <1>2, <3>1, ElementOfSeq
    <3>4. plan.input + acc[j] \in 1 .. plan.input + Size(plan.draft) BY <1>5, <3>3
    <3>5. Read(g, Place(plan, plan.start + ((plan.input + acc[j]) - 1)))
            = Texts(plan)[plan.input + acc[j]]
      BY <3>4 DEF Forwarded
    <3>6. Texts(plan)[plan.input + acc[j]] = Cat(plan.context, Upto(out, j)) BY <1>2, <3>1
    <3>7. j \in 0 .. Len(out) BY <1>2, <3>1
    <3>8. Cat(plan.context, Upto(out, j)) = Upto(Cat(plan.context, out), plan.start + (plan.input + j))
      BY <1>2, <3>7, AcceptedStays
    <3> QED BY <3>1, <3>2, <3>5, <3>6, <3>8
  <2> QED BY <1>2, <1>5, <2>1, <2>2
<1> QED BY <1>2, <1>4, <1>6

(* What a plan is after the acceptance, and that its K/V is in its place.  *)
LEMMA AcceptedDone ==
  ASSUME Standing, TextInv, Compacting, backend' = backend, step.at = "forwarded",
         step'.generation = step.generation,
         \A o \in Sampled : SoundAcceptance(step.work[o]),
         NEW r \in Here, NEW plan, plan = step.work[r],
         NEW new, new = IF r \in Sampled THEN Verified(plan) ELSE plan
  PROVE  Done(new)'
<1>1. r \in Batch BY DEF Here
<1>2. Sized(plan) BY <1>1 DEF TextInv, Scheduled, Planned
<1>3. Forwarded(plan) BY DEF TextInv, Stepped
<1>4. PICK g : g = step.generation OBVIOUS
<1>5. plan.output \in Nat /\ plan.input \in Nat \ {0} /\ Size(plan.draft) \in Nat
  <2>1. plan.output \in Nat /\ plan.input \in Nat \ {0} /\ IsTree(plan.draft)
    BY <1>2 DEF Sized
  <2> QED BY <2>1 DEF IsTree, Size
<1>6. CASE r \in Sampled
  <2>1. plan.output # 0 /\ SoundAcceptance(plan) BY <1>6 DEF Sampled
  <2>2. PICK acc, out, R : /\ acc = Accepted(plan) /\ R = Retained(plan)
                           /\ out = Accept(plan.draft, plan.result).output
    OBVIOUS
  <2>3. /\ Results(plan, out, Len(acc)) /\ Continues(plan.context, out)
        /\ \A k \in 1 .. plan.input + Len(acc) :
              Read(g, Place(plan, plan.start + (R[k] - 1)))
                = Upto(Cat(plan.context, out), plan.start + k)
    BY <1>2, <1>3, <1>4, <2>1, <2>2, RetainedTexts
  <2>4. /\ new.result = out /\ new.cached = Len(acc)
        /\ new.context = plan.context /\ new.start = plan.start /\ new.input = plan.input
        /\ new.output = plan.output /\ new.blocks = plan.blocks
    BY <1>2, <1>6, <2>2, VerifiedPlan
  <2>5. ASSUME NEW k \in 1 .. plan.input + Len(acc)
        PROVE  Read(g, Place(plan, plan.start + (k - 1)))' = Upto(Cat(plan.context, out), plan.start + k)
    <3>1. PICK slot : slot = Place(plan, plan.start + (k - 1)) OBVIOUS
    <3>2. slot = Place(plan, plan.start + (k - 1))' BY <3>1 DEF Place, Contiguous
    <3>3. Read(g, slot)' = Read(g, Place(plan, plan.start + (R[k] - 1)))
      <4>1. CASE r \in Drafted BY <1>4, <2>2, <3>1, <4>1, CompactingWrites
      <4>2. CASE r \notin Drafted
        <5>1. Size(plan.draft) = 0 BY <1>5, <1>6, <4>2 DEF Drafted
        <5>2. /\ acc = Accept(plan.draft, plan.result).accepted BY <2>2 DEF Accepted
        <5>3. Len(acc) = 0 /\ \A i \in 1 .. plan.input : R[i] = i
          BY <1>2, <2>2, <5>1, <5>2, RetainedShape
        <5>4. k \in 1 .. plan.input BY <1>5, <5>3
        <5>5. R[k] = k BY <5>3, <5>4
        <5>6. Read(g, slot)' = Read(g, slot) BY <1>1, <1>4, <3>1, <4>2, <5>4, CompactingOthers
        <5> QED BY <3>1, <5>5, <5>6
      <4> QED BY <4>1, <4>2
    <3> QED BY <2>3, <3>2, <3>3
  <2> QED BY <1>2, <1>4, <2>3, <2>4, <2>5, DonePlan
<1>7. CASE r \notin Sampled
  <2>1. plan.output = 0 BY <1>1, <1>5, <1>7 DEF Sampled
  <2>2. new = plan /\ plan.result = <<>> /\ plan.cached = 0
    BY <1>3, <1>7, <2>1 DEF Forwarded, Answered
  <2>3. PICK out : out = plan.result OBVIOUS
  <2>4. out = <<>> /\ out \in Seq(Nat) BY <2>2, <2>3
  <2>5. Results(plan, out, 0) BY <2>1, <2>4 DEF Results
  <2>6. Continues(plan.context, out) BY <2>4 DEF Continues
  <2>7. r \notin Drafted BY <1>7 DEF Drafted
  <2>8. ASSUME NEW k \in 1 .. plan.input + 0
        PROVE  Read(g, Place(plan, plan.start + (k - 1)))' = Upto(Cat(plan.context, out), plan.start + k)
    <3>1. PICK slot : slot = Place(plan, plan.start + (k - 1)) OBVIOUS
    <3>2. slot = Place(plan, plan.start + (k - 1))' BY <3>1 DEF Place, Contiguous
    <3>3. k \in 1 .. plan.input /\ k \in 1 .. plan.input + Size(plan.draft) BY <1>5
    <3>4. Read(g, slot)' = Read(g, slot) BY <1>1, <1>4, <2>7, <3>1, <3>3, CompactingOthers
    <3>5. Read(g, slot) = Texts(plan)[k] BY <1>3, <1>4, <3>1, <3>3 DEF Forwarded
    <3>6. Texts(plan)[k] = Upto(Cat(plan.context, out), plan.start + k)
      BY <1>2, <2>4, <3>3, InputStays
    <3> QED BY <3>2, <3>4, <3>5, <3>6
  <2> QED BY <1>2, <1>4, <2>2, <2>3, <2>5, <2>6, <2>8, DonePlan
<1> QED BY <1>6, <1>7

(* SpeculativeDecodeHandler after the forward: accept, compact, output.    *)
LEMMA AcceptText ==
  ASSUME Standing, Standing', EntriesInv, TextInv, AcceptAndCompact
  PROVE  TextInv'
<1>0. /\ step.at = "forwarded" /\ decoder # "standard"
      /\ UNCHANGED <<backend, decoder, request, claims, installed>>
  BY DEF AcceptAndCompact, assembly, modelVars
<1>1. CASE StepFailed /\ UNCHANGED <<cells, entries>> BY <1>0, <1>1, FailText
<1>2. CASE ~(StepFailed /\ UNCHANGED <<cells, entries>>)
  <2> DEFINE W == [r \in Batch |-> IF r \in Sampled THEN Verified(step.work[r]) ELSE step.work[r]]
  <2>1. /\ \A r \in Sampled : SoundAcceptance(step.work[r])
        /\ cells' = [cells EXCEPT ![step.generation] =
               Stored(@, [r \in Drafted |-> Compacted(step.work[r])])]
        /\ entries' = [entries EXCEPT ![step.generation] =
               SetLength(@, [r \in Drafted |->
                               step.work[r].start + Len(Retained(step.work[r]))])]
        /\ step' = [step EXCEPT !.at = "done", !.work = W]
    BY <1>2, Zenon DEF AcceptAndCompact
  <2>2. Drafted \subseteq Sampled /\ Sampled \subseteq Batch BY DEF Drafted, Sampled
  <2>3. Compacting BY <2>1, <2>2 DEF Compacting
  <2>4. /\ step'.at = "done" /\ step'.work = W /\ step'.generation = step.generation
    <3> HIDE DEF W
    <3> QED BY <2>1 DEF Standing
  <2>5. Batch' = Batch /\ Active' = Active /\ Contiguous' = Contiguous /\ Here' = Here
    BY <1>0, <2>4 DEF Batch, Active, Contiguous, Here
  <2>6. ASSUME NEW r \in Batch
        PROVE  step'.work[r] = IF r \in Sampled THEN Verified(step.work[r]) ELSE step.work[r]
    BY <2>4
  <2> HIDE DEF W
  <2>7. ASSUME NEW r \in Batch, NEW plan, plan = step.work[r], NEW new, new = step'.work[r]
        PROVE  /\ Sized(plan) /\ Housed(r, plan) /\ Sized(new) /\ new.draft = plan.draft
               /\ new.context = plan.context /\ new.start = plan.start /\ new.input = plan.input
               /\ new.lookahead = plan.lookahead /\ new.output = plan.output
               /\ new.blocks = plan.blocks /\ new.readonly = plan.readonly
               /\ new.cached = IF r \in Sampled THEN Len(Accepted(plan)) ELSE plan.cached
    <3>1. Sized(plan) /\ Housed(r, plan) BY <2>7 DEF TextInv, Scheduled, Planned
    <3>2. CASE r \in Sampled
      <4>1. new = Verified(plan) BY <2>6, <2>7, <3>2
      <4> QED BY <3>1, <3>2, <4>1, VerifiedPlan
    <3>3. CASE r \notin Sampled
      <4>1. new = plan BY <2>6, <2>7, <3>3
      <4> QED BY <3>1, <3>3, <4>1
    <3> QED BY <3>2, <3>3
  <2>8. ASSUME NEW r \in Batch PROVE Planned(r)'
    <3>1. Planned(r) BY DEF TextInv, Scheduled
    <3>2. PICK plan, new : plan = step.work[r] /\ new = step'.work[r] OBVIOUS
    <3>3. Sized(new)' BY <1>0, <2>7, <3>2, SMTT(30) DEF Sized
    <3>4. Housed(r, new)'
      <4>1. /\ Housed(r, plan) /\ new.blocks = plan.blocks /\ new.readonly = plan.readonly
            /\ new.start = plan.start /\ new.input = plan.input
            /\ new.lookahead = plan.lookahead
        BY <2>7, <3>2
      <4> QED BY <2>5, <4>1 DEF Housed
    <3>5. r \in Active' => Follows(r, new)' BY <1>0, <2>5, <2>7, <3>1, <3>2 DEF Follows, Planned
    <3> QED BY <2>4, <3>2, <3>3, <3>4, <3>5 DEF Planned
  <2>9. Recorded'
    <3> SUFFICES ASSUME NEW o \in Requests, Alive(o)' PROVE Sound(o)' BY DEF Recorded
    <3>1. Alive(o) /\ request'[o] = request[o] BY <1>0 DEF Alive
    <3>2. Sound(o) BY <3>1 DEF TextInv, Recorded
    <3>3. PICK n : n = request[o] OBVIOUS
    <3>4. \A p \in 0 .. n.computed - 1 : Read(n.model, Place(n, p))' = Read(n.model, Place(n, p))
      BY <1>0, <2>3, <3>1, <3>3, CompactingHeld
    <3>5. ASSUME NEW x \in Requests, x # o, Lent(x) PROVE Lent(x)'
      BY <1>0, <2>5, <2>7, <3>5 DEF Lent, Alive
    <3> QED BY <1>0, <3>1, <3>2, <3>3, <3>4, <3>5, SoundKept
  <2>10. Stepped'
    <3> SUFFICES ASSUME NEW r \in Here PROVE Done(step.work[r])' BY <2>4, <2>5 DEF Stepped
    <3>1. r \in Batch BY DEF Here
    <3>2. PICK plan, new : plan = step.work[r] /\ new = step'.work[r] OBVIOUS
    <3>3. new = IF r \in Sampled THEN Verified(plan) ELSE plan BY <2>6, <3>1, <3>2
    <3>4. Done(new)' BY <1>0, <2>1, <2>3, <2>4, <3>2, <3>3, AcceptedDone
    <3> QED BY <3>2, <3>4
  <2>11. Measured'
    <3> SUFFICES ASSUME Contiguous, NEW r \in Active PROVE Lengths(r)' BY <2>5 DEF Measured
    <3>1. Lengths(r) BY <1>0 DEF TextInv, Measured
    <3>2. /\ installed \in Generations /\ request[r].model = installed
          /\ Whole(entries[installed]) /\ r \in DOMAIN entries[installed] /\ r \in DOMAIN claims
      BY EntryOf
    <3>3. PICK g : g = installed OBVIOUS
    <3> DEFINE lengths == [o \in Drafted |-> step.work[o].start + Len(Retained(step.work[o]))]
    <3>4. \A o \in Drafted : lengths[o] = step.work[o].start + Len(Retained(step.work[o])) OBVIOUS
    <3>5. DOMAIN lengths = Drafted OBVIOUS
    <3>6. entries' = [entries EXCEPT ![step.generation] = SetLength(@, lengths)] BY <2>1
    <3> HIDE DEF lengths
    <3>7. LengthNow(r)' = entries'[g][r].length
      <4>1. CASE r \notin Drafted
        <5>1. entries'[g][r].length = entries[g][r].length
          <6>1. CASE step.generation = g
            <7>1. PICK stored, new : stored = entries[g] /\ new = SetLength(stored, lengths) OBVIOUS
            <7>2. entries'[g] = new BY <3>2, <3>3, <3>6, <6>1, <7>1 DEF Standing
            <7>3. Whole(stored) /\ r \in DOMAIN stored BY <3>2, <3>3, <7>1
            <7>4. new[r].length = stored[r].length BY <3>5, <4>1, <7>1, <7>3, LengthShape
            <7> QED BY <7>1, <7>2, <7>4
          <6>2. CASE step.generation # g BY <3>2, <3>3, <3>6, <6>2 DEF Standing
          <6> QED BY <6>1, <6>2
        <5>2. LengthNow(r)' = LengthNow(r)
          <6>1. CASE r \notin Batch BY <1>0, <2>5, <6>1 DEF LengthNow
          <6>2. CASE r \in Batch
            <7>1. PICK plan, new : plan = step.work[r] /\ new = step'.work[r] OBVIOUS
            <7>2. /\ Sized(plan) /\ new.start = plan.start /\ new.input = plan.input
                  /\ new.cached = IF r \in Sampled THEN Len(Accepted(plan)) ELSE plan.cached
              BY <2>7, <6>2, <7>1
            <7>3. Forwarded(plan) BY <1>0, <6>2, <7>1 DEF TextInv, Stepped, Here
            <7>4. Size(plan.draft) \in Nat BY <7>2 DEF Sized, IsTree, Size
            <7>5. plan.output \in Nat /\ (plan.output = 0 => Size(plan.draft) = 0)
              BY <7>2 DEF Sized
            <7>6. Size(plan.draft) = 0
              BY <4>1, <6>2, <7>1, <7>4, <7>5 DEF Drafted, Sampled
            <7>7. Len(Accepted(plan)) = 0 BY <7>2, <7>6, RetainedShape DEF Accepted
            <7>8. plan.cached = 0 BY <7>3 DEF Forwarded
            <7>9. new.cached = 0 BY <7>2, <7>7, <7>8
            <7>10. LengthNow(r) = plan.start + (plan.input + Size(plan.draft))
              BY <1>0, <6>2, <7>1 DEF LengthNow
            <7>11. LengthNow(r)' = new.start + (new.input + new.cached)
              BY <2>4, <2>5, <6>2, <7>1 DEF LengthNow
            <7> QED BY <7>2, <7>6, <7>9, <7>10, <7>11
          <6> QED BY <6>1, <6>2
        <5> QED BY <3>1, <3>2, <3>3, <5>1, <5>2 DEF Lengths
      <4>2. CASE r \in Drafted
        <5>1. r \in Batch /\ r \in Sampled BY <2>2, <4>2
        <5>2. step.generation = g BY <3>3, <5>1 DEF Standing
        <5>3. PICK stored, rest : stored = entries[g] /\ rest = SetLength(stored, lengths) OBVIOUS
        <5>4. entries'[g] = rest BY <3>2, <3>3, <3>6, <5>2, <5>3 DEF Standing
        <5>5. Whole(stored) /\ r \in DOMAIN stored BY <3>2, <3>3, <5>3
        <5>6. rest[r].length = lengths[r] BY <3>5, <4>2, <5>3, <5>5, LengthShape
        <5>7. PICK plan, new, acc, R : /\ plan = step.work[r] /\ new = step'.work[r]
                                       /\ acc = Accepted(plan) /\ R = Retained(plan)
          OBVIOUS
        <5>8. /\ Sized(plan) /\ new.start = plan.start /\ new.input = plan.input
              /\ new.cached = Len(acc)
          BY <2>7, <5>1, <5>7
        <5>9. Len(R) = plan.input + Len(acc) BY <5>7, <5>8, RetainedShape DEF Accepted
        <5>10. LengthNow(r)' = new.start + (new.input + new.cached)
          BY <2>4, <2>5, <5>1, <5>7 DEF LengthNow
        <5>11. lengths[r] = plan.start + Len(R) BY <3>4, <4>2, <5>7
        <5> QED BY <5>4, <5>6, <5>8, <5>9, <5>10, <5>11
      <4> QED BY <4>1, <4>2
    <3> QED BY <1>0, <2>5, <3>1, <3>2, <3>3, <3>7 DEF Lengths
  <2>12. Phased' BY <1>0, <2>4 DEF TextInv, Phased, Phases
  <2> QED BY <2>5, <2>8, <2>9, <2>10, <2>11, <2>12 DEF TextInv, Scheduled
<1> QED BY <1>1, <1>2

(* What _visible_tokens leaves of an output: a beginning of it, with an    *)
(* end of sequence only at its end, and no token more than allowed.        *)
Shown(k, result, v, j) ==
  /\ j \in 0 .. Len(result) /\ v = Upto(result, j) /\ v \in Seq(Nat) /\ Len(v) = j
  /\ result # <<>> => j >= 1
  /\ Len(k.tokens) + j <= k.prompt + MaxNew
  /\ \A i \in 1 .. j - 1 : result[i] # k.eos
  /\ j < Len(result) => result[j] = k.eos \/ Len(k.tokens) + j = k.prompt + MaxNew

(* An output of a request that goes on is shown as far as it may be.       *)
LEMMA VisibleShape ==
  ASSUME NEW r \in Requests, NEW k, k = request[r], Worded(k), k.status = "active",
         NEW result \in Seq(Nat), NEW v, v = VisibleTokens(r, result)
  PROVE  \E j \in Nat : Shown(k, result, v, j)
<1> DEFINE room == k.prompt + MaxNew - Len(k.tokens)
           cuts == { i \in DOMAIN result : result[i] = k.eos \/ i = room }
<1>1. /\ Len(k.tokens) \in Nat /\ k.prompt \in Nat /\ Len(k.tokens) <= k.prompt + MaxNew
      /\ ~Ended(k, k.tokens)
  BY DEF Worded
<1>2. MaxNew \in Nat BY ModelWorkerAssumption
<1>3. Len(k.tokens) # k.prompt + MaxNew BY <1>1 DEF Ended
<1>4. room \in Nat \ {0} /\ Len(k.tokens) + room = k.prompt + MaxNew
  <2>1. PICK t, p, x \in Nat : t = Len(k.tokens) /\ p = k.prompt /\ x = MaxNew BY <1>1, <1>2
  <2>2. room = p + x - t BY <2>1
  <2>3. t <= p + x /\ t # p + x BY <1>1, <1>3, <2>1
  <2> HIDE DEF room
  <2>4. room \in Nat \ {0} /\ t + room = p + x BY <2>2, <2>3
  <2> QED BY <2>1, <2>4
<1>5. v = IF cuts = {} THEN result ELSE SubSeq(result, 1, Min(cuts))
  BY DEF VisibleTokens
<1>6. Len(result) \in Nat /\ DOMAIN result = 1 .. Len(result) OBVIOUS
<1>7. \A i : i \in cuts <=> i \in 1 .. Len(result) /\ (result[i] = k.eos \/ i = room)
  BY <1>6
<1>8. cuts \in SUBSET Nat BY <1>6
<1> HIDE DEF room, cuts
<1>9. CASE cuts = {}
  <2>1. v = result BY <1>5, <1>9
  <2>2. Upto(result, Len(result)) = result BY UptoEnds
  <2>3. \A i \in 1 .. Len(result) : result[i] # k.eos /\ i # room BY <1>7, <1>9
  <2>4. Len(result) < room
    <3>1. room \notin 1 .. Len(result) BY <2>3
    <3> QED BY <1>4, <1>6, <3>1
  <2>5. Len(k.tokens) + Len(result) <= k.prompt + MaxNew BY <1>1, <1>4, <1>6, <2>4
  <2>6. result # <<>> => Len(result) >= 1 BY <1>6
  <2>7. Shown(k, result, v, Len(result))
    <3>1. \A i \in 1 .. Len(result) - 1 : i \in 1 .. Len(result) BY <1>6
    <3> QED BY <1>6, <2>1, <2>2, <2>3, <2>5, <2>6, <3>1 DEF Shown
  <2> QED BY <1>6, <2>7
<1>10. CASE cuts # {}
  <2>1. PICK j : j = Min(cuts) OBVIOUS
  <2>2. j \in cuts /\ \A i \in cuts : j <= i BY <1>8, <1>10, <2>1, MinOf
  <2>3. j \in 1 .. Len(result) /\ (result[j] = k.eos \/ j = room) BY <1>7, <2>2
  <2>4. v = Upto(result, j) BY <1>5, <1>10, <2>1 DEF Upto
  <2>5. v \in Seq(Nat) /\ Len(v) = j
    <3>1. j \in 0 .. Len(result) BY <1>6, <2>3
    <3> QED BY <2>4, <3>1, UptoShape
  <2>6. j <= room
    <3>1. CASE room \in cuts BY <2>2, <3>1
    <3>2. CASE room \notin cuts
      <4>1. room \notin 1 .. Len(result) BY <1>7, <3>2
      <4> QED BY <1>4, <1>6, <2>3, <4>1
    <3> QED BY <3>1, <3>2
  <2>7. Len(k.tokens) + j <= k.prompt + MaxNew BY <1>1, <1>4, <1>6, <2>3, <2>6
  <2>8. ASSUME NEW i \in 1 .. j - 1 PROVE result[i] # k.eos
    <3>1. i \in 1 .. Len(result) /\ ~(j <= i) BY <1>6, <2>3
    <3>2. i \notin cuts BY <2>2, <3>1
    <3> QED BY <1>7, <3>1, <3>2
  <2>9. result[j] = k.eos \/ Len(k.tokens) + j = k.prompt + MaxNew BY <1>4, <2>3
  <2>10. j \in Nat /\ j \in 0 .. Len(result) /\ j >= 1 BY <1>6, <2>3
  <2>11. Shown(k, result, v, j) BY <2>4, <2>5, <2>7, <2>8, <2>9, <2>10 DEF Shown
  <2> QED BY <2>10, <2>11
<1> QED BY <1>9, <1>10

(* A request of the batch as a step has done it.                           *)
Stepping(r, k, plan, v, j) ==
  /\ r \in Requests /\ r \in Batch /\ r \in Active
  /\ k = request[r] /\ plan = step.work[r] /\ v = Visible(r)
  /\ k.status = "active" /\ k.model = step.generation /\ step.generation \in Generations
  /\ Sized(plan) /\ Housed(r, plan) /\ Follows(r, plan) /\ Done(plan) /\ Sound(r)
  /\ Shown(k, plan.result, v, j) /\ j \in Nat

(* Every request that goes on is such a one.                               *)
LEMMA SteppingOf ==
  ASSUME Standing, TextInv, step.at = "done", NEW r \in Here,
         NEW k, k = request[r], NEW plan, plan = step.work[r], NEW v, v = Visible(r)
  PROVE  \E j \in Nat : Stepping(r, k, plan, v, j)
<1>1. /\ r \in Requests /\ Alive(r) /\ Sound(r)
      /\ step.generation = request[r].model /\ step.generation \in Generations
      /\ Sized(plan) /\ Housed(r, plan) /\ Follows(r, plan)
  BY PlanStocked
<1>2. Done(plan) BY DEF TextInv, Stepped
<1>3. r \in Batch /\ r \in Active /\ k.status = "active" BY DEF Here, Active
<1>4. v = VisibleTokens(r, plan.result) BY DEF Visible
<1>5. plan.result \in Seq(Nat) /\ Worded(k) BY <1>1, <1>2 DEF Done, Sound
<1>6. PICK j \in Nat : Shown(k, plan.result, v, j) BY <1>1, <1>3, <1>4, <1>5, VisibleShape
<1> QED BY <1>1, <1>2, <1>3, <1>6 DEF Stepping

(* The tokens after a step.                                                *)
Grew(r, k, plan, v, j, t) ==
         /\ k.tokens \in Seq(Nat) /\ Len(k.tokens) \in Nat /\ v \in Seq(Nat) /\ Len(v) = j
         /\ j \in Nat /\ t = Cat(k.tokens, v) /\ t \in Seq(Nat) /\ Len(t) = Len(k.tokens) + j
         /\ \A i \in 1 .. Len(k.tokens) : t[i] = k.tokens[i]
         /\ \A i \in 1 .. j : t[Len(k.tokens) + i] = v[i] /\ v[i] = plan.result[i]
         /\ plan.result \in Seq(Nat) /\ plan.context = k.tokens
         /\ r \in Over <=> Ended(k, t)

(* A step adds what is shown of its output.                                *)
LEMMA SteppedTokens ==
  ASSUME NEW r, NEW k, NEW plan, NEW v, NEW j, Stepping(r, k, plan, v, j),
         NEW t, t = NewTokens(r)
  PROVE  Grew(r, k, plan, v, j, t)
<1>1. /\ k.tokens \in Seq(Nat) /\ plan.context = k.tokens /\ r \in Here
      /\ v = Visible(r) /\ k = request[r]
  BY DEF Stepping, Sound, Worded, Follows, Here
<1>2. v \in Seq(Nat) /\ Len(v) = j /\ j \in Nat /\ v = Upto(plan.result, j)
      /\ j \in 0 .. Len(plan.result)
  BY DEF Stepping, Shown
<1>3. plan.result \in Seq(Nat) BY DEF Stepping, Done
<1>4. t = Cat(k.tokens, v) BY <1>1 DEF NewTokens, Cat
<1>5. PICK s : s = k.tokens OBVIOUS
<1>6. s \in Seq(Nat) /\ Len(s) \in Nat /\ t = Cat(s, v) BY <1>1, <1>4, <1>5
<1>7. t \in Seq(Nat) BY <1>2, <1>6, CatType
<1>8. /\ Len(t) = Len(s) + Len(v) /\ \A i \in 1 .. Len(s) : t[i] = s[i]
      /\ \A i \in 1 .. Len(v) : t[Len(s) + i] = v[i]
  <2>1. s \in Seq(Nat) /\ v \in Seq(Nat) BY <1>2, <1>6
  <2>2. /\ Len(Cat(s, v)) = Len(s) + Len(v) /\ \A i \in 1 .. Len(s) : Cat(s, v)[i] = s[i]
        /\ \A i \in 1 .. Len(v) : Cat(s, v)[Len(s) + i] = v[i]
    BY <2>1, CatShape
  <2> QED BY <1>6, <2>2
<1>9. \A i \in 1 .. j : v[i] = plan.result[i] BY <1>2, <1>3, UptoShape
<1>10. r \in Over <=> Ended(k, t)
  BY <1>1 DEF Over, Ends, Ended, Last
<1> QED BY <1>1, <1>2, <1>3, <1>4, <1>5, <1>6, <1>7, <1>8, <1>9, <1>10 DEF Grew

(* How much of them is computed after it.                                  *)
LEMMA SteppedNumbers ==
  ASSUME NEW r, NEW k, NEW plan, NEW v, NEW j, Stepping(r, k, plan, v, j),
         NEW c, c = Count(r)
  PROVE  /\ c \in Nat /\ k.computed \in Nat /\ k.computed + c <= Len(k.tokens) + j
         /\ plan.start = k.computed /\ plan.input \in Nat /\ plan.cached \in Nat
         /\ plan.input <= c /\ c <= plan.input + plan.cached
         /\ plan.cached <= plan.lookahead /\ plan.lookahead \in Nat
         /\ plan.output # 0 => c <= plan.input + j /\ plan.start + plan.input = Len(k.tokens)
         /\ plan.output = 0 => plan.result = <<>> /\ j = 0
         /\ r \notin Over => /\ c = plan.input + plan.cached
                             /\ k.computed + c < Len(k.tokens) + j
<1>1. PICK t : t = NewTokens(r) OBVIOUS
<1>2. /\ Len(k.tokens) \in Nat /\ Len(v) = j /\ j \in Nat /\ Len(t) = Len(k.tokens) + j
      /\ \A i \in 1 .. j : t[Len(k.tokens) + i] = plan.result[i]
      /\ plan.context = k.tokens /\ plan.result \in Seq(Nat) /\ (r \in Over <=> Ended(k, t))
  <2>1. Grew(r, k, plan, v, j, t) BY <1>1, SteppedTokens
  <2>2. PICK L : L = Len(k.tokens) OBVIOUS
  <2>3. /\ L \in Nat /\ Len(v) = j /\ j \in Nat /\ Len(t) = L + j
        /\ plan.context = k.tokens /\ plan.result \in Seq(Nat) /\ (r \in Over <=> Ended(k, t))
    BY <2>1, <2>2 DEF Grew
  <2>4. ASSUME NEW i \in 1 .. j PROVE t[L + i] = plan.result[i]
    BY <2>1, <2>2 DEF Grew
  <2> QED BY <2>2, <2>3, <2>4
<1>3. /\ plan.start = k.computed /\ plan = step.work[r] /\ v = Visible(r)
      /\ Sized(plan) /\ Done(plan) /\ Shown(k, plan.result, v, j) /\ Worded(k)
  BY DEF Stepping, Follows, Sound
<1>4. /\ plan.start \in Nat /\ plan.input \in Nat \ {0} /\ plan.lookahead \in Nat /\ plan.output \in Nat
      /\ plan.output <= plan.lookahead + 1
      /\ plan.output = 0 => plan.start + plan.input < Len(k.tokens)
      /\ plan.output # 0 => plan.start + plan.input = Len(k.tokens)
  BY <1>2, <1>3 DEF Sized
<1>5. /\ plan.cached \in Nat /\ Len(plan.result) <= plan.output
      /\ plan.output = 0 => plan.cached = 0 /\ plan.result = <<>>
      /\ plan.output # 0 => Len(plan.result) = plan.cached + 1
  BY <1>3 DEF Done
<1>6. c = plan.input + Least(plan.cached, j) BY <1>2, <1>3 DEF Count
<1>7. /\ j \in 0 .. Len(plan.result) /\ (plan.result # <<>> => j >= 1)
      /\ j < Len(plan.result) =>
           plan.result[j] = k.eos \/ Len(k.tokens) + j = k.prompt + MaxNew
  BY <1>3 DEF Shown
<1>8. Least(plan.cached, j) \in Nat /\ Least(plan.cached, j) <= plan.cached
      /\ Least(plan.cached, j) <= j
  BY <1>2, <1>5 DEF Least
<1>9. plan.output = 0 => j = 0
  <2> SUFFICES ASSUME plan.output = 0 PROVE j = 0 OBVIOUS
  <2>1. Len(plan.result) = 0 BY <1>5
  <2> QED BY <1>7, <2>1
<1>10. plan.cached <= plan.lookahead
  <2>1. CASE plan.output = 0 BY <1>4, <1>5, <2>1
  <2>2. CASE plan.output # 0 BY <1>4, <1>5, <2>2
  <2> QED BY <2>1, <2>2
<1>11. k.computed + c <= Len(k.tokens) + j
  <2>1. CASE plan.output = 0
    <3>1. c = plan.input /\ j = 0
      <4>1. plan.cached = 0 /\ j = 0 BY <1>5, <1>9, <2>1
      <4>2. Least(plan.cached, j) = 0 BY <4>1 DEF Least
      <4> QED BY <1>4, <1>6, <4>1, <4>2
    <3> QED BY <1>2, <1>3, <1>4, <2>1, <3>1
  <2>2. CASE plan.output # 0
    <3>1. plan.start + plan.input = Len(k.tokens) BY <1>4, <2>2
    <3>2. PICK a, b, x, L \in Nat : /\ a = plan.start /\ b = plan.input /\ L = Len(k.tokens)
                                    /\ x = Least(plan.cached, j)
      BY <1>2, <1>4, <1>8
    <3>3. a + b = L /\ x <= j /\ j \in Nat BY <1>2, <1>8, <3>1, <3>2
    <3>4. a + (b + x) <= L + j BY <3>3
    <3>5. k.computed = a /\ c = b + x BY <1>3, <1>6, <3>2
    <3> QED BY <3>2, <3>4, <3>5
  <2> QED BY <2>1, <2>2
<1>12. ASSUME r \notin Over
       PROVE  c = plan.input + plan.cached /\ k.computed + c < Len(k.tokens) + j
  <2>1. ~Ended(k, t) BY <1>2, <1>12
  <2>2. CASE plan.output = 0
    <3>1. plan.cached = 0 /\ j = 0 BY <1>5, <1>9, <2>2
    <3>2. Least(plan.cached, j) = 0 BY <3>1 DEF Least
    <3> QED BY <1>2, <1>3, <1>4, <1>6, <2>2, <3>1, <3>2
  <2>3. CASE plan.output # 0
    <3>1. plan.start + plan.input = Len(k.tokens) /\ Len(plan.result) = plan.cached + 1
      BY <1>4, <1>5, <2>3
    <3>2. plan.result # <<>>
      <4> SUFFICES ASSUME plan.result = <<>> PROVE FALSE OBVIOUS
      <4>1. Len(plan.result) = 0 OBVIOUS
      <4> QED BY <1>5, <3>1, <4>1
    <3>3. j = Len(plan.result)
      <4> SUFFICES ASSUME j # Len(plan.result) PROVE FALSE OBVIOUS
      <4>1. j < Len(plan.result) /\ j >= 1 BY <1>2, <1>7, <3>2
      <4>2. Len(t) # k.prompt + MaxNew /\ (Len(t) > k.prompt => t[Len(t)] # k.eos)
        BY <2>1 DEF Ended
      <4>3. plan.result[j] = k.eos BY <1>2, <1>7, <4>1, <4>2
      <4>4. t[Len(t)] = plan.result[j]
        <5>1. j \in 1 .. j BY <1>2, <4>1
        <5> QED BY <1>2, <5>1
      <4>5. Len(t) > k.prompt
        <5>1. k.prompt \in Nat /\ k.prompt <= Len(k.tokens) BY <1>3 DEF Worded
        <5> QED BY <1>2, <4>1, <5>1
      <4> QED BY <4>2, <4>3, <4>4, <4>5
    <3>4. Least(plan.cached, j) = plan.cached BY <1>5, <3>1, <3>3 DEF Least
    <3>5. PICK a, b, x, L \in Nat : /\ a = plan.start /\ b = plan.input /\ L = Len(k.tokens)
                                    /\ x = plan.cached
      BY <1>2, <1>4, <1>5
    <3>6. a + b = L /\ j = x + 1 BY <3>1, <3>3, <3>5
    <3>7. a + (b + x) < L + j BY <3>6
    <3>8. k.computed = a /\ c = b + x BY <1>3, <1>6, <3>4, <3>5
    <3> QED BY <3>5, <3>7, <3>8
  <2> QED BY <2>2, <2>3
<1>13. /\ c \in Nat /\ plan.input <= c /\ c <= plan.input + plan.cached
       /\ plan.output # 0 => c <= plan.input + j
  BY <1>2, <1>4, <1>5, <1>6, <1>8
<1> QED BY <1>3, <1>4, <1>5, <1>9, <1>10, <1>11, <1>12, <1>13

(* Its tokens are still the model's.                                       *)
LEMMA SteppedGenuine ==
  ASSUME NEW r, NEW k, NEW plan, NEW v, NEW j, Stepping(r, k, plan, v, j),
         NEW t, t = NewTokens(r), NEW n, n.tokens = t, n.prompt = k.prompt, n.eos = k.eos,
         n.model = k.model
  PROVE  Genuine(n)
<1> DEFINE L == Len(k.tokens)
<1>1. /\ k.tokens \in Seq(Nat) /\ L \in Nat /\ v \in Seq(Nat) /\ Len(v) = j
      /\ j \in Nat /\ t = Cat(k.tokens, v) /\ t \in Seq(Nat) /\ Len(t) = L + j
      /\ \A i \in 1 .. L : t[i] = k.tokens[i]
      /\ \A i \in 1 .. j : t[L + i] = v[i] /\ v[i] = plan.result[i]
      /\ plan.result \in Seq(Nat) /\ plan.context = k.tokens
  BY SteppedTokens, SMTT(30) DEF Grew
<1>2. /\ Worded(k) /\ k.status = "active" /\ Done(plan) /\ Shown(k, plan.result, v, j)
      /\ k.model = step.generation
  BY DEF Stepping, Sound
<1>3. k.prompt \in Nat \ {0} /\ k.prompt <= L /\ ~Ended(k, k.tokens) /\ Genuine(k)
  BY <1>2 DEF Worded
<1>4. PICK s : s = k.tokens OBVIOUS
<1>5. s \in Seq(Nat) /\ Len(s) = L /\ t = Cat(s, v) BY <1>1, <1>4
<1>6. /\ \A m \in 0 .. L : Upto(t, m) = Upto(s, m)
      /\ \A i \in 0 .. j : Upto(t, L + i) = Cat(s, Upto(v, i))
  <2>1. /\ \A m \in 0 .. Len(s) : Upto(Cat(s, v), m) = Upto(s, m)
        /\ \A i \in 0 .. Len(v) : Upto(Cat(s, v), Len(s) + i) = Cat(s, Upto(v, i))
    <3>1. s \in Seq(Nat) /\ v \in Seq(Nat) BY <1>1, <1>5
    <3> QED BY <3>1, UptoCat
  <2> QED BY <1>1, <1>5, <2>1
<1>7. v = Upto(plan.result, j) /\ j \in 0 .. Len(plan.result)
      /\ \A i \in 1 .. j - 1 : plan.result[i] # k.eos
  BY <1>2 DEF Shown
<1>8. \A i \in 0 .. j : Upto(v, i) = Upto(plan.result, i) BY <1>1, <1>7, UptoUpto
<1>9. \A i \in 1 .. Len(plan.result) :
        plan.result[i] = Weights(k.model, Cat(s, Upto(plan.result, i - 1)))
  BY <1>1, <1>2, <1>4 DEF Done, Continues
<1> HIDE DEF L
<1> SUFFICES ASSUME NEW i \in k.prompt + 1 .. L + j
             PROVE  /\ t[i] = Weights(k.model, Upto(t, i - 1))
                    /\ i < L + j => t[i] # k.eos
  BY <1>1 DEF Genuine
<1>10. CASE i <= L
  <2>1. i \in k.prompt + 1 .. L /\ i \in 1 .. L /\ i - 1 \in 0 .. L BY <1>1, <1>3, <1>10
  <2>2. t[i] = s[i] /\ Upto(t, i - 1) = Upto(s, i - 1) BY <1>1, <1>4, <1>6, <2>1
  <2>3. s[i] = Weights(k.model, Upto(s, i - 1)) /\ (i < L => s[i] # k.eos)
    BY <1>3, <1>4, <1>5, <2>1 DEF Genuine
  <2>4. i = L => s[i] # k.eos
    <3> SUFFICES ASSUME i = L PROVE s[L] # k.eos OBVIOUS
    <3>1. L > k.prompt BY <1>1, <1>3, <2>1
    <3> QED BY <1>3, <1>4, <1>5, <3>1 DEF Ended
  <2>5. i < L \/ i = L BY <1>1, <2>1
  <2> QED BY <2>2, <2>3, <2>4, <2>5
<1>11. CASE i > L
  <2>1. PICK m \in 1 .. j : i = L + m
    <3>1. i - L \in 1 .. j /\ i = L + (i - L) BY <1>1, <1>3, <1>11
    <3> QED BY <3>1
  <2>2. t[i] = plan.result[m] BY <1>1, <2>1
  <2>3. m \in 1 .. Len(plan.result) /\ m - 1 \in 0 .. j /\ i - 1 = L + (m - 1)
    BY <1>1, <1>7, <2>1
  <2>4. Upto(t, i - 1) = Cat(s, Upto(plan.result, m - 1)) BY <1>6, <1>8, <2>3
  <2>5. plan.result[m] = Weights(k.model, Cat(s, Upto(plan.result, m - 1))) BY <1>9, <2>3
  <2>6. i < L + j => plan.result[m] # k.eos
    <3>1. i < L + j => m \in 1 .. j - 1 BY <1>1, <2>1
    <3> QED BY <1>7, <3>1
  <2> QED BY <2>2, <2>4, <2>5, <2>6
<1> QED BY <1>1, <1>3, <1>10, <1>11

(* The pages of a plan are on its request's table.                         *)
LEMMA PlanOnTable ==
  ASSUME NEW r, NEW plan, Housed(r, plan), Follows(r, plan), Placed(r)
  PROVE  ToSet(plan.blocks) \subseteq ToSet(request[r].blocks)
<1>1. CASE Contiguous
  <2>1. plan.blocks = <<r>> /\ request[r].blocks = <<r>> BY <1>1 DEF Housed, Placed
  <2> QED BY <2>1
<1>2. CASE ~Contiguous
  <2>1. /\ plan.blocks \in Seq(Nat) /\ request[r].blocks \in Seq(Nat)
        /\ Len(plan.blocks) <= Len(request[r].blocks)
        /\ \A i \in 1 .. Len(plan.blocks) : plan.blocks[i] = request[r].blocks[i]
    BY <1>2 DEF Housed, Placed, Follows
  <2>2. PICK a, b : a = plan.blocks /\ b = request[r].blocks OBVIOUS
  <2>5. /\ a \in Seq(Nat) /\ b \in Seq(Nat) /\ Len(a) <= Len(b)
        /\ \A i \in 1 .. Len(a) : a[i] = b[i]
    BY <2>1, <2>2
  <2>6. DOMAIN a = 1 .. Len(a) /\ DOMAIN b = 1 .. Len(b) /\ Len(a) \in Nat /\ Len(b) \in Nat
    BY <2>5
  <2>7. \A i \in 1 .. Len(a) : i \in 1 .. Len(b) BY <2>5, <2>6
  <2>3. \A i \in DOMAIN a : i \in DOMAIN b /\ a[i] = b[i] BY <2>5, <2>6, <2>7
  <2>4. ToSet(a) \subseteq ToSet(b) BY <2>3 DEF ToSet
  <2> QED BY <2>2, <2>4
<1> QED BY <1>1, <1>2

(* The text of what a step has put in the cache is that of the tokens      *)
(* after it, as far as they are shown.                                     *)
LEMMA ShownText ==
  ASSUME NEW s \in Seq(Nat), NEW result \in Seq(Nat), NEW j \in 0 .. Len(result),
         NEW v \in Seq(Nat), Len(v) = j, \A i \in 1 .. j : v[i] = result[i],
         NEW m \in Nat, m <= Len(s) + j
  PROVE  Upto(Cat(s, result), m) = Upto(Cat(s, v), m)
<1> DEFINE a == Cat(s, result)
           b == Cat(s, v)
<1>1. a \in Seq(Nat) /\ b \in Seq(Nat) BY CatType
<1>2. Len(s) \in Nat /\ Len(result) \in Nat /\ j \in Nat /\ j <= Len(result) OBVIOUS
<1>3. /\ Len(a) = Len(s) + Len(result)
      /\ \A i \in 1 .. Len(s) : a[i] = s[i]
      /\ \A i \in 1 .. Len(result) : a[Len(s) + i] = result[i]
  BY CatShape
<1>4. /\ Len(b) = Len(s) + j
      /\ \A i \in 1 .. Len(s) : b[i] = s[i]
      /\ \A i \in 1 .. j : b[Len(s) + i] = v[i]
  <2>1. v \in Seq(Nat) /\ s \in Seq(Nat) OBVIOUS
  <2>2. /\ Len(Cat(s, v)) = Len(s) + Len(v) /\ \A i \in 1 .. Len(s) : Cat(s, v)[i] = s[i]
        /\ \A i \in 1 .. Len(v) : Cat(s, v)[Len(s) + i] = v[i]
    BY ONLY <2>1, CatShape
  <2> QED BY <2>2
<1> HIDE DEF a, b
<1>5. ASSUME NEW i \in 1 .. m PROVE a[i] = b[i]
  <2>1. CASE i <= Len(s)
    <3>1. i \in 1 .. Len(s) BY <1>2, <2>1
    <3> QED BY <1>3, <1>4, <3>1
  <2>2. CASE ~(i <= Len(s))
    <3>1. PICK x \in 1 .. j : i = Len(s) + x
      <4>1. i - Len(s) \in 1 .. j /\ i = Len(s) + (i - Len(s)) BY <1>2, <2>2
      <4> QED BY <4>1
    <3>2. x \in 1 .. Len(result) BY <1>2, <3>1
    <3> QED BY <1>3, <1>4, <3>1, <3>2
  <2> QED BY <2>1, <2>2
<1>6. m <= Len(a) /\ m <= Len(b) BY <1>2, <1>3, <1>4
<1>7. Upto(a, m) = Upto(b, m) BY <1>1, <1>5, <1>6, UptoEqual
<1> QED BY <1>7 DEF a, b

(* What is computed after a step is in the cache.                          *)
LEMMA SteppedHeld ==
  ASSUME NEW r, NEW k, NEW plan, NEW v, NEW j, Stepping(r, k, plan, v, j), backend' = backend,
         NEW nr, NEW ns, Keep(nr, ns), nr[r].blocks = k.blocks,
         NEW n, n.blocks = k.blocks, n.model = k.model, n.tokens = NewTokens(r),
         n.computed = k.computed + Count(r)
  PROVE  \A p \in 0 .. n.computed - 1 : Read(n.model, Place(n, p))' = Upto(n.tokens, p + 1)
<1>1. PICK t, c : t = NewTokens(r) /\ c = Count(r) OBVIOUS
<1>2. Grew(r, k, plan, v, j, t) BY <1>1, SteppedTokens
<1>3. /\ c \in Nat /\ k.computed \in Nat /\ k.computed + c <= Len(k.tokens) + j
      /\ plan.start = k.computed /\ plan.input \in Nat /\ plan.cached \in Nat
      /\ c <= plan.input + plan.cached
      /\ plan.cached <= plan.lookahead /\ plan.lookahead \in Nat
  BY <1>1, SteppedNumbers
<1>4. /\ r \in Requests /\ k = request[r] /\ k.status = "active" /\ k.model \in Generations
      /\ k.model = step.generation
      /\ Sized(plan) /\ Housed(r, plan) /\ Follows(r, plan) /\ Done(plan) /\ Sound(r)
      /\ Shown(k, plan.result, v, j)
  BY DEF Stepping
<1>5. Alive(r) /\ Worded(k) /\ Placed(r) /\ Held(r) BY <1>4 DEF Alive, Sound
<1> SUFFICES ASSUME NEW p \in 0 .. (k.computed + c) - 1
             PROVE  Read(k.model, Place(k, p))' = Upto(t, p + 1)
  <2>1. \A p : Place(n, p)' = Place(k, p)' BY DEF Place
  <2> QED BY <1>1, <2>1
<1>6. k.tokens \in Seq(Nat) /\ Len(k.tokens) \in Nat BY <1>2 DEF Grew
<1>7. CASE p < k.computed
  <2>1. p \in 0 .. k.computed - 1 BY <1>3, <1>7
  <2>2. Read(k.model, Place(k, p))' = Read(k.model, Place(k, p))
    BY <1>4, <1>5, <2>1, HeldKeep
  <2>3. Read(k.model, Place(k, p)) = Upto(k.tokens, p + 1) BY <1>4, <1>5, <2>1 DEF Held
  <2>4. Upto(t, p + 1) = Upto(k.tokens, p + 1)
    <3>1. p + 1 \in 0 .. Len(k.tokens)
      <4>1. k.computed <= Len(k.tokens) BY <1>5 DEF Worded
      <4>2. \A x, y \in Nat : x <= y /\ p \in 0 .. x - 1 => p + 1 \in 0 .. y OBVIOUS
      <4> QED BY <1>3, <1>6, <2>1, <4>1, <4>2
    <3>2. PICK s : s = k.tokens OBVIOUS
    <3>3. s \in Seq(Nat) /\ v \in Seq(Nat) /\ t = Cat(s, v) BY <1>2, <3>2 DEF Grew
    <3>4. Upto(Cat(s, v), p + 1) = Upto(s, p + 1) BY <3>1, <3>2, <3>3, UptoCat
    <3> QED BY <3>2, <3>3, <3>4
  <2> QED BY <2>2, <2>3, <2>4
<1>8. CASE ~(p < k.computed)
  <2>1. /\ p \in Nat /\ plan.start <= p /\ p < plan.start + (plan.input + plan.lookahead)
        /\ p \in plan.start .. plan.start + (plan.input + plan.cached) - 1
        /\ p + 1 <= Len(k.tokens) + j /\ p + 1 \in Nat
    <3>1. PICK a, b, x, l, y, L \in Nat :
            /\ a = plan.start /\ b = plan.input /\ x = plan.cached /\ l = plan.lookahead
            /\ y = j /\ L = Len(k.tokens)
      <4>1. j \in Nat BY <1>2 DEF Grew
      <4> QED BY <1>3, <1>6, <4>1
    <3>2. p \in 0 .. (a + c) - 1 /\ ~(p < a) /\ c <= b + x /\ x <= l /\ a + c <= L + y
      BY <1>3, <1>8, <3>1
    <3>3. /\ p \in Nat /\ a <= p /\ p < a + (b + l) /\ p \in a .. a + (b + x) - 1
          /\ p + 1 <= L + y /\ p + 1 \in Nat
      BY <1>3, <3>2
    <3> QED BY <3>1, <3>3
  <2>2. PICK slot, g : slot = Place(k, p) /\ g = k.model OBVIOUS
  <2>3. slot = Place(k, p)' BY <2>2 DEF Place, Contiguous
  <2>4. slot = Place(plan, p) BY <1>4, <1>5, <2>1, <2>2, SamePlace
  <2>5. slot[1] \in ToSet(nr[r].blocks)
    <3>1. slot[1] \in ToSet(plan.blocks) BY <1>4, <2>1, <2>4, PlanNamed
    <3>2. ToSet(plan.blocks) \subseteq ToSet(k.blocks) BY <1>4, <1>5, PlanOnTable
    <3> QED BY <3>1, <3>2
  <2>6. Read(g, slot)' = Read(g, slot)
    <3>1. \E o \in Requests : slot[1] \in ToSet(nr[o].blocks) BY <1>4, <2>5
    <3> QED BY <1>4, <2>2, <3>1, KeepRead
  <2>7. Read(g, slot) = Upto(Cat(plan.context, plan.result), p + 1)
    BY <1>4, <2>1, <2>2, <2>4 DEF Done
  <2>8. Upto(Cat(plan.context, plan.result), p + 1) = Upto(t, p + 1)
    <3>1. PICK s, result : s = k.tokens /\ result = plan.result OBVIOUS
    <3>2. /\ s \in Seq(Nat) /\ v \in Seq(Nat) /\ result \in Seq(Nat) /\ t = Cat(s, v)
          /\ Len(v) = j /\ \A i \in 1 .. j : v[i] = result[i]
          /\ plan.context = s
      BY <1>2, <3>1 DEF Grew
    <3>3. j \in 0 .. Len(result) BY <1>4, <3>1 DEF Shown
    <3>4. p + 1 <= Len(s) + j /\ p + 1 \in Nat BY <2>1, <3>1
    <3>5. Upto(Cat(s, result), p + 1) = Upto(Cat(s, v), p + 1) BY <3>2, <3>3, <3>4, ShownText, ZenonT(30)
    <3> QED BY <3>1, <3>2, <3>5
  <2> QED BY <2>2, <2>3, <2>6, <2>7, <2>8
<1> QED BY <1>7, <1>8

(* The pages a step makes read-only.                                       *)
LEMMA AdvancedReadonly ==
  ASSUME NEW r, DOMAIN request[r] = RequestFields
  PROVE  Advanced(r).readonly =
           IF Contiguous THEN 0
           ELSE Max({request[r].readonly,
                     Least(request[r].computed + Count(r), request[r].prompt) \div BlockSize})
<1> DEFINE c == request[r].computed + Count(r)
           m == Max({request[r].readonly, Least(c, request[r].prompt) \div BlockSize})
           d == IF Contiguous THEN 0 ELSE m
           s == IF r \in Over THEN "finished" ELSE request[r].status
           t == NewTokens(r)
<1>1. Advanced(r) = [request[r] EXCEPT !.tokens = t, !.computed = c, !.readonly = d, !.status = s]
  BY DEF Advanced
<1> HIDE DEF c, d, s, t
<1>2. Advanced(r).readonly = d BY <1>1 DEF RequestFields
<1> QED BY <1>2 DEF c, d

(* They never grow less, and lie in what is computed.                      *)
LEMMA ReadonlyGrows ==
  ASSUME NEW a \in Nat, NEW p \in Nat, NEW c \in Nat, a * BlockSize <= c,
         NEW m, m = Max({a, Least(c, p) \div BlockSize})
  PROVE  m \in Nat /\ m * BlockSize <= c /\ a <= m
<1> DEFINE q == Least(c, p) \div BlockSize
<1>1. BlockSize \in Nat \ {0} BY AttentionAssumption
<1>2. Least(c, p) \in Nat /\ Least(c, p) <= c BY DEF Least
<1>3. q \in Nat /\ q * BlockSize <= Least(c, p) BY <1>1, <1>2, Split
<1>4. q * BlockSize <= c
  <2>1. q * BlockSize \in Nat BY <1>1, <1>3, Multiples
  <2> QED BY <1>2, <1>3, <2>1
<1> HIDE DEF q
<1>5. IsFiniteSet({a, q})
  <2>1. IsFiniteSet({a}) BY FS_Singleton
  <2>2. IsFiniteSet({a} \cup {q}) BY <2>1, FS_AddElement
  <2>3. {a} \cup {q} = {a, q} OBVIOUS
  <2> QED BY <2>2, <2>3
<1>6. m = Max({a, q}) BY DEF q
<1>7. m \in {a, q} /\ \A x \in {a, q} : x <= m BY <1>3, <1>5, <1>6, MaxOf
<1> QED BY <1>3, <1>4, <1>7

(* The record of a request after a step is as sound as before it.          *)
LEMMA SteppedWorded ==
  ASSUME NEW r, NEW k, NEW plan, NEW v, NEW j, Stepping(r, k, plan, v, j),
         DOMAIN request[r] = RequestFields, NEW n, n = Advanced(r)
  PROVE  Worded(n) /\ k.readonly <= n.readonly /\ (Contiguous => n.readonly = 0)
<1>1. PICK t, c : t = NewTokens(r) /\ c = Count(r) OBVIOUS
<1>2. Grew(r, k, plan, v, j, t) BY <1>1, SteppedTokens
<1>3. /\ c \in Nat /\ k.computed \in Nat /\ k.computed + c <= Len(k.tokens) + j
      /\ r \notin Over => k.computed + c < Len(k.tokens) + j
  BY <1>1, SteppedNumbers
<1>4. /\ k = request[r] /\ k.status = "active" /\ Shown(k, plan.result, v, j)
      /\ Worded(k) /\ Placed(r)
  BY DEF Stepping, Sound
<1>5. /\ n.model = k.model /\ n.prompt = k.prompt /\ n.eos = k.eos /\ n.tokens = t
      /\ n.computed = k.computed + c
      /\ n.status = IF r \in Over THEN "finished" ELSE "active"
  BY <1>1, <1>4, AdvancedFields
<1>6. /\ k.prompt \in Nat \ {0} /\ k.readonly \in Nat /\ k.readonly * BlockSize <= k.computed
      /\ k.prompt <= Len(k.tokens)
  BY <1>4 DEF Worded
<1>7. /\ Len(k.tokens) \in Nat /\ j \in Nat /\ t \in Seq(Nat) /\ Len(t) = Len(k.tokens) + j
      /\ (r \in Over <=> Ended(k, t))
  BY <1>2 DEF Grew
<1>8. n.readonly \in Nat /\ n.readonly * BlockSize <= n.computed /\ k.readonly <= n.readonly
      /\ (Contiguous => n.readonly = 0)
  <2>1. CASE Contiguous
    <3>1. n.readonly = 0 BY <2>1, AdvancedReadonly
    <3>2. k.readonly = 0 BY <1>4, <2>1 DEF Placed
    <3>3. BlockSize \in Nat BY AttentionAssumption
    <3>4. 0 * BlockSize = 0 BY <3>3
    <3> QED BY <1>3, <1>5, <3>1, <3>2, <3>4
  <2>2. CASE ~Contiguous
    <3>1. PICK a, p, e : a = k.readonly /\ p = k.prompt /\ e = k.computed + c OBVIOUS
    <3>2. a \in Nat /\ p \in Nat /\ e \in Nat BY <1>3, <1>6, <3>1
    <3>3. a * BlockSize <= e
      <4>1. BlockSize \in Nat \ {0} BY AttentionAssumption
      <4>2. a * BlockSize \in Nat BY <3>2, <4>1, Multiples
      <4>3. PICK x \in Nat : x = a * BlockSize BY <4>2
      <4>4. x <= k.computed BY <1>6, <3>1, <4>3
      <4>5. x <= k.computed + c BY <1>3, <4>4
      <4> QED BY <3>1, <4>3, <4>5
    <3>4. n.readonly = Max({a, Least(e, p) \div BlockSize})
      BY <1>1, <1>4, <2>2, <3>1, AdvancedReadonly
    <3>5. PICK m : m = n.readonly OBVIOUS
    <3>6. m \in Nat /\ m * BlockSize <= e /\ a <= m BY <3>2, <3>3, <3>4, <3>5, ReadonlyGrows
    <3> QED BY <1>5, <2>2, <3>1, <3>5, <3>6
  <2> QED BY <2>1, <2>2
<1>9. Genuine(n) BY <1>1, <1>5, SteppedGenuine
<1>10. Len(n.tokens) <= n.prompt + MaxNew BY <1>4, <1>5, <1>7 DEF Shown
<1>11. n.prompt <= Len(n.tokens) /\ n.computed <= Len(n.tokens) /\ n.computed \in Nat
  BY <1>3, <1>5, <1>6, <1>7, SMTT(30)
<1>12. Ended(n, n.tokens) <=> Ended(k, t) BY <1>5 DEF Ended
<1>13. n.status = "active" => n.computed < Len(n.tokens) /\ ~Ended(n, n.tokens)
  <2>1. n.status = "active" => r \notin Over BY <1>5
  <2> QED BY <1>3, <1>5, <1>7, <1>12, <2>1
<1>14. n.status = "finished" => Ended(n, n.tokens) BY <1>5, <1>7, <1>12
<1>15. n.tokens \in Seq(Nat) /\ n.prompt \in Nat \ {0} BY <1>5, <1>6, <1>7
<1> QED BY <1>8, <1>9, <1>10, <1>11, <1>13, <1>14, <1>15 DEF Worded

(* What the end of a step leaves of the tensors is as long as before.      *)
LEMMA EndLengths ==
  ASSUME Standing, Standing', EntriesInv, EntriesInv', Contiguous, backend' = backend,
         installed' = installed, NEW gone,
         entries' = [entries EXCEPT ![step.generation] = Freed(ReleaseLease(@, Batch), gone)],
         NEW r, r \in Active, r \in Active'
  PROVE  entries'[installed][r].length = entries[installed][r].length
<1>1. /\ installed \in Generations /\ request[r].model = installed
      /\ Whole(entries[installed]) /\ r \in DOMAIN entries[installed]
  BY EntryOf
<1>2. PICK g, stored, new : g = installed /\ stored = entries[g] /\ new = entries'[g] OBVIOUS
<1>3. r \in DOMAIN new
  <2>1. request'[r].model = installed' BY DEF Standing
  <2>2. Contiguous' BY DEF Contiguous
  <2>3. Accounted(g)' BY <1>1, <1>2, <2>2 DEF EntriesInv
  <2>4. r \in Holders(g)' BY <1>2, <2>1 DEF Holders
  <2> QED BY <1>2, <2>3, <2>4 DEF Accounted
<1>4. CASE step.generation # g
  <2>1. new = stored BY <1>1, <1>2, <1>4 DEF Standing
  <2> QED BY <1>2, <2>1
<1>5. CASE step.generation = g
  <2>1. PICK leased : leased = Batch OBVIOUS
  <2>2. PICK mid : mid = ReleaseLease(stored, leased) OBVIOUS
  <2>3. new = Freed(mid, gone) BY <1>1, <1>2, <1>5, <2>1, <2>2 DEF Standing
  <2>4. Whole(stored) BY <1>1, <1>2
  <2>5. \A o \in DOMAIN mid : WholeEntry(mid[o]) /\ mid[o].length = stored[o].length
    BY <2>2, <2>4, ReleasedShape
  <2>6. Whole(mid) BY <2>5 DEF Whole
  <2>7. /\ \A o : o \in DOMAIN new => o \in DOMAIN mid
        /\ \A o \in DOMAIN new : new[o].length = mid[o].length
    BY <2>3, <2>6, FreedShape
  <2>8. new[r].length = stored[r].length BY <1>3, <2>5, <2>7
  <2> QED BY <1>2, <2>8
<1> QED BY <1>4, <1>5

(* What a step that is applied changes of the requests.                    *)
Applied ==
  /\ request' = After /\ Keep(After, NoStep) /\ step' = NoStep /\ step.at = "done"
  /\ UNCHANGED <<backend, decoder, installed>>
  /\ Batch' = {} /\ Here' = {} /\ Active' = Active \ Over /\ Over \subseteq Here
  /\ Here \subseteq Requests
  /\ \A r \in Requests : DOMAIN request[r] = RequestFields
  /\ \A r \in Here : request'[r] = Advanced(r)
  /\ \A r \in Requests \ Here : request'[r] = request[r]
  /\ \A r \in Requests : Lent(r) => Lent(r)'

(* Read-only pages stay read-only, and the batch is empty.                 *)
LEMMA ApplyShape == ASSUME Standing, TextInv, Apply PROVE Applied
<1>1. /\ request' = After /\ Keep(After, NoStep) /\ step' = NoStep /\ step.at = "done"
      /\ UNCHANGED <<backend, decoder, installed>>
  BY DEF Apply, assembly, modelVars
<1>2. Batch' = {} /\ Here' = {} BY <1>1 DEF NoStep, Batch, Here
<1>3. /\ \A r \in Here : request'[r] = Advanced(r)
      /\ \A r \in Requests \ Here : request'[r] = request[r]
      /\ \A r \in Requests : /\ request'[r].model = request[r].model
                             /\ request'[r].status = IF r \in Over THEN "finished"
                                                     ELSE request[r].status
  BY <1>1, AfterShape DEF Standing
<1>4. Over \subseteq Here /\ Here \subseteq Active /\ Here \subseteq Requests BY DEF Over, Here, Active
<1>5. Active' = Active \ Over BY <1>3, <1>4 DEF Active
<1>6. \A r \in Requests : DOMAIN request[r] = RequestFields BY DEF Standing
<1>7. ASSUME NEW x \in Requests, Lent(x) PROVE Lent(x)'
  <2>1. request'[x].status # "new" BY <1>3, <1>7 DEF Lent
  <2>2. CASE x \notin Here
    <3>1. request'[x] = request[x] BY <1>3, <2>2
    <3> QED BY <1>2, <1>7, <2>1, <3>1 DEF Lent, Alive
  <2>3. CASE x \in Here
    <3>1. PICK k, plan, v, n : k = request[x] /\ plan = step.work[x] /\ v = Visible(x) /\ n = Advanced(x)
      OBVIOUS
    <3>2. PICK j \in Nat : Stepping(x, k, plan, v, j) BY <1>1, <2>3, <3>1, SteppingOf
    <3>3. Worded(n) /\ k.readonly <= n.readonly BY <1>6, <3>1, <3>2, SteppedWorded
    <3>4. Alive(x) BY <1>4, <2>3 DEF Alive, Active
    <3>5. k.readonly >= 1 BY <1>7, <3>1, <3>4 DEF Lent
    <3>6. k.readonly \in Nat BY <3>2 DEF Stepping, Sound, Worded
    <3>7. n.readonly \in Nat BY <3>3 DEF Worded
    <3>8. n.readonly >= 1 BY <3>3, <3>5, <3>6, <3>7
    <3>9. request'[x].readonly >= 1 BY <1>3, <2>3, <3>1, <3>8
    <3> QED BY <1>2, <2>1, <3>9 DEF Lent
  <2> QED BY <2>2, <2>3
<1> QED BY <1>1, <1>2, <1>3, <1>4, <1>5, <1>6, <1>7 DEF Applied

(* A request of the batch is sound after the step.                         *)
LEMMA SteppedSound ==
  ASSUME Standing, TextInv, Applied, NEW r \in Here
  PROVE  Sound(r)'
<1>1. PICK k, plan, v, n : k = request[r] /\ plan = step.work[r] /\ v = Visible(r) /\ n = Advanced(r)
  OBVIOUS
<1>2. /\ step.at = "done" /\ r \in Requests /\ request'[r] = n /\ backend' = backend
      /\ DOMAIN request[r] = RequestFields
  BY <1>1 DEF Applied
<1>3. PICK j \in Nat : Stepping(r, k, plan, v, j) BY <1>1, <1>2, SteppingOf
<1>4. Worded(n) /\ k.readonly <= n.readonly /\ (Contiguous => n.readonly = 0)
  BY <1>1, <1>2, <1>3, SteppedWorded
<1>5. /\ n.model = k.model /\ n.prompt = k.prompt /\ n.blocks = k.blocks
      /\ n.tokens = NewTokens(r) /\ n.computed = k.computed + Count(r)
  BY <1>1, <1>2, AdvancedFields
<1>6. Sound(r) /\ k.model \in Generations /\ Worded(k) /\ Placed(r) BY <1>1, <1>3 DEF Stepping, Sound
<1>7. Placed(r)'
  <2>1. Contiguous' = Contiguous BY <1>2 DEF Contiguous
  <2>2. k.readonly \in Nat /\ n.readonly \in Nat BY <1>4, <1>6 DEF Worded
  <2>3. CASE Contiguous BY <1>1, <1>2, <1>4, <1>5, <1>6, <2>1, <2>3 DEF Placed
  <2>4. CASE ~Contiguous
    <3>1. PICK page : page = k.blocks[1] OBVIOUS
    <3>2. PICK x \in Requests : FirstOf(r, x, page) BY <1>1, <1>6, <2>4, <3>1 DEF Placed
    <3>3. FirstOf(r, x, page)'
      <4>1. Lent(x) => Lent(x)' BY DEF Applied
      <4>2. x # r => request'[r].readonly >= 1
        <5> SUFFICES ASSUME x # r PROVE n.readonly >= 1 BY <1>2
        <5>1. k.readonly >= 1 BY <1>1, <3>2 DEF FirstOf
        <5> QED BY <1>4, <2>2, <5>1
      <4> QED BY <3>2, <4>1, <4>2 DEF FirstOf
    <3> QED BY <1>1, <1>2, <1>5, <1>6, <2>1, <2>4, <3>1, <3>3 DEF Placed
  <2> QED BY <2>3, <2>4
<1>8. Held(r)'
  <2>1. PICK nr, ns : nr = After /\ ns = NoStep OBVIOUS
  <2>2. Keep(nr, ns) /\ nr[r].blocks = k.blocks
    <3>1. After[r] = n BY <1>2 DEF Applied
    <3> QED BY <1>5, <2>1, <3>1 DEF Applied
  <2>3. \A p \in 0 .. n.computed - 1 : Read(n.model, Place(n, p))' = Upto(n.tokens, p + 1)
    BY <1>2, <1>3, <1>5, <2>2, SteppedHeld
  <2> QED BY <1>2, <2>3 DEF Held
<1>9. request'[r].model \in Generations BY <1>2, <1>5, <1>6
<1> QED BY <1>2, <1>4, <1>7, <1>8, <1>9 DEF Sound

(* A step is applied.                                                      *)
LEMMA ApplyText ==
  ASSUME Standing, Standing', EntriesInv, EntriesInv', TextInv, Apply
  PROVE  TextInv'
<1>0. Applied BY ApplyShape
<1>1. /\ step.at = "done" /\ Batch' = {} /\ Here' = {} /\ Active' = Active \ Over
      /\ UNCHANGED <<backend, decoder, installed>> /\ step' = NoStep
      /\ Over \subseteq Here /\ Here \subseteq Requests
  BY <1>0 DEF Applied
<1>2. Phased' BY <1>1 DEF TextInv, Phased, Phases, NoStep
<1>3. Scheduled' BY <1>1 DEF Scheduled
<1>4. Stepped' BY <1>1 DEF Stepped
<1>5. Recorded'
  <2> SUFFICES ASSUME NEW o \in Requests, Alive(o)' PROVE Sound(o)' BY DEF Recorded
  <2>1. CASE o \in Here BY <1>0, <2>1, SteppedSound
  <2>2. CASE o \notin Here
    <3>1. request'[o] = request[o] BY <1>0, <2>2 DEF Applied
    <3>2. Alive(o) BY <3>1 DEF Alive
    <3>3. Sound(o) BY <3>2 DEF TextInv, Recorded
    <3>4. PICK k, nr, ns : k = request[o] /\ nr = After /\ ns = NoStep OBVIOUS
    <3>5. nr[o].blocks = k.blocks /\ Keep(nr, ns) /\ backend' = backend
      BY <1>0, <3>1, <3>4 DEF Applied
    <3>6. \A p \in 0 .. k.computed - 1 : Read(k.model, Place(k, p))' = Read(k.model, Place(k, p))
      BY <3>2, <3>3, <3>4, <3>5, HeldKeep
    <3>7. \A x \in Requests : Lent(x) => Lent(x)' BY <1>0 DEF Applied
    <3> QED BY <1>1, <3>1, <3>2, <3>3, <3>4, <3>6, <3>7, SoundKept
  <2> QED BY <2>1, <2>2
<1>6. Measured'
  <2> SUFFICES ASSUME Contiguous', NEW r \in Active' PROVE Lengths(r)' BY DEF Measured
  <2>0. Contiguous BY <1>1 DEF Contiguous
  <2>1. r \in Active /\ r \notin Over /\ r \in Requests BY <1>1 DEF Active
  <2>2. Lengths(r) BY <1>1, <2>0, <2>1 DEF TextInv, Measured
  <2>3. /\ installed \in Generations /\ request[r].model = installed /\ r \in DOMAIN claims
    BY <2>0, <2>1, EntryOf
  <2>4. entries'[installed][r].length = entries[installed][r].length
    <3>1. PICK gone : gone = Over OBVIOUS
    <3>2. entries' = [entries EXCEPT ![step.generation] = Freed(ReleaseLease(@, Batch), gone)]
      BY <3>1 DEF Apply
    <3> QED BY <1>1, <2>0, <2>1, <3>2, EndLengths
  <2>5. PICK counts, gone : counts = [o \in Here |-> Count(o)] /\ gone = Over \union (Batch \ Here)
    OBVIOUS
  <2>6. claims' = FreeClaims(Commit(claims, counts), gone) BY <2>5 DEF Apply
  <2>7. r \notin gone
    <3>1. r \in Batch => r \in Here BY <2>1 DEF Here
    <3> QED BY <2>1, <2>5, <3>1
  <2>8. claims'[r] = Commit(claims, counts)[r]
    <3>1. PICK held : held = Commit(claims, counts) OBVIOUS
    <3>2. DOMAIN held = DOMAIN claims BY <3>1 DEF Commit
    <3>3. r \in DOMAIN held \ gone BY <2>3, <2>7, <3>2
    <3> QED BY <2>6, <3>1, <3>3 DEF FreeClaims, Restrict
  <2>9. DOMAIN counts = Here /\ \A o \in Here : counts[o] = Count(o) BY <2>5
  <2>10. Commit(claims, counts)[r] =
           IF r \in Here THEN [committed |-> claims[r].committed + Count(r), reserved |-> 0]
                         ELSE claims[r]
    BY <2>3, <2>9 DEF Commit
  <2>11. CASE r \notin Here
    <3>1. r \notin Batch BY <2>1, <2>11 DEF Here
    <3>2. request'[r] = request[r] BY <1>0, <2>1, <2>11 DEF Applied
    <3>3. LengthNow(r)' = request[r].computed /\ LengthNow(r) = request[r].computed
      BY <1>1, <3>1, <3>2 DEF LengthNow
    <3>4. claims'[r] = claims[r] BY <2>8, <2>10, <2>11
    <3> QED BY <1>1, <2>2, <2>3, <2>4, <3>1, <3>2, <3>3, <3>4 DEF Lengths
  <2>12. CASE r \in Here
    <3>1. PICK k, plan, v, n, c : /\ k = request[r] /\ plan = step.work[r] /\ v = Visible(r)
                                  /\ n = Advanced(r) /\ c = Count(r)
      OBVIOUS
    <3>2. PICK j \in Nat : Stepping(r, k, plan, v, j) BY <1>1, <2>12, <3>1, SteppingOf
    <3>3. /\ c \in Nat /\ k.computed \in Nat /\ plan.start = k.computed
          /\ c = plan.input + plan.cached
      BY <2>1, <3>1, <3>2, SteppedNumbers
    <3>4. request'[r] = n /\ n.model = k.model /\ n.computed = k.computed + c
      <4>1. request'[r] = n /\ DOMAIN request[r] = RequestFields
        BY <1>0, <2>12, <3>1 DEF Applied
      <4> QED BY <3>1, <4>1, AdvancedFields
    <3>5. LengthNow(r)' = n.computed BY <1>1, <3>4 DEF LengthNow
    <3>6. LengthNow(r) = k.computed + c
      <4>1. r \in Batch BY <2>12 DEF Here
      <4>2. LengthNow(r) = plan.start + (plan.input + plan.cached)
        BY <1>1, <3>1, <4>1 DEF LengthNow
      <4> QED BY <3>3, <4>2
    <3>7. claims'[r] = [committed |-> k.computed + c, reserved |-> 0]
      <4>1. claims[r].committed = k.computed BY <2>2, <3>1 DEF Lengths
      <4> QED BY <2>8, <2>10, <2>12, <3>1, <4>1
    <3>8. DOMAIN claims'[r] = {"committed", "reserved"} /\ claims'[r].committed = k.computed + c
          /\ claims'[r].reserved = 0 /\ IsFunction(claims'[r], {"committed", "reserved"})
      BY <3>7 DEF IsFunction
    <3>9. entries[installed][r].length = k.computed + c BY <2>2, <2>3, <3>6 DEF Lengths
    <3> QED BY <2>3, <2>4, <3>1, <3>4, <3>5, <3>8, <3>9 DEF Lengths
  <2> QED BY <2>11, <2>12
<1> QED BY <1>2, <1>3, <1>4, <1>5, <1>6 DEF TextInv

(* A step failed: its requests go, the others stay.                        *)
LEMMA ApplyFailureText ==
  ASSUME Standing, Standing', EntriesInv, EntriesInv', TextInv, ApplyFailure
  PROVE  TextInv'
<1>0. /\ step.at = "failed" /\ request' = Without(Here) /\ Keep(Without(Here), NoStep)
      /\ step' = NoStep /\ UNCHANGED <<backend, decoder, installed>>
      /\ claims' = FreeClaims(claims, Batch)
  BY DEF ApplyFailure, assembly, modelVars
<1>1. Here \subseteq Requests /\ Here \subseteq Active BY DEF Here, Active
<1>2. /\ \A r \in Here : request'[r].status = "dropped"
      /\ \A r \in Requests \ Here : request'[r] = request[r]
  BY <1>0, <1>1, WithoutShape DEF Standing
<1>3. Batch' = {} /\ Here' = {} /\ Active' = Active \ Here
  <2>1. Batch' = {} /\ Here' = {} BY <1>0 DEF NoStep, Batch, Here
  <2>2. Active' = Active \ Here BY <1>1, <1>2 DEF Active
  <2> QED BY <2>1, <2>2
<1>4. Phased' BY <1>0 DEF TextInv, Phased, Phases, NoStep
<1>5. Scheduled' BY <1>3 DEF Scheduled
<1>6. Stepped' BY <1>3 DEF Stepped
<1>7. Recorded'
  <2> SUFFICES ASSUME NEW o \in Requests, Alive(o)' PROVE Sound(o)' BY DEF Recorded
  <2>1. o \notin Here BY <1>2 DEF Alive
  <2>2. request'[o] = request[o] BY <1>2, <2>1
  <2>3. Alive(o) BY <2>2 DEF Alive
  <2>4. Sound(o) BY <2>3 DEF TextInv, Recorded
  <2>5. PICK k, nr, ns : k = request[o] /\ nr = Without(Here) /\ ns = NoStep OBVIOUS
  <2>6. nr[o].blocks = k.blocks /\ Keep(nr, ns) /\ backend' = backend BY <1>0, <2>2, <2>5
  <2>7. \A p \in 0 .. k.computed - 1 : Read(k.model, Place(k, p))' = Read(k.model, Place(k, p))
    BY <2>3, <2>4, <2>5, <2>6, HeldKeep
  <2>8. \A x \in Requests : Lent(x) => Lent(x)'
    <3> TAKE x \in Requests
    <3>1. CASE x \in Here BY <1>2, <1>3, <3>1 DEF Lent, Alive
    <3>2. CASE x \notin Here
      <4>1. request'[x] = request[x] BY <1>2, <3>2
      <4> QED BY <1>3, <4>1 DEF Lent, Alive
    <3> QED BY <3>1, <3>2
  <2> QED BY <1>0, <2>2, <2>3, <2>4, <2>5, <2>7, <2>8, SoundKept
<1>8. Measured'
  <2> SUFFICES ASSUME Contiguous', NEW r \in Active' PROVE Lengths(r)' BY DEF Measured
  <2>0. Contiguous BY <1>0 DEF Contiguous
  <2>1. r \in Active /\ r \notin Here /\ r \in Requests /\ r \notin Batch
    BY <1>3 DEF Active, Here
  <2>2. Lengths(r) BY <2>0, <2>1 DEF TextInv, Measured
  <2>3. /\ installed \in Generations /\ request[r].model = installed /\ r \in DOMAIN claims
    BY <2>0, <2>1, EntryOf
  <2>4. entries'[installed][r].length = entries[installed][r].length
    <3>1. PICK gone : gone = Here OBVIOUS
    <3>2. entries' = [entries EXCEPT ![step.generation] = Freed(ReleaseLease(@, Batch), gone)]
      BY <3>1 DEF ApplyFailure
    <3> QED BY <1>0, <2>0, <2>1, <3>2, EndLengths
  <2>5. claims'[r] = claims[r]
    <3>1. r \in DOMAIN claims \ Batch BY <2>1, <2>3
    <3> QED BY <1>0, <3>1 DEF FreeClaims, Restrict
  <2>6. request'[r] = request[r] BY <1>2, <2>1
  <2>7. LengthNow(r)' = request[r].computed /\ LengthNow(r) = request[r].computed
    BY <1>3, <2>1, <2>6 DEF LengthNow
  <2> QED BY <1>3, <2>1, <2>2, <2>3, <2>4, <2>5, <2>6, <2>7 DEF Lengths
<1> QED BY <1>4, <1>5, <1>6, <1>7, <1>8 DEF TextInv

(* At the start there is no request and no step.                           *)
LEMMA InitText == Init => TextInv
<1> SUFFICES ASSUME Init PROVE TextInv OBVIOUS
<1>1. Batch = {} /\ Active = {} /\ Here = {}
  BY DEF Init, Batch, Active, Here, NoStep, NewRequest
<1>2. \A r \in Requests : ~Alive(r) BY DEF Init, Alive, NewRequest
<1>3. Phased
  <2>1. PICK assembled \in Assemblies : backend = assembled[1] /\ decoder = assembled[2]
    BY DEF Init
  <2>2. assembled \in {"dense", "torch", "triton"} \X {"standard", "chain", "trie", "any"}
    BY ModelWorkerAssumption
  <2>3. step.at = "idle" BY DEF Init, NoStep
  <2> QED BY <2>1, <2>2, <2>3 DEF Phased, Phases
<1> QED BY <1>1, <1>2, <1>3 DEF TextInv, Recorded, Scheduled, Stepped, Measured

(* Every step keeps the texts.                                             *)
LEMMA TextStep ==
  Standing /\ Standing' /\ EntriesInv /\ EntriesInv' /\ TextInv /\ [Next]_vars => TextInv'
<1> SUFFICES ASSUME Standing, Standing', EntriesInv, EntriesInv', TextInv, [Next]_vars
             PROVE  TextInv'
  OBVIOUS
<1>1. CASE Load
  BY <1>1, FrameText DEF Load, assembly
<1>2. CASE Initialize
  BY <1>2, FrameText DEF Initialize, assembly
<1>3. CASE Install
  BY <1>3, FrameText DEF Install, assembly
<1>4. ASSUME NEW r \in Requests, AddRequest(r) PROVE TextInv' BY <1>4, AddText
<1>5. ASSUME NEW r \in Requests, FreeRequest(r) PROVE TextInv' BY <1>5, FreeText
<1>6. CASE Acquire BY <1>6, AcquireText
<1>7. CASE Execute BY <1>7, ExecuteText
<1>8. CASE ContiguousForward BY <1>8, ContiguousText
<1>9. CASE PagedForward BY <1>9, PagedText
<1>10. CASE Sample BY <1>10, SampleText
<1>11. CASE AcceptAndCompact BY <1>11, AcceptText
<1>12. CASE StepFails
  BY <1>12, FailText DEF StepFails, assembly
<1>13. CASE Apply BY <1>13, ApplyText
<1>14. CASE ApplyFailure BY <1>14, ApplyFailureText
<1>15. CASE UNCHANGED vars
  BY <1>15, FrameText DEF vars, assembly
<1> QED BY <1>1, <1>2, <1>3, <1>4, <1>5, <1>6, <1>7, <1>8, <1>9, <1>10, <1>11, <1>12, <1>13, <1>14,
           <1>15 DEF Next

(* What the worker, its tensors and its texts are in together.             *)
WorkerInv == Standing /\ EntriesInv /\ TextInv

(* They hold in every state the worker can be in.                          *)
LEMMA WorkerInvariant == Spec => []WorkerInv
<1>1. Init => WorkerInv BY StandingInit, EntriesInit, InitText DEF WorkerInv
<1>2. WorkerInv /\ [Next]_vars => WorkerInv'
  BY StandingStep, EntriesStep, TextStep DEF WorkerInv
<1> QED BY <1>1, <1>2, PTL DEF Spec

(* A request's K/V and counts are what the engine counts as computed.      *)
LEMMA CacheHolds == WorkerInv => CacheHoldsPrefix
<1> SUFFICES ASSUME WorkerInv, NEW r \in Active
             PROVE  /\ \A p \in 0 .. request[r].computed - 1 :
                         Read(request[r].model, Place(request[r], p))
                           = SubSeq(request[r].tokens, 1, p + 1)
                    /\ Contiguous /\ r \notin Batch =>
                         /\ entries[request[r].model][r].length = request[r].computed
                         /\ claims[r] = [committed |-> request[r].computed, reserved |-> 0]
  BY DEF CacheHoldsPrefix
<1>1. r \in Requests /\ Alive(r) BY DEF Active, Alive
<1>2. Sound(r) BY <1>1 DEF WorkerInv, TextInv, Recorded
<1>3. Contiguous /\ r \notin Batch => Lengths(r) BY DEF WorkerInv, TextInv, Measured
<1>4. ASSUME Contiguous, r \notin Batch
      PROVE  /\ entries[request[r].model][r].length = request[r].computed
             /\ claims[r] = [committed |-> request[r].computed, reserved |-> 0]
  <2>1. LengthNow(r) = request[r].computed BY <1>4 DEF LengthNow
  <2>2. claims[r] = [x \in {"committed", "reserved"} |-> claims[r][x]]
    BY <1>3, <1>4 DEF Lengths, IsFunction
  <2>3. claims[r]["committed"] = request[r].computed /\ claims[r]["reserved"] = 0
    BY <1>3, <1>4 DEF Lengths
  <2>4. claims[r] = [committed |-> request[r].computed, reserved |-> 0] BY <2>2, <2>3
  <2> QED BY <1>3, <1>4, <2>1, <2>4 DEF Lengths
<1> QED BY <1>2, <1>4 DEF Sound, Held, Upto

(* CacheHoldsPrefix: each position the engine counts as computed has the   *)
(* K/V of the tokens up to it, whoever shared its pages or was cancelled,  *)
(* and between steps the contiguous tensor and the claim are that long.    *)
THEOREM WorkerCacheHoldsPrefix == Spec => []CacheHoldsPrefix
  BY WorkerInvariant, CacheHolds, PTL

(* The texts of the reference service, token after token.                  *)
Follower(g, eos, i, before) ==
  IF i > 1 /\ Last(before) = eos THEN before ELSE Append(before, Weights(g, before))
Narrated(g, prompt, eos, n, f) ==
  f = [i \in 0 .. n |-> IF i = 0 THEN prompt ELSE Follower(g, eos, i, f[i - 1])]

(* The function of its texts exists: by induction on their number.         *)
LEMMA NarratedExists ==
  \A g, prompt, eos : \A n \in Nat : \E f : Narrated(g, prompt, eos, n, f)
<1> SUFFICES ASSUME NEW g, NEW prompt, NEW eos
             PROVE  \A n \in Nat : \E f : Narrated(g, prompt, eos, n, f)
  OBVIOUS
<1> DEFINE B == {n \in Nat : \E f : Narrated(g, prompt, eos, n, f)}
<1>1. 0 \in B
  <2> DEFINE f == [i \in 0 .. 0 |-> prompt]
  <2>1. \A i \in 0 .. 0 : i = 0 OBVIOUS
  <2>2. Narrated(g, prompt, eos, 0, f) BY <2>1 DEF Narrated
  <2> QED BY <2>2
<1>2. ASSUME NEW n \in Nat, n \in B PROVE n + 1 \in B
  <2>1. PICK f : Narrated(g, prompt, eos, n, f) BY <1>2
  <2> DEFINE x == Follower(g, eos, n + 1, f[n])
             h == [i \in 0 .. n + 1 |-> IF i = n + 1 THEN x ELSE f[i]]
  <2>2. ASSUME NEW i \in 0 .. n + 1
        PROVE  h[i] = IF i = 0 THEN prompt ELSE Follower(g, eos, i, h[i - 1])
    <3>1. CASE i = n + 1
      <4>1. i # 0 /\ i - 1 = n /\ n \in 0 .. n + 1 /\ n # n + 1 BY <3>1
      <4>2. h[i] = x /\ h[i - 1] = f[n] BY <3>1, <4>1
      <4> HIDE DEF h
      <4> QED BY <3>1, <4>1, <4>2
    <3>2. CASE i # n + 1
      <4>1. i \in 0 .. n /\ (i # 0 => i - 1 \in 0 .. n) BY <3>2
      <4>2. f[i] = IF i = 0 THEN prompt ELSE Follower(g, eos, i, f[i - 1])
        BY <2>1, <4>1 DEF Narrated
      <4>3. h[i] = f[i] /\ (i # 0 => h[i - 1] = f[i - 1])
        <5> HIDE DEF x
        <5> QED BY <4>1
      <4> HIDE DEF h
      <4> QED BY <4>2, <4>3
    <3> QED BY <3>1, <3>2
  <2>3. Narrated(g, prompt, eos, n + 1, h)
    <3> HIDE DEF x
    <3> QED BY <2>2 DEF Narrated
  <2> QED BY <2>3
<1>3. \A n \in Nat : n \in B
  <2> HIDE DEF B
  <2> QED BY <1>1, <1>2, Induct
<1> QED BY <1>3

(* The reference text is its last value.                                   *)
LEMMA ReferenceIs ==
  ASSUME NEW g, NEW prompt, NEW eos, NEW n \in Nat
  PROVE  \E f : Narrated(g, prompt, eos, n, f) /\ Reference(g, prompt, eos, n) = f[n]
<1>1. \E f : Narrated(g, prompt, eos, n, f) BY NarratedExists
<1> QED BY <1>1, Zenon DEF Reference, Narrated, Follower

(* Each text of the reference service after the other.                     *)
LEMMA NarratedStep ==
  ASSUME NEW g, NEW prompt, NEW eos, NEW n \in Nat, NEW f, Narrated(g, prompt, eos, n, f)
  PROVE  /\ f[0] = prompt
         /\ \A i \in Nat : i < n => f[i + 1] = Follower(g, eos, i + 1, f[i])
<1>1. \A i \in 0 .. n : f[i] = IF i = 0 THEN prompt ELSE Follower(g, eos, i, f[i - 1])
  BY DEF Narrated
<1>2. ASSUME NEW i \in Nat, i < n PROVE f[i + 1] = Follower(g, eos, i + 1, f[i])
  <2>1. i + 1 \in 0 .. n /\ i + 1 # 0 /\ (i + 1) - 1 = i BY <1>2
  <2> QED BY <1>1, <2>1
<1>3. f[0] = prompt BY <1>1
<1> QED BY <1>2, <1>3

(* The model's own tokens are those of the reference service.              *)
LEMMA GenuineTold ==
  ASSUME NEW k, Genuine(k), k.tokens \in Seq(Nat), k.prompt \in Nat \ {0},
         k.prompt <= Len(k.tokens), Len(k.tokens) <= k.prompt + MaxNew,
         NEW f, Narrated(k.model, Upto(k.tokens, k.prompt), k.eos, MaxNew, f)
  PROVE  \A i \in Nat : k.prompt + i <= Len(k.tokens) => f[i] = Upto(k.tokens, k.prompt + i)
<1>0. MaxNew \in Nat BY ModelWorkerAssumption
<1>1. PICK t, p, L : t = k.tokens /\ p = k.prompt /\ L = Len(t) OBVIOUS
<1>2. /\ t \in Seq(Nat) /\ L \in Nat /\ L = Len(t) /\ p \in Nat \ {0} /\ p <= L
      /\ L <= p + MaxNew
  BY <1>1
<1>3. /\ f[0] = Upto(t, p)
      /\ \A i \in Nat : i < MaxNew => f[i + 1] = Follower(k.model, k.eos, i + 1, f[i])
  BY <1>0, <1>1, NarratedStep
<1>4. \A i \in p + 1 .. L : /\ t[i] = Weights(k.model, Upto(t, i - 1))
                            /\ i < L => t[i] # k.eos
  BY <1>1 DEF Genuine
<1> DEFINE B == {i \in Nat : p + i <= L => f[i] = Upto(t, p + i)}
<1>5. 0 \in B BY <1>2, <1>3
<1>6. ASSUME NEW i \in Nat, i \in B PROVE i + 1 \in B
  <2> SUFFICES ASSUME p + (i + 1) <= L PROVE f[i + 1] = Upto(t, p + (i + 1)) OBVIOUS
  <2>1. p + i < L /\ p + i \in Nat /\ p + i \in 1 .. L /\ p + i \in 0 .. L /\ i < MaxNew
    BY <1>0, <1>2
  <2>2. f[i] = Upto(t, p + i) BY <1>6, <2>1
  <2>3. PICK m \in Nat : m = p + i BY <2>1
  <2>4. m < L /\ m \in 1 .. L /\ m \in 0 .. L /\ f[i] = Upto(t, m) BY <2>1, <2>2, <2>3
  <2>5. Len(f[i]) = m /\ \A x \in 1 .. m : f[i][x] = t[x]
    <3>1. m \in 0 .. Len(t) BY <1>2, <2>4
    <3> QED BY <1>2, <2>4, <3>1, UptoShape, ZenonT(30)
  <2>6. Last(f[i]) = t[m]
    <3>1. m \in 1 .. m BY <2>4
    <3> QED BY <2>5, <3>1 DEF Last
  <2>7. i + 1 > 1 => t[m] # k.eos
    <3>1. i + 1 > 1 => m \in p + 1 .. L BY <1>2, <2>3, <2>4
    <3> QED BY <1>4, <2>4, <3>1
  <2>8. f[i + 1] = Append(f[i], Weights(k.model, f[i]))
    BY <1>3, <2>1, <2>6, <2>7 DEF Follower
  <2>9. t[m + 1] = Weights(k.model, Upto(t, m))
    <3>1. m + 1 \in p + 1 .. L /\ (m + 1) - 1 = m BY <1>2, <2>3, <2>4
    <3> QED BY <1>4, <3>1
  <2>10. Upto(t, m + 1) = Append(Upto(t, m), t[m + 1])
    <3>1. m < Len(t) BY <1>2, <2>4
    <3> QED BY <1>2, <3>1, UptoNext
  <2>11. f[i + 1] = Upto(t, m + 1) BY <2>4, <2>8, <2>9, <2>10
  <2>12. p + (i + 1) = m + 1 BY <1>2, <2>3
  <2> QED BY <2>11, <2>12
<1>7. \A i \in Nat : i \in B
  <2> HIDE DEF B
  <2> QED BY <1>5, <1>6, Induct
<1> QED BY <1>1, <1>7

(* A text that begins with some tokens.                                    *)
Begins(s, t) == Len(t) <= Len(s) /\ Upto(s, Len(t)) = t

(* What the service tells after the tokens of a request begins with them.  *)
LEMMA ToldBeyond ==
  ASSUME NEW g, NEW prompt, NEW eos, NEW M \in Nat, NEW f, Narrated(g, prompt, eos, M, f),
         NEW m \in Nat, m <= M, NEW t \in Seq(Nat), f[m] = t
  PROVE  Begins(f[M], t)
<1> DEFINE D == Nat \cup { Weights(g, f[i]) : i \in 0 .. M }
           Good(s) == s \in Seq(D) /\ Len(t) <= Len(s) /\ Upto(s, Len(t)) = t
           B == {i \in Nat : m + i <= M => Good(f[m + i])}
<1>1. \A i \in Nat : i < M => f[i + 1] = Follower(g, eos, i + 1, f[i])
  BY NarratedStep
<1>2. t \in Seq(D) /\ Len(t) \in Nat
  <2>1. Nat \subseteq D OBVIOUS
  <2> HIDE DEF D
  <2> QED BY <2>1
<1>3. \A i \in 0 .. M : Weights(g, f[i]) \in D OBVIOUS
<1> HIDE DEF D
<1>4. 0 \in B
  <2>1. Upto(t, Len(t)) = t BY UptoEnds
  <2> QED BY <1>2, <2>1
<1>5. ASSUME NEW i \in Nat, i \in B PROVE i + 1 \in B
  <2> SUFFICES ASSUME m + (i + 1) <= M PROVE Good(f[m + (i + 1)]) OBVIOUS
  <2>1. PICK n \in Nat : n = m + i OBVIOUS
  <2>2. n < M /\ n <= M /\ n \in 0 .. M /\ m + (i + 1) = n + 1 BY <2>1
  <2>3. Good(f[n]) BY <1>5, <2>1, <2>2
  <2>4. PICK s : s = f[n] OBVIOUS
  <2>5. s \in Seq(D) /\ Len(t) <= Len(s) /\ Upto(s, Len(t)) = t BY <2>3, <2>4
  <2>6. f[n + 1] = s \/ f[n + 1] = Append(s, Weights(g, s))
    BY <1>1, <2>2, <2>4 DEF Follower
  <2>7. Weights(g, s) \in D BY <1>3, <2>2, <2>4
  <2>8. PICK x \in D : x = Weights(g, s) BY <2>7
  <2>9. /\ Append(s, x) \in Seq(D) /\ Len(Append(s, x)) = Len(s) + 1
        /\ \A a \in 0 .. Len(s) : Upto(Append(s, x), a) = Upto(s, a)
    BY <2>5, UptoAppend
  <2>10. Len(s) \in Nat /\ Len(t) \in 0 .. Len(s) BY <1>2, <2>5
  <2>11. Good(Append(s, x)) BY <2>5, <2>9, <2>10
  <2>12. Good(s) BY <2>5
  <2> HIDE DEF Good
  <2> QED BY <2>2, <2>6, <2>8, <2>11, <2>12
<1>6. \A i \in Nat : i \in B
  <2> HIDE DEF B
  <2> QED BY <1>4, <1>5, Induct
<1>7. M - m \in Nat /\ m + (M - m) = M OBVIOUS
<1>8. Good(f[M])
  <2>1. M - m \in B BY <1>6, <1>7
  <2> QED BY <1>7, <2>1
<1> QED BY <1>8 DEF Begins

(* After an end of sequence the service tells nothing more.                *)
LEMMA ToldToTheEnd ==
  ASSUME NEW g, NEW prompt, NEW eos, NEW M \in Nat, NEW f, Narrated(g, prompt, eos, M, f),
         NEW m \in Nat \ {0}, m <= M, Last(f[m]) = eos
  PROVE  f[M] = f[m]
<1> DEFINE B == {i \in Nat : m + i <= M => f[m + i] = f[m]}
<1>1. \A i \in Nat : i < M => f[i + 1] = Follower(g, eos, i + 1, f[i])
  BY NarratedStep
<1>2. 0 \in B OBVIOUS
<1>3. ASSUME NEW i \in Nat, i \in B PROVE i + 1 \in B
  <2> SUFFICES ASSUME m + (i + 1) <= M PROVE f[m + (i + 1)] = f[m] OBVIOUS
  <2>1. PICK n \in Nat : n = m + i OBVIOUS
  <2>2. n < M /\ n <= M /\ m + (i + 1) = n + 1 /\ n + 1 > 1 BY <2>1
  <2>3. f[n] = f[m] BY <1>3, <2>1, <2>2
  <2>4. f[n + 1] = f[n] BY <1>1, <2>2, <2>3 DEF Follower
  <2> QED BY <2>2, <2>3, <2>4
<1>4. \A i \in Nat : i \in B
  <2> HIDE DEF B
  <2> QED BY <1>2, <1>3, Induct
<1>5. M - m \in Nat /\ m + (M - m) = M OBVIOUS
<1>6. M - m \in B BY <1>4, <1>5
<1> QED BY <1>5, <1>6

(* What is known of a request's tokens makes them the reference text.      *)
LEMMA OutputReference == WorkerInv => OutputIsReference
<1> SUFFICES ASSUME WorkerInv, NEW r \in Requests, request[r].status \in {"active", "finished"},
                    NEW k, k = request[r], NEW text,
                    text = Reference(k.model, SubSeq(k.tokens, 1, k.prompt), k.eos, MaxNew)
             PROVE  IF k.status = "finished" THEN k.tokens = text ELSE IsPrefix(k.tokens, text)
  BY DEF OutputIsReference
<1>0. MaxNew \in Nat BY ModelWorkerAssumption
<1>1. Worded(k) BY DEF WorkerInv, TextInv, Recorded, Alive, Sound
<1>2. PICK t, p, L : t = k.tokens /\ p = k.prompt /\ L = Len(t) OBVIOUS
<1>3. /\ t \in Seq(Nat) /\ L \in Nat /\ p \in Nat \ {0} /\ p <= L /\ L <= p + MaxNew
      /\ Genuine(k) /\ (k.status = "finished" => Ended(k, t))
  BY <1>1, <1>2 DEF Worded
<1>4. PICK f : Narrated(k.model, Upto(t, p), k.eos, MaxNew, f) /\ text = f[MaxNew]
  <2>1. text = Reference(k.model, Upto(t, p), k.eos, MaxNew) BY <1>2 DEF Upto
  <2> QED BY <1>0, <2>1, ReferenceIs
<1>5. PICK m : m = L - p OBVIOUS
<1>6. m \in Nat /\ m <= MaxNew /\ p + m = L BY <1>0, <1>3, <1>5
<1>7. f[m] = t
  <2>1. f[m] = Upto(t, L)
    <3>1. /\ k.tokens \in Seq(Nat) /\ k.prompt \in Nat \ {0} /\ k.prompt <= Len(k.tokens)
          /\ Len(k.tokens) <= k.prompt + MaxNew
          /\ Narrated(k.model, Upto(k.tokens, k.prompt), k.eos, MaxNew, f)
      BY <1>2, <1>3, <1>4
    <3>2. \A i \in Nat : k.prompt + i <= Len(k.tokens) => f[i] = Upto(k.tokens, k.prompt + i)
      BY <1>3, <3>1, GenuineTold
    <3>3. k.prompt + m = L /\ L <= Len(k.tokens) BY <1>2, <1>3, <1>6
    <3> QED BY <1>2, <1>6, <3>2, <3>3
  <2>2. Upto(t, Len(t)) = t BY <1>3, UptoEnds
  <2> QED BY <1>2, <2>1, <2>2
<1>8. IsPrefix(t, text)
  <2>1. Len(t) <= Len(text) /\ Upto(text, Len(t)) = t
    <3>1. PICK g, prompt, eos, M : /\ g = k.model /\ prompt = Upto(t, p) /\ eos = k.eos
                                   /\ M = MaxNew
      OBVIOUS
    <3>2. Narrated(g, prompt, eos, M, f) /\ M \in Nat /\ m <= M /\ text = f[M]
      BY <1>0, <1>4, <1>6, <3>1
    <3>3. t \in Seq(Nat) /\ m \in Nat /\ f[m] = t BY <1>3, <1>6, <1>7
    <3>4. Begins(f[M], t) BY <3>2, <3>3, ToldBeyond
    <3> QED BY <3>2, <3>4 DEF Begins
  <2>2. Upto(t, Len(t)) = t BY <1>3, UptoEnds
  <2> QED BY <2>1, <2>2 DEF IsPrefix, Upto
<1>9. ASSUME k.status = "finished" PROVE t = text
  <2>1. Ended(k, t) BY <1>3, <1>9
  <2>2. CASE L = p + MaxNew
    <3>1. m = MaxNew BY <1>0, <1>3, <1>5, <2>2
    <3> QED BY <1>4, <1>7, <3>1
  <2>3. CASE L # p + MaxNew
    <3>1. L > p /\ t[L] = k.eos BY <1>2, <2>1, <2>3 DEF Ended
    <3>2. m \in Nat \ {0} BY <1>3, <1>6, <3>1
    <3>3. Last(f[m]) = k.eos BY <1>2, <1>7, <3>1 DEF Last
    <3>4. f[MaxNew] = f[m] BY <1>0, <1>4, <1>6, <3>2, <3>3, ToldToTheEnd
    <3> QED BY <1>4, <1>7, <3>4
  <2> QED BY <2>2, <2>3
<1> QED BY <1>2, <1>8, <1>9

(* OutputIsReference: the tokens of a request are those of the reference   *)
(* service on the model it was admitted with, and all of them once it has  *)
(* finished, whatever was drafted and whoever shared batch, pages, worker. *)
THEOREM WorkerOutputIsReference == Spec => []OutputIsReference
  BY WorkerInvariant, OutputReference, PTL

(* No plan looks further ahead than the decoding budget lets it.           *)
LEMMA PlansBounded ==
  ASSUME NEW r \in Active, Sound(r), NEW plan \in Plans(r)
  PROVE  plan.lookahead <= NumLookahead
<1> DEFINE pending == Len(request[r].tokens) - request[r].computed
           remaining == request[r].prompt + MaxNew - Len(request[r].tokens)
           ahead == IF decoder = "standard" THEN 0 ELSE Least(NumLookahead, remaining - 1)
<1>1. NumLookahead \in Nat /\ MaxNew \in Nat BY ModelWorkerAssumption
<1>2. remaining - 1 \in Int BY <1>1 DEF Sound, Worded
<1>3. ahead <= NumLookahead /\ 0 <= NumLookahead
  <2> HIDE DEF remaining
  <2> QED BY <1>1, <1>2 DEF Least
<1>4. \/ \E n \in 1 .. pending - 1 : plan = Plan(r, n, 0, 0)
      \/ plan = Plan(r, pending, ahead, ahead + 1)
      \/ plan = Plan(r, pending, 0, 1)
  BY DEF Plans
<1> HIDE DEF pending, ahead
<1>5. \A n, l, out : Plan(r, n, l, out).lookahead = l BY DEF Plan
<1> QED BY <1>3, <1>4, <1>5

\* A leased step's plans keep to the decoding budget.
Bounded ==
  step.at = "leased" => \A r \in Batch : step.work[r].lookahead <= NumLookahead

(* The scheduler alone leases a step; until it runs its plans stay.        *)
LEMMA BoundedStep == WorkerInv /\ Bounded /\ [Next]_vars => Bounded'
<1> SUFFICES ASSUME WorkerInv, Bounded, [Next]_vars PROVE Bounded' OBVIOUS
<1>0. DOMAIN step = {"at", "generation", "work"} BY DEF WorkerInv, Standing
<1>1. CASE step' = step BY <1>1 DEF Bounded, Batch
<1>2. CASE step'.at # "leased" BY <1>2 DEF Bounded
<1>3. CASE Acquire
  <2>1. PICK batch \in (SUBSET Active) \ {{}} :
          \E work \in [batch -> UNION { Plans(r) : r \in batch }] :
           /\ \A r \in batch : work[r] \in Plans(r)
           /\ step' = [at |-> "leased", generation |-> installed, work |-> work]
    BY <1>3 DEF Acquire
  <2>2. PICK work \in [batch -> UNION { Plans(r) : r \in batch }] :
           /\ \A r \in batch : work[r] \in Plans(r)
           /\ step' = [at |-> "leased", generation |-> installed, work |-> work]
    BY <2>1
  <2>3. Batch' = batch /\ step'.work = work BY <2>2 DEF Batch
  <2>4. ASSUME NEW r \in batch PROVE work[r].lookahead <= NumLookahead
    <3>1. r \in Active /\ work[r] \in Plans(r) BY <2>1, <2>2
    <3>2. r \in Requests /\ Alive(r) BY <3>1 DEF Active, Alive
    <3>3. Sound(r) BY <3>2 DEF WorkerInv, TextInv, Recorded
    <3> QED BY <3>1, <3>3, PlansBounded
  <2> QED BY <2>3, <2>4 DEF Bounded
<1>4. ASSUME StepFailed PROVE step'.at = "failed" BY <1>0, <1>4 DEF StepFailed
<1>5. CASE Execute
  <2>1. step'.at = "running" \/ StepFailed BY <1>0, <1>5 DEF Execute
  <2> QED BY <1>2, <1>4, <2>1
<1>6. ASSUME StoreQueries PROVE step'.at = "forwarded" BY <1>0, <1>6 DEF StoreQueries
<1>7. CASE ContiguousForward BY <1>2, <1>4, <1>6, <1>7 DEF ContiguousForward
<1>8. CASE PagedForward BY <1>2, <1>4, <1>6, <1>8 DEF PagedForward
<1>9. CASE Sample
  <2>1. step'.at = "done" \/ StepFailed BY <1>0, <1>9 DEF Sample
  <2> QED BY <1>2, <1>4, <2>1
<1>10. CASE AcceptAndCompact
  <2>1. step'.at = "done" \/ StepFailed BY <1>0, <1>10 DEF AcceptAndCompact
  <2> QED BY <1>2, <1>4, <2>1
<1>11. CASE StepFails BY <1>2, <1>4, <1>11 DEF StepFails
<1>12. CASE Apply BY <1>2, <1>12 DEF Apply, NoStep
<1>13. CASE ApplyFailure BY <1>2, <1>13 DEF ApplyFailure, NoStep
<1>14. CASE Load \/ Initialize \/ Install BY <1>1, <1>14 DEF Load, Initialize, Install
<1>15. ASSUME NEW r \in Requests, AddRequest(r) \/ FreeRequest(r) PROVE Bounded'
  BY <1>1, <1>15 DEF AddRequest, FreeRequest
<1>16. CASE UNCHANGED vars BY <1>1, <1>16 DEF vars
<1> QED
  BY <1>3, <1>5, <1>7, <1>8, <1>9, <1>10, <1>11, <1>12, <1>13, <1>14, <1>15, <1>16 DEF Next

(* What the chain and the trie may draft for a leased plan.                *)
LEMMA DraftsHistoric ==
  ASSUME WorkerInv, Bounded, decoder \in {"chain", "trie"}, step.at = "leased",
         NEW r \in Batch, NEW draft \in Drafts(step.work[r])
  PROVE  /\ Acceptable(step.work[r], draft)
         /\ Historic(step.work[r].context, draft, NumLookahead)
<1>1. PICK plan : plan = step.work[r] OBVIOUS
<1>2. Sized(plan) BY <1>1 DEF WorkerInv, TextInv, Scheduled, Planned
<1>3. PICK c \in Seq(Nat) : c = plan.context BY <1>2 DEF Sized
<1>4. PICK n \in Nat : n = NumLookahead BY ModelWorkerAssumption
<1>5. PICK m \in Nat : m = MaxNodes(plan)
  <2>1. plan.lookahead \in Nat /\ plan.output \in Nat BY <1>2 DEF Sized
  <2>2. MaxNodes(plan) \in Nat BY <2>1 DEF MaxNodes, Least
  <2> QED BY <2>2
<1>6. m <= n
  <2>1. plan.lookahead \in Nat /\ plan.output \in Nat BY <1>2 DEF Sized
  <2>2. plan.lookahead <= n BY <1>1, <1>4 DEF Bounded
  <2>3. m <= plan.lookahead BY <1>5, <2>1 DEF MaxNodes, Least
  <2> QED BY <2>1, <2>2, <2>3
<1>7. draft \in Drafts(plan) BY <1>1
<1>8. IsTree(draft) /\ Size(draft) <= m /\ Historic(c, draft, n)
  <2>1. CASE m = 0
    <3>1. draft = NoDraft BY <1>5, <1>7, <2>1 DEF Drafts
    <3> QED BY <2>1, <3>1, NoDraftHistoric
  <2>2. CASE m # 0 /\ decoder = "chain"
    <3>1. m > 0 /\ m \in Nat \ {0} /\ n \in Nat \ {0} BY <1>6, <2>2
    <3>2. draft = Chain(c, m) BY <1>3, <1>5, <1>7, <2>2, <3>1 DEF Drafts
    <3> QED BY <1>6, <3>1, <3>2, ChainHistoric
  <2>3. CASE m # 0 /\ decoder = "trie"
    <3>1. m > 0 /\ m \in Nat \ {0} /\ n \in Nat \ {0} BY <1>6, <2>3
    <3>2. draft = Trie(c, m) BY <1>3, <1>5, <1>7, <2>3, <3>1 DEF Drafts
    <3> QED BY <1>6, <3>1, <3>2, TrieHistoric
  <2> QED BY <2>1, <2>2, <2>3
<1>9. Acceptable(plan, draft) BY <1>5, <1>8 DEF Acceptable
<1> QED BY <1>1, <1>3, <1>4, <1>8, <1>9

(* What is drafted for a leased step continues the history.                *)
LEMMA DraftsContinue == WorkerInv /\ Bounded => DraftsContinueHistory
<1> SUFFICES ASSUME WorkerInv, Bounded, decoder \in {"chain", "trie"}, step.at = "leased",
                    NEW r \in Batch, NEW draft \in Drafts(step.work[r]),
                    NEW l, l = DraftLayout(1, draft)
             PROVE  /\ Acceptable(step.work[r], draft)
                    /\ \A i \in DOMAIN draft.tokens :
                         /\ \E s \in Starts(step.work[r].context) :
                              IsPrefix(PathTo(draft, i),
                                       Continuation(step.work[r].context, s, NumLookahead))
                         /\ i > 1 => l[i + 1] \in Visibility(l)[i]
  BY DEF DraftsContinueHistory
<1>1. /\ Acceptable(step.work[r], draft)
      /\ Historic(step.work[r].context, draft, NumLookahead)
  BY DraftsHistoric
<1> QED BY <1>1 DEF Historic

(* DraftsContinueHistory: whatever the history, the chain and the trie     *)
(* answer with a tree the step has room for, whose paths have followed the *)
(* matched suffix before and whose nodes come right after their parent or  *)
(* after the subtrees of better siblings.                                  *)
THEOREM WorkerDraftsContinueHistory == Spec => []DraftsContinueHistory
<1>1. Init => Bounded BY DEF Init, NoStep, Bounded
<1>2. WorkerInv /\ Bounded /\ [Next]_vars => Bounded' BY BoundedStep
<1>3. WorkerInv /\ Bounded => DraftsContinueHistory BY DraftsContinue
<1> QED BY <1>1, <1>2, <1>3, WorkerInvariant, PTL DEF Spec
=============================================================================
