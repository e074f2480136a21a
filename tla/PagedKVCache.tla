---------------------------- MODULE PagedKVCache ----------------------------
(***************************************************************************)
(* PagedKVCacheManager of runtime/kv_cache.py: the logical owner of the    *)
(* fixed pool of KV pages ("blocks").  Requests hold a block table each;   *)
(* full prompt blocks are published under the digest of the prompt prefix  *)
(* they hold and are shared, read-only, by later requests; a published     *)
(* block that nobody references stays reusable until the pool needs it     *)
(* (LRU eviction).  Completion and initial claims set capacity aside that  *)
(* is not yet backed by blocks.                                            *)
(*                                                                         *)
(* `stored` is not a field of the manager: it is what the execution side   *)
(* has written into the physical page, and says what a block table is for. *)
(***************************************************************************)
EXTENDS Integers, Sequences, FiniteSets

CONSTANTS
  Requests,       \* request ids
  NumBlocks,      \* capacity.num_blocks
  BlockSize,      \* capacity.block_size, in tokens
  PromptLen,      \* PromptLen[r]: the number of prompt tokens of r
  PromptKeys,     \* PromptKeys[r]: the prefix digests of its full blocks
  MaxCommitted,   \* MaxCommitted[r]: max_num_committed_tokens of r
  Admissions,     \* the ways a caller asks for admission, see Admission
  MaxReserve,     \* bound on the tokens of one reservation (token budget)
  MaxGeneration   \* bound on the number of model reloads

(* How try_add_request may be called: a strict completion claim, or a      *)
(* best-effort request with some initial extra blocks; and the two free    *)
(* watermarks, in blocks.                                                  *)
Admission ==
  [guarantee : BOOLEAN, extra : Nat, minFree : Nat, admissionMinFree : Nat]

ASSUME CapacityAssumption ==
  /\ NumBlocks \in Nat \ {0} /\ BlockSize \in Nat \ {0}
  /\ MaxReserve \in Nat /\ MaxGeneration \in Nat

ASSUME RequestAssumption ==
  /\ IsFiniteSet(Requests)
  /\ \A r \in Requests :
       /\ PromptLen[r] \in Nat \ {0}
       /\ MaxCommitted[r] \in Nat /\ PromptLen[r] <= MaxCommitted[r]

(* _prompt_block_keys chains digests: a key stands for the whole prefix up *)
(* to its block, so equal keys are at equal places behind equal keys.      *)
(* Only full blocks have one, and one prompt token is always left to be    *)
(* computed again for its logits.  Collisions are left out.                *)
ASSUME KeyAssumption ==
  \A r \in Requests :
    /\ DOMAIN PromptKeys[r] = 1 .. (PromptLen[r] - 1) \div BlockSize
    /\ \A q \in Requests : \A i \in DOMAIN PromptKeys[r] :
         \A j \in DOMAIN PromptKeys[q] :
           PromptKeys[r][i] = PromptKeys[q][j] =>
             i = j /\ \A k \in 1 .. i : PromptKeys[r][k] = PromptKeys[q][k]

(* try_add_request refuses a strict claim that also asks for initial extra *)
(* blocks (ValueError).                                                    *)
ASSUME AdmissionAssumption ==
  \A a \in Admissions : a \in Admission /\ (a.guarantee => a.extra = 0)

VARIABLES
  free,             \* _free_blocks, the heap of block ids
  evictable,        \* _evictable_blocks, the keys of the OrderedDict ...
  older,            \* ... and its order: <<a, b>> when a was inserted first
  refs,             \* _block_ref_counts
  cached,           \* _cached_blocks: prefix key -> block
  blockKey,         \* _block_keys: block -> prefix key
  cacheEpoch,       \* _cache_epoch
  attached,         \* the keys of _allocations ...
  alloc,            \* ... and their _LogicalAllocation
  completionClaims, \* _num_completion_claimed_blocks
  initialClaims,    \* _num_initial_claimed_blocks
  generation,       \* of the loaded model: what callers pass as cache_epoch
  stored            \* the tokens whose K/V the physical page holds

pool == <<free, evictable, older, refs>>
index == <<cached, blockKey, cacheEpoch>>
claims == <<completionClaims, initialClaims>>
vars == <<pool, index, claims, attached, alloc, generation, stored>>

----------------------------------------------------------------------------
(* Blocks, prefix keys and block tables.                                   *)

Blocks == 0 .. NumBlocks - 1
NoBlock == -1

AtMost(a, b) == IF a <= b THEN a ELSE b
AtLeast(a, b) == IF a >= b THEN a ELSE b

BlocksFor(n) == (n + BlockSize - 1) \div BlockSize

NumKeys(r) == (PromptLen[r] - 1) \div BlockSize

(* A key of the prefix index: the epoch is hashed into the digest chain.   *)
PromptKey(g, r, i) == <<g, PromptKeys[r][i]>>

Keys == (0 .. MaxGeneration) \X
          UNION { { PromptKeys[r][i] : i \in 1 .. NumKeys(r) } : r \in Requests }
NoKey == << >>

(* The first n tokens of r's sequence under model g: what a full prompt    *)
(* block completes is named by its key and may be shared, any other prefix *)
(* is r's own.                                                             *)
Fragment(g, r, n) ==
  IF n % BlockSize = 0 /\ n \div BlockSize \in 1 .. NumKeys(r)
  THEN PromptKey(g, r, n \div BlockSize) ELSE <<g, r, n>>

Allocation ==
  [blocks    : Seq(Blocks),  \* block_ids
   guarantee : BOOLEAN,      \* completion_block_limit is not None
   limit     : Nat,          \* completion_block_limit or initial_block_limit
   minFree   : Nat,          \* min_free_blocks
   readonly  : Nat,          \* num_readonly_prefix_blocks
   committed : Nat,          \* num_committed_tokens
   reserved  : Nat]          \* num_reserved_tokens

NoAllocation ==
  [blocks |-> << >>, guarantee |-> FALSE, limit |-> 0, minFree |-> 0,
   readonly |-> 0, committed |-> 0, reserved |-> 0]

Table(r) == alloc[r].blocks
Held(r) == { Table(r)[i] : i \in DOMAIN Table(r) }

(* The capacity set aside for a request beyond the blocks it holds.        *)
Claim(a) == AtLeast(0, a.limit - Len(a.blocks))

NumUsed == NumBlocks - (Cardinality(free) + Cardinality(evictable))
NumClaimed == completionClaims + initialClaims

----------------------------------------------------------------------------
(* The pool: taking and releasing blocks.                                  *)

(* Variant: idle cached blocks are reused before free ones.                *)
TakesCachedFirst(n) ==
  LET k == AtMost(n, Cardinality(evictable))
  IN  { new \in [1 .. n -> free \cup evictable] :
          /\ \A i \in 1 .. k : new[i] \in evictable
          /\ \A i \in k + 1 .. n : new[i] \in free
          /\ \A i, j \in 1 .. n : i # j => new[i] # new[j] }

(* _allocate_block, n times: the lowest free ids first, then the blocks    *)
(* that have been evictable longest.  One sequence qualifies when n blocks *)
(* are available, none when they are not.                                  *)
Takes(n) ==
  LET k == AtMost(n, Cardinality(free))
  IN  { new \in [1 .. n -> free \cup evictable] :
          /\ \A i \in 1 .. k :
               /\ new[i] \in free
               /\ \A b \in free \ { new[j] : j \in 1 .. i } : new[i] < b
          /\ \A i \in k + 1 .. n :
               /\ new[i] \in evictable
               /\ \A b \in evictable \ { new[j] : j \in k + 1 .. i } :
                    <<new[i], b>> \in older
          /\ \A i, j \in 1 .. n : i # j => new[i] # new[j] }

(* Variant: an evicted block stays in _cached_blocks.                      *)
TakeKeepsIndex(new) ==
  LET taken == { new[i] : i \in DOMAIN new }
      kept == evictable \ taken
  IN  /\ free' = free \ taken
      /\ evictable' = kept
      /\ older' = older \cap (kept \X kept)
      /\ refs' = [b \in Blocks |-> IF b \in taken THEN 1 ELSE refs[b]]
      /\ stored' = [b \in Blocks |-> IF b \in taken THEN NoKey ELSE stored[b]]
      /\ UNCHANGED <<blockKey, cached>>

(* What taking the blocks of `new` does to the pool and to both indexes:   *)
(* an evicted block loses its key, and the key its block.                  *)
Take(new) ==
  LET taken == { new[i] : i \in DOMAIN new }
      kept == evictable \ taken
  IN  /\ free' = free \ taken
      /\ evictable' = kept
      /\ older' = older \cap (kept \X kept)
      /\ refs' = [b \in Blocks |-> IF b \in taken THEN 1 ELSE refs[b]]
      /\ blockKey' = [b \in Blocks |-> IF b \in taken THEN NoKey
                                       ELSE blockKey[b]]
      /\ cached' = [k \in Keys |-> IF cached[k] \in taken THEN NoBlock
                                   ELSE cached[k]]
      /\ stored' = [b \in Blocks |-> IF b \in taken THEN NoKey ELSE stored[b]]

(* Variant: a shared block that was idle stays in the LRU order.           *)
AcquireStaysEvictable(shared) ==
  /\ UNCHANGED <<free, evictable, older>>
  /\ refs' = [b \in Blocks |-> refs[b] + (IF b \in shared THEN 1 ELSE 0)]

(* _acquire_block for every block of a matched prefix.                     *)
Acquire(shared) ==
  /\ free' = free
  /\ evictable' = evictable \ shared
  /\ older' = older \cap (evictable' \X evictable')
  /\ refs' = [b \in Blocks |-> refs[b] + (IF b \in shared THEN 1 ELSE 0)]

(* Variant: a block is taken for idle although others still reference it.  *)
ReleaseShared(released, keyOf, content) ==
  LET gone == { released[i] : i \in DOMAIN released }
      keyed == { b \in gone : keyOf[b] # NoKey }
  IN  /\ free' = free \cup (gone \ keyed)
      /\ evictable' = evictable \cup keyed
      /\ older' = older \cup (evictable \X keyed)
      /\ refs' = [b \in Blocks |-> refs[b] - (IF b \in gone THEN 1 ELSE 0)]
      /\ stored' = content

(* _release_block for every block of the sequence, last one first: blocks  *)
(* nobody references any more go back to the heap, or to the young end of  *)
(* the LRU order when the index still names them.  `keyOf` is _block_keys, *)
(* `content` what the pages hold; what a page on the heap holds is         *)
(* nobody's business any more.                                             *)
Release(released, keyOf, content) ==
  LET gone == { released[i] : i \in DOMAIN released }
      idle == { b \in gone : refs[b] = 1 }
      keyed == { b \in idle : keyOf[b] # NoKey }
      later == { <<released[p[2]], released[p[1]]>> :
                   p \in { q \in (DOMAIN released) \X (DOMAIN released) :
                             q[1] < q[2] } }
  IN  /\ free' = free \cup (idle \ keyed)
      /\ evictable' = evictable \cup keyed
      /\ older' = older \cup (evictable \X keyed) \cup
                    (later \cap (keyed \X keyed))
      /\ refs' = [b \in Blocks |-> refs[b] - (IF b \in gone THEN 1 ELSE 0)]
      /\ stored' = [b \in Blocks |-> IF b \in idle \ keyed THEN NoKey
                                     ELSE content[b]]

----------------------------------------------------------------------------
(* The operations.                                                         *)

Init ==
  /\ free = Blocks
  /\ evictable = {} /\ older = {}
  /\ refs = [b \in Blocks |-> 0]
  /\ cached = [k \in Keys |-> NoBlock]
  /\ blockKey = [b \in Blocks |-> NoKey]
  /\ cacheEpoch = -1                        \* _UNSET_CACHE_EPOCH
  /\ attached = {}
  /\ alloc = [r \in Requests |-> NoAllocation]
  /\ completionClaims = 0 /\ initialClaims = 0
  /\ generation = 0
  /\ stored = [b \in Blocks |-> NoKey]

(* The largest m such that the first m prompt keys of r are all cached.    *)
IsMatch(r, m) ==
  /\ \A i \in 1 .. m : cached[PromptKey(generation, r, i)] # NoBlock
  /\ m < NumKeys(r) => cached[PromptKey(generation, r, m + 1)] = NoBlock

(* completion_block_limit or initial_block_limit; 0 stands for an initial  *)
(* limit of None, which claims nothing either.                             *)
BlockLimit(r, a) ==
  CASE a.guarantee -> BlocksFor(MaxCommitted[r])
    [] ~a.guarantee /\ a.extra > 0 ->
         BlocksFor(AtMost(MaxCommitted[r],
                          PromptLen[r] + a.extra * BlockSize))
    [] OTHER -> 0

(* Variant: the idle blocks of a matched prefix are not counted as taken.  *)
NeedWithoutPinned(shared, claim) == NumUsed + NumClaimed + claim

(* What is in use, what is pledged, and what the new request adds to both. *)
Need(shared, claim) ==
  NumUsed + NumClaimed + Cardinality({ b \in shared : refs[b] = 0 }) + claim

Fits(need, a) == need + AtLeast(a.minFree, a.admissionMinFree) <= NumBlocks

Attach(r, a, matched) ==
  LET m == Len(matched)
      limit == BlockLimit(r, a)
      claim == IF limit = 0 THEN 0 ELSE limit - m
  IN  /\ attached' = attached \cup {r}
      /\ alloc' = [alloc EXCEPT ![r] =
           [blocks |-> matched, guarantee |-> a.guarantee, limit |-> limit,
            minFree |-> a.minFree, readonly |-> m,
            committed |-> m * BlockSize, reserved |-> 0]]
      /\ completionClaims' = completionClaims +
                               (IF a.guarantee THEN claim ELSE 0)
      /\ initialClaims' = initialClaims + (IF a.guarantee THEN 0 ELSE claim)

(* try_add_request under the epoch the pool was filled in: match the       *)
(* longest cached prefix, then admit the request only if every claim still *)
(* fits.  A refusal returns None and changes nothing.                      *)
TryAdd(r, a) ==
  /\ r \notin attached
  /\ cacheEpoch = generation
  /\ \E m \in 0 .. NumKeys(r) :
       LET matched == [i \in 1 .. m |-> cached[PromptKey(generation, r, i)]]
           shared == { matched[i] : i \in 1 .. m }
           limit == BlockLimit(r, a)
           claim == IF limit = 0 THEN 0 ELSE limit - m
       IN  /\ IsMatch(r, m)
           /\ Fits(Need(shared, claim), a)
           /\ Acquire(shared)
           /\ Attach(r, a, matched)
  /\ UNCHANGED <<index, generation, stored>>

(* The same call as the first one of a new epoch: _ensure_cache_epoch      *)
(* empties the pool and the index before the admission test, so it stays   *)
(* emptied when the request is refused.  With allocations left it raises.  *)
TryAddNewEpoch(r, a) ==
  /\ cacheEpoch # generation
  /\ attached = {}
  /\ free' = Blocks
  /\ evictable' = {} /\ older' = {}
  /\ refs' = [b \in Blocks |-> 0]
  /\ cached' = [k \in Keys |-> NoBlock]
  /\ blockKey' = [b \in Blocks |-> NoKey]
  /\ cacheEpoch' = generation
  /\ IF Fits(BlockLimit(r, a), a)
     THEN Attach(r, a, << >>)
     ELSE UNCHANGED <<attached, alloc, claims>>
  /\ UNCHANGED <<generation, stored>>

(* Variant: best-effort growth looks at free pages only.                   *)
MayGrowIgnoringClaims(a, count) ==
  IF a.guarantee
  THEN count <= a.limit - Len(a.blocks)
  ELSE count > 0 => NumUsed + count + a.minFree <= NumBlocks

(* Whether reserve() accepts `count` new blocks for the allocation: from   *)
(* its completion claim, or, best effort, from its initial claim and what  *)
(* no claim and no watermark protects.                                     *)
MayGrow(a, count) ==
  IF a.guarantee
  THEN count <= a.limit - Len(a.blocks)
  ELSE count > 0 =>
         NumUsed + NumClaimed + (count - AtMost(count, Claim(a))) + a.minFree
           <= NumBlocks

(* reserve: blocks for the n tokens after the committed ones.  n is what   *)
(* the Scheduler may ask for, never beyond max_num_committed_tokens.  An   *)
(* error leaves everything as it was.                                      *)
Reserve(r, n) ==
  LET a == alloc[r]
      count == BlocksFor(a.committed + n) - Len(a.blocks)
  IN  /\ r \in attached
      /\ a.reserved = 0
      /\ a.committed + n <= MaxCommitted[r]
      /\ MayGrow(a, count)
      /\ \E new \in Takes(count) :
           /\ Take(new)
           /\ alloc' = [alloc EXCEPT ![r].blocks = a.blocks \o new,
                                     ![r].reserved = n]
      /\ completionClaims' = completionClaims -
                               (IF a.guarantee THEN count ELSE 0)
      /\ initialClaims' = initialClaims -
                            (IF a.guarantee THEN 0 ELSE AtMost(count, Claim(a)))
      /\ UNCHANGED <<cacheEpoch, attached, generation>>

(* The execution side has written the committed tokens into r's blocks.    *)
Written(r, from, to) ==
  [b \in Blocks |->
     LET at == { i \in from \div BlockSize + 1 .. BlocksFor(to) :
                   Table(r)[i] = b }
     IN  IF at = {} THEN stored[b]
         ELSE LET i == CHOOSE j \in at : TRUE
              IN  Fragment(generation, r, AtMost(i * BlockSize, to))]

(* Variant: a prompt block counts as complete when it holds any token.     *)
PartialPromptBlocks(r, committed) == AtMost(BlocksFor(committed), NumKeys(r))

(* The prompt blocks that `committed` tokens fill: num_full_prompt_blocks. *)
FullPromptBlocks(r, committed) ==
  AtMost(committed \div BlockSize, NumKeys(r))

(* Variant: every released block is pledged again, past the initial limit. *)
TrimmedClaimPastLimit(a, kept) == Len(a.blocks) - Len(kept.blocks)

(* Variant: nothing is pledged again for a released block.                 *)
TrimmedClaimForgotten(a, kept) == 0

(* What trimming an allocation to `kept` adds to its initial claim.        *)
TrimmedClaim(a, kept) == Claim(kept) - Claim(a)

(* commit: keep the first n reserved tokens, publish the prompt blocks     *)
(* they complete unless the key is known already, and give the blocks that *)
(* hold no committed token back to the pool and to the claim.              *)
Commit(r, n) ==
  LET a == alloc[r]
      committed == a.committed + n
      full == FullPromptBlocks(r, committed)
      publish == { i \in a.readonly + 1 .. full :
                     cached[PromptKey(generation, r, i)] = NoBlock }
      keep == BlocksFor(committed)
      kept == [a EXCEPT !.blocks = SubSeq(a.blocks, 1, keep),
                        !.readonly = full,
                        !.committed = committed,
                        !.reserved = 0]
  IN  /\ r \in attached
      /\ a.reserved > 0
      /\ n <= a.reserved
      /\ cached' = [k \in Keys |->
           IF \E i \in publish : k = PromptKey(generation, r, i)
           THEN a.blocks[CHOOSE i \in publish : k = PromptKey(generation, r, i)]
           ELSE cached[k]]
      /\ blockKey' = [b \in Blocks |->
           IF \E i \in publish : b = a.blocks[i]
           THEN PromptKey(generation, r, CHOOSE i \in publish : b = a.blocks[i])
           ELSE blockKey[b]]
      /\ Release(SubSeq(a.blocks, keep + 1, Len(a.blocks)), blockKey',
                 Written(r, a.committed, committed))
      /\ alloc' = [alloc EXCEPT ![r] = kept]
      /\ completionClaims' = completionClaims +
           (IF a.guarantee THEN Len(a.blocks) - keep ELSE 0)
      /\ initialClaims' = initialClaims +
           (IF a.guarantee THEN 0 ELSE TrimmedClaim(a, kept))
      /\ UNCHANGED <<cacheEpoch, attached, generation>>

(* free: the request leaves with its claims; its blocks are released from  *)
(* the last to the first.                                                  *)
Free(r) ==
  LET a == alloc[r]
  IN  /\ r \in attached
      /\ attached' = attached \ {r}
      /\ alloc' = [alloc EXCEPT ![r] = NoAllocation]
      /\ completionClaims' = completionClaims -
           (IF a.guarantee THEN a.limit - Len(a.blocks) ELSE 0)
      /\ initialClaims' = initialClaims - (IF a.guarantee THEN 0 ELSE Claim(a))
      /\ Release(a.blocks, blockKey, stored)
      /\ UNCHANGED <<index, generation>>

(* A model reload: the worker refuses it while a request is active, builds *)
(* new physical pages and counts a new generation.                         *)
Reload ==
  /\ attached = {}
  /\ generation < MaxGeneration
  /\ generation' = generation + 1
  /\ stored' = [b \in Blocks |-> NoKey]
  /\ UNCHANGED <<pool, index, claims, attached, alloc>>

Next ==
  \/ \E r \in Requests, a \in Admissions : TryAdd(r, a)
  \/ \E r \in Requests, a \in Admissions : TryAddNewEpoch(r, a)
  \/ \E r \in Requests : \E n \in 1 .. MaxReserve : Reserve(r, n)
  \/ \E r \in Requests : \E n \in 0 .. MaxReserve : Commit(r, n)
  \/ \E r \in Requests : Free(r)
  \/ Reload

Spec == Init /\ [][Next]_vars

----------------------------------------------------------------------------
(* Properties.                                                             *)

(* Every field of the manager has its type; a claim is never negative.     *)
TypeOK ==
  /\ free \subseteq Blocks
  /\ evictable \subseteq Blocks
  /\ older \subseteq Blocks \X Blocks
  /\ refs \in [Blocks -> Nat]
  /\ cached \in [Keys -> Blocks \cup {NoBlock}]
  /\ blockKey \in [Blocks -> Keys \cup {NoKey}]
  /\ cacheEpoch \in -1 .. MaxGeneration
  /\ attached \subseteq Requests
  /\ alloc \in [Requests -> Allocation]
  /\ completionClaims \in Nat /\ initialClaims \in Nat
  /\ generation \in 0 .. MaxGeneration
  /\ DOMAIN stored = Blocks

Holders(b) == { r \in attached : b \in Held(r) }
Referenced == { b \in Blocks : refs[b] > 0 }

(* Every block is in exactly one place: on the heap, reusable in LRU       *)
(* order, or in as many block tables as its reference count says; a table  *)
(* names a block once.  What sharing, trimming, evicting and freeing       *)
(* together must keep.                                                     *)
PoolExact ==
  /\ \A b \in Blocks : refs[b] = Cardinality(Holders(b))
  /\ free \cap evictable = {}
  /\ free \cup evictable = Blocks \ Referenced
  /\ \A r \in attached : \A i, j \in DOMAIN Table(r) :
       Table(r)[i] = Table(r)[j] => i = j
  /\ \A a, b \in evictable : a # b => (<<a, b>> \in older <=> <<b, a>> \notin older)

(* The two prefix indexes are inverse to each other; exactly the indexed   *)
(* blocks go to the LRU order when they are idle; and while the index      *)
(* belongs to the loaded model, a published page holds what its key says.  *)
IndexSound ==
  /\ \A k \in Keys : cached[k] # NoBlock => blockKey[cached[k]] = k
  /\ \A b \in Blocks : blockKey[b] # NoKey => cached[blockKey[b]] = b
  /\ \A b \in evictable : blockKey[b] # NoKey
  /\ \A b \in free : blockKey[b] = NoKey
  /\ cacheEpoch = generation =>
       \A b \in Blocks : blockKey[b] # NoKey => stored[b] = blockKey[b]

(* Sharing is invisible: the block table of a request holds its own        *)
(* committed tokens, whoever computed them.                                *)
CommittedContent ==
  \A r \in attached :
    /\ Len(Table(r)) >= BlocksFor(alloc[r].committed)
    /\ \A i \in 1 .. BlocksFor(alloc[r].committed) :
         stored[Table(r)[i]] =
           Fragment(generation, r, AtMost(i * BlockSize, alloc[r].committed))

(* What a request may still write, every block from its first uncommitted  *)
(* token on, is in no other table and not in the prefix index.             *)
WritableIsPrivate ==
  \A r \in attached :
    \A i \in alloc[r].committed \div BlockSize + 1 .. Len(Table(r)) :
      refs[Table(r)[i]] = 1 /\ blockKey[Table(r)[i]] = NoKey

Strict == { r \in attached : alloc[r].guarantee }

Pledged(S) == UNION { {r} \X (1 .. Claim(alloc[r])) : r \in S }

(* The two claim counters are the sums of what the allocations are owed,   *)
(* and with the blocks in use they fit the pool: "used unique blocks +     *)
(* claims <= capacity".                                                    *)
ClaimsExact ==
  /\ completionClaims = Cardinality(Pledged(Strict))
  /\ initialClaims = Cardinality(Pledged(attached \ Strict))
  /\ NumUsed + NumClaimed <= NumBlocks

(* A strict request is never refused a reservation up to its maximum       *)
(* length: its claim covers the blocks, and that many are available,       *)
(* whatever the other requests did since it was admitted.                  *)
StrictAlwaysServed ==
  \A r \in Strict :
    LET a == alloc[r]
        most == BlocksFor(MaxCommitted[r]) - Len(a.blocks)
    IN  a.reserved = 0 =>
          /\ MayGrow(a, most)
          /\ most <= Cardinality(free) + Cardinality(evictable)

(* A cached prefix block is given up only to an allocation that found the  *)
(* heap empty, only when nobody references it, and only after every block  *)
(* that has been idle longer; or with the whole index, when the epoch      *)
(* changes.                                                                *)
EvictionOnlyUnderPressure ==
  [][ \A k \in Keys :
        (cached[k] # NoBlock /\ cached'[k] # cached[k]) =>
          \/ cacheEpoch' # cacheEpoch
          \/ /\ refs[cached[k]] = 0
             /\ free' = {}
             /\ \A b \in evictable : <<b, cached[k]>> \in older => b \notin evictable'
    ]_vars

(* PagedKVCache implements the capacity ledger.                            *)
Ledger == INSTANCE KVLedger
  WITH Capacity <- NumBlocks,
       used <- NumUsed,
       claim <- [r \in Requests |-> Claim(alloc[r])]

ImplementsLedger == Ledger!Spec

(* The comment in `free`: blocks are released from the last to the first   *)
(* so that no page is left in the index that cannot be reached from the    *)
(* root, because the page before it was evicted first.                     *)
NoOrphanedPages ==
  \A r \in Requests : \A i \in 2 .. NumKeys(r) :
    (cacheEpoch = generation /\ cached[PromptKey(generation, r, i)] # NoBlock) =>
      cached[PromptKey(generation, r, i - 1)] # NoBlock

=============================================================================
