------------------------ MODULE PagedKVCache_proofs ------------------------
(***************************************************************************)
(* Proofs about PagedKVCache, for any pool, block size, set of requests    *)
(* and prompts: the pool accounts for every block, the prefix index never  *)
(* lies, a request reads its own tokens and writes to nobody else's, every *)
(* claim is covered, and the manager implements the capacity ledger.       *)
(***************************************************************************)
EXTENDS PagedKVCache, DataLemmas

(* The inductive invariant is what the runs check, and four facts that     *)
(* they take from it.  The LRU order is about the evictable blocks.        *)
Ordered == older \subseteq evictable \X evictable

(* The index is never ahead of the model, and while a request is attached  *)
(* it is the model's.                                                      *)
Epochs ==
  /\ cacheEpoch <= generation
  /\ attached # {} => cacheEpoch = generation

(* Nothing is kept of a request that has left.                             *)
Detached == \A r \in Requests \ attached : alloc[r] = NoAllocation

(* A block table is as long as the tokens it was asked for, committed and  *)
(* reserved; a strict request claims its maximum; the pages a request may  *)
(* not write any more are the prompt pages it has filled.                  *)
Tables ==
  \A r \in attached :
    LET a == alloc[r]
    IN  /\ Len(a.blocks) = BlocksFor(a.committed + a.reserved)
        /\ a.committed + a.reserved <= MaxCommitted[r]
        /\ a.guarantee => a.limit = BlocksFor(MaxCommitted[r])
        /\ a.readonly = FullPromptBlocks(r, a.committed)

CacheInv ==
  /\ TypeOK /\ Ordered /\ Epochs /\ Detached /\ Tables
  /\ PoolExact /\ IndexSound /\ CommittedContent /\ WritableIsPrivate
  /\ ClaimsExact

----------------------------------------------------------------------------
(* Whole blocks, and the tokens they hold.                                 *)

(* n tokens fill n \div BlockSize blocks and need at most one more.        *)
LEMMA BlockCount ==
  ASSUME NEW n \in Nat
  PROVE  /\ n \div BlockSize \in Nat
         /\ n % BlockSize \in 0 .. BlockSize - 1
         /\ (n \div BlockSize) * BlockSize <= n
         /\ n < (n \div BlockSize) * BlockSize + BlockSize
         /\ BlocksFor(n) \in Nat
         /\ n <= BlocksFor(n) * BlockSize
         /\ BlocksFor(n) * BlockSize < n + BlockSize
  <1>1. BlockSize \in Nat \ {0}
    BY CapacityAssumption
  <1>2. ASSUME NEW m \in Nat
        PROVE  /\ m \div BlockSize \in Nat
               /\ m % BlockSize \in 0 .. BlockSize - 1
               /\ m = (m \div BlockSize) * BlockSize + (m % BlockSize)
    BY <1>1
  <1>3. n + BlockSize - 1 \in Nat
    BY <1>1
  <1>4. (n \div BlockSize) * BlockSize \in Nat
    BY <1>1, <1>2
  <1>. QED  BY <1>1, <1>2, <1>3, <1>4 DEF BlocksFor

(* i blocks are full with n tokens exactly when they hold at most n, and   *)
(* needed for them exactly when i - 1 blocks do not hold them.             *)
LEMMA FullBlocks ==
  ASSUME NEW n \in Nat, NEW i \in Nat
  PROVE  /\ i * BlockSize \in Nat
         /\ i <= n \div BlockSize <=> i * BlockSize <= n
         /\ i <= BlocksFor(n) <=> i * BlockSize < n + BlockSize
  <1> DEFINE q == n \div BlockSize
             m == BlocksFor(n)
  <1>1. BlockSize \in Nat \ {0}
    BY CapacityAssumption
  <1>2. /\ q \in Nat /\ q * BlockSize <= n /\ n < q * BlockSize + BlockSize
        /\ m \in Nat /\ n <= m * BlockSize /\ m * BlockSize < n + BlockSize
    BY BlockCount
  <1>3. /\ i * BlockSize \in Nat /\ q * BlockSize \in Nat /\ m * BlockSize \in Nat
        /\ i <= q => i * BlockSize <= q * BlockSize
        /\ i <= m => i * BlockSize <= m * BlockSize
        /\ i * BlockSize < q * BlockSize + BlockSize => i <= q
        /\ i * BlockSize < m * BlockSize + BlockSize => i <= m
    BY <1>1, <1>2, Multiples
  <1> HIDE DEF q, m
  <1>4. /\ i <= q <=> i * BlockSize <= n
        /\ i <= m <=> i * BlockSize < n + BlockSize
    BY <1>1, <1>2, <1>3
  <1>. QED  BY <1>3, <1>4 DEF q, m

(* More tokens fill and need no fewer blocks.                              *)
LEMMA BlocksMonotone ==
  ASSUME NEW m \in Nat, NEW n \in Nat, m <= n
  PROVE  /\ BlocksFor(m) <= BlocksFor(n)
         /\ m \div BlockSize <= n \div BlockSize
         /\ n \div BlockSize <= BlocksFor(n)
  <1>1. BlockSize \in Nat \ {0}
    BY CapacityAssumption
  <1>2. BlocksFor(m) \in Nat /\ BlocksFor(m) * BlockSize < m + BlockSize
    BY BlockCount
  <1>3. BlocksFor(m) <= BlocksFor(n)
    BY <1>1, <1>2, FullBlocks
  <1>4. /\ m \div BlockSize \in Nat /\ (m \div BlockSize) * BlockSize <= m
        /\ n \div BlockSize \in Nat /\ (n \div BlockSize) * BlockSize <= n
    BY BlockCount
  <1>5. m \div BlockSize <= n \div BlockSize
    BY <1>1, <1>4, FullBlocks
  <1>6. n \div BlockSize <= BlocksFor(n)
    BY <1>1, <1>4, FullBlocks
  <1>. QED  BY <1>3, <1>5, <1>6

(* m full blocks are just that.                                            *)
LEMMA WholeBlocks ==
  ASSUME NEW m \in Nat
  PROVE  /\ m * BlockSize \in Nat
         /\ (m * BlockSize) \div BlockSize = m
         /\ (m * BlockSize) % BlockSize = 0
         /\ BlocksFor(m * BlockSize) = m
  <1>1. BlockSize \in Nat \ {0}
    BY CapacityAssumption
  <1>2. m * BlockSize \in Nat /\ (m * BlockSize) \div BlockSize = m
    BY <1>1
  <1>3. (m * BlockSize) % BlockSize = 0
    BY <1>1
  <1>4. (m * BlockSize + BlockSize - 1) \div BlockSize = m
    BY <1>1, Multiples
  <1>. QED  BY <1>2, <1>3, <1>4 DEF BlocksFor

(* The prompt pages of a request end before its prompt does.               *)
LEMMA PromptPages ==
  ASSUME NEW r \in Requests
  PROVE  /\ NumKeys(r) \in Nat
         /\ NumKeys(r) * BlockSize < PromptLen[r]
         /\ PromptLen[r] \in Nat /\ MaxCommitted[r] \in Nat
         /\ PromptLen[r] <= MaxCommitted[r]
         /\ DOMAIN PromptKeys[r] = 1 .. NumKeys(r)
  <1>1. /\ PromptLen[r] \in Nat \ {0} /\ MaxCommitted[r] \in Nat
        /\ PromptLen[r] <= MaxCommitted[r]
    BY RequestAssumption
  <1>2. PromptLen[r] - 1 \in Nat
    BY <1>1
  <1>3. /\ (PromptLen[r] - 1) \div BlockSize \in Nat
        /\ ((PromptLen[r] - 1) \div BlockSize) * BlockSize <= PromptLen[r] - 1
    BY <1>2, BlockCount
  <1>4. ((PromptLen[r] - 1) \div BlockSize) * BlockSize \in Nat
    BY <1>3, CapacityAssumption
  <1>5. DOMAIN PromptKeys[r] = 1 .. (PromptLen[r] - 1) \div BlockSize
    BY KeyAssumption
  <1>. QED  BY <1>1, <1>3, <1>4, <1>5 DEF NumKeys

(* The key of a prompt page is in the index's range, is no other page's of *)
(* the same request, and names the tokens up to the end of the page.       *)
LEMMA PageKeys ==
  ASSUME NEW r \in Requests, NEW g \in 0 .. MaxGeneration,
         NEW i \in 1 .. NumKeys(r)
  PROVE  /\ PromptKey(g, r, i) \in Keys
         /\ \A j \in 1 .. NumKeys(r) :
              PromptKey(g, r, i) = PromptKey(g, r, j) => i = j
         /\ Fragment(g, r, i * BlockSize) = PromptKey(g, r, i)
  <1>1. NumKeys(r) \in Nat /\ DOMAIN PromptKeys[r] = 1 .. NumKeys(r)
    BY PromptPages
  <1>2. PromptKey(g, r, i) \in Keys
    BY DEF PromptKey, Keys
  <1>3. ASSUME NEW j \in 1 .. NumKeys(r), PromptKey(g, r, i) = PromptKey(g, r, j)
        PROVE  i = j
    <2>1. PromptKeys[r][i] = PromptKeys[r][j]
      BY <1>3 DEF PromptKey
    <2>. QED  BY <2>1, <1>1, KeyAssumption
  <1>4. /\ (i * BlockSize) \div BlockSize = i
        /\ (i * BlockSize) % BlockSize = 0
    BY <1>1, WholeBlocks
  <1>5. Fragment(g, r, i * BlockSize) = PromptKey(g, r, i)
    BY <1>4 DEF Fragment
  <1>. QED  BY <1>2, <1>3, <1>5

(* A key is never the absence of one.                                      *)
LEMMA KeysAreKeys ==
  NoKey \notin Keys
  BY DEF Keys, NoKey

----------------------------------------------------------------------------
(* The pool: who holds a block, and how many blocks there are.             *)

(* Every set of blocks is finite, and so is every set of requests.         *)
LEMMA FiniteSets ==
  /\ \A S \in SUBSET Blocks : IsFiniteSet(S) /\ Cardinality(S) \in Nat
  /\ \A S \in SUBSET Requests : IsFiniteSet(S) /\ Cardinality(S) \in Nat
  /\ IsFiniteSet(Blocks) /\ Cardinality(Blocks) = NumBlocks
  <1>1. NumBlocks \in Nat \ {0} /\ IsFiniteSet(Requests)
    BY CapacityAssumption, RequestAssumption
  <1>2. IsFiniteSet(Blocks) /\ Cardinality(Blocks) = NumBlocks
    BY <1>1, FS_Interval DEF Blocks
  <1>3. \A S \in SUBSET Blocks : IsFiniteSet(S)
    BY <1>2, FS_Subset
  <1>4. \A S \in SUBSET Requests : IsFiniteSet(S)
    BY <1>1, FS_Subset
  <1>. QED  BY <1>2, <1>3, <1>4, FS_CardinalityType

(* A block table lists blocks, at the positions 1 .. Len.                  *)
LEMMA TableType ==
  ASSUME TypeOK, NEW r \in Requests
  PROVE  /\ alloc[r] \in Allocation
         /\ Table(r) \in Seq(Blocks) /\ Len(Table(r)) \in Nat
         /\ DOMAIN Table(r) = 1 .. Len(Table(r))
         /\ \A i \in 1 .. Len(Table(r)) : Table(r)[i] \in Blocks
         /\ Held(r) \subseteq Blocks
         /\ Held(r) = { Table(r)[i] : i \in 1 .. Len(Table(r)) }
  <1>1. alloc[r] \in Allocation
    BY DEF TypeOK
  <1>2. Table(r) \in Seq(Blocks)
    BY <1>1 DEF Allocation, Table
  <1>. QED  BY <1>1, <1>2 DEF Held

(* A block in a table is referenced, so it is not idle.                    *)
LEMMA HeldIsReferenced ==
  ASSUME TypeOK, PoolExact, NEW r \in attached, NEW b \in Held(r)
  PROVE  /\ b \in Blocks /\ refs[b] \in Nat /\ refs[b] > 0
         /\ b \notin free /\ b \notin evictable
  <1>1. r \in Requests
    BY DEF TypeOK
  <1>2. b \in Blocks /\ refs[b] \in Nat
    BY <1>1, TableType DEF TypeOK
  <1>3. r \in Holders(b) /\ Holders(b) \in SUBSET Requests
    BY DEF Holders, TypeOK
  <1>4. IsFiniteSet(Holders(b)) /\ Holders(b) # {}
    BY <1>3, FiniteSets
  <1>5. Cardinality(Holders(b)) # 0
    BY <1>4, FS_EmptySet
  <1>6. refs[b] > 0
    BY <1>2, <1>5 DEF PoolExact
  <1>. QED  BY <1>2, <1>6 DEF PoolExact, Referenced

(* An idle block is in no table.                                           *)
LEMMA IdleIsUnheld ==
  ASSUME TypeOK, PoolExact, NEW b \in free \cup evictable
  PROVE  /\ b \in Blocks /\ refs[b] = 0 /\ Holders(b) = {}
         /\ \A r \in attached : b \notin Held(r)
  <1>1. b \in Blocks /\ refs[b] = 0
    BY DEF TypeOK, PoolExact, Referenced
  <1>2. \A r \in attached : b \notin Held(r)
    BY HeldIsReferenced
  <1>. QED  BY <1>1, <1>2 DEF Holders

(* A block with one reference has one holder.                              *)
LEMMA SoleHolder ==
  ASSUME TypeOK, PoolExact, NEW r \in attached, NEW q \in attached,
         NEW b \in Held(r), b \in Held(q), refs[b] = 1
  PROVE  r = q
  <1>1. r \in Holders(b) /\ q \in Holders(b) /\ Holders(b) \in SUBSET Requests
    BY DEF Holders, TypeOK
  <1>2. b \in Blocks
    BY HeldIsReferenced
  <1>3. IsFiniteSet(Holders(b)) /\ Cardinality(Holders(b)) = 1
    BY <1>1, <1>2, FiniteSets DEF PoolExact
  <1>. QED  BY <1>1, <1>3, OnlyOne

(* The blocks in use are those not idle, a number of them.                 *)
LEMMA UsedBlocks ==
  ASSUME free \subseteq Blocks, evictable \subseteq Blocks,
         free \cap evictable = {}
  PROVE  /\ NumUsed \in Nat /\ NumUsed <= NumBlocks
         /\ Cardinality(free \cup evictable) = Cardinality(free) + Cardinality(evictable)
         /\ Cardinality(free) \in Nat /\ Cardinality(evictable) \in Nat
         /\ NumUsed = NumBlocks - Cardinality(free \cup evictable)
  <1>1. IsFiniteSet(free) /\ IsFiniteSet(evictable) /\ IsFiniteSet(Blocks)
        /\ Cardinality(Blocks) = NumBlocks
    BY FiniteSets
  <1>2. Cardinality(free) \in Nat /\ Cardinality(evictable) \in Nat
    BY FiniteSets
  <1>3. Cardinality(free \cup evictable) = Cardinality(free) + Cardinality(evictable)
    BY <1>1, DisjointSizes
  <1>4. free \cup evictable \in SUBSET Blocks
    OBVIOUS
  <1>5. Cardinality(free \cup evictable) <= NumBlocks
    BY <1>1, <1>4, FS_Subset
  <1>6. NumBlocks \in Nat
    BY CapacityAssumption
  <1>. QED  BY <1>2, <1>3, <1>5, <1>6 DEF NumUsed

----------------------------------------------------------------------------
(* try_add_request.                                                        *)

(* A prefix match finds pages that hold what their keys say, one for each  *)
(* key, and none of them on the heap.                                      *)
LEMMA MatchedPages ==
  ASSUME CacheInv, cacheEpoch = generation, NEW r \in Requests,
         NEW m \in 0 .. NumKeys(r), IsMatch(r, m), NEW matched,
         matched = [i \in 1 .. m |-> cached[PromptKey(generation, r, i)]]
  PROVE  /\ m \in Nat /\ matched \in Seq(Blocks) /\ Len(matched) = m
         /\ \A i \in 1 .. m :
              /\ matched[i] \in Blocks \ free
              /\ blockKey[matched[i]] = PromptKey(generation, r, i)
              /\ blockKey[matched[i]] # NoKey
              /\ stored[matched[i]] = PromptKey(generation, r, i)
         /\ \A i, j \in 1 .. m : matched[i] = matched[j] => i = j
  <1>1. m \in Nat /\ 1 .. m \subseteq 1 .. NumKeys(r)
    BY PromptPages
  <1>2. generation \in 0 .. MaxGeneration
    BY DEF CacheInv, TypeOK
  <1>3. ASSUME NEW i \in 1 .. m
        PROVE  /\ matched[i] \in Blocks \ free
               /\ blockKey[matched[i]] = PromptKey(generation, r, i)
               /\ blockKey[matched[i]] # NoKey
               /\ stored[matched[i]] = PromptKey(generation, r, i)
    <2> DEFINE k == PromptKey(generation, r, i)
    <2>1. k \in Keys /\ k # NoKey
      BY <1>1, <1>2, PageKeys, KeysAreKeys
    <2>2. cached[k] # NoBlock /\ matched[i] = cached[k]
      BY DEF IsMatch
    <2> HIDE DEF k
    <2>3. cached[k] \in Blocks /\ blockKey[cached[k]] = k
      BY <2>1, <2>2 DEF CacheInv, TypeOK, IndexSound
    <2>4. stored[cached[k]] = k /\ cached[k] \notin free
      BY <2>1, <2>3 DEF CacheInv, IndexSound
    <2>. QED  BY <2>1, <2>2, <2>3, <2>4 DEF k
  <1>4. \A i, j \in 1 .. m : matched[i] = matched[j] => i = j
    BY <1>1, <1>2, <1>3, PageKeys
  <1>. QED  BY <1>1, <1>3, <1>4

(* The limits of an admission cover the prompt pages it may share.         *)
LEMMA LimitCoversPages ==
  ASSUME NEW r \in Requests, NEW a \in Admissions, NEW m \in 0 .. NumKeys(r)
  PROVE  /\ BlockLimit(r, a) \in Nat
         /\ a.guarantee => BlockLimit(r, a) = BlocksFor(MaxCommitted[r])
         /\ BlockLimit(r, a) # 0 => m <= BlockLimit(r, a)
         /\ m * BlockSize \in Nat /\ m * BlockSize < MaxCommitted[r]
         /\ a.guarantee \in BOOLEAN /\ a.extra \in Nat
         /\ a.minFree \in Nat /\ a.admissionMinFree \in Nat
  <1>1. a \in Admission /\ BlockSize \in Nat \ {0}
    BY AdmissionAssumption, CapacityAssumption
  <1>2. /\ NumKeys(r) \in Nat /\ NumKeys(r) * BlockSize < PromptLen[r]
        /\ PromptLen[r] \in Nat /\ MaxCommitted[r] \in Nat
        /\ PromptLen[r] <= MaxCommitted[r]
    BY PromptPages
  <1>3. m \in Nat /\ m * BlockSize \in Nat /\ m * BlockSize <= NumKeys(r) * BlockSize
        /\ NumKeys(r) * BlockSize \in Nat
    BY <1>1, <1>2, Multiples
  <1>4. m * BlockSize < MaxCommitted[r] /\ m * BlockSize < PromptLen[r]
    BY <1>2, <1>3
  <1>5. ASSUME NEW n \in Nat, PromptLen[r] <= n
        PROVE  BlocksFor(n) \in Nat /\ m <= BlocksFor(n)
    <2>1. m * BlockSize <= n
      BY <1>2, <1>3, <1>4, <1>5
    <2>2. m <= BlocksFor(n) <=> m * BlockSize < n + BlockSize
      BY <1>3, FullBlocks
    <2>3. BlocksFor(n) \in Nat
      BY BlockCount
    <2>. QED  BY <1>1, <1>3, <2>1, <2>2, <2>3
  <1>6. a.extra * BlockSize \in Nat /\ a.extra \in Nat
    BY <1>1, Multiples DEF Admission
  <1> DEFINE n == AtMost(MaxCommitted[r], PromptLen[r] + a.extra * BlockSize)
  <1>7. n \in Nat /\ PromptLen[r] <= n
    BY <1>2, <1>6 DEF AtMost
  <1> HIDE DEF n
  <1>8. BlocksFor(n) \in Nat /\ m <= BlocksFor(n)
    BY <1>5, <1>7
  <1>9. BlocksFor(MaxCommitted[r]) \in Nat /\ m <= BlocksFor(MaxCommitted[r])
    BY <1>2, <1>5
  <1>10. /\ BlockLimit(r, a) \in {BlocksFor(MaxCommitted[r]), BlocksFor(n), 0}
         /\ a.guarantee => BlockLimit(r, a) = BlocksFor(MaxCommitted[r])
    BY DEF BlockLimit, n
  <1>. QED  BY <1>1, <1>3, <1>4, <1>8, <1>9, <1>10 DEF Admission

----------------------------------------------------------------------------
(* The claims, as sums over all requests: a request without an allocation  *)
(* claims nothing, a strict one nothing initial and a best-effort one      *)
(* nothing towards its completion.                                         *)

ClaimsIn(al) == [r \in Requests |-> Claim(al[r])]
StrictClaimsIn(al) ==
  [r \in Requests |-> IF al[r].guarantee THEN Claim(al[r]) ELSE 0]
InitialClaimsIn(al) ==
  [r \in Requests |-> IF al[r].guarantee THEN 0 ELSE Claim(al[r])]

(* A claim is a number of blocks, and a request that has left has none.    *)
LEMMA ClaimType ==
  /\ \A a \in Allocation :
       /\ Claim(a) \in Nat
       /\ Len(a.blocks) <= a.limit => Claim(a) = a.limit - Len(a.blocks)
       /\ Len(a.blocks) >= a.limit => Claim(a) = 0
  /\ NoAllocation \in Allocation
  /\ Claim(NoAllocation) = 0
  <1>1. NoAllocation \in Allocation /\ Claim(NoAllocation) = 0
    BY DEF NoAllocation, Allocation, Claim, AtLeast
  <1>2. ASSUME NEW a \in Allocation
        PROVE  /\ Claim(a) \in Nat
               /\ Len(a.blocks) <= a.limit => Claim(a) = a.limit - Len(a.blocks)
               /\ Len(a.blocks) >= a.limit => Claim(a) = 0
    <2>1. a.limit \in Nat /\ Len(a.blocks) \in Nat
      BY DEF Allocation
    <2>. QED  BY <2>1 DEF Claim, AtLeast
  <1>. QED  BY <1>1, <1>2

(* The two counters count these sums, and together all claims.             *)
LEMMA ClaimSums ==
  ASSUME NEW al \in [Requests -> Allocation], NEW at \in SUBSET Requests,
         \A r \in Requests \ at : al[r] = NoAllocation
  PROVE  LET strict == { r \in at : al[r].guarantee }
             pledged(S) == UNION { {r} \X (1 .. Claim(al[r])) : r \in S }
         IN  /\ pledged(strict) = PledgesOf(StrictClaimsIn(al), Requests)
             /\ pledged(at \ strict) = PledgesOf(InitialClaimsIn(al), Requests)
             /\ Cardinality(PledgesOf(ClaimsIn(al), Requests)) =
                  Cardinality(PledgesOf(StrictClaimsIn(al), Requests))
                    + Cardinality(PledgesOf(InitialClaimsIn(al), Requests))
             /\ \A r \in Requests : /\ ClaimsIn(al)[r] \in Nat
                                    /\ StrictClaimsIn(al)[r] \in Nat
                                    /\ InitialClaimsIn(al)[r] \in Nat
  <1> DEFINE strict == { r \in at : al[r].guarantee }
             pledged(S) == UNION { {r} \X (1 .. Claim(al[r])) : r \in S }
  <1>1. \A r \in Requests : /\ Claim(al[r]) \in Nat
                            /\ r \notin at => /\ Claim(al[r]) = 0
                                              /\ ~al[r].guarantee
    BY ClaimType DEF NoAllocation
  <1>2. \A S \in SUBSET Requests : pledged(S) = PledgesOf(ClaimsIn(al), S)
    BY DEF PledgesOf, ClaimsIn
  <1>3. \A x : x \in PledgesOf(ClaimsIn(al), strict) <=>
                 x \in PledgesOf(StrictClaimsIn(al), Requests)
    BY <1>1, PledgeElement DEF ClaimsIn, StrictClaimsIn
  <1>4. \A x : x \in PledgesOf(ClaimsIn(al), at \ strict) <=>
                 x \in PledgesOf(InitialClaimsIn(al), Requests)
    BY <1>1, PledgeElement DEF ClaimsIn, InitialClaimsIn
  <1>5. \A x : x \in PledgesOf(ClaimsIn(al), Requests) <=>
                 x \in PledgesOf(ClaimsIn(al), strict \cup (at \ strict))
    BY <1>1, PledgeElement DEF ClaimsIn
  <1>6. \A r \in Requests : /\ ClaimsIn(al)[r] \in Nat
                            /\ StrictClaimsIn(al)[r] \in Nat
                            /\ InitialClaimsIn(al)[r] \in Nat
    BY <1>1 DEF ClaimsIn, StrictClaimsIn, InitialClaimsIn
  <1>7. IsFiniteSet(strict) /\ IsFiniteSet(at \ strict)
    BY FiniteSets
  <1>8. Cardinality(PledgesOf(ClaimsIn(al), strict \cup (at \ strict))) =
          Cardinality(PledgesOf(ClaimsIn(al), strict))
            + Cardinality(PledgesOf(ClaimsIn(al), at \ strict))
    BY <1>6, <1>7, PledgesAddUp
  <1>9. /\ PledgesOf(ClaimsIn(al), strict) = PledgesOf(StrictClaimsIn(al), Requests)
        /\ PledgesOf(ClaimsIn(al), at \ strict) =
             PledgesOf(InitialClaimsIn(al), Requests)
        /\ PledgesOf(ClaimsIn(al), Requests) =
             PledgesOf(ClaimsIn(al), strict \cup (at \ strict))
    BY <1>3, <1>4, <1>5
  <1>10. /\ pledged(strict) = PledgesOf(ClaimsIn(al), strict)
         /\ pledged(at \ strict) = PledgesOf(ClaimsIn(al), at \ strict)
    BY <1>2
  <1>. QED  BY <1>6, <1>8, <1>9, <1>10, Zenon

(* An operation that changes the allocation of one request, the counters   *)
(* by what its claim changes, and takes no more than there is, keeps the   *)
(* claims exact and covered.                                               *)
LEMMA ClaimsFollow ==
  ASSUME TypeOK, Detached, ClaimsExact, NEW r \in Requests,
         alloc' \in [Requests -> Allocation], attached' \in SUBSET Requests,
         Detached', \A q \in Requests \ {r} : alloc'[q] = alloc[q],
         completionClaims' = completionClaims
           + (StrictClaimsIn(alloc')[r] - StrictClaimsIn(alloc)[r]),
         initialClaims' = initialClaims
           + (InitialClaimsIn(alloc')[r] - InitialClaimsIn(alloc)[r]),
         NumUsed' + NumClaimed' <= NumBlocks
  PROVE  ClaimsExact' /\ completionClaims' \in Nat /\ initialClaims' \in Nat
  <1>1. alloc \in [Requests -> Allocation] /\ attached \in SUBSET Requests
    BY DEF TypeOK
  <1>2. /\ Pledged(Strict) = PledgesOf(StrictClaimsIn(alloc), Requests)
        /\ Pledged(attached \ Strict) = PledgesOf(InitialClaimsIn(alloc), Requests)
        /\ \A q \in Requests : /\ StrictClaimsIn(alloc)[q] \in Nat
                               /\ InitialClaimsIn(alloc)[q] \in Nat
    BY <1>1, ClaimSums DEF Detached, Pledged, Strict
  <1>3. /\ Pledged(Strict)' = PledgesOf(StrictClaimsIn(alloc'), Requests)
        /\ Pledged(attached \ Strict)' = PledgesOf(InitialClaimsIn(alloc'), Requests)
        /\ \A q \in Requests : /\ StrictClaimsIn(alloc')[q] \in Nat
                               /\ InitialClaimsIn(alloc')[q] \in Nat
    BY ClaimSums DEF Detached, Pledged, Strict
  <1>4. \A q \in Requests \ {r} :
          /\ StrictClaimsIn(alloc)[q] = StrictClaimsIn(alloc')[q]
          /\ InitialClaimsIn(alloc)[q] = InitialClaimsIn(alloc')[q]
    BY DEF StrictClaimsIn, InitialClaimsIn
  <1>5. IsFiniteSet(Requests)
    BY RequestAssumption
  <1>6. Cardinality(PledgesOf(StrictClaimsIn(alloc'), Requests)) =
          Cardinality(PledgesOf(StrictClaimsIn(alloc), Requests))
            + StrictClaimsIn(alloc')[r] - StrictClaimsIn(alloc)[r]
    BY <1>2, <1>3, <1>4, <1>5, PledgesChange
  <1>7. Cardinality(PledgesOf(InitialClaimsIn(alloc'), Requests)) =
          Cardinality(PledgesOf(InitialClaimsIn(alloc), Requests))
            + InitialClaimsIn(alloc')[r] - InitialClaimsIn(alloc)[r]
    BY <1>2, <1>3, <1>4, <1>5, PledgesChange
  <1>8. /\ Cardinality(PledgesOf(StrictClaimsIn(alloc'), Requests)) \in Nat
        /\ Cardinality(PledgesOf(InitialClaimsIn(alloc'), Requests)) \in Nat
    BY <1>3, <1>5, PledgesFinite
  <1>9. /\ completionClaims = Cardinality(PledgesOf(StrictClaimsIn(alloc), Requests))
        /\ initialClaims = Cardinality(PledgesOf(InitialClaimsIn(alloc), Requests))
        /\ completionClaims \in Nat /\ initialClaims \in Nat
    BY <1>2, Zenon DEF ClaimsExact, TypeOK
  <1>10. /\ completionClaims' = Cardinality(PledgesOf(StrictClaimsIn(alloc'), Requests))
         /\ initialClaims' = Cardinality(PledgesOf(InitialClaimsIn(alloc'), Requests))
    BY <1>2, <1>3, <1>6, <1>7, <1>9
  <1>11. /\ completionClaims' = Cardinality(Pledged(Strict)')
         /\ initialClaims' = Cardinality(Pledged(attached \ Strict)')
    BY <1>3, <1>10, Zenon
  <1>. QED  BY <1>8, <1>10, <1>11 DEF ClaimsExact

----------------------------------------------------------------------------
(* try_add_request, continued: what it changes and what it keeps.          *)

(* The allocation of an admitted request.                                  *)
Admitted(r, a, matched) ==
  [blocks |-> matched, guarantee |-> a.guarantee, limit |-> BlockLimit(r, a),
   minFree |-> a.minFree, readonly |-> Len(matched),
   committed |-> Len(matched) * BlockSize, reserved |-> 0]

(* What it is pledged beyond them.                                         *)
AdmittedClaim(r, a, matched) ==
  IF BlockLimit(r, a) = 0 THEN 0 ELSE BlockLimit(r, a) - Len(matched)

(* Attaching a request with its matched pages is right about its own       *)
(* allocation, its claim and the counters.                                 *)
LEMMA AttachFacts ==
  ASSUME TypeOK, Detached, NEW r \in Requests, r \notin attached,
         NEW a \in Admissions, NEW matched \in Seq(Blocks),
         Len(matched) <= NumKeys(r), Attach(r, a, matched)
  PROVE  /\ Admitted(r, a, matched) \in Allocation
         /\ alloc' = [alloc EXCEPT ![r] = Admitted(r, a, matched)]
         /\ alloc' \in [Requests -> Allocation]
         /\ attached' = attached \cup {r} /\ attached' \in SUBSET Requests
         /\ Detached'
         /\ AdmittedClaim(r, a, matched) \in Nat
         /\ ClaimsIn(alloc)[r] = 0
         /\ ClaimsIn(alloc')[r] = AdmittedClaim(r, a, matched)
         /\ completionClaims' = completionClaims
              + (StrictClaimsIn(alloc')[r] - StrictClaimsIn(alloc)[r])
         /\ initialClaims' = initialClaims
              + (InitialClaimsIn(alloc')[r] - InitialClaimsIn(alloc)[r])
         /\ NumClaimed' = NumClaimed + AdmittedClaim(r, a, matched)
  <1> DEFINE m == Len(matched)
             limit == BlockLimit(r, a)
             claim == AdmittedClaim(r, a, matched)
             new == Admitted(r, a, matched)
  <1>1. m \in 0 .. NumKeys(r) /\ m \in Nat
    BY PromptPages
  <1>2. /\ limit \in Nat /\ (limit # 0 => m <= limit)
        /\ m * BlockSize \in Nat
        /\ a.guarantee \in BOOLEAN /\ a.minFree \in Nat
    BY <1>1, LimitCoversPages
  <1>3. new \in Allocation
    BY <1>1, <1>2 DEF Allocation, Admitted
  <1>4. alloc' = [alloc EXCEPT ![r] = new] /\ attached' = attached \cup {r}
    BY DEF Attach, Admitted
  <1>5. /\ alloc \in [Requests -> Allocation]
        /\ alloc' \in [Requests -> Allocation] /\ attached' \in SUBSET Requests
    BY <1>3, <1>4 DEF TypeOK
  <1>6. Detached'
    BY <1>4, <1>5 DEF Detached
  <1>7. claim \in Nat /\ claim = IF limit = 0 THEN 0 ELSE limit - m
    BY <1>1, <1>2 DEF AdmittedClaim
  <1>8. alloc[r] = NoAllocation /\ Claim(alloc[r]) = 0 /\ ~alloc[r].guarantee
    BY ClaimType DEF Detached, NoAllocation
  <1>9. alloc'[r] = new
    BY <1>4, <1>5
  <1>10. Claim(new) = claim
    BY <1>1, <1>2, <1>3, <1>7, ClaimType DEF Admitted
  <1>11. new.guarantee = a.guarantee
    BY DEF Admitted
  <1>12. /\ ClaimsIn(alloc)[r] = 0 /\ StrictClaimsIn(alloc)[r] = 0
         /\ InitialClaimsIn(alloc)[r] = 0
         /\ ClaimsIn(alloc')[r] = claim
         /\ StrictClaimsIn(alloc')[r] = IF a.guarantee THEN claim ELSE 0
         /\ InitialClaimsIn(alloc')[r] = IF a.guarantee THEN 0 ELSE claim
    BY <1>8, <1>9, <1>10, <1>11 DEF ClaimsIn, StrictClaimsIn, InitialClaimsIn
  <1>13. /\ completionClaims' = completionClaims + (IF a.guarantee THEN claim ELSE 0)
         /\ initialClaims' = initialClaims + (IF a.guarantee THEN 0 ELSE claim)
    BY DEF Attach, AdmittedClaim
  <1>14. completionClaims \in Nat /\ initialClaims \in Nat
    BY DEF TypeOK
  <1>15. /\ completionClaims' = completionClaims
              + (StrictClaimsIn(alloc')[r] - StrictClaimsIn(alloc)[r])
         /\ initialClaims' = initialClaims
              + (InitialClaimsIn(alloc')[r] - InitialClaimsIn(alloc)[r])
    BY <1>2, <1>7, <1>12, <1>13, <1>14
  <1>16. NumClaimed' = NumClaimed + claim
    BY <1>2, <1>7, <1>13, <1>14 DEF NumClaimed
  <1>. QED  BY <1>3, <1>4, <1>5, <1>6, <1>7, <1>12, <1>15, <1>16

(* The pool after shared pages are acquired: idle ones are no longer       *)
(* evictable, and that many more blocks are in use.                        *)
LEMMA AcquireFacts ==
  ASSUME TypeOK, PoolExact, Ordered, NEW shared \in SUBSET Blocks,
         shared \cap free = {}, Acquire(shared)
  PROVE  /\ free' = free /\ evictable' \subseteq evictable
         /\ older' \subseteq evictable' \X evictable'
         /\ refs' \in [Blocks -> Nat]
         /\ \A b \in Blocks : refs'[b] = refs[b] + (IF b \in shared THEN 1 ELSE 0)
         /\ free' \cup evictable' = Blocks \ Referenced'
         /\ \A x, y \in evictable' : x # y => (<<x, y>> \in older' <=> <<y, x>> \notin older')
         /\ NumUsed' = NumUsed + Cardinality({ b \in shared : refs[b] = 0 })
         /\ Cardinality({ b \in shared : refs[b] = 0 }) \in Nat
  <1> DEFINE idle == { b \in shared : refs[b] = 0 }
  <1>1. /\ free' = free /\ evictable' = evictable \ shared
        /\ older' = older \cap (evictable' \X evictable')
        /\ refs' = [b \in Blocks |-> refs[b] + (IF b \in shared THEN 1 ELSE 0)]
    BY DEF Acquire
  <1>2. /\ free \subseteq Blocks /\ evictable \subseteq Blocks
        /\ \A b \in Blocks : refs[b] \in Nat
        /\ free \cap evictable = {}
        /\ free \cup evictable = Blocks \ Referenced
    BY DEF TypeOK, PoolExact
  <1>3. refs' \in [Blocks -> Nat]
    BY <1>1, <1>2
  <1>4. \A b \in Blocks : refs'[b] = refs[b] + (IF b \in shared THEN 1 ELSE 0)
    BY <1>1
  <1>5. \A b \in Blocks : refs'[b] > 0 <=> refs[b] > 0 \/ b \in shared
    BY <1>2, <1>4
  <1>6. free' \cup evictable' = Blocks \ Referenced'
    BY <1>1, <1>2, <1>5 DEF Referenced
  <1>7. idle = evictable \cap shared
    BY <1>2 DEF Referenced
  <1>8. \A x, y \in evictable' : x # y => (<<x, y>> \in older' <=> <<y, x>> \notin older')
    BY <1>1 DEF PoolExact
  <1>9. IsFiniteSet(evictable) /\ IsFiniteSet(idle)
    BY <1>2, FiniteSets
  <1>10. Cardinality(evictable \ shared) =
           Cardinality(evictable) - Cardinality(evictable \cap shared)
    BY <1>9, FS_Difference
  <1>11. Cardinality(idle) \in Nat /\ Cardinality(evictable) \in Nat
         /\ Cardinality(free) \in Nat /\ NumBlocks \in Nat
    BY <1>9, <1>2, FiniteSets, CapacityAssumption
  <1>12. /\ Cardinality(evictable') = Cardinality(evictable) - Cardinality(idle)
         /\ Cardinality(free') = Cardinality(free)
    BY <1>1, <1>7, <1>10, Zenon
  <1>13. NumUsed' = NumUsed + Cardinality(idle)
    BY <1>11, <1>12 DEF NumUsed
  <1>. QED  BY <1>1, <1>3, <1>4, <1>6, <1>8, <1>11, <1>13

(* Admission under the epoch the pool was filled in keeps the invariant:   *)
(* shared pages gain a holder and are not in any private part.             *)
LEMMA TryAddKeeps ==
  ASSUME CacheInv, NEW r \in Requests, NEW a \in Admissions, TryAdd(r, a)
  PROVE  CacheInv' /\ ClaimsIn(alloc)[r] = 0
                   /\ NumUsed' >= NumUsed
                   /\ NumUsed' - NumUsed + ClaimsIn(alloc')[r]
                        <= NumBlocks - (NumUsed + NumClaimed)
                   /\ \A q \in Requests \ {r} : alloc'[q] = alloc[q]
  <1>1. /\ r \notin attached /\ cacheEpoch = generation
        /\ UNCHANGED <<cached, blockKey, cacheEpoch, generation, stored>>
    BY DEF TryAdd, index
  <1>2. PICK m \in 0 .. NumKeys(r) :
          LET matched == [i \in 1 .. m |-> cached[PromptKey(generation, r, i)]]
              shared == { matched[i] : i \in 1 .. m }
              limit == BlockLimit(r, a)
              claim == IF limit = 0 THEN 0 ELSE limit - m
          IN  /\ IsMatch(r, m)
              /\ Fits(Need(shared, claim), a)
              /\ Acquire(shared)
              /\ Attach(r, a, matched)
    BY DEF TryAdd
  <1> DEFINE matched == [i \in 1 .. m |-> cached[PromptKey(generation, r, i)]]
             shared == { matched[i] : i \in 1 .. m }
             limit == BlockLimit(r, a)
             claim == IF limit = 0 THEN 0 ELSE limit - m
  <1>3. /\ m \in Nat /\ matched \in Seq(Blocks) /\ Len(matched) = m
        /\ \A i \in 1 .. m :
             /\ matched[i] \in Blocks \ free
             /\ blockKey[matched[i]] # NoKey
             /\ stored[matched[i]] = PromptKey(generation, r, i)
        /\ \A i, j \in 1 .. m : matched[i] = matched[j] => i = j
    BY <1>1, <1>2, MatchedPages
  <1>4. Acquire(shared) /\ Attach(r, a, matched) /\ Fits(Need(shared, claim), a)
    BY <1>2
  <1> HIDE DEF matched
  <1>5. /\ TypeOK /\ Ordered /\ Epochs /\ Detached /\ Tables /\ PoolExact
        /\ IndexSound /\ CommittedContent /\ WritableIsPrivate /\ ClaimsExact
    BY DEF CacheInv
  <1>6. /\ shared \in SUBSET Blocks /\ shared \cap free = {}
        /\ \A b \in shared : blockKey[b] # NoKey
    BY <1>3
  <1> DEFINE new == Admitted(r, a, matched)
  <1>7. /\ new \in Allocation
        /\ alloc' = [alloc EXCEPT ![r] = new] /\ alloc' \in [Requests -> Allocation]
        /\ attached' = attached \cup {r} /\ attached' \in SUBSET Requests
        /\ Detached'
    BY <1>1, <1>3, <1>4, <1>5, AttachFacts
  <1>8. /\ claim \in Nat
        /\ ClaimsIn(alloc)[r] = 0 /\ ClaimsIn(alloc')[r] = claim
        /\ completionClaims' = completionClaims
             + (StrictClaimsIn(alloc')[r] - StrictClaimsIn(alloc)[r])
        /\ initialClaims' = initialClaims
             + (InitialClaimsIn(alloc')[r] - InitialClaimsIn(alloc)[r])
        /\ NumClaimed' = NumClaimed + claim
    <2>1. claim = AdmittedClaim(r, a, matched)
      BY <1>3 DEF AdmittedClaim
    <2> HIDE DEF claim
    <2>. QED  BY <2>1, <1>1, <1>3, <1>4, <1>5, AttachFacts
  <1> DEFINE pinned == Cardinality({ b \in shared : refs[b] = 0 })
  <1>9. /\ free' = free /\ evictable' \subseteq evictable
        /\ older' \subseteq evictable' \X evictable'
        /\ refs' \in [Blocks -> Nat]
        /\ \A b \in Blocks : refs'[b] = refs[b] + (IF b \in shared THEN 1 ELSE 0)
        /\ free' \cup evictable' = Blocks \ Referenced'
        /\ \A x, y \in evictable' : x # y => (<<x, y>> \in older' <=> <<y, x>> \notin older')
        /\ NumUsed' = NumUsed + pinned /\ pinned \in Nat
    BY <1>4, <1>5, <1>6, AcquireFacts
  <1>10. /\ alloc'[r] = new
         /\ \A q \in Requests \ {r} : alloc'[q] = alloc[q]
         /\ \A q \in attached : q # r /\ q \in Requests /\ alloc'[q] = alloc[q]
    BY <1>1, <1>5, <1>7 DEF TypeOK
  <1>11. /\ new.blocks = matched /\ new.readonly = m /\ new.reserved = 0
         /\ new.committed = m * BlockSize /\ new.guarantee = a.guarantee
         /\ new.limit = BlockLimit(r, a)
    BY <1>3 DEF Admitted
  <1> HIDE DEF new
  <1>12. /\ NumUsed \in Nat /\ NumClaimed \in Nat /\ NumBlocks \in Nat
         /\ NumUsed + NumClaimed + pinned + claim <= NumBlocks
    <2>1. NumUsed \in Nat /\ NumClaimed \in Nat /\ NumBlocks \in Nat
      BY <1>5, UsedBlocks, CapacityAssumption DEF TypeOK, PoolExact, NumClaimed
    <2>2. a.minFree \in Nat /\ a.admissionMinFree \in Nat
      BY LimitCoversPages
    <2>3. NumUsed + NumClaimed + pinned + claim + AtLeast(a.minFree, a.admissionMinFree)
            <= NumBlocks
      BY <1>4 DEF Fits, Need
    <2> HIDE DEF pinned, claim
    <2>. QED  BY <2>1, <2>2, <2>3, <1>8, <1>9 DEF AtLeast
  <1>13. NumUsed' + NumClaimed' <= NumBlocks
    <2> HIDE DEF pinned, claim
    <2>. QED  BY <1>8, <1>9, <1>12
  <1>14. ClaimsExact' /\ completionClaims' \in Nat /\ initialClaims' \in Nat
    BY <1>5, <1>7, <1>8, <1>10, <1>13, ClaimsFollow
  <1>15. TypeOK'
    <2>1. free' \subseteq Blocks /\ evictable' \subseteq Blocks
          /\ older' \subseteq Blocks \X Blocks
      BY <1>5, <1>9 DEF TypeOK
    <2>. QED  BY <2>1, <1>1, <1>5, <1>7, <1>9, <1>14 DEF TypeOK
  <1>16. Ordered' /\ Epochs'
    BY <1>1, <1>5, <1>9 DEF Ordered, Epochs
  <1>17. Tables'
    <2>1. m * BlockSize \in Nat /\ BlocksFor(m * BlockSize) = m
          /\ (m * BlockSize) \div BlockSize = m
      BY <1>3, WholeBlocks
    <2>2. /\ m * BlockSize < MaxCommitted[r] /\ MaxCommitted[r] \in Nat
          /\ a.guarantee => BlockLimit(r, a) = BlocksFor(MaxCommitted[r])
      BY LimitCoversPages, PromptPages
    <2>3. FullPromptBlocks(r, m * BlockSize) = m
      BY <2>1, PromptPages DEF FullPromptBlocks, AtMost
    <2>4. /\ Len(new.blocks) = BlocksFor(new.committed + new.reserved)
          /\ new.committed + new.reserved <= MaxCommitted[r]
          /\ new.guarantee => new.limit = BlocksFor(MaxCommitted[r])
          /\ new.readonly = FullPromptBlocks(r, new.committed)
      BY <2>1, <2>2, <2>3, <1>3, <1>11
    <2>5. \A q \in attached' : q = r \/ (q \in attached /\ alloc'[q] = alloc[q])
      BY <1>7, <1>10
    <2>. QED  BY <2>4, <2>5, <1>5, <1>10 DEF Tables, FullPromptBlocks, NumKeys
  <1>18. PoolExact'
    <2>1. \A q \in attached : Held(q)' = Held(q)
      BY <1>10 DEF Held, Table
    <2>2. Held(r)' = shared
      BY <1>3, <1>10, <1>11 DEF Held, Table
    <2>3. ASSUME NEW b \in Blocks
          PROVE  refs'[b] = Cardinality(Holders(b)')
      <3>1. Holders(b)' = IF b \in shared THEN Holders(b) \cup {r} ELSE Holders(b)
        BY <1>1, <1>7, <2>1, <2>2 DEF Holders
      <3>2. IsFiniteSet(Holders(b)) /\ r \notin Holders(b)
        BY <1>1, <1>5, FiniteSets DEF Holders, TypeOK
      <3>3. refs[b] = Cardinality(Holders(b))
        BY <1>5 DEF PoolExact
      <3>4. Cardinality(Holders(b) \cup {r}) = refs[b] + 1
        BY <3>2, <3>3, FS_AddElement
      <3>5. CASE b \in shared
        BY <3>1, <3>4, <3>5, <1>9
      <3>6. CASE b \notin shared
        <4>1. Holders(b)' = Holders(b)
          BY <3>1, <3>6
        <4>2. Cardinality(Holders(b)') = refs[b]
          BY <4>1, <3>3, Zenon
        <4>. QED  BY <4>2, <3>6, <1>5, <1>9 DEF TypeOK
      <3>. QED  BY <3>5, <3>6
    <2>4. free' \cap evictable' = {}
      BY <1>5, <1>9 DEF PoolExact
    <2>5. \A q \in attached' : \A i, j \in DOMAIN Table(q)' :
            Table(q)'[i] = Table(q)'[j] => i = j
      <3>1. DOMAIN matched = 1 .. m
        BY <1>3
      <3>. QED  BY <3>1, <1>3, <1>5, <1>7, <1>10, <1>11 DEF PoolExact, Table
    <2>. QED  BY <2>3, <2>4, <2>5, <1>9 DEF PoolExact
  <1>19. IndexSound'
    BY <1>1, <1>5, <1>9 DEF IndexSound
  <1>20. CommittedContent'
    <2>1. m * BlockSize \in Nat /\ BlocksFor(m * BlockSize) = m
      BY <1>3, WholeBlocks
    <2>2. ASSUME NEW i \in 1 .. m
          PROVE  stored[matched[i]] =
                   Fragment(generation, r, AtMost(i * BlockSize, m * BlockSize))
      <3>1. i * BlockSize <= m * BlockSize /\ i * BlockSize \in Nat
        BY <1>3, CapacityAssumption, Multiples
      <3>2. AtMost(i * BlockSize, m * BlockSize) = i * BlockSize
        BY <3>1, <2>1 DEF AtMost
      <3>3. i \in 1 .. NumKeys(r) /\ generation \in 0 .. MaxGeneration
        BY <1>3, <1>5, PromptPages DEF TypeOK
      <3>4. Fragment(generation, r, i * BlockSize) = PromptKey(generation, r, i)
        BY <3>3, PageKeys
      <3>. QED  BY <3>2, <3>4, <1>3
    <2>. QED  BY <2>1, <2>2, <1>1, <1>3, <1>5, <1>7, <1>10, <1>11
              DEF CommittedContent, Table
  <1>21. WritableIsPrivate'
    <2>1. ASSUME NEW q \in attached,
                 NEW i \in alloc[q].committed \div BlockSize + 1 .. Len(Table(q))
          PROVE  refs'[Table(q)[i]] = 1 /\ blockKey'[Table(q)[i]] = NoKey
      <3>1. refs[Table(q)[i]] = 1 /\ blockKey[Table(q)[i]] = NoKey
        BY <1>5 DEF WritableIsPrivate
      <3>2. alloc[q].committed \in Nat /\ alloc[q].committed \div BlockSize \in Nat
        BY <1>5, <1>10, BlockCount, TableType DEF Allocation
      <3>3. Table(q)[i] \in Blocks
        BY <3>2, <1>5, <1>10, TableType
      <3>. QED  BY <3>1, <3>3, <1>1, <1>6, <1>9
    <2>2. (m * BlockSize) \div BlockSize = m
      BY <1>3, WholeBlocks
    <2>3. ASSUME NEW q \in attached',
                 NEW i \in alloc'[q].committed \div BlockSize + 1 .. Len(Table(q)')
          PROVE  q \in attached /\ i \in alloc[q].committed \div BlockSize + 1 .. Len(Table(q))
                 /\ Table(q)' = Table(q)
      <3>1. CASE q = r
        <4>1. alloc'[q].committed \div BlockSize = m /\ Len(Table(q)') = m
          BY <3>1, <2>2, <1>3, <1>10, <1>11 DEF Table
        <4>. QED  BY <4>1, <1>3
      <3>2. CASE q # r
        BY <3>2, <1>7, <1>10 DEF Table
      <3>. QED  BY <3>1, <3>2
    <2>. QED  BY <2>1, <2>3 DEF WritableIsPrivate
  <1>22. CacheInv'
    BY <1>7, <1>14, <1>15, <1>16, <1>17, <1>18, <1>19, <1>20, <1>21 DEF CacheInv
  <1>23. /\ NumUsed' >= NumUsed
         /\ NumUsed' - NumUsed + ClaimsIn(alloc')[r] <= NumBlocks - (NumUsed + NumClaimed)
    <2> HIDE DEF pinned, claim
    <2>. QED  BY <1>8, <1>9, <1>12
  <1>. QED  BY <1>8, <1>10, <1>22, <1>23

(* When nobody is attached nothing is in use and nothing is claimed.       *)
LEMMA EmptyPool ==
  ASSUME TypeOK, PoolExact, ClaimsExact, attached = {}
  PROVE  /\ \A b \in Blocks : refs[b] = 0
         /\ NumUsed = 0 /\ completionClaims = 0 /\ initialClaims = 0
  <1>1. \A b \in Blocks : Holders(b) = {}
    BY DEF Holders
  <1>2. \A b \in Blocks : Cardinality(Holders(b)) = 0
    BY <1>1, FS_EmptySet
  <1>3. \A b \in Blocks : refs[b] = 0
    BY <1>2 DEF PoolExact
  <1>4. free \cup evictable = Blocks
    BY <1>3 DEF PoolExact, Referenced
  <1>5. NumUsed = NumBlocks - Cardinality(free \cup evictable)
    BY UsedBlocks DEF TypeOK, PoolExact
  <1>6. Cardinality(free \cup evictable) = NumBlocks
    BY <1>4, FiniteSets, Zenon
  <1>7. Pledged(Strict) = {} /\ Pledged(attached \ Strict) = {}
    BY DEF Pledged, Strict
  <1>8. completionClaims = 0 /\ initialClaims = 0
    BY <1>7, FS_EmptySet, Zenon DEF ClaimsExact
  <1>. QED  BY <1>3, <1>5, <1>6, <1>8, CapacityAssumption

(* The first call of a new epoch starts from an empty pool, whether it     *)
(* admits its request or refuses it.                                       *)
LEMMA NewEpochKeeps ==
  ASSUME CacheInv, NEW r \in Requests, NEW a \in Admissions, TryAddNewEpoch(r, a)
  PROVE  /\ CacheInv'
         /\ NumUsed = 0 /\ NumUsed' = 0 /\ NumClaimed = 0
         /\ \/ alloc' = alloc
            \/ /\ ClaimsIn(alloc)[r] = 0 /\ ClaimsIn(alloc')[r] <= NumBlocks
               /\ \A q \in Requests \ {r} : alloc'[q] = alloc[q]
  <1>1. /\ attached = {}
        /\ free' = Blocks /\ evictable' = {} /\ older' = {}
        /\ refs' = [b \in Blocks |-> 0]
        /\ cached' = [k \in Keys |-> NoBlock]
        /\ blockKey' = [b \in Blocks |-> NoKey]
        /\ cacheEpoch' = generation
        /\ UNCHANGED <<generation, stored>>
    BY DEF TryAddNewEpoch
  <1>2. /\ TypeOK /\ Ordered /\ Epochs /\ Detached /\ Tables /\ PoolExact
        /\ IndexSound /\ CommittedContent /\ WritableIsPrivate /\ ClaimsExact
    BY DEF CacheInv
  <1>3. NumUsed = 0 /\ completionClaims = 0 /\ initialClaims = 0
    BY <1>1, <1>2, EmptyPool
  <1>4. NumUsed' = 0
    <2>1. Cardinality(free') = NumBlocks /\ Cardinality(evictable') = 0
      BY <1>1, FiniteSets, FS_EmptySet, Zenon
    <2>. QED  BY <2>1, CapacityAssumption DEF NumUsed
  <1>5. NumBlocks \in Nat /\ MaxGeneration \in Nat
    BY CapacityAssumption
  <1>6. /\ free' \subseteq Blocks /\ evictable' \subseteq Blocks
        /\ older' \subseteq Blocks \X Blocks /\ refs' \in [Blocks -> Nat]
        /\ cached' \in [Keys -> Blocks \cup {NoBlock}]
        /\ blockKey' \in [Blocks -> Keys \cup {NoKey}]
        /\ cacheEpoch' \in -1 .. MaxGeneration
        /\ generation' \in 0 .. MaxGeneration /\ DOMAIN stored' = Blocks
    BY <1>1, <1>2, <1>5 DEF TypeOK
  <1>7. IndexSound'
    BY <1>1, KeysAreKeys DEF IndexSound
  <1>8. Ordered' /\ Epochs'
    BY <1>1, <1>2 DEF Ordered, Epochs, TypeOK
  <1>9. ASSUME attached' \in SUBSET Requests, \A q \in attached' : Table(q)' = << >>,
               \A q \in attached' : alloc'[q].committed = 0
        PROVE  PoolExact' /\ CommittedContent' /\ WritableIsPrivate'
    <2>1. \A b \in Blocks : Holders(b)' = {}
      BY <1>9 DEF Holders, Held
    <2>2. \A b \in Blocks : Cardinality(Holders(b)') = 0
      BY <2>1, FS_EmptySet
    <2>3. PoolExact'
      BY <2>2, <1>1, <1>9 DEF PoolExact, Referenced
    <2>4. BlocksFor(0 * BlockSize) = 0 /\ 0 * BlockSize = 0
          /\ (0 * BlockSize) \div BlockSize = 0
      BY WholeBlocks, CapacityAssumption
    <2>5. CommittedContent'
      BY <2>4, <1>9 DEF CommittedContent
    <2>6. WritableIsPrivate'
      BY <2>4, <1>9 DEF WritableIsPrivate
    <2>. QED  BY <2>3, <2>5, <2>6
  <1>10. CASE Fits(BlockLimit(r, a), a)
    <2> DEFINE none == << >>
               new == Admitted(r, a, none)
               limit == BlockLimit(r, a)
               claim == AdmittedClaim(r, a, none)
    <2>1. Attach(r, a, none)
      BY <1>10 DEF TryAddNewEpoch
    <2>2. none \in Seq(Blocks) /\ Len(none) = 0 /\ 0 <= NumKeys(r) /\ r \notin attached
      BY <1>1, PromptPages
    <2>18. none = << >>
      OBVIOUS
    <2> HIDE DEF none
    <2>3. /\ new \in Allocation
          /\ alloc' = [alloc EXCEPT ![r] = new] /\ alloc' \in [Requests -> Allocation]
          /\ attached' = attached \cup {r} /\ attached' \in SUBSET Requests
          /\ Detached'
      BY <1>2, <2>1, <2>2, AttachFacts
    <2>4. /\ claim \in Nat
          /\ ClaimsIn(alloc)[r] = 0 /\ ClaimsIn(alloc')[r] = claim
          /\ completionClaims' = completionClaims
               + (StrictClaimsIn(alloc')[r] - StrictClaimsIn(alloc)[r])
          /\ initialClaims' = initialClaims
               + (InitialClaimsIn(alloc')[r] - InitialClaimsIn(alloc)[r])
          /\ NumClaimed' = NumClaimed + claim
      <3> HIDE DEF new, limit, claim
      <3>1. TypeOK /\ Detached /\ r \in Requests /\ r \notin attached /\ a \in Admissions
            /\ none \in Seq(Blocks) /\ Len(none) <= NumKeys(r) /\ Attach(r, a, none)
        BY <1>2, <2>1, <2>2
      <3>2. ClaimsIn(alloc')[r] = AdmittedClaim(r, a, none)
        BY ONLY <3>1, AttachFacts, Zenon
      <3>3. NumClaimed' = NumClaimed + AdmittedClaim(r, a, none)
        BY ONLY <3>1, AttachFacts
      <3>. QED  BY <3>1, <3>2, <3>3, AttachFacts DEF claim
    <2>5. limit <= NumBlocks /\ limit \in Nat
          /\ (a.guarantee => limit = BlocksFor(MaxCommitted[r]))
      BY <1>5, <1>10, LimitCoversPages, PromptPages DEF Fits, AtLeast
    <2>6. claim = limit
      BY <2>2, <2>5 DEF AdmittedClaim
    <2>7. NumUsed' + NumClaimed' <= NumBlocks
      BY <1>3, <1>4, <2>4, <2>5, <2>6 DEF NumClaimed
    <2>8. \A q \in Requests \ {r} : alloc'[q] = alloc[q]
      BY <2>3, <1>2 DEF TypeOK
    <2>9. ClaimsExact' /\ completionClaims' \in Nat /\ initialClaims' \in Nat
      BY <1>2, <2>3, <2>4, <2>7, <2>8, ClaimsFollow
    <2>10. alloc'[r] = new /\ attached' = {r}
      BY <1>1, <1>2, <2>3 DEF TypeOK
    <2>11. 0 * BlockSize = 0 /\ BlocksFor(0 * BlockSize) = 0
           /\ (0 * BlockSize) \div BlockSize = 0
      BY WholeBlocks, CapacityAssumption
    <2>12. /\ new.blocks = none /\ new.readonly = 0 /\ new.reserved = 0
           /\ new.committed = 0 /\ new.guarantee = a.guarantee /\ new.limit = limit
      BY <2>2, <2>11 DEF Admitted
    <2>13. TypeOK'
      BY <1>6, <2>3, <2>9 DEF TypeOK
    <2>14. FullPromptBlocks(r, 0) = 0
      BY <2>11, PromptPages DEF FullPromptBlocks, AtMost
    <2> HIDE DEF new, limit
    <2>15. Tables'
      <3>1. BlocksFor(0) = 0 /\ MaxCommitted[r] \in Nat
        BY <2>11, PromptPages, Zenon
      <3>2. /\ Len(new.blocks) = BlocksFor(new.committed + new.reserved)
            /\ new.committed + new.reserved <= MaxCommitted[r]
            /\ new.guarantee => new.limit = BlocksFor(MaxCommitted[r])
            /\ new.readonly = FullPromptBlocks(r, new.committed)
        BY <3>1, <2>2, <2>5, <2>12, <2>14
      <3>. QED  BY <3>2, <2>10 DEF Tables, FullPromptBlocks, NumKeys
    <2>16. PoolExact' /\ CommittedContent' /\ WritableIsPrivate'
      BY <1>9, <2>18, <2>3, <2>10, <2>12 DEF Table
    <2>17. CacheInv'
      BY <1>7, <1>8, <2>3, <2>9, <2>13, <2>15, <2>16 DEF CacheInv
    <2>. QED  BY <2>17, <1>3, <1>4, <2>4, <2>5, <2>6, <2>8 DEF NumClaimed
  <1>11. CASE ~Fits(BlockLimit(r, a), a)
    <2>1. UNCHANGED <<attached, alloc, completionClaims, initialClaims>>
      BY <1>11 DEF TryAddNewEpoch, claims
    <2>2. ClaimsExact'
      <3>1. Pledged(Strict)' = Pledged(Strict)
            /\ Pledged(attached \ Strict)' = Pledged(attached \ Strict)
        BY <2>1 DEF Pledged, Strict
      <3>2. NumUsed' + NumClaimed' <= NumBlocks
        BY <2>1, <1>3, <1>4, <1>5 DEF NumClaimed
      <3>. QED  BY <3>1, <3>2, <2>1, <1>2 DEF ClaimsExact
    <2>3. TypeOK' /\ Detached' /\ Tables'
      BY <2>1, <1>1, <1>2, <1>6 DEF TypeOK, Detached, Tables
    <2>4. PoolExact' /\ CommittedContent' /\ WritableIsPrivate'
      BY <2>1, <1>1, <1>9
    <2>. QED  BY <2>1, <2>2, <2>3, <2>4, <1>3, <1>4, <1>7, <1>8 DEF CacheInv, NumClaimed
  <1>. QED  BY <1>10, <1>11

----------------------------------------------------------------------------
(* reserve.                                                                *)

(* What the first n places of a sequence hold.                             *)
Places(new, n) == { new[i] : i \in 1 .. n }

(* The pool after n blocks are taken: they were idle, they are distinct,   *)
(* and each has one reference now.                                         *)
LEMMA TakeFacts ==
  ASSUME TypeOK, PoolExact, Ordered, NEW n \in Nat, NEW new \in Takes(n),
         Take(new)
  PROVE  LET taken == Places(new, n) IN
         /\ new \in Seq(Blocks) /\ Len(new) = n /\ DOMAIN new = 1 .. n
         /\ taken \subseteq free \cup evictable /\ taken \subseteq Blocks
         /\ \A i, j \in 1 .. n : new[i] = new[j] => i = j
         /\ free' = free \ taken /\ evictable' = evictable \ taken
         /\ older' \subseteq evictable' \X evictable'
         /\ refs' \in [Blocks -> Nat]
         /\ \A b \in Blocks : refs'[b] = IF b \in taken THEN 1 ELSE refs[b]
         /\ blockKey' = [b \in Blocks |-> IF b \in taken THEN NoKey ELSE blockKey[b]]
         /\ cached' = [k \in Keys |-> IF cached[k] \in taken THEN NoBlock ELSE cached[k]]
         /\ stored' = [b \in Blocks |-> IF b \in taken THEN NoKey ELSE stored[b]]
         /\ free' \cup evictable' = Blocks \ Referenced'
         /\ \A x, y \in evictable' : x # y => (<<x, y>> \in older' <=> <<y, x>> \notin older')
         /\ NumUsed' = NumUsed + n
  <1> DEFINE taken == Places(new, n)
  <1>1. /\ new \in [1 .. n -> free \cup evictable]
        /\ \A i, j \in 1 .. n : i # j => new[i] # new[j]
    BY DEF Takes
  <1>2. /\ free \subseteq Blocks /\ evictable \subseteq Blocks
        /\ \A b \in Blocks : refs[b] \in Nat
        /\ free \cap evictable = {}
        /\ free \cup evictable = Blocks \ Referenced
    BY DEF TypeOK, PoolExact
  <1>3. new \in Seq(Blocks) /\ Len(new) = n /\ DOMAIN new = 1 .. n
    BY <1>1, <1>2
  <1>4. taken = { new[i] : i \in DOMAIN new } /\ taken = { new[i] : i \in 1 .. n }
    BY <1>3 DEF Places
  <1> HIDE DEF taken
  <1>5. /\ free' = free \ taken /\ evictable' = evictable \ taken
        /\ older' = older \cap ((evictable \ taken) \X (evictable \ taken))
        /\ refs' = [b \in Blocks |-> IF b \in taken THEN 1 ELSE refs[b]]
        /\ blockKey' = [b \in Blocks |-> IF b \in taken THEN NoKey ELSE blockKey[b]]
        /\ cached' = [k \in Keys |-> IF cached[k] \in taken THEN NoBlock ELSE cached[k]]
        /\ stored' = [b \in Blocks |-> IF b \in taken THEN NoKey ELSE stored[b]]
    BY <1>4, Zenon DEF Take
  <1>6. taken \subseteq free \cup evictable /\ taken \subseteq Blocks
    BY <1>1, <1>2, <1>4
  <1>7. /\ refs' \in [Blocks -> Nat]
        /\ \A b \in Blocks : refs'[b] = IF b \in taken THEN 1 ELSE refs[b]
    BY <1>2, <1>5
  <1>8. free' \cup evictable' = Blocks \ Referenced'
    BY <1>2, <1>5, <1>6, <1>7 DEF Referenced
  <1>9. \A x, y \in evictable' : x # y => (<<x, y>> \in older' <=> <<y, x>> \notin older')
    BY <1>5 DEF PoolExact
  <1>10. older' \subseteq evictable' \X evictable'
    BY <1>5
  <1>11. IsFiniteSet(taken) /\ Cardinality(taken) = n
    <2>1. \A i \in 1 .. n : new[i] \in Blocks
      BY <1>1, <1>2
    <2>2. \A i, j \in 1 .. n : new[i] = new[j] => i = j
      BY <1>1
    <2>3. IsFiniteSet({ new[i] : i \in 1 .. n }) /\ Cardinality({ new[i] : i \in 1 .. n }) = n
      BY <2>1, <2>2, DistinctValues
    <2>. QED  BY <2>3, <1>4, Zenon
  <1>12. Cardinality((free \cup evictable) \ taken) =
           Cardinality(free \cup evictable) - n
    <2>1. IsFiniteSet(free \cup evictable) /\ Cardinality(free \cup evictable) \in Nat
      BY <1>2, FiniteSets
    <2>2. (free \cup evictable) \cap taken = taken
      BY <1>6
    <2>3. Cardinality((free \cup evictable) \ taken) =
            Cardinality(free \cup evictable) - Cardinality((free \cup evictable) \cap taken)
      BY <2>1, FS_Difference
    <2>4. Cardinality((free \cup evictable) \cap taken) = n
      BY <2>2, <1>11, Zenon
    <2>. QED  BY <2>1, <2>3, <2>4
  <1>13. (free \cup evictable) \ taken = (free \ taken) \cup (evictable \ taken)
    OBVIOUS
  <1>14. NumUsed = NumBlocks - Cardinality(free \cup evictable)
    BY <1>2, UsedBlocks
  <1>15. NumUsed' = NumBlocks - Cardinality((free \ taken) \cup (evictable \ taken))
    <2>1. IsFiniteSet(free \ taken) /\ IsFiniteSet(evictable \ taken)
          /\ (free \ taken) \cap (evictable \ taken) = {}
      BY <1>2, FiniteSets
    <2>2. Cardinality((free \ taken) \cup (evictable \ taken)) =
            Cardinality(free \ taken) + Cardinality(evictable \ taken)
      BY <2>1, DisjointSizes
    <2>3. Cardinality(free') = Cardinality(free \ taken)
          /\ Cardinality(evictable') = Cardinality(evictable \ taken)
      BY <1>5, Zenon
    <2>. QED  BY <2>2, <2>3 DEF NumUsed
  <1>16. NumUsed' = NumUsed + n
    <2>1. Cardinality((free \ taken) \cup (evictable \ taken)) =
            Cardinality(free \cup evictable) - n
      BY <1>12, <1>13, Zenon
    <2>2. Cardinality(free \cup evictable) \in Nat /\ NumBlocks \in Nat
      BY <1>2, FiniteSets, CapacityAssumption
    <2>. QED  BY <2>1, <2>2, <1>14, <1>15
  <1>17. \A i, j \in 1 .. n : new[i] = new[j] => i = j
    BY <1>1
  <1>. QED  BY <1>3, <1>5, <1>6, <1>7, <1>8, <1>9, <1>10, <1>16, <1>17 DEF taken

(* The blocks a reservation of n tokens asks for.                          *)
Growth(r, n) == BlocksFor(alloc[r].committed + n) - Len(alloc[r].blocks)

(* The claim of r when it holds count blocks more.                         *)
ClaimAfter(r, count) ==
  AtLeast(0, alloc[r].limit - (Len(alloc[r].blocks) + count))

(* The counts of a reservation: it asks for a number of blocks, its claim  *)
(* shrinks by what it draws on it, and the rest nobody was promised.       *)
LEMMA ReserveCounts ==
  ASSUME CacheInv, NEW r \in attached, NEW n \in Nat,
         alloc[r].reserved = 0, alloc[r].committed + n <= MaxCommitted[r],
         MayGrow(alloc[r], Growth(r, n))
  PROVE  LET count == Growth(r, n)
             drawn == AtMost(count, Claim(alloc[r]))
         IN  /\ count \in Nat /\ drawn \in 0 .. count
             /\ Claim(alloc[r]) \in Nat /\ ClaimAfter(r, count) \in Nat
             /\ drawn = Claim(alloc[r]) - ClaimAfter(r, count)
             /\ alloc[r].guarantee => count = drawn
             /\ NumUsed + count + NumClaimed - drawn <= NumBlocks
  <1> DEFINE a == alloc[r]
             need == BlocksFor(a.committed + n)
             len == Len(a.blocks)
             count == Growth(r, n)
             drawn == AtMost(count, Claim(a))
             left == ClaimAfter(r, count)
  <1>1. /\ TypeOK /\ Tables /\ PoolExact /\ ClaimsExact /\ r \in Requests
    BY DEF CacheInv, TypeOK
  <1>2. /\ a \in Allocation /\ a.committed \in Nat /\ a.limit \in Nat /\ len \in Nat
        /\ a.minFree \in Nat /\ a.guarantee \in BOOLEAN
    <2>1. a \in Allocation
      BY <1>1, TableType
    <2> HIDE DEF a
    <2>. QED  BY <2>1 DEF Allocation
  <1>3. len = BlocksFor(a.committed)
    BY <1>1, <1>2 DEF Tables
  <1>4. len <= need /\ need \in Nat
    <2>1. a.committed + n \in Nat /\ a.committed <= a.committed + n
      BY <1>2
    <2>2. BlocksFor(a.committed) <= BlocksFor(a.committed + n)
      BY <1>2, <2>1, BlocksMonotone
    <2>3. BlocksFor(a.committed + n) \in Nat
      BY <2>1, BlockCount
    <2>. QED  BY <1>3, <2>2, <2>3
  <1>5. count = need - len /\ left = AtLeast(0, a.limit - (len + count))
    BY DEF Growth, ClaimAfter
  <1> HIDE DEF need, len, a, count, left
  <1>6. count \in Nat
    BY <1>2, <1>4, <1>5
  <1>7. Claim(a) \in Nat /\ Claim(a) = AtLeast(0, a.limit - len) /\ left \in Nat
    BY SMTT(40), <1>2, <1>5, <1>6, ClaimType DEF Claim, len, AtLeast
  <1>8. drawn = Claim(a) - left /\ drawn \in 0 .. count
    BY <1>2, <1>5, <1>6, <1>7 DEF AtMost, AtLeast
  <1>9. a.guarantee => count = drawn
    <2> SUFFICES ASSUME a.guarantee PROVE count = drawn
      OBVIOUS
    <2>1. count <= a.limit - len
      BY DEF MayGrow, a, len, count
    <2>. QED  BY <2>1, <1>2, <1>6, <1>7 DEF AtLeast, AtMost
  <1>10. /\ NumUsed \in Nat /\ NumClaimed \in Nat /\ NumBlocks \in Nat
         /\ NumUsed + NumClaimed <= NumBlocks
    <2>1. NumUsed \in Nat /\ NumBlocks \in Nat
      BY <1>1, UsedBlocks, CapacityAssumption DEF TypeOK, PoolExact
    <2>2. completionClaims \in Nat /\ initialClaims \in Nat
      BY <1>1 DEF TypeOK
    <2>. QED  BY <2>1, <2>2, <1>1 DEF ClaimsExact, NumClaimed
  <1>11. NumUsed + count + NumClaimed - drawn <= NumBlocks
    <2>1. CASE a.guarantee
      BY <1>6, <1>8, <1>9, <1>10, <2>1
    <2>2. CASE ~a.guarantee /\ count = 0
      BY <1>6, <1>8, <1>10, <2>2
    <2>3. CASE ~a.guarantee /\ count # 0
      <3>1. NumUsed + NumClaimed + (count - drawn) + a.minFree <= NumBlocks
        BY <1>6, <2>3 DEF MayGrow, a, count
      <3>. QED  BY <3>1, <1>2, <1>6, <1>8, <1>10
    <2>. QED  BY <2>1, <2>2, <2>3
  <1>. QED  BY <1>6, <1>7, <1>8, <1>9, <1>11 DEF a, count, left

(* A reservation keeps the invariant: the blocks it takes are in no table, *)
(* lose their key and what they held, and are private to the request.      *)
LEMMA ReserveKeeps ==
  ASSUME CacheInv, NEW r \in Requests, NEW n \in 1 .. MaxReserve, Reserve(r, n)
  PROVE  /\ CacheInv'
         /\ \A q \in Requests \ {r} : alloc'[q] = alloc[q]
         /\ ClaimsIn(alloc)[r] - ClaimsIn(alloc')[r] \in Nat
         /\ NumUsed' - NumUsed >= ClaimsIn(alloc)[r] - ClaimsIn(alloc')[r]
         /\ NumUsed' - NumUsed - (ClaimsIn(alloc)[r] - ClaimsIn(alloc')[r])
              <= NumBlocks - (NumUsed + NumClaimed)
  <1> DEFINE a == alloc[r]
             count == Growth(r, n)
  <1>1. /\ r \in attached /\ a.reserved = 0
        /\ a.committed + n <= MaxCommitted[r] /\ MayGrow(a, count)
        /\ completionClaims' = completionClaims - (IF a.guarantee THEN count ELSE 0)
        /\ initialClaims' = initialClaims -
                              (IF a.guarantee THEN 0 ELSE AtMost(count, Claim(a)))
        /\ UNCHANGED <<cacheEpoch, attached, generation>>
    BY DEF Reserve, Growth
  <1>2. PICK new \in Takes(count) :
          /\ Take(new)
          /\ alloc' = [alloc EXCEPT ![r].blocks = a.blocks \o new, ![r].reserved = n]
    BY DEF Reserve, Growth
  <1>3. /\ TypeOK /\ Ordered /\ Epochs /\ Detached /\ Tables /\ PoolExact
        /\ IndexSound /\ CommittedContent /\ WritableIsPrivate /\ ClaimsExact
    BY DEF CacheInv
  <1>4. /\ a \in Allocation /\ a.committed \in Nat /\ Len(a.blocks) \in Nat
        /\ a.blocks \in Seq(Blocks) /\ a.guarantee \in BOOLEAN /\ a.minFree \in Nat
        /\ a.limit \in Nat /\ a.readonly \in Nat /\ n \in Nat
        /\ \A i \in 1 .. Len(a.blocks) : a.blocks[i] \in Held(r)
    <2>1. a \in Allocation
      BY <1>3, TableType
    <2>2. \A i \in 1 .. Len(a.blocks) : a.blocks[i] \in Held(r)
      BY <1>3, TableType DEF Table
    <2> HIDE DEF a
    <2>. QED  BY <2>1, <2>2 DEF Allocation
  <1>5. /\ Len(a.blocks) = BlocksFor(a.committed)
        /\ a.guarantee => a.limit = BlocksFor(MaxCommitted[r])
        /\ a.readonly = FullPromptBlocks(r, a.committed)
    BY <1>1, <1>3, <1>4 DEF Tables
  <1> DEFINE kept == [a EXCEPT !.blocks = a.blocks \o new, !.reserved = n]
             taken == Places(new, count)
  <1>6. /\ count \in Nat /\ AtMost(count, Claim(a)) \in 0 .. count
        /\ Claim(a) \in Nat /\ ClaimAfter(r, count) \in Nat
        /\ AtMost(count, Claim(a)) = Claim(a) - ClaimAfter(r, count)
        /\ a.guarantee => count = AtMost(count, Claim(a))
        /\ NumUsed + count + NumClaimed - AtMost(count, Claim(a)) <= NumBlocks
    BY <1>1, <1>4, ReserveCounts
  <1> HIDE DEF count
  <1>7. /\ new \in Seq(Blocks) /\ Len(new) = count /\ DOMAIN new = 1 .. count
        /\ taken \subseteq free \cup evictable /\ taken \subseteq Blocks
        /\ \A i, j \in 1 .. count : new[i] = new[j] => i = j
        /\ free' = free \ taken /\ evictable' = evictable \ taken
        /\ older' \subseteq evictable' \X evictable'
        /\ refs' \in [Blocks -> Nat]
        /\ \A b \in Blocks : refs'[b] = IF b \in taken THEN 1 ELSE refs[b]
        /\ blockKey' = [b \in Blocks |-> IF b \in taken THEN NoKey ELSE blockKey[b]]
        /\ cached' = [k \in Keys |-> IF cached[k] \in taken THEN NoBlock ELSE cached[k]]
        /\ stored' = [b \in Blocks |-> IF b \in taken THEN NoKey ELSE stored[b]]
        /\ free' \cup evictable' = Blocks \ Referenced'
        /\ \A x, y \in evictable' : x # y => (<<x, y>> \in older' <=> <<y, x>> \notin older')
        /\ NumUsed' = NumUsed + count
    <2>1. count \in Nat
      BY <1>6
    <2>. QED  BY <2>1, <1>2, <1>3, TakeFacts
  <1> HIDE DEF taken
  <1>8. /\ kept.blocks = a.blocks \o new /\ kept.reserved = n
        /\ kept.committed = a.committed /\ kept.guarantee = a.guarantee
        /\ kept.limit = a.limit /\ kept.readonly = a.readonly
        /\ kept \in Allocation
    <2> HIDE DEF a
    <2>1. a.blocks \o new \in Seq(Blocks)
      BY <1>4, <1>7
    <2>. QED  BY <2>1, <1>4 DEF Allocation
  <1>9. /\ Len(kept.blocks) = Len(a.blocks) + count
        /\ \A i \in 1 .. Len(a.blocks) : kept.blocks[i] = a.blocks[i]
        /\ \A i \in Len(a.blocks) + 1 .. Len(a.blocks) + count :
             /\ i - Len(a.blocks) \in 1 .. count
             /\ kept.blocks[i] = new[i - Len(a.blocks)] /\ kept.blocks[i] \in taken
        /\ DOMAIN kept.blocks = 1 .. Len(kept.blocks)
    <2> HIDE DEF a, kept
    <2> DEFINE all == a.blocks \o new
    <2>1. /\ Len(all) = Len(a.blocks) + Len(new)
          /\ DOMAIN all = 1 .. Len(a.blocks) + Len(new)
          /\ \A i \in 1 .. Len(a.blocks) : all[i] = a.blocks[i]
          /\ \A i \in Len(a.blocks) + 1 .. Len(a.blocks) + Len(new) :
               i - Len(a.blocks) \in 1 .. Len(new) /\ all[i] = new[i - Len(a.blocks)]
      <3>1. a.blocks \in Seq(Blocks) /\ new \in Seq(Blocks)
        BY <1>4, <1>7
      <3>. QED  BY ONLY <3>1, ConcatPlaces
    <2>2. kept.blocks = all
      BY <1>8
    <2> HIDE DEF all
    <2>. QED  BY <2>1, <2>2, <1>7 DEF taken, Places
  <1>10. /\ alloc' = [alloc EXCEPT ![r] = kept]
         /\ alloc'[r] = kept /\ alloc' \in [Requests -> Allocation]
         /\ \A q \in Requests \ {r} : alloc'[q] = alloc[q]
    <2>1. alloc' = [alloc EXCEPT ![r] = kept]
      BY <1>2, <1>3 DEF TypeOK
    <2> HIDE DEF kept
    <2>. QED  BY <2>1, <1>3, <1>8 DEF TypeOK
  <1> HIDE DEF kept
  <1>11. /\ Claim(a) \in Nat /\ Claim(kept) \in Nat
         /\ AtMost(count, Claim(a)) \in 0 .. count
         /\ a.guarantee => count = Claim(a) - Claim(kept)
         /\ AtMost(count, Claim(a)) = Claim(a) - Claim(kept)
         /\ NumUsed + count + NumClaimed - AtMost(count, Claim(a)) <= NumBlocks
    <2>1. Claim(kept) = ClaimAfter(r, count)
      BY <1>8, <1>9 DEF Claim, ClaimAfter, a
    <2>. QED  BY <2>1, <1>6
  <1>12. /\ ClaimsIn(alloc)[r] = Claim(a) /\ ClaimsIn(alloc')[r] = Claim(kept)
         /\ StrictClaimsIn(alloc)[r] = IF a.guarantee THEN Claim(a) ELSE 0
         /\ StrictClaimsIn(alloc')[r] = IF a.guarantee THEN Claim(kept) ELSE 0
         /\ InitialClaimsIn(alloc)[r] = IF a.guarantee THEN 0 ELSE Claim(a)
         /\ InitialClaimsIn(alloc')[r] = IF a.guarantee THEN 0 ELSE Claim(kept)
    BY <1>8, <1>10 DEF ClaimsIn, StrictClaimsIn, InitialClaimsIn
  <1>13. completionClaims \in Nat /\ initialClaims \in Nat /\ NumUsed \in Nat
         /\ NumBlocks \in Nat
    BY <1>3, UsedBlocks, CapacityAssumption DEF TypeOK, PoolExact
  <1> HIDE DEF a
  <1>14. /\ completionClaims' = completionClaims
              + (StrictClaimsIn(alloc')[r] - StrictClaimsIn(alloc)[r])
         /\ initialClaims' = initialClaims
              + (InitialClaimsIn(alloc')[r] - InitialClaimsIn(alloc)[r])
         /\ NumClaimed' = NumClaimed - AtMost(count, Claim(a))
    <2>1. CASE a.guarantee
      BY <2>1, <1>1, <1>6, <1>11, <1>12, <1>13 DEF NumClaimed
    <2>2. CASE ~a.guarantee
      BY <2>2, <1>1, <1>6, <1>11, <1>12, <1>13 DEF NumClaimed
    <2>. QED  BY <2>1, <2>2
  <1>15. NumClaimed \in Nat
    BY <1>13 DEF NumClaimed
  <1>16. NumUsed' + NumClaimed' <= NumBlocks
    BY <1>6, <1>7, <1>11, <1>13, <1>14, <1>15
  <1>17. Detached'
    BY <1>1, <1>3, <1>10 DEF Detached
  <1>18. ClaimsExact' /\ completionClaims' \in Nat /\ initialClaims' \in Nat
    <2>1. attached' \in SUBSET Requests
      BY <1>1, <1>3 DEF TypeOK
    <2>. QED  BY <2>1, <1>3, <1>10, <1>14, <1>16, <1>17, ClaimsFollow
  <1>19. TypeOK'
    <2>1. free' \subseteq Blocks /\ evictable' \subseteq Blocks
          /\ older' \subseteq Blocks \X Blocks
      BY <1>3, <1>7 DEF TypeOK
    <2>2. /\ cached' \in [Keys -> Blocks \cup {NoBlock}]
          /\ blockKey' \in [Blocks -> Keys \cup {NoKey}]
          /\ DOMAIN stored' = Blocks
      BY <1>3, <1>7 DEF TypeOK
    <2>. QED  BY <2>1, <2>2, <1>1, <1>3, <1>7, <1>10, <1>18 DEF TypeOK
  <1>20. Ordered' /\ Epochs'
    BY <1>1, <1>3, <1>7 DEF Ordered, Epochs
  <1>21. Tables'
    <2>1. /\ Len(kept.blocks) = BlocksFor(kept.committed + kept.reserved)
          /\ kept.committed + kept.reserved <= MaxCommitted[r]
          /\ kept.guarantee => kept.limit = BlocksFor(MaxCommitted[r])
          /\ kept.readonly = FullPromptBlocks(r, kept.committed)
      <3>1. a.committed + n \in Nat
        BY <1>4
      <3>2. BlocksFor(a.committed + n) \in Nat
        BY <3>1, BlockCount
      <3>. QED  BY <3>2, <1>1, <1>4, <1>5, <1>8, <1>9 DEF count, Growth, a
    <2>2. \A q \in attached' : q = r \/ (q \in attached /\ alloc'[q] = alloc[q])
      BY <1>1, <1>3, <1>10 DEF TypeOK
    <2>. QED  BY <2>1, <2>2, <1>3, <1>10 DEF Tables, FullPromptBlocks, NumKeys
  <1>22. ASSUME NEW q \in attached, NEW b \in Held(q)
         PROVE  b \in Blocks /\ b \notin taken /\ refs'[b] = refs[b]
                /\ stored'[b] = stored[b] /\ blockKey'[b] = blockKey[b]
    <2>1. b \in Blocks /\ b \notin free /\ b \notin evictable
      BY <1>3, HeldIsReferenced
    <2>. QED  BY <2>1, <1>7
  <1>23. PoolExact'
    <2>1. \A q \in attached : q # r => Held(q)' = Held(q)
      BY <1>3, <1>10 DEF Held, Table, TypeOK
    <2>2. Held(r)' = Held(r) \cup taken
      <3>1. \A b : b \in Held(r)' <=> \E i \in 1 .. Len(kept.blocks) : b = kept.blocks[i]
        BY <1>9, <1>10 DEF Held, Table
      <3>2. \A b : b \in Held(r) <=> \E i \in 1 .. Len(a.blocks) : b = a.blocks[i]
        BY <1>3, TableType DEF Table, a
      <3>3. \A b : b \in taken <=> \E i \in 1 .. count : b = new[i]
        BY DEF taken, Places
      <3>4. ASSUME NEW i \in 1 .. count
            PROVE  /\ Len(a.blocks) + i \in Len(a.blocks) + 1 .. Len(a.blocks) + count
                   /\ kept.blocks[Len(a.blocks) + i] = new[i]
        <4>1. Len(a.blocks) + i \in Len(a.blocks) + 1 .. Len(a.blocks) + count
          BY <1>4, <1>6
        <4>2. (Len(a.blocks) + i) - Len(a.blocks) = i
          BY <1>4
        <4>. QED  BY <4>1, <4>2, <1>9
      <3>5. ASSUME NEW b \in Held(r)' PROVE b \in Held(r) \cup taken
        <4>1. PICK i \in 1 .. Len(kept.blocks) : b = kept.blocks[i]
          BY <3>1
        <4>2. i \in 1 .. Len(a.blocks) \/ i \in Len(a.blocks) + 1 .. Len(a.blocks) + count
          BY <1>4, <1>6, <1>9
        <4>. QED  BY <4>1, <4>2, <3>2, <1>9
      <3>6. ASSUME NEW b \in Held(r) PROVE b \in Held(r)'
        <4>1. PICK i \in 1 .. Len(a.blocks) : b = a.blocks[i]
          BY <3>2
        <4>2. i \in 1 .. Len(kept.blocks) /\ kept.blocks[i] = a.blocks[i]
          <5>1. count \in Nat /\ Len(a.blocks) \in Nat
            BY <1>4, <1>6
          <5>. QED  BY <5>1, <1>9
        <4>. QED  BY <4>1, <4>2, <3>1
      <3>7. ASSUME NEW b \in taken PROVE b \in Held(r)'
        <4>1. PICK i \in 1 .. count : b = new[i]
          BY <3>3
        <4>2. Len(a.blocks) + i \in 1 .. Len(kept.blocks)
          BY <1>4, <1>6, <1>9
        <4>. QED  BY <4>1, <4>2, <3>1, <3>4
      <3>. QED  BY <3>5, <3>6, <3>7
    <2>3. ASSUME NEW b \in Blocks
          PROVE  refs'[b] = Cardinality(Holders(b)')
      <3>1. CASE b \in taken
        <4>1. \A q \in attached : b \notin Held(q)
          BY <1>22, <3>1
        <4>2. Holders(b)' = {r}
          BY <4>1, <2>1, <2>2, <3>1, <1>1 DEF Holders
        <4>3. Cardinality(Holders(b)') = 1
          BY <4>2, FS_Singleton, Zenon
        <4>. QED  BY <4>3, <3>1, <1>7
      <3>2. CASE b \notin taken
        <4>1. Holders(b)' = Holders(b)
          BY <2>1, <2>2, <3>2, <1>1 DEF Holders
        <4>2. Cardinality(Holders(b)') = refs[b]
          BY <4>1, <1>3, Zenon DEF PoolExact
        <4>. QED  BY <4>2, <3>2, <1>7
      <3>. QED  BY <3>1, <3>2
    <2>4. free' \cap evictable' = {}
      BY <1>3, <1>7 DEF PoolExact
    <2>5. \A q \in attached' : \A i, j \in DOMAIN Table(q)' :
            Table(q)'[i] = Table(q)'[j] => i = j
      <3>1. ASSUME NEW i \in 1 .. Len(kept.blocks), NEW j \in 1 .. Len(kept.blocks),
                   kept.blocks[i] = kept.blocks[j]
            PROVE  i = j
        <4>1. \A l \in 1 .. Len(kept.blocks) :
                l \in 1 .. Len(a.blocks) \/ l \in Len(a.blocks) + 1 .. Len(a.blocks) + count
          BY <1>4, <1>6, <1>9
        <4>2. \A l \in 1 .. Len(a.blocks) : kept.blocks[l] \notin taken
          BY <1>1, <1>4, <1>9, <1>22
        <4>3. CASE i \in 1 .. Len(a.blocks) /\ j \in 1 .. Len(a.blocks)
          <5>1. a.blocks[i] = a.blocks[j]
            BY <3>1, <4>3, <1>9
          <5>2. r \in attached /\ Table(r) = a.blocks
            BY <1>1 DEF Table, a
          <5>3. DOMAIN Table(r) = 1 .. Len(a.blocks)
            BY <5>2, <1>3, TableType
          <5>4. \A k, l \in DOMAIN Table(r) : Table(r)[k] = Table(r)[l] => k = l
            BY <5>2, <1>3, Zenon DEF PoolExact
          <5>. QED  BY ONLY <5>1, <5>2, <5>3, <5>4, <4>3
        <4>4. CASE i \notin 1 .. Len(a.blocks) /\ j \notin 1 .. Len(a.blocks)
          <5>1. new[i - Len(a.blocks)] = new[j - Len(a.blocks)]
            BY <3>1, <4>1, <4>4, <1>9
          <5>2. i - Len(a.blocks) = j - Len(a.blocks)
            BY <5>1, <4>1, <4>4, <1>7, <1>9
          <5>. QED  BY <5>2, <1>4
        <4>. QED  BY <3>1, <4>1, <4>2, <4>3, <4>4, <1>9
      <3>2. ASSUME NEW q \in attached', NEW i \in DOMAIN Table(q)',
                   NEW j \in DOMAIN Table(q)', Table(q)'[i] = Table(q)'[j]
            PROVE  i = j
        <4>1. CASE q = r
          BY <4>1, <3>1, <3>2, <1>9, <1>10 DEF Table
        <4>2. CASE q # r
          BY <4>2, <3>2, <1>1, <1>3, <1>10 DEF Table, PoolExact, TypeOK
        <4>. QED  BY <4>1, <4>2
      <3>. QED  BY <3>2
    <2>. QED  BY <2>3, <2>4, <2>5, <1>7 DEF PoolExact
  <1>24. IndexSound'
    <2>1. \A b \in taken : b \in Blocks
      BY <1>7
    <2>2. \A k \in Keys : cached'[k] # NoBlock =>
                            cached'[k] = cached[k] /\ cached[k] \notin taken
                            /\ cached[k] \in Blocks
      BY <1>3, <1>7 DEF TypeOK
    <2>3. \A k \in Keys : cached'[k] # NoBlock => blockKey'[cached'[k]] = k
      BY <2>2, <1>3, <1>7 DEF IndexSound
    <2>4. \A b \in Blocks : blockKey'[b] # NoKey =>
            b \notin taken /\ blockKey'[b] = blockKey[b] /\ blockKey[b] \in Keys
            /\ stored'[b] = stored[b]
      BY <1>3, <1>7 DEF TypeOK
    <2>5. \A b \in Blocks : blockKey'[b] # NoKey => cached'[blockKey'[b]] = b
      BY <2>4, <1>3, <1>7 DEF IndexSound
    <2>6. /\ \A b \in evictable' : blockKey'[b] # NoKey
          /\ \A b \in free' : blockKey'[b] = NoKey
      BY <1>3, <1>7 DEF IndexSound, TypeOK
    <2>. QED  BY <2>3, <2>4, <2>5, <2>6, <1>1, <1>3 DEF IndexSound
  <1>25. \A q \in attached : \A i \in 1 .. Len(Table(q)) :
           Table(q)[i] \in Held(q) /\ Table(q)'[i] = Table(q)[i]
    <2> SUFFICES ASSUME NEW q \in attached, NEW i \in 1 .. Len(Table(q))
                 PROVE  Table(q)[i] \in Held(q) /\ Table(q)'[i] = Table(q)[i]
      OBVIOUS
    <2>1. q \in Requests
      BY <1>3 DEF TypeOK
    <2>2. CASE q = r
      BY <2>2, <1>4, <1>9, <1>10 DEF Table, a
    <2>3. CASE q # r
      BY <2>1, <2>3, <1>3, <1>10, TableType DEF Table
    <2>. QED  BY <2>2, <2>3
  <1>26. CommittedContent'
    <2>1. ASSUME NEW q \in attached
          PROVE  /\ alloc'[q].committed = alloc[q].committed
                 /\ Len(Table(q)') >= BlocksFor(alloc[q].committed)
                 /\ Len(Table(q)) >= BlocksFor(alloc[q].committed)
                 /\ BlocksFor(alloc[q].committed) \in Nat
                 /\ Len(Table(q)) \in Nat
      <3>1. q \in Requests /\ alloc[q].committed \in Nat /\ Len(Table(q)) \in Nat
        BY <1>3, TableType DEF TypeOK, Allocation
      <3>2. BlocksFor(alloc[q].committed) \in Nat
        BY <3>1, BlockCount
      <3>3. Len(Table(q)) >= BlocksFor(alloc[q].committed)
        BY <1>3 DEF CommittedContent
      <3>4. CASE q = r
        BY SMTT(40), <3>1, <3>2, <3>3, <3>4, <1>4, <1>6, <1>8, <1>9, <1>10 DEF Table, a
      <3>5. CASE q # r
        BY <3>1, <3>2, <3>3, <3>5, <1>10 DEF Table
      <3>. QED  BY <3>4, <3>5
    <2>2. ASSUME NEW q \in attached, NEW i \in 1 .. BlocksFor(alloc[q].committed)
          PROVE  stored'[Table(q)'[i]] =
                   Fragment(generation, q, AtMost(i * BlockSize, alloc[q].committed))
      <3>1. i \in 1 .. Len(Table(q))
        BY <2>1
      <3>2. stored[Table(q)[i]] =
              Fragment(generation, q, AtMost(i * BlockSize, alloc[q].committed))
        BY <1>3 DEF CommittedContent
      <3>. QED  BY <3>1, <3>2, <1>22, <1>25
    <2>. QED  BY <2>1, <2>2, <1>1 DEF CommittedContent
  <1>27. WritableIsPrivate'
    <2> SUFFICES ASSUME NEW q \in attached,
                        NEW i \in alloc'[q].committed \div BlockSize + 1 .. Len(Table(q)')
                 PROVE  refs'[Table(q)'[i]] = 1 /\ blockKey'[Table(q)'[i]] = NoKey
      BY <1>1 DEF WritableIsPrivate
    <2>1. /\ q \in Requests /\ alloc'[q].committed = alloc[q].committed
          /\ alloc[q].committed \div BlockSize \in Nat /\ Len(Table(q)) \in Nat
      <3>1. q \in Requests /\ alloc[q].committed \in Nat /\ Len(Table(q)) \in Nat
        BY <1>3, TableType DEF TypeOK, Allocation
      <3>2. alloc[q].committed \div BlockSize \in Nat
        BY <3>1, BlockCount
      <3>. QED  BY <3>1, <3>2, <1>8, <1>10 DEF a
    <2>2. CASE i \in 1 .. Len(Table(q))
      <3>1. i \in alloc[q].committed \div BlockSize + 1 .. Len(Table(q))
        BY <2>1, <2>2
      <3>2. refs[Table(q)[i]] = 1 /\ blockKey[Table(q)[i]] = NoKey
        BY <3>1, <1>3 DEF WritableIsPrivate
      <3>. QED  BY <2>2, <3>2, <1>22, <1>25
    <2>3. CASE i \notin 1 .. Len(Table(q))
      <3>1. q = r
        BY <2>1, <2>3, <1>10 DEF Table
      <3>2. i \in Len(a.blocks) + 1 .. Len(a.blocks) + count
        BY SMTT(40), <2>1, <2>3, <3>1, <1>4, <1>6, <1>9, <1>10 DEF Table, a
      <3>3. Table(q)'[i] \in taken
        BY <3>1, <3>2, <1>9, <1>10 DEF Table
      <3>. QED  BY <3>3, <1>7
    <2>. QED  BY <2>2, <2>3
  <1>28. CacheInv'
    BY <1>17, <1>18, <1>19, <1>20, <1>21, <1>23, <1>24, <1>26, <1>27 DEF CacheInv
  <1>29. /\ ClaimsIn(alloc)[r] - ClaimsIn(alloc')[r] \in Nat
         /\ NumUsed' - NumUsed >= ClaimsIn(alloc)[r] - ClaimsIn(alloc')[r]
         /\ NumUsed' - NumUsed - (ClaimsIn(alloc)[r] - ClaimsIn(alloc')[r])
              <= NumBlocks - (NumUsed + NumClaimed)
    <2>1. NumUsed' = NumUsed + count
      BY <1>7
    <2>2. AtMost(count, Claim(a)) \in 0 .. count
      BY <1>11
    <2>3. ClaimsIn(alloc)[r] - ClaimsIn(alloc')[r] = AtMost(count, Claim(a))
      BY <1>11, <1>12
    <2>4. NumUsed + count + NumClaimed - AtMost(count, Claim(a)) <= NumBlocks
      BY <1>11
    <2>. QED  BY <2>1, <2>2, <2>3, <2>4, <1>6, <1>13, <1>15
  <1>. QED  BY <1>10, <1>28, <1>29

----------------------------------------------------------------------------
(* Releasing blocks, which commit and free do.                             *)

(* The released blocks nobody else references, and those of them that the  *)
(* index still names.                                                      *)
Idle(released) == { b \in Places(released, Len(released)) : refs[b] = 1 }
IdleKeyed(released, keyOf) == { b \in Idle(released) : keyOf[b] # NoKey }

(* The LRU order after a release: the released pages are the youngest, the *)
(* first of them the youngest of all.                                      *)
Younger(released, keyed) ==
  older \cup (evictable \X keyed) \cup
    ({ <<released[p[2]], released[p[1]]>> :
         p \in { q \in (DOMAIN released) \X (DOMAIN released) : q[1] < q[2] } }
       \cap (keyed \X keyed))

(* Adding distinct pages at the young end of a total order leaves it one.  *)
LEMMA YoungerIsTotal ==
  ASSUME Ordered, PoolExact, NEW released \in Seq(Blocks),
         \A i, j \in 1 .. Len(released) : released[i] = released[j] => i = j,
         NEW keyed \in SUBSET Places(released, Len(released)),
         keyed \cap evictable = {}
  PROVE  LET all == evictable \cup keyed
             order == Younger(released, keyed)
         IN  /\ order \subseteq all \X all
             /\ \A x, y \in all : x # y => (<<x, y>> \in order <=> <<y, x>> \notin order)
  <1> DEFINE all == evictable \cup keyed
             order == Younger(released, keyed)
             d == 1 .. Len(released)
  <1>1. DOMAIN released = d /\ d \subseteq Nat
    OBVIOUS
  <1>2. \A x, y : <<x, y>> \in order <=>
          \/ <<x, y>> \in older
          \/ x \in evictable /\ y \in keyed
          \/ /\ x \in keyed /\ y \in keyed
             /\ \E i, j \in d : i < j /\ x = released[j] /\ y = released[i]
    <2> SUFFICES ASSUME NEW x, NEW y
                 PROVE  <<x, y>> \in { <<released[p[2]], released[p[1]]>> :
                            p \in { q \in (DOMAIN released) \X (DOMAIN released) :
                                      q[1] < q[2] } }
                          <=> \E i, j \in d : i < j /\ x = released[j] /\ y = released[i]
      BY DEF Younger
    <2>1. ASSUME NEW p \in { q \in (DOMAIN released) \X (DOMAIN released) : q[1] < q[2] },
                 <<x, y>> = <<released[p[2]], released[p[1]]>>
          PROVE  \E i, j \in d : i < j /\ x = released[j] /\ y = released[i]
      <3>1. p[1] \in d /\ p[2] \in d /\ p[1] < p[2] /\ x = released[p[2]] /\ y = released[p[1]]
        BY <2>1, <1>1
      <3>. QED  BY <3>1
    <2>2. ASSUME NEW i \in d, NEW j \in d, i < j, x = released[j], y = released[i]
          PROVE  <<x, y>> \in { <<released[p[2]], released[p[1]]>> :
                            p \in { q \in (DOMAIN released) \X (DOMAIN released) :
                                      q[1] < q[2] } }
      <3>1. <<i, j>> \in { q \in (DOMAIN released) \X (DOMAIN released) : q[1] < q[2] }
        BY <2>2, <1>1
      <3>2. <<x, y>> = <<released[<<i, j>>[2]], released[<<i, j>>[1]]>>
        BY <2>2
      <3>. QED  BY <3>1, <3>2
    <2>. QED  BY <2>1, <2>2
  <1>3. \A x, y : <<x, y>> \in older => x \in evictable /\ y \in evictable
    BY DEF Ordered
  <1>4. order \subseteq all \X all
    BY <1>3 DEF Ordered, Younger
  <1>5. ASSUME NEW x \in all, NEW y \in all, x # y
        PROVE  <<x, y>> \in order <=> <<y, x>> \notin order
    <2>1. CASE x \in evictable /\ y \in evictable
      BY <1>2, <1>3, <1>5, <2>1 DEF PoolExact
    <2>2. CASE x \in evictable /\ y \in keyed
      BY <1>2, <1>3, <2>2
    <2>3. CASE x \in keyed /\ y \in evictable
      BY <1>2, <1>3, <2>3
    <2>4. CASE x \in keyed /\ y \in keyed
      <3>1. PICK i \in d, j \in d : x = released[i] /\ y = released[j]
        BY <2>4 DEF Places
      <3>2. \A k, l \in d : x = released[k] /\ y = released[l] => k = i /\ l = j
        BY <3>1
      <3>3. <<x, y>> \in order <=> j < i
        BY <1>2, <1>3, <2>4, <3>1, <3>2
      <3>4. <<y, x>> \in order <=> i < j
        BY <1>2, <1>3, <2>4, <3>1, <3>2
      <3>5. i # j
        BY <1>5, <3>1
      <3>. QED  BY <3>3, <3>4, <3>5, <1>1
    <2>. QED  BY <2>1, <2>2, <2>3, <2>4
  <1>. QED  BY <1>4, <1>5

(* The pool after distinct referenced blocks are released: those with one  *)
(* reference are idle now, evictable when keyed and on the heap when not.  *)
LEMMA ReleaseFacts ==
  ASSUME TypeOK, PoolExact, Ordered, NEW released \in Seq(Blocks), NEW keyOf,
         NEW content,
         \A i, j \in 1 .. Len(released) : released[i] = released[j] => i = j,
         \A i \in 1 .. Len(released) : refs[released[i]] > 0,
         Release(released, keyOf, content)
  PROVE  LET gone == Places(released, Len(released))
             idle == Idle(released)
             keyed == IdleKeyed(released, keyOf)
         IN  /\ keyed \subseteq idle /\ idle \subseteq gone /\ gone \subseteq Blocks
             /\ free' = free \cup (idle \ keyed) /\ evictable' = evictable \cup keyed
             /\ free' \cap evictable' = {}
             /\ older' \subseteq evictable' \X evictable'
             /\ \A x, y \in evictable' :
                  x # y => (<<x, y>> \in older' <=> <<y, x>> \notin older')
             /\ refs' \in [Blocks -> Nat]
             /\ \A b \in Blocks : refs'[b] = refs[b] - (IF b \in gone THEN 1 ELSE 0)
             /\ free' \cup evictable' = Blocks \ Referenced'
             /\ stored' = [b \in Blocks |->
                             IF b \in idle \ keyed THEN NoKey ELSE content[b]]
             /\ IsFiniteSet(idle) /\ Cardinality(idle) \in Nat
             /\ NumUsed' = NumUsed - Cardinality(idle)
  <1> DEFINE gone == Places(released, Len(released))
             idle == Idle(released)
             keyed == IdleKeyed(released, keyOf)
  <1>1. DOMAIN released = 1 .. Len(released)
        /\ \A i \in 1 .. Len(released) : released[i] \in Blocks
    OBVIOUS
  <1>2. gone = { released[i] : i \in DOMAIN released }
    BY <1>1 DEF Places
  <1>3. /\ idle = { b \in gone : refs[b] = 1 }
        /\ keyed = { b \in idle : keyOf[b] # NoKey }
    BY DEF Idle, IdleKeyed
  <1>4. /\ free' = free \cup (idle \ keyed) /\ evictable' = evictable \cup keyed
        /\ older' = Younger(released, keyed)
        /\ refs' = [b \in Blocks |-> refs[b] - (IF b \in gone THEN 1 ELSE 0)]
        /\ stored' = [b \in Blocks |-> IF b \in idle \ keyed THEN NoKey ELSE content[b]]
    BY <1>2, <1>3, Zenon DEF Release, Younger
  <1>5. /\ free \subseteq Blocks /\ evictable \subseteq Blocks
        /\ \A b \in Blocks : refs[b] \in Nat
        /\ free \cap evictable = {}
        /\ free \cup evictable = Blocks \ Referenced
    BY DEF TypeOK, PoolExact
  <1>6. gone \subseteq Blocks /\ \A b \in gone : refs[b] > 0
    BY <1>1 DEF Places
  <1>7. keyed \subseteq idle /\ idle \subseteq gone
    BY <1>3
  <1> HIDE DEF gone, idle, keyed
  <1>8. \A b \in gone : b \notin free /\ b \notin evictable
    BY <1>5, <1>6 DEF Referenced
  <1>9. free' \cap evictable' = {}
    BY <1>4, <1>5, <1>7, <1>8
  <1>10. /\ older' \subseteq evictable' \X evictable'
         /\ \A x, y \in evictable' : x # y => (<<x, y>> \in older' <=> <<y, x>> \notin older')
    <2>1. keyed \in SUBSET gone /\ keyed \cap evictable = {}
      BY <1>7, <1>8
    <2>2. /\ Younger(released, keyed) \subseteq (evictable \cup keyed) \X (evictable \cup keyed)
          /\ \A x, y \in evictable \cup keyed : x # y =>
               (<<x, y>> \in Younger(released, keyed)
                  <=> <<y, x>> \notin Younger(released, keyed))
      BY <2>1, YoungerIsTotal DEF gone
    <2>. QED  BY <2>2, <1>4, Zenon
  <1>11. /\ refs' \in [Blocks -> Nat]
         /\ \A b \in Blocks : refs'[b] = refs[b] - (IF b \in gone THEN 1 ELSE 0)
    BY <1>4, <1>5, <1>6
  <1>12. \A b \in Blocks : refs'[b] > 0 <=> refs[b] > 0 /\ b \notin idle
    BY <1>3, <1>5, <1>6, <1>11
  <1>13. free' \cup evictable' = (free \cup evictable) \cup idle
    BY <1>4, <1>7
  <1>14. free' \cup evictable' = Blocks \ Referenced'
    BY <1>5, <1>6, <1>7, <1>12, <1>13 DEF Referenced
  <1>15. IsFiniteSet(idle) /\ Cardinality(idle) \in Nat
    BY <1>6, <1>7, FiniteSets
  <1>16. NumUsed' = NumUsed - Cardinality(idle)
    <2>1. Cardinality((free \cup evictable) \cup idle) =
            Cardinality(free \cup evictable) + Cardinality(idle)
          /\ Cardinality(free \cup evictable) \in Nat
      <3>1. IsFiniteSet(free \cup evictable) /\ (free \cup evictable) \cap idle = {}
        BY <1>5, <1>7, <1>8, FiniteSets
      <3>. QED  BY <3>1, <1>15, DisjointSizes
    <2>2. NumUsed = NumBlocks - Cardinality(free \cup evictable)
      BY <1>5, UsedBlocks
    <2>3. IsFiniteSet(free') /\ IsFiniteSet(evictable')
      <3>1. free' \subseteq Blocks /\ evictable' \subseteq Blocks
        BY <1>4, <1>5, <1>6, <1>7
      <3>. QED  BY <3>1, FiniteSets
    <2>4. /\ Cardinality(free' \cup evictable') = Cardinality(free') + Cardinality(evictable')
          /\ Cardinality(free') \in Nat /\ Cardinality(evictable') \in Nat
      BY <2>3, <1>9, DisjointSizes
    <2>5. Cardinality(free' \cup evictable') = Cardinality((free \cup evictable) \cup idle)
      BY <1>13, Zenon
    <2>6. NumUsed' = NumBlocks - (Cardinality(free') + Cardinality(evictable'))
      BY DEF NumUsed
    <2>. QED  BY <2>1, <2>2, <2>4, <2>5, <2>6, <1>15, CapacityAssumption
  <1>. QED  BY <1>4, <1>6, <1>7, <1>9, <1>10, <1>11, <1>14, <1>15, <1>16
            DEF gone, idle, keyed

(* A departure keeps the invariant: its blocks lose one holder, and what   *)
(* others still read stays where it is.                                    *)
LEMMA FreeKeeps ==
  ASSUME CacheInv, NEW r \in Requests, Free(r)
  PROVE  /\ CacheInv'
         /\ \A q \in Requests \ {r} : alloc'[q] = alloc[q]
         /\ ClaimsIn(alloc')[r] = 0
         /\ NumUsed' <= NumUsed
  <1> DEFINE a == alloc[r]
  <1>1. /\ r \in attached /\ attached' = attached \ {r}
        /\ alloc' = [alloc EXCEPT ![r] = NoAllocation]
        /\ completionClaims' = completionClaims -
             (IF a.guarantee THEN a.limit - Len(a.blocks) ELSE 0)
        /\ initialClaims' = initialClaims - (IF a.guarantee THEN 0 ELSE Claim(a))
        /\ Release(Table(r), blockKey, stored)
        /\ UNCHANGED <<cached, blockKey, cacheEpoch, generation>>
    BY DEF Free, index, Table
  <1>2. /\ TypeOK /\ Ordered /\ Epochs /\ Detached /\ Tables /\ PoolExact
        /\ IndexSound /\ CommittedContent /\ WritableIsPrivate /\ ClaimsExact
    BY DEF CacheInv
  <1>3. /\ a \in Allocation /\ a.committed \in Nat /\ Len(a.blocks) \in Nat
        /\ a.guarantee \in BOOLEAN /\ a.limit \in Nat /\ a.reserved \in Nat
    <2>1. a \in Allocation
      BY <1>2, TableType
    <2> HIDE DEF a
    <2>. QED  BY <2>1 DEF Allocation
  <1>4. /\ Table(r) \in Seq(Blocks) /\ DOMAIN Table(r) = 1 .. Len(Table(r))
        /\ Held(r) = Places(Table(r), Len(Table(r)))
        /\ \A i, j \in 1 .. Len(Table(r)) : Table(r)[i] = Table(r)[j] => i = j
        /\ \A i \in 1 .. Len(Table(r)) : refs[Table(r)[i]] > 0
    <2>1. /\ Table(r) \in Seq(Blocks) /\ DOMAIN Table(r) = 1 .. Len(Table(r))
          /\ Held(r) = Places(Table(r), Len(Table(r)))
      BY <1>2, TableType DEF Places
    <2>2. \A i, j \in 1 .. Len(Table(r)) : Table(r)[i] = Table(r)[j] => i = j
      BY <2>1, <1>1, <1>2 DEF PoolExact
    <2>3. \A i \in 1 .. Len(Table(r)) : Table(r)[i] \in Held(r)
      BY <2>1 DEF Places
    <2>. QED  BY <2>1, <2>2, <2>3, <1>1, <1>2, HeldIsReferenced
  <1> DEFINE idle == Idle(Table(r))
             keyed == IdleKeyed(Table(r), blockKey)
  <1>5. /\ keyed \subseteq idle /\ idle \subseteq Held(r) /\ Held(r) \subseteq Blocks
        /\ free' = free \cup (idle \ keyed) /\ evictable' = evictable \cup keyed
        /\ free' \cap evictable' = {}
        /\ older' \subseteq evictable' \X evictable'
        /\ \A x, y \in evictable' : x # y => (<<x, y>> \in older' <=> <<y, x>> \notin older')
        /\ refs' \in [Blocks -> Nat]
        /\ \A b \in Blocks : refs'[b] = refs[b] - (IF b \in Held(r) THEN 1 ELSE 0)
        /\ free' \cup evictable' = Blocks \ Referenced'
        /\ stored' = [b \in Blocks |-> IF b \in idle \ keyed THEN NoKey ELSE stored[b]]
        /\ Cardinality(idle) \in Nat
        /\ NumUsed' = NumUsed - Cardinality(idle)
    <2> DEFINE gone == Places(Table(r), Len(Table(r)))
    <2>1. /\ TypeOK /\ PoolExact /\ Ordered /\ Table(r) \in Seq(Blocks)
          /\ \A i, j \in 1 .. Len(Table(r)) : Table(r)[i] = Table(r)[j] => i = j
          /\ \A i \in 1 .. Len(Table(r)) : refs[Table(r)[i]] > 0
          /\ Release(Table(r), blockKey, stored)
      BY <1>1, <1>2, <1>4
    <2>2. /\ keyed \subseteq idle /\ idle \subseteq gone /\ gone \subseteq Blocks
          /\ free' = free \cup (idle \ keyed) /\ evictable' = evictable \cup keyed
          /\ free' \cap evictable' = {}
          /\ older' \subseteq evictable' \X evictable'
          /\ \A x, y \in evictable' : x # y => (<<x, y>> \in older' <=> <<y, x>> \notin older')
          /\ refs' \in [Blocks -> Nat]
          /\ \A b \in Blocks : refs'[b] = refs[b] - (IF b \in gone THEN 1 ELSE 0)
          /\ free' \cup evictable' = Blocks \ Referenced'
          /\ stored' = [b \in Blocks |-> IF b \in idle \ keyed THEN NoKey ELSE stored[b]]
          /\ Cardinality(idle) \in Nat
          /\ NumUsed' = NumUsed - Cardinality(idle)
      BY ONLY <2>1, ReleaseFacts
    <2>3. gone = Held(r)
      BY <1>4
    <2> HIDE DEF gone, idle, keyed
    <2>. QED  BY <2>2, <2>3
  <1>6. /\ \A b \in idle : refs[b] = 1
        /\ \A b \in idle : b \in keyed <=> blockKey[b] # NoKey
    BY DEF Idle, IdleKeyed
  <1> HIDE DEF idle, keyed
  <1>7. /\ alloc'[r] = NoAllocation /\ alloc' \in [Requests -> Allocation]
        /\ \A q \in Requests \ {r} : alloc'[q] = alloc[q]
        /\ \A q \in attached' : q \in attached /\ q # r /\ q \in Requests
                                /\ alloc'[q] = alloc[q] /\ Table(q)' = Table(q)
                                /\ Held(q)' = Held(q)
    <2>1. /\ alloc'[r] = NoAllocation /\ alloc' \in [Requests -> Allocation]
          /\ \A q \in Requests \ {r} : alloc'[q] = alloc[q]
      BY <1>1, <1>2, ClaimType DEF TypeOK
    <2>. QED  BY <2>1, <1>1, <1>2 DEF TypeOK, Table, Held
  <1>8. Detached'
    BY <1>1, <1>2, <1>7 DEF Detached
  <1>9. a.guarantee => Claim(a) = a.limit - Len(a.blocks)
    <2> SUFFICES ASSUME a.guarantee PROVE Claim(a) = a.limit - Len(a.blocks)
      OBVIOUS
    <2>1. /\ Len(a.blocks) = BlocksFor(a.committed + a.reserved)
          /\ a.committed + a.reserved <= MaxCommitted[r]
          /\ a.limit = BlocksFor(MaxCommitted[r])
      BY <1>1, <1>2 DEF Tables
    <2>2. a.committed + a.reserved \in Nat /\ MaxCommitted[r] \in Nat
      BY <1>3, PromptPages
    <2> HIDE DEF a
    <2>3. Len(a.blocks) <= a.limit
      BY <2>1, <2>2, BlocksMonotone
    <2>. QED  BY <2>3, <1>3, ClaimType
  <1>10. /\ ClaimsIn(alloc)[r] = Claim(a) /\ ClaimsIn(alloc')[r] = 0
         /\ StrictClaimsIn(alloc)[r] = IF a.guarantee THEN Claim(a) ELSE 0
         /\ StrictClaimsIn(alloc')[r] = 0
         /\ InitialClaimsIn(alloc)[r] = IF a.guarantee THEN 0 ELSE Claim(a)
         /\ InitialClaimsIn(alloc')[r] = 0 /\ Claim(a) \in Nat
    BY <1>3, <1>7, ClaimType DEF ClaimsIn, StrictClaimsIn, InitialClaimsIn, NoAllocation
  <1>11. completionClaims \in Nat /\ initialClaims \in Nat /\ NumUsed \in Nat
         /\ NumBlocks \in Nat
    BY <1>2, UsedBlocks, CapacityAssumption DEF TypeOK, PoolExact
  <1> HIDE DEF a
  <1>12. /\ completionClaims' = completionClaims
              + (StrictClaimsIn(alloc')[r] - StrictClaimsIn(alloc)[r])
         /\ initialClaims' = initialClaims
              + (InitialClaimsIn(alloc')[r] - InitialClaimsIn(alloc)[r])
         /\ NumClaimed' = NumClaimed - Claim(a)
    <2>1. CASE a.guarantee
      BY <2>1, <1>1, <1>9, <1>10, <1>11 DEF NumClaimed
    <2>2. CASE ~a.guarantee
      BY <2>2, <1>1, <1>10, <1>11 DEF NumClaimed
    <2>. QED  BY <2>1, <2>2
  <1>13. NumUsed' + NumClaimed' <= NumBlocks /\ NumUsed' <= NumUsed
    <2>1. NumUsed' = NumUsed - Cardinality(idle) /\ Cardinality(idle) \in Nat
      BY <1>5
    <2>2. NumClaimed \in Nat /\ NumUsed + NumClaimed <= NumBlocks
      BY <1>2, <1>11 DEF NumClaimed, ClaimsExact
    <2>. QED  BY <2>1, <2>2, <1>10, <1>11, <1>12
  <1>14. ClaimsExact' /\ completionClaims' \in Nat /\ initialClaims' \in Nat
    <2>1. attached' \in SUBSET Requests
      BY <1>1, <1>2 DEF TypeOK
    <2>. QED  BY <2>1, <1>2, <1>7, <1>8, <1>12, <1>13, ClaimsFollow
  <1>15. TypeOK'
    <2>1. free' \subseteq Blocks /\ evictable' \subseteq Blocks
          /\ older' \subseteq Blocks \X Blocks
      BY <1>2, <1>5 DEF TypeOK
    <2>2. DOMAIN stored' = Blocks
      BY <1>5
    <2>. QED  BY <2>1, <2>2, <1>1, <1>2, <1>5, <1>7, <1>14 DEF TypeOK
  <1>16. Ordered' /\ Epochs'
    BY <1>1, <1>2, <1>5 DEF Ordered, Epochs
  <1>17. Tables'
    BY <1>2, <1>7 DEF Tables, FullPromptBlocks, NumKeys
  <1>18. PoolExact'
    <2>1. ASSUME NEW b \in Blocks
          PROVE  refs'[b] = Cardinality(Holders(b)')
      <3>1. Holders(b)' = Holders(b) \ {r}
        BY <1>1, <1>7 DEF Holders
      <3>2. IsFiniteSet(Holders(b)) /\ (r \in Holders(b) <=> b \in Held(r))
        BY <1>1, <1>2, FiniteSets DEF Holders, TypeOK
      <3>3. refs[b] = Cardinality(Holders(b)) /\ refs[b] \in Nat
        BY <1>2 DEF PoolExact, TypeOK
      <3>4. Cardinality(Holders(b) \ {r}) =
              IF r \in Holders(b) THEN refs[b] - 1 ELSE refs[b]
        BY <3>2, <3>3, FS_RemoveElement
      <3>5. Cardinality(Holders(b)') =
              IF r \in Holders(b) THEN refs[b] - 1 ELSE refs[b]
        BY <3>1, <3>4, Zenon
      <3>. QED  BY <3>2, <3>3, <3>5, <1>5
    <2>2. \A q \in attached' : \A i, j \in DOMAIN Table(q)' :
            Table(q)'[i] = Table(q)'[j] => i = j
      BY <1>2, <1>7 DEF PoolExact
    <2>. QED  BY <2>1, <2>2, <1>5 DEF PoolExact
  <1>19. \A b \in idle : b \in Blocks /\ b \notin free /\ b \notin evictable
    BY <1>1, <1>2, <1>5, HeldIsReferenced
  <1>20. IndexSound'
    BY <1>1, <1>2, <1>5, <1>6 DEF IndexSound
  <1>21. ASSUME NEW q \in attached', NEW b \in Held(q)
         PROVE  b \in Blocks /\ b \notin idle /\ stored'[b] = stored[b]
    <2>1. q \in attached /\ q # r
      BY <1>7
    <2>2. b \in Blocks
      BY <1>2, <2>1, HeldIsReferenced
    <2>3. b \notin idle
      BY <1>1, <1>2, <1>5, <1>6, <2>1, SoleHolder
    <2>. QED  BY <2>2, <2>3, <1>5
  <1>22. ASSUME NEW q \in attached'
         PROVE  /\ alloc[q].committed \in Nat /\ BlocksFor(alloc[q].committed) \in Nat
                /\ alloc[q].committed \div BlockSize \in Nat
                /\ \A i \in 1 .. Len(Table(q)) : Table(q)[i] \in Held(q)
                /\ Len(Table(q)) \in Nat
    <2>1. /\ alloc[q].committed \in Nat /\ Len(Table(q)) \in Nat
          /\ \A i \in 1 .. Len(Table(q)) : Table(q)[i] \in Held(q)
      BY <1>2, <1>7, TableType DEF Allocation
    <2>. QED  BY <2>1, BlockCount
  <1>23. CommittedContent'
    <2> SUFFICES ASSUME NEW q \in attached'
                 PROVE  /\ Len(Table(q)) >= BlocksFor(alloc[q].committed)
                        /\ \A i \in 1 .. BlocksFor(alloc[q].committed) :
                             stored'[Table(q)[i]] = Fragment(generation, q,
                               AtMost(i * BlockSize, alloc[q].committed))
      BY <1>1, <1>7 DEF CommittedContent
    <2>1. /\ Len(Table(q)) >= BlocksFor(alloc[q].committed)
          /\ \A i \in 1 .. BlocksFor(alloc[q].committed) :
               stored[Table(q)[i]] = Fragment(generation, q,
                 AtMost(i * BlockSize, alloc[q].committed))
      BY <1>2, <1>7 DEF CommittedContent
    <2>2. \A i \in 1 .. BlocksFor(alloc[q].committed) : i \in 1 .. Len(Table(q))
      BY <2>1, <1>22
    <2>. QED  BY <2>1, <2>2, <1>21, <1>22
  <1>24. WritableIsPrivate'
    <2> SUFFICES ASSUME NEW q \in attached',
                        NEW i \in alloc[q].committed \div BlockSize + 1 .. Len(Table(q))
                 PROVE  refs'[Table(q)[i]] = 1 /\ blockKey[Table(q)[i]] = NoKey
      BY <1>1, <1>7 DEF WritableIsPrivate
    <2>1. refs[Table(q)[i]] = 1 /\ blockKey[Table(q)[i]] = NoKey
      BY <1>2, <1>7 DEF WritableIsPrivate
    <2>2. i \in 1 .. Len(Table(q))
      BY <1>22
    <2>3. Table(q)[i] \in Held(q) /\ Table(q)[i] \in Blocks
      BY <2>2, <1>21, <1>22
    <2>4. Table(q)[i] \notin Held(r)
      BY <1>1, <1>2, <1>7, <2>1, <2>3, SoleHolder
    <2>. QED  BY <2>1, <2>3, <2>4, <1>5
  <1>25. CacheInv'
    BY <1>8, <1>14, <1>15, <1>16, <1>17, <1>18, <1>20, <1>23, <1>24 DEF CacheInv
  <1>. QED  BY <1>7, <1>10, <1>13, <1>25

----------------------------------------------------------------------------
(* commit.                                                                 *)

(* The claim of r when it holds `keep` blocks.                             *)
ClaimKeeping(r, keep) == AtLeast(0, alloc[r].limit - keep)

(* The counts of a commit of n tokens: it keeps the pages the committed    *)
(* tokens need, which are at least those they needed before; the prompt    *)
(* pages it publishes lie behind the full pages of before; and its claim   *)
(* grows by no more than the pages it gives back.                          *)
LEMMA CommitCounts ==
  ASSUME CacheInv, NEW r \in attached, NEW n \in Nat, n <= alloc[r].reserved
  PROVE  LET c == alloc[r].committed
             d == c + n
             len == Len(alloc[r].blocks)
             keep == BlocksFor(d)
             full == FullPromptBlocks(r, d)
             again == ClaimKeeping(r, keep) - Claim(alloc[r])
         IN  /\ c \in Nat /\ d \in Nat /\ d <= MaxCommitted[r]
             /\ len \in Nat /\ keep \in 0 .. len
             /\ full \in Nat /\ full <= keep /\ full <= d \div BlockSize
             /\ c \div BlockSize \in Nat /\ d \div BlockSize \in Nat
             /\ c \div BlockSize <= d \div BlockSize
             /\ d \div BlockSize <= keep
             /\ BlocksFor(c) \in Nat /\ BlocksFor(c) <= keep
             /\ c \div BlockSize <= BlocksFor(c)
             /\ \A i \in alloc[r].readonly + 1 .. full :
                  i \in 1 .. NumKeys(r) /\ i > c \div BlockSize
             /\ Claim(alloc[r]) \in Nat /\ ClaimKeeping(r, keep) \in Nat
             /\ again \in 0 .. len - keep
             /\ alloc[r].guarantee => again = len - keep
  <1> DEFINE a == alloc[r]
             c == a.committed
             d == c + n
             len == Len(a.blocks)
             keep == BlocksFor(d)
             full == FullPromptBlocks(r, d)
             again == ClaimKeeping(r, keep) - Claim(a)
  <1>1. /\ TypeOK /\ Tables /\ r \in Requests
    BY DEF CacheInv, TypeOK
  <1>2. /\ a \in Allocation /\ c \in Nat /\ a.limit \in Nat /\ len \in Nat
        /\ a.reserved \in Nat /\ a.guarantee \in BOOLEAN /\ a.readonly \in Nat
    <2>1. a \in Allocation
      BY <1>1, TableType
    <2> HIDE DEF a
    <2>. QED  BY <2>1 DEF Allocation
  <1>3. /\ len = BlocksFor(c + a.reserved) /\ c + a.reserved <= MaxCommitted[r]
        /\ a.guarantee => a.limit = BlocksFor(MaxCommitted[r])
        /\ a.readonly = FullPromptBlocks(r, c)
    BY <1>1 DEF Tables
  <1>4. MaxCommitted[r] \in Nat /\ NumKeys(r) \in Nat
    BY <1>1, PromptPages
  <1> HIDE DEF a
  <1>5. /\ d \in Nat /\ c + a.reserved \in Nat /\ c <= d
        /\ d <= c + a.reserved /\ d <= MaxCommitted[r]
    <2>1. n <= a.reserved
      BY DEF a
    <2>2. c \in Nat /\ c + a.reserved <= MaxCommitted[r] /\ a.reserved \in Nat
      BY <1>2, <1>3
    <2> HIDE DEF c
    <2>. QED  BY <2>1, <2>2, <1>4
  <1> HIDE DEF c, d
  <1>6. /\ BlocksFor(c) <= keep /\ c \div BlockSize <= d \div BlockSize
        /\ d \div BlockSize <= keep /\ c \div BlockSize <= BlocksFor(c)
    BY <1>2, <1>5, BlocksMonotone DEF c
  <1>7. keep <= len
    BY <1>3, <1>5, BlocksMonotone DEF c
  <1>8. /\ BlocksFor(c) \in Nat /\ keep \in Nat
        /\ c \div BlockSize \in Nat /\ d \div BlockSize \in Nat
    <2>1. c \in Nat
      BY <1>2
    <2>. QED  BY <2>1, <1>5, BlockCount
  <1>9. a.guarantee => len <= a.limit
    BY <1>3, <1>4, <1>5, BlocksMonotone DEF c
  <1> HIDE DEF len, keep
  <1>10. /\ full = AtMost(d \div BlockSize, NumKeys(r))
         /\ a.readonly = AtMost(c \div BlockSize, NumKeys(r))
    BY <1>3 DEF FullPromptBlocks
  <1> HIDE DEF full
  <1>11. full \in Nat /\ full <= d \div BlockSize /\ full <= keep /\ full <= NumKeys(r)
    BY <1>4, <1>6, <1>8, <1>10 DEF AtMost
  <1>12. ASSUME NEW i \in a.readonly + 1 .. full
         PROVE  i \in 1 .. NumKeys(r) /\ i > c \div BlockSize
    BY <1>2, <1>4, <1>8, <1>10, <1>11 DEF AtMost
  <1>13. /\ Claim(a) = AtLeast(0, a.limit - len) /\ Claim(a) \in Nat
         /\ ClaimKeeping(r, keep) = AtLeast(0, a.limit - keep)
         /\ ClaimKeeping(r, keep) \in Nat
    BY SMTT(40), <1>2, <1>8, ClaimType DEF Claim, ClaimKeeping, len, a, AtLeast
  <1>14. again \in 0 .. len - keep /\ (a.guarantee => again = len - keep)
    BY <1>2, <1>7, <1>8, <1>9, <1>13 DEF AtLeast
  <1>. QED  BY <1>2, <1>5, <1>6, <1>7, <1>8, <1>11, <1>12, <1>13, <1>14
            DEF a, c, d, len, keep, full

(* The pages r may still write; those a commit of n tokens publishes, by   *)
(* their place; and those it gives back.                                   *)
PrivateOf(r) ==
  { Table(r)[i] : i \in alloc[r].committed \div BlockSize + 1 .. Len(Table(r)) }
Publishes(r, n) ==
  { i \in alloc[r].readonly + 1 .. FullPromptBlocks(r, alloc[r].committed + n) :
      cached[PromptKey(generation, r, i)] = NoBlock }
Dropped(r, n) ==
  { Table(r)[i] : i \in BlocksFor(alloc[r].committed + n) + 1 .. Len(Table(r)) }

(* A page r may still write has one reference and no key, is not idle and  *)
(* is in no other table; a table names its pages once.                     *)
LEMMA PrivatePages ==
  ASSUME CacheInv, NEW r \in attached
  PROVE  /\ \A b \in PrivateOf(r) :
              /\ b \in Blocks /\ b \in Held(r)
              /\ refs[b] = 1 /\ blockKey[b] = NoKey
              /\ b \notin free /\ b \notin evictable
              /\ \A q \in attached \ {r} : b \notin Held(q)
         /\ \A i, j \in 1 .. Len(Table(r)) : Table(r)[i] = Table(r)[j] => i = j
         /\ \A i \in 1 .. Len(Table(r)) : Table(r)[i] \in Held(r)
         /\ \A i \in alloc[r].committed \div BlockSize + 1 .. Len(Table(r)) :
              Table(r)[i] \in PrivateOf(r)
         /\ Table(r) \in Seq(Blocks) /\ Len(Table(r)) \in Nat
         /\ DOMAIN Table(r) = 1 .. Len(Table(r))
  <1>1. /\ TypeOK /\ PoolExact /\ WritableIsPrivate /\ r \in Requests
    BY DEF CacheInv, TypeOK
  <1>2. /\ Table(r) \in Seq(Blocks) /\ Len(Table(r)) \in Nat
        /\ DOMAIN Table(r) = 1 .. Len(Table(r))
        /\ \A i \in 1 .. Len(Table(r)) : Table(r)[i] \in Held(r)
    BY <1>1, TableType
  <1>3. \A i, j \in 1 .. Len(Table(r)) : Table(r)[i] = Table(r)[j] => i = j
    BY <1>1, <1>2 DEF PoolExact
  <1>4. alloc[r].committed \div BlockSize \in Nat
    <2>1. alloc[r].committed \in Nat
      BY <1>1, TableType DEF Allocation
    <2>. QED  BY <2>1, BlockCount
  <1>5. ASSUME NEW b \in PrivateOf(r)
        PROVE  /\ b \in Blocks /\ b \in Held(r)
               /\ refs[b] = 1 /\ blockKey[b] = NoKey
               /\ b \notin free /\ b \notin evictable
               /\ \A q \in attached \ {r} : b \notin Held(q)
    <2>1. PICK i \in alloc[r].committed \div BlockSize + 1 .. Len(Table(r)) :
            b = Table(r)[i]
      BY DEF PrivateOf
    <2>2. refs[b] = 1 /\ blockKey[b] = NoKey
      BY <2>1, <1>1 DEF WritableIsPrivate
    <2>3. b \in Held(r)
      BY <2>1, <1>2, <1>4
    <2>4. b \in Blocks /\ b \notin free /\ b \notin evictable
      BY <2>3, <1>1, HeldIsReferenced
    <2>5. \A q \in attached \ {r} : b \notin Held(q)
      BY <2>2, <2>3, <1>1, SoleHolder
    <2>. QED  BY <2>2, <2>3, <2>4, <2>5
  <1>6. \A i \in alloc[r].committed \div BlockSize + 1 .. Len(Table(r)) :
          Table(r)[i] \in PrivateOf(r)
    BY DEF PrivateOf
  <1>. QED  BY <1>2, <1>3, <1>5, <1>6

(* What a commit publishes, writes and gives back is private to r, and the *)
(* first two are not given back.                                           *)
LEMMA CommittedPages ==
  ASSUME CacheInv, NEW r \in attached, NEW n \in Nat, n <= alloc[r].reserved
  PROVE  LET t == Table(r)
             c == alloc[r].committed
             keep == BlocksFor(c + n)
         IN  /\ \A i \in Publishes(r, n) :
                  /\ i \in 1 .. NumKeys(r) /\ i \in 1 .. keep
                  /\ i \in c \div BlockSize + 1 .. keep
                  /\ i <= (c + n) \div BlockSize
                  /\ cached[PromptKey(generation, r, i)] = NoBlock
                  /\ t[i] \in PrivateOf(r) /\ t[i] \notin Dropped(r, n)
             /\ \A i \in c \div BlockSize + 1 .. keep :
                  /\ i \in 1 .. Len(t)
                  /\ t[i] \in PrivateOf(r) /\ t[i] \notin Dropped(r, n)
             /\ Dropped(r, n) \subseteq PrivateOf(r)
             /\ IsFiniteSet(Dropped(r, n))
             /\ Cardinality(Dropped(r, n)) = Len(t) - keep
  <1> DEFINE t == Table(r)
             len == Len(t)
             c == alloc[r].committed
             keep == BlocksFor(c + n)
             full == FullPromptBlocks(r, c + n)
  <1>1. /\ len \in Nat /\ keep \in 0 .. len
        /\ full \in Nat /\ full <= keep /\ full <= (c + n) \div BlockSize
        /\ c \div BlockSize \in Nat /\ c \div BlockSize <= keep
        /\ \A i \in alloc[r].readonly + 1 .. full :
             i \in 1 .. NumKeys(r) /\ i > c \div BlockSize
    BY CommitCounts DEF Table
  <1>2. /\ \A i, j \in 1 .. len : t[i] = t[j] => i = j
        /\ \A i \in c \div BlockSize + 1 .. len : t[i] \in PrivateOf(r)
        /\ \A b \in PrivateOf(r) : b \in Blocks
    BY PrivatePages
  <1>3. /\ Publishes(r, n) = { i \in alloc[r].readonly + 1 .. full :
                                  cached[PromptKey(generation, r, i)] = NoBlock }
        /\ Dropped(r, n) = { t[i] : i \in keep + 1 .. len }
        /\ NumKeys(r) \in Nat
    BY PromptPages DEF Publishes, Dropped, CacheInv, TypeOK
  <1> DEFINE cd == c \div BlockSize
             dd == (c + n) \div BlockSize
  <1> HIDE DEF t, len, keep, full, cd, dd
  <1>4. ASSUME NEW i \in 1 .. keep
        PROVE  i \in 1 .. len /\ t[i] \notin Dropped(r, n)
    <2>1. i \in 1 .. len
      BY <1>1
    <2>2. \A j \in keep + 1 .. len : t[i] # t[j]
      BY <2>1, <1>1, <1>2
    <2>. QED  BY <2>1, <2>2, <1>3
  <1>5. ASSUME NEW i \in cd + 1 .. keep
        PROVE  /\ i \in 1 .. len
               /\ t[i] \in PrivateOf(r) /\ t[i] \notin Dropped(r, n)
    BY <1>1, <1>2, <1>4 DEF cd
  <1>6. ASSUME NEW i \in Publishes(r, n)
        PROVE  /\ i \in 1 .. NumKeys(r) /\ i \in 1 .. keep
               /\ i \in cd + 1 .. keep /\ i <= dd
               /\ cached[PromptKey(generation, r, i)] = NoBlock
               /\ t[i] \in PrivateOf(r) /\ t[i] \notin Dropped(r, n)
    <2>1. /\ i \in alloc[r].readonly + 1 .. full /\ i \in 1 .. NumKeys(r)
          /\ i > cd /\ cached[PromptKey(generation, r, i)] = NoBlock
      BY <1>1, <1>3 DEF cd
    <2>2. i \in Nat /\ i <= full /\ dd \in Int
      <3>1. alloc[r].readonly \in Nat /\ dd \in Nat
        BY CommitCounts, TableType, BlockCount
           DEF dd, c, CacheInv, TypeOK, Allocation
      <3>. QED  BY <2>1, <1>1, <1>3, <3>1
    <2>3. i \in cd + 1 .. keep /\ i \in 1 .. keep /\ i <= dd
      BY <2>1, <2>2, <1>1 DEF cd, dd
    <2>. QED  BY <2>1, <2>3, <1>5
  <1>7. Dropped(r, n) \subseteq PrivateOf(r)
    BY <1>1, <1>2, <1>3
  <1>8. IsFiniteSet(Dropped(r, n)) /\ Cardinality(Dropped(r, n)) = len - keep
    <2> DEFINE f == [j \in 1 .. len - keep |-> t[keep + j]]
    <2>1. len - keep \in Nat
      BY <1>1
    <2>2. \A j \in 1 .. len - keep : f[j] \in Blocks
      BY <1>1, <1>2
    <2>3. \A i, j \in 1 .. len - keep : f[i] = f[j] => i = j
      <3> SUFFICES ASSUME NEW i \in 1 .. len - keep, NEW j \in 1 .. len - keep,
                          f[i] = f[j]
                   PROVE  i = j
        OBVIOUS
      <3>1. keep + i \in 1 .. len /\ keep + j \in 1 .. len
        BY <1>1
      <3>2. keep + i = keep + j
        BY <3>1, <1>2
      <3>. QED  BY <3>2, <1>1
    <2> DEFINE V == { f[j] : j \in 1 .. len - keep }
    <2>4. V = Dropped(r, n)
      <3>1. \A j \in 1 .. len - keep : keep + j \in keep + 1 .. len
        BY <1>1
      <3>2. \A i \in keep + 1 .. len : i - keep \in 1 .. len - keep /\ keep + (i - keep) = i
        BY <1>1
      <3>. QED  BY <3>1, <3>2, <1>3
    <2> HIDE DEF f
    <2>5. IsFiniteSet(V) /\ Cardinality(V) = len - keep
      BY <2>1, <2>2, <2>3, DistinctValues
    <2>. QED  BY <2>4, <2>5, Zenon
  <1>. QED  BY <1>5, <1>6, <1>7, <1>8 DEF t, len, keep, cd, dd

(* What a commit does to the index: a published page and its key name each *)
(* other, and every other page and key is left alone.                      *)
LEMMA CommitIndex ==
  ASSUME CacheInv, NEW r \in attached, NEW n \in Nat, n <= alloc[r].reserved,
         Commit(r, n)
  PROVE  /\ \A i \in Publishes(r, n) :
              /\ cached'[PromptKey(generation, r, i)] = Table(r)[i]
              /\ blockKey'[Table(r)[i]] = PromptKey(generation, r, i)
              /\ PromptKey(generation, r, i) \in Keys
         /\ \A k \in Keys : (\A i \in Publishes(r, n) : k # PromptKey(generation, r, i))
              => cached'[k] = cached[k]
         /\ \A b \in Blocks : (\A i \in Publishes(r, n) : b # Table(r)[i])
              => blockKey'[b] = blockKey[b]
         /\ cached' \in [Keys -> Blocks \cup {NoBlock}]
         /\ blockKey' \in [Blocks -> Keys \cup {NoKey}]
  <1> DEFINE t == Table(r)
             P == Publishes(r, n)
             K(i) == PromptKey(generation, r, i)
  <1>1. /\ cached' = [k \in Keys |->
             IF \E i \in P : k = K(i) THEN t[CHOOSE i \in P : k = K(i)]
             ELSE cached[k]]
        /\ blockKey' = [b \in Blocks |->
             IF \E i \in P : b = t[i] THEN K(CHOOSE i \in P : b = t[i])
             ELSE blockKey[b]]
    BY DEF Commit, Publishes, Table
  <1>2. \A i \in P : /\ i \in 1 .. NumKeys(r) /\ i \in 1 .. Len(t)
                     /\ t[i] \in PrivateOf(r)
    BY CommittedPages
  <1>3. /\ \A i, j \in 1 .. Len(t) : t[i] = t[j] => i = j
        /\ \A b \in PrivateOf(r) : b \in Blocks
    BY PrivatePages
  <1>4. /\ r \in Requests /\ generation \in 0 .. MaxGeneration
        /\ cached \in [Keys -> Blocks \cup {NoBlock}]
        /\ blockKey \in [Blocks -> Keys \cup {NoKey}]
    BY DEF CacheInv, TypeOK
  <1>5. \A i \in 1 .. NumKeys(r) :
          /\ K(i) \in Keys /\ \A j \in 1 .. NumKeys(r) : K(i) = K(j) => i = j
    BY <1>4, PageKeys
  <1> HIDE DEF t, P, K
  <1>6. ASSUME NEW i \in P
        PROVE  /\ cached'[K(i)] = t[i] /\ blockKey'[t[i]] = K(i) /\ K(i) \in Keys
    <2>1. K(i) \in Keys /\ t[i] \in Blocks
      BY <1>2, <1>3, <1>5
    <2>2. (CHOOSE j \in P : K(i) = K(j)) = i
      BY <1>2, <1>5
    <2>3. (CHOOSE j \in P : t[i] = t[j]) = i
      BY <1>2, <1>3
    <2>. QED  BY <2>1, <2>2, <2>3, <1>1
  <1>7. /\ \A k \in Keys : (\A i \in P : k # K(i)) => cached'[k] = cached[k]
        /\ \A b \in Blocks : (\A i \in P : b # t[i]) => blockKey'[b] = blockKey[b]
    BY <1>1
  <1>8. cached' \in [Keys -> Blocks \cup {NoBlock}]
    <2>1. \A k \in Keys : cached'[k] \in Blocks \cup {NoBlock}
      BY <1>2, <1>3, <1>4, <1>6, <1>7
    <2>. QED  BY <2>1, <1>1
  <1>9. blockKey' \in [Blocks -> Keys \cup {NoKey}]
    <2>1. \A b \in Blocks : blockKey'[b] \in Keys \cup {NoKey}
      BY <1>4, <1>6, <1>7
    <2>. QED  BY <2>1, <1>1
  <1>. QED  BY <1>6, <1>7, <1>8, <1>9 DEF t, P, K

(* What the execution side has written for the committed tokens: the pages *)
(* from the first uncommitted token on hold them, no other page changed.   *)
LEMMA WrittenPages ==
  ASSUME CacheInv, NEW r \in attached, NEW n \in Nat, n <= alloc[r].reserved
  PROVE  LET c == alloc[r].committed
             now == Written(r, c, c + n)
         IN  /\ DOMAIN now = Blocks
             /\ \A i \in c \div BlockSize + 1 .. BlocksFor(c + n) :
                  now[Table(r)[i]] =
                    Fragment(generation, r, AtMost(i * BlockSize, c + n))
             /\ \A b \in Blocks \ PrivateOf(r) : now[b] = stored[b]
             /\ \A i \in 1 .. Len(Table(r)) :
                  i <= c \div BlockSize => now[Table(r)[i]] = stored[Table(r)[i]]
  <1> DEFINE t == Table(r)
             c == alloc[r].committed
             now == Written(r, c, c + n)
             places == c \div BlockSize + 1 .. BlocksFor(c + n)
             at(b) == { i \in places : t[i] = b }
             F(i) == Fragment(generation, r, AtMost(i * BlockSize, c + n))
  <1>1. now = [b \in Blocks |->
                 IF at(b) = {} THEN stored[b] ELSE F(CHOOSE j \in at(b) : TRUE)]
    BY DEF Written
  <1>2. \A i \in places : i \in 1 .. Len(t) /\ t[i] \in PrivateOf(r)
    BY CommittedPages
  <1>3. /\ \A i, j \in 1 .. Len(t) : t[i] = t[j] => i = j
        /\ \A b \in PrivateOf(r) : b \in Blocks
        /\ \A i \in 1 .. Len(t) : t[i] \in Held(r)
    BY PrivatePages
  <1>4. \A i \in places : i > c \div BlockSize
    <2>1. c \div BlockSize \in Nat
      BY CommitCounts
    <2>. QED  BY <2>1
  <1>5. Held(r) \subseteq Blocks
    BY TableType DEF CacheInv, TypeOK
  <1>6. c \div BlockSize \in Int
    BY CommitCounts
  <1> HIDE DEF t, now, places, F
  <1>7. ASSUME NEW i \in places PROVE now[t[i]] = F(i)
    <2>1. at(t[i]) = {i}
      BY <1>2, <1>3
    <2>2. (CHOOSE j \in at(t[i]) : TRUE) = i /\ at(t[i]) # {}
      BY <2>1
    <2>3. t[i] \in Blocks
      BY <1>2, <1>3
    <2> HIDE DEF at
    <2>. QED  BY <2>2, <2>3, <1>1
  <1>8. ASSUME NEW b \in Blocks, \A i \in places : t[i] # b
        PROVE  now[b] = stored[b]
    <2>1. at(b) = {}
      BY <1>8
    <2> HIDE DEF at
    <2>. QED  BY <2>1, <1>1
  <1>9. \A b \in Blocks \ PrivateOf(r) : now[b] = stored[b]
    BY <1>2, <1>8
  <1>10. ASSUME NEW i \in 1 .. Len(t), i <= c \div BlockSize
         PROVE  now[t[i]] = stored[t[i]]
    <2>1. t[i] \in Blocks
      BY <1>3, <1>5
    <2>2. \A j \in places : j # i
      BY <1>4, <1>6, <1>10
    <2>3. \A j \in places : t[j] # t[i]
      BY <2>2, <1>2, <1>3
    <2>. QED  BY <2>1, <2>3, <1>8
  <1>11. DOMAIN now = Blocks
    BY <1>1
  <1>. QED  BY <1>7, <1>9, <1>10, <1>11 DEF t, now, places, F

(* What a commit does to the pool: the pages given back have no key, so    *)
(* they are on the heap now, and nothing else moves.                       *)
LEMMA CommitPool ==
  ASSUME CacheInv, NEW r \in attached, NEW n \in Nat, n <= alloc[r].reserved,
         Commit(r, n)
  PROVE  LET gone == Dropped(r, n)
             c == alloc[r].committed
             now == Written(r, c, c + n)
         IN  /\ free' = free \cup gone /\ evictable' = evictable
             /\ free' \cap evictable' = {}
             /\ older' \subseteq evictable' \X evictable'
             /\ \A x, y \in evictable' :
                  x # y => (<<x, y>> \in older' <=> <<y, x>> \notin older')
             /\ refs' \in [Blocks -> Nat]
             /\ \A b \in Blocks : refs'[b] = refs[b] - (IF b \in gone THEN 1 ELSE 0)
             /\ free' \cup evictable' = Blocks \ Referenced'
             /\ stored' = [b \in Blocks |-> IF b \in gone THEN NoKey ELSE now[b]]
             /\ NumUsed' = NumUsed - (Len(Table(r)) - BlocksFor(c + n))
             /\ \A b \in gone : blockKey'[b] = NoKey
  <1> DEFINE t == Table(r)
             c == alloc[r].committed
             keep == BlocksFor(c + n)
             now == Written(r, c, c + n)
             gone == Dropped(r, n)
             released == SubSeq(t, keep + 1, Len(t))
             places == Places(released, Len(released))
             idle == Idle(released)
             keyed == IdleKeyed(released, blockKey')
  <1>1. Release(released, blockKey', now)
    BY DEF Commit, Table
  <1>2. /\ TypeOK /\ PoolExact /\ Ordered
    BY DEF CacheInv
  <1>3. /\ t \in Seq(Blocks) /\ Len(t) \in Nat
        /\ \A i, j \in 1 .. Len(t) : t[i] = t[j] => i = j
        /\ \A b \in PrivateOf(r) : b \in Blocks /\ refs[b] = 1 /\ blockKey[b] = NoKey
    BY PrivatePages
  <1>4. keep \in 0 .. Len(t)
    BY CommitCounts DEF Table
  <1>5. /\ gone \subseteq PrivateOf(r)
        /\ Cardinality(gone) = Len(t) - keep
        /\ \A i \in Publishes(r, n) : t[i] \notin gone
    BY CommittedPages
  <1>6. gone = { t[i] : i \in keep + 1 .. Len(t) }
    BY DEF Dropped
  <1> HIDE DEF t, keep, gone, now
  <1>7. /\ released \in Seq(Blocks) /\ Len(released) = Len(t) - keep
        /\ \A j \in 1 .. Len(t) - keep : released[j] = t[keep + j]
    BY <1>3, <1>4
  <1> HIDE DEF released
  <1>8. \A j \in 1 .. Len(released) : keep + j \in keep + 1 .. Len(t)
                                        /\ keep + j \in 1 .. Len(t)
    BY <1>3, <1>4, <1>7
  <1>9. \A i, j \in 1 .. Len(released) : released[i] = released[j] => i = j
    <2> SUFFICES ASSUME NEW i \in 1 .. Len(released), NEW j \in 1 .. Len(released),
                        released[i] = released[j]
                 PROVE  i = j
      OBVIOUS
    <2>1. t[keep + i] = t[keep + j]
      BY <1>7
    <2>2. keep + i = keep + j
      BY <2>1, <1>3, <1>8
    <2>. QED  BY <2>2, <1>4
  <1>10. places = gone
    <2>1. \A i \in keep + 1 .. Len(t) :
            i - keep \in 1 .. Len(t) - keep /\ keep + (i - keep) = i
      BY <1>3, <1>4
    <2>. QED  BY SMTT(40), <2>1, <1>6, <1>7, <1>8 DEF Places
  <1>11. \A i \in 1 .. Len(released) : refs[released[i]] > 0
    <2>1. \A i \in 1 .. Len(released) : released[i] \in gone
      BY <1>10 DEF Places
    <2>. QED  BY <2>1, <1>3, <1>5
  <1>12. \A b \in gone : blockKey'[b] = NoKey
    BY <1>3, <1>5, CommitIndex DEF t
  <1>13. /\ keyed \subseteq idle /\ idle \subseteq places
         /\ free' = free \cup (idle \ keyed) /\ evictable' = evictable \cup keyed
         /\ free' \cap evictable' = {}
         /\ older' \subseteq evictable' \X evictable'
         /\ \A x, y \in evictable' : x # y => (<<x, y>> \in older' <=> <<y, x>> \notin older')
         /\ refs' \in [Blocks -> Nat]
         /\ \A b \in Blocks : refs'[b] = refs[b] - (IF b \in places THEN 1 ELSE 0)
         /\ free' \cup evictable' = Blocks \ Referenced'
         /\ stored' = [b \in Blocks |-> IF b \in idle \ keyed THEN NoKey ELSE now[b]]
         /\ NumUsed' = NumUsed - Cardinality(idle)
    BY ONLY <1>1, <1>2, <1>7, <1>9, <1>11, ReleaseFacts
  <1>14. idle = gone
    BY <1>3, <1>5, <1>10 DEF Idle
  <1>15. keyed = {}
    BY <1>12, <1>14 DEF IdleKeyed
  <1>16. Cardinality(idle) = Len(t) - keep
    BY <1>5, <1>14, Zenon
  <1> HIDE DEF places, idle, keyed
  <1>17. /\ free' = free \cup gone /\ evictable' = evictable
         /\ stored' = [b \in Blocks |-> IF b \in gone THEN NoKey ELSE now[b]]
         /\ \A b \in Blocks : refs'[b] = refs[b] - (IF b \in gone THEN 1 ELSE 0)
    BY <1>10, <1>13, <1>14, <1>15
  <1>18. NumUsed' = NumUsed - (Len(t) - keep)
    BY <1>13, <1>16
  <1>. QED  BY <1>12, <1>13, <1>17, <1>18 DEF t, keep, gone, now

(* A commit keeps the invariant: what it writes, publishes and gives back  *)
(* was private to the request, a page is published only when its last      *)
(* token is committed, and its claim grows by at most what it gives back.  *)
LEMMA CommitKeeps ==
  ASSUME CacheInv, NEW r \in Requests, NEW n \in 0 .. MaxReserve, Commit(r, n)
  PROVE  /\ CacheInv'
         /\ \A q \in Requests \ {r} : alloc'[q] = alloc[q]
         /\ ClaimsIn(alloc')[r] - ClaimsIn(alloc)[r] \in Nat
         /\ NumUsed - NumUsed' >= ClaimsIn(alloc')[r] - ClaimsIn(alloc)[r]
  <1> DEFINE a == alloc[r]
             t == Table(r)
             c == a.committed
             d == c + n
             full == FullPromptBlocks(r, d)
             keep == BlocksFor(d)
             kept == [a EXCEPT !.blocks = SubSeq(t, 1, keep), !.readonly = full,
                               !.committed = d, !.reserved = 0]
             P == Publishes(r, n)
             K(i) == PromptKey(generation, r, i)
             gone == Dropped(r, n)
             now == Written(r, c, d)
             F(i, e) == Fragment(generation, r, AtMost(i * BlockSize, e))
             cd == c \div BlockSize
             dd == d \div BlockSize
  <1>1. /\ r \in attached /\ n \in Nat /\ n <= a.reserved
        /\ alloc' = [alloc EXCEPT ![r] = kept]
        /\ completionClaims' = completionClaims +
             (IF a.guarantee THEN Len(t) - keep ELSE 0)
        /\ initialClaims' = initialClaims +
             (IF a.guarantee THEN 0 ELSE Claim(kept) - Claim(a))
        /\ UNCHANGED <<cacheEpoch, attached, generation>>
    BY DEF Commit, Table, TrimmedClaim
  <1>2. /\ TypeOK /\ Ordered /\ Epochs /\ Detached /\ Tables /\ PoolExact
        /\ IndexSound /\ CommittedContent /\ WritableIsPrivate /\ ClaimsExact
    BY DEF CacheInv
  <1>3. /\ a \in Allocation /\ t = a.blocks /\ a.guarantee \in BOOLEAN
        /\ a.limit \in Nat /\ a.minFree \in Nat
    <2>1. a \in Allocation
      BY <1>2, TableType
    <2> HIDE DEF a
    <2>. QED  BY <2>1 DEF Allocation, Table, a
  <1>4. /\ t \in Seq(Blocks) /\ Len(t) \in Nat /\ DOMAIN t = 1 .. Len(t)
        /\ \A i, j \in 1 .. Len(t) : t[i] = t[j] => i = j
        /\ \A i \in 1 .. Len(t) : t[i] \in Held(r)
        /\ \A i \in cd + 1 .. Len(t) : t[i] \in PrivateOf(r)
        /\ \A b \in PrivateOf(r) :
             /\ b \in Blocks /\ b \in Held(r) /\ refs[b] = 1 /\ blockKey[b] = NoKey
             /\ b \notin free /\ b \notin evictable
             /\ \A q \in attached \ {r} : b \notin Held(q)
    BY <1>1, PrivatePages
  <1>5. /\ c \in Nat /\ d \in Nat /\ d <= MaxCommitted[r]
        /\ keep \in 0 .. Len(t) /\ full \in Nat /\ full <= dd
        /\ cd \in Nat /\ dd \in Nat /\ cd <= dd /\ dd <= keep
        /\ BlocksFor(c) \in Nat /\ BlocksFor(c) <= keep /\ cd <= BlocksFor(c)
        /\ Claim(a) \in Nat
        /\ ClaimKeeping(r, keep) - Claim(a) \in 0 .. Len(t) - keep
        /\ a.guarantee => ClaimKeeping(r, keep) - Claim(a) = Len(t) - keep
    BY <1>1, <1>3, CommitCounts
  <1>6. /\ \A i \in P : /\ i \in 1 .. NumKeys(r) /\ i \in 1 .. keep
                        /\ i \in cd + 1 .. keep /\ i <= dd
                        /\ cached[K(i)] = NoBlock
                        /\ t[i] \in PrivateOf(r) /\ t[i] \notin gone
        /\ \A i \in cd + 1 .. keep : /\ t[i] \in PrivateOf(r) /\ t[i] \notin gone
        /\ gone \subseteq PrivateOf(r)
    BY <1>1, CommittedPages
  <1>7. /\ \A i \in P : cached'[K(i)] = t[i] /\ blockKey'[t[i]] = K(i) /\ K(i) \in Keys
        /\ \A k \in Keys : (\A i \in P : k # K(i)) => cached'[k] = cached[k]
        /\ \A b \in Blocks : (\A i \in P : b # t[i]) => blockKey'[b] = blockKey[b]
        /\ cached' \in [Keys -> Blocks \cup {NoBlock}]
        /\ blockKey' \in [Blocks -> Keys \cup {NoKey}]
    BY <1>1, CommitIndex
  <1>8. /\ DOMAIN now = Blocks
        /\ \A i \in cd + 1 .. keep : now[t[i]] = F(i, d)
        /\ \A b \in Blocks \ PrivateOf(r) : now[b] = stored[b]
        /\ \A i \in 1 .. Len(t) : i <= cd => now[t[i]] = stored[t[i]]
    BY <1>1, WrittenPages
  <1>9. /\ free' = free \cup gone /\ evictable' = evictable
        /\ free' \cap evictable' = {}
        /\ older' \subseteq evictable' \X evictable'
        /\ \A x, y \in evictable' : x # y => (<<x, y>> \in older' <=> <<y, x>> \notin older')
        /\ refs' \in [Blocks -> Nat]
        /\ \A b \in Blocks : refs'[b] = refs[b] - (IF b \in gone THEN 1 ELSE 0)
        /\ free' \cup evictable' = Blocks \ Referenced'
        /\ stored' = [b \in Blocks |-> IF b \in gone THEN NoKey ELSE now[b]]
        /\ NumUsed' = NumUsed - (Len(t) - keep)
        /\ \A b \in gone : blockKey'[b] = NoKey
    BY <1>1, CommitPool
  <1>10. gone = { t[i] : i \in keep + 1 .. Len(t) }
    BY DEF Dropped
  <1>11. /\ NumKeys(r) \in Nat /\ generation \in 0 .. MaxGeneration
         /\ \A i \in Nat : i * BlockSize \in Nat
                           /\ (i <= cd <=> i * BlockSize <= c)
                           /\ (i <= dd <=> i * BlockSize <= d)
    <2>1. \A i \in Nat : i * BlockSize \in Nat /\ (i <= cd <=> i * BlockSize <= c)
      BY <1>5, FullBlocks
    <2>2. \A i \in Nat : i <= dd <=> i * BlockSize <= d
      BY <1>5, FullBlocks
    <2>. QED  BY <2>1, <2>2, <1>2, PromptPages DEF TypeOK
  <1> HIDE DEF t, P, K, gone, now, keep, full, cd, dd
  <1>12. /\ kept.blocks = SubSeq(t, 1, keep) /\ kept.reserved = 0
         /\ kept.committed = d /\ kept.guarantee = a.guarantee
         /\ kept.limit = a.limit /\ kept.readonly = full
         /\ kept \in Allocation
         /\ Len(kept.blocks) = keep /\ DOMAIN kept.blocks = 1 .. keep
         /\ \A i \in 1 .. keep : kept.blocks[i] = t[i] /\ i \in 1 .. Len(t)
    <2>1. /\ SubSeq(t, 1, keep) \in Seq(Blocks) /\ Len(SubSeq(t, 1, keep)) = keep
          /\ DOMAIN SubSeq(t, 1, keep) = 1 .. keep
          /\ \A i \in 1 .. keep : SubSeq(t, 1, keep)[i] = t[i] /\ i \in 1 .. Len(t)
      BY <1>4, <1>5
    <2>2. /\ kept.blocks = SubSeq(t, 1, keep) /\ kept.reserved = 0
          /\ kept.committed = d /\ kept.guarantee = a.guarantee
          /\ kept.limit = a.limit /\ kept.readonly = full
          /\ kept \in Allocation
      <3> HIDE DEF a, d
      <3>. QED  BY <2>1, <1>3, <1>5 DEF Allocation
    <2> HIDE DEF kept
    <2>. QED  BY <2>1, <2>2
  <1> HIDE DEF kept
  <1>13. /\ alloc'[r] = kept /\ alloc' \in [Requests -> Allocation]
         /\ \A q \in Requests \ {r} : alloc'[q] = alloc[q]
         /\ \A q \in attached \ {r} : /\ q \in Requests /\ alloc'[q] = alloc[q]
                                      /\ Table(q)' = Table(q) /\ Held(q)' = Held(q)
         /\ Table(r)' = kept.blocks
    <2>1. /\ alloc'[r] = kept /\ alloc' \in [Requests -> Allocation]
          /\ \A q \in Requests \ {r} : alloc'[q] = alloc[q]
      BY <1>1, <1>2, <1>12 DEF TypeOK
    <2>. QED  BY <2>1, <1>2 DEF TypeOK, Table, Held
  <1>14. Detached'
    BY <1>1, <1>2, <1>13 DEF Detached
  <1>15. Claim(kept) = ClaimKeeping(r, keep)
    BY <1>12 DEF Claim, ClaimKeeping
  <1>16. /\ ClaimsIn(alloc)[r] = Claim(a) /\ ClaimsIn(alloc')[r] = Claim(kept)
         /\ StrictClaimsIn(alloc)[r] = IF a.guarantee THEN Claim(a) ELSE 0
         /\ StrictClaimsIn(alloc')[r] = IF a.guarantee THEN Claim(kept) ELSE 0
         /\ InitialClaimsIn(alloc)[r] = IF a.guarantee THEN 0 ELSE Claim(a)
         /\ InitialClaimsIn(alloc')[r] = IF a.guarantee THEN 0 ELSE Claim(kept)
    BY <1>12, <1>13 DEF ClaimsIn, StrictClaimsIn, InitialClaimsIn
  <1>17. completionClaims \in Nat /\ initialClaims \in Nat /\ NumUsed \in Nat
         /\ NumBlocks \in Nat
    BY <1>2, UsedBlocks, CapacityAssumption DEF TypeOK, PoolExact
  <1>18. /\ completionClaims' = completionClaims
              + (StrictClaimsIn(alloc')[r] - StrictClaimsIn(alloc)[r])
         /\ initialClaims' = initialClaims
              + (InitialClaimsIn(alloc')[r] - InitialClaimsIn(alloc)[r])
         /\ NumClaimed' = NumClaimed + (Claim(kept) - Claim(a))
         /\ Claim(kept) - Claim(a) \in 0 .. Len(t) - keep
    <2>1. /\ Claim(kept) - Claim(a) \in 0 .. Len(t) - keep
          /\ a.guarantee => Claim(kept) - Claim(a) = Len(t) - keep
          /\ Claim(kept) \in Nat /\ Claim(a) \in Nat
      BY <1>3, <1>5, <1>12, <1>15, ClaimType
    <2>2. /\ completionClaims' = completionClaims +
               (IF a.guarantee THEN Claim(kept) - Claim(a) ELSE 0)
          /\ initialClaims' = initialClaims +
               (IF a.guarantee THEN 0 ELSE Claim(kept) - Claim(a))
      BY <1>1, <2>1
    <2> HIDE DEF a
    <2>3. CASE a.guarantee
      BY <2>1, <2>2, <2>3, <1>16, <1>17 DEF NumClaimed
    <2>4. CASE ~a.guarantee
      BY <2>1, <2>2, <2>4, <1>16, <1>17 DEF NumClaimed
    <2>. QED  BY <2>1, <2>3, <2>4
  <1>19. /\ NumUsed' + NumClaimed' <= NumBlocks
         /\ NumUsed - NumUsed' >= Claim(kept) - Claim(a)
         /\ Claim(kept) - Claim(a) \in Nat
    <2>1. NumClaimed \in Nat /\ NumUsed + NumClaimed <= NumBlocks
      BY <1>2, <1>17 DEF NumClaimed, ClaimsExact
    <2> DEFINE again == Claim(kept) - Claim(a)
               back == Len(t) - keep
    <2>2. NumUsed' = NumUsed - back /\ NumClaimed' = NumClaimed + again
      BY <1>9, <1>18
    <2>3. back \in Nat /\ again \in 0 .. back
      BY SMTT(40), <1>4, <1>5, <1>18
    <2> HIDE DEF again, back
    <2>4. /\ NumUsed' + NumClaimed' <= NumBlocks
          /\ NumUsed - NumUsed' >= again /\ again \in Nat
      BY <2>1, <2>2, <2>3, <1>17
    <2>. QED  BY <2>4 DEF again
  <1>20. ClaimsExact' /\ completionClaims' \in Nat /\ initialClaims' \in Nat
    <2>1. attached' \in SUBSET Requests
      BY <1>1, <1>2 DEF TypeOK
    <2>. QED  BY <2>1, <1>2, <1>13, <1>14, <1>18, <1>19, ClaimsFollow
  <1>21. TypeOK'
    <2>1. free' \subseteq Blocks /\ evictable' \subseteq Blocks
          /\ older' \subseteq Blocks \X Blocks
      BY <1>2, <1>4, <1>6, <1>9 DEF TypeOK
    <2>2. DOMAIN stored' = Blocks
      BY <1>9
    <2>. QED  BY <2>1, <2>2, <1>1, <1>2, <1>7, <1>9, <1>13, <1>20 DEF TypeOK
  <1>22. Ordered' /\ Epochs'
    BY <1>1, <1>2, <1>9 DEF Ordered, Epochs
  <1>23. Tables'
    <2>1. /\ Len(kept.blocks) = BlocksFor(kept.committed + kept.reserved)
          /\ kept.committed + kept.reserved <= MaxCommitted[r]
          /\ kept.guarantee => kept.limit = BlocksFor(MaxCommitted[r])
          /\ kept.readonly = FullPromptBlocks(r, kept.committed)
      <3>1. d + 0 = d
        BY <1>5
      <3>2. a.guarantee => a.limit = BlocksFor(MaxCommitted[r])
        BY <1>1, <1>2 DEF Tables
      <3>. QED  BY <3>1, <3>2, <1>5, <1>12 DEF keep, full
    <2>2. \A q \in attached' : q = r \/ (q \in attached /\ alloc'[q] = alloc[q])
      BY <1>1, <1>13
    <2>. QED  BY <2>1, <2>2, <1>2, <1>13 DEF Tables, FullPromptBlocks, NumKeys
  <1>24. ASSUME NEW q \in attached, q # r, NEW b \in Held(q)
         PROVE  /\ b \in Blocks /\ refs'[b] = refs[b] /\ stored'[b] = stored[b]
                /\ blockKey'[b] = blockKey[b]
    <2>1. b \in Blocks
      BY <1>2, HeldIsReferenced
    <2>2. b \notin PrivateOf(r)
      BY <1>4, <1>24
    <2>3. b \notin gone /\ \A i \in P : b # t[i]
      BY <2>2, <1>6
    <2>4. refs'[b] = refs[b]
      BY <2>1, <2>3, <1>2, <1>9 DEF TypeOK
    <2>. QED  BY <2>1, <2>2, <2>3, <2>4, <1>7, <1>8, <1>9
  <1>25. PoolExact'
    <2>1. Held(r)' = Held(r) \ gone
      <3>1. \A b : b \in Held(r)' <=> \E i \in 1 .. keep : b = t[i]
        <4>1. Held(r)' = { kept.blocks[i] : i \in DOMAIN kept.blocks }
          BY <1>13 DEF Held
        <4>2. DOMAIN kept.blocks = 1 .. keep /\ \A i \in 1 .. keep : kept.blocks[i] = t[i]
          BY <1>12
        <4>. QED  BY ONLY <4>1, <4>2
      <3>2. \A b : b \in Held(r) <=> \E i \in 1 .. Len(t) : b = t[i]
        BY <1>4 DEF Held, t
      <3>3. \A b : b \in gone <=> \E i \in keep + 1 .. Len(t) : b = t[i]
        BY <1>10
      <3>4. ASSUME NEW i \in 1 .. keep, NEW j \in keep + 1 .. Len(t), t[i] = t[j]
            PROVE  FALSE
        <4>1. i \in 1 .. Len(t) /\ j \in 1 .. Len(t) /\ i # j
          BY <1>4, <1>5
        <4>. QED  BY <4>1, <3>4, <1>4
      <3>5. \A i \in 1 .. Len(t) : i \in 1 .. keep \/ i \in keep + 1 .. Len(t)
        BY <1>4, <1>5
      <3>6. \A i \in 1 .. keep : i \in 1 .. Len(t)
        BY <1>4, <1>5
      <3>. QED  BY <3>1, <3>2, <3>3, <3>4, <3>5, <3>6
    <2>2. ASSUME NEW b \in Blocks
          PROVE  refs'[b] = Cardinality(Holders(b)')
      <3>1. refs[b] = Cardinality(Holders(b)) /\ refs[b] \in Nat
        BY <1>2 DEF PoolExact, TypeOK
      <3>2. CASE b \in gone
        <4>1. Holders(b)' = {}
          BY <2>1, <3>2, <1>1, <1>4, <1>6, <1>13 DEF Holders
        <4>2. Cardinality(Holders(b)') = 0
          BY <4>1, FS_EmptySet, Zenon
        <4>. QED  BY <4>2, <3>2, <1>4, <1>6, <1>9
      <3>3. CASE b \notin gone
        <4>1. Holders(b)' = Holders(b)
          BY <2>1, <3>3, <1>1, <1>13 DEF Holders
        <4>2. Cardinality(Holders(b)') = refs[b]
          BY <4>1, <3>1, Zenon
        <4>. QED  BY <4>2, <3>1, <3>3, <1>9
      <3>. QED  BY <3>2, <3>3
    <2>3. ASSUME NEW q \in attached', NEW i \in DOMAIN Table(q)',
                 NEW j \in DOMAIN Table(q)', Table(q)'[i] = Table(q)'[j]
          PROVE  i = j
      <3>1. CASE q = r
        <4>1. /\ Table(q)' = kept.blocks /\ DOMAIN kept.blocks = 1 .. keep
              /\ \A l \in 1 .. keep : kept.blocks[l] = t[l] /\ l \in 1 .. Len(t)
          BY <3>1, <1>12, <1>13
        <4>2. i \in 1 .. keep /\ j \in 1 .. keep /\ kept.blocks[i] = kept.blocks[j]
          BY ONLY <4>1, <2>3
        <4>3. t[i] = t[j] /\ i \in 1 .. Len(t) /\ j \in 1 .. Len(t)
          BY ONLY <4>1, <4>2
        <4>. QED  BY <4>3, <1>4
      <3>2. CASE q # r
        BY <3>2, <2>3, <1>1, <1>2, <1>13 DEF PoolExact
      <3>. QED  BY <3>1, <3>2
    <2>. QED  BY <2>2, <2>3, <1>9 DEF PoolExact
  <1>26. ASSUME NEW i \in P
         PROVE  /\ i \in Nat /\ i * BlockSize <= d
                /\ stored'[t[i]] = K(i) /\ K(i) # NoKey
    <2>1. i \in Nat /\ i * BlockSize <= d
      BY <1>6, <1>11
    <2>2. t[i] \in Blocks /\ t[i] \notin gone /\ now[t[i]] = F(i, d)
      BY <1>4, <1>6, <1>8
    <2>3. F(i, d) = Fragment(generation, r, i * BlockSize)
      BY <2>1 DEF AtMost
    <2>4. Fragment(generation, r, i * BlockSize) = K(i) /\ K(i) \in Keys
      BY <1>6, <1>11, PageKeys DEF K
    <2>. QED  BY <2>1, <2>2, <2>3, <2>4, <1>9, KeysAreKeys
  <1>27. IndexSound'
    <2>1. ASSUME NEW k \in Keys, cached'[k] # NoBlock
          PROVE  blockKey'[cached'[k]] = k
      <3>1. CASE \E i \in P : k = K(i)
        BY <3>1, <1>7
      <3>2. CASE \A i \in P : k # K(i)
        <4>1. /\ cached'[k] = cached[k] /\ cached[k] \in Blocks
              /\ blockKey[cached[k]] = k /\ k # NoKey
          BY <3>2, <2>1, <1>2, <1>7, KeysAreKeys DEF IndexSound, TypeOK
        <4>2. \A i \in P : cached[k] # t[i]
          BY <4>1, <1>4, <1>6
        <4>. QED  BY <4>1, <4>2, <1>7
      <3>. QED  BY <3>1, <3>2
    <2>2. ASSUME NEW b \in Blocks, blockKey'[b] # NoKey
          PROVE  /\ cached'[blockKey'[b]] = b
                 /\ cacheEpoch = generation => stored'[b] = blockKey'[b]
      <3>1. b \notin gone
        BY <2>2, <1>9
      <3>2. CASE \E i \in P : b = t[i]
        BY <3>2, <1>7, <1>26
      <3>3. CASE \A i \in P : b # t[i]
        <4>1. /\ blockKey'[b] = blockKey[b] /\ blockKey[b] \in Keys
              /\ cached[blockKey[b]] = b /\ b # NoBlock
              /\ cacheEpoch = generation => stored[b] = blockKey[b]
          BY <3>3, <2>2, <1>2, <1>7, CapacityAssumption
             DEF IndexSound, TypeOK, Blocks, NoBlock
        <4>2. \A i \in P : blockKey[b] # K(i)
          BY <4>1, <1>6
        <4>3. b \notin PrivateOf(r)
          BY <4>1, <1>4, KeysAreKeys
        <4>. QED  BY <4>1, <4>2, <4>3, <3>1, <1>7, <1>8, <1>9
      <3>. QED  BY <3>2, <3>3
    <2>3. ASSUME NEW b \in Blocks, b \in free \cup evictable
          PROVE  blockKey'[b] = blockKey[b]
      <3>1. \A i \in P : b # t[i]
        BY <2>3, <1>4, <1>6
      <3>. QED  BY <3>1, <1>7
    <2>4. \A b \in evictable' : blockKey'[b] # NoKey
      BY <2>3, <1>2, <1>9 DEF IndexSound, TypeOK
    <2>5. \A b \in free' : blockKey'[b] = NoKey
      BY <2>3, <1>2, <1>9 DEF IndexSound, TypeOK
    <2>. QED  BY <2>1, <2>2, <2>4, <2>5, <1>1 DEF IndexSound
  <1>28. ASSUME NEW q \in attached, q # r
         PROVE  /\ alloc[q].committed \div BlockSize \in Nat
                /\ BlocksFor(alloc[q].committed) \in Nat
                /\ Len(Table(q)) \in Nat
                /\ Len(Table(q)) >= BlocksFor(alloc[q].committed)
                /\ \A i \in 1 .. Len(Table(q)) : Table(q)[i] \in Held(q)
    <2>1. /\ alloc[q].committed \in Nat /\ Len(Table(q)) \in Nat
          /\ \A i \in 1 .. Len(Table(q)) : Table(q)[i] \in Held(q)
      BY <1>2, <1>13, <1>28, TableType DEF Allocation
    <2>. QED  BY <2>1, <1>2, BlockCount DEF CommittedContent
  <1>29. CommittedContent'
    <2>1. ASSUME NEW q \in attached, q # r,
                 NEW i \in 1 .. BlocksFor(alloc[q].committed)
          PROVE  stored'[Table(q)[i]] =
                   Fragment(generation, q, AtMost(i * BlockSize, alloc[q].committed))
      <3>1. Table(q)[i] \in Held(q)
        BY <2>1, <1>28
      <3>2. stored[Table(q)[i]] =
              Fragment(generation, q, AtMost(i * BlockSize, alloc[q].committed))
        BY <1>2 DEF CommittedContent
      <3>. QED  BY <3>1, <3>2, <2>1, <1>24
    <2>2. ASSUME NEW i \in 1 .. keep
          PROVE  stored'[t[i]] = F(i, d)
      <3>1. i \in 1 .. Len(t) /\ i \in Nat
        BY <1>12
      <3>2. CASE i > cd
        <4>1. i \in cd + 1 .. keep
          BY <3>2, <1>5
        <4>. QED  BY <4>1, <1>4, <1>6, <1>8, <1>9
      <3>3. CASE i <= cd
        <4>1. i * BlockSize <= c /\ i * BlockSize <= d /\ i * BlockSize \in Nat
          BY <3>1, <3>3, <1>5, <1>11
        <4>2. F(i, c) = F(i, d)
          BY <4>1 DEF AtMost
        <4>3. i \in 1 .. BlocksFor(c)
          BY <3>1, <3>3, <1>5
        <4>4. stored[t[i]] = F(i, c)
          BY <4>3, <1>1, <1>2 DEF CommittedContent, t
        <4>5. t[i] \in Blocks /\ t[i] \notin gone
          <5>1. t[i] \in Blocks
            BY <3>1, <1>4
          <5>2. \A j \in keep + 1 .. Len(t) : j # i /\ j \in 1 .. Len(t)
            BY <1>4, <1>5
          <5>. QED  BY <5>1, <5>2, <3>1, <1>4, <1>10
        <4>. QED  BY <4>2, <4>4, <4>5, <3>1, <3>3, <1>8, <1>9
      <3>4. i > cd \/ i <= cd
        BY <3>1, <1>5
      <3>. QED  BY <3>2, <3>3, <3>4
    <2>3. ASSUME NEW q \in attached'
          PROVE  /\ Len(Table(q)') >= BlocksFor(alloc'[q].committed)
                 /\ \A i \in 1 .. BlocksFor(alloc'[q].committed) :
                      stored'[Table(q)'[i]] = Fragment(generation', q,
                        AtMost(i * BlockSize, alloc'[q].committed))
      <3>1. CASE q = r
        <4>1. alloc'[q].committed = d /\ BlocksFor(d) = keep /\ keep \in Nat
          BY <3>1, <1>5, <1>12, <1>13 DEF keep
        <4>2. /\ Table(q)' = kept.blocks /\ Len(kept.blocks) = keep
              /\ \A i \in 1 .. keep : kept.blocks[i] = t[i]
          BY <3>1, <1>12, <1>13
        <4> HIDE DEF d
        <4>. QED  BY <4>1, <4>2, <3>1, <2>2, <1>1
      <3>2. CASE q # r
        <4>1. /\ q \in attached /\ alloc'[q] = alloc[q] /\ Table(q)' = Table(q)
          BY <3>2, <1>1, <1>13
        <4>. QED  BY <4>1, <3>2, <2>1, <1>1, <1>28
      <3>. QED  BY <3>1, <3>2
    <2>. QED  BY <2>3 DEF CommittedContent
  <1>30. WritableIsPrivate'
    <2>1. ASSUME NEW q \in attached, q # r,
                 NEW i \in alloc[q].committed \div BlockSize + 1 .. Len(Table(q))
          PROVE  refs'[Table(q)[i]] = 1 /\ blockKey'[Table(q)[i]] = NoKey
      <3>1. refs[Table(q)[i]] = 1 /\ blockKey[Table(q)[i]] = NoKey
        BY <1>2 DEF WritableIsPrivate
      <3>2. Table(q)[i] \in Held(q)
        BY <2>1, <1>28
      <3>. QED  BY <3>1, <3>2, <2>1, <1>24
    <2>2. ASSUME NEW i \in dd + 1 .. keep
          PROVE  refs'[t[i]] = 1 /\ blockKey'[t[i]] = NoKey
      <3>1. i \in cd + 1 .. keep /\ i \in 1 .. keep /\ i > dd
        BY <1>5
      <3>2. t[i] \in PrivateOf(r) /\ t[i] \notin gone
        BY <3>1, <1>6
      <3>3. \A j \in P : t[i] # t[j]
        <4>1. \A j \in P : j # i /\ j \in 1 .. keep
          BY <3>1, <1>5, <1>6
        <4>. QED  BY <4>1, <3>1, <1>4, <1>12
      <3>4. t[i] \in Blocks /\ refs[t[i]] = 1 /\ blockKey[t[i]] = NoKey
        BY <3>2, <1>4
      <3>5. refs'[t[i]] = refs[t[i]] - 0 /\ refs[t[i]] - 0 = 1
        BY <3>2, <3>4, <1>9
      <3>6. blockKey'[t[i]] = blockKey[t[i]]
        BY <3>3, <3>4, <1>7
      <3>. QED  BY <3>4, <3>5, <3>6
    <2>3. ASSUME NEW q \in attached'
          PROVE  \A i \in alloc'[q].committed \div BlockSize + 1 .. Len(Table(q)') :
                   refs'[Table(q)'[i]] = 1 /\ blockKey'[Table(q)'[i]] = NoKey
      <3>1. CASE q = r
        <4>1. alloc'[q].committed \div BlockSize = dd /\ dd \in Nat
          BY <3>1, <1>5, <1>12, <1>13 DEF dd
        <4>2. /\ Table(q)' = kept.blocks /\ Len(kept.blocks) = keep
              /\ \A i \in 1 .. keep : kept.blocks[i] = t[i]
          BY <3>1, <1>12, <1>13
        <4>3. \A i \in dd + 1 .. keep : i \in 1 .. keep
          BY <4>1, <1>5
        <4>. QED  BY <4>1, <4>2, <4>3, <2>2
      <3>2. CASE q # r
        <4>1. /\ q \in attached /\ alloc'[q] = alloc[q] /\ Table(q)' = Table(q)
          BY <3>2, <1>1, <1>13
        <4>. QED  BY <4>1, <3>2, <2>1
      <3>. QED  BY <3>1, <3>2
    <2>. QED  BY <2>3 DEF WritableIsPrivate
  <1>31. CacheInv'
    BY <1>14, <1>20, <1>21, <1>22, <1>23, <1>25, <1>27, <1>29, <1>30 DEF CacheInv
  <1>. QED  BY <1>13, <1>16, <1>19, <1>31

----------------------------------------------------------------------------
(* The invariant.                                                          *)

(* The manager starts with every block on the heap and no claim.           *)
LEMMA CacheInit ==
  Init => CacheInv
  <1> SUFFICES ASSUME Init PROVE CacheInv
    OBVIOUS
  <1>1. /\ free = Blocks /\ evictable = {} /\ older = {} /\ attached = {}
        /\ refs = [b \in Blocks |-> 0] /\ cached = [k \in Keys |-> NoBlock]
        /\ blockKey = [b \in Blocks |-> NoKey] /\ cacheEpoch = -1
        /\ alloc = [r \in Requests |-> NoAllocation]
        /\ completionClaims = 0 /\ initialClaims = 0 /\ generation = 0
        /\ stored = [b \in Blocks |-> NoKey]
    BY DEF Init
  <1>2. MaxGeneration \in Nat /\ NumBlocks \in Nat
    BY CapacityAssumption
  <1>3. TypeOK
    BY <1>1, <1>2, ClaimType DEF TypeOK
  <1>4. Ordered /\ Epochs /\ Detached /\ Tables /\ CommittedContent /\ WritableIsPrivate
    BY <1>1 DEF Ordered, Epochs, Detached, Tables, CommittedContent, WritableIsPrivate
  <1>5. PoolExact
    <2>1. \A b \in Blocks : Holders(b) = {}
      BY <1>1 DEF Holders
    <2>2. \A b \in Blocks : Cardinality(Holders(b)) = 0
      BY <2>1, FS_EmptySet
    <2>. QED  BY <2>2, <1>1 DEF PoolExact, Referenced
  <1>6. IndexSound
    BY <1>1 DEF IndexSound
  <1>7. ClaimsExact
    <2>1. Pledged(Strict) = {} /\ Pledged(attached \ Strict) = {}
      BY <1>1 DEF Pledged, Strict
    <2>2. Cardinality(Pledged(Strict)) = 0 /\ Cardinality(Pledged(attached \ Strict)) = 0
      BY <2>1, FS_EmptySet, Zenon
    <2>3. Cardinality(free) = NumBlocks
      BY <1>1, FiniteSets, Zenon
    <2>4. Cardinality(evictable) = 0
      BY <1>1, FS_EmptySet, Zenon
    <2>. QED  BY <2>2, <2>3, <2>4, <1>1, <1>2 DEF ClaimsExact, NumUsed, NumClaimed
  <1>. QED  BY <1>3, <1>4, <1>5, <1>6, <1>7 DEF CacheInv

(* A reload changes only what the index is measured against, when nobody   *)
(* reads a page.                                                           *)
LEMMA ReloadKeeps ==
  ASSUME CacheInv, Reload
  PROVE  CacheInv'
  <1>1. /\ attached = {} /\ generation < MaxGeneration /\ generation' = generation + 1
        /\ stored' = [b \in Blocks |-> NoKey]
        /\ UNCHANGED <<free, evictable, older, refs, cached, blockKey, cacheEpoch,
                       completionClaims, initialClaims, attached, alloc>>
    BY DEF Reload, pool, index, claims
  <1>2. /\ TypeOK /\ Ordered /\ Epochs /\ Detached /\ PoolExact /\ IndexSound
        /\ ClaimsExact
    BY DEF CacheInv
  <1>3. /\ generation \in 0 .. MaxGeneration /\ MaxGeneration \in Nat
        /\ cacheEpoch \in -1 .. MaxGeneration /\ cacheEpoch <= generation
    BY <1>2, CapacityAssumption DEF TypeOK, Epochs
  <1>4. cacheEpoch <= generation' /\ cacheEpoch # generation'
        /\ generation' \in 0 .. MaxGeneration
    BY <1>1, <1>3
  <1>5. TypeOK'
    BY <1>1, <1>2, <1>4 DEF TypeOK
  <1>6. Ordered' /\ Epochs' /\ Detached' /\ Tables' /\ CommittedContent' /\ WritableIsPrivate'
    BY <1>1, <1>2, <1>4
       DEF Ordered, Epochs, Detached, Tables, CommittedContent, WritableIsPrivate
  <1>7. PoolExact' /\ IndexSound'
    BY <1>1, <1>2, <1>4
       DEF PoolExact, IndexSound, Referenced, Holders, Held, Table
  <1>8. ClaimsExact'
    BY <1>1, <1>2
       DEF ClaimsExact, NumUsed, NumClaimed, Pledged, Strict
  <1>. QED  BY <1>5, <1>6, <1>7, <1>8 DEF CacheInv

(* The actions keep the invariant, and nothing happening does.             *)
LEMMA CacheStep ==
  CacheInv /\ [Next]_vars => CacheInv'
  <1> SUFFICES ASSUME CacheInv, [Next]_vars PROVE CacheInv'
    OBVIOUS
  <1>1. ASSUME NEW r \in Requests, NEW a \in Admissions, TryAdd(r, a) PROVE CacheInv'
    BY <1>1, TryAddKeeps
  <1>2. ASSUME NEW r \in Requests, NEW a \in Admissions, TryAddNewEpoch(r, a)
        PROVE  CacheInv'
    BY <1>2, NewEpochKeeps
  <1>3. ASSUME NEW r \in Requests, NEW n \in 1 .. MaxReserve, Reserve(r, n)
        PROVE  CacheInv'
    BY <1>3, ReserveKeeps
  <1>4. ASSUME NEW r \in Requests, NEW n \in 0 .. MaxReserve, Commit(r, n)
        PROVE  CacheInv'
    BY <1>4, CommitKeeps
  <1>5. ASSUME NEW r \in Requests, Free(r) PROVE CacheInv'
    BY <1>5, FreeKeeps
  <1>6. CASE Reload
    BY <1>6, ReloadKeeps
  <1>7. CASE UNCHANGED vars
    <2>1. UNCHANGED <<free, evictable, older, refs, cached, blockKey, cacheEpoch,
                      completionClaims, initialClaims, attached, alloc,
                      generation, stored>>
      BY <1>7 DEF vars, pool, index, claims
    <2>2. /\ TypeOK' /\ Ordered' /\ Epochs' /\ Detached' /\ Tables'
      BY <2>1 DEF CacheInv, TypeOK, Ordered, Epochs, Detached, Tables
    <2>3. CommittedContent' /\ WritableIsPrivate'
      BY <2>1 DEF CacheInv, CommittedContent, WritableIsPrivate, Table
    <2>4. PoolExact' /\ IndexSound'
      <3>1. PoolExact /\ IndexSound
        BY DEF CacheInv
      <3>2. PoolExact'
        <4>1. /\ free' = free /\ evictable' = evictable /\ older' = older /\ refs' = refs
              /\ attached' = attached /\ \A r : Table(r)' = Table(r)
          BY <2>1 DEF Table
        <4>2. \A b : Holders(b)' = Holders(b)
          BY <4>1 DEF Holders, Held
        <4>3. Referenced' = Referenced
          BY <4>1 DEF Referenced
        <4>4. \A b \in Blocks : refs'[b] = Cardinality(Holders(b)')
          BY <3>1, <4>1, <4>2, Zenon DEF PoolExact
        <4>. QED  BY <3>1, <4>1, <4>3, <4>4 DEF PoolExact
      <3>3. IndexSound'
        BY <2>1, <3>1 DEF IndexSound
      <3>. QED  BY <3>2, <3>3
    <2>5. ClaimsExact'
      BY <2>1 DEF CacheInv, ClaimsExact, NumUsed, NumClaimed, Pledged, Strict
    <2>. QED  BY <2>2, <2>3, <2>4, <2>5 DEF CacheInv
  <1>. QED  BY <1>1, <1>2, <1>3, <1>4, <1>5, <1>6, <1>7 DEF Next

(* In every reachable state of the manager its parts agree.                *)
THEOREM CacheInvariant == Spec => []CacheInv
  BY CacheInit, CacheStep, PTL DEF Spec

(* Every field of the manager has its type; a claim is never negative.     *)
THEOREM CacheTypes == Spec => []TypeOK
  <1>1. CacheInv => TypeOK
    BY DEF CacheInv
  <1>. QED  BY <1>1, CacheInvariant, PTL

(* No block is lost, held twice or counted wrong, whatever is shared,      *)
(* trimmed, evicted and freed.                                             *)
THEOREM PoolIsExact == Spec => []PoolExact
  <1>1. CacheInv => PoolExact
    BY DEF CacheInv
  <1>. QED  BY <1>1, CacheInvariant, PTL

(* What the prefix index says of a page of the loaded model is true.       *)
THEOREM IndexIsSound == Spec => []IndexSound
  <1>1. CacheInv => IndexSound
    BY DEF CacheInv
  <1>. QED  BY <1>1, CacheInvariant, PTL

(* A request reads its own tokens, whoever computed them.                  *)
THEOREM SharingIsInvisible == Spec => []CommittedContent
  <1>1. CacheInv => CommittedContent
    BY DEF CacheInv
  <1>. QED  BY <1>1, CacheInvariant, PTL

(* Nobody writes where another request or the index looks.                 *)
THEOREM WritesArePrivate == Spec => []WritableIsPrivate
  <1>1. CacheInv => WritableIsPrivate
    BY DEF CacheInv
  <1>. QED  BY <1>1, CacheInvariant, PTL

(* The claim counters are the claims, and fit the pool.                    *)
THEOREM ClaimsAreExact == Spec => []ClaimsExact
  <1>1. CacheInv => ClaimsExact
    BY DEF CacheInv
  <1>. QED  BY <1>1, CacheInvariant, PTL

----------------------------------------------------------------------------
(* What callers rely on.                                                   *)

(* The claim of a strict request is a share of what nobody uses.           *)
LEMMA StrictShare ==
  ASSUME CacheInv, NEW r \in Strict
  PROVE  /\ Claim(alloc[r]) = BlocksFor(MaxCommitted[r]) - Len(alloc[r].blocks)
         /\ alloc[r].limit = BlocksFor(MaxCommitted[r])
         /\ alloc[r].guarantee /\ Claim(alloc[r]) \in Nat
         /\ Claim(alloc[r]) <= Cardinality(free) + Cardinality(evictable)
  <1> DEFINE a == alloc[r]
  <1>1. /\ TypeOK /\ Detached /\ Tables /\ PoolExact /\ ClaimsExact
        /\ r \in attached /\ r \in Requests /\ a.guarantee
    BY DEF CacheInv, TypeOK, Strict
  <1>2. /\ a \in Allocation /\ Len(a.blocks) \in Nat /\ a.limit \in Nat
        /\ a.committed + a.reserved \in Nat /\ MaxCommitted[r] \in Nat
    <2>1. a \in Allocation
      BY <1>1, TableType
    <2> HIDE DEF a
    <2>. QED  BY <2>1, <1>1, PromptPages DEF Allocation
  <1>3. /\ Len(a.blocks) = BlocksFor(a.committed + a.reserved)
        /\ a.committed + a.reserved <= MaxCommitted[r]
        /\ a.limit = BlocksFor(MaxCommitted[r])
    BY <1>1 DEF Tables
  <1>4. Claim(a) = a.limit - Len(a.blocks) /\ Claim(a) \in Nat
    <2>1. Len(a.blocks) <= a.limit
      BY <1>2, <1>3, BlocksMonotone
    <2>. QED  BY <2>1, <1>2, ClaimType
  <1>5. /\ alloc \in [Requests -> Allocation] /\ attached \in SUBSET Requests
        /\ completionClaims \in Nat /\ initialClaims \in Nat /\ NumBlocks \in Nat
        /\ IsFiniteSet(Requests)
    BY <1>1, CapacityAssumption, RequestAssumption DEF TypeOK
  <1>6. /\ Pledged(Strict) = PledgesOf(StrictClaimsIn(alloc), Requests)
        /\ \A q \in Requests : StrictClaimsIn(alloc)[q] \in Nat
    BY <1>1, <1>5, ClaimSums DEF Detached, Pledged, Strict
  <1>7. completionClaims = Cardinality(PledgesOf(StrictClaimsIn(alloc), Requests))
    BY <1>1, <1>6, Zenon DEF ClaimsExact
  <1>8. /\ Cardinality(PledgesOf(StrictClaimsIn(alloc), Requests)) =
             Cardinality(PledgesOf(StrictClaimsIn(alloc), Requests \ {r}))
               + StrictClaimsIn(alloc)[r]
        /\ Cardinality(PledgesOf(StrictClaimsIn(alloc), Requests \ {r})) \in Nat
    BY <1>1, <1>5, <1>6, PledgesWithout, PledgesFinite, FS_RemoveElement
  <1>9. StrictClaimsIn(alloc)[r] = Claim(a)
    BY <1>1 DEF StrictClaimsIn
  <1> HIDE DEF a
  <1>10. Claim(a) <= completionClaims
    BY <1>4, <1>5, <1>7, <1>8, <1>9
  <1>11. Cardinality(free) \in Nat /\ Cardinality(evictable) \in Nat
    BY <1>1, FiniteSets DEF TypeOK
  <1>12. Claim(a) <= Cardinality(free) + Cardinality(evictable)
    BY <1>1, <1>4, <1>5, <1>10, <1>11 DEF ClaimsExact, NumUsed, NumClaimed
  <1>. QED  BY <1>1, <1>3, <1>4, <1>12 DEF a

(* A strict request gets every block of its maximum length, whatever the   *)
(* other requests did since it was admitted.                               *)
THEOREM StrictIsServed == Spec => []StrictAlwaysServed
  <1>1. ASSUME CacheInv PROVE StrictAlwaysServed
    <2> SUFFICES ASSUME NEW r \in Strict
                 PROVE  LET a == alloc[r]
                            most == BlocksFor(MaxCommitted[r]) - Len(a.blocks)
                        IN  /\ MayGrow(a, most)
                            /\ most <= Cardinality(free) + Cardinality(evictable)
      BY DEF StrictAlwaysServed
    <2> DEFINE most == BlocksFor(MaxCommitted[r]) - Len(alloc[r].blocks)
    <2>1. /\ Claim(alloc[r]) = most /\ Claim(alloc[r]) \in Nat
          /\ alloc[r].limit - Len(alloc[r].blocks) = most /\ alloc[r].guarantee
          /\ Claim(alloc[r]) <= Cardinality(free) + Cardinality(evictable)
      BY <1>1, StrictShare
    <2> HIDE DEF most
    <2>2. most <= most
      BY <2>1
    <2>. QED  BY <2>1, <2>2 DEF MayGrow, most
  <1>. QED  BY <1>1, CacheInvariant, PTL

(* A reservation that takes an indexed page has emptied the heap, and      *)
(* every page that has been idle longer is taken too.                      *)
LEMMA TakenPagesAreOldest ==
  ASSUME CacheInv, NEW n \in Nat, NEW new \in Takes(n), Take(new),
         NEW x \in Places(new, n), blockKey[x] # NoKey
  PROVE  /\ refs[x] = 0
         /\ free' = {}
         /\ \A b \in evictable : <<b, x>> \in older => b \notin evictable'
  <1> DEFINE k == AtMost(n, Cardinality(free))
             taken == Places(new, n)
  <1>1. /\ TypeOK /\ Ordered /\ PoolExact /\ IndexSound
    BY DEF CacheInv
  <1>2. /\ new \in [1 .. n -> free \cup evictable]
        /\ \A i \in 1 .. k : new[i] \in free
        /\ \A i \in k + 1 .. n :
             \A b \in evictable \ { new[j] : j \in k + 1 .. i } : <<new[i], b>> \in older
        /\ \A i, j \in 1 .. n : i # j => new[i] # new[j]
    BY DEF Takes
  <1>3. /\ Len(new) = n /\ DOMAIN new = 1 .. n /\ taken \subseteq free \cup evictable
        /\ free' = free \ taken /\ evictable' = evictable \ taken
    BY <1>1, TakeFacts
  <1>4. free \subseteq Blocks /\ evictable \subseteq Blocks /\ Cardinality(free) \in Nat
        /\ IsFiniteSet(free)
    BY <1>1, FiniteSets DEF TypeOK
  <1>5. x \in evictable /\ x \notin free /\ x \in Blocks /\ refs[x] = 0
    <2>1. x \in free \cup evictable
      BY <1>3
    <2>2. x \notin free
      BY <1>1 DEF IndexSound
    <2>. QED  BY <2>1, <2>2, <1>1, IdleIsUnheld
  <1>6. PICK i \in 1 .. n : x = new[i]
    BY DEF Places
  <1>7. k \in Nat /\ k <= n /\ k <= Cardinality(free) /\ (k = n \/ k = Cardinality(free))
    BY <1>4 DEF AtMost
  <1> HIDE DEF k, taken
  <1>8. i \in k + 1 .. n /\ k = Cardinality(free)
    <2>1. i \notin 1 .. k
      BY <1>2, <1>5, <1>6
    <2>. QED  BY <2>1, <1>7
  <1>9. free' = {}
    <2> DEFINE V == { new[j] : j \in 1 .. k }
    <2>1. \A j \in 1 .. k : j \in 1 .. n /\ new[j] \in free
      BY <1>2, <1>7
    <2>2. \A j, l \in 1 .. k : new[j] = new[l] => j = l
      BY <2>1, <1>2
    <2>3. free \subseteq V
      <3>1. /\ k \in Nat /\ \A j \in 1 .. k : new[j] \in free
            /\ IsFiniteSet(free) /\ Cardinality(free) = k
        BY <2>1, <1>4, <1>7, <1>8
      <3>. QED  BY ONLY ZenonT(40), <3>1, <2>2, DistinctValues
    <2>4. V \subseteq taken
      BY <2>1 DEF taken, Places
    <2>. QED  BY <2>3, <2>4, <1>3
  <1>10. ASSUME NEW b \in evictable, <<b, x>> \in older, b \in evictable'
         PROVE  FALSE
    <2>1. b \notin taken
      BY <1>3, <1>10
    <2>2. b \notin { new[j] : j \in k + 1 .. i }
      <3>1. \A j \in k + 1 .. i : j \in 1 .. n
        BY <1>7, <1>8
      <3>. QED  BY <2>1, <3>1 DEF taken, Places
    <2>3. <<x, b>> \in older
      BY <2>2, <1>2, <1>6, <1>8
    <2>4. b # x
      BY <2>1, <1>6 DEF taken, Places
    <2>. QED  BY <2>3, <2>4, <1>1, <1>5, <1>10 DEF PoolExact
  <1>. QED  BY <1>5, <1>9, <1>10

(* A cached prefix page is given up only to an allocation that found the   *)
(* heap empty, when nobody references it, and after every page that has    *)
(* been idle longer; or with the whole index.                              *)
THEOREM EvictsUnderPressure == Spec => EvictionOnlyUnderPressure
  <1> DEFINE Justified(k) ==
        \/ cacheEpoch' # cacheEpoch
        \/ /\ refs[cached[k]] = 0
           /\ free' = {}
           /\ \A b \in evictable : <<b, cached[k]>> \in older => b \notin evictable'
  <1>1. ASSUME CacheInv, [Next]_vars, NEW k \in Keys,
               cached[k] # NoBlock, cached'[k] # cached[k]
        PROVE  Justified(k)
    <2>1. \A r \in Requests : \A a \in Admissions : ~TryAdd(r, a)
      BY <1>1 DEF TryAdd, index
    <2>2. ASSUME NEW r \in Requests, NEW a \in Admissions, TryAddNewEpoch(r, a)
          PROVE  Justified(k)
      BY <2>2 DEF TryAddNewEpoch
    <2>3. ASSUME NEW r \in Requests, NEW n \in 1 .. MaxReserve, Reserve(r, n)
          PROVE  Justified(k)
      <3> DEFINE count == Growth(r, n)
      <3>1. PICK new \in Takes(count) : Take(new)
        BY <2>3 DEF Reserve, Growth
      <3>2. count \in Nat
        <4>1. /\ r \in attached /\ alloc[r].reserved = 0 /\ n \in Nat
              /\ alloc[r].committed + n <= MaxCommitted[r]
              /\ MayGrow(alloc[r], Growth(r, n))
          BY <2>3 DEF Reserve, Growth
        <4>. QED  BY <4>1, <1>1, ReserveCounts
      <3> HIDE DEF count
      <3>3. /\ cached' = [l \in Keys |-> IF cached[l] \in Places(new, count) THEN NoBlock
                                         ELSE cached[l]]
        BY <3>1, <3>2, <1>1, TakeFacts DEF CacheInv
      <3>4. cached[k] \in Places(new, count)
        BY <3>3, <1>1
      <3>5. blockKey[cached[k]] = k /\ k # NoKey
        BY <1>1, KeysAreKeys DEF CacheInv, IndexSound
      <3>. QED  BY <3>1, <3>2, <3>4, <3>5, <1>1, TakenPagesAreOldest
    <2>4. ASSUME NEW r \in Requests, NEW n \in 0 .. MaxReserve, Commit(r, n)
          PROVE  FALSE
      <3>1. r \in attached /\ n \in Nat /\ n <= alloc[r].reserved
        BY <2>4 DEF Commit
      <3>2. \A i \in Publishes(r, n) : cached[PromptKey(generation, r, i)] = NoBlock
        BY DEF Publishes
      <3>3. \A i \in Publishes(r, n) : k # PromptKey(generation, r, i)
        BY <3>2, <1>1
      <3>. QED  BY <3>1, <3>3, <2>4, <1>1, CommitIndex
    <2>5. \A r \in Requests : ~Free(r)
      BY <1>1 DEF Free, index
    <2>6. ~Reload
      BY <1>1 DEF Reload, index
    <2>7. ~UNCHANGED vars
      BY <1>1 DEF vars, index
    <2>. QED  BY <2>1, <2>2, <2>3, <2>4, <2>5, <2>6, <2>7, <1>1 DEF Next
  <1>2. CacheInv /\ [Next]_vars =>
          [\A k \in Keys : (cached[k] # NoBlock /\ cached'[k] # cached[k]) => Justified(k)]_vars
    BY <1>1
  <1>. QED  BY <1>2, CacheInvariant, PTL DEF Spec, EvictionOnlyUnderPressure

----------------------------------------------------------------------------
(* The manager implements the capacity ledger.                             *)

(* The ledger counts as the manager does.                                  *)
LEMMA SameCount ==
  ASSUME NEW S
  PROVE  Ledger!Cardinality(S) = Cardinality(S)
  BY Zenon DEF Ledger!Cardinality, Cardinality

(* Whichever blocks are idle, the others are a number.                     *)
LEMMA UsedIsNumber ==
  ASSUME NEW f \in SUBSET Blocks, NEW e \in SUBSET Blocks, f \cap e = {}
  PROVE  NumBlocks - (Cardinality(f) + Cardinality(e)) \in Nat
  <1>1. IsFiniteSet(f) /\ IsFiniteSet(e) /\ IsFiniteSet(Blocks)
        /\ Cardinality(Blocks) = NumBlocks /\ f \cup e \in SUBSET Blocks
    BY FiniteSets
  <1>2. /\ Cardinality(f \cup e) = Cardinality(f) + Cardinality(e)
        /\ Cardinality(f) \in Nat /\ Cardinality(e) \in Nat
    BY <1>1, DisjointSizes
  <1>3. Cardinality(f \cup e) <= NumBlocks
    BY <1>1, FS_Subset
  <1>. QED  BY <1>2, <1>3, CapacityAssumption

(* What is promised, now and after a step.                                 *)
LEMMA LedgerPromise ==
  /\ Ledger!Promised = NumUsed + Cardinality(PledgesOf(ClaimsIn(alloc), Requests))
  /\ Ledger!Promised' = NumUsed' + Cardinality(PledgesOf(ClaimsIn(alloc'), Requests))
  <1>1. /\ Ledger!Pledged(Requests) = PledgesOf(ClaimsIn(alloc), Requests)
        /\ Ledger!Pledged(Requests)' = PledgesOf(ClaimsIn(alloc'), Requests)
    BY DEF Ledger!Pledged, PledgesOf, ClaimsIn
  <1>2. /\ Ledger!Cardinality(Ledger!Pledged(Requests)) =
             Cardinality(PledgesOf(ClaimsIn(alloc), Requests))
        /\ Ledger!Cardinality(Ledger!Pledged(Requests))' =
             Cardinality(PledgesOf(ClaimsIn(alloc'), Requests))
    <2>1. Ledger!Cardinality(Ledger!Pledged(Requests)) =
            Cardinality(PledgesOf(ClaimsIn(alloc), Requests))
      BY <1>1, SameCount, Zenon
    <2>2. Ledger!Cardinality(Ledger!Pledged(Requests)') =
            Cardinality(PledgesOf(ClaimsIn(alloc'), Requests))
      BY <1>1, SameCount, Zenon
    <2>. QED  BY <2>1, <2>2
  <1>. QED  BY <1>2 DEF Ledger!Promised

(* What the ledger sees of a state of the manager.                         *)
LEMMA LedgerView ==
  ASSUME CacheInv
  PROVE  /\ NumUsed \in Nat /\ NumBlocks \in Nat
         /\ ClaimsIn(alloc) \in [Requests -> Nat]
         /\ Ledger!Promised = NumUsed + NumClaimed
         /\ NumUsed + NumClaimed <= NumBlocks /\ NumClaimed \in Nat
  <1>1. /\ TypeOK /\ Detached /\ PoolExact /\ ClaimsExact
        /\ alloc \in [Requests -> Allocation] /\ attached \in SUBSET Requests
        /\ completionClaims \in Nat /\ initialClaims \in Nat
    BY DEF CacheInv, TypeOK
  <1>2. NumUsed \in Nat /\ NumBlocks \in Nat
    BY <1>1, UsedBlocks, CapacityAssumption DEF TypeOK, PoolExact
  <1>3. /\ Pledged(Strict) = PledgesOf(StrictClaimsIn(alloc), Requests)
        /\ Pledged(attached \ Strict) = PledgesOf(InitialClaimsIn(alloc), Requests)
        /\ Cardinality(PledgesOf(ClaimsIn(alloc), Requests)) =
             Cardinality(PledgesOf(StrictClaimsIn(alloc), Requests))
               + Cardinality(PledgesOf(InitialClaimsIn(alloc), Requests))
        /\ \A r \in Requests : ClaimsIn(alloc)[r] \in Nat
    BY <1>1, ClaimSums DEF Detached, Pledged, Strict
  <1>4. ClaimsIn(alloc) \in [Requests -> Nat]
    BY <1>3 DEF ClaimsIn
  <1>5. /\ completionClaims = Cardinality(PledgesOf(StrictClaimsIn(alloc), Requests))
        /\ initialClaims = Cardinality(PledgesOf(InitialClaimsIn(alloc), Requests))
    BY <1>1, <1>3, Zenon DEF ClaimsExact
  <1>6. Ledger!Promised = NumUsed + Cardinality(PledgesOf(ClaimsIn(alloc), Requests))
    BY LedgerPromise
  <1>7. Cardinality(PledgesOf(ClaimsIn(alloc), Requests)) = NumClaimed
    BY <1>3, <1>5 DEF NumClaimed
  <1>8. NumClaimed \in Nat /\ NumUsed + NumClaimed <= NumBlocks
    BY <1>1 DEF NumClaimed, ClaimsExact
  <1>. QED  BY <1>2, <1>4, <1>6, <1>7, <1>8

(* Only the claim of r changes, to what it is now.                         *)
LEMMA OneClaim ==
  ASSUME NEW r \in Requests, \A q \in Requests \ {r} : alloc'[q] = alloc[q]
  PROVE  ClaimsIn(alloc') = [ClaimsIn(alloc) EXCEPT ![r] = ClaimsIn(alloc')[r]]
  BY DEF ClaimsIn

(* What is used grows by a number of blocks, within what is spare ...      *)
LEMMA Difference ==
  ASSUME NEW u \in Nat, NEW v \in Nat, NEW c \in Nat, NEW s \in Nat,
         v >= u, v - u + c <= s
  PROVE  c \in 0 .. s /\ \E p \in 0 .. s - c : v = u + p
  <1>1. v - u \in 0 .. s - c /\ v = u + (v - u) /\ c \in 0 .. s
    OBVIOUS
  <1>. QED  BY <1>1

(* ... or shrinks by one, no less than what is pledged again.              *)
LEMMA Return ==
  ASSUME NEW u \in Nat, NEW v \in Nat, NEW c \in Nat, NEW d \in Nat,
         d - c \in Nat, u - v >= d - c
  PROVE  \E b \in 0 .. u : v = u - b /\ \E g \in 0 .. b : d = c + g
  <1>1. /\ u - v \in 0 .. u /\ v = u - (u - v)
        /\ d - c \in 0 .. u - v /\ d = c + (d - c)
    OBVIOUS
  <1>. QED  BY <1>1

(* An admission is one, or a stutter when a refused call of a new epoch    *)
(* only empties the pool; a reservation draws; a commit hands back; a      *)
(* departure leaves; a reload is nothing to the ledger.                    *)
LEMMA LedgerSteps ==
  ASSUME CacheInv, CacheInv', [Next]_vars
  PROVE  [Ledger!Next]_(Ledger!vars)
  <1> DEFINE cl == [r \in Requests |-> Claim(alloc[r])]
             spare == NumBlocks - (NumUsed + NumClaimed)
  <1>1. /\ NumUsed \in Nat /\ NumBlocks \in Nat /\ spare \in Nat
        /\ cl \in [Requests -> Nat] /\ Ledger!Promised = NumUsed + NumClaimed
        /\ cl = ClaimsIn(alloc) /\ NumClaimed \in Nat
    BY LedgerView DEF ClaimsIn
  <1>2. /\ NumUsed' \in Nat /\ cl' \in [Requests -> Nat] /\ cl' = ClaimsIn(alloc')
    <2>1. NumUsed' \in Nat
      BY UsedIsNumber DEF CacheInv, TypeOK, PoolExact, NumUsed
    <2>2. \A r \in Requests : Claim(alloc'[r]) \in Nat
      BY ClaimType DEF CacheInv, TypeOK
    <2>. QED  BY <2>1, <2>2 DEF ClaimsIn
  <1> HIDE DEF cl
  <1>3. ASSUME NEW r \in Requests, \A q \in Requests \ {r} : alloc'[q] = alloc[q]
        PROVE  cl' = [cl EXCEPT ![r] = cl'[r]]
    BY <1>1, <1>2, <1>3, OneClaim
  <1>4. ASSUME NEW r \in Requests, NEW a \in Admissions, TryAdd(r, a)
        PROVE  Ledger!Admit(r)
    <2>1. /\ cl[r] = 0 /\ NumUsed' >= NumUsed
          /\ NumUsed' - NumUsed + cl'[r] <= spare
          /\ cl' = [cl EXCEPT ![r] = cl'[r]]
      BY <1>1, <1>2, <1>3, <1>4, TryAddKeeps
    <2>2. /\ cl'[r] \in Nat /\ NumUsed \in Nat /\ NumUsed' \in Nat /\ spare \in Nat
          /\ NumUsed' >= NumUsed /\ NumUsed' - NumUsed + cl'[r] <= spare
      BY <2>1, <1>1, <1>2
    <2> HIDE DEF spare
    <2>3. \E c \in 0 .. spare : /\ cl' = [cl EXCEPT ![r] = c]
                                /\ \E p \in 0 .. spare - c : NumUsed' = NumUsed + p
      <3>1. cl'[r] \in 0 .. spare /\ \E p \in 0 .. spare - cl'[r] : NumUsed' = NumUsed + p
        BY <2>2, Difference
      <3>. QED  BY <2>1, <3>1
    <2>. QED  BY <2>1, <2>3, <1>1 DEF Ledger!Admit, cl, spare
  <1>5. ASSUME NEW r \in Requests, NEW a \in Admissions, TryAddNewEpoch(r, a)
        PROVE  Ledger!Admit(r) \/ UNCHANGED Ledger!vars
    <2>1. /\ NumUsed = 0 /\ NumUsed' = 0 /\ NumClaimed = 0
          /\ \/ alloc' = alloc
             \/ /\ cl[r] = 0 /\ cl'[r] <= NumBlocks
                /\ \A q \in Requests \ {r} : alloc'[q] = alloc[q]
      BY <1>1, <1>2, <1>5, NewEpochKeeps
    <2>2. CASE alloc' = alloc
      BY <2>1, <2>2 DEF Ledger!vars
    <2>3. CASE alloc' # alloc
      <3>1. /\ cl[r] = 0 /\ cl'[r] \in 0 .. spare /\ cl' = [cl EXCEPT ![r] = cl'[r]]
            /\ 0 \in 0 .. spare - cl'[r] /\ NumUsed' = NumUsed + 0
        BY <2>1, <2>3, <1>1, <1>2, <1>3
      <3> HIDE DEF spare
      <3>2. \E c \in 0 .. spare : /\ cl' = [cl EXCEPT ![r] = c]
                                  /\ \E p \in 0 .. spare - c : NumUsed' = NumUsed + p
        BY <3>1
      <3>. QED  BY <3>1, <3>2, <1>1 DEF Ledger!Admit, cl, spare
    <2>. QED  BY <2>2, <2>3
  <1>6. ASSUME NEW r \in Requests, NEW n \in 1 .. MaxReserve, Reserve(r, n)
        PROVE  Ledger!Draw(r)
    <2> DEFINE drawn == cl[r] - cl'[r]
               extra == NumUsed' - NumUsed - drawn
    <2>1. /\ drawn \in Nat /\ NumUsed' - NumUsed >= drawn /\ extra <= spare
          /\ cl' = [cl EXCEPT ![r] = cl'[r]]
      BY <1>1, <1>2, <1>3, <1>6, ReserveKeeps
    <2>2. /\ drawn \in 0 .. cl[r] /\ extra \in 0 .. spare
          /\ cl'[r] = cl[r] - drawn /\ NumUsed' = NumUsed + drawn + extra
      BY <2>1, <1>1, <1>2
    <2>3. cl' = [cl EXCEPT ![r] = @ - drawn]
      BY <2>1, <2>2, <1>1, <1>2
    <2> HIDE DEF drawn, extra, spare
    <2>4. \E d \in 0 .. cl[r] : /\ cl' = [cl EXCEPT ![r] = @ - d]
                                /\ \E e \in 0 .. spare : NumUsed' = NumUsed + d + e
      BY <2>2, <2>3
    <2>. QED  BY <2>4, <1>1 DEF Ledger!Draw, cl, spare
  <1>7. ASSUME NEW r \in Requests, NEW n \in 0 .. MaxReserve, Commit(r, n)
        PROVE  Ledger!HandBack(r)
    <2>1. /\ cl'[r] - cl[r] \in Nat /\ NumUsed - NumUsed' >= cl'[r] - cl[r]
          /\ cl' = [cl EXCEPT ![r] = cl'[r]]
      BY <1>1, <1>2, <1>3, <1>7, CommitKeeps
    <2>2. /\ cl[r] \in Nat /\ cl'[r] \in Nat /\ NumUsed \in Nat /\ NumUsed' \in Nat
      BY <1>1, <1>2
    <2>3. PICK back \in 0 .. NumUsed :
            /\ NumUsed' = NumUsed - back
            /\ \E again \in 0 .. back : cl'[r] = cl[r] + again
      BY <2>1, <2>2, Return
    <2>4. PICK again \in 0 .. back : cl'[r] = cl[r] + again
      BY <2>3
    <2>5. cl' = [cl EXCEPT ![r] = @ + again]
      BY <2>1, <2>4, <1>1
    <2>6. \E b \in 0 .. NumUsed :
            /\ NumUsed' = NumUsed - b
            /\ \E g \in 0 .. b : cl' = [cl EXCEPT ![r] = @ + g]
      BY <2>3, <2>4, <2>5
    <2>. QED  BY <2>6 DEF Ledger!HandBack, cl
  <1>8. ASSUME NEW r \in Requests, Free(r)
        PROVE  Ledger!Leave(r)
    <2>1. cl'[r] = 0 /\ NumUsed' <= NumUsed /\ cl' = [cl EXCEPT ![r] = cl'[r]]
      BY <1>1, <1>2, <1>3, <1>8, FreeKeeps
    <2>2. NumUsed' \in 0 .. NumUsed /\ cl' = [cl EXCEPT ![r] = 0]
      BY <2>1, <1>1, <1>2
    <2>. QED  BY <2>2 DEF Ledger!Leave, cl
  <1>9. ASSUME Reload \/ UNCHANGED vars
        PROVE  UNCHANGED Ledger!vars
    <2>1. UNCHANGED <<free, evictable, alloc>>
      BY <1>9 DEF Reload, vars, pool
    <2>. QED  BY <2>1 DEF Ledger!vars, NumUsed
  <1>. QED  BY <1>4, <1>5, <1>6, <1>7, <1>8, <1>9 DEF Next, Ledger!Next

(* The manager implements the ledger: what it counts as in use and as      *)
(* claimed moves as the ledger allows, whatever happens to the blocks.     *)
THEOREM ManagerImplementsLedger == Spec => ImplementsLedger
  <1>1. Init => Ledger!Init
    <2> SUFFICES ASSUME Init PROVE Ledger!Init
      OBVIOUS
    <2>1. /\ NumUsed = 0
      <3>1. TypeOK /\ PoolExact /\ ClaimsExact /\ attached = {}
        BY CacheInit DEF CacheInv, Init
      <3>. QED  BY <3>1, EmptyPool
    <2>2. \A r \in Requests : Claim(alloc[r]) = 0
      BY ClaimType DEF Init
    <2>. QED  BY <2>1, <2>2 DEF Ledger!Init
  <1>2. CacheInv /\ CacheInv' /\ [Next]_vars => [Ledger!Next]_(Ledger!vars)
    BY LedgerSteps
  <1>. QED  BY <1>1, <1>2, CacheInvariant, PTL DEF Spec, ImplementsLedger, Ledger!Spec

----------------------------------------------------------------------------
(* The ledger by itself: its own rules, with nothing known of blocks.      *)

(* The inductive invariant of the ledger: a pledge is a number, and        *)
(* nothing is promised twice.                                              *)
Balanced ==
  /\ NumUsed \in Nat
  /\ ClaimsIn(alloc) \in [Requests -> Nat]
  /\ Ledger!PromisesCovered

(* No admission, draw, return or departure promises what is not there.     *)
LEMMA LedgerKeeps ==
  ASSUME Balanced, [Ledger!Next]_(Ledger!vars)
  PROVE  Balanced'
  <1> DEFINE cl == [r \in Requests |-> Claim(alloc[r])]
             sum == Cardinality(PledgesOf(ClaimsIn(alloc), Requests))
             spare == NumBlocks - Ledger!Promised
  <1>0. cl = ClaimsIn(alloc) /\ cl' = ClaimsIn(alloc')
    BY DEF ClaimsIn
  <1>1. /\ NumUsed \in Nat /\ cl \in [Requests -> Nat] /\ sum \in Nat
        /\ Ledger!Promised = NumUsed + sum /\ NumBlocks \in Nat /\ spare \in Nat
    <2>1. NumUsed \in Nat /\ cl \in [Requests -> Nat] /\ NumBlocks \in Nat
      BY <1>0, CapacityAssumption DEF Balanced
    <2>2. \A r \in Requests : ClaimsIn(alloc)[r] \in Nat
      BY DEF Balanced
    <2>3. sum \in Nat
      BY <2>2, RequestAssumption, PledgesFinite
    <2>4. Ledger!Promised = NumUsed + sum
      BY LedgerPromise
    <2>5. Ledger!Promised <= NumBlocks
      BY DEF Balanced, Ledger!PromisesCovered
    <2>. QED  BY <2>1, <2>3, <2>4, <2>5
  <1> HIDE DEF cl, sum, spare
  <1>2. ASSUME NEW r \in Requests, NEW u \in Nat, NEW n \in Nat, NumUsed' = u,
               cl' = [cl EXCEPT ![r] = n], u + n <= NumUsed + cl[r] + spare
        PROVE  Balanced'
    <2>1. cl' \in [Requests -> Nat] /\ cl'[r] = n /\ \A q \in Requests \ {r} : cl[q] = cl'[q]
      BY <1>1, <1>2
    <2>2. PICK f, g : f = cl /\ g = cl'
      OBVIOUS
    <2>3. /\ \A q \in Requests : f[q] \in Nat /\ g[q] \in Nat
          /\ \A q \in Requests \ {r} : f[q] = g[q]
      BY <1>1, <2>1, <2>2
    <2>4. Cardinality(PledgesOf(g, Requests)) = Cardinality(PledgesOf(f, Requests)) + g[r] - f[r]
      BY <2>3, RequestAssumption, PledgesChange
    <2>5. Cardinality(PledgesOf(g, Requests)) = sum + n - cl[r]
      BY <1>0, <2>1, <2>2, <2>4 DEF sum
    <2>6. Ledger!Promised' = u + (sum + n - cl[r])
      BY <1>0, <1>2, <2>2, <2>5, LedgerPromise
    <2>7. cl[r] \in Nat /\ spare = NumBlocks - (NumUsed + sum)
      BY <1>1 DEF spare
    <2>8. u + (sum + n - cl[r]) <= NumBlocks
      BY <1>1, <1>2, <2>7
    <2>9. Ledger!PromisesCovered'
      BY <2>6, <2>8 DEF Ledger!PromisesCovered
    <2>. QED  BY <1>0, <1>2, <2>1, <2>9 DEF Balanced
  <1>3. \A r \in Requests : cl[r] \in Nat
    BY <1>1
  <1>4. ASSUME NEW r \in Requests, Ledger!Admit(r) PROVE Balanced'
    <2>1. /\ cl[r] = 0
          /\ \E c \in 0 .. spare :
               /\ cl' = [cl EXCEPT ![r] = c]
               /\ \E pinned \in 0 .. spare - c : NumUsed' = NumUsed + pinned
      BY <1>4 DEF Ledger!Admit, cl, spare
    <2>2. PICK c \in 0 .. spare :
            /\ cl' = [cl EXCEPT ![r] = c]
            /\ \E pinned \in 0 .. spare - c : NumUsed' = NumUsed + pinned
      BY <2>1
    <2>3. PICK pinned \in 0 .. spare - c : NumUsed' = NumUsed + pinned
      BY <2>2
    <2>4. /\ c \in Nat /\ NumUsed + pinned \in Nat
          /\ NumUsed + pinned + c <= NumUsed + cl[r] + spare
      BY <1>1, <2>1
    <2>. QED  BY <1>2, <2>2, <2>3, <2>4
  <1>5. ASSUME NEW r \in Requests, Ledger!Draw(r) PROVE Balanced'
    <2>1. PICK drawn \in 0 .. cl[r] :
            /\ cl' = [cl EXCEPT ![r] = @ - drawn]
            /\ \E extra \in 0 .. spare : NumUsed' = NumUsed + drawn + extra
      BY <1>5 DEF Ledger!Draw, cl, spare
    <2>2. PICK extra \in 0 .. spare : NumUsed' = NumUsed + drawn + extra
      BY <2>1
    <2>3. /\ cl[r] - drawn \in Nat /\ NumUsed + drawn + extra \in Nat
          /\ NumUsed + drawn + extra + (cl[r] - drawn) <= NumUsed + cl[r] + spare
      BY <1>1, <1>3
    <2>4. cl' = [cl EXCEPT ![r] = cl[r] - drawn]
      BY <1>1, <2>1
    <2>. QED  BY <1>2, <2>2, <2>3, <2>4
  <1>6. ASSUME NEW r \in Requests, Ledger!HandBack(r) PROVE Balanced'
    <2>1. PICK back \in 0 .. NumUsed :
            /\ NumUsed' = NumUsed - back
            /\ \E again \in 0 .. back : cl' = [cl EXCEPT ![r] = @ + again]
      BY <1>6 DEF Ledger!HandBack, cl
    <2>2. PICK again \in 0 .. back : cl' = [cl EXCEPT ![r] = @ + again]
      BY <2>1
    <2>3. /\ cl[r] + again \in Nat /\ NumUsed - back \in Nat
          /\ NumUsed - back + (cl[r] + again) <= NumUsed + cl[r] + spare
      BY <1>1, <1>3
    <2>4. cl' = [cl EXCEPT ![r] = cl[r] + again]
      BY <1>1, <2>2
    <2>. QED  BY <1>2, <2>1, <2>3, <2>4
  <1>7. ASSUME NEW r \in Requests, Ledger!Leave(r) PROVE Balanced'
    <2>1. NumUsed' \in 0 .. NumUsed /\ cl' = [cl EXCEPT ![r] = 0]
      BY <1>7 DEF Ledger!Leave, cl
    <2>2. PICK u \in 0 .. NumUsed : NumUsed' = u
      BY <2>1
    <2>3. u \in Nat /\ u + 0 <= NumUsed + cl[r] + spare
      BY <1>1, <1>3
    <2>. QED  BY <1>2, <2>1, <2>2, <2>3
  <1>8. CASE UNCHANGED Ledger!vars
    <2>1. NumUsed' = NumUsed /\ ClaimsIn(alloc') = ClaimsIn(alloc)
      BY <1>8 DEF Ledger!vars, ClaimsIn
    <2>2. Ledger!Promised' = Ledger!Promised
      BY <2>1, LedgerPromise
    <2>. QED  BY <2>1, <2>2 DEF Balanced, Ledger!PromisesCovered
  <1>. QED  BY <1>4, <1>5, <1>6, <1>7, <1>8 DEF Ledger!Next

(* What the manager has in use and what it has pledged always fits the     *)
(* pool for no other reason than the ledger's rules: the admission rule    *)
(* and the rules for drawing on a claim and for returning blocks to it are *)
(* enough, whatever else becomes of the blocks.                            *)
THEOREM LedgerCovered == Ledger!Spec => []Ledger!PromisesCovered
  <1>1. Ledger!Init => Balanced
    <2> SUFFICES ASSUME Ledger!Init PROVE Balanced
      OBVIOUS
    <2>1. NumUsed = 0 /\ ClaimsIn(alloc) = [r \in Requests |-> 0] /\ NumBlocks \in Nat
      BY CapacityAssumption DEF Ledger!Init, ClaimsIn
    <2>2. \A r \in Requests : ClaimsIn(alloc)[r] = 0
      BY <2>1
    <2>3. Cardinality(PledgesOf(ClaimsIn(alloc), Requests)) = 0
      BY <2>2, NoPledges
    <2>4. Ledger!Promised = 0
      BY <2>1, <2>3, LedgerPromise
    <2>. QED  BY <2>1, <2>4 DEF Balanced, Ledger!PromisesCovered
  <1>2. Balanced /\ [Ledger!Next]_(Ledger!vars) => Balanced'
    BY LedgerKeeps
  <1>3. Balanced => Ledger!PromisesCovered
    BY DEF Balanced
  <1>. QED  BY <1>1, <1>2, <1>3, PTL DEF Ledger!Spec

(* So the manager never promises blocks that are not there.                *)
COROLLARY ManagerPromisesCovered == Spec => []Ledger!PromisesCovered
  BY ManagerImplementsLedger, LedgerCovered, PTL DEF ImplementsLedger

=============================================================================
