------------------------------ MODULE KVLedger ------------------------------
(***************************************************************************)
(* What the logical KV manager promises about capacity, without blocks,    *)
(* tables or a prefix index: how much of the pool is in use, and how much  *)
(* of the rest is pledged to whom.  PagedKVCache implements it.            *)
(***************************************************************************)
EXTENDS Integers, FiniteSets

CONSTANTS
  Requests,
  Capacity   \* blocks in the pool

VARIABLES
  used,   \* blocks some request references
  claim   \* claim[r]: blocks pledged to r that it does not hold yet

vars == <<used, claim>>

(* One element per pledged block.                                          *)
Pledged(S) == UNION { {r} \X (1 .. claim[r]) : r \in S }

Promised == used + Cardinality(Pledged(Requests))

Init ==
  /\ used = 0
  /\ claim = [r \in Requests |-> 0]

(* A request enters with a pledge of c blocks and with `pinned` blocks     *)
(* taken out of the reusable ones, if both fit.                            *)
Admit(r) ==
  LET spare == Capacity - Promised
  IN  /\ claim[r] = 0
      /\ \E c \in 0 .. spare :
           /\ claim' = [claim EXCEPT ![r] = c]
           /\ \E pinned \in 0 .. spare - c : used' = used + pinned

(* It draws on its pledge, and takes blocks nobody was promised.           *)
Draw(r) ==
  \E drawn \in 0 .. claim[r] :
    /\ claim' = [claim EXCEPT ![r] = @ - drawn]
    /\ \E extra \in 0 .. Capacity - Promised : used' = used + drawn + extra

(* It hands blocks back, and is promised at most as many again.            *)
HandBack(r) ==
  \E back \in 0 .. used :
    /\ used' = used - back
    /\ \E again \in 0 .. back : claim' = [claim EXCEPT ![r] = @ + again]

(* It leaves: its pledge is void and its share of the pool free, unless    *)
(* another request uses the same blocks.                                   *)
Leave(r) ==
  /\ used' \in 0 .. used
  /\ claim' = [claim EXCEPT ![r] = 0]

Next == \E r \in Requests : Admit(r) \/ Draw(r) \/ HandBack(r) \/ Leave(r)

Spec == Init /\ [][Next]_vars

(* Nothing is promised twice: what is in use and what is pledged fits.     *)
PromisesCovered == Promised <= Capacity

=============================================================================
