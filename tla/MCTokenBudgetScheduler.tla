----------------------- MODULE MCTokenBudgetScheduler -----------------------
(***************************************************************************)
(* A short request (one prompt token), a regular one that may find a block *)
(* of its prompt in the index, and a long one that needs the whole pool:   *)
(* optimistic claims overbook it, so that requests are rolled back.        *)
(* The policies are every combination of none or a one-sequence short lane *)
(* with strict or optimistic claims.                                       *)
(***************************************************************************)
EXTENDS TokenBudgetScheduler, TLC

CONSTANTS brief, regular, long

MCRequests == {brief, regular, long}
MCPromptLen == (brief :> 1) @@ (regular :> 3) @@ (long :> 3)
MCMaxTokens == (brief :> 3) @@ (regular :> 5) @@ (long :> 12)
MCIdlePrefix == (brief :> 0) @@ (regular :> 1) @@ (long :> 0)

NoShort ==
  [on |-> FALSE, effective |-> 0, total |-> 0, tokens |-> 0, kvTokens |-> 0,
   sequences |-> 0, aging |-> 0]
OneShort ==
  [on |-> TRUE, effective |-> 1, total |-> 3, tokens |-> 1, kvTokens |-> 2,
   sequences |-> 1, aging |-> 2]
Strict ==
  [on |-> FALSE, max |-> 0, rolledBack |-> 0, extra |-> 0, watermark |-> 100]
Optimistic ==
  [on |-> TRUE, max |-> 2, rolledBack |-> 12, extra |-> 1, watermark |-> 90]

MCPolicies ==
  { [short |-> p, resubmit |-> q] : p \in {NoShort, OneShort},
                                    q \in {Strict, Optimistic} }

(* One request for a pool it nearly fills, claimed optimistically.         *)
MCBigPromptLen == (long :> 6)
MCBigMaxTokens == (long :> 8)
MCBigIdlePrefix == (long :> 0)
MCOptimistic == { [short |-> NoShort, resubmit |-> Optimistic] }
=============================================================================
