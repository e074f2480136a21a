-------------------------- MODULE MCPagedKVCache --------------------------
(***************************************************************************)
(* Two requests with the same prompt of two full pages and a bit, which    *)
(* share pages, and a short private one, in a pool that is too small for   *)
(* all of them; claims for every token, and two optimistic ones beside the *)
(* watermarks of requests and of admission.                                *)
(***************************************************************************)
EXTENDS PagedKVCache, TLC

CONSTANTS r1, r2, r3
MCRequests == {r1, r2, r3}
MCPromptLen == (r1 :> 5) @@ (r2 :> 5) @@ (r3 :> 2)
MCPromptKeys == (r1 :> <<"a", "ab">>) @@ (r2 :> <<"a", "ab">>) @@ (r3 :> << >>)
MCMaxCommitted == (r1 :> 6) @@ (r2 :> 6) @@ (r3 :> 3)
MCSymmetry == Permutations({r1, r2})
MCAdmissions ==
  { [guarantee |-> TRUE, extra |-> 0, minFree |-> 0, admissionMinFree |-> 0],
    [guarantee |-> FALSE, extra |-> 0, minFree |-> 1, admissionMinFree |-> 0],
    [guarantee |-> FALSE, extra |-> 1, minFree |-> 0, admissionMinFree |-> 1] }
=============================================================================
