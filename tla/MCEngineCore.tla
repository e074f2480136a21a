---------------------------- MODULE MCEngineCore ----------------------------
(***************************************************************************)
(* Two requests, so that one joins, leaves or fails while the other's step *)
(* is in flight: two-token prompts that may be computed in chunks, two new *)
(* tokens, and every fault the engine handles.                             *)
(***************************************************************************)
EXTENDS EngineCore, TLC

CONSTANTS r1, r2

MCSymmetry == Permutations(Requests)
=============================================================================
