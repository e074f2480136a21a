---------------------------- MODULE MCTensorParallel -------------------------
(* Two workers, two requests: a batch may hold one of them or both. *)
EXTENDS TensorParallel
=============================================================================
