---------------------------- MODULE MCModelWorker ----------------------------
(***************************************************************************)
(* Two requests with one prompt whose suffix <<0>> occurred twice before,  *)
(* with different continuations; two models that disagree about every      *)
(* text; pages whose numbers are not in the order of a request's positions.*)
(***************************************************************************)
EXTENDS ModelWorker, TLC

CONSTANTS r1, r2

MCRequests == {r1, r2}
MCPrompts == {<<0, 0, 1, 0>>}
MCEos == {2}
MCAssemblies == { <<"dense", "standard">>, <<"dense", "any">>, <<"torch", "trie">>,
                  <<"triton", "chain">>, <<"triton", "any">> }
MCBlocks == (r1 :> <<3, 0, 2, 6>>) @@ (r2 :> <<5, 4, 1, 7>>)

\* 0 1 0 0, and 1 0 up to the eos 2.
MCWeights(g, text) ==
  CASE g = 1 -> IF Len(text) = 5 THEN 1 ELSE 0
    [] g = 2 -> IF Len(text) = 4 THEN 1 ELSE IF Len(text) = 5 THEN 0 ELSE 2

\* Trees no proposer of the code makes: the accepted path is 1 and 3, or 2 and
\* 3, or goes on past the eos.
MCOtherDrafts ==
  { [tokens |-> <<0, 1, 1>>, parents |-> <<0, 0, 1>>],
    [tokens |-> <<1, 0, 1>>, parents |-> <<0, 0, 2>>],
    [tokens |-> <<1, 0, 2>>, parents |-> <<0, 1, 2>>],
    [tokens |-> <<2, 0>>, parents |-> <<0, 0>>],
    NoDraft }
=============================================================================
