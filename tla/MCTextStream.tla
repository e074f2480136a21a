----------------------------- MODULE MCTextStream -----------------------------
(***************************************************************************)
(* Pieces that end in the middle of a character or hold more than one, and *)
(* stop sequences that go across pieces, overlap, and differ in length.    *)
(***************************************************************************)
EXTENDS TextStream, TLC

MCPieces == ("a" :> <<"a">>) @@ ("b" :> <<" ", "b">>) @@ ("h" :> <<"H">>)
              @@ ("l" :> <<"L", "a">>) @@ ("e" :> << >>)
MCStops == { {}, { <<"a", " ", "b">>, <<"c">> }, { <<"b", "a">> } }
=============================================================================
