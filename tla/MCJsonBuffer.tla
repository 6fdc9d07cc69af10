---------------------------- MODULE MCJsonBuffer ----------------------------
(***************************************************************************)
(* Pieces of one, two and four characters, told apart, into buffers of up  *)
(* to five bytes: a document of six characters fits in none of them.       *)
(***************************************************************************)
EXTENDS JsonBuffer

MCPieces == {<<"a">>, <<"b", "c">>, <<"d", "e", "f", "g">>, <<>>}
=============================================================================
