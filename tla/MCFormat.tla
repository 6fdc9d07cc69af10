------------------------------ MODULE MCFormat ------------------------------
(***************************************************************************)
(* A small instance for Format.                                            *)
(*                                                                         *)
(*   enum Color { R, G display("red") = 3 }          checked               *)
(*   enum Flag { F, E = F, H = 2 }                   unchecked             *)
(*   struct Word { char s[2] format("<%s"); }                              *)
(*   struct Root { Color c; Flag g; int8_t n; readonly uint8_t id;         *)
(*                 writeonly char p; bool b; char name[7]; Word w; }       *)
(*                                                                         *)
(* A Root is at 2 (cells 2..16), its Word at 15, another Word at 18.       *)
(***************************************************************************)
EXTENDS Format, TLC

Field(name, type, offset, size, flags) ==
    [name |-> name, type |-> type, offset |-> offset, size |-> size,
     count |-> IF type = "char_arr" THEN size ELSE 1, flags |-> flags, length |-> ""]
RW == {"READ", "WRITE"}

MCStructTypes == {"Root", "Word"}
MCFields ==
    [Word |-> <<Field("s", "char_arr", 0, 2, RW)>>,
     Root |-> <<Field("c", "Color", 0, 1, RW), Field("g", "Flag", 1, 1, RW),
                Field("n", "int8_t", 2, 1, RW), Field("id", "uint8_t", 3, 1, {"READ"}),
                Field("p", "char", 4, 1, {"WRITE"}), Field("b", "bool", 5, 1, RW),
                Field("name", "char_arr", 6, 7, RW), Field("w", "Word", 13, 2, RW)>>]
MCStructOf == [T \in MCStructTypes |-> T]
MCSizeOf == [T \in {"int8_t", "uint8_t", "char", "bool", "Color", "Flag"} |-> 1]
            @@ "Word" :> 2
MCObjects == {<<2, "Root">>, <<15, "Word">>, <<18, "Word">>}
MCBlockSize == [b \in {} |-> 1]
MCTop == 20
MCElemType == "char_arr" :> "char"
\* g and b hold 200, n holds -1, the second Word "G"
MCBoot == [a \in 1 .. MCTop |->
              CASE a = 2 -> 1 [] a \in {3, 7} -> 200 [] a = 4 -> 255 [] a = 18 -> 71
               [] OTHER -> 0]
MCMembers == [Color |-> {1, 3}]

MCNoText == <<0>>
Member(name, value, display) == [name |-> name, value |-> value, display |-> display]
R == <<82>>
G == <<71>>
MCEnums ==
    [Color |-> <<Member(R, 1, MCNoText), Member(G, 3, <<114, 101, 100>>)>>,
     Flag |-> <<Member(<<70>>, 1, MCNoText), Member(<<69>>, 1, MCNoText),
                Member(<<72>>, 2, MCNoText)>>]
MCFormatOf == MCFields["Word"][1] :> <<60>>

MCTexts ==
    {<<>>, <<55>>, <<45, 49>>, <<51, 48, 48>>, <<49, 50, 10, 51>>, <<49, 120>>,
     <<49>>, <<116, 114, 117, 101>>, R, G, <<69>>,
     <<97, 98, 99, 100, 101, 102>>, <<97, 98, 99, 100, 101, 102, 103>>, <<97, 98>>}
MCCalls ==
    {<<>>, G, <<97, 98, 99, 100, 101, 102>>, <<97, 98, 99, 100, 101, 102, 103>>}

\* The hypotheses of the theorems about strings
ASSUME StringsLieSo == StringLayout /\ Ended(Boot)
ASSUME TextsLieSo == TextLayout /\ BytesIn(Boot) /\ TextsFit /\ TextsPlain
=============================================================================
