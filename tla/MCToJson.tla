------------------------------ MODULE MCToJson ------------------------------
(***************************************************************************)
(* A small instance for ToJson.                                            *)
(*                                                                         *)
(*   struct Node { int n; Node *kids @length(n); writeonly int key; }      *)
(*   struct Leaf { writeonly int a; char s[2]; }                           *)
(*   struct Root { Leaf in[2]; int len; readonly Node *tree @length(len);  *)
(*                 writeonly int *w @length(len); Leaf one[1]; int m[2];   *)
(*                 Mode mode; char *text; void *p; Kind kind; }            *)
(*                                                                         *)
(* A Root at 1 (cells 1..18); arrays of Nodes at 19 (one) and 22 (two), of *)
(* ints at 28 (two); a Node at 30; a text at 33.  Kind has a custom        *)
(* serializer, the members n and text have keys of their own.              *)
(***************************************************************************)
EXTENDS JsonDocument, TLC

F(name, type, offset, size, count, flags, length) ==
    [name |-> name, type |-> type, offset |-> offset, size |-> size,
     count |-> count, flags |-> flags, length |-> length]

RW == {"READ", "WRITE"}
n_member == F("n", "int", 0, 1, 1, RW, "")
text_member == F("text", "char*", 15, 1, 1, RW, "")

MCStructTypes == {"Node", "Leaf", "Root"}
MCFields ==
    [Node |-> << n_member, F("kids", "Node*", 1, 1, 1, RW, "n"),
                 F("key", "int", 2, 1, 1, {"WRITE"}, "") >>,
     Leaf |-> << F("a", "int", 0, 1, 1, {"WRITE"}, ""),
                 F("s", "char_arr", 1, 2, 2, RW, "") >>,
     Root |-> << F("in", "Leaf_arr", 0, 6, 2, RW, ""), F("len", "int", 6, 1, 1, RW, ""),
                 F("tree", "Node*", 7, 1, 1, {"READ"}, "len"),
                 F("w", "int*", 8, 1, 1, {"WRITE"}, "len"),
                 F("one", "Leaf_arr", 9, 3, 1, RW, ""),
                 F("m", "int_arr", 12, 2, 2, RW, ""), F("mode", "Mode", 14, 1, 1, RW, ""),
                 text_member, F("p", "void*", 16, 1, 1, RW, ""),
                 F("kind", "Kind", 17, 1, 1, RW, "") >>]
MCStructOf == [Node |-> "Node", Leaf |-> "Leaf", Leaf_arr |-> "Leaf", Root |-> "Root"]
MCSizeOf == [int |-> 1, char |-> 1, Node |-> 3, Leaf |-> 3, Root |-> 18, Mode |-> 1,
             Kind |-> 1]
            @@ ("int*" :> 1) @@ ("Node*" :> 1) @@ ("char*" :> 1) @@ ("void*" :> 1)
MCElemType == [Leaf_arr |-> "Leaf", int_arr |-> "int", char_arr |-> "char"]
              @@ ("Node*" :> "Node") @@ ("int*" :> "int")
MCObjects == {<<1, "Root">>, <<1, "Leaf">>, <<4, "Leaf">>, <<10, "Leaf">>,
              <<19, "Node">>, <<22, "Node">>, <<25, "Node">>, <<30, "Node">>}
MCBlockSize == [b \in {} |-> 1]
MCTop == 34
MCKeyName == n_member :> "count" @@ text_member :> "words"

\* len, tree and w of the Root; n and kids of the Nodes at 22, 25 and 30;
\* the text.  The Node at 19 has no kids.  9 is a quote.
Boot(len, tree, w, n, kids, n2, text) ==
    [a \in 1 .. MCTop |->
        CASE a = 2 -> 9 [] a \in {3, 6, 11, 34} -> 0
          [] a = 7 -> len [] a = 8 -> tree [] a = 9 -> w [] a = 16 -> text
          [] a = 19 -> 0 [] a = 20 -> 0
          [] a = 22 -> n [] a = 23 -> kids [] a = 25 -> n2 [] a = 26 -> NULL
          [] a = 30 -> n + n2 [] a = 31 -> IF n + n2 = 2 THEN 22 ELSE kids
          [] OTHER -> 7]

\* Lengths are honest, a NULL array has at most one element, and the data
\* has no cycle: a Node's kids are the Node at 19.
MCBoots ==
    {m \in {Boot(len, tree, w, n, kids, n2, IF w = NULL THEN NULL ELSE 33) :
               len \in 0 .. 2, tree \in {NULL, 19, 22}, w \in {NULL, 28},
               n \in {1}, kids \in {NULL, 19}, n2 \in 0 .. 1} :
        InOrder(m)}
MCShown == [c \in 0 .. MCTop |-> ToString(c)]
MCRequests == {<<1, "Root">>, <<NULL, "Root">>, <<30, "Node">>, <<1, "Leaf_arr">>,
               <<15, "Mode">>, <<7, "int">>, <<16, "char*">>, <<11, "char_arr">>,
               <<NULL, "Kind">>}

\* How deep things are nested: a Root is made of the Node at 19 or those at
\* 22, whose kids, as those of the Node at 30, lie further in.
MCDepth ==
    [inst \in Instances |->
        CASE inst[2] = "Leaf" -> 0
          [] inst[2] = "Root" -> 4
          [] OTHER -> IF inst[1] = 30 THEN 3 ELSE IF inst[1] \in {22, 25} THEN 2 ELSE 1]

\* What the theorems about the document and its text suppose
ASSUME DataIsNested == \A m \in MCBoots : Nested(m, MCDepth)

ASSUME PiecesFit
=============================================================================
