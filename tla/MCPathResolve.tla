--------------------------- MODULE MCPathResolve ---------------------------
(***************************************************************************)
(* A small instance for PathResolve.                                       *)
(*                                                                         *)
(*   struct Leafy { int v[2]; }                                            *)
(*   struct Inner { Leafy sub; int id; }                                   *)
(*   struct Root  { Inner in[2]; Inner *link; int n; }                     *)
(*                                                                         *)
(* A Root at 2 holds Inners at 2 and 5, and Leafys at 2 and 5: an instance *)
(* and its first member share an address, as in C.                         *)
(***************************************************************************)
EXTENDS PathResolve, FiniteSets, TLC

F(name, type, offset, size, count) ==
    [name |-> name, type |-> type, offset |-> offset, size |-> size,
     count |-> count, flags |-> {"READ", "WRITE"}, length |-> ""]

MCStructTypes == {"Leafy", "Inner", "Root"}
MCFields ==
    [Leafy |-> << F("v", "int_arr", 0, 2, 2) >>,
     Inner |-> << F("sub", "Leafy", 0, 2, 1), F("id", "int", 2, 1, 1) >>,
     Root  |-> << F("in", "Inner_arr", 0, 6, 2), F("link", "Inner*", 6, 1, 1),
                  F("n", "int", 7, 1, 1) >>]
MCStructOf == [Leafy |-> "Leafy", Inner |-> "Inner", Inner_arr |-> "Inner",
               Root |-> "Root"]
MCSizeOf == [T \in {"int"} |-> 1]
MCObjects == {<<2, "Root">>, <<2, "Inner">>, <<5, "Inner">>,
              <<2, "Leafy">>, <<5, "Leafy">>}
MCBlockSize == [b \in {} |-> 1]
MCTop == 10
MCNameLen == [in |-> 2, link |-> 4, sub |-> 3, id |-> 2, v |-> 1, n |-> 1,
              zz |-> 2] @@ ("?" :> 0)
MCRoots == {<<2, "Root">>, <<5, "Inner">>}

Name(s) == [name |-> s, bracket |-> FALSE, index |-> -1]
At(s, i) == [name |-> s, bracket |-> TRUE, index |-> i]

First == {Name("in"), At("in", 1), At("in", 2), At("in", -2), Name("link"),
          Name("n"), Name("zz")}
Second == {Name("sub"), At("sub", 0), At("sub", 1), Name("id"), Name("zz")}
Third == {Name("v"), At("v", 1), At("v", 2), At("v", -2)}

\* Longer than 15 characters: cut inside a name, behind it, at a dot
MCLongPaths == {<<At("in", 1), At("sub", 0), Name("link")>>,
                <<At("in", -2), At("sub", 0), At("v", 2)>>,
                <<At("in", 1), At("sub", -2), Name("v")>>,
                <<At("in", 1), At("sub", -2), At("v", 1), Name("n")>>}

\* From a Root, and from an Inner on
MCPaths == {<<a>> : a \in First}
           \cup {<<a, b>> : a \in First, b \in Second}
           \cup {<<At("in", 1), b, c>> : b \in Second, c \in Third}
           \cup {<<Name("sub"), c>> : c \in Third}
           \cup MCLongPaths
=============================================================================
