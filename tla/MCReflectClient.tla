-------------------------- MODULE MCReflectClient --------------------------
(***************************************************************************)
(* A small instance for ReflectClient.                                     *)
(*                                                                         *)
(*   struct Inner { int v[2]; }                                            *)
(*   struct Root  { Inner in[2]; readonly int id; }                        *)
(*                                                                         *)
(* A Root at 2, cells 2..6, between two cells of something else.           *)
(***************************************************************************)
EXTENDS ReflectClient, FiniteSets, TLC

F(name, type, offset, size, count, flags) ==
    [name |-> name, type |-> type, offset |-> offset, size |-> size,
     count |-> count, flags |-> flags, length |-> ""]

RW == {"READ", "WRITE"}

MCStructTypes == {"Inner", "Root"}
MCFields ==
    [Inner |-> << F("v", "int_arr", 0, 2, 2, RW) >>,
     Root  |-> << F("in", "Inner_arr", 0, 4, 2, RW),
                  F("id", "int", 4, 1, 1, {"READ"}) >>]
MCStructOf == [Inner |-> "Inner", Inner_arr |-> "Inner", Root |-> "Root"]
MCSizeOf == [int |-> 1, Inner |-> 2]
MCElemType == [int_arr |-> "int", Inner_arr |-> "Inner"]
MCObjects == {<<2, "Root">>, <<2, "Inner">>, <<4, "Inner">>}
MCBlockSize == [b \in {} |-> 1]
MCTop == 7
MCMembers == [T \in {} |-> {}]
MCBoot == [a \in 1 .. MCTop |-> 1]
MCNameLen == [in |-> 2, id |-> 2, v |-> 1, zz |-> 2] @@ ("?" :> 0)
MCRoots == {<<2, "Root">>}

Name(s) == [name |-> s, bracket |-> FALSE, index |-> -1]
At(s, i) == [name |-> s, bracket |-> TRUE, index |-> i]

MCPaths == {<<Name("id")>>, <<Name("in")>>, <<At("in", 1)>>, <<At("in", 2)>>,
            <<Name("zz")>>, <<Name("in"), Name("v")>>, <<At("in", 1), Name("v")>>,
            <<At("in", 1), At("v", 1)>>, <<At("in", 2), Name("v")>>,
            <<At("in", 1), At("v", 2)>>, <<Name("id"), Name("v")>>}

\* The hypothesis of the theorems about the two together
ASSUME PathsAreShort == PathsFit
=============================================================================
