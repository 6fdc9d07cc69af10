--------------------------- MODULE MCFieldAccess ---------------------------
(***************************************************************************)
(* A small instance for FieldAccess.                                       *)
(*                                                                         *)
(*   enum Mode { 1, 3 }                          checked                   *)
(*   struct Inner { Mode mode; readonly int id; }                          *)
(*   struct Root  { int len; int *data @length(len); Inner in;             *)
(*                  writeonly char name[2]; }                              *)
(*                                                                         *)
(* A Root is at 2 (cells 2..7), a free-standing Inner at 9, a block of     *)
(* two ints at 12; the cells between them stand for the neighbours an      *)
(* overrun would hit.                                                      *)
(***************************************************************************)
EXTENDS FieldAccess, FiniteSets, TLC

F(name, type, offset, size, count, flags, length) ==
    [name |-> name, type |-> type, offset |-> offset, size |-> size,
     count |-> count, flags |-> flags, length |-> length]

RW == {"READ", "WRITE"}

MCStructTypes == {"Inner", "Root"}
MCFields ==
    [Inner |-> << F("mode", "Mode", 0, 1, 1, RW, ""),
                  F("id", "int", 1, 1, 1, {"READ"}, "") >>,
     Root |->  << F("len", "int", 0, 1, 1, RW, ""),
                  F("data", "int*", 1, 1, 1, RW, "len"),
                  F("in", "Inner", 2, 2, 1, RW, ""),
                  F("name", "char_arr", 4, 2, 2, {"WRITE"}, "") >>]
MCStructOf == [Inner |-> "Inner", Root |-> "Root"]
MCSizeOf == [T \in {"int", "char", "int*", "Mode", "Inner"} |->
                IF T = "Inner" THEN 2 ELSE 1]
MCObjects == {<<2, "Root">>, <<4, "Inner">>, <<9, "Inner">>}
MCBlockSize == (12 :> 2)
MCTop == 15
MCMembers == [Mode |-> {1, 3}]
MCElemType == ("char_arr" :> "char") @@ ("int*" :> "int")
\* data -> 12, the free Inner is {3, 4}; name and the block hold what the
\* callers write (no property depends on it); everything else 1
MCBoot == [a \in 1 .. MCTop |->
              CASE a = 3 -> 12 [] a = 9 -> 3 [] a = 10 -> 4
                [] a \in {6, 7, 12, 13} -> 2 [] OTHER -> 1]

\* The hypothesis of the theorem about checked enums
ASSUME EnumsLieSo == EnumLayout
=============================================================================
