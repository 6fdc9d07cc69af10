------------------------------- MODULE ToJson -------------------------------
(***************************************************************************)
(* to_json of plugins/json.py as a whole: the traversal of JsonWalk writes *)
(* into the buffer of JsonBuffer, each token as the pieces the code passes *)
(* to the write callback.  Punctuation, keys and values are formatted by   *)
(* json_write_internal, strings go out a character at a time.              *)
(***************************************************************************)
EXTENDS JsonWalk, JsonBuffer

CONSTANTS
    Quoted,     \* json_needs_quote
    Escapes,    \* the characters json_write_string_escaped escapes
    Shown       \* cell -> its text: the digits of a number, a character

\* Whatever is found in memory has a text.
ASSUME ShownAssumption ==
    /\ \A c \in DOMAIN Shown : Shown[c] \in STRING
    /\ \A m \in Boots, a \in Addr : m[a] \in DOMAIN Shown

\* The words and marks the code has in its formats; they are strings.
Literals == {"'", "':", "'<unsupported:", ">'", "['", "']", "\\", "n", "u", "l",
             "serialized", "{", "}", "[", "]", ",", "null"}

ASSUME LiteralsAssumption == Literals \subseteq STRING

VARIABLES
    pending,    \* the tokens of the traversal's last step still to be written
    chr         \* p in json_write_string_escaped, NULL outside its loop

jsonVars == <<vars, bufVars, pending, chr>>

Escaped(c) == IF c \in Escapes THEN <<"\\", Shown[c]>> ELSE <<Shown[c]>>

\* The value of a member that is no string and no struct: its digits
ValueText(ptr, type) ==
    IF type \in Quoted THEN <<"'", Shown[mem[ptr]], "'">> ELSE <<Shown[mem[ptr]]>>

\* What json_write_internal makes of a token that is no string
TextOf(token) ==
    CASE token[1] = "key" -> <<"'", token[2], "':">>
      [] token[1] = "value" -> ValueText(token[2], token[3])
      [] token[1] = "name" -> IF token[3] \/ token[2] \in Quoted
                              THEN <<"'", token[2], "'">> ELSE <<token[2]>>
      [] token[1] = "unsupported" -> <<"'<unsupported:", token[2], ">'">>
      [] token[1] = "schema" -> <<"['", token[2], "']">>
      [] OTHER -> <<token[1]>>

-----------------------------------------------------------------------------
JsonInit == Init /\ BufferInit /\ pending = <<>> /\ chr = NULL

to_json(buflen) ==
    /\ asked = <<>>
    /\ Begin(buflen) \/ Refuse(buflen)
    /\ UNCHANGED <<vars, pending, chr>>

\* A step of to_json_stream, up to what it writes
Traverse ==
    /\ phase = "open"
    /\ pending = <<>>
    /\ Next
    /\ pending' = SubSeq(out', Len(out) + 1, Len(out'))
    /\ UNCHANGED <<bufVars, chr>>

\* The calls of the callback: one for a token that is no string
token == Head(pending)

WriteToken ==
    /\ pending # <<>> /\ token[1] # "string"
    /\ ctx' = IF token[1] = "custom" THEN WriteRaw(ctx, <<"serialized">>)
              ELSE WriteFormatted(ctx, TextOf(token))
    /\ pending' = Tail(pending)
    /\ UNCHANGED <<vars, phase, answer, chr>>

\* json_write_string_escaped: a quote, the characters up to the NUL, a quote
WritingString == pending # <<>> /\ token[1] = "string"

WriteNull ==
    /\ WritingString /\ token[2] = NULL
    /\ ctx' = WriteRaw(ctx, <<"n", "u", "l", "l">>)
    /\ pending' = Tail(pending)
    /\ UNCHANGED <<vars, phase, answer, chr>>

OpenString ==
    /\ WritingString /\ token[2] # NULL /\ chr = NULL
    /\ ctx' = WriteRaw(ctx, <<"'">>)
    /\ chr' = token[2]
    /\ UNCHANGED <<vars, phase, answer, pending>>

\* The text ends somewhere in memory.
WriteChar ==
    /\ chr # NULL /\ chr \in Addr /\ mem[chr] # 0
    /\ ctx' = WriteRaw(ctx, Escaped(mem[chr]))
    /\ chr' = chr + 1
    /\ UNCHANGED <<vars, phase, answer, pending>>

CloseString ==
    /\ chr # NULL /\ chr \in Addr /\ mem[chr] = 0
    /\ ctx' = WriteRaw(ctx, <<"'">>)
    /\ chr' = NULL
    /\ pending' = Tail(pending)
    /\ UNCHANGED <<vars, phase, answer>>

CallBack == WriteToken \/ WriteNull \/ OpenString \/ WriteChar \/ CloseString

Return == pending = <<>> /\ done /\ End /\ UNCHANGED <<vars, pending, chr>>

JsonNext == (\E buflen \in Sizes : to_json(buflen)) \/ Traverse \/ CallBack \/ Return

\* Once called, to_json runs without waiting for anyone.
JsonSpec ==
    JsonInit /\ [][JsonNext]_jsonVars /\ WF_jsonVars(Traverse \/ CallBack \/ Return)

-----------------------------------------------------------------------------
(* Properties                                                              *)

\* Both parts have their types, and nothing is written outside a call.
JsonTypeOK ==
    /\ TypeOK
    /\ BufferTypeOK
    /\ asked = <<>> => ctx.stream = <<>>

\* A call returns, when the data has no cycle.
Finishes == phase = "open" ~> phase = "idle"
=============================================================================
