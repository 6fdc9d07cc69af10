------------------------------ MODULE JsonWalk ------------------------------
(***************************************************************************)
(* The traversal of plugins/json.py: json_serialize_value and, through     *)
(* visit_struct_fields, _json_traversal_iterator, which call each other.   *)
(* The C stack is the variable stack: a frame for each struct and each     *)
(* array being written, with the local state the copy of _cmy_json_state   *)
(* and the loops keep.                                                     *)
(*                                                                         *)
(* The output is a sequence of tokens; module ToJson says what text they   *)
(* become.  Indentation and tag-given formats of strings are left out.     *)
(***************************************************************************)
EXTENDS Registry

CONSTANTS
    ElemType,       \* get_base_type: T_arr and T* -> T
    StringTypes,    \* json_is_string_type
    InlineStrings,  \* json_is_string_array
    Unprintable,    \* types get_field_as_str has no case for
    CustomTypes,    \* types with a json_serialize_function
    KeyName,        \* member -> its json_key_name, where it has one
    Requests,       \* the calls of to_json_stream: <<instance, type>>
    Boots           \* the memories they may find

VARIABLES
    mem,        \* nobody writes it meanwhile
    asked,      \* the request
    stack,      \* innermost frame first
    out,        \* the tokens written
    res, rd     \* as in FieldAccess, of the last step

vars == <<mem, asked, stack, out, res, rd>>

\* The runtime functions the traversal calls
Access == INSTANCE FieldAccess WITH
    Members <- [T \in {} |-> {}], Boot <- [a \in Addr |-> 0], Values <- {},
    MaxCopy <- Top, NoSrc <- NoField, CarefulReaders <- TRUE, wr <- {}

\* The structs that dynamic arrays lead to are among Objects here.  Memory is
\* in order: a NULL array has at most one element (README.md says why), any
\* other has as many as its length says.
InOrder(m) ==
    \A v \in Access!Dynamic :
        LET n == Access!LiveCount(m, v)
            start == Access!Pointer(m, v)
            base == ElemType[v[2].type]
        IN  IF start = NULL THEN n <= 1
            ELSE /\ Access!LiveCells(m, v) \subseteq Addr
                 /\ HasMetadata(base) =>
                    \A i \in 0 .. n - 1 :
                        <<start + i * SizeOf[base], StructOf[base]>> \in Objects

\* Sizes and element types as C and the generator have them: a member is as
\* large as its type, a pointer is no struct, an array of structs is made of
\* such structs, and no array is made of char arrays; a dynamic array has its
\* length.
ASSUME TypesAssumption ==
    /\ SizeOf \in [DOMAIN SizeOf -> Nat \ {0}] /\ DOMAIN SizeOf \subseteq STRING
    /\ ElemType \in [DOMAIN ElemType -> DOMAIN SizeOf]
    /\ \A T \in DOMAIN ElemType : ElemType[T] \notin InlineStrings
    /\ KeyName \in [DOMAIN KeyName -> STRING]
    /\ \A f \in AllFields :
        /\ f.type \in DOMAIN SizeOf => f.size = SizeOf[f.type]
        /\ IsDynamic(f) => f.type \in DOMAIN ElemType /\ ~HasMetadata(f.type)
        /\ f.count > 1 /\ ~IsDynamic(f) =>
              /\ f.type \in DOMAIN ElemType
              /\ ElemSize(f) = SizeOf[ElemType[f.type]]
              /\ HasMetadata(f.type) <=> HasMetadata(ElemType[f.type])
              /\ HasMetadata(f.type) => StructOf[f.type] = StructOf[ElemType[f.type]]
    /\ \A v \in Access!Dynamic : Access!LengthResult(v[1][1], v[1][2], v[2]) = "OK"

\* Callers ask for instances by their type, and of the char arrays for
\* members that may be read.
ASSUME RequestsAssumption ==
    /\ \A m \in Boots : m \in [Addr -> Cell] /\ InOrder(m)
    /\ \A r \in Requests :
        /\ r = <<r[1], r[2]>> /\ r[1] \in Addr \cup {NULL} /\ r[2] \in STRING
        /\ r[1] # NULL /\ HasMetadata(r[2]) => <<r[1], StructOf[r[2]]>> \in Objects
        /\ r[1] # NULL /\ r[2] \in InlineStrings =>
              \E v \in ViewsWith("READ") : ~HasMetadata(v[2].type) /\ r[1] \in Extent(v)

\* A json_serialize_function is its author's; here one that serializes every
\* value and returns an error when there is none.
json_serialize_custom(ptr, type) == type \in CustomTypes /\ ptr # NULL

get_base_type(type) == IF type \in DOMAIN ElemType THEN ElemType[type] ELSE type

get_type_size(type) == IF type \in DOMAIN SizeOf THEN SizeOf[type] ELSE 0

Visit(inst, type) ==
    [kind |-> "struct", ptr |-> inst, type |-> type, i |-> 1, n |-> 0,
     field |-> NoField, first |-> TRUE]

Loop(ptr, type, field, n) ==
    [kind |-> "array", ptr |-> ptr, type |-> type, i |-> 0, n |-> n,
     field |-> field, first |-> FALSE]

-----------------------------------------------------------------------------
(* A piece of work: the tokens it writes, the frames it enters, what it    *)
(* reads of the memory.                                                    *)

Text(mark) == <<<<mark>>>>
Token(kind, what) == <<<<kind, what>>>>

Work(tokens, frames, cells) == [out |-> tokens, enter |-> frames, rd |-> cells]

\* A char array is its own text; a char * is read, if a field says where.
String(ptr, type, field) ==
    IF type \in InlineStrings
    THEN Work(Token("string", ptr), <<>>,
              Span(ptr, IF field = NoField THEN 1 ELSE field.size))
    ELSE IF field = NoField THEN Work(Token("string", NULL), <<>>, {})
    ELSE Work(Token("string", mem[ptr]), <<>>, {ptr})

\* json_serialize_value.  Without a field to describe the value, or without
\* an instance, the name of the type is written.
Value(ptr, type, field) ==
    IF json_serialize_custom(ptr, type) THEN Work(Token("custom", type), <<>>, {})
    ELSE IF HasMetadata(type) THEN Work(Text("{"), <<Visit(ptr, type)>>, {})
    ELSE IF ptr # NULL /\ type \in StringTypes THEN String(ptr, type, field)
    ELSE IF ptr = NULL \/ field = NoField
         THEN Work(<<<<"name", type, ptr = NULL>>>>, <<>>, {})
    ELSE IF type \in Unprintable THEN Work(Token("unsupported", type), <<>>, {})
    ELSE Work(<<<<"value", ptr, type>>>>, <<>>, Span(ptr, get_type_size(type)))

IsArray(f) == (IsDynamic(f) \/ f.count > 1) /\ f.type \notin StringTypes

\* The array of field f of the instance: its length, and where it starts
DynamicArray(inst, parent, f) ==
    LET length == Access!get_dynamic_array_length(mem, inst, parent, f)
        pointer == Access!get_field_value(mem, inst, f, 1)
    IN  IF length.res # "OK" THEN Work(Text("null"), <<>>, {})
        ELSE IF pointer.res # "OK" THEN Work(Text("null"), <<>>, length.rd)
        ELSE Work(Text("["),
                  <<Loop(mem[inst + f.offset], get_base_type(f.type), f,
                         Access!Length(mem, inst, parent, f))>>,
                  length.rd \cup pointer.rd)

InlineArray(inst, f) ==
    Work(Text("["), <<Loop(inst + f.offset, get_base_type(f.type), f, f.count)>>, {})

Member(inst, parent, f) ==
    IF ~IsArray(f)
    THEN Value(IF inst = NULL THEN NULL ELSE inst + f.offset, f.type, f)
    ELSE IF inst = NULL THEN Work(Token("schema", get_base_type(f.type)), <<>>, {})
    ELSE IF IsDynamic(f) THEN DynamicArray(inst, parent, f)
    ELSE InlineArray(inst, f)

-----------------------------------------------------------------------------
\* lead comes before what the work writes.
Do(lead, work, rest) ==
    /\ out' = out \o lead \o work.out
    /\ stack' = work.enter \o rest
    /\ rd' = work.rd
    /\ res' = "OK"
    /\ UNCHANGED <<mem, asked>>

Init ==
    /\ mem \in Boots
    /\ asked = <<>>
    /\ stack = <<>>
    /\ out = <<>>
    /\ res = "OK" /\ rd = {}

to_json_stream(instance, root_type) ==
    /\ asked = <<>>
    /\ asked' = <<instance, root_type>>
    /\ LET work == Value(instance, root_type, NoField)
       IN  out' = work.out /\ stack' = work.enter /\ rd' = work.rd
    /\ UNCHANGED <<mem, res>>

Writing(kind) == stack # <<>> /\ Head(stack).kind = kind

\* Wrong on purpose: is_first_field stays set.
AdvanceAsFirst(frame) == <<[frame EXCEPT !.i = @ + 1]>> \o Tail(stack)

Advance(frame) == <<[frame EXCEPT !.i = @ + 1, !.first = FALSE]>> \o Tail(stack)

top == Head(stack)
Members(frame) == Fields[StructOf[frame.type]]
member == Members(top)[top.i]

\* Wrong on purpose: the flag is not looked at.
MayReadAny(f) == TRUE

MayRead(f) == "READ" \in f.flags

\* _json_traversal_iterator on a member nobody may read
SkipMember ==
    /\ Writing("struct") /\ top.i \in DOMAIN Members(top)
    /\ ~ MayRead(member)
    /\ stack' = <<[top EXCEPT !.i = @ + 1]>> \o Tail(stack)
    /\ UNCHANGED <<mem, asked, out, res, rd>>

Key(f) == IF f \in DOMAIN KeyName THEN KeyName[f] ELSE f.name

WriteMember ==
    /\ Writing("struct") /\ top.i \in DOMAIN Members(top)
    /\ MayRead(member)
    /\ Do((IF top.first THEN <<>> ELSE Text(",")) \o Token("key", Key(member)),
          Member(top.ptr, top.type, member), Advance(top))

EndStruct ==
    /\ Writing("struct") /\ top.i \notin DOMAIN Members(top)
    /\ Do(Text("}"), Work(<<>>, <<>>, {}), Tail(stack))

\* Wrong on purpose: one turn too many.
InLoopTooLong == top.i <= top.n

InLoop == top.i < top.n

\* One turn of the loop over an array: the comma that the code writes at the
\* end of a turn is written here at the start of the next.
WriteElement ==
    /\ Writing("array") /\ InLoop
    /\ LET ith_element == top.ptr + top.i * get_type_size(top.type)
       IN  Do(IF top.i = 0 THEN <<>> ELSE Text(","),
              IF ith_element = NULL THEN Work(Text("null"), <<>>, {})
              ELSE Value(ith_element, top.type, top.field),
              Advance(top))

\* Wrong on purpose: the last turn is missed.
LoopOverLate == top.i > top.n

LoopOver == top.i >= top.n

EndArray ==
    /\ Writing("array") /\ LoopOver
    /\ Do(Text("]"), Work(<<>>, <<>>, {}), Tail(stack))

Next ==
    \/ \E r \in Requests : to_json_stream(r[1], r[2])
    \/ SkipMember \/ WriteMember \/ EndStruct
    \/ WriteElement \/ EndArray

Spec == Init /\ [][Next]_vars /\ WF_vars(Next)

done == asked # <<>> /\ stack = <<>>

-----------------------------------------------------------------------------
(* Properties                                                              *)

\* Frames are about structs and arrays, and loops stay in their bounds.
TypeOK ==
    /\ \A i \in DOMAIN stack :
          /\ stack[i].kind = "struct" => HasMetadata(stack[i].type)
          /\ stack[i].kind = "array" => stack[i].i \in 0 .. stack[i].n
    /\ asked = <<>> => out = <<>>

\* Nothing is read that may not be: only readable members that are no
\* structs, the elements of readable dynamic arrays, and length members; a
\* member nobody may read stays unread however deep it is nested, and a
\* struct is written where one is.
ReadsStayInside ==
    /\ \A a \in rd :
        \/ \E v \in ViewsWith("READ") : ~HasMetadata(v[2].type) /\ a \in Extent(v)
        \/ \E v \in Access!Dynamic \cap ViewsWith("READ") :
              /\ ~HasMetadata(get_base_type(v[2].type))
              /\ a \in Access!LiveCells(mem, v)
        \/ \E v \in Access!Dynamic : a \in Access!LengthSpan(v[1][1], v[1][2], v[2])
    /\ \A i \in DOMAIN stack :
        stack[i].kind = "struct" /\ stack[i].ptr # NULL =>
            <<stack[i].ptr, StructOf[stack[i].type]>> \in Objects
=============================================================================
