------------------------------ MODULE Plugins ------------------------------
(***************************************************************************)
(* What the plugins contribute to the generated file: format and json, and *)
(* the plugin tools/create_plugin.py writes for an author to start from.   *)
(*                                                                         *)
(* Generated C code is a sequence of pieces: the symbols a piece declares, *)
(* those it defines and those it uses.  A function made per type is called *)
(* by what it does and the type's suffix; any other by its name.           *)
(***************************************************************************)
EXTENDS TypeTable

Piece(declares, defines, uses) ==
    [declares |-> declares, defines |-> defines, uses |-> uses]

Fn(name) == <<"fn", name>>
Label(switch, e) == <<"case", switch, e>>
HeaderType(name) == <<"header", name>>

\* The tables EnumMetaData_FromName(n) names
EnumTable(n) == <<"members", n>>

FieldExt(key) == {<<"GET_EXT", "field">>, <<"extension", "field", key>>}
MemberExt(key) == {<<"GET_EXT", "member">>, <<"extension", "member", key>>}

\* type_aliases
Alias ==
    [n \in {<<"char", 1>>, <<"constchar", 1>>} |-> IF n[1] = "char" THEN "str" ELSE "conststr"]
    @@ <<"uint8_t", 0>> :> "u8" @@ <<"uint16_t", 0>> :> "u16"
    @@ <<"uint32_t", 0>> :> "u32" @@ <<"uint64_t", 0>> :> "u64"
    @@ <<"unsignedint", 0>> :> "uint" @@ <<"longlong", 0>> :> "ll"

\* get_type_suffix: the alias of what is left without _arr, or the type's
\* own name
Suffix(n) ==
    IF <<n.base, n.stars>> \in DOMAIN Alias THEN <<Alias[<<n.base, n.stars>>], 0, n.arr>>
    ELSE <<n.base, n.stars, n.arr>>

set_field(n) == <<"set_field", Suffix(n)>>
get_field(n) == <<"get_field", Suffix(n)>>

\* get_struct, get_enum: _arr and the last star are taken off.
Named(blocks, n) == {b \in Range(blocks) : b.name = n.base /\ n.stars <= 1}
IsStruct(n) == Named(structs, n) # {}
IsEnum(n) == Named(enums, n) # {}
Item(n) == IF IsStruct(n) THEN Named(structs, n) ELSE Named(enums, n)

-----------------------------------------------------------------------------
(* Type mappers: given a type, the function to generate and what its case  *)
(* calls.  None maps a type to nothing.                                    *)

None == [func |-> {}, case |-> {}]

\* A function, and a case that calls it
Function(f, uses) == [func |-> {Piece({}, {f}, uses)}, case |-> {{f}}]

\* _PRIMITIVE_FORMATS without the strings; _PRIMITIVE_PARSERS has the same
Primitives ==
    {Plain(b) : b \in {"int", "unsignedint", "short", "unsignedshort", "long",
        "unsignedlong", "char", "unsignedchar", "float", "double", "size_t",
        "uint8_t", "uint16_t", "uint32_t", "uint64_t",
        "int8_t", "int16_t", "int32_t", "int64_t"}}
Strings == {Pointer(b, 1) : b \in {"char", "constchar"}}
CharArray == [Plain("char") EXCEPT !.arr = TRUE]
CharArrays == {CharArray, [Plain("constchar") EXCEPT !.arr = TRUE]}

get_field_as_str(n) ==
    LET f == <<"get_field_as_str", Suffix(n)>>
    IN  IF IsEnum(n) THEN Function(f, {get_field(n), EnumTable(n)} \cup MemberExt("display"))
        ELSE IF n \in Primitives \cup Strings \cup {Plain("bool"), CharArray}
             THEN Function(f, {get_field(n)} \cup FieldExt("format"))
        ELSE None

set_field_from_str(n) ==
    LET f == <<"set_field_from_str", Suffix(n)>>
    IN  IF IsEnum(n) THEN Function(f, {set_field(n), EnumTable(n), Fn("enum_is_checked"),
                                       <<"enumerator", type_map[n]>>})
        ELSE IF n \in Primitives \cup {Plain("bool"), CharArray}
             THEN Function(f, {set_field(n)})
        ELSE None

\* An extern declaration of the function the tag names: never a definition
json_serialize_custom(n) ==
    LET named == {b.tags["json_serialize_function"] :
                    b \in {c \in Item(n) : "json_serialize_function" \in DOMAIN c.tags}}
    IN  IF named = {} THEN None
        ELSE [func |-> {Piece({<<"extern", f>>}, {}, {HeaderType("_cmy_json_state")}) : f \in named},
              case |-> {{<<"extern", f>>} : f \in named}]

TrueFor(types, n) == IF n \in types THEN [func |-> {}, case |-> {{}}] ELSE None
json_is_string_type(n) == TrueFor(Strings \cup CharArrays, n)
json_needs_quote(n) ==
    IF IsEnum(n) THEN [func |-> {}, case |-> {{}}] ELSE TrueFor(Strings \cup CharArrays, n)
json_is_string_array(n) == TrueFor(CharArrays, n)

type_to_json(n) ==
    IF ~IsStruct(n) \/ n.stars > 0 THEN None
    ELSE [func |-> {Piece({}, {<<"to_json", Suffix(n)>>},
                          {Fn("to_json"), <<"enumerator", type_map[n]>>})}, case |-> {}]

type_to_json_stream(n) ==
    IF ~IsStruct(n) \/ n.stars > 0 THEN None
    ELSE [func |-> {Piece({}, {<<"to_json_stream", Suffix(n)>>},
                          {Fn("to_json_stream"), HeaderType("cmy_json_write_cb"),
                           <<"enumerator", type_map[n]>>})}, case |-> {}]

process_field(n) ==
    IF IsEnum(n) THEN None ELSE Function(<<"process_field", Suffix(n)>>, {get_field(n)})

MapperNames ==
    {"get_field_as_str", "set_field_from_str", "json_serialize_custom", "json_is_string_type",
     "json_needs_quote", "json_is_string_array", "type_to_json", "type_to_json_stream",
     "process_field"}

Mapped(name, n) ==
    CASE name = "get_field_as_str" -> get_field_as_str(n)
      [] name = "set_field_from_str" -> set_field_from_str(n)
      [] name = "json_serialize_custom" -> json_serialize_custom(n)
      [] name = "json_is_string_type" -> json_is_string_type(n)
      [] name = "json_needs_quote" -> json_needs_quote(n)
      [] name = "json_is_string_array" -> json_is_string_array(n)
      [] name = "type_to_json" -> type_to_json(n)
      [] name = "type_to_json_stream" -> type_to_json_stream(n)
      [] name = "process_field" -> process_field(n)

-----------------------------------------------------------------------------
(* Plugins: the extension keys their setup defines, their tag handlers,    *)
(* the plugin data they provide, their emitters (by the plugin data they   *)
(* ask for), functions, type mappers, and what their header code declares. *)

NoKey == ""     \* what a tag without extension data sets

Mapper(name, types) == [name |-> name, force |-> TRUE, types |-> types]
Unforced(name, types) == [Mapper(name, types) EXCEPT !.force = FALSE]
Code(name, uses) == [name |-> name, uses |-> uses]
Tag(enforced, rejects, sets) == [enforced |-> enforced, rejects |-> rejects, sets |-> sets]
NoTags == [t \in {} |-> Tag(FALSE, {}, NoKey)]
NoHandlers == [struct |-> NoTags, enum |-> NoTags, field |-> NoTags, member |-> NoTags]

NewPlugin(name) ==
    [name |-> name, defines |-> [field |-> {}, member |-> {}], handlers |-> NoHandlers,
     data |-> {}, emitters |-> <<>>, functions |-> <<>>, mappers |-> <<>>, header |-> {}]

\* Nothing is done about no_print.
format ==
    [NewPlugin("format") EXCEPT
        !.defines = [field |-> {"format"}, member |-> {"display"}],
        !.handlers = [struct |-> NoTags,
                      enum |-> "no_print" :> Tag(FALSE, {}, NoKey),
                      field |-> "format" :> Tag(TRUE, {"no specifier"}, "format"),
                      member |-> "display" :> Tag(TRUE, {}, "display")],
        !.data = {"primitive_formats", "primitive_parsers"},
        !.functions = <<Code("print_field", {Fn("get_field_as_str")})>>,
        !.mappers = <<Mapper("get_field_as_str", {}), Mapper("set_field_from_str", {})>>]

json ==
    LET state == HeaderType("_cmy_json_state")
        serializer == "json_serialize_function" :> Tag(TRUE, {}, NoKey)
    IN  [NewPlugin("json") EXCEPT
        !.defines = [field |-> {"json_key_name"}, member |-> {}],
        !.handlers = [struct |-> serializer, enum |-> serializer,
                      field |-> "json_key_name" :> Tag(TRUE, {"empty"}, "json_key_name"),
                      member |-> NoTags],
        !.header = {state, HeaderType("cmy_json_write_cb"), HeaderType("_cmy_json_fixedbuf_ctx")},
        !.functions =
            <<Code("json_serialize_value",
                   {state, Fn("json_serialize_custom"), Fn("json_is_string_type"),
                    Fn("json_is_string_array"), Fn("json_needs_quote"), Fn("get_field_as_str"),
                    Fn("json_write_internal"), Fn("json_write_string_escaped"),
                    Fn("_json_traversal_iterator")} \cup FieldExt("format")),
              Code("json_write_internal", {state}),
              Code("_json_traversal_iterator",
                   {state, Fn("json_write_internal"), Fn("json_serialize_value"),
                    Fn("json_is_string_type")} \cup FieldExt("json_key_name")),
              Code("_fixed_buf_write_cb", {HeaderType("_cmy_json_fixedbuf_ctx")}),
              Code("json_write_string_escaped", {state}),
              Code("to_json_stream", {state, HeaderType("cmy_json_write_cb"),
                                      Fn("json_serialize_value")}),
              Code("to_json", {HeaderType("_cmy_json_fixedbuf_ctx"), Fn("to_json_stream"),
                               Fn("_fixed_buf_write_cb")})>>,
        !.mappers =
            <<Mapper("json_serialize_custom", {state}), Mapper("json_is_string_type", {}),
              Mapper("json_needs_quote", {}), Mapper("json_is_string_array", {}),
              Unforced("type_to_json", {}),
              Unforced("type_to_json_stream", {HeaderType("cmy_json_write_cb")})>>]

template ==
    [NewPlugin("template") EXCEPT
        !.defines = [field |-> {"my_plugin_field_data"}, member |-> {"my_plugin_member_data"}],
        !.handlers = [struct |-> NoTags, enum |-> NoTags,
                      field |-> "my_tag" :> Tag(TRUE, {}, "my_plugin_field_data"),
                      member |-> "my_tag" :> Tag(TRUE, {}, "my_plugin_member_data")],
        !.functions = <<Code("plugin_do_work", {Fn("process_field")})>>,
        !.mappers = <<Mapper("process_field", {})>>]
=============================================================================
