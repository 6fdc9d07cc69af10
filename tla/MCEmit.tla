------------------------------- MODULE MCEmit -------------------------------
(***************************************************************************)
(* Inputs for Emit.  Those about reading are every short sequence of texts,*)
(* ends of files and blocks; those about emission are pairs of marked      *)
(* blocks under several lists of plugins, in the order the sort gives.     *)
(***************************************************************************)
EXTENDS Emit

MCBases == {"A", "B", "b", "Color", "Flags", "u8", "int", "char", "uint8_t", "void", "unknown"}
MCUpper == [x \in MCBases |-> IF x = "b" THEN "B" ELSE x]

Type(b, stars, arr) == [base |-> b, stars |-> stars, arr |-> arr]
Untagged == [t \in {} |-> ""]
Text(tags) == [kind |-> "text", tags |-> tags]
End == [kind |-> "end"]
Struct(name, lines) == [kind |-> "struct", name |-> name, lines |-> lines]
Enum(name, lines) == [kind |-> "enum", name |-> name, lines |-> lines]
Field(name, type) == [tags |-> Untagged, decl |-> <<name, type>>]
Enumerated(name) == [tags |-> Untagged, decl |-> <<name>>]
With(tags, l) == [l EXCEPT !.tags = tags]
Comment(tags) == [tags |-> tags, decl |-> <<>>]
Strange == [tags |-> Untagged, decl |-> <<"x", "y", "z">>]

Reflect == Text("reflect" :> NoValue)
int == Plain("int")

\* Reading
Items ==
    {Reflect, End,
     Text("note" :> "v"),
     Text("reflect" :> NoValue @@ "enum" :> "TYPE_OTHER"),
     Struct("A", <<Comment("private" :> NoValue @@ "readonly" :> NoValue), Field("h", int),
                   Comment("length" :> "n"), With("note" :> "w", Field("d", Type("B", 1, FALSE))),
                   Strange, Field("n", int)>>),
     Struct("A", <<Comment("length" :> NoValue), Field("x", Type("B", 0, TRUE))>>),
     Struct("B", <<Field("in", Type("A", 0, TRUE)), Comment("readonly" :> NoValue)>>),
     Enum("Color", <<Comment("note" :> "r"), With("note" :> "s", Enumerated("RED")), Enumerated("GREEN")>>)}

noter == [NewPlugin("noter") EXCEPT
            !.defines = [field |-> {"note"}, member |-> {"note"}],
            !.handlers = [struct |-> "note" :> Tag(FALSE, {}, NoKey), enum |-> NoTags,
                          field |-> "note" :> Tag(TRUE, {"v"}, "note"),
                          member |-> "note" :> Tag(TRUE, {"v"}, "note")]]

Sequences(S, n) == UNION {[1 .. k -> S] : k \in 0 .. n}
Readings == Sequences(Items, 4) \X {<<noter>>}

\* Emission
MarkedBlocks ==
    {<<Reflect, Struct("A", <<Field("n", int), With("length" :> "n", Field("d", Type("int", 1, FALSE))),
        With("format" :> "%s" @@ "my_tag" :> "m", Field("name", Type("char", 0, TRUE)))>>)>>,
     <<Text("reflect" :> NoValue @@ "json_serialize_function" :> "fn"),
       Struct("B", <<Field("a", Type("A", 0, TRUE)), Field("v", Type("void", 2, FALSE)),
        With("json_key_name" :> "key" @@ "format" :> "%p", Field("s", Type("char", 1, FALSE))),
        Field("c", Plain("Color"))>>)>>,
     <<Reflect, Struct("u8", <<With("format" :> "no specifier", Field("x", Plain("uint8_t")))>>)>>,
     <<Reflect, Struct("b", <<Field("p", Type("b", 2, FALSE)), Field("x", Plain("uint8_t"))>>)>>,
     <<Reflect, Enum("Color", <<With("display" :> "red", Enumerated("RED")), Enumerated("GREEN")>>)>>,
     <<Text("reflect" :> NoValue @@ "unchecked" :> NoValue @@ "json_serialize_function" :> "fn"),
       Enum("Flags", <<With("my_tag" :> "m" @@ "display" :> "f", Enumerated("F"))>>)>>,
     <<Reflect, Struct("A", <<Field("f", Plain("Flags")), With("my_tag" :> NoValue, Field("n", int))>>)>>}

asking(name, key) == [NewPlugin(name) EXCEPT !.emitters = <<{key}>>]
early == asking("early", <<"format", "type_maps", "get_field_as_str">>)
late == asking("late", <<"format", "mapped_funcs", "get_field_as_str">>)
loose == [NewPlugin("loose") EXCEPT !.mappers = <<Unforced("json_is_string_array", {})>>]
undefined == [NewPlugin("undefined") EXCEPT !.handlers.field = "format" :> Tag(FALSE, {}, "gone")]

PluginLists ==
    {<<>>, <<format>>, <<format, json>>, <<format, json, template>>, <<early, format>>,
     <<format, late>>, <<loose, template>>, <<format, loose>>, <<template, undefined>>}

Emissions == {<<FlattenSeq(s), ps>> : s \in Sequences(MarkedBlocks, 2), ps \in PluginLists}

MCRuns == Readings \cup Emissions

\* The hypotheses of the theorems about tags, definitions and declarations
ASSUME KeysAreApart == OneTagPerKey
ASSUME ListsAreClosed == PluginsAreClosed
ASSUME NamesAreApart == PluginNamesDiffer

\* An enum in an array and behind a pointer
EnumRefs ==
    {<< <<Reflect, Enum("Color", <<Enumerated("RED")>>),
          Reflect, Struct("A", fields)>>, <<format>> >> :
        fields \in Sequences({Field("x", Type("Color", 0, FALSE)), Field("y", Type("Color", 0, TRUE)),
                              Field("z", Type("Color", 1, FALSE)), Field("i", int),
                              Field("w", Type("char", 1, FALSE))}, 2)}
=============================================================================
