-------------------------------- MODULE Emit --------------------------------
(***************************************************************************)
(* How the header is written once the types are resolved, str(reflector):  *)
(* generate_plugin_extensions goes through the plugins (emitters and       *)
(* functions, type mappers, tag handlers) and gathers their code, their    *)
(* prototypes and the extension data of fields and enum members; then the  *)
(* text is put together.                                                   *)
(*                                                                         *)
(* A section of the file has pieces whose order does not matter (what is   *)
(* generated per type, struct or enum): a function from those to pieces.   *)
(* A part is a sequence of sections, the file a sequence of parts.         *)
(***************************************************************************)
EXTENDS Plugins

ASSUME PluginsAssumption ==
    \A r \in Runs :
        /\ r[2] \in Seq(Range(r[2]))
        /\ \A k \in DOMAIN r[2] :
              /\ r[2][k].mappers \in Seq(Range(r[2][k].mappers))
              /\ \A m \in Range(r[2][k].mappers) : m.name \in MapperNames
              /\ \A s \in r[2][k].header : s[1] = "header"

VARIABLES
    turn,       \* <<plugin, step>>: 0 for its code, k for its kth mapper
    router,     \* what the variable router holds
    bound,      \* whether router has been assigned at all
    data,       \* the keys of plugin_data
    protos, code,   \* the plugins' prototypes so far, a set, and their code, a part
    ext,        \* plugin_data of fields and members, where there is any
    text        \* the generated file

emission == <<turn, router, bound, data, protos, code, ext, text>>
emitVars == <<vars, emission>>

EmitInit ==
    /\ Init
    /\ turn = <<1, 0>>
    /\ router = <<>> /\ bound = FALSE
    /\ data = UNION {{<<p.name, "data", k>> : k \in p.data} : p \in Range(plugins)}
    /\ protos = {} /\ code = <<>> /\ ext = <<>> /\ text = <<>>

\* Reading and resolving
Read == Next /\ UNCHANGED emission

-----------------------------------------------------------------------------
(* generate_plugin_extensions                                              *)

Emitting == pc = "done" /\ turn[1] \in DOMAIN plugins
plugin == plugins[turn[1]]
NextStep == turn' = <<turn[1], turn[2] + 1>>

Stop(how) ==
    /\ pc' = how
    /\ UNCHANGED <<input, plugins, at, reading, tables, emission>>

\* _add_proto: the signature in front of a function
Prototype(f) ==
    Piece(f.declares \cup f.defines, {}, {s \in f.uses : s[1] = "header"})

\* An emitter's get_plugin_data raises for a key that is not there (yet).
EmitCode ==
    /\ Emitting /\ turn[2] = 0
    /\ IF \E asks \in Range(plugin.emitters) : ~ asks \subseteq data THEN Stop("raised")
       ELSE LET functions == [k \in DOMAIN plugin.functions |->
                                Piece({}, {Fn(plugin.functions[k].name)}, plugin.functions[k].uses)]
            IN  /\ code' = Append(code, functions)
                /\ protos' = protos \cup {Prototype(f) : f \in Range(functions)}
                /\ NextStep
                /\ UNCHANGED <<vars, router, bound, data, ext, text>>

Types == DOMAIN type_map \ {Plain("unknown")}
MappedBy(m, part) == {n \in Types : Mapped(m.name, n)[part] # {}}

\* The switch of a mapper, a piece per case; without cases only when forced
Router(m) ==
    LET cases == MappedBy(m, "case")
        case(n) == Piece({}, {Label(m.name, type_map[n])},
                         {<<"enumerator", type_map[n]>>} \cup UNION Mapped(m.name, n).case)
    IN  IF cases = {} /\ ~m.force THEN router
        ELSE << <<Piece({}, {Fn(m.name)}, m.types)>>, [n \in cases |-> case(n)] >>

\* Wrong on purpose: router keeps its value for the next mapper.
AfterMapperKept(r) == r

AfterMapper(r) == <<>>

MapTypes ==
    /\ Emitting /\ turn[2] \in DOMAIN plugin.mappers
    /\ LET m == plugin.mappers[turn[2]]
           functions == UNION {Mapped(m.name, n).func : n \in Types}
           bodies == {f \in functions : f.defines # {}}
           routed == Router(m)
           key(part) == {<<plugin.name, part, m.name>>}
       IN  IF MappedBy(m, "case") = {} /\ ~m.force /\ ~bound THEN Stop("crashed")
           ELSE /\ code' = Append(code, [f \in bodies |-> f]) \o routed
                /\ protos' = protos \cup {Prototype(f) : f \in functions}
                                    \cup (IF routed = <<>> THEN {} ELSE {Prototype(routed[1][1])})
                /\ data' = data
                     \cup (IF bodies # {} THEN key("mapped_funcs") ELSE {})
                     \cup (IF MappedBy(m, "case") # {} THEN key("type_maps") ELSE {})
                /\ router' = AfterMapper(routed)
                /\ bound' = TRUE
                /\ NextStep
                /\ UNCHANGED <<vars, ext, text>>

\* Where a tag may stand, and the tags there
Places(context) ==
    CASE context = "struct" -> {<<context, b>> : b \in DOMAIN structs}
      [] context = "enum" -> {<<context, b>> : b \in DOMAIN enums}
      [] context = "field" ->
            UNION {{<<context, b, m>> : m \in DOMAIN structs[b].members} : b \in DOMAIN structs}
      [] context = "member" ->
            UNION {{<<context, b, m>> : m \in DOMAIN enums[b].members} : b \in DOMAIN enums}
TagsAt(place) ==
    CASE place[1] = "struct" -> structs[place[2]].tags
      [] place[1] = "enum" -> enums[place[2]].tags
      [] place[1] = "field" -> structs[place[2]].members[place[3]].tags
      [] place[1] = "member" -> enums[place[2]].members[place[3]].tags

Contexts == {"struct", "enum", "field", "member"}
Defined(context) == UNION {q.defines[context] : q \in Range(plugins)}

\* _check_tag_value, and set_field_extension of a key nobody defined
Refused(context, tag, value) ==
    LET h == plugin.handlers[context][tag]
    IN  \/ h.enforced /\ value = NoValue
        \/ value \in h.rejects
        \/ h.sets # NoKey /\ h.sets \notin Defined(context)

Handled(place) == DOMAIN TagsAt(place) \cap DOMAIN plugin.handlers[place[1]]

\* The extension data a plugin gives to a field or member
Setting(place) ==
    LET sets(t) == plugin.handlers[place[1]][t].sets
    IN  [key \in {sets(t) : t \in Handled(place)} \ {NoKey} |->
            TagsAt(place)[CHOOSE t \in Handled(place) : sets(t) = key]]

ExtensionOf(place) == IF place \in DOMAIN ext THEN ext[place] ELSE <<>>

\* Wrong on purpose: a plugin's data takes the place of the others'.
ExtendedAfresh(place) == Setting(place)

Extended(place) == Merge(ExtensionOf(place), Setting(place))

HandleTags ==
    /\ Emitting /\ turn[2] = Len(plugin.mappers) + 1
    /\ LET touched == {place \in Places("field") \cup Places("member") :
                          DOMAIN Setting(place) # {}}
       IN  IF \E c \in Contexts : \E place \in Places(c) : \E t \in Handled(place) :
                  Refused(c, t, TagsAt(place)[t])
           THEN Stop("raised")
           ELSE /\ ext' = [place \in DOMAIN ext \cup touched |->
                              IF place \in touched THEN Extended(place) ELSE ext[place]]
                /\ turn' = <<turn[1] + 1, 0>>
                /\ UNCHANGED <<vars, router, bound, data, protos, code, text>>

-----------------------------------------------------------------------------
(* __str__                                                                 *)

ExtVar(place) ==
    LET block == IF place[1] = "field" THEN structs[place[2]] ELSE enums[place[2]]
    IN  <<"ext", block.name, block.members[place[3]].name>>
ExtVars(context, b) == {ExtVar(place) : place \in {q \in DOMAIN ext : q[1] = context /\ q[2] = b}}

Checked == {b \in Range(enums) : "unchecked" \notin DOMAIN b.tags}
enumerator(e) == <<"enumerator", e>>
Enumerators == Range(type_map)

generate_types == << [e \in Enumerators |-> Piece({}, {enumerator(e)}, {})] >>

generate_plugin_headers ==
    << <<Piece({}, UNION {q.header : q \in Range(plugins)}, {})>>, [f \in protos |-> f] >>

generate_extension_types ==
    << <<Piece({}, UNION {{<<"extension", c, key>> : key \in Defined(c)} : c \in {"field", "member"}},
               {})>> >>

generate_declarations ==
    << [b \in DOMAIN structs |->
            Piece({<<"table", structs[b].name>>} \cup ExtVars("field", b), {}, {})],
       [b \in DOMAIN enums |->
            Piece({EnumTable(Plain(enums[b].name))} \cup ExtVars("member", b), {}, {})],
       <<Piece({}, {<<"GET_EXT", c>> : c \in {d \in {"field", "member"} : Defined(d) # {}}}, {})>> >>

\* A generated switch, given what each case is for and what it uses
Switch(name, cases) ==
    << <<Piece({}, {Fn(name)}, {})>>,
       [x \in DOMAIN cases |->
            Piece({}, {Label(name, cases[x][1])}, {enumerator(cases[x][1])} \cup cases[x][2])] >>

generate_enum_validators ==
    << [b \in Checked |-> Piece({}, {<<"is_valid", b.name>>}, {})] >>
    \o Switch("enum_is_checked", [b \in Checked |-> <<type_map[Plain(b.name)], {}>>])

\* An enum goes through its validator, arrays and pointers of it do not.
generate_type_setter(n) ==
    Piece({}, {set_field(n), get_field(n)} \cup (IF n.arr THEN {<<"get_field_elem", Suffix(n)>>} ELSE {}),
          {enumerator(type_map[n])} \cup
          (IF \E b \in Checked : Plain(b.name) = n THEN {<<"is_valid", n.base>>} ELSE {}))

generate_type_setters == << [n \in Types |-> generate_type_setter(n)] >>

\* For members with a length whose type has a star
Dynamic ==
    {sf \in DOMAIN type_enum : /\ Length(FieldsOf(sf[1])[sf[2]]) # ""
                               /\ FieldsOf(sf[1])[sf[2]].type.stars > 0}
generate_dynamic_array_accessors ==
    LET suffix(sf) == <<structs[sf[1]].name, FieldsOf(sf[1])[sf[2]].name>>
    IN  << [sf \in Dynamic |->
              Piece({}, {<<"set_dynamic", suffix(sf)>>, <<"get_dynamic", suffix(sf)>>},
                    {enumerator(type_enum[sf]), enumerator(type_map[Plain(structs[sf[1]].name)])})] >>

\* ext_S_f variables and the table that points to them
StructTable(b) ==
    Piece({}, {<<"table", structs[b].name>>} \cup ExtVars("field", b),
          {enumerator(type_enum[<<b, f>>]) : f \in DOMAIN FieldsOf(b)})
MembersTable(b) == Piece({}, {EnumTable(Plain(enums[b].name))} \cup ExtVars("member", b), {})

generate_tables ==
    << [b \in DOMAIN structs |-> StructTable(b)], [b \in DOMAIN enums |-> MembersTable(b)] >>

get_struct_metadata ==
    Switch("get_struct_metadata",
           [n \in {t \in Types : t.stars = 0 /\ IsStruct(t)} |->
               <<type_map[n], {<<"table", n.base>>}>>])

get_enum_metadata ==
    Switch("get_enum_metadata",
           [n \in {t \in Types : IsEnum(t) /\ t = Plain(t.base)} |->
               <<type_map[n], {EnumTable(n)}>>])

generic_type_setter ==
    Switch("safe_set_field", [n \in Types |-> <<type_map[n], {set_field(n)}>>])

get_name_of_type == Switch("get_name_of_type", [e \in Enumerators |-> <<e, {}>>])

basetype_caster ==
    Switch("get_base_type",
           [n \in {t \in Types : base_type(type_map[t]) # {}} |->
               <<type_map[n], {enumerator(e) : e \in base_type(type_map[n])}>>])

get_type_size == Switch("get_type_size", [n \in Types |-> <<type_map[n], {}>>])

\* Wrong on purpose: the validators come after the setters that call them.
SectionsSettersFirst ==
    <<generate_types, generate_plugin_headers, generate_extension_types, generate_declarations,
      generate_type_setters, generate_enum_validators, generate_dynamic_array_accessors, code,
      generate_tables, get_struct_metadata, get_enum_metadata, generic_type_setter,
      get_name_of_type, basetype_caster, get_type_size>>

\* The last seven are generate_definitions.
Sections ==
    <<generate_types, generate_plugin_headers, generate_extension_types, generate_declarations,
      generate_enum_validators, generate_type_setters, generate_dynamic_array_accessors, code,
      generate_tables, get_struct_metadata, get_enum_metadata, generic_type_setter,
      get_name_of_type, basetype_caster, get_type_size>>

Write ==
    /\ pc = "done" /\ turn[1] \notin DOMAIN plugins
    /\ text' = Sections
    /\ pc' = "written"
    /\ UNCHANGED <<input, plugins, at, reading, tables, turn, router, bound, data, protos, code, ext>>

EmitNext == Read \/ EmitCode \/ MapTypes \/ HandleTags \/ Write

EmitSpec == EmitInit /\ [][EmitNext]_emitVars /\ WF_emitVars(EmitNext)

-----------------------------------------------------------------------------
(* Properties                                                              *)

\* The state has the types of the Python objects; the plugin and the step are
\* ones there are, and nothing is left of a mapper when the next one begins.
EmitTypeOK ==
    /\ pc \in {"text", "body", "resolve", "done", "written", "raised", "crashed"}
    /\ DOMAIN type_map \subseteq TypeName
    /\ Len(mark) <= 1 /\ (pc = "body" => mark # <<>>)
    /\ \A sf \in DOMAIN type_enum : sf[1] \in DOMAIN structs /\ sf[2] \in DOMAIN FieldsOf(sf[1])
    /\ turn[1] \in 1 .. Len(plugins) + 1
    /\ turn[2] \in 0 .. (IF turn[1] \in DOMAIN plugins THEN Len(plugin.mappers) + 1 ELSE 0)
    /\ router = <<>>
    /\ DOMAIN ext \subseteq Places("field") \cup Places("member")

\* What the C compiler would say of the names the authors chose: no two types
\* have one enumerator or one suffix (uint8_t and a struct u8).
SuffixesDiffer == \A m, n \in Types : Suffix(m) = Suffix(n) => m = n

\* Format's functions name an enum's table by the type's name, which is the
\* enum's only where the type is not an array or a pointer.
EnumsByName == \A n \in Types : IsEnum(n) => n = Plain(n.base)

\* Where a piece stands, and the pieces that stand before it
Spots == UNION {UNION {{<<i, j, x>> : x \in DOMAIN text[i][j]} : j \in DOMAIN text[i]} :
                i \in DOMAIN text}
PieceAt(spot) == text[spot[1]][spot[2]][spot[3]]
Preceding(spot) ==
    {q \in Spots : q[1] < spot[1] \/ (q[1] = spot[1] /\ q[2] < spot[2])}

Mentions(spot) == PieceAt(spot).declares \cup PieceAt(spot).defines
Seen(s, spot) == \E q \in Preceding(spot) \cup {spot} : s \in Mentions(q)

\* What the functions of a mapper use whatever the type is
Needs(name) ==
    CASE name = "get_field_as_str" -> FieldExt("format") \cup MemberExt("display")
      [] name = "json_serialize_custom" -> {HeaderType("_cmy_json_state")}
      [] name = "type_to_json" -> {Fn("to_json")}
      [] name = "type_to_json_stream" -> {Fn("to_json_stream"), HeaderType("cmy_json_write_cb")}
      [] OTHER -> {}

\* What the plugins ps are sure to provide
Provided(ps, s) ==
    \E p \in Range(ps) :
        \/ s \in p.header
        \/ \E f \in Range(p.functions) : s = Fn(f.name)
        \/ \E m \in Range(p.mappers) : m.force /\ s = Fn(m.name)
        \/ \E c \in {"field", "member"} : \E key \in p.defines[c] :
              s \in {<<"GET_EXT", c>>, <<"extension", c, key>>}

\* Authors of plugins use what these, or those they depend on, provide.
PluginsAreClosed ==
    \A r \in Runs : \A p \in Range(r[2]) :
        /\ \A f \in Range(p.functions) : \A s \in f.uses : Provided(r[2], s)
        /\ \A m \in Range(p.mappers) : \A s \in m.types \cup Needs(m.name) : Provided(r[2], s)

\* The generated file compiles as far as names go: what a piece of it uses
\* has been declared before it, whatever plugins took part, in whatever
\* order their code stands and types come out of a dictionary, and what is
\* declared is defined somewhere, except the serializers users name.
DeclaredBeforeUse ==
    pc = "written" /\ EnumsByName =>
        \A spot \in Spots :
            /\ \A s \in PieceAt(spot).uses : Seen(s, spot)
            /\ \A s \in PieceAt(spot).declares :
                  s[1] = "extern" \/ \E q \in Spots : s \in PieceAt(q).defines

\* No two members share an extension variable, whose name joins the block's
\* and the member's by an underscore.
ExtVarsDiffer ==
    \A p, q \in Places("field") \cup Places("member") : ExtVar(p) = ExtVar(q) => p = q

\* Authors of plugins give every function and every mapper a name of its own,
\* and none that the generator uses itself.
GeneratedNames ==
    {"enum_is_checked", "get_struct_metadata", "get_enum_metadata", "safe_set_field",
     "get_name_of_type", "get_base_type", "get_type_size"}
PluginNamesDiffer ==
    \A r \in Runs : \A i, j \in DOMAIN r[2] :
        LET p == r[2][i]
            q == r[2][j]
        IN  /\ \A x \in DOMAIN p.functions, y \in DOMAIN q.functions :
                  p.functions[x].name = q.functions[y].name => i = j /\ x = y
            /\ \A x \in DOMAIN p.mappers, y \in DOMAIN q.mappers :
                  p.mappers[x].name = q.mappers[y].name => i = j /\ x = y
            /\ \A x \in DOMAIN p.functions :
                  /\ p.functions[x].name \notin GeneratedNames
                  /\ \A y \in DOMAIN q.mappers : p.functions[x].name # q.mappers[y].name

\* Nothing in it is defined twice, no switch has a case twice.
DefinedOnce ==
    pc = "written" /\ NoClash /\ SuffixesDiffer /\ ExtVarsDiffer =>
        \A p, q \in Spots : PieceAt(p).defines \cap PieceAt(q).defines # {} => p = q

\* Authors of plugins give each extension key to one tag.
OneTagPerKey ==
    \A r \in Runs : \A p, q \in Range(r[2]) : \A c \in {"field", "member"} :
        \A t \in DOMAIN p.handlers[c], u \in DOMAIN q.handlers[c] :
            p.handlers[c][t].sets = q.handlers[c][u].sets /\ t # u
            => p.handlers[c][t].sets = NoKey

\* The extension keys that tags stand for
KeysBy(context, t) ==
    {q.handlers[context][t].sets :
        q \in {p \in Range(plugins) : t \in DOMAIN p.handlers[context]}} \ {NoKey}
KeysAt(place) == UNION {KeysBy(place[1], t) : t \in DOMAIN TagsAt(place)}

\* A member's extension variable has what the member's tags say, of every
\* plugin, and nothing of a neighbour's; it is declared, defined and pointed
\* to by the table exactly when there is something in it.
TagsReachTheTables ==
    pc = "written" =>
        \A place \in Places("field") \cup Places("member") :
            /\ ExtensionOf(place) =
                  [key \in KeysAt(place) |->
                      TagsAt(place)[CHOOSE t \in DOMAIN TagsAt(place) : key \in KeysBy(place[1], t)]]
            /\ ExtVarsDiffer =>
                  /\ KeysAt(place) # {} <=> \E q \in Spots : ExtVar(place) \in PieceAt(q).declares
                  /\ KeysAt(place) # {} <=> \E q \in Spots : ExtVar(place) \in PieceAt(q).defines

\* An input main can be given no error for: the marked blocks are well
\* formed, the tags of those kept have a handler and a value it takes, what
\* emitters ask for is there by the time they ask, and the first mapper to
\* run does not come out without a router.
SoundBlock(i) ==
    /\ ~ Malformed(input[i].kind, BlockTags(i), "enum")
    /\ \A l \in MemberLines(i) : ~ Malformed(input[i].kind, LineTags(input[i].lines, l), "length")

SoundTags(context, tags) ==
    \A t \in DOMAIN tags :
        /\ t \in Registered(context)
        /\ \A q \in Range(plugins) : t \in DOMAIN q.handlers[context] =>
              LET h == q.handlers[context][t]
              IN  /\ h.enforced => tags[t] # NoValue
                  /\ tags[t] \notin h.rejects
                  /\ h.sets = NoKey \/ h.sets \in Defined(context)

SoundKept(kind, i) ==
    /\ SoundTags(kind, BlockTags(i))
    /\ \A l \in MemberLines(i) :
          LET lines == input[i].lines
              tags == LineTags(lines, l)
          IN  IF kind = "enum" THEN SoundTags("member", tags)
              ELSE /\ SoundTags("field", tags)
                   /\ "length" \in DOMAIN tags =>
                        \E j \in MemberLines(i) : lines[j].decl[1] = tags["length"]

Provides(q, part, name) ==
    \/ part = "data" /\ name \in q.data
    \/ /\ \E m \in Range(q.mappers) : m.name = name
       /\ part = "mapped_funcs" => \E n \in Types : \E f \in Mapped(name, n).func : f.defines # {}
       /\ part = "type_maps" => MappedBy([name |-> name], "case") # {}

SoundEmitters ==
    \A i \in DOMAIN plugins : \A asks \in Range(plugins[i].emitters) : \A key \in asks :
        \E j \in DOMAIN plugins :
            /\ key[1] = plugins[j].name
            /\ j < i \/ key[2] = "data"
            /\ Provides(plugins[j], key[2], key[3])

SoundMappers ==
    LET mappers == FlattenSeq([k \in DOMAIN plugins |-> plugins[k].mappers])
    IN  mappers # <<>> => mappers[1].force \/ MappedBy(mappers[1], "case") # {}

Sound ==
    /\ \A i \in Marked : SoundBlock(i)
    /\ \A kind \in BlockKinds : \A i \in FirstOfName(kind) : SoundKept(kind, i)
    /\ SoundEmitters /\ SoundMappers

\* The generator always comes to an end, and a sound input is never refused:
\* not for what stands in unmarked blocks or dropped duplicates, not for the
\* order of blocks, members and plugins.
SoundInputIsWritten ==
    /\ <>(pc \in {"written", "raised", "crashed"})
    /\ [](pc \in {"raised", "crashed"} => ~Sound)

\* Header, "Requires that EnumName_Metadata and EnumName_FieldCount are
\* available in scope": so they are wherever generated code names an enum's
\* tables.
EnumTablesExist ==
    pc = "written" =>
        \A spot \in Spots : \A s \in PieceAt(spot).uses : s[1] = "members" => Seen(s, spot)
=============================================================================
