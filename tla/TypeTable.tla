----------------------------- MODULE TypeTable -----------------------------
(***************************************************************************)
(* How cmy_reflector.py reads its input and builds the tables of module    *)
(* Registry: generate_reflection picks the marked typedefs out of every    *)
(* file and their members out of them, line by line; Reflector.resolve     *)
(* then gives each field its type_enum and adds the types it is made of.   *)
(*                                                                         *)
(* The input is the sorted files' text as a sequence of items: a piece of  *)
(* text between typedefs, a typedef with its lines, or the end of a file.  *)
(* Tags are functions from tag names to values; those of a text are the    *)
(* ones from cmy:reflect on, if it has that.  A line's decl is <<>> when   *)
(* there is only a comment, <<name, type>> for a field and <<name>> for an *)
(* enumerator; one of another length is a declaration the regular          *)
(* expression fails on.                                                    *)
(***************************************************************************)
EXTENDS Integers, SequencesExt

CONSTANTS
    Bases,      \* base names, "void" and "unknown" among them
    Upper,      \* base name -> the name in capitals
    Runs        \* what main may be given: <<items, plugins>>

NoValue == "True"   \* the value of a tag without parentheses

\* A normalized type name: a base name with stars and perhaps _arr
TypeName == [base : Bases, stars : Nat, arr : BOOLEAN]
Pointer(b, stars) == [base |-> b, stars |-> stars, arr |-> FALSE]
Plain(b) == Pointer(b, 0)

\* An enumerator of FieldType: TYPE_<NAME>, TYPE_STRUCT_<NAME>,
\* TYPE_ENUM_<NAME>, or the text of an enum(..) tag
Default(n) == <<"TYPE", Upper[n.base], n.stars, n.arr>>
UNKNOWN == Default(Plain("unknown"))

BlockKinds == {"struct", "enum"}

Typed(n) == n \in TypeName /\ n.base # "unknown" /\ (n.base = "void" => n.stars > 0)

\* The name unknown, however capitalised, is no type's of the input, and C has
\* no members of type void and no arrays of it.
ASSUME InputsAssumption ==
    /\ {"void", "unknown"} \subseteq Bases
    /\ Upper \in [Bases -> STRING]
    /\ \A b \in Bases \ {"unknown"} : Upper[b] # Upper["unknown"]
    /\ \A r \in Runs : r[1] \in Seq(Range(r[1])) /\ \A i \in DOMAIN r[1] :
          /\ r[1][i].kind \in {"text", "end"} \cup BlockKinds
          /\ r[1][i].kind = "text" => r[1][i].tags \in [DOMAIN r[1][i].tags -> STRING]
          /\ r[1][i].kind \in BlockKinds =>
                /\ r[1][i].name \in Bases \ {"void", "unknown"}
                /\ r[1][i].lines \in Seq(Range(r[1][i].lines))
                /\ r[1][i].kind = "struct" =>
                     \A l \in Range(r[1][i].lines) : Len(l.decl) = 2 => Typed(l.decl[2])

VARIABLES
    input, plugins,
    pc,         \* "text", "body", "resolve", "done" or "raised"
    at,         \* <<item, line>> to read, then <<struct, field>> to resolve
    mark,       \* <<>>, or <<the tags since cmy:reflect>>
    members,    \* of the block being read
    pending,    \* the tags of the comment lines since the last declaration
    type_map,
    structs, enums,     \* the blocks kept, in order: name, tags, members
    type_enum           \* <<struct, field>> -> Field.type_enum

reading == <<mark, members, pending>>
tables == <<type_map, structs, enums, type_enum>>
vars == <<input, plugins, pc, at, reading, tables>>

\* A dict updated with another
Merge(tags, new) ==
    [t \in DOMAIN tags \cup DOMAIN new |-> IF t \in DOMAIN new THEN new[t] ELSE tags[t]]

-----------------------------------------------------------------------------
(* generate_reflection                                                     *)

Init ==
    /\ \E r \in Runs : input = r[1] /\ plugins = r[2]
    /\ pc = "text"
    /\ at = <<1, 1>>
    /\ mark = <<>> /\ members = <<>> /\ pending = <<>>
    /\ type_map = [n \in {Plain("unknown")} |-> UNKNOWN]
    /\ structs = <<>> /\ enums = <<>>
    /\ type_enum = <<>>

Reading(step) == pc = step /\ at[1] \in DOMAIN input
item == input[at[1]]
line == item.lines[at[2]]
NextItem == at' = <<at[1] + 1, 1>>
Raise == pc' = "raised" /\ UNCHANGED <<input, plugins, at, reading, tables>>

\* The text from a mark to the next typedef is searched for tags.
ReadText ==
    /\ Reading("text") /\ item.kind = "text"
    /\ mark' = IF mark # <<>> THEN <<Merge(mark[1], item.tags)>>
               ELSE IF "reflect" \in DOMAIN item.tags THEN <<item.tags>> ELSE <<>>
    /\ NextItem
    /\ UNCHANGED <<input, plugins, pc, members, pending, tables>>

\* Every file is searched by itself.
EndFile ==
    /\ Reading("text") /\ item.kind = "end"
    /\ mark' = <<>>
    /\ NextItem
    /\ UNCHANGED <<input, plugins, pc, members, pending, tables>>

SkipBlock ==
    /\ Reading("text") /\ item.kind \in BlockKinds /\ mark = <<>>
    /\ NextItem
    /\ UNCHANGED <<input, plugins, pc, reading, tables>>

Enumerator(kind, name, tags) ==
    IF kind = "enum" THEN <<"TYPE_ENUM", Upper[name]>>
    ELSE IF "enum" \in DOMAIN tags THEN <<tags["enum"]>>
    ELSE <<"TYPE_STRUCT", Upper[name]>>

\* An enum(..) or @length without parentheses raises.
Malformed(kind, tags, tag) ==
    kind = "struct" /\ tag \in DOMAIN tags /\ tags[tag] = NoValue

Entered(map, n, e) == [m \in DOMAIN map \cup {n} |-> IF m = n THEN e ELSE map[m]]

\* Wrong on purpose: a type that has an enumerator keeps it.
DeclaredOnce(n, e) == IF n \in DOMAIN type_map THEN type_map ELSE Entered(type_map, n, e)

\* A declaration's enumerator replaces any earlier one.
Declared(n, e) == Entered(type_map, n, e)

OpenBlock ==
    /\ Reading("text") /\ item.kind \in BlockKinds /\ mark # <<>>
    /\ IF Malformed(item.kind, mark[1], "enum") THEN Raise
       ELSE /\ pc' = "body"
            /\ type_map' = Declared(Plain(item.name),
                                    Enumerator(item.kind, item.name, mark[1]))
            /\ members' = <<>> /\ pending' = <<>>
            /\ UNCHANGED <<input, plugins, at, mark, structs, enums, type_enum>>

Matches == Len(line.decl) = IF item.kind = "struct" THEN 2 ELSE 1

Member(tags) ==
    IF item.kind = "struct"
    THEN [name |-> line.decl[1], type |-> line.decl[2], tags |-> tags]
    ELSE [name |-> line.decl[1], tags |-> tags]

\* Wrong on purpose: a private member's tags go on to the next.
PendingAfterPrivate(tags) ==
    IF line.decl = <<>> \/ "private" \in DOMAIN tags THEN tags ELSE <<>>

PendingAfter(tags) == IF line.decl = <<>> THEN tags ELSE <<>>

ReadLine ==
    /\ Reading("body") /\ at[2] \in DOMAIN item.lines
    /\ LET tags == Merge(pending, line.tags)
           isMember == line.decl # <<>> /\ "private" \notin DOMAIN tags /\ Matches
       IN  IF isMember /\ Malformed(item.kind, tags, "length") THEN Raise
           ELSE /\ pending' = PendingAfter(tags)
                /\ members' = IF isMember THEN Append(members, Member(tags)) ELSE members
                /\ at' = <<at[1], at[2] + 1>>
                /\ UNCHANGED <<input, plugins, pc, mark, tables>>

\* add_cstruct, add_cenum: nothing happens to a name that is there.
AddIfUnique(kept, block) ==
    IF \E b \in Range(kept) : b.name = block.name THEN kept ELSE Append(kept, block)

CloseBlock ==
    /\ Reading("body") /\ at[2] \notin DOMAIN item.lines
    /\ LET block == [name |-> item.name, tags |-> mark[1], members |-> members]
       IN  IF item.kind = "struct"
           THEN structs' = AddIfUnique(structs, block) /\ UNCHANGED enums
           ELSE enums' = AddIfUnique(enums, block) /\ UNCHANGED structs
    /\ pc' = "text" /\ NextItem
    /\ mark' = <<>>
    /\ UNCHANGED <<input, plugins, members, pending, type_map, type_enum>>

EndOfFiles ==
    /\ pc = "text" /\ at[1] \notin DOMAIN input
    /\ pc' = "resolve"
    /\ at' = <<1, 1>>
    /\ UNCHANGED <<input, plugins, reading, tables>>

-----------------------------------------------------------------------------
(* Reflector.resolve                                                       *)

FieldsOf(s) == structs[s].members
Length(field) == IF "length" \in DOMAIN field.tags THEN field.tags["length"] ELSE ""

\* What the while loop visits: _arr is taken off, then star after star, and
\* void on its own is passed over.
Parents(n) ==
    {Pointer(n.base, k) : k \in IF n.arr THEN 0 .. n.stars ELSE 0 .. n.stars - 1}
    \ {Plain("void")}

Known(n) == n \in DOMAIN type_map /\ type_map[n] # UNKNOWN

\* Wrong on purpose: a type seen for the first time is entered, and the
\* field not told.
FieldEnumOfKnown(n) == IF Known(n) THEN type_map[n] ELSE UNKNOWN

FieldEnum(n) == IF Known(n) THEN type_map[n] ELSE Default(n)

\* Wrong on purpose: a length member has to come before its array.
HasLengthBefore(s, f) ==
    Length(FieldsOf(s)[f]) \in {""} \cup {FieldsOf(s)[g].name : g \in 1 .. f}

HasLength(s, f) ==
    Length(FieldsOf(s)[f]) \in {""} \cup {g.name : g \in Range(FieldsOf(s))}

ResolveField ==
    /\ pc = "resolve"
    /\ at[1] \in DOMAIN structs
    /\ at[2] \in DOMAIN FieldsOf(at[1])
    /\ LET n == FieldsOf(at[1])[at[2]].type
           own == IF Known(n) THEN type_map ELSE Entered(type_map, n, Default(n))
       IN  /\ type_enum' = Entered(type_enum, at, FieldEnum(n))
           /\ type_map' = Merge([m \in Parents(n) |-> Default(m)], own)
    /\ pc' = IF HasLength(at[1], at[2]) THEN pc ELSE "raised"
    /\ at' = <<at[1], at[2] + 1>>
    /\ UNCHANGED <<input, plugins, reading, structs, enums>>

NextStruct ==
    /\ pc = "resolve"
    /\ at[1] \in DOMAIN structs
    /\ at[2] \notin DOMAIN FieldsOf(at[1])
    /\ at' = <<at[1] + 1, 1>>
    /\ UNCHANGED <<input, plugins, pc, reading, tables>>

Builtin == [struct |-> {"reflect", "enum"}, enum |-> {"reflect", "enum", "unchecked"},
            field |-> {"private", "readonly", "writeonly", "length"},
            member |-> {"private"}]

\* The tags of a context that are built in or handled by a plugin
Registered(context) ==
    Builtin[context] \cup UNION {DOMAIN p.handlers[context] : p \in Range(plugins)}

Unregistered(blocks, own, inner) ==
    \E b \in Range(blocks) :
        \/ ~ DOMAIN b.tags \subseteq Registered(own)
        \/ \E m \in Range(b.members) : ~ DOMAIN m.tags \subseteq Registered(inner)

\* validate_tags looks at the kept blocks only.
Validate ==
    /\ pc = "resolve"
    /\ at[1] \notin DOMAIN structs
    /\ pc' = IF Unregistered(structs, "struct", "field") \/ Unregistered(enums, "enum", "member")
             THEN "raised" ELSE "done"
    /\ UNCHANGED <<input, plugins, at, reading, tables>>

Next ==
    \/ ReadText \/ EndFile \/ SkipBlock \/ OpenBlock \/ ReadLine \/ CloseBlock \/ EndOfFiles
    \/ ResolveField \/ NextStruct \/ Validate

Spec == Init /\ [][Next]_vars /\ WF_vars(Next)

-----------------------------------------------------------------------------
(* The generated functions, as relations: the cases a switch has for an    *)
(* enumerator (more than one does not compile).                            *)

TypesNamed(e) == {n \in DOMAIN type_map : type_map[n] = e}

\* get_struct_metadata: T and T_arr
struct_metadata(e) ==
    {s \in DOMAIN structs :
        \E n \in TypesNamed(e) : n.base = structs[s].name /\ n.stars = 0}

\* get_base_type: _arr or one star taken off, when the rest has a type
base_type(e) ==
    {type_map[m] : m \in {p \in DOMAIN type_map \ {Plain("unknown")} :
        \E n \in TypesNamed(e) :
            \/ n.arr /\ p = Pointer(n.base, n.stars)
            \/ ~n.arr /\ n.stars > 0 /\ p = Pointer(n.base, n.stars - 1)}}
    \ {e}

-----------------------------------------------------------------------------
(* Properties                                                              *)

\* What was read, said without reading it line by line: the tags of a set of
\* places, the last of each name.
Latest(places, S) ==
    [t \in UNION {DOMAIN places[k].tags : k \in S} |->
        places[Max({k \in S : t \in DOMAIN places[k].tags})].tags[t]]

Blocks == {i \in DOMAIN input : input[i].kind \in BlockKinds}
MarksOf(i) ==
    {j \in 1 .. i - 1 : /\ \A k \in j .. i - 1 : input[k].kind = "text"
                        /\ "reflect" \in DOMAIN input[j].tags}
Marked == {i \in Blocks : MarksOf(i) # {}}
BlockTags(i) == Latest(input, Min(MarksOf(i)) .. i - 1)
LineTags(lines, l) ==
    Latest(lines, {k \in 1 .. l : \A h \in k .. l - 1 : lines[h].decl = <<>>})

\* The lines of a block that have a member of it
MemberLines(i) ==
    LET lines == input[i].lines
    IN  {l \in DOMAIN lines : /\ Len(lines[l].decl) = IF input[i].kind = "struct" THEN 2 ELSE 1
                             /\ "private" \notin DOMAIN LineTags(lines, l)}

FirstOfName(kind) ==
    {i \in Marked : /\ input[i].kind = kind
                    /\ \A j \in Marked : j < i /\ input[j].kind = kind
                                          => input[j].name # input[i].name}

\* The place of i among the places S, in order
Rank(S, i) == Cardinality({j \in S : j <= i})

IsMember(member, i, l) ==
    LET lines == input[i].lines
    IN  /\ member.name = lines[l].decl[1]
        /\ input[i].kind = "struct" => member.type = lines[l].decl[2]
        /\ member.tags = LineTags(lines, l)

IsBlock(block, i) ==
    /\ block.name = input[i].name
    /\ block.tags = BlockTags(i)
    /\ Len(block.members) = Cardinality(MemberLines(i))
    /\ \A l \in MemberLines(i) : IsMember(block.members[Rank(MemberLines(i), l)], i, l)

\* The blocks kept are the marked ones, the first of each name, with the tags
\* between mark and typedef; a member has the tags of its own line and of the
\* comments directly above it, and no others: not those of a private member,
\* of another block or of a declaration in between.
KeptIsWhatIsMarked ==
    pc \in {"resolve", "done"} =>
        \A kind \in BlockKinds :
            LET kept == IF kind = "struct" THEN structs ELSE enums
                marked == FirstOfName(kind)
            IN  /\ Len(kept) = Cardinality(marked)
                /\ \A i \in marked : IsBlock(kept[Rank(marked, i)], i)

LastOfName(b) == Max({i \in Marked : input[i].name = b})
FieldTypes == {f.type : f \in UNION {Range(FieldsOf(s)) : s \in DOMAIN structs}}

\* What type_map must be in the end, whatever the order of files, blocks and
\* fields: the declared types, the types of the kept fields and the types
\* those are made of; a declared one with the enumerator of its last
\* declaration, any other with its default.
TypeMapIsTheClosure ==
    pc = "done" =>
        LET declared == {Plain(input[i].name) : i \in Marked}
            parts(n) == {Pointer(n.base, k) : k \in 0 .. n.stars}
        IN  type_map =
              [n \in {Plain("unknown")} \cup declared \cup FieldTypes
                     \cup ((UNION {parts(n) : n \in FieldTypes}) \ {Plain("void")}) |->
                  IF n \in declared
                  THEN Enumerator(input[LastOfName(n.base)].kind, n.base, BlockTags(LastOfName(n.base)))
                  ELSE Default(n)]

\* No two types were given one enumerator (by an enum(..) tag, or by names
\* that differ in case).
NoClash == \A m, n \in DOMAIN type_map : type_map[m] = type_map[n] => m = n

\* What module Registry and the JSON traversal take for granted: every field
\* has the enumerator its type has in the end; one of a struct type, or of an
\* array of it, leads to that struct's table and no other; one of any other
\* type to none; every array has its element type and every pointer, unless
\* to void, what it points to; a length member exists.
RegistryIsSound ==
    pc = "done" =>
        \A s \in DOMAIN structs : \A f \in DOMAIN FieldsOf(s) :
            LET n == FieldsOf(s)[f].type
                e == type_enum[<<s, f>>]
                length == Length(FieldsOf(s)[f])
            IN  /\ e = type_map[n] /\ e # UNKNOWN
                /\ length = "" \/ \E g \in Range(FieldsOf(s)) : g.name = length
                /\ NoClash =>
                    /\ struct_metadata(e) =
                          {t \in DOMAIN structs : n.base = structs[t].name /\ n.stars = 0}
                    /\ base_type(e) =
                          IF n.arr THEN {type_map[Pointer(n.base, n.stars)]}
                          ELSE IF n.stars = 0 \/ n = Pointer("void", 1) THEN {}
                          ELSE {type_map[Pointer(n.base, n.stars - 1)]}
=============================================================================
