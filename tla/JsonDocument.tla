---------------------------- MODULE JsonDocument ----------------------------
(***************************************************************************)
(* What to_json is to write, said without a traversal: the document of a   *)
(* value is made of the documents of its parts.                            *)
(***************************************************************************)
EXTENDS ToJson, SequencesExt

\* A mark is put between two texts, if there are two.
Followed(before, mark, part) ==
    IF before = <<>> \/ part = <<>> THEN before \o part ELSE before \o mark \o part

\* The parts, up to each of them, with the mark between them
Joined(parts, mark) ==
    LET upTo[n \in {0} \cup DOMAIN parts] ==
            IF n = 0 THEN <<>> ELSE Followed(upTo[n - 1], mark, parts[n])
    IN  upTo

Join(parts, mark) == Joined(parts, mark)[Len(parts)]

\* What values there are: where, of which type, seen through which field
Seen ==
    {v \in (Addr \cup {NULL}) \X STRING \X (FieldInfo \cup {NoField}) :
        v[1] # NULL /\ HasMetadata(v[2]) => <<v[1], StructOf[v[2]]>> \in Objects}

\* A member that is written as one value, the value, and the elements of one
\* that is written as an array: where they start, how many there are.
\* An array of one element is written as the element.
IsOne(f) == f.type \in StringTypes \/ (~IsDynamic(f) /\ f.count = 1)

One(inst, f) == <<IF inst = NULL THEN NULL ELSE inst + f.offset, f.type, f>>

Start(m, inst, f) == IF IsDynamic(f) THEN m[inst + f.offset] ELSE inst + f.offset

Count(m, inst, parent, f) ==
    IF IsDynamic(f) THEN Access!Length(m, inst, parent, f) ELSE f.count

Element(start, base, f, i) == <<start + (i - 1) * get_type_size(base), base, f>>

\* The documents of n elements and of the members of an instance, given
\* those of their parts; what may not be read has none.
ElementDocuments(documents, start, base, f, n) ==
    [i \in 1 .. n |-> IF start = NULL THEN Text("null")
                      ELSE documents[Element(start, base, f, i)]]

MemberDocument(m, documents, inst, parent, f) ==
    LET base == get_base_type(f.type)
    IN  IF IsOne(f) THEN documents[One(inst, f)]
        ELSE IF inst = NULL THEN Token("schema", base)
        ELSE Text("[")
             \o Join(ElementDocuments(documents, Start(m, inst, f), base, f,
                                      Count(m, inst, parent, f)), Text(","))
             \o Text("]")

MemberDocuments(m, documents, inst, type) ==
    LET members == Fields[StructOf[type]]
        name(f) == IF f \in DOMAIN KeyName THEN KeyName[f] ELSE f.name
    IN  [i \in DOMAIN members |->
            IF "READ" \notin members[i].flags THEN <<>>
            ELSE Token("key", name(members[i]))
                 \o MemberDocument(m, documents, inst, type, members[i])]

\* The document of a value, given those of its parts
DocumentOf(m, documents, v) ==
    LET ptr == v[1]
        type == v[2]
    IN  IF type \in CustomTypes /\ ptr # NULL THEN Token("custom", type)
        ELSE IF HasMetadata(type)
        THEN Text("{") \o Join(MemberDocuments(m, documents, ptr, type), Text(",")) \o Text("}")
        ELSE IF ptr = NULL THEN <<<<"name", type, TRUE>>>>
        ELSE IF type \in StringTypes
        THEN Token("string", IF type \in InlineStrings THEN ptr
                             ELSE IF v[3] = NoField THEN NULL ELSE m[ptr])
        ELSE IF v[3] = NoField THEN <<<<"name", type, FALSE>>>>
        ELSE IF type \in Unprintable THEN Token("unsupported", type)
        ELSE <<<<"value", ptr, type>>>>

\* The documents of all values, when no instance is part of itself
Documents(m) ==
    LET documents[v \in Seen] == DocumentOf(m, documents, v)
    IN  documents

Asked == Documents(mem)[<<asked[1], asked[2], NoField>>]

-----------------------------------------------------------------------------
(* Properties                                                              *)

\* What is written is the document asked for, when it is all written, and a
\* beginning of it before: every brace and bracket closed, commas where they
\* belong, each readable member once, nothing of the others.
OutputIsTheDocument ==
    asked # <<>> =>
        IF stack = <<>> THEN out = Asked ELSE IsPrefix(out, Asked)

\* The text at start, up to its NUL
Chars(m, start, n) == [i \in 1 .. n |-> Escaped(m[start + i - 1])]

StringLength(m, start) ==
    CHOOSE n \in 0 .. Top : m[start + n] = 0 /\ \A i \in 0 .. n - 1 : m[start + i] # 0

StringText(m, start) ==
    IF start = NULL THEN <<"n", "u", "l", "l">>
    ELSE <<"'">> \o Join(Chars(m, start, StringLength(m, start)), <<>>) \o <<"'">>

\* The text of a document
TokenText(t) ==
    CASE t[1] = "string" -> StringText(mem, t[2])
      [] t[1] = "custom" -> <<"serialized">>
      [] OTHER -> TextOf(t)

TokenTexts(document) == [i \in DOMAIN document |-> TokenText(document[i])]

\* What to_json leaves in the buffer is the text of the document of the
\* value asked for: whole when it fits, its longest beginning that leaves
\* room for the NUL when it does not.
TextArrives ==
    phase = "idle" /\ asked # <<>> =>
        LET text == Join(TokenTexts(Asked), <<>>)
            kept == Kept(text, ctx.capacity)
        IN  /\ ctx.buf[kept] = NUL
            /\ \A i \in 0 .. kept - 1 : ctx.buf[i] = text[i + 1]

-----------------------------------------------------------------------------
(* The data that have documents                                            *)

Instances == Objects \cup {<<NULL, t>> : t \in StructTypes}

\* The values that a readable member of an instance is made of
Parts(m, inst, f) ==
    IF IsOne(f) THEN {One(inst[1], f)}
    ELSE IF inst[1] = NULL \/ Start(m, inst[1], f) = NULL THEN {}
    ELSE {Element(Start(m, inst[1], f), get_base_type(f.type), f, i) :
             i \in 1 .. Count(m, inst[1], inst[2], f)}

\* Those that are written as structs are nested less deep than the instance.
Nested(m, depth) ==
    \A inst \in Instances : \A f \in FieldsOf(inst[2]) :
        "READ" \in f.flags =>
            \A v \in Parts(m, inst, f) :
                HasMetadata(v[2]) /\ ~json_serialize_custom(v[1], v[2]) =>
                    depth[<<v[1], StructOf[v[2]]>>] < depth[inst]

\* No instance is part of itself, directly or by way of others.
NoCycle(m) ==
    \E bound \in Nat : \E depth \in [Instances -> 0 .. bound] : Nested(m, depth)

NoCycles == \A m \in Boots : NoCycle(m)

\* No formatted piece is longer than three words: all of them fit scratch.
PiecesFit == Scratch > 3
=============================================================================
