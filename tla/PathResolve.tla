---------------------------- MODULE PathResolve ----------------------------
(***************************************************************************)
(* Path lookup of cmyreflection.h: resolve_path_internal, token by token,  *)
(* and its callers resolve_field_path(_ext), resolve_field_metadata and    *)
(* reflect_query.                                                          *)
(*                                                                         *)
(* A path is a sequence of segments, name or name[index].  Its text only   *)
(* matters where the code copies it into a buffer of fixed length.         *)
(***************************************************************************)
EXTENDS Registry, FiniteSets

CONSTANTS
    Roots,      \* the instances callers start from
    Paths,      \* the paths callers ask for
    NameLen,    \* characters of each name; "?" is a name cut short
    BufLen      \* characters resolve_path_internal keeps of a path: 255

Segment == [name : DOMAIN NameLen, bracket : BOOLEAN, index : Int]

ASSUME PathAssumption ==
    /\ Roots \subseteq Objects
    /\ Paths \subseteq Seq(Segment) \ {<<>>}
    /\ \A p \in Paths : \A k \in DOMAIN p :
          p[k].bracket \/ p[k].index = -1
    /\ BufLen \in Nat
    /\ NameLen \in [DOMAIN NameLen -> Nat]
    /\ "?" \in DOMAIN NameLen
    /\ \A f \in AllFields : f.name # "?"

VARIABLES
    pc,             \* "idle", or "loop" inside resolve_path_internal
    call,           \* the arguments of the call in progress
    tokens,         \* buffer[256], cut at the dots
    k,              \* position of token
    inst, meta,     \* current_instance, current_meta
    leaf, target,   \* the caller's out_leaf_field, and the pointer returned
    aindex,         \* the caller's out_array_index
    info            \* what resolve_field_metadata returned

vars == <<pc, call, tokens, k, inst, meta, leaf, target, aindex, info>>

-----------------------------------------------------------------------------
(* strncpy(buffer, path, 255)                                              *)

\* Indexes have one digit here: "[3]", or "[-3]".
IndexLen(seg) ==
    IF ~seg.bracket THEN 0 ELSE IF seg.index < 0 THEN 4 ELSE 3

Width(seg) == NameLen[seg.name] + IndexLen(seg)

NoIndex(name) == [name |-> name, bracket |-> FALSE, index |-> -1]

\* The first room characters of a segment.  A name cut short is taken to be
\* no member's name; atoi of "" or "-" is 0.
Cut(seg, room) ==
    LET digits == room - NameLen[seg.name] - 1
    IN  IF Width(seg) <= room THEN seg
        ELSE IF room < NameLen[seg.name] THEN NoIndex("?")
        ELSE IF digits < 0 THEN NoIndex(seg.name)
        ELSE IF digits = 0 \/ (digits = 1 /\ seg.index < 0)
             THEN [seg EXCEPT !.index = 0]
        ELSE seg

\* Characters before segment i, the dots included
Start(path, i) ==
    Cardinality(UNION {{j} \X (0 .. Width(path[j])) : j \in 1 .. i - 1})

Buffer(path) ==
    [i \in {j \in DOMAIN path : Start(path, j) <= BufLen} |->
        Cut(path[i], BufLen - Start(path, i))]

-----------------------------------------------------------------------------
NoCall == [api |-> "none", base |-> <<NULL, "">>, path |-> <<>>]

Init ==
    /\ pc = "idle"
    /\ call = NoCall
    /\ tokens = <<>> /\ k = 1
    /\ inst = NULL /\ meta = ""
    /\ leaf = NoField /\ target = NULL /\ aindex = -1
    /\ info = NoField

\* Callers keep using one leaf variable; the index and the returned metadata
\* are fresh for each call.
Fresh == aindex' = -1 /\ info' = NoField

Enter(api, base, root, path) ==
    /\ pc = "idle"
    /\ pc' = "loop"
    /\ call' = [api |-> api, base |-> base, path |-> path]
    /\ tokens' = Buffer(path)
    /\ k' = 1
    /\ inst' = root
    /\ meta' = base[2]
    /\ Fresh
    /\ UNCHANGED <<leaf, target>>

\* A call that returns before the loop
ReturnAtOnce ==
    /\ pc = "idle"
    /\ Fresh
    /\ UNCHANGED <<pc, call, tokens, k, inst, meta>>

CallExt(base, path) == Enter("ext", base, base[1], path)

CallPlain(base, path) == Enter("plain", base, base[1], path)

\* The metadata walk has no instance, and a leaf of its own that starts NULL.
CallMetadata(base, path) == Enter("metadata", base, NULL, path)

\* resolve_field_path with a NULL instance
CallNull ==
    /\ ReturnAtOnce
    /\ target' = NULL
    /\ UNCHANGED leaf

IsSimple(path) == Len(path) = 1 /\ ~path[1].bracket

\* Wrong on purpose: a miss does not clear the pointer.
QueryFastUnchecked(base, path) ==
    /\ IsSimple(path)
    /\ ReturnAtOnce
    /\ leaf' = FindField(base[2], path[1].name)
    /\ target' = base[1]

\* reflect_query, the fast path: no '.' and no '[', no copy, and a miss
\* clears the caller's field
QueryFast(base, path) ==
    /\ IsSimple(path)
    /\ ReturnAtOnce
    /\ leaf' = FindField(base[2], path[1].name)
    /\ target' = IF leaf' = NoField THEN NULL ELSE base[1]

QuerySlow(base, path) ==
    /\ ~IsSimple(path)
    /\ Enter("query", base, base[1], path)

-----------------------------------------------------------------------------
(* One turn of the while loop.                                             *)

tok == tokens[k]
field == FindField(meta, tok.name)

\* Wrong on purpose: the end of the path is missed.
HasNextAlways == k \in DOMAIN tokens

HasNext == k + 1 \in DOMAIN tokens

\* Wrong on purpose: an index equal to the count passes.
FoundOffByOne == field # NoField /\ ~(tok.index >= 0 /\ tok.index > field.count)

Found == field # NoField /\ ~(tok.index >= 0 /\ tok.index >= field.count)

\* The locals go with the call.
Return ==
    /\ pc' = "idle"
    /\ call' = NoCall
    /\ tokens' = <<>> /\ k' = 1
    /\ inst' = NULL /\ meta' = ""

\* Wrong on purpose: the pointer is left too.
FailKeepingTarget ==
    /\ Return
    /\ IF call.api = "metadata"
       THEN info' = NoField /\ UNCHANGED <<target, leaf, aindex>>
       ELSE UNCHANGED <<target, leaf, aindex, info>>

\* A failure leaves leaf and aindex as the caller had them.
Fail ==
    /\ Return
    /\ IF call.api = "metadata"
       THEN info' = NoField /\ UNCHANGED <<target, leaf, aindex>>
       ELSE target' = NULL /\ UNCHANGED <<leaf, aindex, info>>

NotFound ==
    /\ pc = "loop"
    /\ ~Found
    /\ Fail

\* Wrong on purpose: the loop goes round on the same token.
NotAStructStuck ==
    /\ pc = "loop"
    /\ Found /\ HasNext
    /\ ~HasMetadata(field.type)
    /\ UNCHANGED vars

\* Pointers and scalars have no metadata to go on with.
NotAStruct ==
    /\ pc = "loop"
    /\ Found /\ HasNext
    /\ ~HasMetadata(field.type)
    /\ Fail

\* Wrong on purpose: the index is parsed and not added.
DescendToFirst ==
    /\ pc = "loop"
    /\ Found /\ HasNext
    /\ HasMetadata(field.type)
    /\ inst' = IF inst = NULL THEN NULL ELSE inst + field.offset
    /\ meta' = StructOf[field.type]
    /\ k' = k + 1
    /\ UNCHANGED <<pc, call, tokens, leaf, target, aindex, info>>

Descend ==
    /\ pc = "loop"
    /\ Found /\ HasNext
    /\ HasMetadata(field.type)
    /\ inst' = IF inst = NULL THEN NULL
               ELSE inst + field.offset
                    + (IF tok.index >= 0 THEN tok.index * ElemSize(field) ELSE 0)
    /\ meta' = StructOf[field.type]
    /\ k' = k + 1
    /\ UNCHANGED <<pc, call, tokens, leaf, target, aindex, info>>

Leaf ==
    /\ pc = "loop"
    /\ Found /\ ~HasNext
    /\ Return
    /\ IF call.api = "metadata"
       THEN info' = field /\ UNCHANGED <<leaf, target, aindex>>
       ELSE /\ leaf' = field
            /\ target' = inst
            /\ aindex' = IF call.api = "ext" THEN tok.index ELSE aindex
            /\ UNCHANGED info

Step == NotFound \/ NotAStruct \/ Descend \/ Leaf

Call ==
    \E path \in Paths :
        \/ \E base \in Roots :
              \/ CallExt(base, path)
              \/ CallPlain(base, path)
              \/ CallMetadata(base, path)
              \/ QueryFast(base, path)
              \/ QuerySlow(base, path)

Next == Call \/ CallNull \/ Step

\* A call in progress runs on: the loop is straight-line code of one thread.
Spec == Init /\ [][Next]_vars /\ WF_vars(Step)

-----------------------------------------------------------------------------
(* Properties                                                              *)

\* The locals and the caller's variables have the types the C code gives
\* them.
TypeOK ==
    /\ pc \in {"idle", "loop"}
    /\ \A i \in DOMAIN tokens : tokens[i] \in Segment
    /\ pc = "loop" => k \in DOMAIN tokens
    /\ inst \in Addr \cup {NULL}
    /\ leaf \in AllFields \cup {NoField}
    /\ target \in Addr \cup {NULL}
    /\ aindex \in Int
    /\ info \in AllFields \cup {NoField}

\* The walk never leaves the instances: at every token current_instance is
\* the address of an instance of the struct whose table is searched.
WalkInsideObjects ==
    pc = "loop" /\ inst # NULL => <<inst, meta>> \in Objects

\* A lookup that returns a pointer returns it together with a member of the
\* struct that lives there, whatever earlier lookups left in the caller's
\* variables; so an accessor given the pair stays inside the instance.
HandleValid ==
    target # NULL =>
        \E v \in Views : v[1][1] = target /\ v[2] = leaf

\* resolve_field_path_ext hands out no index that get_array_element would
\* have to refuse, a negative one apart (it stands for no index).
IndexUsable ==
    aindex # -1 => target # NULL /\ aindex < leaf.count

\* Every lookup returns.
LookupReturns == pc = "loop" ~> pc = "idle"

\* PathResolve implements PathLookup, for what the buffer keeps of the path
\* (reflect_query's fast path makes no copy).
Kept == [p \in Paths |-> Buffer(p)]
KeptPaths == Paths \cup {Kept[p] : p \in Paths}
CallKept == IF call = NoCall THEN call ELSE [call EXCEPT !.path = Kept[@]]
Abstract == INSTANCE PathLookup WITH Paths <- KeptPaths, call <- CallKept
ImplementsLookup == Abstract!Spec

\* Header, "Pointer to the resolved struct, or NULL if not found": a path
\* too long for the buffer denotes what its whole text denotes.
LongPathsResolveWhole ==
    [][pc = "loop" /\ pc' = "idle" /\ call.api # "metadata" /\ target' # NULL
          => \E t \in StructTypes :
                Abstract!Denotes(call.base, call.path, <<target', t>>, leaf')]_vars
=============================================================================
