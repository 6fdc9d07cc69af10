---------------------------- MODULE FieldAccess ----------------------------
(***************************************************************************)
(* The accessors of cmyreflection.h: the functions and the typed macros    *)
(* through which a program reads and writes reflected instances.           *)
(*                                                                         *)
(* Each C function is an operator that takes the memory and its arguments  *)
(* and returns an outcome: the ReflectResult, the cells whose contents     *)
(* reach the caller (rd), the cells memcpy writes (wr) and the new memory. *)
(* Functions that call others are operators that use theirs.               *)
(***************************************************************************)
EXTENDS Registry

CONSTANTS
    Members,    \* checked enum types: type -> the values its validator accepts
    ElemType,   \* T_arr and T* -> T
    Boot,       \* the memory before the first call
    Values,     \* data the callers write
    MaxCopy,    \* longest source buffer; bounds the raw sizes and counts
    NoSrc,      \* the NULL source buffer
    CarefulReaders  \* whether callers of get_dynamic_* mind the length

\* No caller's buffer is shorter than what it is asked to hold; MaxCopy
\* covers every member.
ASSUME AccessAssumption ==
    /\ SizeOf \in [DOMAIN SizeOf -> Nat \ {0}]
    /\ ElemType \in [DOMAIN ElemType -> DOMAIN SizeOf]
    /\ DOMAIN Members \subseteq DOMAIN SizeOf
    /\ Boot \in [Addr -> Cell]
    /\ Values \subseteq Cell
    /\ MaxCopy \in Nat
    /\ \A f \in AllFields : f.size <= MaxCopy
    /\ NoSrc \notin [0 .. MaxCopy - 1 -> Cell]
    /\ CarefulReaders \in BOOLEAN

VARIABLES
    mem,    \* the memory
    res,    \* what the last call returned
    rd, wr  \* the cells the last call disclosed, and those it wrote

vars == <<mem, res, rd, wr>>

-----------------------------------------------------------------------------
Err(m, e) == [res |-> e, rd |-> {}, wr |-> {}, mem |-> m]

CopyIn(m, dst, src, n) ==
    [res |-> "OK", rd |-> {}, wr |-> Span(dst, n),
     mem |-> [a \in Addr |-> IF a \in Span(dst, n) THEN src[a - dst] ELSE m[a]]]

CopyOut(m, from, n) ==
    [res |-> "OK", rd |-> Span(from, n), wr |-> {}, mem |-> m]

\* Wrong on purpose: the WRITE flag is not looked at.
set_field_valueUnflagged(m, inst, f, src, n) ==
    IF inst = NULL \/ f = NoField \/ src = NoSrc THEN Err(m, "NULL_PTR")
    ELSE IF n > f.size THEN Err(m, "OUT_OF_BOUNDS")
    ELSE CopyIn(m, inst + f.offset, src, n)

set_field_value(m, inst, f, src, n) ==
    IF inst = NULL \/ f = NoField \/ src = NoSrc THEN Err(m, "NULL_PTR")
    ELSE IF "WRITE" \notin f.flags THEN Err(m, "ACCESS_DENIED")
    ELSE IF n > f.size THEN Err(m, "OUT_OF_BOUNDS")
    ELSE CopyIn(m, inst + f.offset, src, n)

\* Wrong on purpose: the READ flag is not looked at.
get_field_valueUnflagged(m, inst, f, n) ==
    IF inst = NULL \/ f = NoField THEN Err(m, "NULL_PTR")
    ELSE IF n > f.size THEN Err(m, "OUT_OF_BOUNDS")
    ELSE CopyOut(m, inst + f.offset, n)

get_field_value(m, inst, f, n) ==
    IF inst = NULL \/ f = NoField THEN Err(m, "NULL_PTR")
    ELSE IF "READ" \notin f.flags THEN Err(m, "ACCESS_DENIED")
    ELSE IF n > f.size THEN Err(m, "OUT_OF_BOUNDS")
    ELSE CopyOut(m, inst + f.offset, n)

\* Wrong on purpose: the element read is always the first.
get_array_elementFirst(m, inst, f, i, n) ==
    IF inst = NULL \/ f = NoField THEN Err(m, "NULL_PTR")
    ELSE IF "READ" \notin f.flags THEN Err(m, "ACCESS_DENIED")
    ELSE IF i >= f.count THEN Err(m, "OUT_OF_BOUNDS")
    ELSE IF n # ElemSize(f) THEN Err(m, "TYPE_MISMATCH")
    ELSE CopyOut(m, inst + f.offset, n)

get_array_element(m, inst, f, i, n) ==
    IF inst = NULL \/ f = NoField THEN Err(m, "NULL_PTR")
    ELSE IF "READ" \notin f.flags THEN Err(m, "ACCESS_DENIED")
    ELSE IF i >= f.count THEN Err(m, "OUT_OF_BOUNDS")
    ELSE IF n # ElemSize(f) THEN Err(m, "TYPE_MISMATCH")
    ELSE CopyOut(m, inst + f.offset + i * ElemSize(f), n)

-----------------------------------------------------------------------------
(* Dynamic arrays: the member holds a pointer, a sibling holds the length. *)

\* Unsigned little-endian loads; other widths are refused below.
Load1(m, a) == m[a]
Load2(m, a) == Load1(m, a) + 256 * Load1(m, a + 1)
Load4(m, a) == Load2(m, a) + 65536 * Load2(m, a + 2)
Load8(m, a) == Load4(m, a) + 65536 * (65536 * Load4(m, a + 4))

LoadUnsigned(m, a, n) ==
    CASE n = 1 -> Load1(m, a)
      [] n = 2 -> Load2(m, a)
      [] n = 4 -> Load4(m, a)
      [] n = 8 -> Load8(m, a)

LengthField(parent, f) == FindField(StructOf[parent], f.length)

\* The checks of get_dynamic_array_length, and the length it stores
LengthResult(inst, parent, f) ==
    IF inst = NULL \/ f = NoField THEN "NULL_PTR"
    ELSE IF ~IsDynamic(f) THEN "TYPE_MISMATCH"
    ELSE IF ~HasMetadata(parent) THEN "TYPE_INVALID"
    ELSE IF LengthField(parent, f) = NoField THEN "NOT_FOUND"
    ELSE IF LengthField(parent, f).size \notin {1, 2, 4, 8} THEN "TYPE_MISMATCH"
    ELSE "OK"

LengthSpan(inst, parent, f) ==
    Span(inst + LengthField(parent, f).offset, LengthField(parent, f).size)

Length(m, inst, parent, f) ==
    LoadUnsigned(m, inst + LengthField(parent, f).offset,
                 LengthField(parent, f).size)

get_dynamic_array_length(m, inst, parent, f) ==
    IF LengthResult(inst, parent, f) # "OK"
    THEN Err(m, LengthResult(inst, parent, f))
    ELSE CopyOut(m, inst + LengthField(parent, f).offset,
                 LengthField(parent, f).size)

\* Neither of these two looks at the length.
set_dynamic_array_data(m, inst, f, src, n) ==
    IF inst = NULL \/ f = NoField \/ src = NoSrc THEN Err(m, "NULL_PTR")
    ELSE IF "WRITE" \notin f.flags THEN Err(m, "ACCESS_DENIED")
    ELSE IF ~IsDynamic(f) THEN Err(m, "TYPE_MISMATCH")
    ELSE IF m[inst + f.offset] = NULL THEN Err(m, "NULL_PTR")
    ELSE CopyIn(m, m[inst + f.offset], src, n)

get_dynamic_array_data(m, inst, f, n) ==
    IF inst = NULL \/ f = NoField THEN Err(m, "NULL_PTR")
    ELSE IF "READ" \notin f.flags THEN Err(m, "ACCESS_DENIED")
    ELSE IF ~IsDynamic(f) THEN Err(m, "TYPE_MISMATCH")
    ELSE IF m[inst + f.offset] = NULL THEN Err(m, "NULL_PTR")
    ELSE CopyOut(m, m[inst + f.offset], n)

-----------------------------------------------------------------------------
(* The macros: one instance per type T of the generated type map.          *)

\* Wrong on purpose: the validator is left out.
set_fieldUnvalidated(T, m, inst, f, src) ==
    IF inst = NULL \/ f = NoField THEN Err(m, "NULL_PTR")
    ELSE IF f.type # T THEN Err(m, "TYPE_MISMATCH")
    ELSE set_field_value(m, inst, f, src, SizeOf[T])

\* DEFINE_FIELD_SETTER, and DEFINE_ENUM_SETTER for a checked enum
set_field(T, m, inst, f, src) ==
    IF inst = NULL \/ f = NoField THEN Err(m, "NULL_PTR")
    ELSE IF f.type # T THEN Err(m, "TYPE_MISMATCH")
    ELSE IF T \in DOMAIN Members /\ src[0] \notin Members[T]
         THEN Err(m, "ENUM_INVALID")
    ELSE set_field_value(m, inst, f, src, SizeOf[T])

\* DEFINE_FIELD_GETTER
get_field(T, m, inst, f) ==
    IF inst = NULL \/ f = NoField THEN Err(m, "NULL_PTR")
    ELSE IF f.type # T THEN Err(m, "TYPE_MISMATCH")
    ELSE get_field_value(m, inst, f, SizeOf[T])

\* DEFINE_ARRAY_SETTER
set_field_arr(T, m, inst, f, src, count) ==
    IF inst = NULL \/ f = NoField THEN Err(m, "NULL_PTR")
    ELSE IF f.type # T THEN Err(m, "TYPE_MISMATCH")
    ELSE IF count > f.count THEN Err(m, "OUT_OF_BOUNDS")
    ELSE set_field_value(m, inst, f, src, count * SizeOf[ElemType[T]])

\* DEFINE_ARRAY_GETTER
get_field_arr(T, m, inst, f, count) ==
    IF inst = NULL \/ f = NoField THEN Err(m, "NULL_PTR")
    ELSE IF f.type # T THEN Err(m, "TYPE_MISMATCH")
    ELSE IF count > f.count THEN Err(m, "OUT_OF_BOUNDS")
    ELSE get_field_value(m, inst, f, count * SizeOf[ElemType[T]])

\* DEFINE_ARRAY_ELEM_GETTER
get_field_elem(T, m, inst, f, i) ==
    IF inst = NULL \/ f = NoField THEN Err(m, "NULL_PTR")
    ELSE IF f.type # T THEN Err(m, "TYPE_MISMATCH")
    ELSE get_array_element(m, inst, f, i, SizeOf[ElemType[T]])

\* Wrong on purpose: the length is got and not compared.
set_dynamicUnbounded(S, g, m, inst, f, src, count) ==
    IF inst = NULL \/ f = NoField THEN Err(m, "NULL_PTR")
    ELSE IF f.type # g.type THEN Err(m, "TYPE_MISMATCH")
    ELSE IF LengthResult(inst, S, f) # "OK" THEN Err(m, LengthResult(inst, S, f))
    ELSE set_dynamic_array_data(m, inst, f, src, count * SizeOf[ElemType[g.type]])

\* DEFINE_DYNAMIC_ARRAY_SETTER for the member g of struct type S
set_dynamic(S, g, m, inst, f, src, count) ==
    IF inst = NULL \/ f = NoField THEN Err(m, "NULL_PTR")
    ELSE IF f.type # g.type THEN Err(m, "TYPE_MISMATCH")
    ELSE IF LengthResult(inst, S, f) # "OK" THEN Err(m, LengthResult(inst, S, f))
    ELSE IF count > Length(m, inst, S, f) THEN Err(m, "OUT_OF_BOUNDS")
    ELSE set_dynamic_array_data(m, inst, f, src, count * SizeOf[ElemType[g.type]])

\* DEFINE_DYNAMIC_ARRAY_GETTER: no length here
get_dynamic(S, g, m, inst, f, count) ==
    IF inst = NULL \/ f = NoField THEN Err(m, "NULL_PTR")
    ELSE IF f.type # g.type THEN Err(m, "TYPE_MISMATCH")
    ELSE get_dynamic_array_data(m, inst, f, count * SizeOf[ElemType[g.type]])

\* Wrong on purpose: a bool comes out where a ReflectResult should.
safe_set_fieldBool(m, inst, f, src, count) ==
    IF inst = NULL \/ f = NoField \/ src = NoSrc THEN Err(m, "false")
    ELSE IF f.type \in DOMAIN SizeOf THEN set_field(f.type, m, inst, f, src)
    ELSE IF f.type \in DOMAIN ElemType
         THEN set_field_arr(f.type, m, inst, f, src, count)
    ELSE Err(m, "TYPE_INVALID")

\* The generated dispatch on field->type.  Its guard says "return false",
\* and false converts to REFLECT_OK.
safe_set_field(m, inst, f, src, count) ==
    IF inst = NULL \/ f = NoField \/ src = NoSrc THEN Err(m, "OK")
    ELSE IF f.type \in DOMAIN SizeOf THEN set_field(f.type, m, inst, f, src)
    ELSE IF f.type \in DOMAIN ElemType
         THEN set_field_arr(f.type, m, inst, f, src, count)
    ELSE Err(m, "TYPE_INVALID")

-----------------------------------------------------------------------------
(* The callers.  They pass any address of an instance with any entry of    *)
(* its table, or NULL for either.  What a C caller must not do is pass an  *)
(* entry of another struct's table, or a buffer shorter than the size it   *)
(* states: no check is possible in the callee.  A NULL instance is refused *)
(* before the entry is looked at, so one entry per table is enough there.  *)

Counts == 0 .. MaxCopy

Handles == {<<v[1][1], v[1][2], v[2]>> : v \in Views}
           \cup {<<NULL, t, Fields[t][1]>> : t \in StructTypes}
           \cup {<<v[1][1], v[1][2], NoField>> : v \in Views}

Repeat(c) == [i \in 0 .. MaxCopy - 1 |-> c]

\* What a caller may store in a T: a copy of an instance, a pointer to a
\* block, or plain data
SourcesFor(T) ==
    IF T \in StructTypes
    THEN {[i \in 0 .. MaxCopy - 1 |-> IF o[1] + i \in Addr THEN mem[o[1] + i] ELSE 0]
             : o \in {p \in Objects : p[2] = T}}
    ELSE IF T \in DOMAIN ElemType /\ T \in DOMAIN SizeOf
         THEN {Repeat(b) : b \in DOMAIN BlockSize \cup {NULL}}
    ELSE {Repeat(c) : c \in Values}

\* Dynamic arrays and the part of their block the length vouches for
Dynamic == UNION {{o} \X {f \in FieldsOf(o[2]) : IsDynamic(f)} : o \in Objects}
Pointer(m, v) == m[v[1][1] + v[2].offset]
LiveCount(m, v) == Length(m, v[1][1], v[1][2], v[2])
LiveCells(m, v) ==
    Span(Pointer(m, v), LiveCount(m, v) * SizeOf[ElemType[v[2].type]])

\* The owner of a dynamic array keeps its length and its block in step: a
\* caller that stores a pointer or a length through a field keeps it so.
HonestLengths(m) ==
    \A v \in Dynamic :
        \/ Pointer(m, v) = NULL
        \/ /\ Pointer(m, v) \in DOMAIN BlockSize
           /\ LiveCells(m, v) \subseteq BlockCells(Pointer(m, v))

\* What is assumed of the declarations: the length member of a dynamic array
\* exists (the generator sees to that) and is 1, 2, 4 or 8 wide, the array
\* itself is a pointer, and the program starts with honest lengths.
ASSUME DynamicAssumption ==
    /\ \A v \in Dynamic : LengthResult(v[1][1], v[1][2], v[2]) = "OK"
    /\ \A f \in AllFields : IsDynamic(f) => f.type \in DOMAIN ElemType
    /\ HonestLengths(Boot)

-----------------------------------------------------------------------------
Do(outcome) ==
    /\ mem' = outcome.mem
    /\ res' = outcome.res
    /\ rd' = outcome.rd
    /\ wr' = outcome.wr

Init ==
    /\ mem = Boot
    /\ res = "OK"
    /\ rd = {}
    /\ wr = {}

SetField(T, h, src) ==
    /\ Do(set_field(T, mem, h[1], h[3], src))
    /\ HonestLengths(mem')

SetFieldArr(T, h, src, n) ==
    /\ Do(set_field_arr(T, mem, h[1], h[3], src, n))
    /\ HonestLengths(mem')

SafeSetField(h, src, n) ==
    /\ Do(safe_set_field(mem, h[1], h[3], src, n))
    /\ HonestLengths(mem')

GetField(T, h) == Do(get_field(T, mem, h[1], h[3]))

GetFieldArr(T, h, n) == Do(get_field_arr(T, mem, h[1], h[3], n))

GetFieldElem(T, h, i) == Do(get_field_elem(T, mem, h[1], h[3], i))

GetLength(h) == Do(get_dynamic_array_length(mem, h[1], h[2], h[3]))

SetDynamic(g, h, src, n) ==
    /\ n * SizeOf[ElemType[g.type]] <= MaxCopy
    /\ Do(set_dynamic(h[2], g, mem, h[1], h[3], src, n))

\* Nothing in get_dynamic_* stops a count beyond the length; a careful
\* caller asks get_dynamic_array_length first.
GetDynamic(g, h, n) ==
    /\ CarefulReaders /\ LengthResult(h[1], h[2], h[3]) = "OK"
          => n <= Length(mem, h[1], h[2], h[3])
    /\ Do(get_dynamic(h[2], g, mem, h[1], h[3], n))

\* The untyped functions the macros are made of are public too.
RawSet(h, src, n) ==
    /\ Do(set_field_value(mem, h[1], h[3], src, n))
    /\ HonestLengths(mem')

RawGet(h, n) == Do(get_field_value(mem, h[1], h[3], n))

RawGetElem(h, i, n) == Do(get_array_element(mem, h[1], h[3], i, n))

\* write_size and read_size are the caller's word.
FitsArray(h, n) ==
    LengthResult(h[1], h[2], h[3]) = "OK"
        => n <= Length(mem, h[1], h[2], h[3]) * SizeOf[ElemType[h[3].type]]

RawSetDynamic(h, src, n) ==
    /\ FitsArray(h, n)
    /\ Do(set_dynamic_array_data(mem, h[1], h[3], src, n))

RawGetDynamic(h, n) ==
    /\ FitsArray(h, n)
    /\ Do(get_dynamic_array_data(mem, h[1], h[3], n))

ScalarTypes == DOMAIN SizeOf
ArrayTypes == {T \in DOMAIN ElemType : T \notin DOMAIN SizeOf}
DataSources == {Repeat(c) : c \in Values}
DynamicHandles == {h \in Handles : h[3] = NoField \/ IsDynamic(h[3])}

\* Calls of the typed macros and of safe_set_field
TypedNext ==
    \E h \in Handles :
        \/ \E T \in ScalarTypes :
              \/ \E src \in SourcesFor(T) : SetField(T, h, src)
              \/ GetField(T, h)
        \/ \E T \in ArrayTypes, n \in Counts :
              \/ \E src \in DataSources : SetFieldArr(T, h, src, n)
              \/ GetFieldArr(T, h, n)
              \/ GetFieldElem(T, h, n)
        \/ \E n \in Counts : SafeSetField(h, NoSrc, n)
        \/ /\ h[3] # NoField
           /\ \E src \in SourcesFor(h[3].type), n \in Counts :
                 SafeSetField(h, src, n)
        \/ GetLength(h)
        \/ /\ h \in DynamicHandles
           /\ \E g \in {f \in FieldsOf(h[2]) : IsDynamic(f)}, n \in Counts :
                 \/ \E src \in DataSources \cup {NoSrc} : SetDynamic(g, h, src, n)
                 \/ GetDynamic(g, h, n)

\* Calls of the untyped functions
RawNext ==
    \E h \in Handles, n \in Counts :
        \/ \E src \in DataSources \cup {NoSrc} : RawSet(h, src, n)
        \/ RawGet(h, n)
        \/ \E i \in Counts : RawGetElem(h, i, n)
        \/ \E src \in DataSources \cup {NoSrc} : RawSetDynamic(h, src, n)
        \/ RawGetDynamic(h, n)

Next == TypedNext \/ RawNext

Spec == Init /\ [][Next]_vars

-----------------------------------------------------------------------------
(* Properties                                                              *)

\* The memory stays a total map of cells and every result is a
\* ReflectResult.
TypeOK ==
    /\ mem \in [Addr -> Cell]
    /\ res \in Results
    /\ rd \subseteq Int
    /\ wr \subseteq Int

\* No accessor writes outside the members it may write: every cell memcpy
\* stores to lies in a field with the WRITE flag, or in the live part of
\* the block a writable dynamic array points to.
WritesAuthorized ==
    \A a \in wr :
        \/ \E v \in ViewsWith("WRITE") : a \in Extent(v)
        \/ \E v \in Dynamic \cap ViewsWith("WRITE") :
              Pointer(mem, v) # NULL /\ a \in LiveCells(mem, v)

\* No accessor hands out what the caller may not see: every cell memcpy
\* copies to the caller lies in a field with the READ flag, in the live part
\* of a readable dynamic array, or is the length member of one.
ReadsAuthorized ==
    \A a \in rd :
        \/ \E v \in ViewsWith("READ") : a \in Extent(v)
        \/ \E v \in Dynamic \cap ViewsWith("READ") :
              Pointer(mem, v) # NULL /\ a \in LiveCells(mem, v)
        \/ \E v \in Dynamic : a \in LengthSpan(v[1][1], v[1][2], v[2])

\* Cells that no writable field and no block covers: read-only members,
\* private members, padding, and whatever lies between the instances
Frozen ==
    {a \in Addr :
        /\ \A v \in ViewsWith("WRITE") : a \notin Extent(v)
        /\ \A b \in DOMAIN BlockSize : a \notin BlockCells(b)}

\* Whatever calls are made, in whatever order, those cells keep the values
\* they had at the start.
FrozenUnchanged == \A a \in Frozen : mem[a] = Boot[a]

\* Every checked enum member holds a value its validator accepts.
ValidEnums(m) ==
    \A v \in Views :
        v[2].type \in DOMAIN Members =>
            m[v[1][1] + v[2].offset] \in Members[v[2].type]

\* How such members lie in memory: no plain value and no array shares their
\* cells, as a union or an array of structs with such members would, and all
\* instances of a struct type have them at the same places.
FirstCell(v) == v[1][1] + v[2].offset

LaidOut(members) ==
    /\ StructTypes \cap DOMAIN ElemType = {}
    /\ \A u \in members, v \in Views :
          v[2].type \notin StructTypes /\ Extent(u) \cap Extent(v) # {}
          => FirstCell(u) = FirstCell(v) /\ u[2].type = v[2].type /\ u[2].size = v[2].size
    /\ \A u \in members, v \in Views, o \in Objects :
          LET T == v[2].type
              inside == Span(FirstCell(v), SizeOf[T])
          IN  T \in StructTypes \cap DOMAIN SizeOf /\ o[2] = T
              => \/ Extent(u) \cap inside = {}
                 \/ /\ Extent(u) \subseteq inside
                    /\ \E w \in members :
                          /\ w[2].type = u[2].type /\ w[2].size = u[2].size
                          /\ FirstCell(w) - o[1] = FirstCell(u) - FirstCell(v)

CheckedEnums == {v \in Views : v[2].type \in DOMAIN Members}

EnumLayout == LaidOut(CheckedEnums) /\ DOMAIN Members \cap StructTypes = {}

\* Typed calls keep the enums valid, however instances are copied over each
\* other: only an untyped call gets around a validator.
EnumsValid == [][ValidEnums(mem) /\ ~ValidEnums(mem') => ~TypedNext]_vars

\* Header, "Safely reads data from a dynamically allocated array": stated
\* of callers that do not check the length themselves (CarefulReaders FALSE).
DynamicReadsAreSafe == ReadsAuthorized

\* Header, "return REFLECT_OK on success, or an error code otherwise":
\* safe_set_field does not claim success for a NULL argument.
NullIsAnError ==
    [][\A h \in Handles, n \in Counts :
          SafeSetField(h, NoSrc, n) => res' # "OK"]_vars
=============================================================================
