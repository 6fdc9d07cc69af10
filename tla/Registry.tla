------------------------------ MODULE Registry ------------------------------
(***************************************************************************)
(* The reflection metadata that cmy_reflector.py generates and that every  *)
(* runtime call of cmyreflection.h consults, and the flat memory in which  *)
(* the reflected instances live.                                           *)
(*                                                                         *)
(* Memory is an array of cells.  A cell stands for a byte, except that a   *)
(* pointer occupies one cell, whose value is an address (0 is NULL).       *)
(***************************************************************************)
EXTENDS Integers, Sequences

CONSTANTS
    StructTypes,    \* reflected struct types: those with a Name_Metadata table
    Fields,         \* the tables: Fields[t] is the StructFieldInfo array of t
    StructOf,       \* the cases of get_struct_metadata: T and T_arr give T
    SizeOf,         \* sizeof of each value type
    Objects,        \* the struct instances in memory, nested ones included:
                    \*   a set of <<address, struct type>>
    BlockSize,      \* heap blocks: base address -> number of cells
    Top,            \* addresses are 1 .. Top
    NoField         \* the NULL StructFieldInfo pointer

NULL == 0
Addr == 1 .. Top
Cell == Nat

\* ReflectResult
Results == {"OK", "NULL_PTR", "TYPE_MISMATCH", "OUT_OF_BOUNDS",
            "ENUM_INVALID", "TYPE_INVALID", "ACCESS_DENIED", "NOT_FOUND"}

\* StructFieldInfo; length is the length_field_name, "" when it is NULL
FieldInfo == [name : STRING, type : STRING, offset : Nat, size : Nat \ {0},
              count : Nat \ {0}, flags : SUBSET {"READ", "WRITE"},
              length : STRING]

FieldsOf(t) == {Fields[t][i] : i \in DOMAIN Fields[t]}

AllFields == UNION {FieldsOf(t) : t \in StructTypes}

\* find_field: the first entry with that name
FindField(t, name) ==
    LET hits == {i \in DOMAIN Fields[t] : Fields[t][i].name = name}
    IN  IF hits = {} THEN NoField
        ELSE Fields[t][CHOOSE i \in hits : \A j \in hits : i <= j]

\* get_struct_metadata succeeds exactly on these types
HasMetadata(type) == type \in DOMAIN StructOf

ElemSize(f) == f.size \div f.count

Span(a, n) == a .. (a + n - 1)

\* A view is a field seen in an instance; its extent is the cells it covers.
Views == UNION {{o} \X FieldsOf(o[2]) : o \in Objects}
Extent(v) == Span(v[1][1] + v[2].offset, v[2].size)
ViewsWith(flag) == {v \in Views : flag \in v[2].flags}

\* A dynamic array: a pointer field tagged @length
IsDynamic(f) == f.length # ""

BlockCells(b) == Span(b, BlockSize[b])

-----------------------------------------------------------------------------
(* What the generator and the C compiler guarantee about the tables.       *)

\* Members of a struct have different names (C says so).  Every reflected
\* struct has a table and a case in get_struct_metadata.
ASSUME TablesAssumption ==
    /\ Fields \in [StructTypes -> Seq(FieldInfo)]
    /\ StructOf \in [DOMAIN StructOf -> StructTypes]
    /\ \A t \in StructTypes : \A i, j \in DOMAIN Fields[t] :
          Fields[t][i].name = Fields[t][j].name => i = j
    /\ \A t \in StructTypes : HasMetadata(t) /\ StructOf[t] = t
    /\ NoField \notin FieldInfo

\* sizeof(T[n]) is n times sizeof(T).
ASSUME SizesAssumption ==
    \A f \in AllFields : f.size = f.count * ElemSize(f)

\* The C object model: an instance occupies addresses, and the elements of
\* its struct-typed members are instances too.
ASSUME LayoutAssumption ==
    /\ Top \in Nat
    /\ Objects \subseteq Addr \X StructTypes
    /\ \A v \in Views : Extent(v) \subseteq Addr
    /\ \A v \in Views : HasMetadata(v[2].type) =>
          \A i \in 0 .. (v[2].count - 1) :
             <<v[1][1] + v[2].offset + i * ElemSize(v[2]), StructOf[v[2].type]>>
                \in Objects

\* Heap blocks are apart from every instance.
ASSUME HeapAssumption ==
    /\ BlockSize \in [DOMAIN BlockSize -> Nat \ {0}]
    /\ DOMAIN BlockSize \subseteq Addr
    /\ \A b \in DOMAIN BlockSize :
          /\ BlockCells(b) \subseteq Addr
          /\ \A v \in Views : BlockCells(b) \cap Extent(v) = {}
          /\ \A c \in DOMAIN BlockSize : b # c => BlockCells(b) \cap BlockCells(c) = {}
=============================================================================
