------------------------- MODULE FieldAccess_proofs -------------------------
(***************************************************************************)
(* Proofs about FieldAccess: for every registry, memory layout and set of  *)
(* values, no sequence of accessor calls reads or writes a cell it has no  *)
(* licence for, cells without a writable view keep their value, and typed  *)
(* calls keep checked enums valid.                                         *)
(***************************************************************************)
EXTENDS FieldAccess, Registry_proofs

Source == [0 .. MaxCopy - 1 -> Cell]

\* A handle is NULL in one of its parts, or a view.
ValidHandle(h) ==
    \/ h[1] = NULL
    \/ h[3] = NoField
    \/ <<<<h[1], h[2]>>, h[3]>> \in Views

\* What every accessor guarantees of its outcome
Contained(m, o) ==
    /\ o.mem \in [Addr -> Cell]
    /\ o.res \in Results
    /\ o.rd \subseteq Int
    /\ o.wr \subseteq Int
    /\ \A a \in Addr : a \notin o.wr => o.mem[a] = m[a]

\* It writes nothing, or cells of one writable field.
WritesField(o) ==
    o.wr = {} \/ \E v \in ViewsWith("WRITE") : o.wr \subseteq Extent(v)

\* It reads nothing, or cells of one readable field.
ReadsField(o) ==
    o.rd = {} \/ \E v \in ViewsWith("READ") : o.rd \subseteq Extent(v)

-----------------------------------------------------------------------------
(* The registry                                                            *)

LEMMA SpanInExtent ==
    ASSUME NEW v \in Views, NEW i \in Nat, NEW n \in Nat, i + n <= v[2].size
    PROVE  Span(v[1][1] + v[2].offset + i, n) \subseteq Extent(v)
  BY ViewTypes DEF Span, Extent

-----------------------------------------------------------------------------
(* The copying helpers                                                     *)

LEMMA CopyInContained ==
    ASSUME NEW m \in [Addr -> Cell], NEW dst \in Nat, NEW n \in Nat,
           n <= MaxCopy, NEW src \in Source
    PROVE  /\ Contained(m, CopyIn(m, dst, src, n))
           /\ CopyIn(m, dst, src, n).wr = Span(dst, n)
           /\ CopyIn(m, dst, src, n).rd = {}
  <1> DEFINE o == CopyIn(m, dst, src, n)
  <1>1. MaxCopy \in Nat /\ Top \in Nat
    BY AccessAssumption, LayoutAssumption DEF AccessAssumption, LayoutAssumption
  <1>2. ASSUME NEW a \in Addr, a \in Span(dst, n)
        PROVE  src[a - dst] \in Cell
    <2>1. a - dst \in 0 .. MaxCopy - 1
      BY <1>1, <1>2 DEF Span, Addr
    <2> QED
      BY <2>1 DEF Source
  <1>3. o.mem \in [Addr -> Cell]
    BY <1>2 DEF CopyIn
  <1>4. o.wr \subseteq Int
    BY DEF CopyIn, Span
  <1> QED
    BY <1>3, <1>4 DEF CopyIn, Contained, Results

LEMMA CopyOutContained ==
    ASSUME NEW m \in [Addr -> Cell], NEW from \in Nat, NEW n \in Nat
    PROVE  /\ Contained(m, CopyOut(m, from, n))
           /\ CopyOut(m, from, n).rd = Span(from, n)
           /\ CopyOut(m, from, n).wr = {}
  BY DEF CopyOut, Contained, Results, Span

LEMMA ErrContained ==
    ASSUME NEW m \in [Addr -> Cell], NEW e \in Results
    PROVE  /\ Contained(m, Err(m, e))
           /\ Err(m, e).rd = {}
           /\ Err(m, e).wr = {}
  BY DEF Err, Contained

LEMMA ResultNames ==
    \A e \in {"OK", "NULL_PTR", "TYPE_MISMATCH", "OUT_OF_BOUNDS",
              "ENUM_INVALID", "TYPE_INVALID", "ACCESS_DENIED", "NOT_FOUND"} :
        e \in Results
  BY DEF Results

-----------------------------------------------------------------------------
(* The untyped accessors                                                   *)

LEMMA SetFieldValueSafe ==
    ASSUME NEW m \in [Addr -> Cell], NEW h, ValidHandle(h),
           NEW src \in Source \cup {NoSrc}, NEW n \in Nat
    PROVE  LET o == set_field_value(m, h[1], h[3], src, n)
           IN  Contained(m, o) /\ WritesField(o) /\ o.rd = {}
  <1> DEFINE o == set_field_value(m, h[1], h[3], src, n)
             v == <<<<h[1], h[2]>>, h[3]>>
  <1>1. CASE \/ h[1] = NULL \/ h[3] = NoField \/ src = NoSrc
             \/ "WRITE" \notin h[3].flags \/ n > h[3].size
    <2>1. \E e \in Results : o = Err(m, e)
      BY <1>1, ResultNames DEF set_field_value
    <2> QED
      BY <2>1, ErrContained DEF WritesField
  <1>2. CASE ~(\/ h[1] = NULL \/ h[3] = NoField \/ src = NoSrc
               \/ "WRITE" \notin h[3].flags \/ n > h[3].size)
    <2>1. v \in Views /\ v[1][1] = h[1] /\ v[2] = h[3]
      BY <1>2 DEF ValidHandle
    <2>2. /\ v[2].size \in Nat /\ v[2].size <= MaxCopy /\ v[2].offset \in Nat
          /\ h[1] \in Nat /\ MaxCopy \in Nat
      BY <2>1, ViewTypes, AccessAssumption DEF AccessAssumption
    <2>3. o = CopyIn(m, h[1] + h[3].offset, src, n)
      BY <1>2 DEF set_field_value
    <2>4. n <= MaxCopy /\ h[1] + h[3].offset \in Nat /\ src \in Source
      BY <1>2, <2>1, <2>2
    <2>5. Contained(m, o) /\ o.wr = Span(h[1] + h[3].offset, n) /\ o.rd = {}
      BY <2>3, <2>4, CopyInContained
    <2>6. Span(h[1] + h[3].offset, n) \subseteq Extent(v)
      BY <1>2, <2>1, <2>2 DEF Span, Extent
    <2>7. v \in ViewsWith("WRITE")
      BY <1>2, <2>1 DEF ViewsWith
    <2> QED
      BY <2>5, <2>6, <2>7 DEF WritesField
  <1> QED
    BY <1>1, <1>2

LEMMA GetFieldValueSafe ==
    ASSUME NEW m \in [Addr -> Cell], NEW h, ValidHandle(h), NEW n \in Nat
    PROVE  LET o == get_field_value(m, h[1], h[3], n)
           IN  Contained(m, o) /\ ReadsField(o) /\ o.wr = {}
  <1> DEFINE o == get_field_value(m, h[1], h[3], n)
             v == <<<<h[1], h[2]>>, h[3]>>
  <1>1. CASE \/ h[1] = NULL \/ h[3] = NoField
             \/ "READ" \notin h[3].flags \/ n > h[3].size
    <2>1. \E e \in Results : o = Err(m, e)
      BY <1>1, ResultNames DEF get_field_value
    <2> QED
      BY <2>1, ErrContained DEF ReadsField
  <1>2. CASE ~(\/ h[1] = NULL \/ h[3] = NoField
               \/ "READ" \notin h[3].flags \/ n > h[3].size)
    <2>1. v \in Views /\ v[1][1] = h[1] /\ v[2] = h[3]
      BY <1>2 DEF ValidHandle
    <2>2. v[2].size \in Nat /\ v[2].offset \in Nat /\ h[1] \in Nat
      BY <2>1, ViewTypes
    <2>3. o = CopyOut(m, h[1] + h[3].offset, n)
      BY <1>2 DEF get_field_value
    <2>4. Contained(m, o) /\ o.rd = Span(h[1] + h[3].offset, n) /\ o.wr = {}
      BY <2>1, <2>2, <2>3, CopyOutContained
    <2>5. Span(h[1] + h[3].offset, n) \subseteq Extent(v)
      BY <1>2, <2>1, <2>2 DEF Span, Extent
    <2>6. v \in ViewsWith("READ")
      BY <1>2, <2>1 DEF ViewsWith
    <2> QED
      BY <2>4, <2>5, <2>6 DEF ReadsField
  <1> QED
    BY <1>1, <1>2

\* Element i of an array of count elements of size e ends before the array.
LEMMA ElementEnd ==
    ASSUME NEW i \in Nat, NEW c \in Nat, NEW e \in Nat, i < c
    PROVE  i * e + e <= c * e
  <1>1. PICK d \in Nat : c = i + 1 + d
    <2>1. c - i - 1 \in Nat /\ c = i + 1 + (c - i - 1)
      OBVIOUS
    <2> QED
      BY <2>1
  <1>2. c * e = i * e + e + d * e
    BY <1>1
  <1>3. d * e >= 0 /\ d * e \in Nat /\ i * e \in Nat
    OBVIOUS
  <1> QED
    BY <1>2, <1>3

LEMMA GetArrayElementSafe ==
    ASSUME NEW m \in [Addr -> Cell], NEW h, ValidHandle(h),
           NEW i \in Nat, NEW n \in Nat
    PROVE  LET o == get_array_element(m, h[1], h[3], i, n)
           IN  Contained(m, o) /\ ReadsField(o) /\ o.wr = {}
  <1> DEFINE o == get_array_element(m, h[1], h[3], i, n)
             v == <<<<h[1], h[2]>>, h[3]>>
  <1>1. CASE \/ h[1] = NULL \/ h[3] = NoField \/ "READ" \notin h[3].flags
             \/ i >= h[3].count \/ n # ElemSize(h[3])
    <2>1. \E e \in Results : o = Err(m, e)
      BY <1>1, ResultNames DEF get_array_element
    <2> QED
      BY <2>1, ErrContained DEF ReadsField
  <1>2. CASE ~(\/ h[1] = NULL \/ h[3] = NoField \/ "READ" \notin h[3].flags
               \/ i >= h[3].count \/ n # ElemSize(h[3]))
    <2>1. v \in Views /\ v[1][1] = h[1] /\ v[2] = h[3]
      BY <1>2 DEF ValidHandle
    <2> DEFINE e == ElemSize(h[3])
    <2>2. /\ v[2].size \in Nat /\ v[2].offset \in Nat /\ h[1] \in Nat
          /\ v[2].count \in Nat
          /\ v[2].size = v[2].count * ElemSize(v[2])
      BY <2>1, ViewTypes, SizesAssumption DEF SizesAssumption
    <2>3. e \in Nat /\ n = e /\ i < h[3].count
      BY <1>2, <2>1, <2>2 DEF ElemSize
    <2>4. i * e + e <= h[3].size /\ i * e \in Nat
      BY <2>1, <2>2, <2>3, ElementEnd
    <2>5. o = CopyOut(m, h[1] + h[3].offset + i * e, e)
      BY <1>2, <2>3 DEF get_array_element
    <2>6. h[1] + h[3].offset + i * e \in Nat
      BY <2>1, <2>2, <2>4
    <2> HIDE DEF e
    <2>7. Contained(m, o) /\ o.rd = Span(h[1] + h[3].offset + i * e, e) /\ o.wr = {}
      BY <2>3, <2>5, <2>6, CopyOutContained
    <2>8. Span(h[1] + h[3].offset + i * e, e) \subseteq Extent(v)
      BY <2>1, <2>3, <2>4, SpanInExtent
    <2>9. v \in ViewsWith("READ")
      BY <1>2, <2>1 DEF ViewsWith
    <2> QED
      BY <2>7, <2>8, <2>9 DEF ReadsField
  <1> QED
    BY <1>1, <1>2

-----------------------------------------------------------------------------
(* The typed accessors                                                     *)

LEMMA SizeTypes ==
    /\ \A T \in DOMAIN SizeOf : SizeOf[T] \in Nat
    /\ \A T \in DOMAIN ElemType : ElemType[T] \in DOMAIN SizeOf
  BY AccessAssumption DEF AccessAssumption

LEMMA SetFieldSafe ==
    ASSUME NEW m \in [Addr -> Cell], NEW h, ValidHandle(h),
           NEW src \in Source \cup {NoSrc}, NEW T \in DOMAIN SizeOf
    PROVE  LET o == set_field(T, m, h[1], h[3], src)
           IN  Contained(m, o) /\ WritesField(o) /\ o.rd = {}
  <1> DEFINE o == set_field(T, m, h[1], h[3], src)
  <1>1. CASE o = set_field_value(m, h[1], h[3], src, SizeOf[T])
    BY <1>1, SizeTypes, SetFieldValueSafe
  <1>2. CASE \E e \in Results : o = Err(m, e)
    BY <1>2, ErrContained DEF WritesField
  <1> QED
    BY <1>1, <1>2, ResultNames DEF set_field

LEMMA GetFieldSafe ==
    ASSUME NEW m \in [Addr -> Cell], NEW h, ValidHandle(h),
           NEW T \in DOMAIN SizeOf
    PROVE  LET o == get_field(T, m, h[1], h[3])
           IN  Contained(m, o) /\ ReadsField(o) /\ o.wr = {}
  <1> DEFINE o == get_field(T, m, h[1], h[3])
  <1>1. CASE o = get_field_value(m, h[1], h[3], SizeOf[T])
    BY <1>1, SizeTypes, GetFieldValueSafe
  <1>2. CASE \E e \in Results : o = Err(m, e)
    BY <1>2, ErrContained DEF ReadsField
  <1> QED
    BY <1>1, <1>2, ResultNames DEF get_field

LEMMA SetFieldArrSafe ==
    ASSUME NEW m \in [Addr -> Cell], NEW h, ValidHandle(h), NEW n \in Nat,
           NEW src \in Source \cup {NoSrc}, NEW T \in DOMAIN ElemType
    PROVE  LET o == set_field_arr(T, m, h[1], h[3], src, n)
           IN  Contained(m, o) /\ WritesField(o) /\ o.rd = {}
  <1> DEFINE o == set_field_arr(T, m, h[1], h[3], src, n)
  <1>1. CASE o = set_field_value(m, h[1], h[3], src, n * SizeOf[ElemType[T]])
    <2> DEFINE k == n * SizeOf[ElemType[T]]
               q == set_field_value(m, h[1], h[3], src, k)
    <2>1. k \in Nat
      BY SizeTypes
    <2> HIDE DEF k
    <2>2. Contained(m, q) /\ WritesField(q) /\ q.rd = {}
      BY <2>1, SetFieldValueSafe
    <2> QED
      BY <1>1, <2>2 DEF k
  <1>2. CASE \E e \in Results : o = Err(m, e)
    BY <1>2, ErrContained DEF WritesField
  <1> QED
    BY <1>1, <1>2, ResultNames DEF set_field_arr

LEMMA GetFieldArrSafe ==
    ASSUME NEW m \in [Addr -> Cell], NEW h, ValidHandle(h), NEW n \in Nat,
           NEW T \in DOMAIN ElemType
    PROVE  LET o == get_field_arr(T, m, h[1], h[3], n)
           IN  Contained(m, o) /\ ReadsField(o) /\ o.wr = {}
  <1> DEFINE o == get_field_arr(T, m, h[1], h[3], n)
  <1>1. CASE o = get_field_value(m, h[1], h[3], n * SizeOf[ElemType[T]])
    <2> DEFINE k == n * SizeOf[ElemType[T]]
               q == get_field_value(m, h[1], h[3], k)
    <2>1. k \in Nat
      BY SizeTypes
    <2> HIDE DEF k
    <2>2. Contained(m, q) /\ ReadsField(q) /\ q.wr = {}
      BY <2>1, GetFieldValueSafe
    <2> QED
      BY <1>1, <2>2 DEF k
  <1>2. CASE \E e \in Results : o = Err(m, e)
    BY <1>2, ErrContained DEF ReadsField
  <1> QED
    BY <1>1, <1>2, ResultNames DEF get_field_arr

LEMMA GetFieldElemSafe ==
    ASSUME NEW m \in [Addr -> Cell], NEW h, ValidHandle(h), NEW i \in Nat,
           NEW T \in DOMAIN ElemType
    PROVE  LET o == get_field_elem(T, m, h[1], h[3], i)
           IN  Contained(m, o) /\ ReadsField(o) /\ o.wr = {}
  <1> DEFINE o == get_field_elem(T, m, h[1], h[3], i)
  <1>1. CASE o = get_array_element(m, h[1], h[3], i, SizeOf[ElemType[T]])
    <2> DEFINE s == SizeOf[ElemType[T]]
               q == get_array_element(m, h[1], h[3], i, s)
    <2>1. s \in Nat
      BY SizeTypes
    <2> HIDE DEF s
    <2>2. Contained(m, q) /\ ReadsField(q) /\ q.wr = {}
      BY <2>1, GetArrayElementSafe
    <2> QED
      BY <1>1, <2>2 DEF s
  <1>2. CASE \E e \in Results : o = Err(m, e)
    BY <1>2, ErrContained DEF ReadsField
  <1> QED
    BY <1>1, <1>2, ResultNames DEF get_field_elem

LEMMA SafeSetFieldSafe ==
    ASSUME NEW m \in [Addr -> Cell], NEW h, ValidHandle(h), NEW n \in Nat,
           NEW src \in Source \cup {NoSrc}
    PROVE  LET o == safe_set_field(m, h[1], h[3], src, n)
           IN  Contained(m, o) /\ WritesField(o) /\ o.rd = {}
  <1> DEFINE o == safe_set_field(m, h[1], h[3], src, n)
             T == h[3].type
  <1>1. CASE T \in DOMAIN SizeOf /\ o = set_field(T, m, h[1], h[3], src)
    BY <1>1, SetFieldSafe
  <1>2. CASE T \in DOMAIN ElemType /\ o = set_field_arr(T, m, h[1], h[3], src, n)
    BY <1>2, SetFieldArrSafe, SMTT(20)
  <1>3. CASE \E e \in Results : o = Err(m, e)
    BY <1>3, ErrContained DEF WritesField
  <1> QED
    BY <1>1, <1>2, <1>3, ResultNames DEF safe_set_field

-----------------------------------------------------------------------------
(* Dynamic arrays                                                          *)

\* It writes nothing, or live cells of one writable dynamic array.
WritesLive(m, o) ==
    \/ o.wr = {}
    \/ \E v \in Dynamic \cap ViewsWith("WRITE") :
          Pointer(m, v) # NULL /\ o.wr \subseteq LiveCells(m, v)

\* It reads nothing, or live cells of one readable dynamic array.
ReadsLive(m, o) ==
    \/ o.rd = {}
    \/ \E v \in Dynamic \cap ViewsWith("READ") :
          Pointer(m, v) # NULL /\ o.rd \subseteq LiveCells(m, v)

\* It reads nothing, or the length member of one dynamic array.
ReadsLength(o) ==
    o.rd = {} \/ \E v \in Dynamic : o.rd \subseteq LengthSpan(v[1][1], v[1][2], v[2])

LEMMA DynamicViews ==
    /\ Dynamic \subseteq Views
    /\ \A v \in Views : v \in Dynamic <=> IsDynamic(v[2])
  <1>1. ASSUME NEW v \in Dynamic PROVE v \in Views /\ IsDynamic(v[2])
    BY DEF Dynamic, Views
  <1>2. ASSUME NEW v \in Views, IsDynamic(v[2]) PROVE v \in Dynamic
    BY <1>2 DEF Dynamic, Views
  <1> QED
    BY <1>1, <1>2

\* The length member of a dynamic array is itself a view of the instance.
LEMMA LengthView ==
    ASSUME NEW v \in Dynamic
    PROVE  LET g == LengthField(v[1][2], v[2])
           IN  <<v[1], g>> \in Views /\ g.size \in {1, 2, 4, 8} /\ g.offset \in Nat
  <1> DEFINE g == LengthField(v[1][2], v[2])
             t == v[1][2]
  <1>1. v \in Views /\ v[1] \in Objects /\ t \in StructTypes /\ v[1] = <<v[1][1], t>>
    BY DynamicViews, ViewTypes
  <1>2. LengthResult(v[1][1], t, v[2]) = "OK"
    BY DynamicAssumption DEF DynamicAssumption
  <1>3. g # NoField /\ g.size \in {1, 2, 4, 8}
    BY <1>2 DEF LengthResult
  <1>4. StructOf[t] = t
    BY <1>1, TablesAssumption DEF TablesAssumption
  <1>5. g \in FieldsOf(t)
    BY <1>1, <1>3, <1>4, FindFieldEntry DEF LengthField
  <1>6. <<v[1], g>> \in Views
    BY <1>1, <1>5 DEF Views
  <1> QED
    BY <1>3, <1>6, ViewTypes

LEMMA PointerType ==
    ASSUME NEW m \in [Addr -> Cell], NEW v \in Views
    PROVE  /\ v[1][1] + v[2].offset \in Extent(v) \cap Addr
           /\ Pointer(m, v) \in Nat
  <1>1. v[1][1] + v[2].offset \in Extent(v)
    <2>1. v[2].size \in Nat \ {0}
      BY ViewTypes DEF FieldInfo
    <2> QED
      BY <2>1, ViewTypes DEF Extent, Span
  <1>2. Extent(v) \subseteq Addr
    BY LayoutAssumption DEF LayoutAssumption
  <1> QED
    BY <1>1, <1>2 DEF Pointer, Cell

LEMMA LoadType ==
    ASSUME NEW m \in [Addr -> Cell], NEW a \in Nat, NEW n \in {1, 2, 4, 8},
           Span(a, n) \subseteq Addr
    PROVE  LoadUnsigned(m, a, n) \in Nat
  <1>1. \A i \in Nat : i < n => m[a + i] \in Nat
    BY DEF Span, Cell
  <1>2. CASE n = 1
    BY <1>1, <1>2 DEF LoadUnsigned, Load1
  <1>3. CASE n = 2
    <2>1. m[a] \in Nat /\ m[a + 1] \in Nat
      BY <1>1, <1>3
    <2> QED
      BY <1>3, <2>1 DEF LoadUnsigned, Load2, Load1
  <1>4. CASE n = 4
    <2>1. /\ m[a] \in Nat /\ m[a + 1] \in Nat
          /\ m[a + 2] \in Nat /\ m[(a + 2) + 1] \in Nat
      BY <1>1, <1>4
    <2> QED
      BY <1>4, <2>1 DEF LoadUnsigned, Load4, Load2, Load1
  <1>5. CASE n = 8
    <2>1. /\ m[a] \in Nat /\ m[a + 1] \in Nat
          /\ m[a + 2] \in Nat /\ m[(a + 2) + 1] \in Nat
      BY <1>1, <1>5
    <2>2. /\ m[a + 4] \in Nat /\ m[(a + 4) + 1] \in Nat
          /\ m[(a + 4) + 2] \in Nat /\ m[((a + 4) + 2) + 1] \in Nat
      BY <1>1, <1>5
    <2>3. Load4(m, a) \in Nat
      BY <2>1 DEF Load4, Load2, Load1
    <2>4. Load4(m, a + 4) \in Nat
      BY <2>2 DEF Load4, Load2, Load1
    <2> QED
      BY <1>5, <2>3, <2>4 DEF LoadUnsigned, Load8
  <1> QED
    BY <1>2, <1>3, <1>4, <1>5

LEMMA LiveCountType ==
    ASSUME NEW m \in [Addr -> Cell], NEW v \in Dynamic
    PROVE  LiveCount(m, v) \in Nat
  <1> DEFINE g == LengthField(v[1][2], v[2])
             w == <<v[1], g>>
  <1>1. w \in Views /\ g.size \in {1, 2, 4, 8} /\ g.offset \in Nat
    BY LengthView
  <1>2. v[1][1] + g.offset \in Nat
    BY <1>1, ViewTypes
  <1>3. Span(v[1][1] + g.offset, g.size) \subseteq Addr
    BY <1>1, LayoutAssumption DEF LayoutAssumption, Extent
  <1> QED
    BY <1>1, <1>2, <1>3, LoadType DEF LiveCount, Length

LEMMA MultMonotone ==
    ASSUME NEW a \in Nat, NEW b \in Nat, NEW c \in Nat, a <= b
    PROVE  a * c <= b * c
  <1>1. PICK d \in Nat : b = a + d
    <2>1. b - a \in Nat /\ b = a + (b - a)
      OBVIOUS
    <2> QED
      BY <2>1
  <1>2. b * c = a * c + d * c
    BY <1>1
  <1>3. d * c \in Nat /\ a * c \in Nat
    OBVIOUS
  <1> QED
    BY <1>2, <1>3

\* n cells from the pointer are live cells when the length covers them.
LEMMA SpanLive ==
    ASSUME NEW m \in [Addr -> Cell], NEW v \in Dynamic, NEW n \in Nat,
           n <= LiveCount(m, v) * SizeOf[ElemType[v[2].type]]
    PROVE  Span(Pointer(m, v), n) \subseteq LiveCells(m, v)
  <1>1. Pointer(m, v) \in Nat
    BY PointerType, DynamicViews
  <1>2. v[2].type \in DOMAIN ElemType
    BY DynamicViews, ViewTypes, DynamicAssumption DEF DynamicAssumption
  <1>3. SizeOf[ElemType[v[2].type]] \in Nat /\ LiveCount(m, v) \in Nat
    BY <1>2, SizeTypes, LiveCountType
  <1>4. LiveCount(m, v) * SizeOf[ElemType[v[2].type]] \in Nat
    BY <1>3
  <1> QED
    BY <1>1, <1>4 DEF Span, LiveCells

LEMMA SetDynamicDataSafe ==
    ASSUME NEW m \in [Addr -> Cell], NEW h, ValidHandle(h), NEW n \in Nat,
           NEW src \in Source \cup {NoSrc}, n <= MaxCopy,
           LET v == <<<<h[1], h[2]>>, h[3]>>
           IN  v \in Dynamic => n <= LiveCount(m, v) * SizeOf[ElemType[h[3].type]]
    PROVE  LET o == set_dynamic_array_data(m, h[1], h[3], src, n)
           IN  Contained(m, o) /\ WritesLive(m, o) /\ o.rd = {}
  <1> DEFINE o == set_dynamic_array_data(m, h[1], h[3], src, n)
             v == <<<<h[1], h[2]>>, h[3]>>
  <1>1. CASE \/ h[1] = NULL \/ h[3] = NoField \/ src = NoSrc
             \/ "WRITE" \notin h[3].flags \/ ~IsDynamic(h[3])
             \/ m[h[1] + h[3].offset] = NULL
    <2>1. \E e \in Results : o = Err(m, e)
      BY <1>1, ResultNames DEF set_dynamic_array_data
    <2> QED
      BY <2>1, ErrContained DEF WritesLive
  <1>2. CASE ~(\/ h[1] = NULL \/ h[3] = NoField \/ src = NoSrc
               \/ "WRITE" \notin h[3].flags \/ ~IsDynamic(h[3])
               \/ m[h[1] + h[3].offset] = NULL)
    <2>1. v \in Views /\ v[1][1] = h[1] /\ v[2] = h[3]
      BY <1>2 DEF ValidHandle
    <2>2. v \in Dynamic \cap ViewsWith("WRITE")
      BY <1>2, <2>1, DynamicViews DEF ViewsWith
    <2>3. o = CopyIn(m, Pointer(m, v), src, n) /\ Pointer(m, v) # NULL
      BY <1>2, <2>1 DEF set_dynamic_array_data, Pointer
    <2>4. Pointer(m, v) \in Nat
      BY <2>1, PointerType
    <2>5. src \in Source
      BY <1>2
    <2> HIDE DEF v
    <2>6. Contained(m, o) /\ o.wr = Span(Pointer(m, v), n) /\ o.rd = {}
      BY <2>3, <2>4, <2>5, CopyInContained
    <2>7. Span(Pointer(m, v), n) \subseteq LiveCells(m, v)
      BY <2>1, <2>2, SpanLive DEF v
    <2> QED
      BY <2>2, <2>3, <2>6, <2>7 DEF WritesLive
  <1> QED
    BY <1>1, <1>2

LEMMA GetDynamicDataSafe ==
    ASSUME NEW m \in [Addr -> Cell], NEW h, ValidHandle(h), NEW n \in Nat,
           LET v == <<<<h[1], h[2]>>, h[3]>>
           IN  v \in Dynamic => n <= LiveCount(m, v) * SizeOf[ElemType[h[3].type]]
    PROVE  LET o == get_dynamic_array_data(m, h[1], h[3], n)
           IN  Contained(m, o) /\ ReadsLive(m, o) /\ o.wr = {}
  <1> DEFINE o == get_dynamic_array_data(m, h[1], h[3], n)
             v == <<<<h[1], h[2]>>, h[3]>>
  <1>1. CASE \/ h[1] = NULL \/ h[3] = NoField
             \/ "READ" \notin h[3].flags \/ ~IsDynamic(h[3])
             \/ m[h[1] + h[3].offset] = NULL
    <2>1. \E e \in Results : o = Err(m, e)
      BY <1>1, ResultNames DEF get_dynamic_array_data
    <2> QED
      BY <2>1, ErrContained DEF ReadsLive
  <1>2. CASE ~(\/ h[1] = NULL \/ h[3] = NoField
               \/ "READ" \notin h[3].flags \/ ~IsDynamic(h[3])
               \/ m[h[1] + h[3].offset] = NULL)
    <2>1. v \in Views /\ v[1][1] = h[1] /\ v[2] = h[3]
      BY <1>2 DEF ValidHandle
    <2>2. v \in Dynamic \cap ViewsWith("READ")
      BY <1>2, <2>1, DynamicViews DEF ViewsWith
    <2>3. o = CopyOut(m, Pointer(m, v), n) /\ Pointer(m, v) # NULL
      BY <1>2, <2>1 DEF get_dynamic_array_data, Pointer
    <2>4. Pointer(m, v) \in Nat
      BY <2>1, PointerType
    <2> HIDE DEF v
    <2>6. Contained(m, o) /\ o.rd = Span(Pointer(m, v), n) /\ o.wr = {}
      BY <2>3, <2>4, CopyOutContained
    <2>7. Span(Pointer(m, v), n) \subseteq LiveCells(m, v)
      BY <2>1, <2>2, SpanLive DEF v
    <2> QED
      BY <2>2, <2>3, <2>6, <2>7 DEF ReadsLive
  <1> QED
    BY <1>1, <1>2

LEMMA GetLengthSafe ==
    ASSUME NEW m \in [Addr -> Cell], NEW h, ValidHandle(h)
    PROVE  LET o == get_dynamic_array_length(m, h[1], h[2], h[3])
           IN  Contained(m, o) /\ ReadsLength(o) /\ o.wr = {}
  <1> DEFINE o == get_dynamic_array_length(m, h[1], h[2], h[3])
             v == <<<<h[1], h[2]>>, h[3]>>
             g == LengthField(h[2], h[3])
  <1>1. CASE LengthResult(h[1], h[2], h[3]) # "OK"
    <2>1. LengthResult(h[1], h[2], h[3]) \in Results
      BY DEF LengthResult, Results
    <2> QED
      BY <1>1, <2>1, ErrContained DEF get_dynamic_array_length, ReadsLength
  <1>2. CASE LengthResult(h[1], h[2], h[3]) = "OK"
    <2>1. v \in Views /\ v[1][1] = h[1] /\ v[1][2] = h[2] /\ v[2] = h[3] /\ IsDynamic(v[2])
      BY <1>2 DEF LengthResult, ValidHandle
    <2>2. v \in Dynamic
      BY <2>1, DynamicViews
    <2>3. g.size \in {1, 2, 4, 8} /\ g.offset \in Nat /\ h[1] \in Nat
      BY <2>1, <2>2, LengthView, ViewTypes
    <2>4. o = CopyOut(m, h[1] + g.offset, g.size)
      BY <1>2 DEF get_dynamic_array_length
    <2>5. Contained(m, o) /\ o.rd = Span(h[1] + g.offset, g.size) /\ o.wr = {}
      BY <2>3, <2>4, CopyOutContained
    <2>6. o.rd = LengthSpan(v[1][1], v[1][2], v[2])
      BY <2>1, <2>5 DEF LengthSpan
    <2> QED
      BY <2>2, <2>5, <2>6 DEF ReadsLength
  <1> QED
    BY <1>1, <1>2

LEMMA SetDynamicSafe ==
    ASSUME NEW m \in [Addr -> Cell], NEW h, ValidHandle(h), NEW n \in Nat,
           NEW src \in Source \cup {NoSrc},
           NEW g, n * SizeOf[ElemType[g.type]] <= MaxCopy,
           g.type \in DOMAIN ElemType
    PROVE  LET o == set_dynamic(h[2], g, m, h[1], h[3], src, n)
           IN  Contained(m, o) /\ WritesLive(m, o) /\ o.rd = {}
  <1> DEFINE o == set_dynamic(h[2], g, m, h[1], h[3], src, n)
             v == <<<<h[1], h[2]>>, h[3]>>
             s == SizeOf[ElemType[g.type]]
             e == LengthResult(h[1], h[2], h[3])
  <1>1. CASE \/ h[1] = NULL \/ h[3] = NoField \/ h[3].type # g.type
             \/ e # "OK" \/ n > Length(m, h[1], h[2], h[3])
    <2>1. e \in Results
      BY DEF LengthResult, Results
    <2>2. \E x \in Results : o = Err(m, x)
      BY <1>1, <2>1, ResultNames DEF set_dynamic
    <2> QED
      BY <2>2, ErrContained DEF WritesLive
  <1>2. CASE ~(\/ h[1] = NULL \/ h[3] = NoField \/ h[3].type # g.type
               \/ e # "OK" \/ n > Length(m, h[1], h[2], h[3]))
    <2>1. o = set_dynamic_array_data(m, h[1], h[3], src, n * s)
      BY <1>2 DEF set_dynamic
    <2>2. s \in Nat /\ n * s \in Nat
      BY SizeTypes
    <2>3. v \in Dynamic => n * s <= LiveCount(m, v) * SizeOf[ElemType[h[3].type]]
      <3>1. ASSUME v \in Dynamic PROVE LiveCount(m, v) \in Nat
        BY <3>1, LiveCountType
      <3>2. ASSUME v \in Dynamic PROVE n <= LiveCount(m, v)
        BY <1>2, <3>1, <3>2 DEF LiveCount
      <3>3. h[3].type = g.type
        BY <1>2
      <3> QED
        BY <2>2, <3>1, <3>2, <3>3, MultMonotone
    <2> HIDE DEF s, v
    <2> DEFINE k == n * s
    <2>4. k \in Nat /\ k <= MaxCopy
      BY <2>2 DEF s
    <2>5. v \in Dynamic => k <= LiveCount(m, v) * SizeOf[ElemType[h[3].type]]
      BY <2>3
    <2> HIDE DEF k
    <2>6. LET q == set_dynamic_array_data(m, h[1], h[3], src, k)
          IN  Contained(m, q) /\ WritesLive(m, q) /\ q.rd = {}
      BY <2>4, <2>5, SetDynamicDataSafe DEF v
    <2> QED
      BY <2>1, <2>6 DEF k
  <1> QED
    BY <1>1, <1>2

LEMMA GetDynamicSafe ==
    ASSUME NEW m \in [Addr -> Cell], NEW h, ValidHandle(h), NEW n \in Nat,
           NEW g, g.type \in DOMAIN ElemType,
           LengthResult(h[1], h[2], h[3]) = "OK" => n <= Length(m, h[1], h[2], h[3])
    PROVE  LET o == get_dynamic(h[2], g, m, h[1], h[3], n)
           IN  Contained(m, o) /\ ReadsLive(m, o) /\ o.wr = {}
  <1> DEFINE o == get_dynamic(h[2], g, m, h[1], h[3], n)
             v == <<<<h[1], h[2]>>, h[3]>>
             s == SizeOf[ElemType[g.type]]
  <1>1. CASE h[1] = NULL \/ h[3] = NoField \/ h[3].type # g.type
    <2>1. \E x \in Results : o = Err(m, x)
      BY <1>1, ResultNames DEF get_dynamic
    <2> QED
      BY <2>1, ErrContained DEF ReadsLive
  <1>2. CASE ~(h[1] = NULL \/ h[3] = NoField \/ h[3].type # g.type)
    <2>1. o = get_dynamic_array_data(m, h[1], h[3], n * s)
      BY <1>2 DEF get_dynamic
    <2>2. s \in Nat /\ n * s \in Nat
      BY SizeTypes
    <2>3. v \in Dynamic => n * s <= LiveCount(m, v) * SizeOf[ElemType[h[3].type]]
      <3>1. ASSUME v \in Dynamic PROVE LiveCount(m, v) \in Nat
        BY <3>1, LiveCountType
      <3>2. ASSUME v \in Dynamic PROVE n <= LiveCount(m, v)
        BY <3>2, DynamicAssumption DEF DynamicAssumption, LiveCount
      <3>3. h[3].type = g.type
        BY <1>2
      <3> QED
        BY <2>2, <3>1, <3>2, <3>3, MultMonotone
    <2> HIDE DEF s, v
    <2> DEFINE k == n * s
    <2>4. k \in Nat
      BY <2>2 DEF s
    <2>5. v \in Dynamic => k <= LiveCount(m, v) * SizeOf[ElemType[h[3].type]]
      BY <2>3
    <2> HIDE DEF k
    <2>6. LET q == get_dynamic_array_data(m, h[1], h[3], k)
          IN  Contained(m, q) /\ ReadsLive(m, q) /\ q.wr = {}
      BY <2>4, <2>5, GetDynamicDataSafe DEF v
    <2> QED
      BY <2>1, <2>6 DEF k
  <1> QED
    BY <1>1, <1>2

-----------------------------------------------------------------------------
(* Every step is one of three kinds.                                       *)

Kind(o) ==
    \/ WritesField(o) /\ o.rd = {} /\ HonestLengths(o.mem)
    \/ WritesLive(mem, o) /\ o.rd = {}
    \/ o.wr = {} /\ (ReadsField(o) \/ ReadsLive(mem, o) \/ ReadsLength(o))

LEMMA HandlesValid == \A h \in Handles : ValidHandle(h)
  <1> SUFFICES ASSUME NEW h \in Handles PROVE ValidHandle(h)
    OBVIOUS
  <1>1. CASE \E v \in Views : h = <<v[1][1], v[1][2], v[2]>>
    BY <1>1, ViewTypes DEF ValidHandle
  <1>2. CASE \E t \in StructTypes : h = <<NULL, t, Fields[t][1]>>
    BY <1>2 DEF ValidHandle
  <1>3. CASE \E v \in Views : h = <<v[1][1], v[1][2], NoField>>
    BY <1>3 DEF ValidHandle
  <1> QED
    BY <1>1, <1>2, <1>3 DEF Handles

LEMMA DynamicHasElemType ==
    ASSUME NEW h \in Handles, NEW g \in FieldsOf(h[2]), IsDynamic(g)
    PROVE  g.type \in DOMAIN ElemType
  <1>1. h[2] \in StructTypes
    BY ViewTypes DEF Handles
  <1> QED
    BY <1>1, DynamicAssumption DEF DynamicAssumption, AllFields

LEMMA CountTypes == \A n \in Counts : n \in Nat /\ n <= MaxCopy
  BY AccessAssumption DEF AccessAssumption, Counts

LEMMA SourceTypes ==
    ASSUME mem \in [Addr -> Cell]
    PROVE  /\ DataSources \subseteq Source
           /\ \A T : SourcesFor(T) \subseteq Source
  <1>1. \A c \in Cell : Repeat(c) \in Source
    BY DEF Repeat, Source
  <1>2. Values \subseteq Cell
    BY AccessAssumption DEF AccessAssumption
  <1>3. DOMAIN BlockSize \cup {NULL} \subseteq Cell
    BY HeapAssumption, LayoutAssumption
       DEF HeapAssumption, LayoutAssumption, Addr, Cell, NULL
  <1>4. DataSources \subseteq Source
    BY <1>1, <1>2 DEF DataSources
  <1>5. ASSUME NEW T PROVE SourcesFor(T) \subseteq Source
    <2>1. CASE T \in StructTypes
      BY <2>1 DEF SourcesFor, Source, Cell
    <2>2. CASE T \notin StructTypes
      BY <1>1, <1>2, <1>3, <2>2 DEF SourcesFor
    <2> QED
      BY <2>1, <2>2
  <1> QED
    BY <1>4, <1>5

LEMMA TypedSteps ==
    ASSUME mem \in [Addr -> Cell], CarefulReaders, TypedNext
    PROVE  \E o : Contained(mem, o) /\ Kind(o) /\ Do(o)
  <1>1. ASSUME NEW h \in Handles, NEW T \in ScalarTypes,
               NEW src \in SourcesFor(T), SetField(T, h, src)
        PROVE  \E o : Contained(mem, o) /\ Kind(o) /\ Do(o)
    <2> DEFINE o == set_field(T, mem, h[1], h[3], src)
    <2>1. Do(o) /\ HonestLengths(o.mem)
      BY <1>1 DEF SetField, Do
    <2>2. src \in Source
      BY SourceTypes
    <2>3. Contained(mem, o) /\ WritesField(o) /\ o.rd = {}
      BY <2>2, HandlesValid, SetFieldSafe DEF ScalarTypes
    <2> QED
      BY <2>1, <2>3 DEF Kind
  <1>2. ASSUME NEW h \in Handles, NEW T \in ScalarTypes, GetField(T, h)
        PROVE  \E o : Contained(mem, o) /\ Kind(o) /\ Do(o)
    <2> DEFINE o == get_field(T, mem, h[1], h[3])
    <2>1. Contained(mem, o) /\ ReadsField(o) /\ o.wr = {}
      BY HandlesValid, GetFieldSafe DEF ScalarTypes
    <2> QED
      BY <1>2, <2>1 DEF Kind, GetField
  <1>3. ASSUME NEW h \in Handles, NEW T \in ArrayTypes, NEW n \in Counts,
               NEW src \in DataSources, SetFieldArr(T, h, src, n)
        PROVE  \E o : Contained(mem, o) /\ Kind(o) /\ Do(o)
    <2> DEFINE o == set_field_arr(T, mem, h[1], h[3], src, n)
    <2>1. Do(o) /\ HonestLengths(o.mem)
      BY <1>3 DEF SetFieldArr, Do
    <2>2. src \in Source /\ n \in Nat /\ T \in DOMAIN ElemType
      BY SourceTypes, CountTypes DEF ArrayTypes
    <2>3. Contained(mem, o) /\ WritesField(o) /\ o.rd = {}
      BY <2>2, HandlesValid, SetFieldArrSafe
    <2> QED
      BY <2>1, <2>3 DEF Kind
  <1>4. ASSUME NEW h \in Handles, NEW T \in ArrayTypes, NEW n \in Counts,
               GetFieldArr(T, h, n)
        PROVE  \E o : Contained(mem, o) /\ Kind(o) /\ Do(o)
    <2> DEFINE o == get_field_arr(T, mem, h[1], h[3], n)
    <2>1. n \in Nat /\ T \in DOMAIN ElemType
      BY CountTypes DEF ArrayTypes
    <2>2. Contained(mem, o) /\ ReadsField(o) /\ o.wr = {}
      BY <2>1, HandlesValid, GetFieldArrSafe
    <2> QED
      BY <1>4, <2>2 DEF Kind, GetFieldArr
  <1>5. ASSUME NEW h \in Handles, NEW T \in ArrayTypes, NEW n \in Counts,
               GetFieldElem(T, h, n)
        PROVE  \E o : Contained(mem, o) /\ Kind(o) /\ Do(o)
    <2> DEFINE o == get_field_elem(T, mem, h[1], h[3], n)
    <2>1. n \in Nat /\ T \in DOMAIN ElemType
      BY CountTypes DEF ArrayTypes
    <2>2. Contained(mem, o) /\ ReadsField(o) /\ o.wr = {}
      BY <2>1, HandlesValid, GetFieldElemSafe
    <2> QED
      BY <1>5, <2>2 DEF Kind, GetFieldElem
  <1>6. ASSUME NEW h \in Handles, NEW n \in Counts,
               NEW src \in Source \cup {NoSrc}, SafeSetField(h, src, n)
        PROVE  \E o : Contained(mem, o) /\ Kind(o) /\ Do(o)
    <2> DEFINE o == safe_set_field(mem, h[1], h[3], src, n)
    <2>1. Do(o) /\ HonestLengths(o.mem)
      BY <1>6 DEF SafeSetField, Do
    <2>2. Contained(mem, o) /\ WritesField(o) /\ o.rd = {}
      BY CountTypes, HandlesValid, SafeSetFieldSafe
    <2> QED
      BY <2>1, <2>2 DEF Kind
  <1>7. ASSUME NEW h \in Handles, GetLength(h)
        PROVE  \E o : Contained(mem, o) /\ Kind(o) /\ Do(o)
    <2> DEFINE o == get_dynamic_array_length(mem, h[1], h[2], h[3])
    <2>1. Contained(mem, o) /\ ReadsLength(o) /\ o.wr = {}
      BY HandlesValid, GetLengthSafe
    <2> QED
      BY <1>7, <2>1 DEF Kind, GetLength
  <1> DEFINE DynamicFields(h) == {f \in FieldsOf(h[2]) : IsDynamic(f)}
  <1>8. ASSUME NEW h \in Handles, NEW g \in DynamicFields(h)
        PROVE  g.type \in DOMAIN ElemType
    BY DynamicHasElemType
  <1>9. ASSUME NEW h \in Handles, NEW g \in DynamicFields(h), NEW n \in Counts,
               NEW src \in DataSources \cup {NoSrc}, SetDynamic(g, h, src, n)
        PROVE  \E o : Contained(mem, o) /\ Kind(o) /\ Do(o)
    <2> DEFINE o == set_dynamic(h[2], g, mem, h[1], h[3], src, n)
    <2>1. Do(o) /\ n * SizeOf[ElemType[g.type]] <= MaxCopy
      BY <1>9 DEF SetDynamic
    <2>2. src \in Source \cup {NoSrc} /\ n \in Nat
      BY SourceTypes, CountTypes
    <2>3. Contained(mem, o) /\ WritesLive(mem, o) /\ o.rd = {}
      BY <1>8, <2>1, <2>2, HandlesValid, SetDynamicSafe
    <2> QED
      BY <2>1, <2>3 DEF Kind
  <1>10. ASSUME NEW h \in Handles, NEW g \in DynamicFields(h), NEW n \in Counts,
                GetDynamic(g, h, n)
         PROVE  \E o : Contained(mem, o) /\ Kind(o) /\ Do(o)
    <2> DEFINE o == get_dynamic(h[2], g, mem, h[1], h[3], n)
    <2>1. /\ Do(o)
          /\ LengthResult(h[1], h[2], h[3]) = "OK" => n <= Length(mem, h[1], h[2], h[3])
      BY <1>10 DEF GetDynamic
    <2>2. Contained(mem, o) /\ ReadsLive(mem, o) /\ o.wr = {}
      BY <1>8, <2>1, CountTypes, HandlesValid, GetDynamicSafe
    <2> QED
      BY <2>1, <2>2 DEF Kind
  <1> QED
    BY <1>1, <1>2, <1>3, <1>4, <1>5, <1>6, <1>7, <1>9, <1>10, SourceTypes
       DEF TypedNext

LEMMA RawSteps ==
    ASSUME mem \in [Addr -> Cell], RawNext
    PROVE  \E o : Contained(mem, o) /\ Kind(o) /\ Do(o)
  <1>1. ASSUME NEW h \in Handles, NEW n \in Counts,
               NEW src \in DataSources \cup {NoSrc}, RawSet(h, src, n)
        PROVE  \E o : Contained(mem, o) /\ Kind(o) /\ Do(o)
    <2> DEFINE o == set_field_value(mem, h[1], h[3], src, n)
    <2>1. Do(o) /\ HonestLengths(o.mem)
      BY <1>1 DEF RawSet, Do
    <2>2. Contained(mem, o) /\ WritesField(o) /\ o.rd = {}
      BY SourceTypes, CountTypes, HandlesValid, SetFieldValueSafe
    <2> QED
      BY <2>1, <2>2 DEF Kind
  <1>2. ASSUME NEW h \in Handles, NEW n \in Counts, RawGet(h, n)
        PROVE  \E o : Contained(mem, o) /\ Kind(o) /\ Do(o)
    <2> DEFINE o == get_field_value(mem, h[1], h[3], n)
    <2>1. Contained(mem, o) /\ ReadsField(o) /\ o.wr = {}
      BY CountTypes, HandlesValid, GetFieldValueSafe
    <2> QED
      BY <1>2, <2>1 DEF Kind, RawGet
  <1>3. ASSUME NEW h \in Handles, NEW n \in Counts, NEW i \in Counts,
               RawGetElem(h, i, n)
        PROVE  \E o : Contained(mem, o) /\ Kind(o) /\ Do(o)
    <2> DEFINE o == get_array_element(mem, h[1], h[3], i, n)
    <2>1. Contained(mem, o) /\ ReadsField(o) /\ o.wr = {}
      BY CountTypes, HandlesValid, GetArrayElementSafe
    <2> QED
      BY <1>3, <2>1 DEF Kind, RawGetElem
  <1>4. ASSUME NEW h, NEW n, FitsArray(h, n),
               <<<<h[1], h[2]>>, h[3]>> \in Dynamic
        PROVE  LET v == <<<<h[1], h[2]>>, h[3]>>
               IN  n <= LiveCount(mem, v) * SizeOf[ElemType[h[3].type]]
    <2> DEFINE v == <<<<h[1], h[2]>>, h[3]>>
    <2>1. LengthResult(v[1][1], v[1][2], v[2]) = "OK"
      BY <1>4, DynamicAssumption DEF DynamicAssumption
    <2> QED
      BY <1>4, <2>1 DEF FitsArray, LiveCount
  <1>5. ASSUME NEW h \in Handles, NEW n \in Counts,
               NEW src \in DataSources \cup {NoSrc}, RawSetDynamic(h, src, n)
        PROVE  \E o : Contained(mem, o) /\ Kind(o) /\ Do(o)
    <2> DEFINE o == set_dynamic_array_data(mem, h[1], h[3], src, n)
    <2>1. Do(o) /\ FitsArray(h, n)
      BY <1>5 DEF RawSetDynamic
    <2>2. src \in Source \cup {NoSrc} /\ n \in Nat /\ n <= MaxCopy
      BY SourceTypes, CountTypes
    <2>3. Contained(mem, o) /\ WritesLive(mem, o) /\ o.rd = {}
      BY <1>4, <2>1, <2>2, HandlesValid, SetDynamicDataSafe
    <2> QED
      BY <2>1, <2>3 DEF Kind
  <1>6. ASSUME NEW h \in Handles, NEW n \in Counts, RawGetDynamic(h, n)
        PROVE  \E o : Contained(mem, o) /\ Kind(o) /\ Do(o)
    <2> DEFINE o == get_dynamic_array_data(mem, h[1], h[3], n)
    <2>1. Do(o) /\ FitsArray(h, n)
      BY <1>6 DEF RawGetDynamic
    <2>2. Contained(mem, o) /\ ReadsLive(mem, o) /\ o.wr = {}
      BY <1>4, <2>1, CountTypes, HandlesValid, GetDynamicDataSafe
    <2> QED
      BY <2>1, <2>2 DEF Kind
  <1> QED
    BY <1>1, <1>2, <1>3, <1>5, <1>6 DEF RawNext

-----------------------------------------------------------------------------
(* A write to live cells moves no pointer and changes no length, so what   *)
(* is live stays live.  This is where honest lengths are needed: a dynamic *)
(* array that overlapped an instance could rewrite its own length.         *)

LEMMA LoadSame ==
    ASSUME NEW m, NEW w, NEW a \in Nat, NEW n \in {1, 2, 4, 8},
           \A x \in Span(a, n) : w[x] = m[x]
    PROVE  LoadUnsigned(w, a, n) = LoadUnsigned(m, a, n)
  <1>1. \A i \in Nat : i < n => w[a + i] = m[a + i]
    BY DEF Span
  <1>2. CASE n = 1
    <2>1. w[a] = m[a]
      BY <1>2 DEF Span
    <2> QED
      BY <1>2, <2>1 DEF LoadUnsigned, Load1
  <1>3. CASE n = 2
    <2>1. w[a] = m[a] /\ w[a + 1] = m[a + 1]
      BY <1>3 DEF Span
    <2> QED
      BY <1>3, <2>1 DEF LoadUnsigned, Load2, Load1
  <1>4. CASE n = 4
    <2>1. /\ w[a] = m[a] /\ w[a + 1] = m[a + 1]
          /\ w[a + 2] = m[a + 2] /\ w[(a + 2) + 1] = m[(a + 2) + 1]
      BY <1>4 DEF Span
    <2> QED
      BY <1>4, <2>1 DEF LoadUnsigned, Load4, Load2, Load1
  <1>5. CASE n = 8
    <2>1. /\ w[a] = m[a] /\ w[a + 1] = m[a + 1]
          /\ w[a + 2] = m[a + 2] /\ w[(a + 2) + 1] = m[(a + 2) + 1]
      BY <1>5 DEF Span
    <2>2. /\ w[a + 4] = m[a + 4] /\ w[(a + 4) + 1] = m[(a + 4) + 1]
          /\ w[(a + 4) + 2] = m[(a + 4) + 2]
          /\ w[((a + 4) + 2) + 1] = m[((a + 4) + 2) + 1]
      BY <1>5 DEF Span
    <2>3. Load4(w, a) = Load4(m, a)
      BY <2>1 DEF Load4, Load2, Load1
    <2>4. Load4(w, a + 4) = Load4(m, a + 4)
      BY <2>2 DEF Load4, Load2, Load1
    <2> QED
      BY <1>5, <2>3, <2>4 DEF LoadUnsigned, Load8
  <1> QED
    BY <1>2, <1>3, <1>4, <1>5

LEMMA LiveUnchanged ==
    ASSUME NEW m \in [Addr -> Cell], NEW w \in [Addr -> Cell], NEW v \in Dynamic,
           \A u \in Views : \A a \in Extent(u) : w[a] = m[a]
    PROVE  /\ Pointer(w, v) = Pointer(m, v)
           /\ LiveCells(w, v) = LiveCells(m, v)
  <1> DEFINE g == LengthField(v[1][2], v[2])
             u == <<v[1], g>>
  <1>1. v \in Views
    BY DynamicViews
  <1>2. Pointer(w, v) = Pointer(m, v)
    BY <1>1, PointerType DEF Pointer
  <1>3. u \in Views /\ g.size \in {1, 2, 4, 8} /\ g.offset \in Nat
    BY LengthView
  <1>4. v[1][1] + g.offset \in Nat
    BY <1>1, <1>3, ViewTypes
  <1>5. \A x \in Span(v[1][1] + g.offset, g.size) : w[x] = m[x]
    BY <1>3 DEF Extent
  <1>6. LiveCount(w, v) = LiveCount(m, v)
    BY <1>3, <1>4, <1>5, LoadSame DEF LiveCount, Length
  <1> QED
    BY <1>2, <1>6 DEF LiveCells

-----------------------------------------------------------------------------
(* The inductive invariant                                                 *)

\* Honest lengths are what the properties lack to be inductive: they tie the
\* live cells to the heap blocks.
IInv ==
    /\ TypeOK
    /\ HonestLengths(mem)
    /\ WritesAuthorized
    /\ ReadsAuthorized
    /\ FrozenUnchanged

LEMMA InitIInv == Init => IInv
  <1> SUFFICES ASSUME Init PROVE IInv
    OBVIOUS
  <1>1. TypeOK
    BY AccessAssumption, ResultNames DEF AccessAssumption, Init, TypeOK
  <1>2. HonestLengths(mem)
    BY DynamicAssumption DEF DynamicAssumption, Init
  <1>3. WritesAuthorized /\ ReadsAuthorized /\ FrozenUnchanged
    BY DEF Init, WritesAuthorized, ReadsAuthorized, FrozenUnchanged
  <1> QED
    BY <1>1, <1>2, <1>3 DEF IInv

LEMMA StepIInv ==
    ASSUME IInv, NEW o, Contained(mem, o), Kind(o), Do(o)
    PROVE  IInv'
  <1>1. /\ mem \in [Addr -> Cell] /\ mem' \in [Addr -> Cell] /\ TypeOK'
        /\ \A a \in Addr : a \notin wr' => mem'[a] = mem[a]
    BY DEF IInv, TypeOK, Do, Contained
  <1>2. \A a \in Frozen : a \notin wr' => mem'[a] = Boot[a]
    BY <1>1 DEF IInv, FrozenUnchanged, Frozen
  <1>3. CASE WritesField(o) /\ o.rd = {} /\ HonestLengths(o.mem)
    <2>1. HonestLengths(mem') /\ rd' = {} /\ wr' = o.wr
      BY <1>3 DEF Do
    <2>2. WritesAuthorized'
      BY <1>3, <2>1 DEF WritesField, WritesAuthorized
    <2>3. ReadsAuthorized'
      BY <2>1 DEF ReadsAuthorized
    <2>4. FrozenUnchanged'
      BY <1>2, <1>3, <2>1 DEF WritesField, FrozenUnchanged, Frozen
    <2> QED
      BY <1>1, <2>1, <2>2, <2>3, <2>4 DEF IInv
  <1>4. CASE WritesLive(mem, o) /\ o.rd = {}
    <2>1. PICK b \in SUBSET Addr :
             /\ wr' \subseteq b
             /\ \A u \in Views : b \cap Extent(u) = {}
             /\ b = {} \/ \E c \in DOMAIN BlockSize : b = BlockCells(c)
      <3>1. CASE wr' = {}
        BY <3>1
      <3>2. CASE wr' # {}
        <4>1. PICK v \in Dynamic : /\ Pointer(mem, v) # NULL
                                   /\ wr' \subseteq LiveCells(mem, v)
          BY <1>4, <3>2 DEF WritesLive, Do
        <4>2. /\ Pointer(mem, v) \in DOMAIN BlockSize
              /\ wr' \subseteq BlockCells(Pointer(mem, v))
          BY <4>1 DEF IInv, HonestLengths
        <4> QED
          BY <4>2, HeapAssumption DEF HeapAssumption
      <3> QED
        BY <3>1, <3>2
    <2>2. \A u \in Views : \A a \in Extent(u) : mem'[a] = mem[a]
      BY <1>1, <2>1, LayoutAssumption DEF LayoutAssumption
    <2>3. \A v \in Dynamic : /\ Pointer(mem', v) = Pointer(mem, v)
                             /\ LiveCells(mem', v) = LiveCells(mem, v)
      BY <1>1, <2>2, LiveUnchanged
    <2>4. HonestLengths(mem')
      BY <2>3 DEF IInv, HonestLengths
    <2>5. WritesAuthorized'
      BY <1>4, <2>3 DEF WritesLive, WritesAuthorized, Do
    <2>6. ReadsAuthorized'
      BY <1>4 DEF ReadsAuthorized, Do
    <2>7. FrozenUnchanged'
      BY <1>2, <2>1 DEF FrozenUnchanged, Frozen
    <2> QED
      BY <1>1, <2>4, <2>5, <2>6, <2>7 DEF IInv
  <1>5. CASE o.wr = {} /\ (ReadsField(o) \/ ReadsLive(mem, o) \/ ReadsLength(o))
    <2>1. wr' = {} /\ rd' = o.rd
      BY <1>5 DEF Do
    <2>2. mem' = mem
      BY <1>1, <2>1
    <2>3. HonestLengths(mem')
      BY <2>2 DEF IInv
    <2>4. WritesAuthorized'
      BY <2>1 DEF WritesAuthorized
    <2>5. ReadsAuthorized'
      BY <1>5, <2>1, <2>2 DEF ReadsAuthorized, ReadsField, ReadsLive, ReadsLength
    <2>6. FrozenUnchanged'
      BY <2>2 DEF IInv, FrozenUnchanged
    <2> QED
      BY <1>1, <2>3, <2>4, <2>5, <2>6 DEF IInv
  <1> QED
    BY <1>3, <1>4, <1>5 DEF Kind

LEMMA NextIInv ==
    ASSUME CarefulReaders, IInv, [Next]_vars
    PROVE  IInv'
  <1>1. mem \in [Addr -> Cell]
    BY DEF IInv, TypeOK
  <1>2. CASE Next
    <2>1. \E o : Contained(mem, o) /\ Kind(o) /\ Do(o)
      BY <1>1, <1>2, TypedSteps, RawSteps DEF Next
    <2> QED
      BY <2>1, StepIInv
  <1>3. CASE UNCHANGED vars
    <2>1. mem' = mem /\ res' = res /\ rd' = rd /\ wr' = wr
      BY <1>3 DEF vars
    <2> QED
      BY <2>1 DEF IInv, TypeOK, WritesAuthorized, ReadsAuthorized, FrozenUnchanged
  <1> QED
    BY <1>2, <1>3

\* All the parts together, for callers that mind the length of what they read
THEOREM Invariance == CarefulReaders /\ Spec => []IInv
  <1> SUFFICES ASSUME CarefulReaders PROVE Spec => []IInv
    OBVIOUS
  <1>1. IInv /\ [Next]_vars => IInv'
    BY NextIInv
  <1> QED
    BY <1>1, InitIInv, PTL DEF Spec

\* The memory stays a map of cells and every call returns a ReflectResult.
THEOREM TypeCorrect == CarefulReaders /\ Spec => []TypeOK
  <1>1. IInv => TypeOK
    BY DEF IInv
  <1> QED
    BY <1>1, Invariance, PTL

\* No sequence of accessor calls writes a cell outside the writable fields
\* and the live parts of the writable dynamic arrays.
THEOREM WritesStayInside == CarefulReaders /\ Spec => []WritesAuthorized
  <1>1. IInv => WritesAuthorized
    BY DEF IInv
  <1> QED
    BY <1>1, Invariance, PTL

\* No sequence of accessor calls discloses a cell outside the readable
\* fields, the live parts of the readable dynamic arrays and their lengths.
THEOREM ReadsStayInside == CarefulReaders /\ Spec => []ReadsAuthorized
  <1>1. IInv => ReadsAuthorized
    BY DEF IInv
  <1> QED
    BY <1>1, Invariance, PTL

\* Memory that no writable field and no heap block covers is never changed.
THEOREM FrozenStays == CarefulReaders /\ Spec => []FrozenUnchanged
  <1>1. IInv => FrozenUnchanged
    BY DEF IInv
  <1> QED
    BY <1>1, Invariance, PTL
-----------------------------------------------------------------------------
(* Validated enums.  A typed call writes a value of the member's own type, *)
(* an instance over an instance of its type, or cells without any enum.    *)

\* A member is somewhere in memory.
LEMMA ViewCells ==
    ASSUME NEW v \in Views
    PROVE  /\ FirstCell(v) \in Nat /\ v[2].size \in Nat \ {0}
           /\ Extent(v) = Span(FirstCell(v), v[2].size)
           /\ FirstCell(v) \in Extent(v) /\ Extent(v) \subseteq Addr
  <1>1. FirstCell(v) \in Nat /\ v[2].size \in Nat \ {0}
    BY ViewTypes DEF FirstCell, FieldInfo
  <1>2. Extent(v) = Span(FirstCell(v), v[2].size)
    BY DEF Extent, FirstCell
  <1>3. FirstCell(v) \in Extent(v)
    BY <1>1, <1>2 DEF Span
  <1> QED
    BY <1>1, <1>2, <1>3, LayoutAssumption DEF LayoutAssumption

\* What memcpy leaves in a cell
LEMMA CopiedCell ==
    ASSUME NEW m, NEW dst, NEW src, NEW n, NEW a \in Addr
    PROVE  CopyIn(m, dst, src, n).mem[a] =
               IF a \in Span(dst, n) THEN src[a - dst] ELSE m[a]
  BY DEF CopyIn

\* When a member that is no struct is written, those laid out keep their
\* cells, but for the member itself.
LEMMA PlainCopy ==
    ASSUME NEW K \in SUBSET Views, LaidOut(K), NEW u \in K,
           NEW v \in Views, v[2].type \notin StructTypes,
           NEW m, NEW src, NEW n \in Nat, n <= v[2].size
    PROVE  \/ \A a \in Extent(u) : CopyIn(m, FirstCell(v), src, n).mem[a] = m[a]
           \/ FirstCell(u) = FirstCell(v) /\ u[2].type = v[2].type /\ u[2].size = v[2].size
  <1>1. u \in Views
    OBVIOUS
  <1>2. /\ FirstCell(v) \in Nat /\ v[2].size \in Nat
        /\ Extent(v) = Span(FirstCell(v), v[2].size)
    BY ViewCells
  <1>3. Span(FirstCell(v), n) \subseteq Extent(v)
    BY <1>2 DEF Span
  <1>4. CASE Extent(u) \cap Extent(v) = {}
    <2>1. \A a \in Extent(u) : a \in Addr /\ a \notin Span(FirstCell(v), n)
      BY <1>1, <1>3, <1>4, ViewCells
    <2> QED
      BY <2>1, CopiedCell
  <1>5. CASE Extent(u) \cap Extent(v) # {}
    BY <1>5 DEF LaidOut
  <1> QED
    BY <1>4, <1>5

\* When an instance is copied over another, those laid out keep their cells
\* or get the cells of their like in the source.
LEMMA StructCopy ==
    ASSUME NEW K \in SUBSET Views, LaidOut(K), NEW u \in K,
           NEW v \in Views, v[2].type \in StructTypes, v[2].type \in DOMAIN SizeOf,
           NEW src \in SourcesFor(v[2].type), SizeOf[v[2].type] <= v[2].size
    PROVE  LET w == CopyIn(mem, FirstCell(v), src, SizeOf[v[2].type]).mem
           IN  \/ \A a \in Extent(u) : w[a] = mem[a]
               \/ \E x \in K :
                    /\ x[2].type = u[2].type /\ x[2].size = u[2].size
                    /\ \A i \in 0 .. u[2].size - 1 :
                          w[FirstCell(u) + i] = mem[FirstCell(x) + i]
  <1> DEFINE T == v[2].type
             n == SizeOf[T]
             w == CopyIn(mem, FirstCell(v), src, n).mem
             inside == Span(FirstCell(v), n)
  <1>1. /\ u \in Views /\ FirstCell(u) \in Nat /\ u[2].size \in Nat
        /\ Extent(u) = Span(FirstCell(u), u[2].size) /\ Extent(u) \subseteq Addr
    BY ViewCells
  <1>2. /\ FirstCell(v) \in Nat /\ v[2].size \in Nat /\ n \in Nat
        /\ n <= v[2].size /\ v[2].size <= MaxCopy /\ MaxCopy \in Nat
    BY ViewCells, ViewTypes, AccessAssumption DEF AccessAssumption
  <1>3. PICK o \in Objects :
           /\ o[2] = T
           /\ src = [i \in 0 .. MaxCopy - 1 |->
                        IF o[1] + i \in Addr THEN mem[o[1] + i] ELSE 0]
    BY DEF SourcesFor
  <1>4. o[1] \in Nat
    BY LayoutAssumption DEF LayoutAssumption, Addr
  <1>5. CASE Extent(u) \cap inside = {}
    BY <1>1, <1>5, CopiedCell
  <1>6. CASE Extent(u) \cap inside # {}
    <2>1. /\ Extent(u) \subseteq inside
          /\ \E x \in K : /\ x[2].type = u[2].type /\ x[2].size = u[2].size
                          /\ FirstCell(x) - o[1] = FirstCell(u) - FirstCell(v)
      BY <1>3, <1>6 DEF LaidOut
    <2>2. PICK x \in K : /\ x[2].type = u[2].type /\ x[2].size = u[2].size
                         /\ FirstCell(x) - o[1] = FirstCell(u) - FirstCell(v)
      BY <2>1
    <2>3. /\ FirstCell(x) \in Nat /\ Extent(x) \subseteq Addr
          /\ Extent(x) = Span(FirstCell(x), u[2].size)
      BY <2>2, ViewCells
    <2> HIDE DEF n, w
    <2>4. ASSUME NEW i \in 0 .. u[2].size - 1
          PROVE  w[FirstCell(u) + i] = mem[FirstCell(x) + i]
      <3>1. PICK a \in Nat : a = FirstCell(u) + i
        BY <1>1
      <3>2. PICK k \in Int : k = a - FirstCell(v)
        BY <1>2
      <3>3. PICK b \in Nat : b = FirstCell(x) + i
        BY <2>3
      <3>4. a \in inside /\ a \in Addr /\ b \in Addr
        <4>1. a \in Extent(u) /\ b \in Extent(x)
          BY <1>1, <2>3, <3>1, <3>3, SMTT(20) DEF Span
        <4> QED
          BY <1>1, <2>1, <2>3, <4>1
      <3>5. w[a] = src[k]
        BY <3>2, <3>4, CopiedCell DEF w
      <3>6. k \in 0 .. MaxCopy - 1
        BY <1>2, <3>2, <3>4 DEF Span
      <3>7. o[1] + k = b
        BY <1>1, <1>2, <1>4, <2>2, <2>3, <3>1, <3>2, <3>3
      <3>8. src[k] = mem[b]
        BY <1>3, <3>4, <3>6, <3>7
      <3> QED
        BY <3>1, <3>3, <3>5, <3>8
    <2> QED
      BY <2>2, <2>4 DEF w, n
  <1> QED
    BY <1>5, <1>6

\* An enum's value is in its first cell.
LEMMA EnumCells ==
    /\ CheckedEnums \in SUBSET Views
    /\ \A m : ValidEnums(m) <=>
           \A u \in CheckedEnums : m[FirstCell(u)] \in Members[u[2].type]
  BY DEF CheckedEnums, ValidEnums, FirstCell

\* Writing a plain member: the only enum it can touch is itself.
LEMMA PlainCopyKeepsEnums ==
    ASSUME EnumLayout, NEW m, ValidEnums(m),
           NEW v \in Views, v[2].type \notin StructTypes,
           NEW src, NEW n \in Nat, n <= v[2].size,
           v[2].type \in DOMAIN Members => src[0] \in Members[v[2].type]
    PROVE  ValidEnums(CopyIn(m, FirstCell(v), src, n).mem)
  <1> DEFINE w == CopyIn(m, FirstCell(v), src, n).mem
  <1> SUFFICES ASSUME NEW u \in CheckedEnums
               PROVE  w[FirstCell(u)] \in Members[u[2].type]
    BY EnumCells
  <1>1. /\ u \in Views /\ FirstCell(u) \in Extent(u) /\ FirstCell(u) \in Addr
        /\ FirstCell(u) \in Nat /\ m[FirstCell(u)] \in Members[u[2].type]
    BY EnumCells, ViewCells
  <1>2. CASE \A a \in Extent(u) : w[a] = m[a]
    BY <1>1, <1>2
  <1>3. CASE FirstCell(u) = FirstCell(v) /\ u[2].type = v[2].type
    <2>1. FirstCell(u) - FirstCell(v) = 0
      BY <1>1, <1>3
    <2>2. w[FirstCell(u)] = src[0] \/ w[FirstCell(u)] = m[FirstCell(u)]
      BY <1>1, <2>1, CopiedCell
    <2> QED
      BY <1>1, <1>3, <2>2 DEF CheckedEnums
  <1> QED
    BY <1>2, <1>3, EnumCells, PlainCopy DEF EnumLayout

\* Writing an instance over another: the enums inside come from its own.
LEMMA StructCopyKeepsEnums ==
    ASSUME EnumLayout, ValidEnums(mem),
           NEW v \in Views, v[2].type \in StructTypes, v[2].type \in DOMAIN SizeOf,
           NEW src \in SourcesFor(v[2].type), SizeOf[v[2].type] <= v[2].size
    PROVE  ValidEnums(CopyIn(mem, FirstCell(v), src, SizeOf[v[2].type]).mem)
  <1> DEFINE w == CopyIn(mem, FirstCell(v), src, SizeOf[v[2].type]).mem
  <1> SUFFICES ASSUME NEW u \in CheckedEnums
               PROVE  w[FirstCell(u)] \in Members[u[2].type]
    BY EnumCells
  <1>1. /\ u \in Views /\ FirstCell(u) \in Extent(u) /\ FirstCell(u) \in Nat
        /\ u[2].size \in Nat \ {0}
    BY EnumCells, ViewCells
  <1>2. CASE \A a \in Extent(u) : w[a] = mem[a]
    BY <1>1, <1>2, EnumCells
  <1>3. CASE \E x \in CheckedEnums :
               /\ x[2].type = u[2].type /\ x[2].size = u[2].size
               /\ \A i \in 0 .. u[2].size - 1 :
                     w[FirstCell(u) + i] = mem[FirstCell(x) + i]
    <2>1. PICK x \in CheckedEnums :
               /\ x[2].type = u[2].type
               /\ \A i \in 0 .. u[2].size - 1 :
                     w[FirstCell(u) + i] = mem[FirstCell(x) + i]
      BY <1>3
    <2>2. FirstCell(x) \in Nat
      BY EnumCells, ViewCells
    <2>3. 0 \in 0 .. u[2].size - 1 /\ FirstCell(u) + 0 = FirstCell(u)
          /\ FirstCell(x) + 0 = FirstCell(x)
      BY <1>1, <2>2
    <2>4. w[FirstCell(u)] = mem[FirstCell(x)]
      BY <2>1, <2>3
    <2> QED
      BY <2>1, <2>4, EnumCells
  <1> QED
    <2>1. CheckedEnums \in SUBSET Views /\ LaidOut(CheckedEnums)
      BY EnumCells DEF EnumLayout
    <2> HIDE DEF w
    <2> QED
      BY <1>2, <1>3, <2>1, StructCopy DEF w

\* A handle the setters do not refuse is a view.
LEMMA HandleView ==
    ASSUME NEW h \in Handles, h[1] # NULL, h[3] # NoField
    PROVE  LET v == <<<<h[1], h[2]>>, h[3]>>
           IN  v \in Views /\ v[1][1] = h[1] /\ v[2] = h[3]
  BY HandlesValid DEF ValidHandle

LEMMA SetFieldKeepsEnums ==
    ASSUME EnumLayout, mem \in [Addr -> Cell], ValidEnums(mem),
           NEW h \in Handles, NEW T \in DOMAIN SizeOf,
           NEW src, src = NoSrc \/ src \in SourcesFor(T)
    PROVE  ValidEnums(set_field(T, mem, h[1], h[3], src).mem)
  <1> DEFINE o == set_field(T, mem, h[1], h[3], src)
             v == <<<<h[1], h[2]>>, h[3]>>
  <1>1. CASE \E e : o = Err(mem, e)
    BY <1>1 DEF Err
  <1>2. CASE ~\E e : o = Err(mem, e)
    <2>1. /\ h[1] # NULL /\ h[3] # NoField /\ src # NoSrc /\ h[3].type = T
          /\ T \in DOMAIN Members => src[0] \in Members[T]
          /\ SizeOf[T] <= h[3].size \/ ~(SizeOf[T] > h[3].size)
          /\ o = CopyIn(mem, h[1] + h[3].offset, src, SizeOf[T])
      BY <1>2 DEF set_field, set_field_value
    <2>2. v \in Views /\ v[2] = h[3] /\ FirstCell(v) = h[1] + h[3].offset
      BY <2>1, HandleView DEF FirstCell
    <2>3. SizeOf[T] \in Nat /\ v[2].size \in Nat /\ SizeOf[T] <= v[2].size
      BY <2>1, <2>2, SizeTypes, ViewTypes
    <2> HIDE DEF v
    <2>4. CASE T \in StructTypes
      BY <2>1, <2>2, <2>3, <2>4, StructCopyKeepsEnums
    <2>5. CASE T \notin StructTypes
      BY <2>1, <2>2, <2>3, <2>5, PlainCopyKeepsEnums
    <2> QED
      BY <2>4, <2>5
  <1> QED
    BY <1>1, <1>2

LEMMA SetFieldArrKeepsEnums ==
    ASSUME EnumLayout, mem \in [Addr -> Cell], ValidEnums(mem),
           NEW h \in Handles, NEW T \in ArrayTypes, NEW src, NEW n \in Nat
    PROVE  ValidEnums(set_field_arr(T, mem, h[1], h[3], src, n).mem)
  <1> DEFINE o == set_field_arr(T, mem, h[1], h[3], src, n)
             k == n * SizeOf[ElemType[T]]
             v == <<<<h[1], h[2]>>, h[3]>>
  <1>1. CASE \E e : o = Err(mem, e)
    BY <1>1 DEF Err
  <1>2. CASE ~\E e : o = Err(mem, e)
    <2>1. /\ h[1] # NULL /\ h[3] # NoField /\ h[3].type = T
          /\ ~(k > h[3].size)
          /\ o = CopyIn(mem, h[1] + h[3].offset, src, k)
      BY <1>2 DEF set_field_arr, set_field_value
    <2>2. v \in Views /\ v[2] = h[3] /\ FirstCell(v) = h[1] + h[3].offset
      BY <2>1, HandleView DEF FirstCell
    <2>3. SizeOf[ElemType[T]] \in Nat
      BY SizeTypes DEF ArrayTypes
    <2>4. k \in Nat
      BY <2>3
    <2> HIDE DEF v, k
    <2>5. k <= v[2].size
      BY <2>1, <2>2, <2>4, ViewTypes
    <2>6. T \notin StructTypes /\ T \notin DOMAIN Members
      BY AccessAssumption DEF EnumLayout, LaidOut, ArrayTypes, AccessAssumption
    <2> QED
      BY <2>1, <2>2, <2>4, <2>5, <2>6, PlainCopyKeepsEnums
  <1> QED
    BY <1>1, <1>2

LEMMA SafeSetFieldKeepsEnums ==
    ASSUME EnumLayout, mem \in [Addr -> Cell], ValidEnums(mem),
           NEW h \in Handles, NEW src, NEW n \in Nat,
           src = NoSrc \/ src \in SourcesFor(h[3].type)
    PROVE  ValidEnums(safe_set_field(mem, h[1], h[3], src, n).mem)
  <1> DEFINE o == safe_set_field(mem, h[1], h[3], src, n)
             T == h[3].type
  <1>1. CASE \E e : o = Err(mem, e)
    BY <1>1 DEF Err
  <1>2. CASE T \in DOMAIN SizeOf /\ o = set_field(T, mem, h[1], h[3], src)
    BY <1>2, SetFieldKeepsEnums
  <1>3. CASE T \in ArrayTypes /\ o = set_field_arr(T, mem, h[1], h[3], src, n)
    BY <1>3, SetFieldArrKeepsEnums
  <1> QED
    BY <1>1, <1>2, <1>3 DEF safe_set_field, ArrayTypes

\* A write through a dynamic array stays in its block, away from all enums.
LEMMA LiveWriteKeepsEnums ==
    ASSUME IInv, ValidEnums(mem), NEW o, Contained(mem, o), WritesLive(mem, o)
    PROVE  ValidEnums(o.mem)
  <1> SUFFICES ASSUME NEW u \in Views, u[2].type \in DOMAIN Members
               PROVE  o.mem[u[1][1] + u[2].offset] \in Members[u[2].type]
    BY DEF ValidEnums
  <1> DEFINE a == u[1][1] + u[2].offset
  <1>1. a \in Extent(u) /\ a \in Addr /\ mem[a] \in Members[u[2].type]
    BY PointerType DEF ValidEnums, IInv, TypeOK
  <1> HIDE DEF a
  <1>2. a \notin o.wr
    <2>1. CASE o.wr = {}
      BY <2>1
    <2>2. CASE o.wr # {}
      <3>1. PICK v \in Dynamic : /\ Pointer(mem, v) # NULL
                                 /\ o.wr \subseteq LiveCells(mem, v)
        BY <2>2 DEF WritesLive
      <3>2. /\ Pointer(mem, v) \in DOMAIN BlockSize
            /\ o.wr \subseteq BlockCells(Pointer(mem, v))
        BY <3>1 DEF IInv, HonestLengths
      <3> QED
        BY <1>1, <3>2, HeapAssumption DEF HeapAssumption
    <2> QED
      BY <2>1, <2>2
  <1> QED
    BY <1>1, <1>2 DEF Contained, a

LEMMA TypedKeepsEnums ==
    ASSUME EnumLayout, IInv, ValidEnums(mem), TypedNext
    PROVE  ValidEnums(mem')
  <1> DEFINE Good == ValidEnums(mem')
             DynamicFields(h) == {f \in FieldsOf(h[2]) : IsDynamic(f)}
  <1>1. mem \in [Addr -> Cell]
    BY DEF IInv, TypeOK
  <1>2. ASSUME NEW o, Do(o), ValidEnums(o.mem) PROVE Good
    BY <1>2 DEF Do, ValidEnums
  <1> HIDE DEF Good
  <1>3. ASSUME NEW o, Do(o), o.mem = mem PROVE Good
    BY <1>2, <1>3
  <1>4. ASSUME NEW h \in Handles, NEW T \in ScalarTypes,
               NEW src \in SourcesFor(T), SetField(T, h, src)
        PROVE  Good
    <2>1. ValidEnums(set_field(T, mem, h[1], h[3], src).mem)
      BY <1>1, SetFieldKeepsEnums DEF ScalarTypes
    <2> QED
      BY <1>2, <1>4, <2>1 DEF SetField
  <1>5. ASSUME NEW h \in Handles, NEW T \in ArrayTypes, NEW n \in Counts,
               NEW src \in DataSources, SetFieldArr(T, h, src, n)
        PROVE  Good
    <2>1. ValidEnums(set_field_arr(T, mem, h[1], h[3], src, n).mem)
      BY <1>1, CountTypes, SetFieldArrKeepsEnums
    <2> QED
      BY <1>2, <1>5, <2>1 DEF SetFieldArr
  <1>6. ASSUME NEW h \in Handles, NEW n \in Counts, NEW src,
               src = NoSrc \/ src \in SourcesFor(h[3].type), SafeSetField(h, src, n)
        PROVE  Good
    <2>1. ValidEnums(safe_set_field(mem, h[1], h[3], src, n).mem)
      BY <1>1, <1>6, CountTypes, SafeSetFieldKeepsEnums
    <2> QED
      BY <1>2, <1>6, <2>1 DEF SafeSetField
  <1>7. ASSUME NEW h \in Handles, NEW T \in ScalarTypes, GetField(T, h)
        PROVE  Good
    BY <1>3, <1>7 DEF GetField, get_field, get_field_value, Err, CopyOut
  <1>8. ASSUME NEW h \in Handles, NEW T \in ArrayTypes, NEW n \in Counts,
               GetFieldArr(T, h, n)
        PROVE  Good
    BY <1>3, <1>8 DEF GetFieldArr, get_field_arr, get_field_value, Err, CopyOut
  <1>9. ASSUME NEW h \in Handles, NEW T \in ArrayTypes, NEW n \in Counts,
               GetFieldElem(T, h, n)
        PROVE  Good
    BY <1>3, <1>9 DEF GetFieldElem, get_field_elem, get_array_element, Err, CopyOut
  <1>10. ASSUME NEW h \in Handles, GetLength(h) PROVE Good
    BY <1>3, <1>10 DEF GetLength, get_dynamic_array_length, Err, CopyOut
  <1>11. ASSUME NEW h \in Handles, NEW g \in DynamicFields(h), NEW n \in Counts,
                NEW src \in DataSources \cup {NoSrc}, SetDynamic(g, h, src, n)
         PROVE  Good
    <2> DEFINE o == set_dynamic(h[2], g, mem, h[1], h[3], src, n)
    <2>1. Do(o) /\ n * SizeOf[ElemType[g.type]] <= MaxCopy
      BY <1>11 DEF SetDynamic
    <2>2. src \in Source \cup {NoSrc} /\ n \in Nat /\ g.type \in DOMAIN ElemType
      BY <1>1, SourceTypes, CountTypes, DynamicHasElemType
    <2>3. Contained(mem, o) /\ WritesLive(mem, o)
      BY <1>1, <2>1, <2>2, HandlesValid, SetDynamicSafe
    <2> HIDE DEF o
    <2>4. ValidEnums(o.mem)
      BY <2>3, LiveWriteKeepsEnums
    <2> QED
      BY <1>2, <2>1, <2>4
  <1>12. ASSUME NEW h \in Handles, NEW g \in DynamicFields(h), NEW n \in Counts,
                GetDynamic(g, h, n)
         PROVE  Good
    BY <1>3, <1>12 DEF GetDynamic, get_dynamic, get_dynamic_array_data, Err, CopyOut
  <1>13. Good
    BY <1>4, <1>5, <1>6, <1>7, <1>8, <1>9, <1>10, <1>11, <1>12 DEF TypedNext
  <1> QED
    BY <1>13 DEF Good

\* Whatever typed calls are made, copies of whole instances included, every
\* checked enum keeps a value its validator accepts: only an untyped call can
\* make one invalid.
THEOREM EnumsStayValid == EnumLayout /\ CarefulReaders /\ Spec => EnumsValid
  <1> SUFFICES ASSUME EnumLayout, CarefulReaders PROVE Spec => EnumsValid
    OBVIOUS
  <1>1. IInv /\ [Next]_vars => [ValidEnums(mem) /\ ~ValidEnums(mem') => ~TypedNext]_vars
    BY TypedKeepsEnums
  <1>2. Spec => []IInv
    BY Invariance
  <1> QED
    BY <1>1, <1>2, PTL DEF Spec, EnumsValid
=============================================================================
