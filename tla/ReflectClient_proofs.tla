------------------------- MODULE ReflectClient_proofs -------------------------
(***************************************************************************)
(* Proofs about ReflectClient: whatever lookups fail in between, a typed   *)
(* accessor given the caller's pair touches the member the last path asked *)
(* for, or nothing.  What is proved of the walk in PathResolve_proofs is   *)
(* used through an instance.                                               *)
(***************************************************************************)
EXTENDS ReflectClient, TLAPS

Walks == INSTANCE PathResolve_proofs

-----------------------------------------------------------------------------
(* The instances read the same tables.                                     *)

LEMMA SameTables ==
    /\ Walks!FieldInfo = FieldInfo /\ Walks!Addr = Addr /\ Walks!NULL = NULL
    /\ Walks!AllFields = AllFields /\ Walks!Views = Views
    /\ \A t : Walks!FieldsOf(t) = FieldsOf(t)
    /\ \A t, name : Walks!FindField(t, name) = FindField(t, name)
    /\ \A f : Walks!ElemSize(f) = ElemSize(f)
    /\ \A type : Walks!HasMetadata(type) <=> HasMetadata(type)
    /\ \A v : Walks!Extent(v) = Extent(v)
    /\ \A b : Walks!BlockCells(b) = BlockCells(b)
  <1>1. /\ \A t : Walks!FieldsOf(t) = FieldsOf(t)
        /\ \A t, name : Walks!FindField(t, name) = FindField(t, name)
        /\ \A f : Walks!ElemSize(f) = ElemSize(f)
        /\ \A type : Walks!HasMetadata(type) <=> HasMetadata(type)
    BY DEF Walks!FieldsOf, FieldsOf, Walks!FindField, FindField, Walks!ElemSize,
           ElemSize, Walks!HasMetadata, HasMetadata
  <1>2. Walks!FieldInfo = FieldInfo /\ Walks!Addr = Addr /\ Walks!NULL = NULL
    BY Zenon DEF Walks!FieldInfo, FieldInfo, Walks!Addr, Addr, Walks!NULL, NULL
  <1>3. /\ \A v : Walks!Extent(v) = Extent(v)
        /\ \A b : Walks!BlockCells(b) = BlockCells(b)
    BY Zenon DEF Walks!Extent, Extent, Walks!BlockCells, BlockCells, Walks!Span, Span
  <1>4. Walks!AllFields = AllFields /\ Walks!Views = Views
    BY <1>1 DEF Walks!AllFields, AllFields, Walks!Views, Views
  <1> QED
    BY <1>1, <1>2, <1>3, <1>4

LEMMA WalkAssumptions ==
    /\ Walks!TablesAssumption /\ Walks!SizesAssumption
    /\ Walks!LayoutAssumption /\ Walks!HeapAssumption
    /\ Walks!PathAssumption
  <1>1. Walks!TablesAssumption
    BY SameTables, TablesAssumption DEF Walks!TablesAssumption, TablesAssumption
  <1>2. Walks!SizesAssumption
    BY SameTables, SizesAssumption DEF Walks!SizesAssumption, SizesAssumption
  <1>3. Walks!LayoutAssumption
    BY SameTables, LayoutAssumption DEF Walks!LayoutAssumption, LayoutAssumption
  <1>4. Walks!HeapAssumption
    BY SameTables, HeapAssumption DEF Walks!HeapAssumption, HeapAssumption
  <1>5. Walks!PathAssumption
    <2>1. Walks!Segment = Path!Segment /\ Walks!AllFields = Path!AllFields
      BY SameTables DEF Walks!Segment, Path!Segment, Path!AllFields, AllFields,
                        Path!FieldsOf, FieldsOf
    <2> QED
      BY <2>1, ClientAssumption DEF ClientAssumption, Path!PathAssumption,
                                    Walks!PathAssumption
  <1> QED
    BY <1>1, <1>2, <1>3, <1>4, <1>5

\* The three readings of what a path denotes are one.
LEMMA SameAnswers ==
    \A base, path : Walks!Abstract!Answers(base, path) = Promise!Answers(base, path)
  <1>1. /\ \A t : Walks!Abstract!FieldsOf(t) = Promise!FieldsOf(t)
        /\ \A t, name : Walks!Abstract!FindField(t, name) = Promise!FindField(t, name)
        /\ \A f : Walks!Abstract!ElemSize(f) = Promise!ElemSize(f)
        /\ \A type : Walks!Abstract!HasMetadata(type) <=> Promise!HasMetadata(type)
    BY DEF Walks!Abstract!FieldsOf, Promise!FieldsOf, Walks!Abstract!FindField,
           Promise!FindField, Walks!Abstract!ElemSize, Promise!ElemSize,
           Walks!Abstract!HasMetadata, Promise!HasMetadata
  <1>2. Walks!Abstract!Views = Promise!Views
    BY <1>1 DEF Walks!Abstract!Views, Promise!Views
  <1>3. \A t, seg, f : Walks!Abstract!Names(t, seg, f) <=> Promise!Names(t, seg, f)
    BY <1>1 DEF Walks!Abstract!Names, Promise!Names
  <1>4. \A o, seg, q : Walks!Abstract!IsElement(o, seg, q) <=> Promise!IsElement(o, seg, q)
    BY <1>1, <1>3 DEF Walks!Abstract!IsElement, Promise!IsElement
  <1>5. \A base, path, o, f :
           Walks!Abstract!Denotes(base, path, o, f) <=> Promise!Denotes(base, path, o, f)
    BY <1>3, <1>4 DEF Walks!Abstract!Denotes, Promise!Denotes
  <1> QED
    BY <1>2, <1>5 DEF Walks!Abstract!Answers, Promise!Answers

-----------------------------------------------------------------------------
(* A step of the program is a step of the walk, or leaves it alone.        *)

LEMMA SameBuffer == \A path : Path!Buffer(path) = Walks!Buffer(path)
  <1>1. \A seg : Path!Width(seg) = Walks!Width(seg)
    BY DEF Path!Width, Walks!Width, Path!IndexLen, Walks!IndexLen
  <1>2. \A seg, room : Path!Cut(seg, room) = Walks!Cut(seg, room)
    BY <1>1, Zenon DEF Path!Cut, Walks!Cut, Path!NoIndex, Walks!NoIndex
  <1>3. \A path, i : Path!Start(path, i) = Walks!Start(path, i)
    <2>1. \A S : Path!Cardinality(S) = Walks!Cardinality(S)
      BY Zenon DEF Path!Cardinality, Walks!Cardinality
    <2> QED
      BY <1>1, <2>1 DEF Path!Start, Walks!Start
  <1> QED
    BY <1>2, <1>3 DEF Path!Buffer, Walks!Buffer

LEMMA SameNoCall == Path!NoCall = Walks!NoCall
  <1>1. Path!NULL = Walks!NULL
    BY DEF Path!NULL, Walks!NULL
  <1> QED
    BY <1>1, Zenon DEF Path!NoCall, Walks!NoCall

LEMMA SameCalls ==
    ASSUME NEW base, NEW path
    PROVE  /\ Path!CallExt(base, path) <=> Walks!CallExt(base, path)
           /\ Path!CallPlain(base, path) <=> Walks!CallPlain(base, path)
           /\ Path!QueryFast(base, path) <=> Walks!QueryFast(base, path)
           /\ Path!QuerySlow(base, path) <=> Walks!QuerySlow(base, path)
  <1>1. \A api, root :
           Path!Enter(api, base, root, path) <=> Walks!Enter(api, base, root, path)
    BY SameBuffer, Zenon DEF Path!Enter, Walks!Enter, Path!Fresh, Walks!Fresh
  <1>2. Path!IsSimple(path) <=> Walks!IsSimple(path)
    BY Zenon DEF Path!IsSimple, Walks!IsSimple
  <1>3. Path!FindField(base[2], path[1].name) = Walks!FindField(base[2], path[1].name)
        /\ Path!NULL = Walks!NULL
    BY DEF Path!FindField, Walks!FindField, Path!NULL, Walks!NULL
  <1>4. Path!ReturnAtOnce <=> Walks!ReturnAtOnce
    BY Zenon DEF Path!ReturnAtOnce, Walks!ReturnAtOnce, Path!Fresh, Walks!Fresh
  <1>5. Path!QueryFast(base, path) <=> Walks!QueryFast(base, path)
    BY <1>2, <1>3, <1>4, Zenon DEF Path!QueryFast, Walks!QueryFast
  <1> QED
    BY <1>1, <1>2, <1>5, Zenon
       DEF Path!CallExt, Walks!CallExt, Path!CallPlain, Walks!CallPlain,
           Path!QuerySlow, Walks!QuerySlow

LEMMA SameStep ==
    /\ Path!NotFound <=> Walks!NotFound
    /\ Path!NotAStruct <=> Walks!NotAStruct
    /\ Path!Descend <=> Walks!Descend
    /\ Path!Leaf <=> Walks!Leaf
  <1>1. /\ Path!tok = Walks!tok /\ Path!field = Walks!field
        /\ Path!Found <=> Walks!Found
        /\ Path!HasNext <=> Walks!HasNext
    BY DEF Path!tok, Walks!tok, Path!field, Walks!field, Path!FindField,
           Walks!FindField, Path!Found, Walks!Found, Path!HasNext, Walks!HasNext
  <1>2. /\ Path!NULL = Walks!NULL
        /\ \A f : Path!ElemSize(f) = Walks!ElemSize(f)
        /\ \A type : Path!HasMetadata(type) <=> Walks!HasMetadata(type)
    BY DEF Path!NULL, Walks!NULL, Path!ElemSize, Walks!ElemSize, Path!HasMetadata,
           Walks!HasMetadata
  <1>3. Path!Return <=> Walks!Return
    BY <1>2, SameNoCall, Zenon DEF Path!Return, Walks!Return
  <1>4. Path!Fail <=> Walks!Fail
    BY <1>2, <1>3, Zenon DEF Path!Fail, Walks!Fail
  <1>5. Path!NotFound <=> Walks!NotFound
    BY <1>1, <1>4, Zenon DEF Path!NotFound, Walks!NotFound
  <1>6. Path!NotAStruct <=> Walks!NotAStruct
    BY <1>1, <1>2, <1>4, Zenon DEF Path!NotAStruct, Walks!NotAStruct
  <1>7. Path!Descend <=> Walks!Descend
    BY <1>1, <1>2, Zenon DEF Path!Descend, Walks!Descend
  <1>8. Path!Leaf <=> Walks!Leaf
    BY <1>1, <1>3, Zenon DEF Path!Leaf, Walks!Leaf
  <1> QED
    BY <1>5, <1>6, <1>7, <1>8

\* An access leaves the walk and what was asked as they are.
Accesses ==
    \/ \E T \in Access!ScalarTypes :
          \/ \E src \in Access!SourcesFor(T) : Set(T, src)
          \/ Get(T)
    \/ \E T \in Access!ArrayTypes :
          \/ \E src \in Access!DataSources, n \in Access!Counts : SetArr(T, src, n)
          \/ GetElem(T)
    \/ \E src \in Access!DataSources, n \in Access!Counts : SafeSet(src, n)

LEMMA AccessKeeps == Accesses => UNCHANGED <<pathVars, asked>>
  BY DEF Accesses, Set, Get, SetArr, GetElem, SafeSet, Accessing

LEMMA InitWalks == Init => Walks!Init
  <1>1. Path!NULL = Walks!NULL
    BY DEF Path!NULL, Walks!NULL
  <1> QED
    BY <1>1, SameNoCall, Zenon DEF Init, Path!Init, Walks!Init

LEMMA NextWalks == [Next]_vars => [Walks!Next]_Walks!vars
  <1> SUFFICES ASSUME [Next]_vars PROVE [Walks!Next]_Walks!vars
    OBVIOUS
  <1>1. ASSUME NEW base \in Roots, NEW path \in Paths, Lookup(base, path)
        PROVE  Walks!Next
    BY <1>1, SameCalls, Zenon DEF Lookup, Walks!Next, Walks!Call
  <1>2. CASE Walk
    BY <1>2, SameStep, Zenon DEF Walk, Path!Step, Walks!Step, Walks!Next
  <1>3. ASSUME UNCHANGED pathVars PROVE UNCHANGED Walks!vars
    BY <1>3 DEF pathVars, Walks!vars
  <1>4. CASE Accesses
    BY <1>3, <1>4, AccessKeeps
  <1>5. CASE UNCHANGED vars
    BY <1>3, <1>5 DEF vars
  <1> QED
    BY <1>1, <1>2, <1>4, <1>5 DEF Next, Accesses

-----------------------------------------------------------------------------
(* What the caller holds is what was asked for.                            *)

\* The caller's pair, and its index if it has one, come from a view that
\* path denotes from base.
Given(base, path) ==
    \E v \in Promise!Answers(base, path) :
        /\ v[1][1] = target /\ v[2] = leaf
        /\ aindex >= 0 => aindex = path[Len(path)].index

Owed ==
    /\ pc = "loop" => asked = <<call.base, call.path>> /\ call.api # "metadata"
    /\ pc = "idle" /\ target # NULL =>
          \E base, path : asked = <<base, path>> /\ Given(base, path)

ClientInv == Walks!RInv /\ Owed

LEMMA InitOwed == Init => Owed
  <1> SUFFICES ASSUME Init PROVE Owed
    OBVIOUS
  <1>1. pc = "idle" /\ target = NULL
    BY SameTables DEF Init, Path!Init, Path!NULL, NULL
  <1> QED
    BY <1>1 DEF Owed

LEMMA InitClientInv == Init => ClientInv
  BY InitOwed, InitWalks, WalkAssumptions, Walks!InitRInv DEF ClientInv

LEMMA NextRInv == Walks!RInv /\ [Next]_vars => Walks!RInv'
  BY NextWalks, WalkAssumptions, Walks!NextRInv

LEMMA LookupOwed ==
    ASSUME NEW base \in Roots, NEW path \in Paths, Lookup(base, path)
    PROVE  Owed'
  <1>1. asked' = <<base, path>>
    BY DEF Lookup
  <1>2. ASSUME NEW api \in {"ext", "plain", "query"}, NEW root,
               Walks!Enter(api, base, root, path)
        PROVE  Owed'
    <2>1. pc' = "loop" /\ call' = [api |-> api, base |-> base, path |-> path]
      BY <1>2 DEF Walks!Enter
    <2>2. call'.base = base /\ call'.path = path /\ call'.api # "metadata"
      BY <2>1
    <2> QED
      BY <1>1, <2>1, <2>2 DEF Owed
  <1>3. ASSUME Walks!QueryFast(base, path) PROVE Owed'
    <2> DEFINE f == Walks!FindField(base[2], path[1].name)
    <2>1. /\ Walks!IsSimple(path) /\ aindex' = -1 /\ leaf' = f /\ pc' = pc /\ pc = "idle"
          /\ target' = IF f = NoField THEN NULL ELSE base[1]
      BY <1>3, SameTables DEF Walks!QueryFast, Walks!ReturnAtOnce, Walks!Fresh
    <2>2. Walks!Abstract!Answers(base, path)
             = IF f = NoField THEN {} ELSE {<<base, f>>}
      BY <2>1, WalkAssumptions, Walks!SimpleAnswers
    <2>3. f # NoField => <<base, f>> \in Promise!Answers(base, path)
      BY <2>2, SameAnswers
    <2> HIDE DEF f
    <2>4. target' # NULL => f # NoField /\ target' = base[1]
      BY <2>1
    <2>5. target' # NULL => Given(base, path)'
      <3> SUFFICES ASSUME target' # NULL PROVE Given(base, path)'
        OBVIOUS
      <3> DEFINE v == <<base, f>>
      <3>1. v \in Promise!Answers(base, path)
        BY <2>3, <2>4
      <3>2. v[1][1] = target' /\ v[2] = leaf' /\ ~(aindex' >= 0)
        BY <2>1, <2>4
      <3> QED
        BY <3>1, <3>2 DEF Given
    <2> QED
      BY <1>1, <2>1, <2>5 DEF Owed
  <1> QED
    BY <1>2, <1>3, SameCalls
       DEF Lookup, Walks!CallExt, Walks!CallPlain, Walks!QuerySlow

LEMMA WalkOwed ==
    ASSUME PathsFit, ClientInv, Walk
    PROVE  Owed'
  <1>1. /\ asked' = asked
        /\ \/ Walks!NotFound \/ Walks!NotAStruct \/ Walks!Descend \/ Walks!Leaf
    BY SameStep DEF Walk, Path!Step
  <1>2. pc = "loop"
    BY <1>1 DEF Walks!NotFound, Walks!NotAStruct, Walks!Descend, Walks!Leaf
  <1>3. PICK base, path : /\ base = call.base /\ path = call.path
                          /\ asked = <<base, path>> /\ call.api # "metadata"
    BY <1>2 DEF ClientInv, Owed
  <1>4. tokens = path
    <2>1. call.path \in Paths /\ tokens = Walks!Buffer(call.path)
      BY <1>2 DEF ClientInv, Walks!RInv, Walks!CallSound
    <2> QED
      BY <1>3, <2>1, SameBuffer DEF PathsFit
  <1>5. CASE Walks!NotFound \/ Walks!NotAStruct
    <2>1. Walks!Fail
      BY <1>5 DEF Walks!NotFound, Walks!NotAStruct
    <2>2. pc' = "idle" /\ target' = NULL
      BY <1>3, <2>1, SameTables DEF Walks!Fail, Walks!Return
    <2> QED
      BY <2>2 DEF Owed
  <1>6. CASE Walks!Descend
    <2>1. pc' = pc /\ call' = call
      BY <1>6 DEF Walks!Descend
    <2> QED
      BY <1>1, <1>2, <1>3, <2>1 DEF Owed
  <1>7. CASE Walks!Leaf
    <2>1. PICK o \in Objects :
             /\ Walks!Abstract!Answers(base, path) = {<<o, Walks!field>>}
             /\ inst # Walks!NULL => inst = o[1]
             /\ Walks!tok = path[Len(path)]
      BY <1>3, <1>4, <1>7, WalkAssumptions, Walks!LeafAnswers DEF ClientInv
    <2>2. /\ pc' = "idle" /\ leaf' = Walks!field /\ target' = inst
          /\ aindex' = IF call.api = "ext" THEN Walks!tok.index ELSE aindex
      BY <1>3, <1>7 DEF Walks!Leaf, Walks!Return
    <2>3. aindex = -1
      BY <1>2 DEF ClientInv, Walks!RInv, Walks!IInv, Walks!Walking
    <2>4. target' # NULL => Given(base, path)'
      <3> SUFFICES ASSUME target' # NULL
                   PROVE  \E v \in Promise!Answers(base, path) :
                             /\ v[1][1] = target' /\ v[2] = leaf'
                             /\ aindex' >= 0 => aindex' = path[Len(path)].index
        BY DEF Given
      <3> DEFINE v == <<o, Walks!field>>
      <3>1. v \in Promise!Answers(base, path)
        BY <2>1, SameAnswers
      <3>2. v[1][1] = target' /\ v[2] = leaf'
        BY <2>1, <2>2, SameTables
      <3>3. aindex' >= 0 => aindex' = path[Len(path)].index
        BY <2>1, <2>2, <2>3
      <3> QED
        BY <3>1, <3>2, <3>3
    <2> QED
      BY <1>1, <1>3, <2>2, <2>4 DEF Owed
  <1> QED
    BY <1>1, <1>5, <1>6, <1>7

LEMMA NextClientInv ==
    ASSUME PathsFit, ClientInv, [Next]_vars
    PROVE  ClientInv'
  <1>1. Walks!RInv'
    BY NextRInv DEF ClientInv
  <1> SUFFICES Owed'
    BY <1>1 DEF ClientInv
  <1>2. ASSUME UNCHANGED <<pathVars, asked>> PROVE Owed'
    <2>1. pc' = pc /\ call' = call /\ target' = target /\ leaf' = leaf
          /\ aindex' = aindex /\ asked' = asked
      BY <1>2 DEF pathVars
    <2> QED
      BY <2>1 DEF ClientInv, Owed, Given
  <1>3. CASE Accesses
    BY <1>2, <1>3, AccessKeeps
  <1>4. CASE UNCHANGED vars
    BY <1>2, <1>4 DEF vars
  <1> QED
    BY <1>3, <1>4, LookupOwed, WalkOwed DEF Next, Accesses

-----------------------------------------------------------------------------
(* What an accessor touches                                                *)

\* The cells an outcome reads or writes are in field f of the instance at a.
Inside(o, a, f) ==
    \/ o.rd \cup o.wr = {}
    \/ a # NULL /\ f # NoField /\ o.rd \cup o.wr \subseteq Span(a + f.offset, f.size)

LEMMA SizesOfTypes ==
    /\ \A T \in DOMAIN SizeOf : SizeOf[T] \in Nat
    /\ \A T \in DOMAIN ElemType : SizeOf[ElemType[T]] \in Nat
    /\ MaxCopy \in Nat
  BY ClientAssumption DEF ClientAssumption, Access!AccessAssumption

LEMMA SpanWithin ==
    ASSUME NEW a \in Int, NEW n \in Int, NEW size \in Int, n <= size
    PROVE  Access!Span(a, n) \subseteq Span(a, size)
  BY DEF Access!Span, Span

LEMMA ErrInside == \A m, e, a, f : Inside(Access!Err(m, e), a, f)
  BY DEF Inside, Access!Err

LEMMA SetFieldValueInside ==
    ASSUME NEW m, NEW a \in Int, NEW f, NEW src, NEW n \in Int,
           f # NoField /\ a # NULL => f.offset \in Int /\ f.size \in Int
    PROVE  Inside(Access!set_field_value(m, a, f, src, n), a, f)
  <1> DEFINE o == Access!set_field_value(m, a, f, src, n)
             c == Access!CopyIn(m, a + f.offset, src, n)
  <1>1. CASE \E e : o = Access!Err(m, e)
    BY <1>1, ErrInside
  <1>2. CASE ~ \E e : o = Access!Err(m, e)
    <2>1. a # NULL /\ f # NoField /\ ~(n > f.size) /\ o = c
      BY <1>2 DEF Access!set_field_value, Access!NULL, NULL
    <2>2. o.rd \cup o.wr = Access!Span(a + f.offset, n)
      BY <2>1 DEF Access!CopyIn
    <2>3. Access!Span(a + f.offset, n) \subseteq Span(a + f.offset, f.size)
      BY <2>1, SpanWithin
    <2> QED
      BY <2>1, <2>2, <2>3 DEF Inside
  <1> QED
    BY <1>1, <1>2

LEMMA GetFieldValueInside ==
    ASSUME NEW m, NEW a \in Int, NEW f, NEW n \in Int,
           f # NoField /\ a # NULL => f.offset \in Int /\ f.size \in Int
    PROVE  Inside(Access!get_field_value(m, a, f, n), a, f)
  <1> DEFINE o == Access!get_field_value(m, a, f, n)
             c == Access!CopyOut(m, a + f.offset, n)
  <1>1. CASE \E e : o = Access!Err(m, e)
    BY <1>1, ErrInside
  <1>2. CASE ~ \E e : o = Access!Err(m, e)
    <2>1. a # NULL /\ f # NoField /\ ~(n > f.size) /\ o = c
      BY <1>2 DEF Access!get_field_value, Access!NULL, NULL
    <2>2. o.rd \cup o.wr = Access!Span(a + f.offset, n)
      BY <2>1 DEF Access!CopyOut
    <2>3. Access!Span(a + f.offset, n) \subseteq Span(a + f.offset, f.size)
      BY <2>1, SpanWithin
    <2> QED
      BY <2>1, <2>2, <2>3 DEF Inside
  <1> QED
    BY <1>1, <1>2

\* Element i of an array of c elements of size e ends before the array.
LEMMA ElementEnd ==
    ASSUME NEW i \in Nat, NEW c \in Nat, NEW e \in Nat, i < c
    PROVE  i * e \in Nat /\ i * e + e <= c * e
  <1>1. PICK d \in Nat : c = i + 1 + d
    <2>1. c - i - 1 \in Nat /\ c = i + 1 + (c - i - 1)
      OBVIOUS
    <2> QED
      BY <2>1
  <1>2. c * e = i * e + e + d * e
    BY <1>1
  <1>3. d * e \in Nat /\ i * e \in Nat
    OBVIOUS
  <1> QED
    BY <1>2, <1>3

\* A typed read of an element that succeeds reads that element.
LEMMA ElementRead ==
    ASSUME NEW m, NEW a, NEW f, NEW T, NEW i,
           Access!get_field_elem(T, m, a, f, i).res = "OK"
    PROVE  /\ a # NULL /\ f # NoField /\ ~(i >= f.count)
           /\ Access!get_field_elem(T, m, a, f, i).wr = {}
           /\ Access!get_field_elem(T, m, a, f, i).rd
                 = Span(a + f.offset + i * ElemSize(f), ElemSize(f))
  <1> DEFINE o == Access!get_field_elem(T, m, a, f, i)
             c == Access!CopyOut(m, a + f.offset + i * Access!ElemSize(f),
                                 Access!ElemSize(f))
  <1>1. ~ \E e \in {"NULL_PTR", "TYPE_MISMATCH", "ACCESS_DENIED", "OUT_OF_BOUNDS"} :
             o = Access!Err(m, e)
    BY DEF Access!Err
  <1>2. a # NULL /\ f # NoField /\ ~(i >= f.count) /\ o = c
    BY <1>1 DEF Access!get_field_elem, Access!get_array_element, Access!NULL, NULL
  <1> QED
    BY <1>2 DEF Access!CopyOut, Access!Span, Span, Access!ElemSize, ElemSize

LEMMA GetElemInside ==
    ASSUME NEW m, NEW a \in Int, NEW f, NEW T, NEW i \in Nat,
           f # NoField /\ a # NULL =>
              /\ f.offset \in Int /\ f.size \in Nat /\ f.count \in Nat \ {0}
              /\ f.size = f.count * ElemSize(f)
    PROVE  Inside(Access!get_field_elem(T, m, a, f, i), a, f)
  <1> DEFINE o == Access!get_field_elem(T, m, a, f, i)
  <1>1. CASE \E e : o = Access!Err(m, e)
    BY <1>1, ErrInside
  <1>2. CASE ~ \E e : o = Access!Err(m, e)
    <2>1. o.res = "OK"
      <3>1. \E p, n : o = Access!CopyOut(m, p, n)
        BY <1>2 DEF Access!get_field_elem, Access!get_array_element
      <3> QED
        BY <3>1 DEF Access!CopyOut
    <2>2. /\ a # NULL /\ f # NoField /\ ~(i >= f.count) /\ o.wr = {}
          /\ o.rd = Span(a + f.offset + i * ElemSize(f), ElemSize(f))
      BY <2>1, ElementRead
    <2> DEFINE e == ElemSize(f)
    <2>3. e \in Nat /\ f.count \in Nat /\ i < f.count /\ f.size = f.count * e
          /\ f.offset \in Int
      BY <2>2 DEF ElemSize
    <2> HIDE DEF e
    <2>4. i * e \in Nat /\ i * e + e <= f.size
      BY <2>3, ElementEnd
    <2>5. Span(a + f.offset + i * e, e) \subseteq Span(a + f.offset, f.size)
      <3> DEFINE b == a + f.offset
                 d == i * e
      <3>1. b \in Int /\ d \in Nat /\ d + e <= f.size /\ f.size \in Nat
        BY <2>2, <2>3, <2>4
      <3> HIDE DEF b, d
      <3>2. Span(b + d, e) \subseteq Span(b, f.size)
        BY <2>3, <3>1 DEF Span
      <3> QED
        BY <3>2 DEF b, d
    <2> QED
      BY <2>2, <2>5 DEF Inside, e
  <1> QED
    BY <1>1, <1>2

LEMMA TypedInside ==
    ASSUME NEW m, NEW a \in Int, NEW f, NEW src, NEW n \in Nat,
           f # NoField /\ a # NULL => f.offset \in Int /\ f.size \in Int
    PROVE  /\ \A T \in DOMAIN SizeOf : /\ Inside(Access!set_field(T, m, a, f, src), a, f)
                                       /\ Inside(Access!get_field(T, m, a, f), a, f)
           /\ \A T \in DOMAIN ElemType :
                 Inside(Access!set_field_arr(T, m, a, f, src, n), a, f)
           /\ Inside(Access!safe_set_field(m, a, f, src, n), a, f)
  <1>1. ASSUME NEW T \in DOMAIN SizeOf
        PROVE  Inside(Access!set_field(T, m, a, f, src), a, f)
    <2>1. SizeOf[T] \in Int
      BY SizesOfTypes
    <2>2. Inside(Access!set_field_value(m, a, f, src, SizeOf[T]), a, f)
      BY <2>1, SetFieldValueInside
    <2> QED
      BY <2>2, ErrInside DEF Access!set_field
  <1>2. ASSUME NEW T \in DOMAIN SizeOf
        PROVE  Inside(Access!get_field(T, m, a, f), a, f)
    <2>1. SizeOf[T] \in Int
      BY SizesOfTypes
    <2>2. Inside(Access!get_field_value(m, a, f, SizeOf[T]), a, f)
      BY <2>1, GetFieldValueInside
    <2> QED
      BY <2>2, ErrInside DEF Access!get_field
  <1>3. ASSUME NEW T \in DOMAIN ElemType
        PROVE  Inside(Access!set_field_arr(T, m, a, f, src, n), a, f)
    <2> DEFINE size == n * SizeOf[ElemType[T]]
    <2>1. size \in Int
      BY SizesOfTypes
    <2> HIDE DEF size
    <2>2. Inside(Access!set_field_value(m, a, f, src, size), a, f)
      BY <2>1, SetFieldValueInside
    <2> QED
      BY <2>2, ErrInside DEF Access!set_field_arr, size
  <1>4. Inside(Access!safe_set_field(m, a, f, src, n), a, f)
    BY <1>1, <1>3, ErrInside DEF Access!safe_set_field
  <1> QED
    BY <1>1, <1>2, <1>3, <1>4

-----------------------------------------------------------------------------
(* The theorems                                                            *)

\* Typed and valid parts of the caller's pair
LEMMA PairTypes ==
    ASSUME ClientInv
    PROVE  /\ target \in Int
           /\ leaf # NoField => /\ leaf.offset \in Int /\ leaf.size \in Nat
                                /\ leaf.count \in Nat \ {0}
                                /\ leaf.size = leaf.count * ElemSize(leaf)
           /\ aindex \in Int
  <1>1. leaf \in AllFields \cup {NoField} /\ target \in Addr \cup {NULL} /\ aindex \in Int
    BY SameTables DEF ClientInv, Walks!RInv, Walks!IInv, Walks!TypeOK
  <1>2. AllFields \subseteq FieldInfo
    BY WalkAssumptions, Walks!FieldTypes, SameTables
  <1> QED
    BY <1>1, <1>2, SizesAssumption DEF SizesAssumption, FieldInfo, Addr, NULL

\* An access with the pair is one outcome of an accessor, inside the field of
\* the pair.
LEMMA AccessInside ==
    ASSUME ClientInv, Accesses
    PROVE  \E o : rd' = o.rd /\ wr' = o.wr /\ Inside(o, target, leaf)
  <1> USE DEF Access!Do
  <1>1. /\ Pair[1] = target /\ Pair[3] = leaf
        /\ Access!Counts \subseteq Nat
        /\ Access!ScalarTypes = DOMAIN SizeOf /\ Access!ArrayTypes \subseteq DOMAIN ElemType
    BY SizesOfTypes DEF Pair, Access!Counts, Access!ScalarTypes, Access!ArrayTypes
  <1>2. target \in Int /\ aindex \in Int
        /\ (leaf # NoField /\ target # NULL =>
              leaf.offset \in Int /\ leaf.size \in Int)
    BY PairTypes
  <1>3. ASSUME NEW T \in Access!ScalarTypes, NEW src, Set(T, src)
        PROVE  \E o : rd' = o.rd /\ wr' = o.wr /\ Inside(o, target, leaf)
    <2> DEFINE o == Access!set_field(T, mem, target, leaf, src)
    <2>1. Inside(o, target, leaf)
      BY <1>1, <1>2, TypedInside
    <2>2. rd' = o.rd /\ wr' = o.wr
      BY <1>1, <1>3 DEF Set, Access!SetField
    <2> QED
      BY <2>1, <2>2
  <1>4. ASSUME NEW T \in Access!ScalarTypes, Get(T)
        PROVE  \E o : rd' = o.rd /\ wr' = o.wr /\ Inside(o, target, leaf)
    <2> DEFINE o == Access!get_field(T, mem, target, leaf)
    <2>1. Inside(o, target, leaf)
      BY <1>1, <1>2, TypedInside
    <2>2. rd' = o.rd /\ wr' = o.wr
      BY <1>1, <1>4 DEF Get, Access!GetField
    <2> QED
      BY <2>1, <2>2
  <1>5. ASSUME NEW T \in Access!ArrayTypes, NEW src, NEW n \in Access!Counts,
               SetArr(T, src, n)
        PROVE  \E o : rd' = o.rd /\ wr' = o.wr /\ Inside(o, target, leaf)
    <2> DEFINE o == Access!set_field_arr(T, mem, target, leaf, src, n)
    <2>1. Inside(o, target, leaf)
      BY <1>1, <1>2, TypedInside
    <2>2. rd' = o.rd /\ wr' = o.wr
      BY <1>1, <1>5 DEF SetArr, Access!SetFieldArr
    <2> QED
      BY <2>1, <2>2
  <1>6. ASSUME NEW T \in Access!ArrayTypes, GetElem(T)
        PROVE  \E o : rd' = o.rd /\ wr' = o.wr /\ Inside(o, target, leaf)
    <2> DEFINE o == Access!get_field_elem(T, mem, target, leaf, aindex)
    <2>1. aindex \in Nat
      BY <1>2, <1>6 DEF GetElem
    <2>2. Inside(o, target, leaf)
      BY <2>1, PairTypes, GetElemInside
    <2>3. rd' = o.rd /\ wr' = o.wr
      BY <1>1, <1>6 DEF GetElem, Access!GetFieldElem
    <2> QED
      BY <2>2, <2>3
  <1>7. ASSUME NEW src, NEW n \in Access!Counts, SafeSet(src, n)
        PROVE  \E o : rd' = o.rd /\ wr' = o.wr /\ Inside(o, target, leaf)
    <2> DEFINE o == Access!safe_set_field(mem, target, leaf, src, n)
    <2>1. Inside(o, target, leaf)
      BY <1>1, <1>2, TypedInside
    <2>2. rd' = o.rd /\ wr' = o.wr
      BY <1>1, <1>7 DEF SafeSet, Access!SafeSetField
    <2> QED
      BY <2>1, <2>2
  <1> QED
    BY <1>3, <1>4, <1>5, <1>6, <1>7 DEF Accesses

\* The pair of an idle caller is a view of what was asked.
LEMMA PairIsAsked ==
    ASSUME ClientInv, pc = "idle", target # NULL
    PROVE  \E v \in Asked : /\ v[1][1] = target /\ v[2] = leaf
                            /\ aindex >= 0 => aindex = asked[2][Len(asked[2])].index
  <1>1. PICK base, path : asked = <<base, path>> /\ Given(base, path)
    BY DEF ClientInv, Owed
  <1>2. asked # <<>> /\ asked[1] = base /\ asked[2] = path
    BY <1>1
  <1>3. Asked = Promise!Answers(base, path)
    BY <1>2, Zenon DEF Asked
  <1> QED
    BY <1>1, <1>2, <1>3 DEF Given

LEMMA AccessHits ==
    ASSUME ClientInv, [Next]_vars, <<rd, wr>>' # <<rd, wr>>, rd' \cup wr' # {}
    PROVE  \E v \in Asked : rd' \cup wr' \subseteq Extent(v)
  <1>1. CASE Accesses
    <2>1. PICK o : rd' = o.rd /\ wr' = o.wr /\ Inside(o, target, leaf)
      BY <1>1, AccessInside
    <2>2. /\ target # NULL /\ leaf # NoField
          /\ rd' \cup wr' \subseteq Span(target + leaf.offset, leaf.size)
      BY <2>1 DEF Inside
    <2>3. pc = "idle"
      BY <1>1 DEF Accesses, Set, Get, SetArr, GetElem, SafeSet, Accessing
    <2>4. PICK v \in Asked : v[1][1] = target /\ v[2] = leaf
      BY <2>2, <2>3, PairIsAsked
    <2> QED
      BY <2>2, <2>4 DEF Extent
  <1>2. ASSUME NEW base \in Roots, NEW path \in Paths, Lookup(base, path)
        PROVE  FALSE
    BY <1>2 DEF Lookup
  <1>3. CASE Walk \/ UNCHANGED vars
    BY <1>3 DEF Walk, vars, memVars
  <1> QED
    BY <1>1, <1>2, <1>3 DEF Next, Accesses

LEMMA ElementHits ==
    ASSUME ClientInv, NEW T \in Access!ArrayTypes, GetElem(T), res' = "OK"
    PROVE  \E v \in Asked :
              LET i == asked[2][Len(asked[2])].index
              IN  rd' = Span(v[1][1] + v[2].offset + i * ElemSize(v[2]), ElemSize(v[2]))
  <1>1. /\ pc = "idle" /\ aindex >= 0
        /\ res' = Access!get_field_elem(T, mem, target, leaf, aindex).res
        /\ rd' = Access!get_field_elem(T, mem, target, leaf, aindex).rd
    BY DEF GetElem, Accessing, Access!GetFieldElem, Access!Do, Pair
  <1>2. /\ target # NULL
        /\ rd' = Span(target + leaf.offset + aindex * ElemSize(leaf), ElemSize(leaf))
    BY <1>1, ElementRead
  <1>3. PICK v \in Asked : /\ v[1][1] = target /\ v[2] = leaf
                           /\ aindex = asked[2][Len(asked[2])].index
    BY <1>1, <1>2, PairIsAsked
  <1> QED
    BY <1>2, <1>3

THEOREM Invariance == PathsFit /\ Spec => []ClientInv
  <1> SUFFICES ASSUME PathsFit PROVE Spec => []ClientInv
    OBVIOUS
  <1>1. ClientInv /\ [Next]_vars => ClientInv'
    BY NextClientInv
  <1> QED
    BY <1>1, InitClientInv, PTL DEF Spec

\* What a typed accessor reads or writes lies in the member that the last
\* path denotes; after a path that denotes nothing it touches nothing,
\* whatever the caller's leaf still holds.
THEOREM AccessesHitTheAsked == PathsFit /\ Spec => AccessHitsTheAskedMember
  <1> DEFINE Hit == <<rd, wr>>' # <<rd, wr>> /\ rd' \cup wr' # {}
                       => \E v \in Asked : rd' \cup wr' \subseteq Extent(v)
  <1>1. ClientInv /\ [Next]_vars => [Hit]_vars
    BY AccessHits
  <1> QED
    BY <1>1, Invariance, PTL DEF Spec, AccessHitsTheAskedMember

\* The element read with the index that resolve_field_path_ext gave is the
\* element the path names.
THEOREM ElementsAreTheAsked == PathsFit /\ Spec => ElementIsTheOneAsked
  <1> DEFINE Same == \A T \in Access!ArrayTypes :
                        GetElem(T) /\ res' = "OK" =>
                           \E v \in Asked :
                              LET i == asked[2][Len(asked[2])].index
                              IN  rd' = Span(v[1][1] + v[2].offset + i * ElemSize(v[2]),
                                             ElemSize(v[2]))
  <1>1. ClientInv /\ [Next]_vars => [Same]_vars
    BY ElementHits
  <1> QED
    BY <1>1, Invariance, PTL DEF Spec, ElementIsTheOneAsked

===============================================================================
