------------------------- MODULE PathResolve_proofs -------------------------
(***************************************************************************)
(* Proofs about PathResolve: for every registry, layout, set of paths and  *)
(* buffer length, the walk stays on instances, the pair it returns is a    *)
(* view, and it is the one PathLookup promises.                            *)
(***************************************************************************)
EXTENDS PathResolve, Registry_proofs, FiniteSetTheorems, WellFoundedInduction

-----------------------------------------------------------------------------
(* The buffer                                                              *)

LEMMA PathTypes ==
    ASSUME NEW path \in Paths
    PROVE  /\ path \in Seq(Segment) /\ 1 \in DOMAIN path
           /\ \A i \in DOMAIN path : path[i] \in Segment
  BY PathAssumption DEF PathAssumption

\* What is left of a segment is a segment, however little room there is.
LEMMA CutType ==
    ASSUME NEW seg \in Segment, NEW room
    PROVE  Cut(seg, room) \in Segment
  <1>1. \A name \in DOMAIN NameLen : NoIndex(name) \in Segment
    BY DEF NoIndex, Segment
  <1>2. seg.name \in DOMAIN NameLen /\ [seg EXCEPT !.index = 0] \in Segment
    BY DEF Segment
  <1>3. "?" \in DOMAIN NameLen
    BY PathAssumption DEF PathAssumption
  <1>4. NoIndex("?") \in Segment /\ NoIndex(seg.name) \in Segment
    BY <1>1, <1>2, <1>3
  <1>5. Cut(seg, room) \in {seg, NoIndex("?"), NoIndex(seg.name),
                          [seg EXCEPT !.index = 0]}
    BY ZenonT(30) DEF Cut
  <1> QED
    BY <1>2, <1>4, <1>5

\* The buffer holds segments, and at least the first one.
LEMMA BufferType ==
    ASSUME NEW path \in Paths
    PROVE  /\ 1 \in DOMAIN Buffer(path)
           /\ \A i \in DOMAIN Buffer(path) : Buffer(path)[i] \in Segment
  <1>1. Start(path, 1) = 0
    <2>1. UNION {{j} \X (0 .. Width(path[j])) : j \in 1 .. 1 - 1} = {}
      OBVIOUS
    <2> QED
      BY <2>1, FS_EmptySet DEF Start
  <1>2. BufLen \in Nat
    BY PathAssumption DEF PathAssumption
  <1>3. 1 \in DOMAIN Buffer(path)
    BY <1>1, <1>2, PathTypes DEF Buffer
  <1> QED
    BY <1>3, CutType, PathTypes DEF Buffer

-----------------------------------------------------------------------------
(* The inductive invariant                                                 *)

\* A walk that is to return a pointer has an instance, searches the table of
\* a reflected struct, and has not written the caller's index yet.
Walking ==
    pc = "loop" =>
        /\ meta \in StructTypes
        /\ call.api # "metadata" => inst # NULL
        /\ aindex = -1

IInv ==
    /\ TypeOK
    /\ Walking
    /\ WalkInsideObjects
    /\ HandleValid
    /\ IndexUsable

LEMMA RootTypes ==
    ASSUME NEW base \in Roots
    PROVE  /\ base = <<base[1], base[2]>> /\ base \in Objects
           /\ base[1] \in Addr /\ base[1] # NULL /\ base[2] \in StructTypes
  <1>1. base \in Objects
    BY PathAssumption DEF PathAssumption
  <1>2. base \in Addr \X StructTypes /\ Top \in Nat
    BY <1>1, LayoutAssumption DEF LayoutAssumption
  <1> QED
    BY <1>1, <1>2 DEF Addr, NULL

\* An entry of the table of an instance makes a view of it.
LEMMA EntryView ==
    ASSUME NEW t \in StructTypes, NEW name, NEW a,
           FindField(t, name) # NoField, <<a, t>> \in Objects
    PROVE  <<<<a, t>>, FindField(t, name)>> \in Views
  BY FindFieldEntry DEF Views

LEMMA InitIInv == Init => IInv
  <1> SUFFICES ASSUME Init PROVE IInv
    OBVIOUS
  <1>1. tokens = <<>> /\ NULL \in Addr \cup {NULL}
    BY DEF Init
  <1>2. TypeOK
    <2>1. \A i \in DOMAIN tokens : tokens[i] \in Segment
      BY <1>1
    <2>2. pc = "idle" /\ leaf = NoField /\ target = NULL /\ aindex = -1
          /\ info = NoField /\ inst = NULL
      BY DEF Init
    <2> QED
      BY <2>1, <2>2 DEF TypeOK
  <1> QED
    BY <1>2 DEF Init, IInv, Walking, WalkInsideObjects, HandleValid, IndexUsable

\* The pair is not touched by a call that only starts a walk.
LEMMA EnterIInv ==
    ASSUME IInv, NEW api, NEW base \in Roots, NEW path \in Paths,
           NEW root \in {NULL, base[1]}, api # "metadata" => root = base[1],
           Enter(api, base, root, path)
    PROVE  IInv'
  <1>1. /\ pc' = "loop" /\ call'.api = api /\ tokens' = Buffer(path) /\ k' = 1
        /\ inst' = root /\ meta' = base[2] /\ aindex' = -1 /\ info' = NoField
        /\ leaf' = leaf /\ target' = target
    BY DEF Enter, Fresh
  <1>2. TypeOK'
    BY <1>1, BufferType, RootTypes DEF IInv, TypeOK
  <1>3. Walking' /\ WalkInsideObjects'
    BY <1>1, RootTypes DEF Walking, WalkInsideObjects
  <1>4. HandleValid' /\ IndexUsable'
    BY <1>1 DEF IInv, HandleValid, IndexUsable
  <1> QED
    BY <1>2, <1>3, <1>4 DEF IInv

LEMMA CallIInv ==
    ASSUME IInv, Call \/ CallNull
    PROVE  IInv'
  <1>1. ASSUME NEW base \in Roots, NEW path \in Paths,
               \/ CallExt(base, path) \/ CallPlain(base, path)
               \/ CallMetadata(base, path) \/ QuerySlow(base, path)
        PROVE  IInv'
    BY <1>1, EnterIInv DEF CallExt, CallPlain, CallMetadata, QuerySlow
  <1>2. ASSUME NEW base \in Roots, NEW path \in Paths, QueryFast(base, path)
        PROVE  IInv'
    <2> DEFINE f == FindField(base[2], path[1].name)
    <2>1. /\ pc = "idle" /\ pc' = "idle" /\ tokens' = tokens /\ k' = k
          /\ inst' = inst /\ aindex' = -1 /\ info' = NoField /\ leaf' = f
          /\ target' = IF f = NoField THEN NULL ELSE base[1]
      BY <1>2 DEF QueryFast, ReturnAtOnce, Fresh
    <2>2. f # NoField => <<base, f>> \in Views
      BY RootTypes, EntryView
    <2>3. f # NoField => f \in AllFields
      BY <2>2, ViewTypes
    <2>4. TypeOK'
      BY <2>1, <2>3, RootTypes DEF IInv, TypeOK
    <2>5. HandleValid'
      BY <2>1, <2>2, RootTypes DEF HandleValid
    <2> QED
      BY <2>1, <2>4, <2>5 DEF IInv, Walking, WalkInsideObjects, IndexUsable
  <1>3. ASSUME CallNull PROVE IInv'
    BY <1>3 DEF CallNull, ReturnAtOnce, Fresh, IInv, TypeOK, Walking,
                WalkInsideObjects, HandleValid, IndexUsable
  <1> QED
    BY <1>1, <1>2, <1>3 DEF Call

LEMMA FailIInv ==
    ASSUME IInv, pc = "loop", Fail
    PROVE  IInv'
  <1>1. TypeOK'
    <2>1. tokens' = <<>> /\ pc' = "idle" /\ inst' = NULL
      BY DEF Fail, Return
    <2>2. /\ leaf' = leaf /\ aindex' = aindex
          /\ target' \in {target, NULL} /\ info' \in {info, NoField}
      BY DEF Fail
    <2> QED
      BY <2>1, <2>2 DEF IInv, TypeOK
  <1>2. Walking' /\ WalkInsideObjects'
    BY DEF Fail, Return, Walking, WalkInsideObjects
  <1>3. HandleValid' /\ IndexUsable'
    BY DEF IInv, Fail, Walking, HandleValid, IndexUsable
  <1> QED
    BY <1>1, <1>2, <1>3 DEF IInv

\* What holds of the token in hand once its member is found
LEMMA FoundFacts ==
    ASSUME IInv, pc = "loop", Found
    PROVE  /\ tok.index \in Int /\ meta \in StructTypes
           /\ field \in AllFields /\ field \in FieldInfo
           /\ tok.index >= 0 => tok.index < field.count
           /\ inst # NULL => <<<<inst, meta>>, field>> \in Views
  <1>1. tok \in Segment /\ meta \in StructTypes
    BY DEF IInv, TypeOK, Walking, tok
  <1>2. field # NoField /\ ~(tok.index >= 0 /\ tok.index >= field.count)
    BY DEF Found
  <1>3. field \in FieldsOf(meta)
    BY <1>1, <1>2, FindFieldEntry DEF field
  <1>4. field \in AllFields /\ field \in FieldInfo
    BY <1>1, <1>3, FieldTypes DEF AllFields
  <1>5. inst # NULL => <<<<inst, meta>>, field>> \in Views
    BY <1>1, <1>2, EntryView DEF IInv, WalkInsideObjects, field
  <1> QED
    BY <1>1, <1>2, <1>4, <1>5 DEF Segment, FieldInfo

LEMMA DescendIInv ==
    ASSUME IInv, Descend
    PROVE  IInv'
  <1> DEFINE i == IF tok.index >= 0 THEN tok.index ELSE 0
             next == <<inst + field.offset + i * ElemSize(field), StructOf[field.type]>>
  <1>1. /\ pc = "loop" /\ Found /\ HasMetadata(field.type)
        /\ pc' = pc /\ call' = call /\ tokens' = tokens /\ k' = k + 1
        /\ leaf' = leaf /\ target' = target /\ aindex' = aindex /\ info' = info
        /\ meta' = StructOf[field.type] /\ k + 1 \in DOMAIN tokens
    BY DEF Descend, HasNext
  <1>2. meta' \in StructTypes
    BY <1>1, TablesAssumption DEF TablesAssumption, HasMetadata
  <1>3. field.count \in Nat \ {0} /\ field.offset \in Nat /\ field.size \in Nat
    BY <1>1, FoundFacts DEF FieldInfo
  <1>4. i \in 0 .. field.count - 1
    BY <1>1, <1>3, FoundFacts
  <1>5. ASSUME inst # NULL PROVE next \in Objects
    <2> DEFINE v == <<<<inst, meta>>, field>>
    <2>1. v \in Views
      BY <1>1, <1>5, FoundFacts
    <2>2. <<v[1][1] + v[2].offset + i * ElemSize(v[2]), StructOf[v[2].type]>> \in Objects
      BY <1>1, <1>4, <2>1, LayoutAssumption DEF LayoutAssumption
    <2> QED
      BY <2>2
  <1>6. ASSUME inst # NULL PROVE inst' = next[1] /\ inst' \in Addr /\ inst' # NULL
    <2>1. inst \in Addr /\ Top \in Nat
      BY <1>6, LayoutAssumption DEF IInv, TypeOK, LayoutAssumption
    <2>2. ElemSize(field) \in Int
      BY <1>3 DEF ElemSize
    <2> DEFINE e == ElemSize(field)
    <2> HIDE DEF e
    <2>3. inst' = inst + field.offset + (IF tok.index >= 0 THEN tok.index * e ELSE 0)
      BY <1>6 DEF Descend, e
    <2>4. inst' = inst + field.offset + i * e
      BY <1>3, <2>1, <2>2, <2>3 DEF e, Addr
    <2>5. next \in Addr \X StructTypes
      BY <1>5, <1>6, LayoutAssumption DEF LayoutAssumption
    <2> QED
      BY <2>1, <2>4, <2>5 DEF e, Addr, NULL
  <1>7. inst = NULL => inst' = NULL
    BY DEF Descend
  <1> HIDE DEF i
  <1>8. TypeOK'
    BY <1>1, <1>6, <1>7 DEF IInv, TypeOK
  <1>9. Walking'
    BY <1>1, <1>2, <1>6, <1>7 DEF IInv, Walking
  <1>10. WalkInsideObjects'
    <2>1. ASSUME inst' # NULL PROVE <<inst', meta'>> = next
      BY <1>1, <1>6, <1>7, <2>1
    <2> QED
      BY <1>5, <1>7, <2>1 DEF WalkInsideObjects
  <1>11. HandleValid' /\ IndexUsable'
    BY <1>1 DEF IInv, HandleValid, IndexUsable
  <1> QED
    BY <1>8, <1>9, <1>10, <1>11 DEF IInv

LEMMA LeafIInv ==
    ASSUME IInv, Leaf
    PROVE  IInv'
  <1>1. pc = "loop" /\ Found /\ pc' = "idle" /\ inst' = NULL /\ tokens' = <<>>
    BY DEF Leaf, Return
  <1>2. Walking' /\ WalkInsideObjects'
    BY <1>1 DEF Walking, WalkInsideObjects
  <1>3. CASE call.api = "metadata"
    <2>1. info' = field /\ leaf' = leaf /\ target' = target /\ aindex' = aindex
      BY <1>3 DEF Leaf
    <2> QED
      BY <1>1, <1>2, <2>1, FoundFacts DEF IInv, TypeOK, HandleValid, IndexUsable
  <1>4. CASE call.api # "metadata"
    <2>1. /\ leaf' = field /\ target' = inst /\ info' = info
          /\ aindex' = IF call.api = "ext" THEN tok.index ELSE aindex
      BY <1>4 DEF Leaf
    <2>2. inst # NULL /\ aindex = -1
      BY <1>1, <1>4 DEF IInv, Walking
    <2>3. TypeOK'
      BY <1>1, <2>1, <2>2, FoundFacts DEF IInv, TypeOK
    <2>4. HandleValid'
      <3> DEFINE v == <<<<inst, meta>>, field>>
      <3>1. v \in Views /\ v[1][1] = inst /\ v[2] = field
        BY <1>1, <2>2, FoundFacts
      <3>2. v[1][1] = target' /\ v[2] = leaf'
        BY <2>1, <3>1
      <3> QED
        BY <3>1, <3>2 DEF HandleValid
    <2>5. IndexUsable'
      <3>1. tok.index \in Int /\ field.count \in Nat \ {0}
            /\ (tok.index >= 0 => tok.index < field.count)
        BY <1>1, FoundFacts DEF FieldInfo
      <3> QED
        BY <2>1, <2>2, <3>1 DEF IndexUsable
    <2> QED
      BY <1>2, <2>3, <2>4, <2>5 DEF IInv
  <1> QED
    BY <1>3, <1>4

LEMMA NextIInv == IInv /\ [Next]_vars => IInv'
  <1> SUFFICES ASSUME IInv, [Next]_vars PROVE IInv'
    OBVIOUS
  <1>1. CASE Call \/ CallNull
    BY <1>1, CallIInv
  <1>2. CASE NotFound \/ NotAStruct
    BY <1>2, FailIInv DEF NotFound, NotAStruct
  <1>3. CASE Descend
    BY <1>3, DescendIInv
  <1>4. CASE Leaf
    BY <1>4, LeafIInv
  <1>5. CASE UNCHANGED vars
    BY <1>5 DEF vars, IInv, TypeOK, Walking, WalkInsideObjects, HandleValid,
                IndexUsable, tok
  <1> QED
    BY <1>1, <1>2, <1>3, <1>4, <1>5 DEF Next, Step

THEOREM Invariance == Spec => []IInv
  BY InitIInv, NextIInv, PTL DEF Spec

\* The locals and the caller's variables keep their types.
THEOREM TypeCorrect == Spec => []TypeOK
  <1>1. IInv => TypeOK
    BY DEF IInv
  <1> QED
    BY <1>1, Invariance, PTL

\* Wherever the walk stands, an instance of the struct it searches stands.
THEOREM WalkStaysInside == Spec => []WalkInsideObjects
  <1>1. IInv => WalkInsideObjects
    BY DEF IInv
  <1> QED
    BY <1>1, Invariance, PTL

\* The pointer and the field a caller holds are always a view, whichever
\* lookups failed in between and however much of the path was cut off.
THEOREM PairIsAView == Spec => []HandleValid
  <1>1. IInv => HandleValid
    BY DEF IInv
  <1> QED
    BY <1>1, Invariance, PTL

\* The index handed out is in the bounds of the field handed out.
THEOREM IndexInBounds == Spec => []IndexUsable
  <1>1. IInv => IndexUsable
    BY DEF IInv
  <1> QED
    BY <1>1, Invariance, PTL

-----------------------------------------------------------------------------
(* The buffer is a path                                                    *)

\* The characters before a segment are finitely many, and no fewer than
\* those before an earlier one.
LEMMA StartMonotone ==
    ASSUME NEW path \in Paths, NEW i \in DOMAIN path, NEW j \in DOMAIN path, i <= j
    PROVE  Start(path, i) \in Nat /\ Start(path, j) \in Nat
           /\ Start(path, i) <= Start(path, j)
  <1> DEFINE row == [h \in DOMAIN path |-> {h} \X (0 .. Width(path[h]))]
             Text(n) == {row[h] : h \in 1 .. n - 1}
  <1>1. /\ path \in Seq(Segment) /\ DOMAIN path = 1 .. Len(path) /\ Len(path) \in Nat
        /\ \A h \in DOMAIN path : path[h] \in Segment
    BY PathTypes
  <1>2. \A m, n \in Int : IsFiniteSet(m .. n)
    BY FS_Interval
  <1>3. ASSUME NEW h \in DOMAIN path PROVE IsFiniteSet(row[h])
    <2>1. NameLen[path[h].name] \in Nat
      BY <1>1, PathAssumption DEF PathAssumption, Segment
    <2>2. IndexLen(path[h]) \in {0, 3, 4}
      BY Zenon DEF IndexLen
    <2>4. Width(path[h]) \in Int
      <3> DEFINE x == NameLen[path[h].name]
                 y == IndexLen(path[h])
      <3>1. Width(path[h]) = x + y /\ x \in Nat /\ y \in Nat
        BY <2>1, <2>2 DEF Width
      <3> QED
        BY <3>1
    <2> DEFINE w == Width(path[h])
    <2> HIDE DEF w
    <2>3. w \in Int => IsFiniteSet(0 .. w)
      BY <1>2
    <2>5. IsFiniteSet({h})
      BY FS_Singleton
    <2> QED
      BY <2>3, <2>4, <2>5, FS_Product DEF w
  <1>4. \A n \in DOMAIN path : 1 .. n - 1 \subseteq DOMAIN path /\ n \in Int
    BY <1>1
  <1>5. ASSUME NEW n \in DOMAIN path PROVE IsFiniteSet(UNION Text(n))
    <2>1. IsFiniteSet(1 .. n - 1)
      BY <1>2, <1>4
    <2> DEFINE some == [h \in 1 .. n - 1 |-> row[h]]
    <2>2. some \in Surjection(1 .. n - 1, Text(n))
      BY DEF Surjection
    <2>3. IsFiniteSet(Text(n))
      <3> HIDE DEF some, row, Text
      <3> QED
        BY <2>1, <2>2, FS_Surjection
    <2>4. \A R \in Text(n) : IsFiniteSet(R)
      <3> HIDE DEF row
      <3> QED
        BY <1>3, <1>4
    <2> HIDE DEF Text
    <2> QED
      BY <2>3, <2>4, FS_UNION
  <1>6. ASSUME NEW n \in DOMAIN path PROVE Start(path, n) = Cardinality(UNION Text(n))
    <2>1. Text(n) = {{h} \X (0 .. Width(path[h])) : h \in 1 .. n - 1}
      BY <1>4
    <2> QED
      BY <2>1 DEF Start
  <1>7. UNION Text(i) \subseteq UNION Text(j)
    <2>1. 1 .. i - 1 \subseteq 1 .. j - 1
      BY <1>1
    <2> HIDE DEF row
    <2> QED
      BY <2>1
  <1> HIDE DEF Text
  <1>8. Cardinality(UNION Text(i)) <= Cardinality(UNION Text(j))
    BY <1>5, <1>7, FS_Subset
  <1> QED
    BY <1>5, <1>6, <1>8, FS_CardinalityType

\* What the buffer keeps of a path is a beginning of it.
LEMMA BufferIsASequence ==
    ASSUME NEW path \in Paths
    PROVE  /\ Buffer(path) \in Seq(Segment)
           /\ DOMAIN Buffer(path) = 1 .. Len(Buffer(path))
           /\ Len(Buffer(path)) \in Nat \ {0}
  <1> DEFINE n == Len(path)
             D == {j \in DOMAIN path : Start(path, j) <= BufLen}
             S == {j \in 1 .. n + 1 : j \notin D}
  <1>1. n \in Nat /\ DOMAIN path = 1 .. n /\ 1 \in DOMAIN path
    BY PathTypes
  <1>2. DOMAIN Buffer(path) = D /\ 1 \in D
    BY BufferType DEF Buffer
  <1>3. n + 1 \in S /\ S \in SUBSET Nat
    BY <1>1
  <1>4. PICK m \in S : \A j \in S : m <= j
    <2> HIDE DEF S
    <2> QED
      BY <1>3, LeastNat
  <1>5. m \in Nat /\ 1 < m /\ m <= n + 1
    BY <1>1, <1>2, <1>4
  <1>6. \A i, j \in DOMAIN path : i <= j /\ j \in D => i \in D
    <2> SUFFICES ASSUME NEW i \in DOMAIN path, NEW j \in DOMAIN path, i <= j, j \in D
                 PROVE  i \in D
      OBVIOUS
    <2>1. Start(path, i) \in Nat /\ Start(path, j) \in Nat
          /\ Start(path, i) <= Start(path, j) /\ BufLen \in Nat
      BY StartMonotone, PathAssumption DEF PathAssumption
    <2> QED
      BY <2>1
  <1>7. D = 1 .. m - 1
    <2> HIDE DEF D
    <2>1. \A j \in 1 .. m - 1 : j \in D
      BY <1>1, <1>4, <1>5
    <2>2. \A j \in D : j < m
      <3> SUFFICES ASSUME NEW j \in D, ~(j < m) PROVE FALSE
        OBVIOUS
      <3>1. j \in 1 .. n
        BY <1>1 DEF D
      <3>2. m \in 1 .. n /\ m <= j
        BY <1>1, <1>5, <3>1
      <3> QED
        BY <1>1, <1>4, <1>6, <3>1, <3>2
    <2>3. D \subseteq 1 .. n
      BY <1>1 DEF D
    <2>4. D \subseteq 1 .. m - 1
      BY <1>1, <1>5, <2>2, <2>3
    <2> QED
      BY <2>1, <2>4
  <1> HIDE DEF D
  <1>8. Buffer(path) \in [1 .. m - 1 -> Segment]
    <2> DEFINE kept(i) == Cut(path[i], BufLen - Start(path, i))
    <2>1. \A i \in D : kept(i) \in Segment
      BY PathTypes, CutType DEF D
    <2>2. Buffer(path) = [i \in D |-> kept(i)]
      BY DEF Buffer, D
    <2> HIDE DEF kept
    <2>3. [i \in D |-> kept(i)] \in [D -> Segment]
      BY <2>1
    <2> QED
      BY <1>7, <2>2, <2>3
  <1> HIDE DEF S
  <1>9. Buffer(path) \in Seq(Segment) /\ Len(Buffer(path)) = m - 1
    BY <1>5, <1>8
  <1> QED
    BY <1>2, <1>5, <1>7, <1>9

-----------------------------------------------------------------------------
(* The walk and the chains of instances                                    *)

\* A chain of instances that the tokens up to the n-th lead along
Chain(chain, n) ==
    /\ chain \in [DOMAIN tokens -> Objects]
    /\ chain[1] = call.base
    /\ \A j \in 1 .. n - 1 : Abstract!IsElement(chain[j], tokens[j], chain[j + 1])

\* Instance o is where such a chain leads, and the only one.
LeadsTo(o, n) ==
    /\ \E chain : Chain(chain, n) /\ chain[n] = o
    /\ \A chain : Chain(chain, n) => chain[n] = o

\* The call in progress, and the text it works on
CallSound ==
    /\ pc = "idle" => call = NoCall
    /\ pc = "loop" =>
          /\ call \in [api : {"ext", "plain", "metadata", "query"},
                       base : Objects, path : Paths]
          /\ tokens = Buffer(call.path)

\* The walk stands on the instance to which the tokens read so far lead; for
\* a metadata call, on its struct type.
OnTheChain ==
    pc = "loop" =>
        \E o \in Objects : /\ LeadsTo(o, k)
                           /\ o[2] = meta
                           /\ inst # NULL => inst = o[1]

RInv == IInv /\ CallSound /\ OnTheChain

\* The idle call is none of the others.
LEMMA NoCallApi == NoCall.api = "none" /\ Abstract!NoCall = NoCall
  <1>1. Abstract!NULL = NULL
    BY DEF NULL, Abstract!NULL
  <1> QED
    BY <1>1, Zenon DEF NoCall, Abstract!NoCall

\* The promise reads the tables as the walk does.
LEMMA PromiseTables ==
    /\ \A t, seg, f : Abstract!Names(t, seg, f) <=>
          f \in FieldsOf(t) /\ f = FindField(t, seg.name) /\ seg.index < f.count
    /\ \A o, seg, q : Abstract!IsElement(o, seg, q) <=>
          \E f \in FieldsOf(o[2]) :
             /\ Abstract!Names(o[2], seg, f)
             /\ HasMetadata(f.type)
             /\ q = <<o[1] + f.offset
                       + (IF seg.index < 0 THEN 0 ELSE seg.index) * ElemSize(f),
                      StructOf[f.type]>>
    /\ Abstract!Views = Views
    /\ Abstract!NULL = NULL
  <1>1. /\ \A t : Abstract!FieldsOf(t) = FieldsOf(t)
        /\ \A t, name : Abstract!FindField(t, name) = FindField(t, name)
        /\ \A type : Abstract!HasMetadata(type) <=> HasMetadata(type)
        /\ \A f : Abstract!ElemSize(f) = ElemSize(f)
    BY DEF Abstract!FieldsOf, FieldsOf, Abstract!FindField, FindField,
           Abstract!HasMetadata, HasMetadata, Abstract!ElemSize, ElemSize
  <1>2. Abstract!Views = Views /\ Abstract!NULL = NULL
    BY <1>1 DEF Abstract!Views, Views, NULL, Abstract!NULL
  <1>3. \A t, seg, f : Abstract!Names(t, seg, f) <=>
          f \in FieldsOf(t) /\ f = FindField(t, seg.name) /\ seg.index < f.count
    BY <1>1 DEF Abstract!Names
  <1>4. \A o, seg, q : Abstract!IsElement(o, seg, q) <=>
          \E f \in FieldsOf(o[2]) :
             /\ Abstract!Names(o[2], seg, f)
             /\ HasMetadata(f.type)
             /\ q = <<o[1] + f.offset
                       + (IF seg.index < 0 THEN 0 ELSE seg.index) * ElemSize(f),
                      StructOf[f.type]>>
    BY <1>1 DEF Abstract!IsElement
  <1> QED
    BY <1>2, <1>3, <1>4

\* A segment names a member exactly when find_field finds one and the index
\* is below its count.
LEMMA NamesIsFound ==
    ASSUME NEW t \in StructTypes, NEW seg \in Segment, NEW f
    PROVE  Abstract!Names(t, seg, f) <=>
              /\ f = FindField(t, seg.name) /\ f # NoField
              /\ ~(seg.index >= 0 /\ seg.index >= f.count)
  <1>1. \A e \in FieldsOf(t) : e # NoField /\ e.count \in Nat \ {0}
    <2>1. FieldsOf(t) \subseteq FieldInfo
      BY FieldTypes DEF AllFields
    <2> QED
      BY <2>1, TablesAssumption DEF TablesAssumption, FieldInfo
  <1>2. FindField(t, seg.name) # NoField => FindField(t, seg.name) \in FieldsOf(t)
    BY FindFieldEntry
  <1>3. Abstract!Names(t, seg, f) <=>
          f \in FieldsOf(t) /\ f = FindField(t, seg.name) /\ seg.index < f.count
    BY PromiseTables
  <1>4. seg.index \in Int
    BY DEF Segment
  <1> QED
    BY <1>1, <1>2, <1>3, <1>4

\* The token in hand names the field in hand, if it is found, and nothing
\* else.
LEMMA TokenNames ==
    ASSUME IInv, pc = "loop"
    PROVE  /\ tok \in Segment /\ tok = tokens[k]
           /\ \A f : Abstract!Names(meta, tok, f) <=> Found /\ f = field
  <1>1. tok \in Segment /\ meta \in StructTypes
    BY DEF IInv, TypeOK, Walking, tok
  <1> QED
    BY <1>1, NamesIsFound DEF Found, field, tok

\* The element the walk descends to is an instance, and the one element of o
\* that the token names.
LEMMA TokenElement ==
    ASSUME IInv, pc = "loop", Found, HasMetadata(field.type),
           NEW o \in Objects, o[2] = meta
    PROVE  LET q == <<o[1] + field.offset
                         + (IF tok.index < 0 THEN 0 ELSE tok.index) * ElemSize(field),
                      StructOf[field.type]>>
           IN  /\ q \in Objects
               /\ \A x : Abstract!IsElement(o, tok, x) <=> x = q
  <1> DEFINE i == IF tok.index < 0 THEN 0 ELSE tok.index
             q == <<o[1] + field.offset + i * ElemSize(field), StructOf[field.type]>>
             v == <<o, field>>
  <1>1. /\ tok.index \in Int /\ field \in FieldInfo
        /\ tok.index >= 0 => tok.index < field.count
    BY FoundFacts
  <1>2. field.count \in Nat \ {0}
    BY <1>1 DEF FieldInfo
  <1>3. i \in 0 .. field.count - 1
    BY <1>1, <1>2
  <1>4. field \in FieldsOf(meta) /\ Abstract!Names(meta, tok, field)
    BY TokenNames, PromiseTables
  <1>5. v \in Views
    BY <1>4 DEF Views
  <1>6. q \in Objects
    <2>1. \A j \in 0 .. v[2].count - 1 :
             <<v[1][1] + v[2].offset + j * ElemSize(v[2]), StructOf[v[2].type]>> \in Objects
      BY <1>5, LayoutAssumption DEF LayoutAssumption
    <2> QED
      BY <1>3, <2>1
  <1> HIDE DEF i
  <1>7. ASSUME NEW x PROVE Abstract!IsElement(o, tok, x) <=> x = q
    <2>1. Abstract!IsElement(o, tok, x) <=>
             \E f \in FieldsOf(o[2]) :
                /\ Abstract!Names(o[2], tok, f) /\ HasMetadata(f.type)
                /\ x = <<o[1] + f.offset + i * ElemSize(f), StructOf[f.type]>>
      BY PromiseTables DEF i
    <2> QED
      BY <1>4, <2>1, TokenNames
  <1> QED
    BY <1>6, <1>7 DEF i

-----------------------------------------------------------------------------
(* The walk follows the one chain                                          *)

LEMMA InitRInv == Init => RInv
  <1> SUFFICES ASSUME Init PROVE RInv
    OBVIOUS
  <1>1. pc = "idle" /\ call = NoCall
    BY DEF Init
  <1> QED
    BY <1>1, InitIInv DEF RInv, CallSound, OnTheChain

\* The chain that starts a walk is the instance it starts from.
LEMMA EnterRInv ==
    ASSUME NEW api \in {"ext", "plain", "metadata", "query"},
           NEW base \in Roots, NEW path \in Paths,
           NEW root \in {NULL, base[1]},
           Enter(api, base, root, path)
    PROVE  CallSound' /\ OnTheChain'
  <1>1. /\ pc' = "loop" /\ call' = [api |-> api, base |-> base, path |-> path]
        /\ tokens' = Buffer(path) /\ k' = 1 /\ inst' = root /\ meta' = base[2]
    BY DEF Enter
  <1>2. base \in Objects
    BY RootTypes
  <1>3. CallSound'
    BY <1>1, <1>2 DEF CallSound
  <1>4. ASSUME NEW chain
        PROVE  Chain(chain, k)' <=> chain \in [DOMAIN tokens' -> Objects]
                                    /\ chain[1] = base
    <2>1. call'.base = base /\ 1 .. k' - 1 = {}
      BY <1>1
    <2> QED
      BY <2>1 DEF Chain
  <1>5. 1 \in DOMAIN tokens'
    BY <1>1, BufferType
  <1>6. \E chain : Chain(chain, k)' /\ chain[1] = base
    <2> DEFINE c == [j \in DOMAIN tokens' |-> base]
    <2>1. c \in [DOMAIN tokens' -> Objects] /\ c[1] = base
      BY <1>2, <1>5
    <2> HIDE DEF c
    <2> QED
      BY <1>4, <2>1
  <1>7. LeadsTo(base, k)'
    <2>1. \A chain : Chain(chain, k)' => chain[1] = base
      BY <1>4
    <2> QED
      BY <1>1, <1>6, <2>1 DEF LeadsTo
  <1>8. OnTheChain'
    BY <1>1, <1>2, <1>7 DEF OnTheChain
  <1> QED
    BY <1>3, <1>8

\* A walk that goes on takes every chain to its next instance.
LEMMA DescendRInv ==
    ASSUME RInv, Descend
    PROVE  CallSound' /\ OnTheChain'
  <1>1. /\ pc = "loop" /\ pc' = pc /\ call' = call /\ tokens' = tokens /\ k' = k + 1
        /\ Found /\ HasMetadata(field.type) /\ k + 1 \in DOMAIN tokens
        /\ meta' = StructOf[field.type]
        /\ inst' = IF inst = NULL THEN NULL
                   ELSE inst + field.offset
                        + (IF tok.index >= 0 THEN tok.index * ElemSize(field) ELSE 0)
    BY DEF Descend, HasNext
  <1>2. CallSound'
    BY <1>1 DEF RInv, CallSound
  <1>3. PICK o \in Objects : LeadsTo(o, k) /\ o[2] = meta /\ (inst # NULL => inst = o[1])
    BY <1>1 DEF RInv, OnTheChain
  <1> DEFINE i == IF tok.index < 0 THEN 0 ELSE tok.index
             e == ElemSize(field)
  <1>4. PICK q \in Objects :
           /\ q = <<o[1] + field.offset + i * e, StructOf[field.type]>>
           /\ \A x : Abstract!IsElement(o, tok, x) <=> x = q
    BY <1>1, <1>3, TokenElement DEF RInv
  <1>5. /\ tok.index \in Int /\ field.offset \in Nat /\ e \in Int /\ o[1] \in Nat
    <2>1. field \in FieldInfo /\ tok.index \in Int
      BY <1>1, FoundFacts DEF RInv
    <2>2. field.offset \in Nat /\ field.size \in Nat /\ field.count \in Nat \ {0}
      BY <2>1 DEF FieldInfo
    <2>3. o \in Addr \X StructTypes /\ Top \in Nat
      BY LayoutAssumption DEF LayoutAssumption
    <2> QED
      BY <2>1, <2>2, <2>3 DEF ElemSize, Addr
  <1>6. inst' # NULL => inst' = q[1]
    <2> HIDE DEF e
    <2>1. inst # NULL => inst' = o[1] + field.offset
                                 + (IF tok.index >= 0 THEN tok.index * e ELSE 0)
      BY <1>1, <1>3 DEF e
    <2>2. (IF tok.index >= 0 THEN tok.index * e ELSE 0) = i * e
      BY <1>5
    <2> HIDE DEF i
    <2>3. inst = NULL => inst' = NULL
      BY <1>1
    <2>4. q[1] = o[1] + field.offset + i * e
      BY <1>4 DEF e
    <2> QED
      BY <2>1, <2>2, <2>3, <2>4
  <1>7. k \in Nat \ {0} /\ DOMAIN tokens = 1 .. Len(tokens) /\ Len(tokens) \in Nat
        /\ k \in DOMAIN tokens /\ (k + 1) - 1 = k
    <2>1. DOMAIN tokens = 1 .. Len(tokens) /\ Len(tokens) \in Nat
      BY <1>1, BufferIsASequence DEF RInv, CallSound
    <2>2. k \in DOMAIN tokens
      BY <1>1 DEF RInv, IInv, TypeOK
    <2> QED
      BY <2>1, <2>2
  <1>8. ASSUME NEW chain
        PROVE  Chain(chain, k + 1) <=>
                  Chain(chain, k) /\ Abstract!IsElement(chain[k], tok, chain[k + 1])
    <2>1. 1 .. (k + 1) - 1 = (1 .. k - 1) \cup {k}
      BY <1>7
    <2> QED
      BY <2>1 DEF Chain, tok
  <1>9. \E chain : Chain(chain, k + 1) /\ chain[k + 1] = q
    <2>1. PICK chain : Chain(chain, k) /\ chain[k] = o
      BY <1>3 DEF LeadsTo
    <2> DEFINE c == [chain EXCEPT ![k + 1] = q]
    <2>2. chain \in [DOMAIN tokens -> Objects] /\ chain[1] = call.base
          /\ \A j \in 1 .. k - 1 : Abstract!IsElement(chain[j], tokens[j], chain[j + 1])
      BY <2>1 DEF Chain
    <2>3. /\ c \in [DOMAIN tokens -> Objects] /\ c[k + 1] = q
          /\ \A j \in DOMAIN tokens : j # k + 1 => c[j] = chain[j]
      BY <1>1, <1>4, <2>2
    <2> HIDE DEF c
    <2>4. /\ c[1] = call.base /\ c[k] = o
          /\ \A j \in 1 .. k - 1 : c[j] = chain[j] /\ c[j + 1] = chain[j + 1]
      <3>1. /\ 1 \in DOMAIN tokens /\ 1 # k + 1 /\ k # k + 1
            /\ \A j \in 1 .. k - 1 : /\ j \in DOMAIN tokens /\ j # k + 1
                                      /\ j + 1 \in DOMAIN tokens /\ j + 1 # k + 1
        BY <1>7
      <3> QED
        BY <1>7, <2>1, <2>2, <2>3, <3>1
    <2>5. \A j \in 1 .. k - 1 : Abstract!IsElement(c[j], tokens[j], c[j + 1])
      BY <2>2, <2>4
    <2>6. Chain(c, k)
      BY <2>3, <2>4, <2>5 DEF Chain
    <2>7. Chain(c, k + 1)
      BY <1>4, <1>8, <2>3, <2>4, <2>6
    <2> QED
      BY <2>3, <2>7
  <1>10. \A chain : Chain(chain, k + 1) => chain[k + 1] = q
    BY <1>3, <1>4, <1>8 DEF LeadsTo
  <1>11. LeadsTo(q, k + 1)
    BY <1>9, <1>10 DEF LeadsTo
  <1>12. LeadsTo(q, k)'
    <2>1. \A chain : Chain(chain, k)' <=> Chain(chain, k + 1)
      BY <1>1 DEF Chain
    <2> QED
      BY <1>1, <1>11, <2>1 DEF LeadsTo
  <1>13. q[2] = meta'
    BY <1>1, <1>4
  <1>14. OnTheChain'
    BY <1>4, <1>6, <1>12, <1>13 DEF OnTheChain
  <1> QED
    BY <1>2, <1>14

LEMMA NextRInv == RInv /\ [Next]_vars => RInv'
  <1> SUFFICES ASSUME RInv, [Next]_vars PROVE RInv'
    OBVIOUS
  <1>1. IInv'
    BY NextIInv DEF RInv
  <1> SUFFICES CallSound' /\ OnTheChain'
    BY <1>1 DEF RInv
  <1>2. ASSUME NEW base \in Roots, NEW path \in Paths,
               \/ CallExt(base, path) \/ CallPlain(base, path)
               \/ CallMetadata(base, path) \/ QuerySlow(base, path)
        PROVE  CallSound' /\ OnTheChain'
    BY <1>2, EnterRInv DEF CallExt, CallPlain, CallMetadata, QuerySlow
  <1>3. ASSUME pc = "idle", pc' = "idle", call' = call
        PROVE  CallSound' /\ OnTheChain'
    BY <1>3 DEF RInv, CallSound, OnTheChain
  <1>4. ASSUME Return PROVE CallSound' /\ OnTheChain'
    BY <1>4 DEF Return, CallSound, OnTheChain
  <1>5. CASE Call
    BY <1>2, <1>3, <1>5 DEF Call, QueryFast, ReturnAtOnce
  <1>6. CASE CallNull
    BY <1>3, <1>6 DEF CallNull, ReturnAtOnce
  <1>7. CASE NotFound \/ NotAStruct \/ Leaf
    BY <1>4, <1>7 DEF NotFound, NotAStruct, Leaf, Fail
  <1>8. CASE Descend
    BY <1>8, DescendRInv
  <1>9. CASE UNCHANGED vars
    <2>1. pc' = pc /\ call' = call /\ tokens' = tokens /\ k' = k /\ inst' = inst
          /\ meta' = meta
      BY <1>9 DEF vars
    <2>2. \A o, n : LeadsTo(o, n)' = LeadsTo(o, n)
      BY <2>1 DEF LeadsTo, Chain
    <2> QED
      BY <2>1, <2>2 DEF RInv, CallSound, OnTheChain
  <1> QED
    BY <1>5, <1>6, <1>7, <1>8, <1>9 DEF Next, Step

THEOREM WalkInvariance == Spec => []RInv
  BY InitRInv, NextRInv, PTL DEF Spec

-----------------------------------------------------------------------------
(* The refinement                                                          *)

LEMMA InitMaps == Init => Abstract!Init
  <1> SUFFICES ASSUME Init PROVE Abstract!Init
    OBVIOUS
  <1>1. /\ call = NoCall /\ pc = "idle" /\ leaf = NoField /\ target = NULL
        /\ aindex = -1 /\ info = NoField
    BY DEF Init
  <1>2. CallKept = NoCall
    BY <1>1 DEF CallKept
  <1> QED
    BY <1>1, <1>2, NoCallApi, PromiseTables DEF Abstract!Init

\* What the promise sees of a call in progress
LEMMA CallSeen ==
    ASSUME CallSound, pc = "loop"
    PROVE  /\ CallKept.api = call.api /\ CallKept.base = call.base
           /\ CallKept.path = tokens
  <1>1. /\ call \in [api : {"ext", "plain", "metadata", "query"},
                     base : Objects, path : Paths]
        /\ tokens = Buffer(call.path)
    BY DEF CallSound
  <1>2. call # NoCall
    <2>1. call.api # "none"
      BY <1>1
    <2> QED
      BY <2>1, NoCallApi
  <1>3. Kept[call.path] = tokens
    BY <1>1 DEF Kept
  <1>4. CallKept = [call EXCEPT !.path = tokens]
    BY <1>2, <1>3, Zenon DEF CallKept
  <1> QED
    BY <1>1, <1>4

\* A call into the loop asks.
LEMMA EnterMaps ==
    ASSUME NEW api \in {"ext", "plain", "metadata", "query"},
           NEW base \in Roots, NEW path \in Paths, NEW root,
           Enter(api, base, root, path)
    PROVE  Abstract!Next
  <1>1. /\ pc = "idle" /\ pc' = "loop"
        /\ call' = [api |-> api, base |-> base, path |-> path]
        /\ aindex' = -1 /\ info' = NoField /\ leaf' = leaf /\ target' = target
    BY DEF Enter, Fresh
  <1>2. call' # NoCall
    <2>1. call'.api # "none"
      BY <1>1
    <2> QED
      BY <2>1, NoCallApi
  <1>3. Kept[path] \in KeptPaths
    BY DEF KeptPaths
  <1>4. CallKept' = [api |-> api, base |-> base, path |-> Kept[path]]
    <2>1. CallKept' = [call' EXCEPT !.path = Kept[call'.path]]
      BY <1>2, Zenon DEF CallKept, Kept
    <2>2. call'.path = path
      BY <1>1
    <2>3. CallKept' = [call' EXCEPT !.path = Kept[path]]
      BY <2>1, <2>2, Zenon
    <2> DEFINE cut == Kept[path]
    <2> HIDE DEF cut
    <2>4. CallKept' = [call' EXCEPT !.path = cut]
      BY <2>3 DEF cut
    <2>5. CallKept' = [api |-> api, base |-> base, path |-> cut]
      BY <1>1, <2>4
    <2> QED
      BY <2>5 DEF cut
  <1>5. Abstract!Ask(api, base, Kept[path])
    BY <1>1, <1>4 DEF Abstract!Ask, Abstract!Fresh
  <1> QED
    BY <1>3, <1>5 DEF Abstract!Next

\* What is asked of a simple name is the whole table.
LEMMA SimpleAnswers ==
    ASSUME NEW base \in Roots, NEW path \in Paths, IsSimple(path)
    PROVE  LET f == FindField(base[2], path[1].name)
           IN  Abstract!Answers(base, path)
                  = IF f = NoField THEN {} ELSE {<<base, f>>}
  <1> DEFINE f == FindField(base[2], path[1].name)
  <1>1. /\ path \in Seq(Segment) /\ Len(path) = 1 /\ DOMAIN path = {1}
        /\ path[1] \in Segment /\ path[1].index = -1
    <2>1. Len(path) = 1 /\ ~path[1].bracket
      BY DEF IsSimple
    <2>2. path \in Seq(Segment) /\ 1 \in DOMAIN path /\ path[1] \in Segment
      BY PathTypes
    <2>3. path[1].index = -1
      BY <2>1, <2>2, PathAssumption DEF PathAssumption
    <2> QED
      BY <2>1, <2>2, <2>3
  <1>2. base \in Objects /\ base[2] \in StructTypes
    BY RootTypes
  <1>3. \A g : Abstract!Names(base[2], path[1], g) <=> g = f /\ f # NoField
    BY <1>1, <1>2, NamesIsFound DEF Segment
  <1>4. ASSUME NEW o, NEW g
        PROVE  Abstract!Denotes(base, path, o, g) <=>
                  o = base /\ Abstract!Names(base[2], path[1], g)
    <2>1. Abstract!Denotes(base, path, o, g) <=>
             \E chain \in [{1} -> Objects] :
                chain[1] = base /\ o = chain[1] /\ Abstract!Names(o[2], path[1], g)
      BY <1>1 DEF Abstract!Denotes
    <2>2. \E chain \in [{1} -> Objects] : chain[1] = base
      <3>1. [j \in {1} |-> base] \in [{1} -> Objects] /\ [j \in {1} |-> base][1] = base
        BY <1>2
      <3> QED
        BY <3>1
    <2> QED
      BY <2>1, <2>2
  <1>5. Abstract!Answers(base, path) = {v \in Views : v[1] = base /\ v[2] = f /\ f # NoField}
    BY <1>3, <1>4, PromiseTables DEF Abstract!Answers
  <1>6. f # NoField => <<base, f>> \in Views
    BY RootTypes, EntryView
  <1>7. \A v \in Views : v = <<v[1], v[2]>>
    BY ViewTypes
  <1> HIDE DEF f
  <1>8. CASE f = NoField
    BY <1>5, <1>8 DEF f
  <1>9. CASE f # NoField
    <2>1. Abstract!Answers(base, path) = {<<base, f>>}
      BY <1>5, <1>6, <1>7, <1>9
    <2> QED
      BY <1>9, <2>1 DEF f
  <1> QED
    BY <1>8, <1>9

\* The fast path of reflect_query answers in the call.
LEMMA FastMaps ==
    ASSUME NEW base \in Roots, NEW path \in Paths, QueryFast(base, path)
    PROVE  Abstract!Next
  <1> DEFINE f == FindField(base[2], path[1].name)
             found == Abstract!Answers(base, path)
  <1>1. /\ IsSimple(path) /\ pc = "idle" /\ pc' = pc /\ call' = call
        /\ aindex' = -1 /\ info' = NoField /\ leaf' = f
        /\ target' = IF f = NoField THEN NULL ELSE base[1]
    BY DEF QueryFast, ReturnAtOnce, Fresh
  <1>2. found = IF f = NoField THEN {} ELSE {<<base, f>>}
    BY <1>1, SimpleAnswers
  <1>3. CallKept' = CallKept
    BY <1>1 DEF CallKept
  <1>4. path \in KeptPaths
    BY DEF KeptPaths
  <1>5. Len(path) = 1 /\ ~path[1].bracket
    BY <1>1 DEF IsSimple
  <1> HIDE DEF f, found
  <1>6. IF found = {} THEN target' = NULL /\ leaf' = NoField
        ELSE \A v \in found : target' = v[1][1] /\ leaf' = v[2]
    <2>1. CASE f = NoField
      BY <1>1, <1>2, <2>1
    <2>2. CASE f # NoField
      <3>1. found = {<<base, f>>} /\ target' = base[1] /\ leaf' = f
        BY <1>1, <1>2, <2>2
      <3>2. \A v \in found : v[1] = base /\ v[2] = f
        BY <3>1
      <3> QED
        BY <3>1, <3>2
    <2> QED
      BY <2>1, <2>2
  <1>7. Abstract!AnswerName(base, path)
    BY <1>1, <1>3, <1>5, <1>6, PromiseTables
       DEF Abstract!AnswerName, Abstract!Fresh, found
  <1> QED
    BY <1>4, <1>7 DEF Abstract!Next

\* The place of the walk among the tokens
LEMMA Position ==
    ASSUME RInv, pc = "loop"
    PROVE  \E n \in Nat : /\ n = Len(tokens) /\ DOMAIN tokens = 1 .. n
                          /\ k \in 1 .. n
                          /\ HasNext <=> k # n
  <1>1. DOMAIN tokens = 1 .. Len(tokens) /\ Len(tokens) \in Nat \ {0}
    BY BufferIsASequence DEF RInv, CallSound
  <1>2. PICK n \in Nat : n = Len(tokens)
    BY <1>1
  <1>3. DOMAIN tokens = 1 .. n
    BY <1>1, <1>2
  <1>4. k \in 1 .. n
    BY <1>3 DEF RInv, IInv, TypeOK
  <1>5. HasNext <=> k + 1 \in 1 .. n
    BY <1>3 DEF HasNext
  <1>6. HasNext <=> k # n
    BY <1>4, <1>5
  <1> QED
    BY <1>2, <1>3, <1>4, <1>6

\* A view that the tokens denote is reached along a chain that the walk is on:
\* at the token in hand it names a member there, and goes on below it unless
\* that is the last token.
LEMMA AnswersFollow ==
    ASSUME RInv, pc = "loop", NEW o \in Objects, LeadsTo(o, k),
           NEW v \in Abstract!Answers(call.base, tokens)
    PROVE  /\ HasNext => \E x : Abstract!IsElement(o, tok, x)
           /\ ~HasNext => v[1] = o /\ Abstract!Names(o[2], tok, v[2])
  <1>1. PICK n \in Nat : /\ n = Len(tokens) /\ DOMAIN tokens = 1 .. n
                         /\ k \in 1 .. n
                         /\ HasNext <=> k # n
    BY Position
  <1>2. Abstract!Denotes(call.base, tokens, v[1], v[2])
    BY DEF Abstract!Answers
  <1>3. PICK chain \in [DOMAIN tokens -> Objects] :
           /\ chain[1] = call.base
           /\ \A j \in DOMAIN tokens \ {n} :
                 Abstract!IsElement(chain[j], tokens[j], chain[j + 1])
           /\ v[1] = chain[n]
           /\ Abstract!Names(v[1][2], tokens[n], v[2])
    BY <1>1, <1>2 DEF Abstract!Denotes
  <1>4. Chain(chain, k)
    <2>1. \A j \in 1 .. k - 1 : j \in DOMAIN tokens \ {n}
      BY <1>1
    <2> QED
      BY <1>3, <2>1 DEF Chain
  <1>5. chain[k] = o
    BY <1>4 DEF LeadsTo
  <1>6. ASSUME HasNext PROVE Abstract!IsElement(o, tok, chain[k + 1])
    <2>1. k \in DOMAIN tokens \ {n}
      BY <1>1, <1>6
    <2> QED
      BY <1>3, <1>5, <2>1 DEF tok
  <1>7. ASSUME ~HasNext PROVE k = n
    BY <1>1, <1>7
  <1> QED
    BY <1>3, <1>5, <1>6, <1>7 DEF tok

\* The walk fails only on what denotes nothing.
LEMMA FailMaps ==
    ASSUME RInv, NotFound \/ NotAStruct
    PROVE  Abstract!Next
  <1>1. pc = "loop" /\ Fail /\ (~Found \/ (Found /\ HasNext /\ ~HasMetadata(field.type)))
    BY DEF NotFound, NotAStruct
  <1>2. PICK o \in Objects : LeadsTo(o, k) /\ o[2] = meta
    BY <1>1 DEF RInv, OnTheChain
  <1>3. Abstract!Answers(call.base, tokens) = {}
    <2> SUFFICES ASSUME NEW v \in Abstract!Answers(call.base, tokens) PROVE FALSE
      OBVIOUS
    <2>1. /\ HasNext => \E x : Abstract!IsElement(o, tok, x)
          /\ ~HasNext => Abstract!Names(meta, tok, v[2])
      BY <1>1, <1>2, AnswersFollow
    <2>2. \A f : Abstract!Names(meta, tok, f) <=> Found /\ f = field
      BY <1>1, TokenNames DEF RInv
    <2>3. ASSUME HasNext PROVE \E f : Abstract!Names(meta, tok, f) /\ HasMetadata(f.type)
      BY <1>2, <2>1, <2>3, PromiseTables
    <2> QED
      BY <1>1, <2>1, <2>2, <2>3
  <1>4. CallKept.api = call.api /\ CallKept.base = call.base /\ CallKept.path = tokens
    BY <1>1, CallSeen DEF RInv
  <1>5. CallKept' = NoCall /\ pc' = "idle"
    BY <1>1 DEF Fail, Return, CallKept
  <1>6. Abstract!GiveNothing
    BY <1>1, <1>4, PromiseTables DEF Fail, Abstract!GiveNothing
  <1>7. Abstract!Reply
    BY <1>1, <1>3, <1>4, <1>5, <1>6, NoCallApi DEF Abstract!Reply
  <1> QED
    BY <1>7 DEF Abstract!Next

\* The last token gives the one member denoted, in the instance the walk
\* stands on.
LEMMA LeafAnswers ==
    ASSUME RInv, Leaf
    PROVE  \E o \in Objects :
              /\ Abstract!Answers(call.base, tokens) = {<<o, field>>}
              /\ inst # NULL => inst = o[1]
              /\ tok = tokens[Len(tokens)]
  <1> DEFINE found == Abstract!Answers(call.base, tokens)
  <1>1. pc = "loop" /\ Found /\ ~HasNext
    BY DEF Leaf
  <1>2. PICK o \in Objects : /\ LeadsTo(o, k) /\ o[2] = meta
                             /\ inst # NULL => inst = o[1]
    BY <1>1 DEF RInv, OnTheChain
  <1>3. PICK n \in Nat : n = Len(tokens) /\ DOMAIN tokens = 1 .. n /\ k = n
    BY <1>1, Position
  <1>4. Abstract!Names(meta, tok, field) /\ \A f : Abstract!Names(meta, tok, f) => f = field
    BY <1>1, TokenNames DEF RInv
  <1>5. field \in FieldsOf(meta)
    BY <1>4, PromiseTables
  <1>6. <<o, field>> \in Views
    BY <1>2, <1>5 DEF Views
  <1>7. Abstract!Denotes(call.base, tokens, o, field)
    <2>1. PICK chain : Chain(chain, k) /\ chain[k] = o
      BY <1>2 DEF LeadsTo
    <2>2. \A j \in DOMAIN tokens \ {n} : j \in 1 .. k - 1
      BY <1>3
    <2>3. /\ chain \in [DOMAIN tokens -> Objects] /\ chain[1] = call.base
          /\ \A j \in DOMAIN tokens \ {n} :
                Abstract!IsElement(chain[j], tokens[j], chain[j + 1])
      BY <2>1, <2>2 DEF Chain
    <2>4. o = chain[n] /\ Abstract!Names(o[2], tokens[n], field)
      BY <1>2, <1>3, <1>4, <2>1 DEF tok
    <2> QED
      BY <1>3, <2>3, <2>4 DEF Abstract!Denotes
  <1>8. <<o, field>> \in found
    BY <1>6, <1>7, PromiseTables DEF Abstract!Answers
  <1>9. \A v \in found : v[1] = o /\ v[2] = field
    BY <1>1, <1>2, <1>4, AnswersFollow
  <1>10. \A v \in found : v = <<v[1], v[2]>>
    BY ViewTypes, PromiseTables DEF Abstract!Answers
  <1> HIDE DEF found
  <1>11. found = {<<o, field>>}
    BY <1>8, <1>9, <1>10
  <1>12. tok = tokens[Len(tokens)]
    BY <1>3 DEF tok
  <1> QED
    BY <1>2, <1>11, <1>12 DEF found

LEMMA LeafMaps ==
    ASSUME RInv, Leaf
    PROVE  Abstract!Next
  <1> DEFINE found == Abstract!Answers(call.base, tokens)
  <1>1. pc = "loop" /\ pc' = "idle" /\ call' = NoCall
    BY DEF Leaf, Return
  <1>2. PICK o \in Objects : /\ found = {<<o, field>>}
                             /\ inst # NULL => inst = o[1]
                             /\ tok = tokens[Len(tokens)]
    BY LeafAnswers
  <1>3. CallKept.api = call.api /\ CallKept.base = call.base /\ CallKept.path = tokens
    BY <1>1, CallSeen DEF RInv
  <1>4. CallKept' = NoCall
    BY <1>1 DEF CallKept
  <1> HIDE DEF found
  <1>5. ASSUME NEW v \in found PROVE Abstract!Give(v)
    <2>1. v[1] = o /\ v[2] = field
      BY <1>2
    <2>2. CASE call.api = "metadata"
      BY <1>3, <2>1, <2>2 DEF Leaf, Abstract!Give
    <2>3. CASE call.api # "metadata"
      <3>1. /\ leaf' = field /\ target' = inst /\ info' = info
            /\ aindex' = IF call.api = "ext" THEN tok.index ELSE aindex
        BY <2>3 DEF Leaf
      <3>2. inst = o[1]
        BY <1>1, <1>2, <2>3 DEF RInv, IInv, Walking
      <3>3. CallKept.path[Len(CallKept.path)].index = tok.index
        BY <1>2, <1>3
      <3> QED
        BY <1>3, <2>1, <2>3, <3>1, <3>2, <3>3 DEF Abstract!Give
    <2> QED
      BY <2>2, <2>3
  <1>6. found # {}
    BY <1>2
  <1>7. Abstract!Reply
    BY <1>1, <1>3, <1>4, <1>5, <1>6, NoCallApi DEF Abstract!Reply, found
  <1> QED
    BY <1>7 DEF Abstract!Next

\* The walk itself is out of sight.
LEMMA StepMaps == RInv /\ [Next]_vars => [Abstract!Next]_Abstract!vars
  <1> SUFFICES ASSUME RInv, [Next]_vars PROVE [Abstract!Next]_Abstract!vars
    OBVIOUS
  <1>1. ASSUME pc' = pc, call' = call, leaf' = leaf, target' = target,
               aindex' = aindex, info' = info
        PROVE  UNCHANGED Abstract!vars
    BY <1>1 DEF Abstract!vars, CallKept
  <1>2. CASE Call
    <2>1. ASSUME NEW base \in Roots, NEW path \in Paths,
                 \/ CallExt(base, path) \/ CallPlain(base, path)
                 \/ CallMetadata(base, path) \/ QuerySlow(base, path)
          PROVE  Abstract!Next
      BY <2>1, EnterMaps DEF CallExt, CallPlain, CallMetadata, QuerySlow
    <2> QED
      BY <1>2, <2>1, FastMaps DEF Call
  <1>3. CASE CallNull
    <2>1. CallKept' = CallKept
      BY <1>3 DEF CallNull, ReturnAtOnce, CallKept
    <2>2. Abstract!AnswerNull
      BY <1>3, <2>1, PromiseTables
         DEF CallNull, ReturnAtOnce, Fresh, Abstract!AnswerNull, Abstract!Fresh
    <2> QED
      BY <2>2 DEF Abstract!Next
  <1>4. CASE NotFound \/ NotAStruct
    BY <1>4, FailMaps
  <1>5. CASE Descend
    BY <1>1, <1>5 DEF Descend
  <1>6. CASE Leaf
    BY <1>6, LeafMaps
  <1>7. CASE UNCHANGED vars
    BY <1>1, <1>7 DEF vars
  <1> QED
    BY <1>2, <1>3, <1>4, <1>5, <1>6, <1>7 DEF Next, Step

\* PathResolve implements PathLookup: every answer of the token-by-token walk
\* is the one member that what the buffer keeps of the path denotes, and the
\* walk answers NULL exactly when that denotes nothing.
THEOREM WalkImplementsLookup == Spec => ImplementsLookup
  BY InitMaps, StepMaps, WalkInvariance, PTL DEF Spec, ImplementsLookup, Abstract!Spec
=============================================================================
