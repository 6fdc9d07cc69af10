----------------------------- MODULE Emit_proofs -----------------------------
(***************************************************************************)
(* Proofs about the generator.  Reading and resolving line by line and     *)
(* field by field keeps what Latest, FirstOfName and the closure of the    *)
(* types say of the part of the input that has been seen; at the end that  *)
(* part is all of it.  Writing the file changes none of the tables.        *)
(* What the plugins and the generator define goes by names that tell from  *)
(* which part of the file and which step of which plugin they come.        *)
(***************************************************************************)
EXTENDS Emit, FiniteSetTheorems, SequenceTheorems, WellFoundedInduction, TLAPS

-----------------------------------------------------------------------------
(* The inductive invariant                                                 *)

IsSequence(s) == s \in Seq(Range(s))

Live == pc \in {"text", "body", "resolve", "done"}
StillReading == pc \in {"text", "body"}

\* The items read, and those whose typedef has been seen
Passed(i) == StillReading => i < at[1]
Opened == {i \in Marked : Passed(i) \/ (pc = "body" /\ i = at[1])}

\* Where the generator is
WhereInv ==
    /\ \E r \in Runs : input = r[1] /\ plugins = r[2]
    /\ pc \in {"text", "body", "resolve", "done", "written", "raised", "crashed"}
    /\ at \in (Nat \ {0}) \X (Nat \ {0})
    /\ StillReading => at[1] <= Len(input) + 1

\* There is a mark exactly when the next typedef has one, with its tags.
MarkInv ==
    /\ pc = "text" => mark = IF MarksOf(at[1]) = {} THEN <<>> ELSE <<BlockTags(at[1])>>
    /\ pc = "body" => at[1] \in Marked /\ mark = <<BlockTags(at[1])>>
    /\ mark = <<>> \/ \E tags : mark = <<tags>>

\* The comment lines directly above a line
Above(lines, l) == {k \in 1 .. l - 1 : \A h \in k .. l - 1 : lines[h].decl = <<>>}

\* The members so far are those of the lines read.
LinesRead(i, n) == {l \in MemberLines(i) : l < n}
MembersUpTo(i, n) ==
    /\ n <= Len(input[i].lines) + 1
    /\ pending = Latest(input[i].lines, Above(input[i].lines, n))
    /\ IsSequence(members) /\ Len(members) = Cardinality(LinesRead(i, n))
    /\ \A l \in LinesRead(i, n) : IsMember(members[Rank(LinesRead(i, n), l)], i, l)
    /\ input[i].kind = "struct" => \A k \in DOMAIN members : Typed(members[k].type)

MembersInv ==
    /\ pc = "text" => at[2] = 1
    /\ pc = "body" => MembersUpTo(at[1], at[2])

KeptOf(kind) == IF kind = "struct" THEN structs ELSE enums
Firsts(kind) == {i \in FirstOfName(kind) : Passed(i)}

\* The blocks so far are the marked ones read, the first of each name.
KeptInv ==
    Live =>
        \A kind \in BlockKinds :
            /\ IsSequence(KeptOf(kind))
            /\ Len(KeptOf(kind)) = Cardinality(Firsts(kind))
            /\ \A i \in Firsts(kind) : IsBlock(KeptOf(kind)[Rank(Firsts(kind), i)], i)
            /\ {b.name : b \in Range(KeptOf(kind))} =
                  {input[i].name : i \in {j \in Marked : input[j].kind = kind /\ Passed(j)}}

StructsInv ==
    Live =>
        \A s \in DOMAIN structs :
            /\ IsSequence(FieldsOf(s))
            /\ \A f \in DOMAIN FieldsOf(s) : Typed(FieldsOf(s)[f].type)

\* What type_map has for a type once the blocks O have been opened
LastIn(O, b) == Max({i \in O : input[i].name = b})
DeclaredBy(O) == {Plain(input[i].name) : i \in O}
Value(O, n) ==
    IF n \in DeclaredBy(O)
    THEN Enumerator(input[LastIn(O, n.base)].kind, n.base, BlockTags(LastIn(O, n.base)))
    ELSE Default(n)

\* The types that a set of field types is made of
Parts(n) == {Pointer(n.base, k) : k \in 0 .. n.stars}
Made(types) == types \cup ((UNION {Parts(n) : n \in types}) \ {Plain("void")})

Fields == {sf \in (DOMAIN structs) \X (Nat \ {0}) : sf[2] \in DOMAIN FieldsOf(sf[1])}
Resolved == {sf \in Fields : /\ ~StillReading
                             /\ sf[1] < at[1] \/ (sf[1] = at[1] /\ sf[2] < at[2])}
TypeOf(sf) == FieldsOf(sf[1])[sf[2]].type
ResolvedTypes == {TypeOf(sf) : sf \in Resolved}

\* The table is the closure of the blocks opened and the fields resolved, and
\* has not been changed under a resolved field.
TableInv ==
    Live =>
        /\ type_map = [n \in {Plain("unknown")} \cup DeclaredBy(Opened) \cup Made(ResolvedTypes) |->
                          Value(Opened, n)]
        /\ DOMAIN type_enum = Resolved
        /\ \A sf \in Resolved : /\ type_enum[sf] = Value(Opened, TypeOf(sf))
                                /\ HasLength(sf[1], sf[2])
        /\ pc = "done" => at[1] > Len(structs)

ReadInv == WhereInv /\ MarkInv /\ MembersInv /\ KeptInv /\ StructsInv /\ TableInv

\* The types of the Python objects: of the tables,
NamesInv == DOMAIN type_map \subseteq TypeName
FieldsInv == \A sf \in DOMAIN type_enum : sf[1] \in DOMAIN structs /\ sf[2] \in DOMAIN FieldsOf(sf[1])

\* of what the plugins add, which is nothing before all types are resolved,
ExtInv ==
    /\ DOMAIN ext \subseteq Places("field") \cup Places("member")
    /\ pc \in {"text", "body", "resolve"} => DOMAIN ext = {}

\* and of the variables of the loop over the plugins
TurnInv ==
    /\ turn[1] \in 1 .. Len(plugins) + 1
    /\ turn[2] \in 0 .. (IF turn[1] \in DOMAIN plugins THEN Len(plugin.mappers) + 1 ELSE 0)
    /\ router = <<>>

ShapeInv == NamesInv /\ FieldsInv /\ ExtInv /\ TurnInv


-----------------------------------------------------------------------------
(* Sets of places                                                          *)

\* The least number principle, from the well-foundedness of < on Nat.
LEMMA LeastNat ==
    ASSUME NEW S \in SUBSET Nat, S # {}
    PROVE  \E m \in S : \A n \in S : m <= n
  <1> DEFINE R == OpToRel(<, Nat)
  <1>1. IsWellFoundedOn(R, Nat)
    BY NatLessThanWellFounded
  <1>2. \E x \in S : \A y \in S : ~ (<<y, x>> \in R)
    <2> HIDE DEF R
    <2> QED
      BY <1>1, WFMin
  <1>3. PICK m \in S : \A n \in S : ~ (<<n, m>> \in R)
    BY <1>2
  <1>4. ASSUME NEW n \in S, n < m PROVE FALSE
    BY <1>3, <1>4 DEF OpToRel
  <1> QED
    BY <1>4

LEMMA MaxIs ==
    ASSUME NEW S \in SUBSET Int, NEW m \in S, \A k \in S : k <= m
    PROVE  Max(S) = m
  <1>1. \E x \in S : \A y \in S : x >= y
    OBVIOUS
  <1>2. Max(S) \in S /\ \A y \in S : Max(S) >= y
    <2> DEFINE P(x) == \A y \in S : x >= y
    <2>1. \E x \in S : P(x)
      BY <1>1
    <2>2. Max(S) = CHOOSE x \in S : P(x)
      BY DEF Max
    <2> HIDE DEF P
    <2>3. Max(S) \in S /\ P(Max(S))
      BY <2>1, <2>2, Zenon
    <2> QED
      BY <2>3 DEF P
  <1>3. PICK x \in S : x = Max(S)
    BY <1>2
  <1>4. x \in Int /\ m \in Int /\ x >= m /\ m >= x
    BY <1>2, <1>3
  <1> QED
    BY <1>3, <1>4

LEMMA MinIs ==
    ASSUME NEW S \in SUBSET Int, NEW m \in S, \A k \in S : m <= k
    PROVE  Min(S) = m
  <1>1. \E x \in S : \A y \in S : x =< y
    OBVIOUS
  <1>2. Min(S) \in S /\ \A y \in S : Min(S) =< y
    <2> DEFINE P(x) == \A y \in S : x =< y
    <2>1. \E x \in S : P(x)
      BY <1>1
    <2>2. Min(S) = CHOOSE x \in S : P(x)
      BY DEF Min
    <2> HIDE DEF P
    <2>3. Min(S) \in S /\ P(Min(S))
      BY <2>1, <2>2, Zenon
    <2> QED
      BY <2>3 DEF P
  <1>3. PICK x \in S : x = Min(S)
    BY <1>2
  <1>4. x \in Int /\ m \in Int /\ x =< m /\ m =< x
    BY <1>2, <1>3
  <1> QED
    BY <1>3, <1>4

\* Ranks do not change when a last place is added; it gets the next one.
LEMMA RankStep ==
    ASSUME NEW S, NEW n \in Nat, S \subseteq 1 .. n
    PROVE  /\ Cardinality(S) \in Nat
           /\ \A j \in S : Rank(S, j) \in 1 .. Cardinality(S)
           /\ \A i \in Int : i > n =>
                /\ Cardinality(S \cup {i}) = Cardinality(S) + 1
                /\ Rank(S \cup {i}, i) = Cardinality(S) + 1
                /\ \A j \in S : Rank(S \cup {i}, j) = Rank(S, j)
  <1>1. IsFiniteSet(S)
    <2>1. IsFiniteSet(1 .. n)
      BY FS_Interval
    <2> QED
      BY <2>1, FS_Subset
  <1>2. Cardinality(S) \in Nat
    BY <1>1, FS_CardinalityType
  <1>3. ASSUME NEW j \in S PROVE Rank(S, j) \in 1 .. Cardinality(S)
    <2> DEFINE T == {k \in S : k <= j}
    <2>1. T \in SUBSET S /\ j \in T /\ T # {}
      OBVIOUS
    <2>2. IsFiniteSet(T) /\ Cardinality(T) <= Cardinality(S)
      BY <1>1, <2>1, FS_Subset
    <2>3. Cardinality(T) \in Nat /\ Cardinality(T) # 0
      BY <2>1, <2>2, FS_CardinalityType, FS_EmptySet
    <2> QED
      BY <1>2, <2>2, <2>3 DEF Rank
  <1>4. ASSUME NEW i \in Int, i > n
        PROVE  /\ Cardinality(S \cup {i}) = Cardinality(S) + 1
               /\ Rank(S \cup {i}, i) = Cardinality(S) + 1
               /\ \A j \in S : Rank(S \cup {i}, j) = Rank(S, j)
    <2>1. i \notin S
      BY <1>4
    <2>2. Cardinality(S \cup {i}) = Cardinality(S) + 1
      BY <1>1, <2>1, FS_AddElement
    <2>3. {k \in S \cup {i} : k <= i} = S \cup {i}
      <3>1. \A k \in S \cup {i} : k <= i
        BY <1>4
      <3> QED
        BY <3>1
    <2>4. \A j \in S : {k \in S \cup {i} : k <= j} = {k \in S : k <= j}
      BY <1>4
    <2> QED
      BY <2>2, <2>3, <2>4 DEF Rank
  <1> QED
    BY <1>2, <1>3, <1>4

LEMMA RankLast ==
    ASSUME NEW i \in Nat \ {0}, NEW S, S \subseteq 1 .. i - 1
    PROVE  /\ Cardinality(S) \in Nat
           /\ Cardinality(S \cup {i}) = Cardinality(S) + 1
           /\ Rank(S \cup {i}, i) = Cardinality(S) + 1
           /\ \A j \in S : Rank(S \cup {i}, j) = Rank(S, j)
           /\ \A j \in S : Rank(S, j) \in 1 .. Cardinality(S)
  <1>1. PICK n \in Nat : n = i - 1
    OBVIOUS
  <1>2. S \subseteq 1 .. n /\ i \in Int /\ i > n
    BY <1>1
  <1>3. Cardinality(S) \in Nat /\ \A j \in S : Rank(S, j) \in 1 .. Cardinality(S)
    BY <1>2, RankStep
  <1>4. \A h \in Int : h > n =>
           /\ Cardinality(S \cup {h}) = Cardinality(S) + 1
           /\ Rank(S \cup {h}, h) = Cardinality(S) + 1
           /\ \A j \in S : Rank(S \cup {h}, j) = Rank(S, j)
    BY <1>2, RankStep
  <1> QED
    BY <1>2, <1>3, <1>4

-----------------------------------------------------------------------------
(* Tags                                                                    *)

\* The tags of the places and of one after them are the first's, updated.
LEMMA LatestStep ==
    ASSUME NEW places, NEW S \in SUBSET Int, NEW l \in Int, \A k \in S : k < l
    PROVE  Latest(places, S \cup {l}) = Merge(Latest(places, S), places[l].tags)
  <1> DEFINE D == UNION {DOMAIN places[k].tags : k \in S}
             In(T, t) == {k \in T : t \in DOMAIN places[k].tags}
  <1>1. UNION {DOMAIN places[k].tags : k \in S \cup {l}} = DOMAIN places[l].tags \cup D
    OBVIOUS
  <1>2. ASSUME NEW t \in DOMAIN places[l].tags PROVE Max(In(S \cup {l}, t)) = l
    BY MaxIs
  <1>3. ASSUME NEW t, t \notin DOMAIN places[l].tags
        PROVE  In(S \cup {l}, t) = In(S, t)
    BY <1>3
  <1>4. Latest(places, S) = [t \in D |-> places[Max(In(S, t))].tags[t]]
    BY DEF Latest
  <1>5. Latest(places, S \cup {l}) =
           [t \in DOMAIN places[l].tags \cup D |-> places[Max(In(S \cup {l}, t))].tags[t]]
    BY <1>1 DEF Latest
  <1> HIDE DEF D, In
  <1>6. Merge(Latest(places, S), places[l].tags) =
           [t \in DOMAIN places[l].tags \cup D |->
               IF t \in DOMAIN places[l].tags THEN places[l].tags[t] ELSE Latest(places, S)[t]]
    BY <1>4 DEF Merge
  <1>7. \A t \in DOMAIN places[l].tags \cup D :
           places[Max(In(S \cup {l}, t))].tags[t] =
              IF t \in DOMAIN places[l].tags THEN places[l].tags[t] ELSE Latest(places, S)[t]
    BY <1>2, <1>3, <1>4
  <1> QED
    BY <1>5, <1>6, <1>7

LEMMA LatestOfOne ==
    ASSUME NEW places, NEW l \in Int, NEW V, places[l].tags \in [DOMAIN places[l].tags -> V]
    PROVE  Latest(places, {l}) = places[l].tags
  <1> DEFINE In(t) == {k \in {l} : t \in DOMAIN places[k].tags}
  <1>1. ASSUME NEW t \in DOMAIN places[l].tags PROVE Max(In(t)) = l
    BY MaxIs
  <1>2. UNION {DOMAIN places[k].tags : k \in {l}} = DOMAIN places[l].tags
    OBVIOUS
  <1>3. Latest(places, {l}) = [t \in DOMAIN places[l].tags |-> places[Max(In(t))].tags[t]]
    BY <1>2 DEF Latest
  <1> HIDE DEF In
  <1> QED
    BY <1>1, <1>3

LEMMA LatestOfNone == \A places : Latest(places, {}) = <<>>
  BY DEF Latest

-----------------------------------------------------------------------------
(* The input                                                               *)

LEMMA InputFacts ==
    ASSUME WhereInv
    PROVE  /\ input \in Seq(Range(input)) /\ Len(input) \in Nat
           /\ DOMAIN input = 1 .. Len(input)
           /\ \A i \in DOMAIN input :
                /\ input[i].kind \in {"text", "end", "struct", "enum"}
                /\ input[i].kind = "text" =>
                     input[i].tags \in [DOMAIN input[i].tags -> STRING]
                /\ input[i].kind \in BlockKinds =>
                     /\ input[i].name \in Bases \ {"void", "unknown"}
                     /\ input[i].lines \in Seq(Range(input[i].lines))
                     /\ Len(input[i].lines) \in Nat
                     /\ DOMAIN input[i].lines = 1 .. Len(input[i].lines)
                     /\ input[i].kind = "struct" =>
                          \A l \in DOMAIN input[i].lines :
                             Len(input[i].lines[l].decl) = 2 => Typed(input[i].lines[l].decl[2])
  <1>1. PICK r \in Runs : input = r[1] /\ plugins = r[2]
    BY DEF WhereInv
  <1>2. input \in Seq(Range(input))
    BY <1>1, InputsAssumption DEF InputsAssumption
  <1>3. Len(input) \in Nat /\ DOMAIN input = 1 .. Len(input)
    BY <1>2, LenProperties
  <1>4. ASSUME NEW i \in DOMAIN input
        PROVE  /\ input[i].kind \in {"text", "end", "struct", "enum"}
               /\ input[i].kind = "text" =>
                    input[i].tags \in [DOMAIN input[i].tags -> STRING]
               /\ input[i].kind \in BlockKinds =>
                    /\ input[i].name \in Bases \ {"void", "unknown"}
                    /\ input[i].lines \in Seq(Range(input[i].lines))
                    /\ input[i].kind = "struct" =>
                         \A l \in Range(input[i].lines) : Len(l.decl) = 2 => Typed(l.decl[2])
    BY <1>1, InputsAssumption DEF InputsAssumption, BlockKinds
  <1>5. ASSUME NEW i \in DOMAIN input, input[i].kind \in BlockKinds
        PROVE  /\ Len(input[i].lines) \in Nat
               /\ DOMAIN input[i].lines = 1 .. Len(input[i].lines)
    BY <1>4, <1>5, LenProperties
  <1>6. ASSUME NEW i \in DOMAIN input, input[i].kind = "struct",
               NEW l \in DOMAIN input[i].lines, Len(input[i].lines[l].decl) = 2
        PROVE  Typed(input[i].lines[l].decl[2])
    <2>1. input[i].lines[l] \in Range(input[i].lines)
      BY DEF Range
    <2> QED
      BY <1>4, <1>6, <2>1 DEF BlockKinds
  <1> HIDE DEF BlockKinds
  <1> QED
    BY <1>2, <1>3, <1>4, <1>5, <1>6

\* The marks in front of the item after i
LEMMA MarksStep ==
    ASSUME NEW i \in Nat \ {0}
    PROVE  MarksOf(i + 1) =
              IF input[i].kind # "text" THEN {}
              ELSE MarksOf(i) \cup (IF "reflect" \in DOMAIN input[i].tags THEN {i} ELSE {})
  <1>1. MarksOf(i + 1) = {j \in 1 .. i : /\ \A k \in j .. i : input[k].kind = "text"
                                         /\ "reflect" \in DOMAIN input[j].tags}
    BY DEF MarksOf
  <1>2. CASE input[i].kind # "text"
    BY <1>1, <1>2
  <1>3. CASE input[i].kind = "text"
    <2>1. \A j \in 1 .. i - 1 : (\A k \in j .. i : input[k].kind = "text")
                                <=> (\A k \in j .. i - 1 : input[k].kind = "text")
      BY <1>3
    <2>2. \A k \in i .. i : input[k].kind = "text"
      BY <1>3
    <2> QED
      BY <1>1, <1>3, <2>1, <2>2 DEF MarksOf
  <1> QED
    BY <1>2, <1>3

\* The tags from the mark on, once a text has been read
LEMMA BlockTagsStep ==
    ASSUME WhereInv, NEW i \in DOMAIN input, input[i].kind = "text"
    PROVE  /\ MarksOf(i) # {} => BlockTags(i + 1) = Merge(BlockTags(i), input[i].tags)
           /\ MarksOf(i) = {} /\ "reflect" \in DOMAIN input[i].tags =>
                BlockTags(i + 1) = input[i].tags
  <1>1. i \in Nat \ {0} /\ i \in Int
    BY InputFacts
  <1>2. CASE MarksOf(i) # {}
    <2>1. MarksOf(i) \subseteq 1 .. i - 1 /\ MarksOf(i) \in SUBSET Nat
      BY <1>1 DEF MarksOf
    <2>2. PICK m \in MarksOf(i) : \A n \in MarksOf(i) : m <= n
      BY <1>2, <2>1, LeastNat
    <2>3. m \in 1 .. i - 1
      BY <2>1, <2>2
    <2>4. MarksOf(i + 1) \subseteq MarksOf(i) \cup {i} /\ m \in MarksOf(i + 1)
      BY <1>1, <2>2, MarksStep
    <2>5. Min(MarksOf(i)) = m
      BY <2>1, <2>2, MinIs
    <2>6. MarksOf(i + 1) \in SUBSET Int /\ \A n \in MarksOf(i + 1) : m <= n
      BY <1>1, <2>1, <2>2, <2>3, <2>4
    <2>7. Min(MarksOf(i + 1)) = m
      BY <2>4, <2>6, MinIs
    <2>8. m .. i = (m .. i - 1) \cup {i} /\ (m .. i - 1) \in SUBSET Int
          /\ \A k \in m .. i - 1 : k < i
      BY <1>1, <2>3
    <2>9. Latest(input, m .. i) = Merge(Latest(input, m .. i - 1), input[i].tags)
      BY <1>1, <2>8, LatestStep
    <2>10. (i + 1) - 1 = i
      BY <1>1
    <2> QED
      BY <1>2, <2>5, <2>7, <2>9, <2>10 DEF BlockTags
  <1>3. CASE MarksOf(i) = {} /\ "reflect" \in DOMAIN input[i].tags
    <2>1. MarksOf(i + 1) = {i}
      BY <1>1, <1>3, MarksStep
    <2>2. Min({i}) = i
      BY <1>1, MinIs
    <2>3. i .. i = {i} /\ (i + 1) - 1 = i
      BY <1>1
    <2>4. Latest(input, {i}) = input[i].tags
      BY <1>1, InputFacts, LatestOfOne
    <2> QED
      BY <1>3, <2>1, <2>2, <2>3, <2>4 DEF BlockTags
  <1> QED
    BY <1>2, <1>3

\* What is said of the input alone does not change.
LEMMA SameInput ==
    ASSUME input' = input
    PROVE  /\ \A i : MarksOf(i)' = MarksOf(i) /\ BlockTags(i)' = BlockTags(i)
           /\ Marked' = Marked
           /\ \A kind : FirstOfName(kind)' = FirstOfName(kind)
           /\ \A i : MemberLines(i)' = MemberLines(i)
           /\ \A m, i, l : IsMember(m, i, l)' <=> IsMember(m, i, l)
           /\ \A b, i : IsBlock(b, i)' <=> IsBlock(b, i)
           /\ \A O, n : Value(O, n)' = Value(O, n)
           /\ \A O : DeclaredBy(O)' = DeclaredBy(O)
  <1>1. \A i : MarksOf(i)' = MarksOf(i)
    BY DEF MarksOf
  <1>2. \A i : BlockTags(i)' = BlockTags(i)
    BY <1>1 DEF BlockTags
  <1>3. Marked' = Marked
    BY <1>1 DEF Marked, Blocks
  <1>4. \A kind : FirstOfName(kind)' = FirstOfName(kind)
    BY <1>3 DEF FirstOfName
  <1>5. \A i : MemberLines(i)' = MemberLines(i)
    BY DEF MemberLines
  <1>6. \A m, i, l : IsMember(m, i, l)' <=> IsMember(m, i, l)
    BY DEF IsMember
  <1>7. \A b, i : IsBlock(b, i)' <=> IsBlock(b, i)
    BY <1>2, <1>5, <1>6 DEF IsBlock
  <1>8. \A O : DeclaredBy(O)' = DeclaredBy(O)
    BY DEF DeclaredBy
  <1>9. \A O, b : LastIn(O, b)' = LastIn(O, b)
    BY DEF LastIn
  <1>10. \A O, n : Value(O, n)' = Value(O, n)
    BY <1>2, <1>8, <1>9 DEF Value
  <1> QED
    BY <1>1, <1>2, <1>3, <1>4, <1>5, <1>6, <1>7, <1>8, <1>10

-----------------------------------------------------------------------------
(* Reading                                                                 *)

LEMMA InitWhere == Init => WhereInv
  <1> SUFFICES ASSUME Init PROVE WhereInv
    OBVIOUS
  <1>1. PICK r \in Runs : input = r[1] /\ plugins = r[2]
    BY DEF Init
  <1>2. Len(input) \in Nat
    BY <1>1, InputsAssumption, LenProperties DEF InputsAssumption
  <1> QED
    BY <1>1, <1>2 DEF Init, WhereInv, StillReading

LEMMA WhereStep == WhereInv /\ Next => WhereInv'
  <1> SUFFICES ASSUME WhereInv, Next PROVE WhereInv'
    OBVIOUS
  <1> USE DEF WhereInv, StillReading
  <1>1. input' = input /\ plugins' = plugins
    BY DEF Next, ReadText, EndFile, SkipBlock, OpenBlock, ReadLine, CloseBlock, EndOfFiles,
           ResolveField, NextStruct, Validate, Raise, reading, tables
  <1>2. DOMAIN input = 1 .. Len(input) /\ Len(input) \in Nat
    BY InputFacts
  <1>3. /\ pc' \in {"text", "body", "resolve", "done", "raised"}
        /\ at' \in (Nat \ {0}) \X (Nat \ {0})
        /\ StillReading' => at'[1] <= Len(input) + 1
    <2>1. CASE ReadText \/ EndFile \/ SkipBlock
      BY <1>2, <2>1 DEF ReadText, EndFile, SkipBlock, Reading, NextItem
    <2>2. CASE OpenBlock
      BY <1>2, <2>2 DEF OpenBlock, Reading, Raise
    <2>3. CASE ReadLine
      BY <1>2, <2>3 DEF ReadLine, Reading, Raise
    <2>4. CASE CloseBlock
      BY <1>2, <2>4 DEF CloseBlock, Reading, NextItem
    <2>5. CASE EndOfFiles \/ ResolveField \/ NextStruct \/ Validate
      BY <2>5 DEF EndOfFiles, ResolveField, NextStruct, Validate
    <2> QED
      BY <2>1, <2>2, <2>3, <2>4, <2>5 DEF Next
  <1> QED
    BY <1>1, <1>3

LEMMA InitMark == Init => MarkInv
  BY DEF Init, MarkInv, MarksOf

LEMMA MarkStep == WhereInv /\ MarkInv /\ Next => MarkInv'
  <1> SUFFICES ASSUME WhereInv, MarkInv, Next PROVE MarkInv'
    OBVIOUS
  <1>1. input' = input
    BY DEF Next, ReadText, EndFile, SkipBlock, OpenBlock, ReadLine, CloseBlock, EndOfFiles,
           ResolveField, NextStruct, Validate, Raise, reading, tables
  <1>2. /\ \A i : MarksOf(i)' = MarksOf(i) /\ BlockTags(i)' = BlockTags(i)
        /\ Marked' = Marked
    BY <1>1, SameInput
  <1>3. PICK i \in Nat \ {0}, l \in Nat \ {0} : at = <<i, l>>
    BY DEF WhereInv
  <1>4. MarksOf(i + 1) =
              IF input[i].kind # "text" THEN {}
              ELSE MarksOf(i) \cup (IF "reflect" \in DOMAIN input[i].tags THEN {i} ELSE {})
    BY MarksStep
  <1>5. CASE ReadText
    <2>1. /\ pc = "text" /\ pc' = "text" /\ i \in DOMAIN input /\ input[i].kind = "text"
          /\ at' = <<i + 1, 1>>
          /\ mark' = IF mark # <<>> THEN <<Merge(mark[1], input[i].tags)>>
                     ELSE IF "reflect" \in DOMAIN input[i].tags THEN <<input[i].tags>> ELSE <<>>
      BY <1>3, <1>5 DEF ReadText, Reading, NextItem, item
    <2>2. mark' = IF MarksOf(i + 1) = {} THEN <<>> ELSE <<BlockTags(i + 1)>>
      <3>1. CASE MarksOf(i) # {}
        <4>1. mark = <<BlockTags(i)>> /\ mark # <<>> /\ mark[1] = BlockTags(i)
          BY <1>3, <2>1, <3>1 DEF MarkInv
        <4>2. MarksOf(i + 1) # {}
          BY <1>4, <2>1, <3>1
        <4> QED
          BY <2>1, <3>1, <4>1, <4>2, BlockTagsStep
      <3>2. CASE MarksOf(i) = {} /\ "reflect" \in DOMAIN input[i].tags
        <4>1. mark = <<>> /\ MarksOf(i + 1) # {}
          BY <1>3, <1>4, <2>1, <3>2 DEF MarkInv
        <4> QED
          BY <2>1, <3>2, <4>1, BlockTagsStep
      <3>3. CASE MarksOf(i) = {} /\ "reflect" \notin DOMAIN input[i].tags
        BY <1>3, <1>4, <2>1, <3>3 DEF MarkInv
      <3> QED
        BY <3>1, <3>2, <3>3
    <2>3. MarksOf(i + 1)' = MarksOf(i + 1) /\ BlockTags(i + 1)' = BlockTags(i + 1)
      BY <1>2
    <2>4. at'[1] = i + 1
      BY <2>1
    <2> QED
      BY <2>1, <2>2, <2>3, <2>4 DEF MarkInv
  <1>6. CASE EndFile \/ SkipBlock \/ CloseBlock
    <2>1. pc' = "text" /\ at' = <<i + 1, 1>> /\ i \in DOMAIN input
      BY <1>3, <1>6 DEF EndFile, SkipBlock, CloseBlock, Reading, NextItem
    <2>2. mark' = <<>>
      BY <1>6 DEF EndFile, SkipBlock, CloseBlock, reading
    <2>3. input[i].kind # "text"
      <3>1. CASE CloseBlock
        BY <1>3, <3>1 DEF CloseBlock, Reading, MarkInv, Marked, Blocks, BlockKinds
      <3> QED
        BY <1>3, <1>6, <3>1 DEF EndFile, SkipBlock, item, BlockKinds
    <2>4. MarksOf(i + 1)' = {} /\ at'[1] = i + 1
      BY <1>2, <1>4, <2>1, <2>3
    <2> QED
      BY <2>1, <2>2, <2>4 DEF MarkInv
  <1>7. CASE OpenBlock
    <2>1. /\ pc = "text" /\ i \in DOMAIN input /\ input[i].kind \in BlockKinds /\ mark # <<>>
          /\ mark' = mark /\ at' = at /\ pc' \in {"body", "raised"}
      BY <1>3, <1>7 DEF OpenBlock, Reading, item, Raise, reading
    <2>2. MarksOf(i) # {} /\ mark = <<BlockTags(i)>> /\ i \in Marked
      BY <1>3, <2>1 DEF MarkInv, Marked, Blocks
    <2>3. at'[1] = i /\ BlockTags(i)' = BlockTags(i) /\ i \in Marked'
      BY <1>2, <1>3, <2>1, <2>2
    <2> QED
      BY <2>1, <2>2, <2>3 DEF MarkInv
  <1>8. CASE ReadLine
    <2>1. /\ pc = "body" /\ mark' = mark /\ at'[1] = i /\ pc' \in {"body", "raised"}
      BY <1>3, <1>8 DEF ReadLine, Reading, Raise, reading
    <2>2. i \in Marked' /\ mark = <<BlockTags(i)>> /\ BlockTags(i)' = BlockTags(i)
      BY <1>2, <1>3, <2>1 DEF MarkInv
    <2> QED
      BY <2>1, <2>2 DEF MarkInv
  <1>9. CASE EndOfFiles \/ ResolveField \/ NextStruct \/ Validate
    <2>1. pc' \in {"resolve", "done", "raised"} /\ mark' = mark
      BY <1>9 DEF EndOfFiles, ResolveField, NextStruct, Validate, reading
    <2> QED
      BY <2>1 DEF MarkInv
  <1> QED
    BY <1>5, <1>6, <1>7, <1>8, <1>9 DEF Next

LEMMA AppendFacts ==
    ASSUME NEW s, IsSequence(s), NEW e
    PROVE  /\ Len(s) \in Nat /\ DOMAIN s = 1 .. Len(s)
           /\ IsSequence(Append(s, e))
           /\ Len(Append(s, e)) = Len(s) + 1
           /\ DOMAIN Append(s, e) = 1 .. Len(s) + 1
           /\ \A k \in 1 .. Len(s) : Append(s, e)[k] = s[k]
           /\ Append(s, e)[Len(s) + 1] = e
           /\ Range(Append(s, e)) = Range(s) \cup {e}
  <1> DEFINE T == Range(s) \cup {e}
  <1>1. s \in Seq(T) /\ e \in T
    BY SeqMonotonic DEF IsSequence
  <1>2. Len(s) \in Nat /\ DOMAIN s = 1 .. Len(s)
    BY <1>1, LenProperties
  <1> HIDE DEF T
  <1>3. /\ Append(s, e) \in Seq(T)
        /\ Len(Append(s, e)) = Len(s) + 1
        /\ \A k \in 1 .. Len(s) : Append(s, e)[k] = s[k]
        /\ Append(s, e)[Len(s) + 1] = e
    BY <1>1, AppendProperties
  <1>4. DOMAIN Append(s, e) = 1 .. Len(s) + 1
    BY <1>3, LenProperties
  <1>5. Range(Append(s, e)) = T
    <2>1. 1 .. Len(s) + 1 = (1 .. Len(s)) \cup {Len(s) + 1}
      BY <1>2
    <2> QED
      BY <1>2, <1>3, <1>4, <2>1 DEF Range, T
  <1> QED
    BY <1>2, <1>3, <1>4, <1>5 DEF IsSequence, T

LEMMA EmptySequence == IsSequence(<<>>) /\ Len(<<>>) = 0 /\ DOMAIN <<>> = {} /\ Range(<<>>) = {}
  <1>1. <<>> \in Seq(Range(<<>>)) /\ Len(<<>>) = 0
    BY EmptySeq
  <1>2. DOMAIN <<>> = {}
    OBVIOUS
  <1> QED
    BY <1>1, <1>2 DEF IsSequence, Range

LEMMA InitMembers == Init => MembersInv
  BY DEF Init, MembersInv

\* A line's own tags are added to those of the comments above it, and go on
\* to the next line only from a comment.
LEMMA LineTagsStep ==
    ASSUME NEW lines, NEW l \in Nat \ {0}
    PROVE  /\ LineTags(lines, l) = Merge(Latest(lines, Above(lines, l)), lines[l].tags)
           /\ Latest(lines, Above(lines, l + 1)) =
                IF lines[l].decl = <<>> THEN LineTags(lines, l) ELSE <<>>
  <1>1. l \in Int /\ Above(lines, l) \in SUBSET Int /\ \A k \in Above(lines, l) : k < l
    BY DEF Above
  <1>2. {k \in 1 .. l : \A h \in k .. l - 1 : lines[h].decl = <<>>} = Above(lines, l) \cup {l}
    BY DEF Above
  <1>3. Above(lines, l + 1) = IF lines[l].decl = <<>> THEN Above(lines, l) \cup {l} ELSE {}
    <2>1. Above(lines, l + 1) = {k \in 1 .. l : \A h \in k .. l : lines[h].decl = <<>>}
      BY DEF Above
    <2>2. CASE lines[l].decl # <<>>
      BY <2>1, <2>2
    <2>3. CASE lines[l].decl = <<>>
      <3>1. \A k \in 1 .. l : (\A h \in k .. l : lines[h].decl = <<>>)
                              <=> (\A h \in k .. l - 1 : lines[h].decl = <<>>)
        BY <2>3
      <3> QED
        BY <1>2, <2>1, <2>3, <3>1
    <2> QED
      BY <2>2, <2>3
  <1>4. LineTags(lines, l) = Latest(lines, Above(lines, l) \cup {l})
    BY <1>2 DEF LineTags
  <1>5. LineTags(lines, l) = Merge(Latest(lines, Above(lines, l)), lines[l].tags)
    <2>1. Latest(lines, Above(lines, l) \cup {l}) =
             Merge(Latest(lines, Above(lines, l)), lines[l].tags)
      BY <1>1, LatestStep
    <2> QED
      BY <1>4, <2>1
  <1> QED
    BY <1>3, <1>4, <1>5, LatestOfNone

LEMMA OpenMembers ==
    ASSUME WhereInv, MarkInv, MembersInv, OpenBlock, pc' = "body"
    PROVE  MembersInv'
  <1>1. PICK i \in Nat \ {0}, l \in Nat \ {0} : at = <<i, l>>
    BY DEF WhereInv
  <1>2. /\ pc = "text" /\ i \in DOMAIN input /\ input[i].kind \in BlockKinds
        /\ at' = at /\ input' = input /\ members' = <<>> /\ pending' = <<>>
    BY <1>1 DEF OpenBlock, Reading, item, Raise
  <1>3. l = 1 /\ at'[1] = i /\ at'[2] = 1
    BY <1>1, <1>2 DEF MembersInv
  <1>4. LinesRead(i, 1) = {}
    BY <1>2, InputFacts DEF LinesRead, MemberLines
  <1>5. Above(input[i].lines, 1) = {}
    BY DEF Above
  <1>6. Latest(input[i].lines, Above(input[i].lines, 1)) = <<>>
    BY <1>5, LatestOfNone
  <1>7. Len(input[i].lines) \in Nat
    BY <1>2, InputFacts
  <1>8. LinesRead(i, 1)' = LinesRead(i, 1) /\ Above(input[i].lines, 1)' = Above(input[i].lines, 1)
    BY <1>2, SameInput DEF LinesRead, Above
  <1>9. MembersUpTo(i, 1)'
    <2>1. IsSequence(members)' /\ members' = <<>> /\ Len(members') = Cardinality({})
      BY <1>2, EmptySequence, FS_EmptySet DEF IsSequence
    <2>2. 1 <= Len(input'[i].lines) + 1
      BY <1>2, <1>7
    <2>3. pending' = Latest(input[i].lines, Above(input[i].lines, 1))'
      BY <1>2, <1>6 DEF Latest, Above
    <2> QED
      BY <1>4, <1>8, <2>1, <2>2, <2>3, EmptySequence DEF MembersUpTo
  <1> QED
    BY <1>3, <1>9 DEF MembersInv

LEMMA LineMembers ==
    ASSUME WhereInv, MarkInv, MembersInv, ReadLine, pc' = "body"
    PROVE  MembersInv'
  <1>1. PICK i \in Nat \ {0}, l \in Nat \ {0} : at = <<i, l>>
    BY DEF WhereInv
  <1> DEFINE lines == input[i].lines
             tags == Merge(pending, lines[l].tags)
             width == IF input[i].kind = "struct" THEN 2 ELSE 1
             is == lines[l].decl # <<>> /\ "private" \notin DOMAIN tags
                   /\ Len(lines[l].decl) = width
             L == LinesRead(i, l)
             member == Member(tags)
  <1>2. /\ pc = "body" /\ i \in DOMAIN input /\ l \in DOMAIN lines
        /\ input' = input /\ at' = <<i, l + 1>>
        /\ pending' = IF lines[l].decl = <<>> THEN tags ELSE <<>>
        /\ members' = IF is THEN Append(members, member) ELSE members
    BY <1>1 DEF ReadLine, Reading, item, line, Raise, PendingAfter, Matches
  <1>3. input[i].kind \in BlockKinds
    BY <1>1, <1>2 DEF MarkInv, Marked, Blocks
  <1>4. MembersUpTo(i, l)
    BY <1>1, <1>2 DEF MembersInv
  <1>5. Len(lines) \in Nat /\ DOMAIN lines = 1 .. Len(lines)
    BY <1>2, <1>3, InputFacts
  <1>6. LineTags(lines, l) = tags /\ pending' = Latest(lines, Above(lines, l + 1))
    BY <1>2, <1>4, LineTagsStep DEF MembersUpTo
  <1>7. is <=> l \in MemberLines(i)
    <2>1. Len(lines[l].decl) = width => lines[l].decl # <<>>
      BY EmptySequence
    <2> QED
      BY <1>2, <1>6, <2>1 DEF MemberLines
  <1>8. LinesRead(i, l + 1) = IF is THEN L \cup {l} ELSE L
    BY <1>5, <1>7 DEF LinesRead, MemberLines
  <1>9. L \subseteq 1 .. l - 1
    BY <1>5 DEF LinesRead, MemberLines
  <1>10. IsSequence(members) /\ Len(members) = Cardinality(L)
    BY <1>4 DEF MembersUpTo
  <1>11. /\ IsSequence(members')
         /\ Len(members') = Cardinality(LinesRead(i, l + 1))
         /\ \A h \in LinesRead(i, l + 1) :
               IsMember(members'[Rank(LinesRead(i, l + 1), h)], i, h)
         /\ input[i].kind = "struct" => \A k \in DOMAIN members' : Typed(members'[k].type)
    <2>1. CASE ~is
      BY <1>2, <1>4, <1>8, <1>10, <2>1 DEF MembersUpTo
    <2>2. CASE is
      <3>1. members' = Append(members, member) /\ LinesRead(i, l + 1) = L \cup {l}
        BY <1>2, <1>8, <2>2
      <3>2. IsMember(member, i, l)
        BY <1>1, <1>6 DEF IsMember, Member, item, line
      <3>3. input[i].kind = "struct" => Typed(member.type)
        <4>1. input[i].kind = "struct" => member.type = lines[l].decl[2]
          BY <1>1 DEF Member, item, line
        <4>2. input[i].kind = "struct" => Len(lines[l].decl) = 2
          BY <2>2
        <4>3. input[i].kind = "struct" => Typed(input[i].lines[l].decl[2])
          BY <1>2, <1>3, <4>2, InputFacts
        <4> QED
          BY <4>1, <4>3
      <3> HIDE DEF member, L, is
      <3>4. /\ Cardinality(L \cup {l}) = Cardinality(L) + 1
            /\ Rank(L \cup {l}, l) = Cardinality(L) + 1
            /\ \A h \in L : Rank(L \cup {l}, h) = Rank(L, h)
            /\ \A h \in L : Rank(L, h) \in 1 .. Cardinality(L)
        BY <1>9, RankLast
      <3>5. \A h \in L \cup {l} : IsMember(members'[Rank(L \cup {l}, h)], i, h)
        <4>1. ASSUME NEW h \in L PROVE IsMember(members'[Rank(L \cup {l}, h)], i, h)
          <5>1. Rank(L \cup {l}, h) = Rank(L, h) /\ Rank(L, h) \in 1 .. Len(members)
            BY <1>10, <3>4
          <5>2. members'[Rank(L, h)] = members[Rank(L, h)]
            BY <1>10, <3>1, <5>1, AppendFacts
          <5> QED
            BY <1>4, <5>1, <5>2 DEF MembersUpTo, L
        <4>2. Rank(L \cup {l}, l) = Len(members) + 1
          BY <1>10, <3>4
        <4>3. members'[Len(members) + 1] = member
          BY <1>10, <3>1, AppendFacts
        <4> QED
          BY <3>2, <4>1, <4>2, <4>3
      <3>6. input[i].kind = "struct" => \A k \in DOMAIN members' : Typed(members'[k].type)
        BY <1>4, <1>10, <3>1, <3>3, AppendFacts DEF MembersUpTo
      <3> QED
        BY <1>10, <3>1, <3>4, <3>5, <3>6, AppendFacts
    <2> QED
      BY <2>1, <2>2
  <1>12. /\ at'[1] = i /\ at'[2] = l + 1
         /\ LinesRead(i, l + 1)' = LinesRead(i, l + 1)
         /\ Above(input[i].lines, l + 1)' = Above(lines, l + 1)
    BY <1>2, SameInput DEF LinesRead, Above
  <1>13. \A m, h : IsMember(m, i, h)' <=> IsMember(m, i, h)
    BY <1>2, SameInput
  <1>14. MembersUpTo(i, l + 1)'
    <2>1. \A h \in LinesRead(i, l + 1) :
             IsMember(members[Rank(LinesRead(i, l + 1), h)], i, h)'
      BY <1>11, <1>12, <1>13 DEF Rank
    <2>2. IsSequence(members)' /\ Len(members)' = Cardinality(LinesRead(i, l + 1))'
      BY <1>11, <1>12 DEF IsSequence
    <2>3. l + 1 <= Len(input'[i].lines) + 1
      BY <1>2, <1>5
    <2>4. pending' = Latest(input'[i].lines, Above(input'[i].lines, l + 1))
      BY <1>2, <1>6
    <2>5. \A h \in LinesRead(i, l + 1)' :
             IsMember(members[Rank(LinesRead(i, l + 1), h)], i, h)'
      BY <1>12, <2>1
    <2>6. (input[i].kind = "struct" => \A k \in DOMAIN members : Typed(members[k].type))'
      BY <1>2, <1>11 DEF Typed
    <2> QED
      BY <2>2, <2>3, <2>4, <2>5, <2>6 DEF MembersUpTo
  <1> QED
    BY <1>12, <1>14 DEF MembersInv

LEMMA MembersStep == WhereInv /\ MarkInv /\ MembersInv /\ Next => MembersInv'
  <1> SUFFICES ASSUME WhereInv, MarkInv, MembersInv, Next PROVE MembersInv'
    OBVIOUS
  <1>1. CASE ReadText \/ EndFile \/ SkipBlock \/ CloseBlock
    <2>1. pc' = "text" /\ at' = <<at[1] + 1, 1>>
      BY <1>1 DEF ReadText, EndFile, SkipBlock, CloseBlock, Reading, NextItem
    <2> QED
      BY <2>1 DEF MembersInv
  <1>2. CASE OpenBlock
    <2>1. pc' \in {"body", "raised"}
      BY <1>2 DEF OpenBlock, Raise
    <2> QED
      BY <1>2, <2>1, OpenMembers DEF MembersInv
  <1>3. CASE ReadLine
    <2>1. pc' \in {"body", "raised"}
      BY <1>3 DEF ReadLine, Raise, Reading
    <2> QED
      BY <1>3, <2>1, LineMembers DEF MembersInv
  <1>4. CASE EndOfFiles \/ ResolveField \/ NextStruct \/ Validate
    <2>1. pc' \in {"resolve", "done", "raised"}
      BY <1>4 DEF EndOfFiles, ResolveField, NextStruct, Validate
    <2> QED
      BY <2>1 DEF MembersInv
  <1> QED
    BY <1>1, <1>2, <1>3, <1>4 DEF Next

LEMMA InitKept == Init => KeptInv /\ StructsInv
  <1> SUFFICES ASSUME Init PROVE KeptInv /\ StructsInv
    OBVIOUS
  <1>1. structs = <<>> /\ enums = <<>> /\ pc = "text" /\ at[1] = 1
    BY DEF Init
  <1>2. Marked \subseteq 1 .. Len(input) /\ Len(input) \in Nat
    BY InitWhere, InputFacts DEF Marked, Blocks
  <1>3. \A i \in Marked : ~Passed(i)
    BY <1>1, <1>2 DEF Passed, StillReading
  <1>4. ASSUME NEW kind \in BlockKinds
        PROVE  /\ Firsts(kind) = {} /\ KeptOf(kind) = <<>>
               /\ {j \in Marked : input[j].kind = kind /\ Passed(j)} = {}
    BY <1>1, <1>3 DEF Firsts, FirstOfName, KeptOf
  <1>5. KeptInv
    BY <1>4, EmptySequence, FS_EmptySet DEF KeptInv
  <1>6. StructsInv
    BY <1>1, EmptySequence DEF StructsInv
  <1> QED
    BY <1>5, <1>6

\* The blocks passed stay the same unless a marked one is closed.
LEMMA SameKept ==
    ASSUME KeptInv, StructsInv, Live, input' = input, structs' = structs, enums' = enums,
           \A j \in Marked : Passed(j)' <=> Passed(j)
    PROVE  KeptInv' /\ StructsInv'
  <1>1. ASSUME NEW kind
        PROVE  /\ KeptOf(kind)' = KeptOf(kind)
               /\ Firsts(kind)' = Firsts(kind)
               /\ {j \in Marked' : input'[j].kind = kind /\ Passed(j)'} =
                     {j \in Marked : input[j].kind = kind /\ Passed(j)}
    <2>1. Marked' = Marked /\ FirstOfName(kind)' = FirstOfName(kind)
      BY SameInput
    <2>2. FirstOfName(kind) \subseteq Marked
      BY DEF FirstOfName
    <2> QED
      BY <2>1, <2>2 DEF KeptOf, Firsts
  <1>2. \A b, i : IsBlock(b, i)' <=> IsBlock(b, i)
    BY SameInput
  <1>3. ASSUME NEW kind \in BlockKinds
        PROVE  (/\ IsSequence(KeptOf(kind))
                /\ Len(KeptOf(kind)) = Cardinality(Firsts(kind))
                /\ \A i \in Firsts(kind) : IsBlock(KeptOf(kind)[Rank(Firsts(kind), i)], i)
                /\ {b.name : b \in Range(KeptOf(kind))} =
                      {input[i].name : i \in {j \in Marked : input[j].kind = kind /\ Passed(j)}})'
    <2>1. \A i \in Firsts(kind) : IsBlock(KeptOf(kind)[Rank(Firsts(kind), i)], i)'
      BY <1>2, <1>1 DEF KeptInv, Rank
    <2>2. IsSequence(KeptOf(kind))' /\ Len(KeptOf(kind))' = Cardinality(Firsts(kind))'
      BY <1>1, <1>3 DEF KeptInv, IsSequence
    <2>3. {b.name : b \in Range(KeptOf(kind)')} =
             {input[i].name : i \in {j \in Marked : input[j].kind = kind /\ Passed(j)}}
      BY <1>1, <1>3 DEF KeptInv
    <2>4. {input'[i].name : i \in {j \in Marked' : input'[j].kind = kind /\ Passed(j)'}} =
             {input[i].name : i \in {j \in Marked : input[j].kind = kind /\ Passed(j)}}
      BY <1>1
    <2>5. \A i \in Firsts(kind)' : IsBlock(KeptOf(kind)[Rank(Firsts(kind), i)], i)'
      BY <1>1, <2>1
    <2> QED
      BY <2>2, <2>3, <2>4, <2>5
  <1>4. KeptInv'
    BY <1>3 DEF KeptInv, BlockKinds
  <1>5. StructsInv'
    BY DEF StructsInv, FieldsOf, IsSequence, Typed
  <1> QED
    BY <1>4, <1>5

\* A closed block is kept unless one of its name was closed before.
LEMMA CloseKept ==
    ASSUME WhereInv, MarkInv, MembersInv, KeptInv, StructsInv, CloseBlock
    PROVE  KeptInv' /\ StructsInv'
  <1>1. PICK i \in Nat \ {0}, l \in Nat \ {0} : at = <<i, l>>
    BY DEF WhereInv
  <1>0. PICK kind : kind = input[i].kind
    OBVIOUS
  <1> DEFINE block == [name |-> input[i].name, tags |-> mark[1], members |-> members]
             F == Firsts(kind)
             kept == KeptOf(kind)
             double == \E b \in Range(kept) : b.name = input[i].name
  <1>2. /\ pc = "body" /\ i \in DOMAIN input /\ l \notin DOMAIN input[i].lines
        /\ pc' = "text" /\ at'[1] = i + 1 /\ input' = input
        /\ IF kind = "struct"
           THEN structs' = AddIfUnique(structs, block) /\ enums' = enums
           ELSE enums' = AddIfUnique(enums, block) /\ structs' = structs
    BY <1>0, <1>1 DEF CloseBlock, Reading, item, NextItem
  <1>3. i \in Marked /\ kind \in BlockKinds /\ mark[1] = BlockTags(i)
    BY <1>0, <1>1, <1>2 DEF MarkInv, Marked, Blocks
  <1>4. IsBlock(block, i)
    <2>1. Len(input[i].lines) \in Nat /\ DOMAIN input[i].lines = 1 .. Len(input[i].lines)
      BY <1>0, <1>2, <1>3, InputFacts
    <2>2. MembersUpTo(i, l)
      BY <1>0, <1>1, <1>2 DEF MembersInv
    <2>3. LinesRead(i, l) = MemberLines(i)
      BY <1>0, <1>2, <2>1, <2>2 DEF MembersUpTo, LinesRead, MemberLines
    <2> QED
      BY <1>0, <1>3, <2>2, <2>3 DEF IsBlock, MembersUpTo
  <1>5. /\ IsSequence(kept) /\ Len(kept) = Cardinality(F)
        /\ \A j \in F : IsBlock(kept[Rank(F, j)], j)
        /\ {b.name : b \in Range(kept)} =
              {input[h].name : h \in {j \in Marked : input[j].kind = kind /\ j < i}}
    BY <1>0, <1>1, <1>2, <1>3 DEF KeptInv, Live, Passed, StillReading
  <1>6. Marked \subseteq 1 .. Len(input)
    BY InputFacts DEF Marked, Blocks
  <1>7. \A j \in Marked : /\ Passed(j) <=> j < i
                          /\ Passed(j)' <=> j < i \/ j = i
    BY <1>0, <1>1, <1>2, <1>6 DEF Passed, StillReading
  <1>8. double <=> i \notin FirstOfName(kind)
    <2>1. double <=> input[i].name \in {b.name : b \in Range(kept)}
      OBVIOUS
    <2>2. double <=> \E j \in Marked : j < i /\ input[j].kind = kind
                                       /\ input[j].name = input[i].name
      BY <1>0, <1>5, <2>1
    <2> QED
      BY <1>0, <1>3, <2>2 DEF FirstOfName
  <1>9. F \subseteq 1 .. i - 1
    <2>1. F \subseteq Marked /\ \A j \in F : Passed(j)
      BY DEF Firsts, FirstOfName
    <2>2. \A j \in F : j < i /\ j \in 1 .. Len(input)
      BY <1>6, <1>7, <2>1
    <2> QED
      BY <2>2
  <1>10. /\ Marked' = Marked /\ FirstOfName(kind)' = FirstOfName(kind)
         /\ \A k : FirstOfName(k)' = FirstOfName(k)
         /\ \A b, j : IsBlock(b, j)' <=> IsBlock(b, j)
    BY <1>0, <1>2, SameInput
  <1>11. Firsts(kind)' = IF double THEN F ELSE F \cup {i}
    <2>1. Firsts(kind)' = {j \in FirstOfName(kind) : Passed(j)'}
      BY <1>0, <1>2, <1>10 DEF Firsts
    <2> QED
      BY <1>0, <1>3, <1>7, <1>8, <2>1 DEF Firsts, FirstOfName
  <1>12. KeptOf(kind)' = IF double THEN kept ELSE Append(kept, block)
    BY <1>0, <1>2, <1>3 DEF KeptOf, AddIfUnique, BlockKinds
  <1>13. {input[h].name : h \in {j \in Marked : input[j].kind = kind /\ Passed(j)'}} =
           {b.name : b \in Range(kept)} \cup {input[i].name}
    <2>1. {j \in Marked : input[j].kind = kind /\ Passed(j)'} =
            {j \in Marked : input[j].kind = kind /\ j < i} \cup {i}
      BY <1>0, <1>3, <1>7
    <2> QED
      BY <1>0, <1>5, <2>1
  <1>14. /\ IsSequence(KeptOf(kind)')
         /\ Len(KeptOf(kind)') = Cardinality(Firsts(kind)')
         /\ \A j \in Firsts(kind)' : IsBlock(KeptOf(kind)'[Rank(Firsts(kind)', j)], j)
         /\ {b.name : b \in Range(KeptOf(kind)')} = {b.name : b \in Range(kept)} \cup {input[i].name}
    <2>1. CASE double
      BY <1>0, <1>5, <1>11, <1>12, <2>1
    <2>2. CASE ~double
      <3>1. KeptOf(kind)' = Append(kept, block) /\ Firsts(kind)' = F \cup {i}
        BY <1>11, <1>12, <2>2
      <3>2. block.name = input[i].name
        OBVIOUS
      <3> HIDE DEF block, kept, F, double
      <3>3. /\ Cardinality(F \cup {i}) = Cardinality(F) + 1
            /\ Rank(F \cup {i}, i) = Cardinality(F) + 1
            /\ \A j \in F : Rank(F \cup {i}, j) = Rank(F, j)
            /\ \A j \in F : Rank(F, j) \in 1 .. Cardinality(F)
        BY <1>9, RankLast
      <3>4. ASSUME NEW j \in F PROVE IsBlock(Append(kept, block)[Rank(F \cup {i}, j)], j)
        <4>1. Append(kept, block)[Rank(F, j)] = kept[Rank(F, j)]
          BY <1>0, <1>5, <3>3, AppendFacts
        <4> QED
          BY <1>0, <1>5, <3>3, <4>1
      <3>5. IsBlock(Append(kept, block)[Rank(F \cup {i}, i)], i)
        BY <1>0, <1>4, <1>5, <3>3, AppendFacts
      <3>6. {b.name : b \in Range(kept) \cup {block}} =
              {b.name : b \in Range(kept)} \cup {input[i].name}
        BY <3>2
      <3> QED
        <4>1. /\ IsSequence(Append(kept, block)) /\ Len(Append(kept, block)) = Len(kept) + 1
              /\ Range(Append(kept, block)) = Range(kept) \cup {block}
          BY <1>0, <1>5, AppendFacts
        <4>2. \A j \in F \cup {i} : IsBlock(Append(kept, block)[Rank(F \cup {i}, j)], j)
          BY <3>4, <3>5
        <4> QED
          BY <1>0, <1>5, <3>1, <3>3, <3>6, <4>1, <4>2
    <2> QED
      BY <2>1, <2>2
  <1>15. ASSUME NEW k \in BlockKinds, k # kind
         PROVE  /\ KeptOf(k)' = KeptOf(k) /\ Firsts(k)' = Firsts(k)
                /\ {j \in Marked : input[j].kind = k /\ Passed(j)'} =
                      {j \in Marked : input[j].kind = k /\ Passed(j)}
    <2>1. KeptOf(k)' = KeptOf(k)
      BY <1>0, <1>2, <1>3, <1>15 DEF KeptOf, BlockKinds
    <2>2. {j \in FirstOfName(k) : Passed(j)'} = {j \in FirstOfName(k) : Passed(j)}
      <3>1. \A j \in FirstOfName(k) : j \in Marked /\ j # i
        BY <1>0, <1>15 DEF FirstOfName
      <3> QED
        BY <1>7, <3>1
    <2>3. {j \in Marked : input[j].kind = k /\ Passed(j)'} =
             {j \in Marked : input[j].kind = k /\ Passed(j)}
      BY <1>0, <1>7, <1>15
    <2> QED
      BY <1>10, <2>1, <2>2, <2>3 DEF Firsts
  <1> HIDE DEF block, kept, F, double
  <1>16. ASSUME NEW k \in BlockKinds
         PROVE  (/\ IsSequence(KeptOf(k))
                 /\ Len(KeptOf(k)) = Cardinality(Firsts(k))
                 /\ \A j \in Firsts(k) : IsBlock(KeptOf(k)[Rank(Firsts(k), j)], j)
                 /\ {b.name : b \in Range(KeptOf(k))} =
                       {input[h].name : h \in {j \in Marked : input[j].kind = k /\ Passed(j)}})'
    <2>1. CASE k = kind
      <3>1. IsSequence(KeptOf(k))' /\ Len(KeptOf(k))' = Cardinality(Firsts(k))'
        BY <1>14, <2>1 DEF IsSequence
      <3>2. \A j \in Firsts(k)' : IsBlock(KeptOf(k)[Rank(Firsts(k), j)], j)'
        BY <1>10, <1>14, <2>1
      <3>3. {input'[h].name : h \in {j \in Marked' : input'[j].kind = k /\ Passed(j)'}} =
               {input[h].name : h \in {j \in Marked : input[j].kind = kind /\ Passed(j)'}}
        BY <1>0, <1>2, <1>10, <2>1
      <3>4. {b.name : b \in Range(KeptOf(k)')} = {b.name : b \in Range(kept)} \cup {input[i].name}
        BY <1>14, <2>1
      <3> QED
        BY <1>0, <1>13, <3>1, <3>2, <3>3, <3>4
    <2>2. CASE k # kind
      <3> DEFINE passed == {j \in Marked : input[j].kind = k /\ Passed(j)}
      <3>1. /\ KeptOf(k)' = KeptOf(k) /\ Firsts(k)' = Firsts(k)
            /\ {j \in Marked : input[j].kind = k /\ Passed(j)'} = passed
        BY <1>15, <2>2
      <3>2. /\ IsSequence(KeptOf(k)) /\ Len(KeptOf(k)) = Cardinality(Firsts(k))
            /\ \A j \in Firsts(k) : IsBlock(KeptOf(k)[Rank(Firsts(k), j)], j)
            /\ {b.name : b \in Range(KeptOf(k))} = {input[h].name : h \in passed}
        BY <1>2 DEF KeptInv, Live
      <3>3. IsSequence(KeptOf(k))' /\ Len(KeptOf(k))' = Cardinality(Firsts(k))'
        BY <3>1, <3>2 DEF IsSequence
      <3>4. \A j \in Firsts(k) : IsBlock(KeptOf(k)[Rank(Firsts(k), j)], j)'
        BY <1>10, <3>1, <3>2 DEF Rank
      <3>5. {input'[h].name : h \in {j \in Marked' : input'[j].kind = k /\ Passed(j)'}} =
               {input[h].name : h \in passed}
        BY <1>0, <1>2, <1>10, <3>1
      <3>6. {b.name : b \in Range(KeptOf(k)')} = {input[h].name : h \in passed}
        BY <3>1, <3>2
      <3> QED
        BY <3>1, <3>3, <3>4, <3>5, <3>6
    <2> QED
      BY <2>1, <2>2
  <1>17. KeptInv'
    BY <1>16 DEF KeptInv, BlockKinds
  <1>18. StructsInv'
    <2>1. CASE structs' = structs
      BY <1>0, <1>2, <2>1 DEF StructsInv, Live, FieldsOf, IsSequence, Typed
    <2>2. CASE structs' # structs
      <3>1. structs' = Append(structs, block) /\ kind = "struct"
        BY <1>0, <1>2, <2>2 DEF AddIfUnique
      <3>2. IsSequence(structs)
        BY <1>2 DEF KeptInv, KeptOf, Live, BlockKinds
      <3>3. IsSequence(members) /\ \A k \in DOMAIN members : Typed(members[k].type)
        BY <1>0, <1>1, <1>2, <3>1 DEF MembersInv, MembersUpTo
      <3>4. block.members = members
        BY DEF block
      <3>5. ASSUME NEW s \in DOMAIN structs'
            PROVE  /\ IsSequence(structs'[s].members)
                   /\ \A f \in DOMAIN structs'[s].members : Typed(structs'[s].members[f].type)
        <4>1. CASE s \in DOMAIN structs
          <5>1. structs'[s] = structs[s]
            BY <3>1, <3>2, <4>1, AppendFacts
          <5> QED
            BY <1>0, <1>2, <4>1, <5>1 DEF StructsInv, Live, FieldsOf
        <4>2. CASE s \notin DOMAIN structs
          <5>1. structs'[s] = block
            BY <3>1, <3>2, <3>5, <4>2, AppendFacts
          <5> QED
            BY <3>3, <3>4, <5>1
        <4> QED
          BY <4>1, <4>2
      <3> QED
        BY <3>5 DEF StructsInv, FieldsOf, IsSequence, Typed
    <2> QED
      BY <2>1, <2>2
  <1> QED
    BY <1>17, <1>18

LEMMA KeptStep ==
    WhereInv /\ MarkInv /\ MembersInv /\ KeptInv /\ StructsInv /\ Next => KeptInv' /\ StructsInv'
  <1> SUFFICES ASSUME WhereInv, MarkInv, MembersInv, KeptInv, StructsInv, Next, Live'
               PROVE  KeptInv' /\ StructsInv'
    BY DEF KeptInv, StructsInv
  <1>1. Marked \subseteq 1 .. Len(input) /\ DOMAIN input = 1 .. Len(input) /\ Len(input) \in Nat
    BY InputFacts DEF Marked, Blocks
  <1>2. PICK i \in Nat \ {0}, l \in Nat \ {0} : at = <<i, l>>
    BY DEF WhereInv
  <1>3. CASE ReadText \/ EndFile \/ SkipBlock
    <2>1. /\ pc = "text" /\ pc' = "text" /\ at'[1] = i + 1
          /\ input' = input /\ structs' = structs /\ enums' = enums
      BY <1>2, <1>3 DEF ReadText, EndFile, SkipBlock, Reading, NextItem, reading, tables
    <2>2. i \notin Marked
      <3>1. CASE SkipBlock
        <4>1. pc = "text" /\ mark = <<>>
          BY <3>1 DEF SkipBlock, Reading
        <4>2. MarksOf(i) = {}
          BY <1>2, <4>1 DEF MarkInv
        <4> QED
          BY <4>2 DEF Marked
      <3>2. CASE ReadText \/ EndFile
        BY <1>2, <3>2 DEF ReadText, EndFile, item, Marked, Blocks, BlockKinds
      <3> QED
        BY <1>3, <3>1, <3>2
    <2>3. \A j \in Marked : Passed(j)' <=> Passed(j)
      BY <1>1, <1>2, <2>1, <2>2 DEF Passed, StillReading
    <2> QED
      BY <2>1, <2>3, SameKept DEF Live
  <1>4. CASE OpenBlock \/ ReadLine
    <2>1. /\ pc \in {"text", "body"} /\ pc' = "body" /\ at'[1] = at[1]
          /\ input' = input /\ structs' = structs /\ enums' = enums
      BY <1>2, <1>4 DEF OpenBlock, ReadLine, Reading, Raise, Live, tables
    <2>2. \A j \in Marked : Passed(j)' <=> Passed(j)
      BY <2>1 DEF Passed, StillReading
    <2> QED
      BY <2>1, <2>2, SameKept DEF Live
  <1>5. CASE CloseBlock
    BY <1>5, CloseKept
  <1>6. CASE EndOfFiles
    <2>1. /\ pc = "text" /\ pc' = "resolve" /\ i \notin DOMAIN input
          /\ input' = input /\ structs' = structs /\ enums' = enums
      BY <1>2, <1>6 DEF EndOfFiles, tables
    <2>2. i = Len(input) + 1
      BY <1>1, <1>2, <2>1 DEF WhereInv, StillReading
    <2>3. \A j \in Marked : Passed(j)' <=> Passed(j)
      BY <1>1, <1>2, <2>1, <2>2 DEF Passed, StillReading
    <2> QED
      BY <2>1, <2>3, SameKept DEF Live
  <1>7. CASE ResolveField \/ NextStruct \/ Validate
    <2>1. /\ pc = "resolve" /\ pc' \in {"resolve", "done"}
          /\ input' = input /\ structs' = structs /\ enums' = enums
      BY <1>7 DEF ResolveField, NextStruct, Validate, tables, Live
    <2>2. \A j \in Marked : Passed(j)' <=> Passed(j)
      BY <2>1 DEF Passed, StillReading
    <2> QED
      BY <2>1, <2>2, SameKept DEF Live
  <1> QED
    BY <1>3, <1>4, <1>5, <1>6, <1>7 DEF Next

-----------------------------------------------------------------------------
(* The type table                                                          *)

Before(O, i) == O \in SUBSET Int /\ i \in Int /\ \A j \in O : j < i

\* The last declaration's enumerator counts.
LEMMA DeclareOne ==
    ASSUME NEW O, NEW i, Before(O, i),
           NEW P, P = O \cup {i}, NEW b, b = input[i].name, NEW m, m = Plain(b)
    PROVE  /\ DeclaredBy(P) = DeclaredBy(O) \cup {m}
           /\ Value(P, m) = Enumerator(input[i].kind, b, BlockTags(i))
           /\ \A n : n # m => Value(P, n) = Value(O, n)
  <1>1. DeclaredBy(P) = DeclaredBy(O) \cup {m}
    BY DEF DeclaredBy
  <1>2. LastIn(P, b) = i
    <2> DEFINE S == {j \in P : input[j].name = b}
    <2>1. S \in SUBSET Int /\ i \in S /\ \A k \in S : k <= i
      <3>1. S \subseteq P /\ i \in S
        OBVIOUS
      <3>2. \A k \in P : k \in Int /\ k <= i
        BY DEF Before
      <3> HIDE DEF S
      <3> QED
        BY <3>1, <3>2
    <2>2. Max(S) = i
      BY <2>1, MaxIs
    <2> QED
      BY <2>2 DEF LastIn
  <1>3. ASSUME NEW c, c # b PROVE LastIn(P, c) = LastIn(O, c)
    <2>1. {j \in P : input[j].name = c} = {j \in O : input[j].name = c}
      BY <1>3
    <2> QED
      BY <2>1 DEF LastIn
  <1>4. Value(P, m) = Enumerator(input[i].kind, b, BlockTags(i))
    <2>1. m.base = b /\ m \in DeclaredBy(P)
      BY <1>1 DEF Plain, Pointer
    <2> QED
      BY <1>2, <2>1 DEF Value
  <1>5. ASSUME NEW n, n # m, n \in DeclaredBy(O)
        PROVE  Value(P, n) = Value(O, n)
    <2>1. PICK c : n = Plain(c)
      BY <1>5 DEF DeclaredBy
    <2>2. n.base = c /\ c # b
      BY <1>5, <2>1 DEF Plain, Pointer
    <2>3. n \in DeclaredBy(P) /\ LastIn(P, n.base) = LastIn(O, n.base)
      BY <1>1, <1>3, <1>5, <2>2
    <2> QED
      BY <1>1, <1>5, <2>3 DEF Value
  <1>6. ASSUME NEW n, n # m, n \notin DeclaredBy(O)
        PROVE  Value(P, n) = Value(O, n)
    BY <1>1, <1>6 DEF Value
  <1> QED
    BY <1>1, <1>4, <1>5, <1>6

\* No type of a field has the unknown type's enumerator.
LEMMA ValueIsKnown ==
    ASSUME NEW O, NEW n, Typed(n)
    PROVE  Value(O, n) # UNKNOWN
  <1>1. n \in TypeName /\ n.base \in Bases \ {"unknown"}
    BY DEF Typed, TypeName
  <1>2. UNKNOWN = <<"TYPE", Upper["unknown"], 0, FALSE>>
    BY DEF UNKNOWN, Default, Plain, Pointer
  <1>3. Default(n) # UNKNOWN
    <2>1. Default(n)[2] = Upper[n.base]
      BY DEF Default
    <2>2. UNKNOWN[2] = Upper["unknown"]
      BY <1>2
    <2> QED
      BY <1>1, <2>1, <2>2, InputsAssumption DEF InputsAssumption
  <1>4. ASSUME NEW kind, NEW name, NEW tags PROVE Enumerator(kind, name, tags) # UNKNOWN
    <2>1. Len(UNKNOWN) = 4
      BY <1>2
    <2>2. Len(Enumerator(kind, name, tags)) \in {1, 2}
      BY DEF Enumerator
    <2> QED
      BY <2>1, <2>2
  <1> QED
    BY <1>3, <1>4 DEF Value

\* The enumerator a type has and the types it is made of
LEMMA PartsAreParents ==
    ASSUME NEW n, Typed(n)
    PROVE  {n} \cup Parents(n) = {n} \cup (Parts(n) \ {Plain("void")})
  <1>1. PICK b \in Bases, s \in Nat, a \in BOOLEAN : n = [base |-> b, stars |-> s, arr |-> a]
    BY DEF Typed, TypeName
  <1>2. n.base = b /\ n.stars = s /\ n.arr = a
    BY <1>1
  <1>5. Parts(n) = {Pointer(b, k) : k \in 0 .. s}
    BY <1>2 DEF Parts
  <1>6. Parents(n) = {Pointer(b, k) : k \in IF a THEN 0 .. s ELSE 0 .. s - 1} \ {Plain("void")}
    BY <1>2 DEF Parents
  <1>7. CASE a = TRUE
    BY <1>5, <1>6, <1>7
  <1>8. CASE a = FALSE
    <2>1. n = Pointer(b, s)
      BY <1>1, <1>8 DEF Pointer
    <2>2. 0 .. s = (0 .. s - 1) \cup {s}
      OBVIOUS
    <2>3. Parts(n) = {Pointer(b, k) : k \in 0 .. s - 1} \cup {n}
      BY <1>5, <2>1, <2>2
    <2>4. Parents(n) = {Pointer(b, k) : k \in 0 .. s - 1} \ {Plain("void")}
      BY <1>6, <1>8
    <2> QED
      BY <2>3, <2>4
  <1> QED
    BY <1>7, <1>8

LEMMA InitTable == Init => TableInv
  <1> SUFFICES ASSUME Init PROVE TableInv
    OBVIOUS
  <1>1. /\ pc = "text" /\ at[1] = 1 /\ type_enum = <<>>
        /\ type_map = [n \in {Plain("unknown")} |-> UNKNOWN]
    BY DEF Init
  <1>2. Opened = {}
    <2>1. Marked \subseteq 1 .. Len(input) /\ Len(input) \in Nat
      BY InitWhere, InputFacts DEF Marked, Blocks
    <2> QED
      <3>1. \A i \in Marked : ~ (i < at[1])
        BY <1>1, <2>1
      <3> QED
        BY <1>1, <3>1 DEF Opened, Passed, StillReading
  <1>3. Resolved = {} /\ ResolvedTypes = {}
    BY <1>1 DEF Resolved, StillReading, ResolvedTypes
  <1>4. DeclaredBy({}) = {} /\ Made({}) = {}
    BY DEF DeclaredBy, Made
  <1>5. Value({}, Plain("unknown")) = UNKNOWN
    BY <1>4 DEF Value, UNKNOWN
  <1>6. type_map = [n \in {Plain("unknown")} \cup DeclaredBy(Opened) \cup Made(ResolvedTypes) |->
                       Value(Opened, n)]
    BY <1>1, <1>2, <1>3, <1>4, <1>5
  <1> QED
    BY <1>1, <1>3, <1>6, EmptySequence DEF TableInv

\* Steps that enter nothing in the table
LEMMA SameTable ==
    ASSUME Live, TableInv, input' = input, type_map' = type_map, type_enum' = type_enum,
           Opened' = Opened, Resolved' = Resolved,
           \A sf \in Resolved : structs' = structs,
           pc' = "done" => at'[1] > Len(structs')
    PROVE  TableInv'
  <1>1. /\ \A n : Value(Opened, n)' = Value(Opened, n)
        /\ DeclaredBy(Opened)' = DeclaredBy(Opened)
    <2>1. PICK O : O = Opened
      OBVIOUS
    <2>2. \A n : Value(O, n)' = Value(O, n)
      BY SameInput
    <2>3. DeclaredBy(O)' = DeclaredBy(O)
      BY SameInput
    <2> QED
      BY <2>1, <2>2, <2>3
  <1>2. \A sf \in Resolved : TypeOf(sf)' = TypeOf(sf)
                             /\ (HasLength(sf[1], sf[2])' <=> HasLength(sf[1], sf[2]))
    BY DEF TypeOf, HasLength, FieldsOf
  <1>3. ResolvedTypes' = ResolvedTypes
    BY <1>2 DEF ResolvedTypes
  <1>4. Made(ResolvedTypes)' = Made(ResolvedTypes)
    BY <1>3 DEF Made, Parts
  <1> QED
    BY <1>1, <1>2, <1>4 DEF TableInv

\* A block is opened: its type has a new enumerator.
LEMMA OpenTable ==
    ASSUME WhereInv, MarkInv, TableInv, OpenBlock, pc' = "body"
    PROVE  TableInv'
  <1>1. PICK i \in Nat \ {0}, l \in Nat \ {0} : at = <<i, l>>
    BY DEF WhereInv
  <1>2. PICK O : O = Opened
    OBVIOUS
  <1>3. PICK b, m, e, P : /\ b = input[i].name /\ m = Plain(b)
                          /\ e = Enumerator(input[i].kind, b, BlockTags(i))
                          /\ P = O \cup {i}
    OBVIOUS
  <1>4. /\ pc = "text" /\ i \in DOMAIN input /\ input[i].kind \in BlockKinds /\ mark # <<>>
        /\ at' = at /\ input' = input /\ structs' = structs /\ type_enum' = type_enum
        /\ type_map' = Entered(type_map, m, Enumerator(input[i].kind, b, mark[1]))
    BY <1>1, <1>3 DEF OpenBlock, Reading, item, Raise, Declared
  <1>5. MarksOf(i) # {} /\ mark[1] = BlockTags(i) /\ i \in Marked
    BY <1>1, <1>4 DEF MarkInv, Marked, Blocks
  <1>6. Marked \subseteq 1 .. Len(input) /\ Len(input) \in Nat
    BY InputFacts DEF Marked, Blocks
  <1>7. O \in SUBSET Int /\ \A j \in O : j < i
    <2>1. O = {j \in Marked : j < i}
      BY <1>1, <1>2, <1>4 DEF Opened, Passed, StillReading
    <2>2. \A j \in Marked : j \in Int
      BY <1>6
    <2> QED
      BY <2>1, <2>2
  <1>8. Opened' = P
    <2>1. Marked' = Marked
      BY <1>4, SameInput
    <2> QED
      BY <1>1, <1>3, <1>2, <1>4, <1>5, <1>6, <2>1 DEF Opened, Passed, StillReading
  <1>9. Resolved = {} /\ ResolvedTypes = {} /\ Resolved' = {} /\ ResolvedTypes' = {}
    BY <1>4 DEF Resolved, StillReading, ResolvedTypes
  <1>10. DOMAIN type_enum = {}
         /\ type_map = [n \in {Plain("unknown")} \cup DeclaredBy(O) \cup Made({}) |-> Value(O, n)]
    BY <1>2, <1>4, <1>9 DEF TableInv, Live
  <1>11. /\ DeclaredBy(P) = DeclaredBy(O) \cup {m}
         /\ \A n : Value(P, n) = IF n = m THEN e ELSE Value(O, n)
    <2>1. Before(O, i)
      BY <1>1, <1>7 DEF Before
    <2>2. DeclaredBy(P) = DeclaredBy(O) \cup {m}
      BY <1>3, <2>1, DeclareOne
    <2>3. Value(P, m) = Enumerator(input[i].kind, b, BlockTags(i))
      BY <1>3, <2>1, DeclareOne
    <2>4. \A n : n # m => Value(P, n) = Value(O, n)
      BY <1>3, <2>1, DeclareOne
    <2> QED
      BY <1>3, <2>2, <2>3, <2>4
  <1>12. type_map' = [n \in {Plain("unknown")} \cup DeclaredBy(P) \cup Made({}) |->
                         Value(P, n)]
    <2>1. type_map' = Entered(type_map, m, e)
      BY <1>3, <1>4, <1>5
    <2> QED
      BY <1>10, <1>11, <2>1 DEF Entered
  <1>13. /\ DeclaredBy(P)' = DeclaredBy(P)
         /\ \A n : Value(P, n)' = Value(P, n)
    BY <1>4, SameInput
  <1>14. /\ DeclaredBy(Opened)' = DeclaredBy(P)
         /\ \A n : Value(Opened, n)' = Value(P, n)
    BY <1>8, <1>13
  <1>15. Made(ResolvedTypes)' = Made({})
    BY <1>9 DEF Made
  <1> QED
    BY <1>4, <1>9, <1>10, <1>12, <1>14, <1>15 DEF TableInv

\* A field is resolved: it gets its type's enumerator, and the types that one
\* is made of enter the table.
LEMMA FieldTable ==
    ASSUME WhereInv, StructsInv, TableInv, ResolveField, pc' = "resolve"
    PROVE  TableInv'
  <1>1. PICK s \in Nat \ {0}, f \in Nat \ {0} : at = <<s, f>>
    BY DEF WhereInv
  <1>2. PICK n : n = FieldsOf(s)[f].type
    OBVIOUS
  <1>3. PICK O : O = Opened
    OBVIOUS
  <1>4. PICK RT : RT = ResolvedTypes
    OBVIOUS
  <1>5. PICK D : D = {Plain("unknown")} \cup DeclaredBy(O) \cup Made(RT)
    OBVIOUS
  <1>6. PICK own : own = IF Known(n) THEN type_map ELSE Entered(type_map, n, Default(n))
    OBVIOUS
  <1>7. /\ pc = "resolve" /\ s \in DOMAIN structs /\ f \in DOMAIN FieldsOf(s)
        /\ at' = <<s, f + 1>> /\ input' = input /\ structs' = structs
        /\ type_enum' = Entered(type_enum, <<s, f>>, FieldEnum(n))
        /\ type_map' = Merge([m \in Parents(n) |-> Default(m)], own)
        /\ HasLength(s, f)
    BY <1>1, <1>2, <1>6 DEF ResolveField
  <1>8. Typed(n)
    BY <1>2, <1>7 DEF StructsInv, Live
  <1>9. /\ type_map = [m \in D |-> Value(O, m)]
        /\ DOMAIN type_enum = Resolved
        /\ \A sf \in Resolved : type_enum[sf] = Value(O, TypeOf(sf)) /\ HasLength(sf[1], sf[2])
    BY <1>3, <1>4, <1>5, <1>7 DEF TableInv, Live
  <1>10. Value(O, n) # UNKNOWN
    BY <1>8, ValueIsKnown
  <1>11. \A m : m \notin D => Value(O, m) = Default(m)
    BY <1>5 DEF Value
  <1>12. FieldEnum(n) = Value(O, n) /\ own = [m \in D \cup {n} |-> Value(O, m)]
    <2>1. CASE n \in D
      <3>1. Known(n)
        BY <1>9, <1>10, <2>1 DEF Known
      <3>2. D \cup {n} = D
        BY <2>1
      <3> QED
        BY <1>6, <1>9, <2>1, <3>1, <3>2 DEF FieldEnum
    <2>2. CASE n \notin D
      <3>1. ~Known(n)
        BY <1>9, <2>2 DEF Known
      <3>2. Value(O, n) = Default(n)
        BY <1>11, <2>2
      <3> QED
        BY <1>6, <1>9, <3>1, <3>2 DEF FieldEnum, Entered
    <2> QED
      BY <2>1, <2>2
  <1>13. type_map' = [m \in Parents(n) \cup D \cup {n} |-> Value(O, m)]
    <2>1. type_map' = [m \in Parents(n) \cup (D \cup {n}) |->
                         IF m \in D \cup {n} THEN Value(O, m) ELSE Default(m)]
      BY <1>7, <1>12 DEF Merge
    <2> QED
      BY <1>11, <2>1
  <1>14. /\ Resolved' = Resolved \cup {<<s, f>>}
         /\ \A sf : TypeOf(sf)' = TypeOf(sf)
         /\ \A sf : HasLength(sf[1], sf[2])' <=> HasLength(sf[1], sf[2])
    <2>1. \A sf : TypeOf(sf)' = TypeOf(sf)
      BY <1>7 DEF TypeOf, FieldsOf
    <2>2. \A sf : HasLength(sf[1], sf[2])' <=> HasLength(sf[1], sf[2])
      BY <1>7 DEF HasLength, FieldsOf
    <2>3. Fields' = Fields /\ <<s, f>> \in Fields
      BY <1>7 DEF Fields, FieldsOf
    <2>4. Resolved = {sf \in Fields : sf[1] < s \/ (sf[1] = s /\ sf[2] < f)}
      BY <1>1, <1>7 DEF Resolved, StillReading
    <2>5. Resolved' = {sf \in Fields : sf[1] < s \/ (sf[1] = s /\ sf[2] < f + 1)}
      BY <1>7, <2>3 DEF Resolved, StillReading
    <2>6. ASSUME NEW sf \in Fields
          PROVE  /\ sf[2] < f + 1 <=> sf[2] < f \/ sf[2] = f
                 /\ sf[1] = s /\ sf[2] = f <=> sf = <<s, f>>
      BY DEF Fields
    <2> QED
      BY <2>1, <2>2, <2>3, <2>4, <2>5, <2>6
  <1>15. ResolvedTypes' = RT \cup {n}
    <2>1. TypeOf(<<s, f>>) = n
      BY <1>2 DEF TypeOf
    <2>2. RT = {TypeOf(sf) : sf \in Resolved}
      BY <1>4 DEF ResolvedTypes
    <2>3. ResolvedTypes' = {TypeOf(sf) : sf \in Resolved \cup {<<s, f>>}}
      BY <1>14 DEF ResolvedTypes
    <2> QED
      BY <2>1, <2>2, <2>3
  <1>16. Parents(n) \cup D \cup {n} =
           {Plain("unknown")} \cup DeclaredBy(O) \cup Made(RT \cup {n})
    <2>1. Made(RT \cup {n}) = Made(RT) \cup ({n} \cup (Parts(n) \ {Plain("void")}))
      <3>1. UNION {Parts(m) : m \in RT \cup {n}} = (UNION {Parts(m) : m \in RT}) \cup Parts(n)
        BY Zenon
      <3> QED
        BY <3>1 DEF Made
    <2>2. Made(RT \cup {n}) = Made(RT) \cup ({n} \cup Parents(n))
      BY <1>8, <2>1, PartsAreParents
    <2> QED
      BY <1>5, <2>2
  <1>17. Opened' = O
    <2>1. Marked' = Marked
      BY <1>7, SameInput
    <2> QED
      BY <1>3, <1>7, <2>1 DEF Opened, Passed, StillReading
  <1>18. /\ DeclaredBy(O)' = DeclaredBy(O)
         /\ \A m : Value(O, m)' = Value(O, m)
    BY <1>7, SameInput
  <1>19. /\ DeclaredBy(Opened)' = DeclaredBy(O)
         /\ \A m : Value(Opened, m)' = Value(O, m)
         /\ Made(ResolvedTypes)' = Made(RT \cup {n})
    BY <1>15, <1>17, <1>18 DEF Made, Parts
  <1>20. DOMAIN type_enum' = Resolved'
         /\ \A sf \in Resolved' : type_enum'[sf] = Value(O, TypeOf(sf)) /\ HasLength(sf[1], sf[2])
    <2>1. TypeOf(<<s, f>>) = n
      BY <1>2 DEF TypeOf
    <2>2. DOMAIN type_enum' = Resolved'
      BY <1>7, <1>9, <1>14 DEF Entered
    <2>3. \A sf \in Resolved' : type_enum'[sf] = Value(O, TypeOf(sf))
      BY <1>7, <1>9, <1>12, <1>14, <2>1 DEF Entered
    <2>4. \A sf \in Resolved' : HasLength(sf[1], sf[2])
      BY <1>7, <1>9, <1>14
    <2> QED
      BY <2>2, <2>3, <2>4
  <1>21. type_map' = [m \in {Plain("unknown")} \cup DeclaredBy(O) \cup Made(RT \cup {n}) |->
                         Value(O, m)]
    BY <1>13, <1>16
  <1> QED
    BY <1>14, <1>19, <1>20, <1>21 DEF TableInv

LEMMA TableStep ==
    WhereInv /\ MarkInv /\ KeptInv /\ StructsInv /\ TableInv /\ Next => TableInv'
  <1> SUFFICES ASSUME WhereInv, MarkInv, KeptInv, StructsInv, TableInv, Next, Live'
               PROVE  TableInv'
    BY DEF TableInv
  <1>1. Marked \subseteq 1 .. Len(input) /\ DOMAIN input = 1 .. Len(input) /\ Len(input) \in Nat
    BY InputFacts DEF Marked, Blocks
  <1>2. PICK i \in Nat \ {0}, l \in Nat \ {0} : at = <<i, l>>
    BY DEF WhereInv
  <1>3. input' = input => Marked' = Marked
    BY SameInput
  <1>4. CASE ReadText \/ EndFile \/ SkipBlock
    <2>1. /\ pc = "text" /\ pc' = "text" /\ at'[1] = i + 1
          /\ input' = input /\ type_map' = type_map /\ type_enum' = type_enum
      BY <1>2, <1>4 DEF ReadText, EndFile, SkipBlock, Reading, NextItem, tables
    <2>2. i \notin Marked
      <3>1. CASE SkipBlock
        <4>1. pc = "text" /\ mark = <<>>
          BY <3>1 DEF SkipBlock, Reading
        <4>2. MarksOf(i) = {}
          BY <1>2, <4>1 DEF MarkInv
        <4> QED
          BY <4>2 DEF Marked
      <3>2. CASE ReadText \/ EndFile
        BY <1>2, <3>2 DEF ReadText, EndFile, item, Marked, Blocks, BlockKinds
      <3> QED
        BY <1>4, <3>1, <3>2
    <2>3. Opened' = Opened
      <3>1. \A j \in Marked : j < i + 1 <=> j < i
        BY <1>1, <2>2
      <3> QED
        BY <1>2, <1>3, <2>1, <3>1 DEF Opened, Passed, StillReading
    <2>4. Resolved = {} /\ Resolved' = {}
      BY <2>1 DEF Resolved, StillReading
    <2> QED
      BY <2>1, <2>3, <2>4, SameTable DEF Live
  <1>5. CASE OpenBlock
    <2>1. pc' = "body"
      BY <1>5 DEF OpenBlock, Raise, Live
    <2> QED
      BY <1>5, <2>1, OpenTable
  <1>6. CASE ReadLine
    <2>1. /\ pc = "body" /\ pc' = "body" /\ at'[1] = at[1]
          /\ input' = input /\ type_map' = type_map /\ type_enum' = type_enum
      BY <1>2, <1>6 DEF ReadLine, Reading, Raise, Live, tables
    <2>2. Opened' = Opened
      BY <1>3, <2>1 DEF Opened, Passed, StillReading
    <2>3. Resolved = {} /\ Resolved' = {}
      BY <2>1 DEF Resolved, StillReading
    <2> QED
      BY <2>1, <2>2, <2>3, SameTable DEF Live
  <1>7. CASE CloseBlock
    <2>1. /\ pc = "body" /\ pc' = "text" /\ at'[1] = i + 1
          /\ input' = input /\ type_map' = type_map /\ type_enum' = type_enum
      BY <1>2, <1>7 DEF CloseBlock, Reading, NextItem
    <2>2. Opened' = Opened
      <3>1. \A j \in Marked : j < i + 1 <=> j < i \/ j = i
        BY <1>1
      <3> QED
        BY <1>2, <1>3, <2>1, <3>1 DEF Opened, Passed, StillReading
    <2>3. Resolved = {} /\ Resolved' = {}
      BY <2>1 DEF Resolved, StillReading
    <2> QED
      BY <2>1, <2>2, <2>3, SameTable DEF Live
  <1>8. CASE EndOfFiles
    <2>1. /\ pc = "text" /\ pc' = "resolve" /\ i \notin DOMAIN input /\ at' = <<1, 1>>
          /\ input' = input /\ structs' = structs
          /\ type_map' = type_map /\ type_enum' = type_enum
      BY <1>2, <1>8 DEF EndOfFiles, tables
    <2>2. i = Len(input) + 1
      BY <1>1, <1>2, <2>1 DEF WhereInv, StillReading
    <2>3. Opened' = Opened
      <3>1. \A j \in Marked : j < i
        BY <1>1, <2>2
      <3> QED
        BY <1>2, <1>3, <2>1, <3>1 DEF Opened, Passed, StillReading
    <2>4. Resolved = {}
      BY <2>1 DEF Resolved, StillReading
    <2>5. Resolved' = {}
      <3>1. \A sf \in Fields' : sf[2] \in Nat \ {0} /\ sf[1] \in DOMAIN structs'
        BY DEF Fields
      <3>2. IsSequence(structs)
        BY <2>1 DEF KeptInv, KeptOf, Live, BlockKinds
      <3>3. DOMAIN structs' = 1 .. Len(structs) /\ Len(structs) \in Nat
        BY <2>1, <3>2, AppendFacts
      <3>4. \A sf \in Fields' : ~ (sf[1] < 1) /\ ~ (sf[2] < 1)
        BY <3>1, <3>3
      <3> QED
        BY <2>1, <3>4 DEF Resolved
    <2> QED
      BY <2>1, <2>3, <2>4, <2>5, SameTable DEF Live
  <1>9. CASE ResolveField
    <2>1. pc' = "resolve"
      BY <1>9 DEF ResolveField, Live
    <2> QED
      BY <1>9, <2>1, FieldTable
  <1>10. CASE NextStruct \/ Validate
    <2>1. /\ pc = "resolve" /\ pc' \in {"resolve", "done"}
          /\ input' = input /\ structs' = structs
          /\ type_map' = type_map /\ type_enum' = type_enum
      BY <1>10 DEF NextStruct, Validate, tables, Live
    <2>2. Opened' = Opened
      BY <1>3, <2>1 DEF Opened, Passed, StillReading
    <2>3. Fields' = Fields
      BY <2>1 DEF Fields, FieldsOf
    <2>4. IsSequence(structs) /\ DOMAIN structs = 1 .. Len(structs) /\ Len(structs) \in Nat
      <3>1. IsSequence(structs)
        BY <2>1 DEF KeptInv, KeptOf, Live, BlockKinds
      <3> QED
        BY <3>1, AppendFacts
    <2>5. Resolved' = Resolved
      <3>1. CASE NextStruct
        <4>1. /\ i \in DOMAIN structs /\ l \notin DOMAIN FieldsOf(i) /\ at' = <<i + 1, 1>>
              /\ pc' = "resolve"
          BY <1>2, <2>1, <3>1 DEF NextStruct
        <4>2. IsSequence(FieldsOf(i))
          BY <2>1, <4>1 DEF StructsInv, Live
        <4>3. DOMAIN FieldsOf(i) = 1 .. Len(FieldsOf(i)) /\ Len(FieldsOf(i)) \in Nat
          BY <4>2, AppendFacts
        <4>4. DOMAIN structs = 1 .. Len(structs)
          BY <2>4
        <4>5. ASSUME NEW sf \in Fields
              PROVE  sf[1] < i \/ (sf[1] = i /\ sf[2] < l)
                     <=> sf[1] < i + 1 \/ (sf[1] = i + 1 /\ sf[2] < 1)
          <5>1. sf[1] \in DOMAIN structs /\ sf[2] \in DOMAIN FieldsOf(sf[1]) /\ sf[2] \in Nat \ {0}
            BY DEF Fields
          <5>2. sf[1] \in Int
            BY <4>4, <5>1
          <5>3. sf[1] = i => sf[2] < l
            BY <4>1, <4>3, <5>1
          <5> QED
            BY <5>1, <5>2, <5>3
        <4> QED
          BY <1>2, <2>1, <2>3, <4>1, <4>5 DEF Resolved, StillReading
      <3>2. CASE Validate
        BY <2>1, <2>3, <3>2 DEF Validate, Resolved, StillReading
      <3> QED
        BY <1>10, <3>1, <3>2
    <2>6. pc' = "done" => at'[1] > Len(structs')
      BY <1>2, <1>10, <2>1, <2>4 DEF NextStruct, Validate
    <2> QED
      BY <2>1, <2>2, <2>5, <2>6, SameTable DEF Live
  <1> QED
    BY <1>4, <1>5, <1>6, <1>7, <1>8, <1>9, <1>10 DEF Next

-----------------------------------------------------------------------------
(* The invariant of the generator                                          *)

\* A step of reading and resolving
LEMMA ReadStep == ReadInv /\ Next => ReadInv'
  BY WhereStep, MarkStep, MembersStep, KeptStep, TableStep DEF ReadInv

\* Steps in which nothing is read or resolved: those of the plugins, the last
\* one, and those that end with an error
LEMMA QuietStep ==
    ASSUME ReadInv, UNCHANGED <<input, plugins, at, reading, tables>>,
           pc' = pc \/ pc' \in {"written", "raised", "crashed"}
    PROVE  ReadInv'
  <1> USE DEF ReadInv, reading, tables
  <1>1. WhereInv'
    BY DEF WhereInv, StillReading
  <1>2. MarkInv'
    BY SameInput DEF MarkInv
  <1>3. CASE pc' = pc
    <2>1. \A j : Passed(j)' <=> Passed(j)
      BY <1>3 DEF Passed, StillReading
    <2>2. MembersInv'
      <3>1. ASSUME pc' = "body" PROVE MembersUpTo(at[1], at[2])'
        <4>1. PICK i, n : i = at[1] /\ n = at[2]
          OBVIOUS
        <4>2. MembersUpTo(i, n)
          BY <1>3, <3>1, <4>1 DEF MembersInv
        <4>3. LinesRead(i, n)' = LinesRead(i, n)
          BY SameInput DEF LinesRead
        <4>4. MembersUpTo(i, n)'
          BY <4>2, <4>3, SameInput DEF MembersUpTo
        <4> QED
          BY <4>1, <4>4
      <3> QED
        BY <1>3, <3>1 DEF MembersInv
    <2>3. KeptInv' /\ StructsInv'
      BY <1>3, <2>1, SameKept DEF KeptInv, StructsInv, Live
    <2>4. TableInv'
      <3>1. Opened' = Opened
        BY <1>3, <2>1, SameInput DEF Opened
      <3>2. Resolved' = Resolved
        BY <1>3 DEF Resolved, Fields, FieldsOf, StillReading
      <3>3. Live => (pc' = "done" => at'[1] > Len(structs'))
        BY <1>3 DEF TableInv, Live
      <3> QED
        BY <1>3, <3>1, <3>2, <3>3, SameTable DEF TableInv, Live
    <2> QED
      BY <1>1, <1>2, <2>2, <2>3, <2>4
  <1>4. CASE pc' \in {"written", "raised", "crashed"}
    BY <1>1, <1>2, <1>4 DEF MembersInv, KeptInv, StructsInv, TableInv, Live
  <1> QED
    BY <1>3, <1>4

LEMMA PluginStep ==
    ASSUME EmitCode \/ MapTypes \/ HandleTags
    PROVE  /\ UNCHANGED <<input, plugins, at, reading, tables>>
           /\ pc = "done" /\ pc' \in {"done", "raised", "crashed"}
  <1>1. CASE EmitCode
    BY <1>1 DEF EmitCode, Stop, Emitting, vars
  <1>2. CASE MapTypes
    BY <1>2 DEF MapTypes, Stop, Emitting, vars
  <1>3. CASE HandleTags
    BY <1>3 DEF HandleTags, Stop, Emitting, vars
  <1> QED
    BY <1>1, <1>2, <1>3

LEMMA EmitStep == ReadInv /\ [EmitNext]_emitVars => ReadInv'
  <1> SUFFICES ASSUME ReadInv, [EmitNext]_emitVars PROVE ReadInv'
    OBVIOUS
  <1>1. CASE Read
    BY <1>1, ReadStep DEF Read
  <1>2. CASE EmitCode \/ MapTypes \/ HandleTags
    BY <1>2, PluginStep, QuietStep
  <1>3. CASE Write
    BY <1>3, QuietStep DEF Write
  <1>4. CASE UNCHANGED emitVars
    BY <1>4, QuietStep DEF emitVars, vars
  <1> QED
    BY <1>1, <1>2, <1>3, <1>4 DEF EmitNext

LEMMA InitRead == EmitInit => ReadInv
  BY InitWhere, InitMark, InitMembers, InitKept, InitTable DEF EmitInit, ReadInv

\* What has been read and resolved is what the input says, at every step of
\* the generator: of the part of the input it has seen.
THEOREM ReadInvariance == EmitSpec => []ReadInv
  <1> QED
    BY InitRead, EmitStep, PTL DEF EmitSpec

-----------------------------------------------------------------------------
(* What the tables are in the end                                          *)

LEMMA ReadIsKept == ReadInv => KeptIsWhatIsMarked
  <1> SUFFICES ASSUME ReadInv, pc \in {"resolve", "done"}, NEW kind \in BlockKinds
               PROVE  LET kept == IF kind = "struct" THEN structs ELSE enums
                          marked == FirstOfName(kind)
                      IN  /\ Len(kept) = Cardinality(marked)
                          /\ \A i \in marked : IsBlock(kept[Rank(marked, i)], i)
    BY DEF KeptIsWhatIsMarked
  <1>1. Firsts(kind) = FirstOfName(kind)
    BY DEF Firsts, Passed, StillReading
  <1>2. /\ Len(KeptOf(kind)) = Cardinality(Firsts(kind))
        /\ \A i \in Firsts(kind) : IsBlock(KeptOf(kind)[Rank(Firsts(kind), i)], i)
    BY DEF ReadInv, KeptInv, Live
  <1> QED
    BY <1>1, <1>2 DEF KeptOf

\* The structs kept by Reflector.add_cstruct and the enums kept by add_cenum
\* are the marked typedefs of the input, the first of each name, with the
\* members and the tags that stand there.
THEOREM KeepsWhatIsMarked == EmitSpec => []KeptIsWhatIsMarked
  BY ReadInvariance, ReadIsKept, PTL

\* When the types are resolved, all has been opened and all is resolved.
LEMMA AllResolved ==
    ASSUME ReadInv, pc = "done"
    PROVE  /\ Opened = Marked /\ Resolved = Fields /\ ResolvedTypes = FieldTypes
           /\ \A s \in DOMAIN structs : \A f \in DOMAIN FieldsOf(s) : <<s, f>> \in Fields
  <1>1. Opened = Marked
    BY DEF Opened, Passed, StillReading
  <1>2. IsSequence(structs) /\ at[1] > Len(structs)
    BY DEF ReadInv, KeptInv, KeptOf, TableInv, Live, BlockKinds
  <1>3. DOMAIN structs = 1 .. Len(structs) /\ Len(structs) \in Nat
    BY <1>2, AppendFacts
  <1>4. at[1] \in Nat
    BY DEF ReadInv, WhereInv
  <1>5. ASSUME NEW s \in DOMAIN structs
        PROVE  /\ s < at[1]
               /\ \A f \in DOMAIN FieldsOf(s) : f \in Nat \ {0} /\ Typed(FieldsOf(s)[f].type)
    <2>1. IsSequence(FieldsOf(s)) /\ \A f \in DOMAIN FieldsOf(s) : Typed(FieldsOf(s)[f].type)
      BY DEF ReadInv, StructsInv, Live
    <2>2. DOMAIN FieldsOf(s) = 1 .. Len(FieldsOf(s)) /\ Len(FieldsOf(s)) \in Nat
      BY <2>1, AppendFacts
    <2> QED
      BY <1>2, <1>3, <1>4, <2>1, <2>2
  <1>6. Resolved = Fields
    <2>1. \A sf \in Fields : sf[1] < at[1]
      BY <1>5 DEF Fields
    <2> QED
      BY <2>1 DEF Resolved, StillReading
  <1>7. \A s \in DOMAIN structs : \A f \in DOMAIN FieldsOf(s) : <<s, f>> \in Fields
    BY <1>5 DEF Fields
  <1>8. ResolvedTypes = FieldTypes
    <2>1. ASSUME NEW n \in ResolvedTypes PROVE n \in FieldTypes
      <3>1. PICK sf \in Fields : n = FieldsOf(sf[1])[sf[2]].type
        BY <1>6, <2>1 DEF ResolvedTypes, TypeOf
      <3>2. sf[1] \in DOMAIN structs /\ FieldsOf(sf[1])[sf[2]] \in Range(FieldsOf(sf[1]))
        BY <3>1 DEF Fields, Range
      <3> QED
        BY <3>1, <3>2 DEF FieldTypes
    <2>2. ASSUME NEW n \in FieldTypes PROVE n \in ResolvedTypes
      <3>1. PICK s \in DOMAIN structs : \E g \in Range(FieldsOf(s)) : n = g.type
        BY <2>2 DEF FieldTypes
      <3>2. PICK f \in DOMAIN FieldsOf(s) : n = FieldsOf(s)[f].type
        BY <3>1 DEF Range
      <3>3. n = TypeOf(<<s, f>>)
        BY <3>2 DEF TypeOf
      <3> QED
        BY <1>6, <1>7, <3>3 DEF ResolvedTypes
    <2> QED
      BY <2>1, <2>2
  <1> QED
    BY <1>1, <1>6, <1>7, <1>8

LEMMA TableInTheEnd ==
    ASSUME ReadInv, pc = "done"
    PROVE  /\ type_map = [n \in {Plain("unknown")} \cup DeclaredBy(Marked) \cup Made(FieldTypes) |->
                             Value(Marked, n)]
           /\ \A s \in DOMAIN structs : \A f \in DOMAIN FieldsOf(s) :
                /\ type_enum[<<s, f>>] = Value(Marked, FieldsOf(s)[f].type)
                /\ HasLength(s, f)
                /\ Typed(FieldsOf(s)[f].type) /\ FieldsOf(s)[f].type \in FieldTypes
  <1>1. /\ type_map = [n \in {Plain("unknown")} \cup DeclaredBy(Opened) \cup Made(ResolvedTypes) |->
                          Value(Opened, n)]
        /\ \A sf \in Resolved : type_enum[sf] = Value(Opened, TypeOf(sf)) /\ HasLength(sf[1], sf[2])
    BY DEF ReadInv, TableInv, Live
  <1>2. PICK O : O = Opened
    OBVIOUS
  <1>3. PICK T : T = ResolvedTypes
    OBVIOUS
  <1>4. type_map = [n \in {Plain("unknown")} \cup DeclaredBy(O) \cup Made(T) |-> Value(O, n)]
    BY <1>1, <1>2, <1>3
  <1>5. O = Marked /\ T = FieldTypes
    BY <1>2, <1>3, AllResolved
  <1>6. ASSUME NEW s \in DOMAIN structs, NEW f \in DOMAIN FieldsOf(s)
        PROVE  /\ type_enum[<<s, f>>] = Value(O, FieldsOf(s)[f].type)
               /\ HasLength(s, f)
               /\ Typed(FieldsOf(s)[f].type) /\ FieldsOf(s)[f].type \in FieldTypes
    <2>1. <<s, f>> \in Resolved /\ TypeOf(<<s, f>>) = FieldsOf(s)[f].type
      BY AllResolved DEF TypeOf
    <2>2. type_enum[<<s, f>>] = Value(O, TypeOf(<<s, f>>)) /\ HasLength(s, f)
      BY <1>1, <1>2, <2>1
    <2>3. TypeOf(<<s, f>>) \in ResolvedTypes
      BY <2>1 DEF ResolvedTypes
    <2>4. Typed(FieldsOf(s)[f].type)
      BY DEF ReadInv, StructsInv, Live
    <2> QED
      BY <1>3, <1>5, <2>1, <2>2, <2>3, <2>4
  <1> QED
    BY <1>4, <1>5, <1>6

LEMMA TableIsClosure == ReadInv => TypeMapIsTheClosure
  <1> SUFFICES ASSUME ReadInv, pc = "done"
               PROVE  LET declared == {Plain(input[i].name) : i \in Marked}
                          parts(n) == {Pointer(n.base, k) : k \in 0 .. n.stars}
                      IN  type_map =
                            [n \in {Plain("unknown")} \cup declared \cup FieldTypes
                                   \cup ((UNION {parts(n) : n \in FieldTypes}) \ {Plain("void")}) |->
                                IF n \in declared
                                THEN Enumerator(input[LastOfName(n.base)].kind, n.base,
                                                BlockTags(LastOfName(n.base)))
                                ELSE Default(n)]
    BY DEF TypeMapIsTheClosure
  <1>1. type_map = [n \in {Plain("unknown")} \cup DeclaredBy(Marked) \cup Made(FieldTypes) |->
                       Value(Marked, n)]
    BY TableInTheEnd
  <1>2. ASSUME NEW n
        PROVE  Value(Marked, n) =
                 IF n \in {Plain(input[i].name) : i \in Marked}
                 THEN Enumerator(input[LastOfName(n.base)].kind, n.base,
                                 BlockTags(LastOfName(n.base)))
                 ELSE Default(n)
    BY DEF Value, DeclaredBy, LastIn, LastOfName
  <1>3. {Plain("unknown")} \cup DeclaredBy(Marked) \cup Made(FieldTypes) =
          {Plain("unknown")} \cup {Plain(input[i].name) : i \in Marked} \cup FieldTypes
          \cup ((UNION {{Pointer(n.base, k) : k \in 0 .. n.stars} : n \in FieldTypes})
                \ {Plain("void")})
    BY DEF DeclaredBy, Made, Parts
  <1> QED
    BY <1>1, <1>2, <1>3

\* Whatever the order of files, blocks and fields, Reflector.resolve leaves
\* exactly the types the input's blocks and members are made of in type_map,
\* with the enumerators their last declarations give them.
THEOREM TableOfTheClosure == EmitSpec => []TypeMapIsTheClosure
  BY ReadInvariance, TableIsClosure, PTL

-----------------------------------------------------------------------------
(* What the generated tables are built on                                  *)

\* The types in the table: all but void that a field's type is made of
LEMMA TypesInTheEnd ==
    ASSUME ReadInv, pc = "done", NEW n \in FieldTypes, Typed(n)
    PROVE  /\ n \in DOMAIN type_map
           /\ \A k \in 0 .. n.stars :
                Pointer(n.base, k) \in DOMAIN type_map <=> Pointer(n.base, k) # Plain("void")
  <1>1. DOMAIN type_map = {Plain("unknown")} \cup DeclaredBy(Marked) \cup Made(FieldTypes)
    BY TableInTheEnd
  <1>2. ASSUME NEW k \in 0 .. n.stars, Pointer(n.base, k) # Plain("void")
        PROVE  Pointer(n.base, k) \in DOMAIN type_map
    <2>1. Pointer(n.base, k) \in Parts(n)
      BY DEF Parts
    <2> QED
      BY <1>1, <1>2, <2>1 DEF Made
  <1>3. Plain("void") \notin DOMAIN type_map
    <2>1. Plain("void") # Plain("unknown")
      BY DEF Plain, Pointer
    <2>2. Plain("void") \notin DeclaredBy(Marked)
      <3>1. ASSUME NEW i \in Marked PROVE input[i].name # "void"
        BY InputFacts DEF ReadInv, Marked, Blocks
      <3> QED
        BY <3>1 DEF DeclaredBy, Plain, Pointer
    <2>3. Plain("void") \notin FieldTypes
      <3>1. ~ Typed(Plain("void"))
        BY DEF Typed, Plain, Pointer
      <3>2. \A t \in FieldTypes : Typed(t)
        <4>1. \A sf \in Fields : Typed(TypeOf(sf))
          BY TableInTheEnd DEF Fields, TypeOf
        <4> QED
          BY <4>1, AllResolved DEF ResolvedTypes
      <3> QED
        BY <3>1, <3>2
    <2> QED
      BY <1>1, <2>1, <2>2, <2>3 DEF Made
  <1> QED
    BY <1>1, <1>2, <1>3 DEF Made

\* What get_base_type has for a type when no two types have one enumerator
LEMMA BaseTypeOf ==
    ASSUME ReadInv, pc = "done", NoClash, NEW n \in FieldTypes, Typed(n)
    PROVE  base_type(type_map[n]) =
             IF n.arr THEN {type_map[Pointer(n.base, n.stars)]}
             ELSE IF n.stars = 0 \/ n = Pointer("void", 1) THEN {}
             ELSE {type_map[Pointer(n.base, n.stars - 1)]}
  <1> DEFINE e == type_map[n]
             next == {p \in DOMAIN type_map \ {Plain("unknown")} :
                        \/ n.arr /\ p = Pointer(n.base, n.stars)
                        \/ ~n.arr /\ n.stars > 0 /\ p = Pointer(n.base, n.stars - 1)}
  <1>1. n \in DOMAIN type_map /\ \A m \in DOMAIN type_map : type_map[m] = e => m = n
    BY TypesInTheEnd DEF NoClash
  <1>2. TypesNamed(e) = {n}
    BY <1>1 DEF TypesNamed
  <1>3. base_type(e) = {type_map[m] : m \in next} \ {e}
    BY <1>2 DEF base_type
  <1>4. n.base \in Bases /\ n.stars \in Nat /\ n.arr \in BOOLEAN /\ n.base # "unknown"
        /\ (n.base = "void" => n.stars > 0)
        /\ n = [base |-> n.base, stars |-> n.stars, arr |-> n.arr]
    BY DEF Typed, TypeName
  <1>5. ASSUME NEW k \in 0 .. n.stars, Pointer(n.base, k) # Plain("void"), Pointer(n.base, k) # n
        PROVE  Pointer(n.base, k) \in DOMAIN type_map \ {Plain("unknown")}
               /\ type_map[Pointer(n.base, k)] # e
    <2>1. Pointer(n.base, k) \in DOMAIN type_map
      BY <1>5, TypesInTheEnd
    <2>2. Pointer(n.base, k) # Plain("unknown")
      BY <1>4 DEF Pointer, Plain
    <2> QED
      BY <1>1, <1>5, <2>1, <2>2
  <1>6. CASE n.arr
    <2> DEFINE p == Pointer(n.base, n.stars)
    <2>1. p # Plain("void") /\ p # n
      BY <1>4, <1>6 DEF Pointer, Plain
    <2>2. p \in DOMAIN type_map \ {Plain("unknown")} /\ type_map[p] # e
      BY <1>4, <1>5, <2>1
    <2>3. next = {p}
      BY <1>6, <2>2
    <2> QED
      BY <1>3, <1>6, <2>2, <2>3
  <1>7. CASE ~n.arr /\ n.stars = 0
    <2>1. next = {}
      BY <1>7
    <2> QED
      BY <1>3, <1>7, <2>1
  <1>8. CASE ~n.arr /\ n.stars # 0
    <2> DEFINE p == Pointer(n.base, n.stars - 1)
    <2>1. n.stars - 1 \in 0 .. n.stars /\ n.stars > 0 /\ p # n
      BY <1>4, <1>8 DEF Pointer
    <2>2. CASE p = Plain("void")
      <3>1. n = Pointer("void", 1)
        BY <1>4, <1>8, <2>1, <2>2 DEF Pointer, Plain
      <3>2. p \notin DOMAIN type_map
        BY <2>1, <2>2, TypesInTheEnd
      <3>3. next = {}
        BY <1>8, <3>2
      <3> QED
        BY <1>3, <1>8, <3>1, <3>3
    <2>3. CASE p # Plain("void")
      <3>1. n # Pointer("void", 1)
        <4>1. n = Pointer("void", 1) => n.base = "void" /\ n.stars - 1 = 0
          BY DEF Pointer
        <4> QED
          BY <2>3, <4>1 DEF Plain
      <3>2. p \in DOMAIN type_map \ {Plain("unknown")} /\ type_map[p] # e
        BY <1>5, <2>1, <2>3
      <3>3. next = {p}
        BY <1>8, <2>1, <3>2
      <3> QED
        BY <1>3, <1>8, <3>1, <3>2, <3>3
    <2> QED
      BY <2>2, <2>3
  <1> QED
    BY <1>4, <1>6, <1>7, <1>8

LEMMA TablesAreSound == ReadInv => RegistryIsSound
  <1> SUFFICES ASSUME ReadInv, pc = "done",
                      NEW s \in DOMAIN structs, NEW f \in DOMAIN FieldsOf(s)
               PROVE  LET n == FieldsOf(s)[f].type
                          e == type_enum[<<s, f>>]
                          length == Length(FieldsOf(s)[f])
                      IN  /\ e = type_map[n] /\ e # UNKNOWN
                          /\ length = "" \/ \E g \in Range(FieldsOf(s)) : g.name = length
                          /\ NoClash =>
                              /\ struct_metadata(e) =
                                    {t \in DOMAIN structs : n.base = structs[t].name /\ n.stars = 0}
                              /\ base_type(e) =
                                    IF n.arr THEN {type_map[Pointer(n.base, n.stars)]}
                                    ELSE IF n.stars = 0 \/ n = Pointer("void", 1) THEN {}
                                    ELSE {type_map[Pointer(n.base, n.stars - 1)]}
    BY DEF RegistryIsSound
  <1>1. PICK n : n = FieldsOf(s)[f].type
    OBVIOUS
  <1>2. PICK e : e = type_enum[<<s, f>>]
    OBVIOUS
  <1>3. e = Value(Marked, n) /\ Typed(n) /\ n \in FieldTypes
    BY <1>1, <1>2, TableInTheEnd
  <1>4. n \in DOMAIN type_map
    BY <1>3, TypesInTheEnd
  <1>5. e = type_map[n]
    <2>1. \A m \in DOMAIN type_map : type_map[m] = Value(Marked, m)
      BY TableInTheEnd
    <2> QED
      BY <1>3, <1>4, <2>1
  <1>6. e # UNKNOWN
    <2>1. PICK O : O = Marked
      OBVIOUS
    <2> QED
      BY <1>3, <2>1, ValueIsKnown
  <1>7. Length(FieldsOf(s)[f]) = "" \/ \E g \in Range(FieldsOf(s)) : g.name = Length(FieldsOf(s)[f])
    <2>1. HasLength(s, f)
      BY TableInTheEnd
    <2> QED
      BY <2>1, Zenon DEF HasLength
  <1>8. ASSUME NoClash
        PROVE  struct_metadata(e) =
                 {t \in DOMAIN structs : n.base = structs[t].name /\ n.stars = 0}
    <2>1. TypesNamed(e) = {n}
      BY <1>4, <1>5, <1>8 DEF TypesNamed, NoClash
    <2> QED
      BY <2>1 DEF struct_metadata
  <1>9. ASSUME NoClash
        PROVE  base_type(e) =
                 IF n.arr THEN {type_map[Pointer(n.base, n.stars)]}
                 ELSE IF n.stars = 0 \/ n = Pointer("void", 1) THEN {}
                 ELSE {type_map[Pointer(n.base, n.stars - 1)]}
    BY <1>3, <1>5, <1>9, BaseTypeOf
  <1> QED
    BY <1>1, <1>2, <1>5, <1>6, <1>7, <1>8, <1>9, Zenon

\* Whatever the input, every field's type_enum is the one its type has in the
\* table, and get_struct_metadata and get_base_type lead from it to the
\* struct, the element or the pointed-to type it means, and to no other.
THEOREM TablesLeadToTheirTypes == EmitSpec => []RegistryIsSound
  BY ReadInvariance, TablesAreSound, PTL

-----------------------------------------------------------------------------
(* The types of the Python objects                                         *)

LEMMA PluginFacts ==
    ASSUME WhereInv
    PROVE  /\ Len(plugins) \in Nat /\ DOMAIN plugins = 1 .. Len(plugins)
           /\ \A p \in DOMAIN plugins :
                /\ Len(plugins[p].mappers) \in Nat
                /\ DOMAIN plugins[p].mappers = 1 .. Len(plugins[p].mappers)
  <1>1. PICK r \in Runs : plugins = r[2]
    BY DEF WhereInv
  <1>2. plugins \in Seq(Range(plugins))
    BY <1>1, PluginsAssumption DEF PluginsAssumption
  <1>3. \A p \in DOMAIN plugins : plugins[p].mappers \in Seq(Range(plugins[p].mappers))
    BY <1>1, PluginsAssumption DEF PluginsAssumption
  <1> QED
    BY <1>2, <1>3, LenProperties

LEMMA InitShape == EmitInit => ShapeInv
  <1> SUFFICES ASSUME EmitInit PROVE ShapeInv
    OBVIOUS
  <1>1. Init
    BY DEF EmitInit
  <1>2. NamesInv
    <2>1. DOMAIN type_map = {Plain("unknown")}
      BY <1>1 DEF Init
    <2> QED
      BY <2>1, InputsAssumption DEF InputsAssumption, NamesInv, TypeName, Plain, Pointer
  <1>3. DOMAIN type_enum = {} /\ DOMAIN ext = {}
    BY <1>1, EmptySequence DEF Init, EmitInit
  <1>4. TurnInv
    <2>1. turn[1] = 1 /\ turn[2] = 0 /\ router = <<>>
      BY DEF EmitInit
    <2>2. /\ Len(plugins) \in Nat
          /\ 1 \in DOMAIN plugins => Len(plugin.mappers) \in Nat
      BY <1>1, <2>1, InitWhere, PluginFacts DEF plugin
    <2> QED
      BY <2>1, <2>2 DEF TurnInv
  <1> QED
    BY <1>2, <1>3, <1>4 DEF ShapeInv, FieldsInv, ExtInv

LEMMA NamesStep == ReadInv /\ NamesInv /\ Next => NamesInv'
  <1> SUFFICES ASSUME ReadInv, NamesInv, Next PROVE NamesInv'
    OBVIOUS
  <1>1. CASE type_map' = type_map
    BY <1>1 DEF NamesInv
  <1>2. CASE OpenBlock /\ type_map' # type_map
    <2>1. PICK i, e : /\ i = at[1] /\ i \in DOMAIN input /\ input[i].kind \in BlockKinds
                      /\ type_map' = Entered(type_map, Plain(input[i].name), e)
      BY <1>2 DEF OpenBlock, Reading, item, Raise, Declared, tables
    <2>2. input[i].name \in Bases
      BY <2>1, InputFacts DEF ReadInv
    <2>3. Plain(input[i].name) \in TypeName
      BY <2>2 DEF TypeName, Plain, Pointer
    <2> QED
      BY <2>1, <2>3 DEF NamesInv, Entered
  <1>3. CASE ResolveField
    <2>1. PICK n : n = FieldsOf(at[1])[at[2]].type
      OBVIOUS
    <2>2. Typed(n)
      BY <1>3, <2>1 DEF ResolveField, ReadInv, StructsInv, Live
    <2>3. PICK own : own = IF Known(n) THEN type_map ELSE Entered(type_map, n, Default(n))
      OBVIOUS
    <2>4. type_map' = Merge([m \in Parents(n) |-> Default(m)], own)
      BY <1>3, <2>1, <2>3 DEF ResolveField
    <2>5. DOMAIN type_map' = Parents(n) \cup DOMAIN own
      BY <2>4 DEF Merge
    <2>6. DOMAIN own \subseteq TypeName
      BY <2>2, <2>3 DEF NamesInv, Entered, Typed
    <2>7. Parents(n) \subseteq TypeName
      <3>1. n.base \in Bases /\ n.stars \in Nat
        BY <2>2 DEF Typed, TypeName
      <3>2. \A m \in Parents(n) : \E k \in Nat : m = Pointer(n.base, k)
        BY <3>1 DEF Parents
      <3>3. \A k \in Nat : Pointer(n.base, k) \in TypeName
        BY <3>1 DEF TypeName, Pointer
      <3> QED
        BY <3>2, <3>3
    <2> QED
      BY <2>5, <2>6, <2>7 DEF NamesInv
  <1> QED
    BY <1>1, <1>2, <1>3 DEF Next, ReadText, EndFile, SkipBlock, ReadLine, CloseBlock, EndOfFiles,
       NextStruct, Validate, Raise, tables

LEMMA FieldsStep == ReadInv /\ FieldsInv /\ Next => FieldsInv'
  <1> SUFFICES ASSUME ReadInv, FieldsInv, Next PROVE FieldsInv'
    OBVIOUS
  <1>1. CASE type_enum' = type_enum /\ structs' = structs
    BY <1>1 DEF FieldsInv, FieldsOf
  <1>2. CASE CloseBlock
    <2>1. DOMAIN type_enum = Resolved /\ Resolved = {}
      BY <1>2 DEF CloseBlock, Reading, ReadInv, TableInv, Live, Resolved, StillReading
    <2>2. type_enum' = type_enum
      BY <1>2 DEF CloseBlock
    <2> QED
      BY <2>1, <2>2 DEF FieldsInv
  <1>3. CASE ResolveField
    <2>1. PICK s, f, e : /\ s \in DOMAIN structs /\ f \in DOMAIN FieldsOf(s)
                         /\ type_enum' = Entered(type_enum, <<s, f>>, e) /\ structs' = structs
      <3>1. at = <<at[1], at[2]>>
        BY DEF ReadInv, WhereInv
      <3> QED
        BY <1>3, <3>1 DEF ResolveField
    <2> QED
      BY <2>1 DEF FieldsInv, Entered, FieldsOf
  <1> QED
    BY <1>1, <1>2, <1>3 DEF Next, ReadText, EndFile, SkipBlock, OpenBlock, ReadLine, EndOfFiles,
       NextStruct, Validate, Raise, tables

LEMMA ReadShape == ReadInv /\ ShapeInv /\ Read => ShapeInv'
  <1> SUFFICES ASSUME ReadInv, ShapeInv, Read PROVE ShapeInv'
    OBVIOUS
  <1>1. Next /\ turn' = turn /\ router' = router /\ ext' = ext
    BY DEF Read, emission
  <1>2. pc \in {"text", "body", "resolve"} /\ plugins' = plugins
    BY <1>1 DEF Next, ReadText, EndFile, SkipBlock, OpenBlock, ReadLine, CloseBlock, EndOfFiles,
       ResolveField, NextStruct, Validate, Raise, Reading, reading, tables
  <1>3. NamesInv' /\ FieldsInv'
    BY <1>1, NamesStep, FieldsStep DEF ShapeInv
  <1>4. ExtInv'
    BY <1>1, <1>2 DEF ShapeInv, ExtInv
  <1>5. TurnInv'
    BY <1>1, <1>2 DEF ShapeInv, TurnInv, plugin
  <1> QED
    BY <1>3, <1>4, <1>5 DEF ShapeInv

LEMMA PluginShape ==
    ASSUME ReadInv, ShapeInv, EmitCode \/ MapTypes \/ HandleTags
    PROVE  ShapeInv'
  <1>1. /\ plugins' = plugins /\ structs' = structs /\ enums' = enums
        /\ type_map' = type_map /\ type_enum' = type_enum /\ pc' \in {"done", "raised", "crashed"}
    BY PluginStep DEF tables
  <1>2. NamesInv' /\ FieldsInv'
    BY <1>1 DEF ShapeInv, NamesInv, FieldsInv, FieldsOf
  <1>3. \A context : Places(context)' = Places(context)
    BY <1>1 DEF Places
  <1>4. /\ Len(plugins) \in Nat /\ DOMAIN plugins = 1 .. Len(plugins)
        /\ \A p \in DOMAIN plugins :
             /\ Len(plugins[p].mappers) \in Nat
             /\ DOMAIN plugins[p].mappers = 1 .. Len(plugins[p].mappers)
    BY PluginFacts DEF ReadInv
  <1>5. CASE ext' = ext /\ router' = router /\ turn' = turn
    BY <1>1, <1>2, <1>3, <1>5 DEF ShapeInv, ExtInv, TurnInv, plugin
  <1>6. CASE ext' = ext /\ router' = <<>> /\ NextStep
             /\ Emitting /\ turn[2] \in 0 .. Len(plugin.mappers)
    <2>1. PICK p, k : p = turn[1] /\ k = turn[2]
      OBVIOUS
    <2>2. /\ p \in DOMAIN plugins /\ k \in 0 .. Len(plugins[p].mappers)
          /\ turn'[1] = p /\ turn'[2] = k + 1
      BY <1>6, <2>1 DEF NextStep, Emitting, plugin
    <2>3. turn[1] \in 1 .. Len(plugins) + 1
      BY DEF ShapeInv, TurnInv
    <2>4. TurnInv'
      BY <1>1, <1>4, <1>6, <2>1, <2>2, <2>3 DEF TurnInv, plugin
    <2> QED
      BY <1>1, <1>2, <1>3, <1>6, <2>4 DEF ShapeInv, ExtInv
  <1>7. CASE /\ DOMAIN ext' \subseteq DOMAIN ext \cup Places("field") \cup Places("member")
             /\ Emitting /\ turn' = <<turn[1] + 1, 0>> /\ router' = router
    <2>1. PICK p : p = turn[1]
      OBVIOUS
    <2>2. p \in 1 .. Len(plugins) /\ turn'[1] = p + 1 /\ turn'[2] = 0
      BY <1>4, <1>7, <2>1 DEF Emitting
    <2>3. p + 1 \in 1 .. Len(plugins) + 1
          /\ (p + 1 \in DOMAIN plugins => Len(plugins[p + 1].mappers) \in Nat)
      BY <1>4, <2>2
    <2>4. TurnInv'
      BY <1>1, <1>7, <2>2, <2>3 DEF ShapeInv, TurnInv, plugin
    <2> QED
      BY <1>1, <1>2, <1>3, <1>7, <2>4 DEF ShapeInv, ExtInv
  <1>8. CASE EmitCode
    <2>1. router = <<>>
      BY DEF ShapeInv, TurnInv
    <2>2. Emitting => Len(plugin.mappers) \in Nat
      BY <1>4 DEF Emitting, plugin
    <2> QED
      BY <1>5, <1>6, <1>8, <2>1, <2>2 DEF EmitCode, Stop, emission
  <1>9. CASE MapTypes
    <2>1. Emitting => DOMAIN plugin.mappers = 1 .. Len(plugin.mappers)
                      /\ Len(plugin.mappers) \in Nat
      BY <1>4 DEF Emitting, plugin
    <2>2. CASE UNCHANGED emission
      BY <1>5, <2>2 DEF emission
    <2>3. CASE /\ ext' = ext /\ router' = <<>> /\ NextStep
               /\ Emitting /\ turn[2] \in DOMAIN plugin.mappers
      BY <1>6, <2>1, <2>3
    <2> QED
      BY <1>9, <2>2, <2>3 DEF MapTypes, Stop, AfterMapper
  <1>10. CASE HandleTags
    <2>1. CASE UNCHANGED emission
      BY <1>5, <2>1 DEF emission
    <2>2. CASE ~ UNCHANGED emission
      <3>1. PICK touched :
               /\ touched \subseteq Places("field") \cup Places("member")
               /\ ext' = [place \in DOMAIN ext \cup touched |->
                             IF place \in touched THEN Extended(place) ELSE ext[place]]
        BY <1>10, <2>2 DEF HandleTags, Stop
      <3>2. Emitting /\ turn' = <<turn[1] + 1, 0>> /\ router' = router
        BY <1>10, <2>2 DEF HandleTags, Stop
      <3> QED
        BY <1>7, <3>1, <3>2
    <2> QED
      BY <2>1, <2>2
  <1> QED
    BY <1>8, <1>9, <1>10

LEMMA ShapeStep == ReadInv /\ ShapeInv /\ [EmitNext]_emitVars => ShapeInv'
  <1> SUFFICES ASSUME ReadInv, ShapeInv, [EmitNext]_emitVars PROVE ShapeInv'
    OBVIOUS
  <1>1. CASE Read
    BY <1>1, ReadShape
  <1>2. CASE EmitCode \/ MapTypes \/ HandleTags
    BY <1>2, PluginShape
  <1>3. CASE (Write \/ UNCHANGED emitVars)
    <2>1. /\ plugins' = plugins /\ structs' = structs /\ enums' = enums /\ ext' = ext
          /\ type_map' = type_map /\ type_enum' = type_enum /\ turn' = turn /\ router' = router
          /\ pc' = "written" \/ pc' = pc
      BY <1>3 DEF Write, emitVars, vars, emission, tables
    <2>2. Places("field")' = Places("field") /\ Places("member")' = Places("member")
      BY <2>1 DEF Places
    <2> QED
      BY <2>1, <2>2 DEF ShapeInv, NamesInv, FieldsInv, FieldsOf, ExtInv, TurnInv, plugin
  <1> QED
    BY <1>1, <1>2, <1>3 DEF EmitNext

\* The variables have the types of the Python objects; a plugin's turn never
\* goes past its mappers nor past the last plugin, and every mapper begins
\* with an empty router.
THEOREM TypeCorrectness == EmitSpec => []EmitTypeOK
  <1>1. EmitInit => ReadInv /\ ShapeInv
    BY InitRead, InitShape
  <1>2. ReadInv /\ ShapeInv /\ [EmitNext]_emitVars => (ReadInv /\ ShapeInv)'
    BY EmitStep, ShapeStep
  <1>3. ReadInv /\ ShapeInv => EmitTypeOK
    <2> SUFFICES ASSUME ReadInv, ShapeInv PROVE EmitTypeOK
      OBVIOUS
    <2>1. mark = <<>> \/ \E tags : mark = <<tags>>
      BY DEF ReadInv, MarkInv
    <2>2. \A tags : Len(<<tags>>) = 1 /\ <<tags>> # <<>>
      OBVIOUS
    <2>3. Len(mark) <= 1
      <3>1. CASE mark = <<>>
        BY <3>1, EmptySequence
      <3>2. CASE \E tags : mark = <<tags>>
        BY <2>2, <3>2
      <3> QED
        BY <2>1, <3>1, <3>2
    <2>4. pc = "body" => mark # <<>>
      BY <2>2 DEF ReadInv, MarkInv
    <2> QED
      BY <2>3, <2>4 DEF EmitTypeOK, ReadInv, WhereInv, ShapeInv, NamesInv, FieldsInv, ExtInv, TurnInv
  <1> QED
    BY <1>1, <1>2, <1>3, PTL DEF EmitSpec

-----------------------------------------------------------------------------
(* The tags of fields and members                                          *)

Extensible == Places("field") \cup Places("member")

\* The keys that the plugins G set by a tag of the context c
Tells(k, c, t, key) ==
    /\ t \in DOMAIN plugins[k].handlers[c]
    /\ plugins[k].handlers[c][t].sets = key
    /\ key # NoKey
Tellers(G, c, t) == {k \in G : t \in DOMAIN plugins[k].handlers[c]}
KeysOf(G, c, t) == {plugins[k].handlers[c][t].sets : k \in Tellers(G, c, t)} \ {NoKey}

\* What they make of the tags of a place
AllKeys(G, place) == UNION {KeysOf(G, place[1], t) : t \in DOMAIN TagsAt(place)}
Told(G, place) ==
    [key \in AllKeys(G, place) |->
        TagsAt(place)[CHOOSE t \in DOMAIN TagsAt(place) : key \in KeysOf(G, place[1], t)]]

\* The extension data is what the plugins whose turn is over make of it.
TagsInv ==
    /\ pc \in {"text", "body", "resolve"} => turn = <<1, 0>>
    /\ pc \in {"done", "written"} =>
          \A place \in Extensible : ExtensionOf(place) = Told(1 .. turn[1] - 1, place)
    /\ \A place \in DOMAIN ext : DOMAIN ext[place] # {}

LEMMA PlaceContext ==
    \A place \in Extensible : place[1] \in {"field", "member"}
  BY DEF Extensible, Places

LEMMA KeyIs ==
    \A G, c, t, key : key \in KeysOf(G, c, t) <=> \E k \in G : Tells(k, c, t, key)
  BY Zenon DEF KeysOf, Tellers, Tells

LEMMA KeyOfAny ==
    \A G, place, key :
        key \in AllKeys(G, place) <=>
            \E t \in DOMAIN TagsAt(place) : key \in KeysOf(G, place[1], t)
  BY DEF AllKeys

LEMMA ToldNothing == \A place : Told({}, place) = <<>>
  <1> TAKE place
  <1>1. AllKeys({}, place) = {}
    BY KeyIs, KeyOfAny
  <1> QED
    BY <1>1 DEF Told

LEMMA KeyHasOneTag ==
    ASSUME OneTagPerKey, WhereInv, NEW c \in {"field", "member"},
           NEW G \in SUBSET DOMAIN plugins, NEW t, NEW u, NEW key,
           key \in KeysOf(G, c, t), key \in KeysOf(G, c, u)
    PROVE  t = u
  <1>1. PICK r \in Runs : plugins = r[2]
    BY DEF WhereInv
  <1>2. PICK j \in G : Tells(j, c, t, key)
    BY KeyIs
  <1>3. PICK k \in G : Tells(k, c, u, key)
    BY KeyIs
  <1>4. plugins[j] \in Range(r[2]) /\ plugins[k] \in Range(r[2])
    BY <1>1, <1>2, <1>3 DEF Range
  <1>5. ASSUME NEW p \in Range(r[2]), NEW q \in Range(r[2]),
               NEW v \in DOMAIN p.handlers[c], NEW w \in DOMAIN q.handlers[c],
               p.handlers[c][v].sets = key, q.handlers[c][w].sets = key, key # NoKey
        PROVE  v = w
    BY <1>5, ZenonT(30) DEF OneTagPerKey
  <1> QED
    BY <1>2, <1>3, <1>4, <1>5, Zenon DEF Tells

LEMMA ToldValue ==
    ASSUME OneTagPerKey, WhereInv, NEW place \in Extensible,
           NEW G \in SUBSET DOMAIN plugins,
           NEW t \in DOMAIN TagsAt(place), NEW key \in KeysOf(G, place[1], t)
    PROVE  key \in DOMAIN Told(G, place) /\ Told(G, place)[key] = TagsAt(place)[t]
  <1>1. key \in AllKeys(G, place)
    BY KeyOfAny
  <1>2. PICK u : u = CHOOSE v \in DOMAIN TagsAt(place) : key \in KeysOf(G, place[1], v)
    OBVIOUS
  <1>3. u \in DOMAIN TagsAt(place) /\ key \in KeysOf(G, place[1], u)
    BY <1>2
  <1>4. u = t
    BY <1>3, PlaceContext, KeyHasOneTag
  <1> QED
    BY <1>1, <1>2, <1>4 DEF Told

\* What a plugin sets, by its keys and tags
SetBy(place, t) == plugin.handlers[place[1]][t].sets
TagFor(place, key) == CHOOSE t \in Handled(place) : SetBy(place, t) = key
KeysSet(place) == {SetBy(place, t) : t \in Handled(place)} \ {NoKey}

LEMMA SettingIs ==
    ASSUME OneTagPerKey, WhereInv, NEW place \in Extensible, turn[1] \in DOMAIN plugins
    PROVE  /\ DOMAIN Setting(place) = AllKeys({turn[1]}, place)
           /\ \A t \in DOMAIN TagsAt(place) : \A key \in KeysOf({turn[1]}, place[1], t) :
                 Setting(place)[key] = TagsAt(place)[t]
  <1>1. Setting(place) = [key \in KeysSet(place) |-> TagsAt(place)[TagFor(place, key)]]
    BY DEF Setting, KeysSet, TagFor, SetBy
  <1>2. \A t, key : t \in Handled(place) /\ SetBy(place, t) = key /\ key # NoKey
                    <=> t \in DOMAIN TagsAt(place) /\ key \in KeysOf({turn[1]}, place[1], t)
    BY KeyIs DEF Tells, Handled, plugin, SetBy
  <1>3. \A key : key \in KeysSet(place) <=> key \in AllKeys({turn[1]}, place)
    BY <1>2, KeyOfAny DEF KeysSet
  <1>4. ASSUME NEW t \in DOMAIN TagsAt(place), NEW key \in KeysOf({turn[1]}, place[1], t)
        PROVE  Setting(place)[key] = TagsAt(place)[t]
    <2>1. /\ key \in KeysSet(place)
          /\ t \in Handled(place) /\ SetBy(place, t) = key /\ key # NoKey
      BY <1>2 DEF KeysSet
    <2>2. TagFor(place, key) \in Handled(place) /\ SetBy(place, TagFor(place, key)) = key
      BY <2>1 DEF TagFor
    <2>3. /\ TagFor(place, key) \in DOMAIN TagsAt(place)
          /\ key \in KeysOf({turn[1]}, place[1], TagFor(place, key))
      BY <1>2, <2>1, <2>2
    <2>4. TagFor(place, key) = t
      BY <2>3, PlaceContext, KeyHasOneTag
    <2> QED
      BY <1>1, <2>1, <2>4
  <1>5. DOMAIN Setting(place) = AllKeys({turn[1]}, place)
    BY <1>1, <1>3
  <1> QED
    BY <1>4, <1>5

\* A plugin's turn adds what it sets to what the others have set.
LEMMA TellMore ==
    ASSUME OneTagPerKey, WhereInv, NEW place \in Extensible, turn[1] \in DOMAIN plugins,
           NEW G \in SUBSET DOMAIN plugins
    PROVE  Merge(Told(G, place), Setting(place)) = Told(G \cup {turn[1]}, place)
  <1> DEFINE H == G \cup {turn[1]}
             old == Told(G, place)
             new == Setting(place)
             both == Told(H, place)
  <1>1. \A t, key : key \in KeysOf(H, place[1], t) <=>
                       key \in KeysOf(G, place[1], t) \/ key \in KeysOf({turn[1]}, place[1], t)
    BY KeyIs
  <1>2. AllKeys(H, place) = AllKeys(G, place) \cup AllKeys({turn[1]}, place)
    BY <1>1, KeyOfAny
  <1>3. /\ DOMAIN old = AllKeys(G, place) /\ DOMAIN both = AllKeys(H, place)
        /\ DOMAIN new = AllKeys({turn[1]}, place)
    BY SettingIs DEF Told
  <1>4. ASSUME NEW key \in AllKeys({turn[1]}, place)
        PROVE  new[key] = both[key]
    <2>1. PICK t \in DOMAIN TagsAt(place) : key \in KeysOf({turn[1]}, place[1], t)
      BY KeyOfAny
    <2>2. key \in KeysOf(H, place[1], t)
      BY <1>1, <2>1
    <2>3. both[key] = TagsAt(place)[t]
      BY <2>2, ToldValue
    <2> QED
      BY <2>1, <2>3, SettingIs
  <1>5. ASSUME NEW key \in AllKeys(G, place)
        PROVE  old[key] = both[key]
    <2>1. PICK t \in DOMAIN TagsAt(place) : key \in KeysOf(G, place[1], t)
      BY KeyOfAny
    <2>2. key \in KeysOf(H, place[1], t)
      BY <1>1, <2>1
    <2> QED
      BY <2>1, <2>2, ToldValue
  <1>6. both = [key \in AllKeys(H, place) |-> both[key]]
    BY DEF Told
  <1> HIDE DEF old, new, both
  <1>7. Merge(old, new) = [key \in AllKeys(H, place) |-> IF key \in DOMAIN new THEN new[key] ELSE old[key]]
    BY <1>2, <1>3 DEF Merge
  <1> QED
    BY <1>2, <1>3, <1>4, <1>5, <1>6, <1>7 DEF old, new, both

LEMMA SameTelling ==
    ASSUME UNCHANGED <<plugins, structs, enums>>
    PROVE  /\ Extensible' = Extensible
           /\ \A place : TagsAt(place)' = TagsAt(place)
           /\ \A G, place : Told(G, place)' = Told(G, place)
  <1>1. Extensible' = Extensible
    BY DEF Extensible, Places
  <1>2. \A place : TagsAt(place)' = TagsAt(place)
    BY DEF TagsAt
  <1>3. \A G, place : Told(G, place)' = Told(G, place)
    BY DEF Told, AllKeys, KeysOf, Tellers, TagsAt
  <1> QED
    BY <1>1, <1>2, <1>3

LEMMA InitTags == EmitInit => TagsInv
  BY EmptySequence DEF EmitInit, Init, TagsInv

LEMMA ReadTags ==
    ASSUME ReadInv, ShapeInv, TagsInv, Read
    PROVE  TagsInv'
  <1>1. Next /\ turn' = turn /\ ext' = ext /\ pc \in {"text", "body", "resolve"}
    BY DEF Read, emission, Next, ReadText, EndFile, SkipBlock, OpenBlock, ReadLine, CloseBlock,
       EndOfFiles, ResolveField, NextStruct, Validate, Reading
  <1>2. DOMAIN ext = {} /\ turn = <<1, 0>>
    BY <1>1 DEF ShapeInv, ExtInv, TagsInv
  <1>3. pc' = "written" => FALSE
    BY <1>1 DEF Next, ReadText, EndFile, SkipBlock, OpenBlock, ReadLine, CloseBlock,
       EndOfFiles, ResolveField, NextStruct, Validate, Raise
  <1>4. pc' = "done" => UNCHANGED <<plugins, structs, enums>>
    BY <1>1 DEF Next, ReadText, EndFile, SkipBlock, OpenBlock, ReadLine, CloseBlock,
       EndOfFiles, ResolveField, NextStruct, Validate, Raise, tables
  <1>5. ASSUME pc' = "done"
        PROVE  \A place \in Extensible' : ExtensionOf(place)' = Told(1 .. turn[1] - 1, place)'
    <2>1. turn'[1] = 1 /\ 1 .. turn[1] - 1 = {}
      BY <1>1, <1>2
    <2>2. \A place : ExtensionOf(place)' = <<>>
      BY <1>1, <1>2 DEF ExtensionOf
    <2>3. \A place : Told(1 .. turn[1] - 1, place)' = Told(1 .. turn[1] - 1, place)
      BY <1>1, <1>4, <1>5, SameTelling
    <2> QED
      BY <2>1, <2>2, <2>3, ToldNothing
  <1> QED
    BY <1>1, <1>2, <1>3, <1>5 DEF TagsInv

LEMMA QuietTags ==
    ASSUME TagsInv, UNCHANGED <<plugins, structs, enums, ext>>, turn'[1] = turn[1],
           \/ pc' \in {"raised", "crashed"}
           \/ pc' = pc /\ turn' = turn
           \/ pc = "done" /\ pc' \in {"done", "written"}
    PROVE  TagsInv'
  <1>1. \A place : ExtensionOf(place)' = ExtensionOf(place)
    BY DEF ExtensionOf
  <1> QED
    BY <1>1, SameTelling DEF TagsInv

LEMMA HandleTagsTags ==
    ASSUME OneTagPerKey, ReadInv, ShapeInv, TagsInv, HandleTags
    PROVE  TagsInv'
  <1>1. CASE pc' = "raised"
    <2>1. UNCHANGED <<plugins, structs, enums>> /\ ext' = ext /\ turn' = turn
      BY <1>1 DEF HandleTags, Stop, tables, emission, Emitting, vars
    <2> QED
      BY <1>1, <2>1, QuietTags
  <1>2. CASE pc' # "raised"
    <2>1. PICK touched :
             /\ touched = {place \in Extensible : DOMAIN Setting(place) # {}}
             /\ ext' = [place \in DOMAIN ext \cup touched |->
                           IF place \in touched THEN Extended(place) ELSE ext[place]]
             /\ turn' = <<turn[1] + 1, 0>>
             /\ UNCHANGED <<plugins, structs, enums>> /\ pc' = pc /\ pc = "done"
             /\ turn[1] \in DOMAIN plugins
      BY <1>2 DEF HandleTags, Stop, vars, tables, Extensible, Emitting
    <2>2. turn'[1] - 1 = turn[1] /\ turn[1] \in Nat \ {0}
          /\ 1 .. turn[1] - 1 \subseteq DOMAIN plugins
          /\ 1 .. turn[1] = (1 .. turn[1] - 1) \cup {turn[1]}
      BY <2>1, PluginFacts DEF ReadInv
    <2>3. ASSUME NEW place \in Extensible
          PROVE  ExtensionOf(place)' = Told(1 .. turn[1], place)
      <3>1. ExtensionOf(place) = Told(1 .. turn[1] - 1, place)
        BY <2>1 DEF TagsInv
      <3>2. Merge(ExtensionOf(place), Setting(place)) = Told(1 .. turn[1], place)
        BY <2>1, <2>2, <3>1, TellMore DEF ReadInv
      <3>3. CASE place \in touched
        BY <2>1, <3>2, <3>3 DEF ExtensionOf, Extended
      <3>4. CASE place \notin touched
        <4>1. DOMAIN Setting(place) = {}
          BY <2>1, <3>4
        <4>2. ExtensionOf(place)' = ExtensionOf(place)
          BY <2>1, <3>4 DEF ExtensionOf
        <4>3. ExtensionOf(place) = [key \in DOMAIN ExtensionOf(place) |-> ExtensionOf(place)[key]]
          BY <3>1 DEF Told
        <4>4. Merge(ExtensionOf(place), Setting(place)) = ExtensionOf(place)
          BY <4>1, <4>3 DEF Merge
        <4> QED
          BY <3>2, <4>2, <4>4
      <3> QED
        BY <3>3, <3>4
    <2>4. \A place \in DOMAIN ext' : DOMAIN ext'[place] # {}
      <3>1. \A place \in touched : DOMAIN Extended(place) # {}
        BY <2>1 DEF Extended, Merge
      <3> QED
        BY <2>1, <3>1 DEF TagsInv
    <2>5. Extensible' = Extensible
          /\ \A place : Told(1 .. turn[1], place)' = Told(1 .. turn'[1], place)
      BY <2>1, SameTelling
    <2>6. \A place \in Extensible' : ExtensionOf(place)' = Told(1 .. turn[1] - 1, place)'
      <3>1. \A G, place : Told(G, place)' = Told(G, place)
        BY <2>1, SameTelling
      <3>2. 1 .. turn'[1] - 1 = 1 .. turn[1]
        BY <2>2
      <3> QED
        BY <2>3, <2>5, <3>1, <3>2
    <2> QED
      BY <2>1, <2>4, <2>6 DEF TagsInv
  <1> QED
    BY <1>1, <1>2

LEMMA TagsStep ==
    ASSUME OneTagPerKey, ReadInv, ShapeInv, TagsInv, [EmitNext]_emitVars
    PROVE  TagsInv'
  <1>1. CASE Read
    BY <1>1, ReadTags
  <1>2. CASE EmitCode \/ MapTypes
    <2>1. UNCHANGED <<plugins, structs, enums>> /\ pc = "done" /\ pc' \in {"done", "raised", "crashed"}
      BY <1>2, PluginStep DEF tables
    <2>2. CASE EmitCode
      BY <2>1, <2>2, QuietTags DEF EmitCode, Stop, emission, NextStep
    <2>3. CASE MapTypes
      BY <2>1, <2>3, QuietTags DEF MapTypes, Stop, emission, NextStep
    <2> QED
      BY <1>2, <2>2, <2>3
  <1>3. CASE HandleTags
    BY <1>3, HandleTagsTags
  <1>4. CASE Write
    BY <1>4, QuietTags DEF Write, tables
  <1>5. CASE UNCHANGED emitVars
    BY <1>5, QuietTags DEF emitVars, vars, tables, emission
  <1> QED
    BY <1>1, <1>2, <1>3, <1>4, <1>5 DEF EmitNext

-----------------------------------------------------------------------------
(* What the parts of the file declare and define                           *)

\* Nothing but the declarations and tables has to do with extension variables.
Apart(f) == \A s \in f.declares \cup f.defines : s[1] # "ext"
ApartPart(part) == \A j \in DOMAIN part : \A x \in DOMAIN part[j] : Apart(part[j][x])

CodeInv ==
    /\ IsSequence(code) /\ ApartPart(code)
    /\ \A f \in protos : Apart(f)

LEMMA OfItsRange ==
    ASSUME NEW S, NEW s \in Seq(S)
    PROVE  IsSequence(s) /\ Len(s) \in Nat /\ DOMAIN s = 1 .. Len(s)
  <1>1. Len(s) \in Nat /\ DOMAIN s = 1 .. Len(s)
    BY LenProperties
  <1>2. \A i \in 1 .. Len(s) : s[i] \in Range(s)
    BY <1>1 DEF Range
  <1>3. SubSeq(s, 1, Len(s)) \in Seq(Range(s))
    BY <1>1, <1>2, SubSeqProperties
  <1> QED
    BY <1>1, <1>3, SubSeqFull DEF IsSequence

LEMMA OneSection ==
    ASSUME NEW a
    PROVE  IsSequence(<<a>>) /\ DOMAIN <<a>> = 1 .. 1 /\ <<a>>[1] = a
  <1>1. <<a>> \in Seq({a}) /\ Len(<<a>>) = 1 /\ <<a>>[1] = a
    OBVIOUS
  <1> QED
    BY <1>1, OfItsRange

LEMMA TwoSections ==
    ASSUME NEW a, NEW b
    PROVE  /\ IsSequence(<<a, b>>) /\ DOMAIN <<a, b>> = 1 .. 2
           /\ <<a, b>>[1] = a /\ <<a, b>>[2] = b
  <1>1. /\ <<a, b>> \in Seq({a, b}) /\ Len(<<a, b>>) = 2
        /\ <<a, b>>[1] = a /\ <<a, b>>[2] = b
    OBVIOUS
  <1> QED
    BY <1>1, OfItsRange

LEMMA JoinFacts ==
    ASSUME NEW p, NEW q, IsSequence(p), IsSequence(q)
    PROVE  /\ IsSequence(p \o q)
           /\ Len(p) \in Nat /\ DOMAIN p = 1 .. Len(p)
           /\ Len(q) \in Nat /\ DOMAIN q = 1 .. Len(q)
           /\ DOMAIN (p \o q) = 1 .. Len(p) + Len(q)
           /\ \A k \in 1 .. Len(p) + Len(q) :
                 (p \o q)[k] = IF k <= Len(p) THEN p[k] ELSE q[k - Len(p)]
  <1> DEFINE S == Range(p) \cup Range(q)
  <1>1. p \in Seq(S) /\ q \in Seq(S)
    BY SeqMonotonic DEF IsSequence
  <1> HIDE DEF S
  <1>2. /\ p \o q \in Seq(S) /\ Len(p \o q) = Len(p) + Len(q)
        /\ \A k \in 1 .. Len(p) + Len(q) :
                 (p \o q)[k] = IF k <= Len(p) THEN p[k] ELSE q[k - Len(p)]
    BY <1>1, ConcatProperties
  <1>3. /\ IsSequence(p \o q) /\ DOMAIN (p \o q) = 1 .. Len(p \o q)
        /\ Len(p) \in Nat /\ DOMAIN p = 1 .. Len(p)
        /\ Len(q) \in Nat /\ DOMAIN q = 1 .. Len(q)
    BY <1>1, <1>2, OfItsRange
  <1> QED
    BY <1>2, <1>3

LEMMA JoinApart ==
    ASSUME NEW p, NEW q, IsSequence(p), IsSequence(q), ApartPart(p), ApartPart(q)
    PROVE  IsSequence(p \o q) /\ ApartPart(p \o q)
  <1>1. ASSUME NEW k \in DOMAIN (p \o q)
        PROVE  \E r \in {p, q} : \E j \in DOMAIN r : (p \o q)[k] = r[j]
    <2>1. k \in 1 .. Len(p) + Len(q) /\ Len(p) \in Nat /\ Len(q) \in Nat
      BY JoinFacts
    <2>2. CASE k <= Len(p)
      BY <2>1, <2>2, JoinFacts
    <2>3. CASE ~ (k <= Len(p))
      <3>1. k - Len(p) \in 1 .. Len(q)
        BY <2>1, <2>3
      <3> QED
        BY <2>1, <2>3, <3>1, JoinFacts
    <2> QED
      BY <2>2, <2>3
  <1> QED
    BY <1>1, JoinFacts DEF ApartPart

LEMMA SwitchApart == \A name, cases : IsSequence(Switch(name, cases)) /\ ApartPart(Switch(name, cases))
  <1> TAKE name, cases
  <1> DEFINE body(x) == Piece({}, {Label(name, cases[x][1])}, {enumerator(cases[x][1])} \cup cases[x][2])
             head == <<Piece({}, {Fn(name)}, {})>>
             branches == [x \in DOMAIN cases |-> body(x)]
  <1>1. Apart(Piece({}, {Fn(name)}, {}))
    BY DEF Apart, Piece, Fn
  <1>2. \A x : Apart(body(x))
    BY DEF Apart, Piece, Label
  <1>3. \A x \in DOMAIN head : Apart(head[x])
    BY <1>1, OneSection
  <1> HIDE DEF body
  <1>4. \A x \in DOMAIN branches : Apart(branches[x])
    BY <1>2
  <1> HIDE DEF head, branches
  <1>5. IsSequence(<<head, branches>>) /\ ApartPart(<<head, branches>>)
    BY <1>3, <1>4, TwoSections DEF ApartPart
  <1>6. Switch(name, cases) = <<head, branches>>
    BY DEF Switch, head, branches, body
  <1> QED
    BY <1>5, <1>6

LEMMA PartsApart ==
    /\ ApartPart(generate_types)
    /\ ApartPart(generate_extension_types)
    /\ ApartPart(generate_enum_validators)
    /\ ApartPart(generate_type_setters)
    /\ ApartPart(generate_dynamic_array_accessors)
    /\ ApartPart(get_struct_metadata) /\ ApartPart(get_enum_metadata)
    /\ ApartPart(generic_type_setter) /\ ApartPart(get_name_of_type)
    /\ ApartPart(basetype_caster) /\ ApartPart(get_type_size)
  <1>1. ApartPart(generate_types)
    BY DEF ApartPart, Apart, generate_types, Piece, enumerator
  <1>2. ApartPart(generate_extension_types)
    BY DEF ApartPart, Apart, generate_extension_types, Piece
  <1>3. ApartPart(generate_enum_validators)
    <2> DEFINE validators == << [b \in Checked |-> Piece({}, {<<"is_valid", b.name>>}, {})] >>
    <2>1. ApartPart(validators)
      BY DEF ApartPart, Apart, Piece
    <2>2. IsSequence(validators)
      BY OneSection
    <2> QED
      BY <2>1, <2>2, SwitchApart, JoinApart DEF generate_enum_validators
  <1>4. ApartPart(generate_type_setters)
    BY DEF ApartPart, Apart, generate_type_setters, generate_type_setter, set_field, get_field, Piece
  <1>5. ApartPart(generate_dynamic_array_accessors)
    <2> DEFINE accessor(sf) == generate_dynamic_array_accessors[1][sf]
    <2>1. /\ DOMAIN generate_dynamic_array_accessors = {1}
          /\ DOMAIN generate_dynamic_array_accessors[1] = Dynamic
      BY DEF generate_dynamic_array_accessors
    <2>2. ASSUME NEW sf \in Dynamic
          PROVE  /\ accessor(sf).declares = {}
                 /\ \A s \in accessor(sf).defines : s[1] \in {"set_dynamic", "get_dynamic"}
      BY <2>2 DEF generate_dynamic_array_accessors, Piece
    <2>3. ASSUME NEW sf \in Dynamic
          PROVE  Apart(accessor(sf))
      BY <2>2, <2>3 DEF Apart
    <2> QED  BY <2>1, <2>3 DEF ApartPart
  <1>6. /\ ApartPart(get_struct_metadata) /\ ApartPart(get_enum_metadata)
        /\ ApartPart(generic_type_setter) /\ ApartPart(get_name_of_type)
        /\ ApartPart(basetype_caster) /\ ApartPart(get_type_size)
    BY SwitchApart, Zenon DEF get_struct_metadata, get_enum_metadata, generic_type_setter, get_name_of_type,
       basetype_caster, get_type_size
  <1> QED
    BY <1>1, <1>2, <1>3, <1>4, <1>5, <1>6

LEMMA MappedApart ==
    ASSUME NEW name \in MapperNames, NEW n, NEW f \in Mapped(name, n).func
    PROVE  Apart(f)
  <1>1. \A g, uses : g[1] # "ext" => \A h \in Function(g, uses).func : Apart(h)
    BY DEF Function, Apart, Piece
  <1>2. \A h \in None.func : FALSE
    BY DEF None
  <1>3. CASE name = "get_field_as_str"
    <2>1. \E uses : Mapped(name, n) = None \/ Mapped(name, n) = Function(<<name, Suffix(n)>>, uses)
      BY <1>3 DEF Mapped, get_field_as_str
    <2> QED
      BY <1>1, <1>2, <1>3, <2>1
  <1>4. CASE name = "set_field_from_str"
    <2>1. \E uses : Mapped(name, n) = None \/ Mapped(name, n) = Function(<<name, Suffix(n)>>, uses)
      BY <1>4 DEF Mapped, set_field_from_str
    <2> QED
      BY <1>1, <1>2, <1>4, <2>1
  <1>5. CASE name = "process_field"
    <2>1. \E uses : Mapped(name, n) = None \/ Mapped(name, n) = Function(<<name, Suffix(n)>>, uses)
      BY <1>5 DEF Mapped, process_field
    <2> QED
      BY <1>1, <1>2, <1>5, <2>1
  <1>6. CASE name \in {"json_is_string_type", "json_needs_quote", "json_is_string_array"}
    <2>1. Mapped(name, n).func = {}
      BY <1>6 DEF Mapped, json_is_string_type, json_needs_quote, json_is_string_array, TrueFor, None
    <2> QED
      BY <2>1
  <1>7. CASE name = "json_serialize_custom"
    BY <1>2, <1>7 DEF Mapped, json_serialize_custom, Apart, Piece
  <1>8. CASE name = "type_to_json"
    BY <1>2, <1>8 DEF Mapped, type_to_json, Apart, Piece
  <1>9. CASE name = "type_to_json_stream"
    BY <1>2, <1>9 DEF Mapped, type_to_json_stream, Apart, Piece
  <1> QED
    BY <1>3, <1>4, <1>5, <1>6, <1>7, <1>8, <1>9 DEF MapperNames

LEMMA PrototypeApart == \A f : Apart(f) => Apart(Prototype(f))
  BY DEF Apart, Prototype, Piece

LEMMA InitCode == EmitInit => CodeInv
  BY EmptySequence DEF EmitInit, CodeInv, ApartPart

LEMMA AppendApart ==
    ASSUME CodeInv, NEW section, \A x \in DOMAIN section : Apart(section[x])
    PROVE  IsSequence(Append(code, section)) /\ ApartPart(Append(code, section))
  <1>1. \A k \in 1 .. Len(code) + 1 : k \in 1 .. Len(code) \/ k = Len(code) + 1
    BY AppendFacts DEF CodeInv
  <1> QED
    BY <1>1, AppendFacts DEF CodeInv, ApartPart

LEMMA EmitCodeApart == CodeInv /\ EmitCode => CodeInv'
  <1> SUFFICES ASSUME CodeInv, EmitCode PROVE CodeInv'
    OBVIOUS
  <1>1. CASE UNCHANGED <<code, protos>>
    BY <1>1 DEF CodeInv
  <1>2. CASE ~ UNCHANGED <<code, protos>>
    <2> DEFINE made == [k \in DOMAIN plugin.functions |->
                          Piece({}, {Fn(plugin.functions[k].name)}, plugin.functions[k].uses)]
    <2>1. \A k \in DOMAIN made : Apart(made[k])
      BY DEF Apart, Piece, Fn
    <2>2. /\ code' = Append(code, made)
          /\ protos' = protos \cup {Prototype(f) : f \in Range(made)}
      BY <1>2 DEF EmitCode, Stop, emission
    <2> HIDE DEF made
    <2>3. \A f \in Range(made) : Apart(f)
      BY <2>1 DEF Range
    <2> QED
      BY <2>1, <2>2, <2>3, AppendApart, PrototypeApart DEF CodeInv
  <1> QED
    BY <1>1, <1>2

LEMMA RouterApart ==
    ASSUME NEW m, router = <<>>
    PROVE  /\ IsSequence(Router(m)) /\ ApartPart(Router(m))
           /\ Router(m) = <<>> \/ Apart(Router(m)[1][1])
  <1> DEFINE cases == MappedBy(m, "case")
             case(n) == Piece({}, {Label(m.name, type_map[n])},
                              {<<"enumerator", type_map[n]>>} \cup UNION Mapped(m.name, n).case)
             head == <<Piece({}, {Fn(m.name)}, m.types)>>
             branches == [n \in cases |-> case(n)]
  <1>1. Apart(Piece({}, {Fn(m.name)}, m.types))
    BY DEF Apart, Piece, Fn
  <1>2. \A n : Apart(case(n))
    BY DEF Apart, Piece, Label
  <1>3. \A x \in DOMAIN head : Apart(head[x])
    BY <1>1, OneSection
  <1>4. Apart(head[1])
    BY <1>1, OneSection
  <1> HIDE DEF case
  <1>5. \A x \in DOMAIN branches : Apart(branches[x])
    BY <1>2
  <1> HIDE DEF head, branches
  <1>6. /\ IsSequence(<<head, branches>>) /\ ApartPart(<<head, branches>>)
        /\ <<head, branches>>[1] = head
    BY <1>3, <1>5, TwoSections DEF ApartPart
  <1>7. Router(m) = router \/ Router(m) = <<head, branches>>
    BY DEF Router, head, branches, case
  <1>8. IsSequence(<<>>) /\ ApartPart(<<>>)
    BY EmptySequence DEF ApartPart
  <1> QED
    BY <1>4, <1>6, <1>7, <1>8

LEMMA MapTypesApart == WhereInv /\ TurnInv /\ CodeInv /\ MapTypes => CodeInv'
  <1> SUFFICES ASSUME WhereInv, TurnInv, CodeInv, MapTypes PROVE CodeInv'
    OBVIOUS
  <1>1. CASE UNCHANGED <<code, protos>>
    BY <1>1 DEF CodeInv
  <1>2. CASE ~ UNCHANGED <<code, protos>>
    <2> DEFINE m == plugin.mappers[turn[2]]
               functions == UNION {Mapped(m.name, n).func : n \in Types}
               bodies == {f \in functions : f.defines # {}}
               routed == Router(m)
               written == [f \in bodies |-> f]
    <2>1. /\ code' = Append(code, written) \o routed
          /\ protos' = protos \cup {Prototype(f) : f \in functions}
                              \cup (IF routed = <<>> THEN {} ELSE {Prototype(routed[1][1])})
      <3>1. ~ Stop("crashed")
        BY <1>2 DEF Stop, emission
      <3> QED
        BY <3>1, Zenon DEF MapTypes
    <2>2. m.name \in MapperNames
      <3>1. turn[1] \in DOMAIN plugins /\ turn[2] \in DOMAIN plugins[turn[1]].mappers
        BY DEF MapTypes, Emitting, plugin
      <3>2. PICK r \in Runs : plugins = r[2]
        BY DEF WhereInv
      <3>3. \A k \in DOMAIN r[2] : \A x \in Range(r[2][k].mappers) : x.name \in MapperNames
        BY PluginsAssumption DEF PluginsAssumption
      <3> QED
        BY <3>1, <3>2, <3>3 DEF plugin, Range
    <2>3. \A f \in functions : Apart(f)
      BY <2>2, MappedApart
    <2>4. IsSequence(routed) /\ ApartPart(routed) /\ (routed = <<>> \/ Apart(routed[1][1]))
      BY RouterApart DEF TurnInv
    <2> HIDE DEF functions, routed
    <2>5. \A f \in DOMAIN written : Apart(written[f])
      BY <2>3
    <2> HIDE DEF written
    <2>6. IsSequence(Append(code, written)) /\ ApartPart(Append(code, written))
      BY <2>5, AppendApart
    <2>7. IsSequence(code') /\ ApartPart(code')
      BY <2>1, <2>4, <2>6, JoinApart
    <2> QED
      BY <2>1, <2>3, <2>4, <2>7, PrototypeApart DEF CodeInv
  <1> QED
    BY <1>1, <1>2

-----------------------------------------------------------------------------
(* What is written                                                         *)

\* The text is made of what there was when it was written, after all plugins.
WrittenInv == pc = "written" => text = Sections /\ turn[1] \notin DOMAIN plugins

LEMMA SameSections ==
    ASSUME UNCHANGED <<plugins, tables, protos, code, ext>>
    PROVE  Sections' = Sections
  <1>1. UNCHANGED generate_types
    BY DEF tables, generate_types, Enumerators
  <1>2. UNCHANGED generate_plugin_headers
    BY DEF generate_plugin_headers
  <1>3. UNCHANGED generate_extension_types
    BY DEF generate_extension_types, Defined
  <1>4. \A c, b : ExtVars(c, b)' = ExtVars(c, b)
    BY DEF tables, ExtVars, ExtVar
  <1>5. UNCHANGED generate_declarations
    BY <1>4 DEF tables, generate_declarations, Defined
  <1>6. Checked' = Checked /\ Types' = Types
    BY DEF tables, Checked, Types
  <1>7. \A name, cases : Switch(name, cases)' = Switch(name, cases)
    BY DEF Switch
  <1>8. UNCHANGED generate_enum_validators
    BY <1>6 DEF tables, generate_enum_validators, Switch
  <1>9. UNCHANGED generate_type_setters
    BY <1>6 DEF tables, generate_type_setters, generate_type_setter
  <1>10. Dynamic' = Dynamic
    BY DEF tables, Dynamic, FieldsOf
  <1>11. UNCHANGED generate_dynamic_array_accessors
    BY <1>10 DEF tables, generate_dynamic_array_accessors, FieldsOf
  <1>12. UNCHANGED generate_tables
    BY <1>4 DEF tables, generate_tables, StructTable, MembersTable, FieldsOf
  <1>13. UNCHANGED get_struct_metadata
    BY <1>6 DEF tables, get_struct_metadata, Switch, IsStruct, Named
  <1>14. UNCHANGED get_enum_metadata
    BY <1>6 DEF tables, get_enum_metadata, Switch, IsEnum, Named
  <1>15. UNCHANGED generic_type_setter
    BY <1>6 DEF tables, generic_type_setter, Switch
  <1>16. UNCHANGED get_name_of_type
    BY DEF tables, get_name_of_type, Switch, Enumerators
  <1>17. UNCHANGED basetype_caster
    BY <1>6 DEF tables, basetype_caster, Switch, base_type, TypesNamed
  <1>18. UNCHANGED get_type_size
    BY <1>6 DEF tables, get_type_size, Switch
  <1> QED
    BY <1>1, <1>2, <1>3, <1>5, <1>8, <1>9, <1>11, <1>12, <1>13, <1>14, <1>15, <1>16, <1>17, <1>18
    DEF Sections

LEMMA SectionsStep ==
    ASSUME ReadInv, ShapeInv, CodeInv, WrittenInv, [EmitNext]_emitVars
    PROVE  CodeInv' /\ WrittenInv'
  <1>1. CASE Read
    <2>1. UNCHANGED <<code, protos>> /\ pc' # "written"
      BY <1>1 DEF Read, emission, Next, ReadText, EndFile, SkipBlock, OpenBlock, ReadLine, CloseBlock,
         EndOfFiles, ResolveField, NextStruct, Validate, Raise, Reading
    <2> QED
      BY <2>1 DEF CodeInv, WrittenInv
  <1>2. CASE EmitCode \/ MapTypes \/ HandleTags
    <2>1. pc' # "written"
      BY <1>2, PluginStep
    <2>2. CASE EmitCode
      BY <2>1, <2>2, EmitCodeApart DEF WrittenInv
    <2>3. CASE MapTypes
      BY <2>1, <2>3, MapTypesApart DEF WrittenInv, ReadInv, ShapeInv
    <2>4. CASE HandleTags
      BY <2>1, <2>4 DEF HandleTags, Stop, emission, CodeInv, WrittenInv
    <2> QED
      BY <1>2, <2>2, <2>3, <2>4
  <1>3. CASE Write
    <2>1. UNCHANGED <<plugins, tables, protos, code, ext>> /\ text' = Sections
      BY <1>3 DEF Write
    <2>2. UNCHANGED <<turn, code, protos>> /\ turn[1] \notin DOMAIN plugins
      BY <1>3 DEF Write
    <2> QED
      BY <2>1, <2>2, SameSections DEF CodeInv, WrittenInv
  <1>4. CASE UNCHANGED emitVars
    <2>1. UNCHANGED <<plugins, tables, protos, code, ext, pc, text, turn>>
      BY <1>4 DEF emitVars, vars, emission
    <2> QED
      BY <2>1, SameSections DEF CodeInv, WrittenInv
  <1> QED
    BY <1>1, <1>2, <1>3, <1>4 DEF EmitNext

Declares(part, s) == \E j \in DOMAIN part : \E x \in DOMAIN part[j] : s \in part[j][x].declares
Defines(part, s) == \E j \in DOMAIN part : \E x \in DOMAIN part[j] : s \in part[j][x].defines
ExtVarsOf(s) == \/ \E b \in DOMAIN structs : s \in ExtVars("field", b)
                \/ \E b \in DOMAIN enums : s \in ExtVars("member", b)

LEMMA ThreeSections ==
    ASSUME NEW a, NEW b, NEW c
    PROVE  /\ DOMAIN <<a, b, c>> = 1 .. 3
           /\ <<a, b, c>>[1] = a /\ <<a, b, c>>[2] = b /\ <<a, b, c>>[3] = c
  OBVIOUS

LEMMA DeclarationsOf ==
    ASSUME NEW s, s[1] = "ext"
    PROVE  /\ Declares(generate_declarations, s) <=> ExtVarsOf(s)
           /\ ~ Defines(generate_declarations, s)
  <1> DEFINE A == [b \in DOMAIN structs |->
                     Piece({<<"table", structs[b].name>>} \cup ExtVars("field", b), {}, {})]
             B == [b \in DOMAIN enums |->
                     Piece({EnumTable(Plain(enums[b].name))} \cup ExtVars("member", b), {}, {})]
             C == <<Piece({}, {<<"GET_EXT", c>> : c \in {d \in {"field", "member"} : Defined(d) # {}}}, {})>>
  <1>1. generate_declarations = <<A, B, C>>
    BY DEF generate_declarations
  <1>2. \A x \in DOMAIN A : /\ s \in A[x].declares <=> s \in ExtVars("field", x)
                            /\ s \notin A[x].defines
    BY DEF Piece
  <1>3. \A x \in DOMAIN B : /\ s \in B[x].declares <=> s \in ExtVars("member", x)
                            /\ s \notin B[x].defines
    BY DEF Piece, EnumTable
  <1>4. \A x \in DOMAIN C : s \notin C[x].declares /\ s \notin C[x].defines
    BY DEF Piece
  <1>5. DOMAIN A = DOMAIN structs /\ DOMAIN B = DOMAIN enums
    OBVIOUS
  <1> HIDE DEF A, B, C
  <1>6. \A j \in DOMAIN generate_declarations :
           \/ j = 1 /\ generate_declarations[j] = A
           \/ j = 2 /\ generate_declarations[j] = B
           \/ j = 3 /\ generate_declarations[j] = C
    BY <1>1, ThreeSections
  <1>7. /\ 1 \in DOMAIN generate_declarations /\ generate_declarations[1] = A
        /\ 2 \in DOMAIN generate_declarations /\ generate_declarations[2] = B
    BY <1>1, ThreeSections
  <1>8. ~ Defines(generate_declarations, s)
    BY <1>2, <1>3, <1>4, <1>6 DEF Defines
  <1>9. Declares(generate_declarations, s) => ExtVarsOf(s)
    BY <1>2, <1>3, <1>4, <1>5, <1>6 DEF Declares, ExtVarsOf
  <1>10. ExtVarsOf(s) => Declares(generate_declarations, s)
    BY <1>2, <1>3, <1>5, <1>7 DEF Declares, ExtVarsOf
  <1> QED
    BY <1>8, <1>9, <1>10

LEMMA TablesOf ==
    ASSUME NEW s, s[1] = "ext"
    PROVE  /\ Defines(generate_tables, s) <=> ExtVarsOf(s)
           /\ ~ Declares(generate_tables, s)
  <1> DEFINE A == [b \in DOMAIN structs |-> StructTable(b)]
             B == [b \in DOMAIN enums |-> MembersTable(b)]
  <1>1. generate_tables = <<A, B>>
    BY DEF generate_tables
  <1>2. \A x \in DOMAIN A : /\ s \in A[x].defines <=> s \in ExtVars("field", x)
                            /\ s \notin A[x].declares
    BY DEF Piece, StructTable
  <1>3. \A x \in DOMAIN B : /\ s \in B[x].defines <=> s \in ExtVars("member", x)
                            /\ s \notin B[x].declares
    BY DEF Piece, EnumTable, MembersTable
  <1>4. DOMAIN A = DOMAIN structs /\ DOMAIN B = DOMAIN enums
    OBVIOUS
  <1> HIDE DEF A, B
  <1>5. /\ DOMAIN generate_tables = 1 .. 2
        /\ generate_tables[1] = A /\ generate_tables[2] = B
    BY <1>1, TwoSections
  <1>6. ~ Declares(generate_tables, s)
    BY <1>2, <1>3, <1>5 DEF Declares
  <1>7. Defines(generate_tables, s) => ExtVarsOf(s)
    BY <1>2, <1>3, <1>4, <1>5 DEF Defines, ExtVarsOf
  <1>8. ExtVarsOf(s) => Defines(generate_tables, s)
    BY <1>2, <1>3, <1>4, <1>5 DEF Defines, ExtVarsOf
  <1> QED
    BY <1>6, <1>7, <1>8

LEMMA OthersOf ==
    ASSUME NEW part, ApartPart(part), NEW s, s[1] = "ext"
    PROVE  ~ Declares(part, s) /\ ~ Defines(part, s)
  BY DEF ApartPart, Apart, Declares, Defines

LEMMA HeadersApart ==
    ASSUME WhereInv, CodeInv
    PROVE  ApartPart(generate_plugin_headers)
  <1> DEFINE header == Piece({}, UNION {q.header : q \in Range(plugins)}, {})
             A == <<header>>
             B == [f \in protos |-> f]
  <1>1. Apart(header)
    <2>1. PICK r \in Runs : plugins = r[2]
      BY DEF WhereInv
    <2>2. \A k \in DOMAIN plugins : \A s \in plugins[k].header : s[1] = "header"
      BY <2>1, PluginsAssumption DEF PluginsAssumption
    <2>3. \A q \in Range(plugins) : \A s \in q.header : s[1] # "ext"
      BY <2>2 DEF Range
    <2> QED
      BY <2>3 DEF Apart, Piece
  <1>2. \A x \in DOMAIN A : Apart(A[x])
    BY <1>1, OneSection
  <1>3. \A x \in DOMAIN B : Apart(B[x])
    BY DEF CodeInv
  <1>4. generate_plugin_headers = <<A, B>>
    BY DEF generate_plugin_headers
  <1> HIDE DEF A, B
  <1> QED
    BY <1>2, <1>3, <1>4, TwoSections DEF ApartPart

LEMMA SpotIs ==
    ASSUME NEW q
    PROVE  q \in Spots <=> \E i \in DOMAIN text : \E j \in DOMAIN text[i] :
                              \E x \in DOMAIN text[i][j] : q = <<i, j, x>>
  <1> DEFINE inSection(i, j) == {<<i, j, x>> : x \in DOMAIN text[i][j]}
             inPart(i) == UNION {inSection(i, j) : j \in DOMAIN text[i]}
  <1>1. \A i, j : q \in inSection(i, j) <=> \E x \in DOMAIN text[i][j] : q = <<i, j, x>>
    OBVIOUS
  <1> HIDE DEF inSection
  <1>2. \A i : q \in inPart(i) <=> \E j \in DOMAIN text[i] : q \in inSection(i, j)
    OBVIOUS
  <1> HIDE DEF inPart
  <1>3. Spots = UNION {inPart(i) : i \in DOMAIN text}
    BY DEF Spots, inPart, inSection
  <1> QED
    BY <1>1, <1>2, <1>3

LEMMA SpotsMention ==
    ASSUME NEW s
    PROVE  /\ (\E q \in Spots : s \in PieceAt(q).declares) <=> \E i \in DOMAIN text : Declares(text[i], s)
           /\ (\E q \in Spots : s \in PieceAt(q).defines) <=> \E i \in DOMAIN text : Defines(text[i], s)
  <1>1. \A i, j, x : PieceAt(<<i, j, x>>) = text[i][j][x]
    BY DEF PieceAt
  <1>2. \A i \in DOMAIN text : \A j \in DOMAIN text[i] : \A x \in DOMAIN text[i][j] : <<i, j, x>> \in Spots
    BY SpotIs
  <1>3. \A q \in Spots : \E i \in DOMAIN text : \E j \in DOMAIN text[i] :
                              \E x \in DOMAIN text[i][j] : PieceAt(q) = text[i][j][x]
    BY <1>1, SpotIs
  <1>4. ASSUME NEW q \in Spots
        PROVE  /\ s \in PieceAt(q).declares => \E i \in DOMAIN text : Declares(text[i], s)
               /\ s \in PieceAt(q).defines => \E i \in DOMAIN text : Defines(text[i], s)
    BY <1>3 DEF Declares, Defines
  <1>5. ASSUME NEW i \in DOMAIN text, Declares(text[i], s)
        PROVE  \E q \in Spots : s \in PieceAt(q).declares
    <2>1. PICK j \in DOMAIN text[i] : \E x \in DOMAIN text[i][j] : s \in text[i][j][x].declares
      BY <1>5 DEF Declares
    <2>2. PICK x \in DOMAIN text[i][j] : s \in text[i][j][x].declares
      BY <2>1
    <2> QED
      <3>1. PieceAt(<<i, j, x>>) = text[i][j][x] /\ <<i, j, x>> \in Spots
        BY <1>1, <1>2
      <3> QED
        BY <2>2, <3>1
  <1>6. ASSUME NEW i \in DOMAIN text, Defines(text[i], s)
        PROVE  \E q \in Spots : s \in PieceAt(q).defines
    <2>1. PICK j \in DOMAIN text[i] : \E x \in DOMAIN text[i][j] : s \in text[i][j][x].defines
      BY <1>6 DEF Defines
    <2>2. PICK x \in DOMAIN text[i][j] : s \in text[i][j][x].defines
      BY <2>1
    <2> QED
      <3>1. PieceAt(<<i, j, x>>) = text[i][j][x] /\ <<i, j, x>> \in Spots
        BY <1>1, <1>2
      <3> QED
        BY <2>2, <3>1
  <1> QED
    BY <1>4, <1>5, <1>6

LEMMA PartsWritten ==
    ASSUME pc = "written", WrittenInv
    PROVE  /\ DOMAIN text = 1 .. 15
           /\ text[1] = generate_types /\ text[2] = generate_plugin_headers
           /\ text[3] = generate_extension_types /\ text[4] = generate_declarations
           /\ text[5] = generate_enum_validators /\ text[6] = generate_type_setters
           /\ text[7] = generate_dynamic_array_accessors /\ text[8] = code
           /\ text[9] = generate_tables /\ text[10] = get_struct_metadata
           /\ text[11] = get_enum_metadata /\ text[12] = generic_type_setter
           /\ text[13] = get_name_of_type /\ text[14] = basetype_caster /\ text[15] = get_type_size
  BY DEF WrittenInv, Sections

\* An extension variable stands in the declarations and in the tables only.
LEMMA ExtSpots ==
    ASSUME pc = "written", WhereInv, CodeInv, WrittenInv, NEW s, s[1] = "ext"
    PROVE  /\ (\E q \in Spots : s \in PieceAt(q).declares) <=> ExtVarsOf(s)
           /\ (\E q \in Spots : s \in PieceAt(q).defines) <=> ExtVarsOf(s)
  <1>1. ASSUME NEW i \in DOMAIN text, i # 4, i # 9
        PROVE  ~ Declares(text[i], s) /\ ~ Defines(text[i], s)
    <2>1. i \in 1 .. 15
      BY PartsWritten
    <2>2. i \in {1, 2, 3, 5, 6, 7, 8, 10, 11, 12, 13, 14, 15}
      BY <1>1, <2>1
    <2>3. ApartPart(text[i])
      BY <2>2, PartsWritten, PartsApart, HeadersApart DEF CodeInv
    <2> QED
      BY <2>3, OthersOf
  <1>2. 4 \in DOMAIN text /\ 9 \in DOMAIN text
    BY PartsWritten
  <1>3. /\ Declares(text[4], s) <=> ExtVarsOf(s)
        /\ ~ Defines(text[4], s)
    BY PartsWritten, DeclarationsOf
  <1>4. /\ Defines(text[9], s) <=> ExtVarsOf(s)
        /\ ~ Declares(text[9], s)
    BY PartsWritten, TablesOf
  <1> QED
    BY <1>1, <1>2, <1>3, <1>4, SpotsMention

LEMMA ExtVarsWritten ==
    ASSUME ExtInv, NEW s
    PROVE  ExtVarsOf(s) <=> \E e \in DOMAIN ext : ExtVar(e) = s
  <1>1. \A c, b : s \in ExtVars(c, b) <=> \E e \in DOMAIN ext : e[1] = c /\ e[2] = b /\ ExtVar(e) = s
    BY DEF ExtVars
  <1>2. ASSUME NEW e \in DOMAIN ext
        PROVE  \/ e[1] = "field" /\ e[2] \in DOMAIN structs
               \/ e[1] = "member" /\ e[2] \in DOMAIN enums
    <2>1. e \in Places("field") \/ e \in Places("member")
      BY DEF ExtInv
    <2> QED
      BY <2>1 DEF Places
  <1> QED
    BY <1>1, <1>2 DEF ExtVarsOf

LEMMA TaggedIsWritten ==
    ASSUME OneTagPerKey, ReadInv, ShapeInv, TagsInv, CodeInv, WrittenInv
    PROVE  TagsReachTheTables
  <1> SUFFICES ASSUME pc = "written"
               PROVE  TagsReachTheTables
    BY DEF TagsReachTheTables
  <1> DEFINE G == DOMAIN plugins
             tagOf(place, key) == CHOOSE t \in DOMAIN TagsAt(place) : key \in KeysBy(place[1], t)
  <1>1. 1 .. turn[1] - 1 = G
    BY PluginFacts DEF ReadInv, ShapeInv, TurnInv, WrittenInv
  <1>2. \A c, t : KeysBy(c, t) = KeysOf(G, c, t)
    BY DEF KeysBy, KeysOf, Tellers, Range
  <1>3. \A place : KeysAt(place) = AllKeys(G, place)
    BY <1>2 DEF KeysAt, AllKeys
  <1>4. ASSUME NEW place \in Extensible
        PROVE  ExtensionOf(place) = [key \in KeysAt(place) |-> TagsAt(place)[tagOf(place, key)]]
    <2>1. ASSUME NEW key \in KeysAt(place)
          PROVE  Told(G, place)[key] = TagsAt(place)[tagOf(place, key)]
      <3>1. \E t \in DOMAIN TagsAt(place) : key \in KeysBy(place[1], t)
        BY DEF KeysAt
      <3>2. /\ tagOf(place, key) \in DOMAIN TagsAt(place)
            /\ key \in KeysBy(place[1], tagOf(place, key))
        BY <3>1
      <3> QED
        BY <1>2, <3>2, ToldValue DEF ReadInv
    <2>2. ExtensionOf(place) = Told(G, place)
      BY <1>1 DEF TagsInv
    <2>3. Told(G, place) = [key \in KeysAt(place) |-> Told(G, place)[key]]
      BY <1>3 DEF Told
    <2> HIDE DEF tagOf
    <2> QED
      BY <2>1, <2>2, <2>3
  <1>5. ASSUME NEW place \in Extensible
        PROVE  place \in DOMAIN ext <=> KeysAt(place) # {}
    <2>1. DOMAIN ExtensionOf(place) = KeysAt(place)
      BY <1>4
    <2>2. DOMAIN ExtensionOf(place) # {} <=> place \in DOMAIN ext
      BY EmptySequence DEF ExtensionOf, TagsInv
    <2> QED
      BY <2>1, <2>2
  <1>6. ASSUME ExtVarsDiffer, NEW place \in Extensible
        PROVE  /\ KeysAt(place) # {} <=> \E q \in Spots : ExtVar(place) \in PieceAt(q).declares
               /\ KeysAt(place) # {} <=> \E q \in Spots : ExtVar(place) \in PieceAt(q).defines
    <2>1. ExtVar(place)[1] = "ext"
      BY DEF ExtVar
    <2>2. ExtVarsOf(ExtVar(place)) <=> place \in DOMAIN ext
      BY <1>6, ExtVarsWritten DEF ExtVarsDiffer, Extensible, ShapeInv, ExtInv
    <2> QED
      BY <1>5, <2>1, <2>2, ExtSpots DEF ReadInv
  <1> QED
    BY <1>4, <1>6 DEF TagsReachTheTables, Extensible

\* When authors give each extension key to one tag, every member's extension
\* data is what its tags say, and its variable is declared, defined and in the
\* table exactly when there is some (generate_plugin_extensions,
\* generate_declarations and generate_tables, in any order of plugins).
THEOREM TagsArrive == OneTagPerKey /\ EmitSpec => []TagsReachTheTables
  <1> DEFINE I == ReadInv /\ ShapeInv /\ TagsInv /\ CodeInv /\ WrittenInv
  <1> SUFFICES ASSUME OneTagPerKey
               PROVE  EmitSpec => []TagsReachTheTables
    OBVIOUS
  <1>1. EmitInit => WrittenInv
    BY DEF EmitInit, Init, WrittenInv
  <1>2. EmitInit => I
    BY <1>1, InitRead, InitShape, InitTags, InitCode
  <1>3. I /\ [EmitNext]_emitVars => I'
    BY EmitStep, ShapeStep, TagsStep, SectionsStep
  <1>4. I => TagsReachTheTables
    BY TaggedIsWritten
  <1> QED
    BY <1>2, <1>3, <1>4, PTL DEF EmitSpec

-----------------------------------------------------------------------------
(* The names of blocks                                                     *)

\* No two blocks that are kept have one name.
NamesDiffer(blocks) == \A b, c \in DOMAIN blocks : blocks[b].name = blocks[c].name => b = c
UniqueInv == NamesDiffer(structs) /\ NamesDiffer(enums)

LEMMA AddKeepsNames ==
    ASSUME NEW kept, IsSequence(kept), NamesDiffer(kept), NEW block
    PROVE  NamesDiffer(AddIfUnique(kept, block))
  <1>1. CASE \E b \in Range(kept) : b.name = block.name
    BY <1>1 DEF AddIfUnique
  <1>2. CASE ~ \E b \in Range(kept) : b.name = block.name
    <2>1. AddIfUnique(kept, block) = Append(kept, block)
      BY <1>2 DEF AddIfUnique
    <2>2. \A b \in DOMAIN kept : kept[b].name # block.name
      BY <1>2 DEF Range
    <2>3. \A b \in 1 .. Len(kept) + 1 : b \in 1 .. Len(kept) \/ b = Len(kept) + 1
      BY AppendFacts
    <2> QED
      BY <2>1, <2>2, <2>3, AppendFacts DEF NamesDiffer
  <1> QED
    BY <1>1, <1>2

LEMMA InitUnique == EmitInit => UniqueInv
  BY EmptySequence DEF EmitInit, Init, UniqueInv, NamesDiffer

LEMMA UniqueStep ==
    ASSUME ReadInv, UniqueInv, [EmitNext]_emitVars
    PROVE  UniqueInv'
  <1>1. CASE UNCHANGED <<structs, enums>>
    BY <1>1 DEF UniqueInv, NamesDiffer
  <1>2. CASE CloseBlock
    <2>1. pc = "body"
      BY <1>2 DEF CloseBlock, Reading
    <2>2. IsSequence(structs) /\ IsSequence(enums)
      BY <2>1 DEF ReadInv, KeptInv, Live, KeptOf, BlockKinds
    <2>3. \/ \E block : structs' = AddIfUnique(structs, block) /\ enums' = enums
          \/ \E block : enums' = AddIfUnique(enums, block) /\ structs' = structs
      BY <1>2 DEF CloseBlock
    <2> QED
      BY <2>2, <2>3, AddKeepsNames DEF UniqueInv
  <1>3. Read => UNCHANGED <<structs, enums>> \/ CloseBlock
    BY DEF Read, Next, ReadText, EndFile, SkipBlock, OpenBlock, ReadLine, EndOfFiles,
       ResolveField, NextStruct, Validate, Raise, tables
  <1>4. EmitCode \/ MapTypes \/ HandleTags \/ Write \/ UNCHANGED emitVars => UNCHANGED <<structs, enums>>
    BY PluginStep DEF Write, tables, emitVars, vars
  <1> QED
    BY <1>1, <1>2, <1>3, <1>4 DEF EmitNext

-----------------------------------------------------------------------------
(* Parts in which nothing is defined twice                                 *)

Once(part) ==
    \A j, l \in DOMAIN part : \A x \in DOMAIN part[j], y \in DOMAIN part[l] :
        \A s : s \in part[j][x].defines /\ s \in part[l][y].defines => j = l /\ x = y

LEMMA JoinDefines ==
    ASSUME NEW p, NEW q, IsSequence(p), IsSequence(q), NEW s
    PROVE  Defines(p \o q, s) <=> Defines(p, s) \/ Defines(q, s)
  <1>1. ASSUME Defines(p \o q, s) PROVE Defines(p, s) \/ Defines(q, s)
    <2>1. PICK k \in DOMAIN (p \o q) : \E x \in DOMAIN (p \o q)[k] : s \in (p \o q)[k][x].defines
      BY <1>1 DEF Defines
    <2>2. k \in 1 .. Len(p) + Len(q) /\ Len(p) \in Nat /\ Len(q) \in Nat
      BY JoinFacts
    <2>3. CASE k <= Len(p)
      <3>1. k \in DOMAIN p /\ (p \o q)[k] = p[k]
        BY <2>2, <2>3, JoinFacts
      <3> QED
        BY <2>1, <3>1 DEF Defines
    <2>4. CASE ~ (k <= Len(p))
      <3>1. k - Len(p) \in DOMAIN q /\ (p \o q)[k] = q[k - Len(p)]
        BY <2>2, <2>4, JoinFacts
      <3> QED
        BY <2>1, <3>1 DEF Defines
    <2> QED
      BY <2>3, <2>4
  <1>2. ASSUME Defines(p, s) PROVE Defines(p \o q, s)
    <2>1. PICK k \in DOMAIN p : \E x \in DOMAIN p[k] : s \in p[k][x].defines
      BY <1>2 DEF Defines
    <2>2. k \in DOMAIN (p \o q) /\ (p \o q)[k] = p[k]
      BY JoinFacts
    <2> QED
      BY <2>1, <2>2 DEF Defines
  <1>3. ASSUME Defines(q, s) PROVE Defines(p \o q, s)
    <2>1. PICK k \in DOMAIN q : \E x \in DOMAIN q[k] : s \in q[k][x].defines
      BY <1>3 DEF Defines
    <2>2. k \in 1 .. Len(q) /\ Len(p) \in Nat /\ Len(q) \in Nat
      BY JoinFacts
    <2>3. k + Len(p) \in 1 .. Len(p) + Len(q) /\ ~ (k + Len(p) <= Len(p)) /\ k + Len(p) - Len(p) = k
      BY <2>2
    <2>4. k + Len(p) \in DOMAIN (p \o q) /\ (p \o q)[k + Len(p)] = q[k]
      BY <2>3, JoinFacts
    <2> QED
      BY <2>1, <2>4 DEF Defines
  <1> QED
    BY <1>1, <1>2, <1>3

LEMMA JoinOnce ==
    ASSUME NEW p, NEW q, IsSequence(p), IsSequence(q), Once(p), Once(q),
           \A s : ~ (Defines(p, s) /\ Defines(q, s))
    PROVE  Once(p \o q)
  <1> SUFFICES ASSUME NEW j \in DOMAIN (p \o q), NEW l \in DOMAIN (p \o q),
                      NEW x \in DOMAIN (p \o q)[j], NEW y \in DOMAIN (p \o q)[l],
                      NEW s, s \in (p \o q)[j][x].defines, s \in (p \o q)[l][y].defines
               PROVE  j = l /\ x = y
    BY DEF Once
  <1>1. /\ j \in 1 .. Len(p) + Len(q) /\ l \in 1 .. Len(p) + Len(q)
        /\ Len(p) \in Nat /\ Len(q) \in Nat
    BY JoinFacts
  <1>2. ASSUME NEW k \in 1 .. Len(p) + Len(q)
        PROVE  \/ k <= Len(p) /\ k \in DOMAIN p /\ (p \o q)[k] = p[k]
               \/ ~ (k <= Len(p)) /\ k - Len(p) \in DOMAIN q /\ (p \o q)[k] = q[k - Len(p)]
    BY <1>1, JoinFacts
  <1>3. CASE j <= Len(p) /\ l <= Len(p)
    BY <1>1, <1>2, <1>3 DEF Once
  <1>4. CASE ~ (j <= Len(p)) /\ ~ (l <= Len(p))
    <2>1. j - Len(p) = l - Len(p) /\ x = y
      BY <1>1, <1>2, <1>4 DEF Once
    <2> QED
      BY <1>1, <2>1
  <1>5. CASE j <= Len(p) /\ ~ (l <= Len(p))
    <2>1. Defines(p, s) /\ Defines(q, s)
      BY <1>1, <1>2, <1>5 DEF Defines
    <2> QED
      BY <2>1
  <1>6. CASE ~ (j <= Len(p)) /\ l <= Len(p)
    <2>1. Defines(p, s) /\ Defines(q, s)
      BY <1>1, <1>2, <1>6 DEF Defines
    <2> QED
      BY <2>1
  <1> QED
    BY <1>3, <1>4, <1>5, <1>6

\* A part of one section
LEMMA OneOnce ==
    ASSUME NEW section,
           \A x, y \in DOMAIN section : \A s :
               s \in section[x].defines /\ s \in section[y].defines => x = y
    PROVE  Once(<<section>>)
  BY OneSection DEF Once

LEMMA OneDefines ==
    ASSUME NEW section, NEW s
    PROVE  Defines(<<section>>, s) <=> \E x \in DOMAIN section : s \in section[x].defines
  BY OneSection DEF Defines

LEMMA SwitchOnce ==
    ASSUME NEW name, NEW cases, \A x, y \in DOMAIN cases : cases[x][1] = cases[y][1] => x = y
    PROVE  /\ Once(Switch(name, cases))
           /\ \A s : Defines(Switch(name, cases), s) => s[1] \in {"fn", "case"} /\ s[2] = name
  <1> DEFINE body(x) == Piece({}, {Label(name, cases[x][1])}, {enumerator(cases[x][1])} \cup cases[x][2])
             head == <<Piece({}, {Fn(name)}, {})>>
             branches == [x \in DOMAIN cases |-> body(x)]
  <1>1. DOMAIN head = 1 .. 1 /\ head[1].defines = {Fn(name)}
    BY OneSection DEF Piece
  <1>2. \A x \in DOMAIN branches : branches[x].defines = {Label(name, cases[x][1])}
    BY DEF Piece
  <1>3. DOMAIN branches = DOMAIN cases
    OBVIOUS
  <1>4. Switch(name, cases) = <<head, branches>>
    BY DEF Switch
  <1> HIDE DEF head, branches
  <1>5. \A s : s \in {Fn(name)} => s[1] = "fn" /\ s[2] = name
    BY DEF Fn
  <1>6. \A e : Label(name, e)[1] = "case" /\ Label(name, e)[2] = name /\ Label(name, e)[3] = e
    BY DEF Label
  <1>7. Once(<<head, branches>>)
    <2>1. \A x, y \in DOMAIN head : x = y
      BY <1>1
    <2>2. \A x, y \in DOMAIN branches : \A s : s \in branches[x].defines /\ s \in branches[y].defines => x = y
      BY <1>2, <1>3, <1>6
    <2>3. \A x \in DOMAIN head, y \in DOMAIN branches : \A s :
             ~ (s \in head[x].defines /\ s \in branches[y].defines)
      BY <1>1, <1>2, <1>5, <1>6
    <2> QED
      BY <2>1, <2>2, <2>3, TwoSections DEF Once
  <1>8. \A s : Defines(<<head, branches>>, s) => s[1] \in {"fn", "case"} /\ s[2] = name
    BY <1>1, <1>2, <1>5, <1>6, TwoSections DEF Defines
  <1> QED
    BY <1>4, <1>7, <1>8

-----------------------------------------------------------------------------
(* Which part of the file a symbol belongs to                              *)

SwitchPart(name) ==
    IF name = "enum_is_checked" THEN 5
    ELSE IF name = "get_struct_metadata" THEN 10
    ELSE IF name = "get_enum_metadata" THEN 11
    ELSE IF name = "safe_set_field" THEN 12
    ELSE IF name = "get_name_of_type" THEN 13
    ELSE IF name = "get_base_type" THEN 14
    ELSE IF name = "get_type_size" THEN 15
    ELSE 8

\* The plugins have what is not the generator's own.
PartOf(s) ==
    IF s[1] \in {"fn", "case"} THEN SwitchPart(s[2])
    ELSE IF s[1] = "enumerator" THEN 1
    ELSE IF s[1] = "header" THEN 2
    ELSE IF s[1] = "extension" THEN 3
    ELSE IF s[1] = "GET_EXT" THEN 4
    ELSE IF s[1] = "is_valid" THEN 5
    ELSE IF s[1] \in {"set_field", "get_field", "get_field_elem"} THEN 6
    ELSE IF s[1] \in {"set_dynamic", "get_dynamic"} THEN 7
    ELSE IF s[1] \in {"table", "members", "ext"} THEN 9
    ELSE 8

\* A part with its symbols, each once
Own(part, i) == Once(part) /\ \A s : Defines(part, s) => PartOf(s) = i

\* The blocks kept, and the one being read, have their types; an entry of
\* type_enum is a struct and a field.
ListedInv ==
    /\ \A b \in Range(structs) \cup Range(enums) : Plain(b.name) \in DOMAIN type_map
    /\ pc = "body" => Plain(item.name) \in DOMAIN type_map
    /\ \A sf \in DOMAIN type_enum : sf = <<sf[1], sf[2]>>

LEMMA OwnSection ==
    ASSUME NEW section, NEW i,
           \A x, y \in DOMAIN section : \A s :
               s \in section[x].defines /\ s \in section[y].defines => x = y,
           \A x \in DOMAIN section : \A s \in section[x].defines : PartOf(s) = i
    PROVE  Own(<<section>>, i)
  BY OneOnce, OneDefines DEF Own

LEMMA OwnSwitch ==
    ASSUME NEW name, NEW cases, \A x, y \in DOMAIN cases : cases[x][1] = cases[y][1] => x = y
    PROVE  Own(Switch(name, cases), SwitchPart(name))
  BY SwitchOnce DEF Own, PartOf

LEMMA TypesOwn == Own(generate_types, 1)
  <1> DEFINE section == [e \in Enumerators |-> Piece({}, {enumerator(e)}, {})]
  <1>1. \A x \in DOMAIN section : section[x].defines = {enumerator(x)}
    BY DEF Piece
  <1>2. \A x : enumerator(x)[1] = "enumerator" /\ enumerator(x)[2] = x
    BY DEF enumerator
  <1>3. generate_types = <<section>>
    BY DEF generate_types
  <1> HIDE DEF section
  <1>4. \A x, y \in DOMAIN section : \A s :
           s \in section[x].defines /\ s \in section[y].defines => x = y
    BY <1>1, <1>2
  <1>5. \A x \in DOMAIN section : \A s \in section[x].defines : PartOf(s) = 1
    BY <1>1, <1>2 DEF PartOf
  <1> QED
    BY <1>3, <1>4, <1>5, OwnSection

LEMMA ExtensionTypesOwn == Own(generate_extension_types, 3)
  <1> DEFINE symbols == UNION {{<<"extension", c, key>> : key \in Defined(c)} : c \in {"field", "member"}}
             section == <<Piece({}, symbols, {})>>
  <1>1. DOMAIN section = 1 .. 1 /\ section[1].defines = symbols
    BY OneSection DEF Piece
  <1>2. \A s \in symbols : s[1] = "extension"
    OBVIOUS
  <1>3. generate_extension_types = <<section>>
    BY DEF generate_extension_types
  <1> HIDE DEF section, symbols
  <1>4. \A x, y \in DOMAIN section : x = y
    BY <1>1
  <1>5. \A x \in DOMAIN section : \A s \in section[x].defines : PartOf(s) = 3
    BY <1>1, <1>2 DEF PartOf
  <1> QED
    BY <1>3, <1>4, <1>5, OwnSection

LEMMA DeclarationsOwn == Own(generate_declarations, 4)
  <1> DEFINE A == [b \in DOMAIN structs |->
                     Piece({<<"table", structs[b].name>>} \cup ExtVars("field", b), {}, {})]
             B == [b \in DOMAIN enums |->
                     Piece({EnumTable(Plain(enums[b].name))} \cup ExtVars("member", b), {}, {})]
             C == <<Piece({}, {<<"GET_EXT", c>> : c \in {d \in {"field", "member"} : Defined(d) # {}}}, {})>>
  <1>1. generate_declarations = <<A, B, C>>
    BY DEF generate_declarations
  <1>2. /\ \A x \in DOMAIN A : A[x].defines = {}
        /\ \A x \in DOMAIN B : B[x].defines = {}
    BY DEF Piece
  <1>3. DOMAIN C = 1 .. 1 /\ \A s \in C[1].defines : s[1] = "GET_EXT"
    BY OneSection DEF Piece
  <1> HIDE DEF A, B, C
  <1>4. \A x, y \in DOMAIN C : x = y
    BY <1>3
  <1>5. \A j \in DOMAIN generate_declarations :
           \/ j = 1 /\ generate_declarations[j] = A
           \/ j = 2 /\ generate_declarations[j] = B
           \/ j = 3 /\ generate_declarations[j] = C
    BY <1>1, ThreeSections
  <1>6. Once(generate_declarations)
    BY <1>2, <1>4, <1>5 DEF Once
  <1>7. \A s : Defines(generate_declarations, s) => s[1] = "GET_EXT"
    BY <1>2, <1>3, <1>5 DEF Defines
  <1> QED
    BY <1>6, <1>7 DEF Own, PartOf

LEMMA SettersOwn ==
    ASSUME SuffixesDiffer
    PROVE  Own(generate_type_setters, 6)
  <1> DEFINE section == [n \in Types |-> generate_type_setter(n)]
  <1>1. \A x \in DOMAIN section : \A s \in section[x].defines :
           s[1] \in {"set_field", "get_field", "get_field_elem"} /\ s[2] = Suffix(x)
    BY DEF generate_type_setter, Piece, set_field, get_field
  <1>2. DOMAIN section = Types
    OBVIOUS
  <1>3. generate_type_setters = <<section>>
    BY DEF generate_type_setters
  <1> HIDE DEF section
  <1>4. \A x, y \in DOMAIN section : \A s :
           s \in section[x].defines /\ s \in section[y].defines => x = y
    BY <1>1, <1>2 DEF SuffixesDiffer
  <1>5. \A x \in DOMAIN section : \A s \in section[x].defines : PartOf(s) = 6
    BY <1>1 DEF PartOf
  <1> QED
    BY <1>3, <1>4, <1>5, OwnSection

\* A prototype defines nothing.
ProtosInv == \A f \in protos : f.defines = {}

LEMMA HeadersOwn ==
    ASSUME WhereInv, ProtosInv
    PROVE  Own(generate_plugin_headers, 2)
  <1> DEFINE header == UNION {q.header : q \in Range(plugins)}
             A == <<Piece({}, header, {})>>
             B == [f \in protos |-> f]
  <1>1. \A s \in header : s[1] = "header"
    <2>1. PICK r \in Runs : plugins = r[2]
      BY DEF WhereInv
    <2>2. \A k \in DOMAIN plugins : \A s \in plugins[k].header : s[1] = "header"
      BY <2>1, PluginsAssumption DEF PluginsAssumption
    <2> QED
      BY <2>2 DEF Range
  <1>2. DOMAIN A = 1 .. 1 /\ A[1].defines = header
    BY OneSection DEF Piece
  <1>3. \A x \in DOMAIN B : B[x].defines = {}
    BY DEF ProtosInv
  <1>4. generate_plugin_headers = <<A, B>>
    BY DEF generate_plugin_headers
  <1> HIDE DEF A, B, header
  <1>5. \A x, y \in DOMAIN A : x = y
    BY <1>2
  <1>6. Once(<<A, B>>)
    BY <1>3, <1>5, TwoSections DEF Once
  <1>7. \A s : Defines(<<A, B>>, s) => s[1] = "header"
    BY <1>1, <1>2, <1>3, TwoSections DEF Defines
  <1> QED
    BY <1>4, <1>6, <1>7 DEF Own, PartOf

LEMMA EnumOfName ==
    ASSUME UniqueInv, ListedInv, NoClash, NEW b \in Checked, NEW c \in Checked
    PROVE  /\ b.name = c.name => b = c
           /\ type_map[Plain(b.name)] = type_map[Plain(c.name)] => b = c
  <1>1. b \in Range(enums) /\ c \in Range(enums)
    BY DEF Checked
  <1>2. b.name = c.name => b = c
    BY <1>1 DEF UniqueInv, NamesDiffer, Range
  <1>3. Plain(b.name) \in DOMAIN type_map /\ Plain(c.name) \in DOMAIN type_map
    BY <1>1 DEF ListedInv
  <1>4. Plain(b.name) = Plain(c.name) => b.name = c.name
    BY DEF Plain, Pointer
  <1> QED
    BY <1>2, <1>3, <1>4 DEF NoClash

LEMMA ValidatorsOwn ==
    ASSUME UniqueInv, ListedInv, NoClash
    PROVE  Own(generate_enum_validators, 5)
  <1> DEFINE section == [b \in Checked |-> Piece({}, {<<"is_valid", b.name>>}, {})]
             cases == [b \in Checked |-> <<type_map[Plain(b.name)], {}>>]
             switch == Switch("enum_is_checked", cases)
  <1>1. \A x \in DOMAIN section : section[x].defines = {<<"is_valid", x.name>>}
    BY DEF Piece
  <1>2. DOMAIN section = Checked /\ DOMAIN cases = Checked
    OBVIOUS
  <1>3. \A x \in DOMAIN cases : cases[x][1] = type_map[Plain(x.name)]
    OBVIOUS
  <1>4. generate_enum_validators = <<section>> \o switch
    BY DEF generate_enum_validators
  <1>5. IsSequence(switch)
    BY SwitchApart
  <1> HIDE DEF section, cases
  <1>6. \A x, y \in DOMAIN cases : cases[x][1] = cases[y][1] => x = y
    BY <1>2, <1>3, EnumOfName
  <1>7. Once(switch) /\ \A s : Defines(switch, s) => s[1] \in {"fn", "case"} /\ s[2] = "enum_is_checked"
    BY <1>6, SwitchOnce
  <1> HIDE DEF switch
  <1>8. \A x, y \in DOMAIN section : \A s :
           s \in section[x].defines /\ s \in section[y].defines => x = y
    BY <1>1, <1>2, EnumOfName
  <1>9. Once(<<section>>) /\ IsSequence(<<section>>)
    BY <1>8, OneOnce, OneSection
  <1>10. \A s : Defines(<<section>>, s) => s[1] = "is_valid"
    BY <1>1, OneDefines
  <1>11. \A s : ~ (Defines(<<section>>, s) /\ Defines(switch, s))
    BY <1>7, <1>10
  <1>12. Once(<<section>> \o switch)
    BY <1>5, <1>7, <1>9, <1>11, JoinOnce
  <1>13. \A s : Defines(<<section>> \o switch, s) => PartOf(s) = 5
    <2> SUFFICES ASSUME NEW s, Defines(<<section>> \o switch, s)
                 PROVE  PartOf(s) = 5
      OBVIOUS
    <2>1. Defines(<<section>>, s) \/ Defines(switch, s)
      BY <1>5, <1>9, JoinDefines
    <2> QED
      BY <1>7, <1>10, <2>1 DEF PartOf, SwitchPart
  <1> QED
    BY <1>4, <1>12, <1>13 DEF Own

LEMMA DynamicOwn ==
    ASSUME UniqueInv, FieldsInv, ListedInv, ExtVarsDiffer
    PROVE  Own(generate_dynamic_array_accessors, 7)
  <1> DEFINE suffix(sf) == <<structs[sf[1]].name, FieldsOf(sf[1])[sf[2]].name>>
             section == generate_dynamic_array_accessors[1]
  <1>1. /\ generate_dynamic_array_accessors = <<section>>
        /\ DOMAIN section = Dynamic
    BY DEF generate_dynamic_array_accessors
  <1>2. \A sf \in Dynamic :
           section[sf].defines = {<<"set_dynamic", suffix(sf)>>, <<"get_dynamic", suffix(sf)>>}
    BY DEF generate_dynamic_array_accessors, Piece
  <1> HIDE DEF section
  <1>3. ASSUME NEW sf \in Dynamic, NEW tg \in Dynamic, suffix(sf) = suffix(tg)
        PROVE  sf = tg
    <2> DEFINE place(u) == <<"field", u[1], u[2]>>
    <2>1. ASSUME NEW u \in Dynamic
          PROVE  /\ u = <<u[1], u[2]>>
                 /\ place(u) \in Places("field")
                 /\ ExtVar(place(u)) = <<"ext", suffix(u)[1], suffix(u)[2]>>
      <3>1. u \in DOMAIN type_enum
        BY DEF Dynamic
      <3>2. u[1] \in DOMAIN structs /\ u[2] \in DOMAIN structs[u[1]].members
        BY <3>1 DEF FieldsInv, FieldsOf
      <3> QED
        BY <3>1, <3>2 DEF ListedInv, Places, ExtVar, FieldsOf
    <2>2. ExtVar(place(sf)) = ExtVar(place(tg))
      BY <1>3, <2>1
    <2>3. place(sf) = place(tg)
      BY <2>1, <2>2 DEF ExtVarsDiffer
    <2> QED
      BY <2>1, <2>3
  <1> HIDE DEF suffix
  <1>4. \A x, y \in DOMAIN section : \A s :
           s \in section[x].defines /\ s \in section[y].defines => x = y
    BY <1>1, <1>2, <1>3
  <1>5. \A x \in DOMAIN section : \A s \in section[x].defines : PartOf(s) = 7
    BY <1>1, <1>2 DEF PartOf
  <1> QED
    BY <1>1, <1>4, <1>5, OwnSection

LEMMA TablesOwn ==
    ASSUME UniqueInv, ExtInv, ExtVarsDiffer
    PROVE  Own(generate_tables, 9)
  <1> DEFINE A == [b \in DOMAIN structs |-> StructTable(b)]
             B == [b \in DOMAIN enums |-> MembersTable(b)]
  <1>1. \A x \in DOMAIN structs : A[x].defines = {<<"table", structs[x].name>>} \cup ExtVars("field", x)
    BY DEF StructTable, Piece
  <1>2. \A x \in DOMAIN enums :
           B[x].defines = {<<"members", Plain(enums[x].name)>>} \cup ExtVars("member", x)
    BY DEF MembersTable, Piece, EnumTable
  <1>3. DOMAIN A = DOMAIN structs /\ DOMAIN B = DOMAIN enums
    OBVIOUS
  <1>4. generate_tables = <<A, B>>
    BY DEF generate_tables
  <1> HIDE DEF A, B
  <1>5. \A c, b : \A s \in ExtVars(c, b) :
           /\ s[1] = "ext"
           /\ \E p \in DOMAIN ext : p[1] = c /\ p[2] = b /\ ExtVar(p) = s
    BY DEF ExtVars, ExtVar
  <1>6. ASSUME NEW c, NEW b, NEW d, NEW e, NEW s \in ExtVars(c, b), s \in ExtVars(d, e)
        PROVE  c = d /\ b = e
    <2>1. PICK p \in DOMAIN ext : p[1] = c /\ p[2] = b /\ ExtVar(p) = s
      BY <1>5
    <2>2. PICK q \in DOMAIN ext : q[1] = d /\ q[2] = e /\ ExtVar(q) = s
      BY <1>5, <1>6
    <2>3. p = q
      BY <2>1, <2>2 DEF ExtInv, ExtVarsDiffer
    <2> QED
      BY <2>1, <2>2, <2>3
  <1>7. \A b, c \in DOMAIN enums : Plain(enums[b].name) = Plain(enums[c].name) => b = c
    BY DEF UniqueInv, NamesDiffer, Plain, Pointer
  <1>8. \A b, c \in DOMAIN structs : structs[b].name = structs[c].name => b = c
    BY DEF UniqueInv, NamesDiffer
  <1>9. \A x, y \in DOMAIN A : \A s : s \in A[x].defines /\ s \in A[y].defines => x = y
    BY <1>1, <1>3, <1>5, <1>6, <1>8
  <1>10. \A x, y \in DOMAIN B : \A s : s \in B[x].defines /\ s \in B[y].defines => x = y
    BY <1>2, <1>3, <1>5, <1>6, <1>7
  <1>11. \A x \in DOMAIN A, y \in DOMAIN B : \A s : ~ (s \in A[x].defines /\ s \in B[y].defines)
    BY <1>1, <1>2, <1>3, <1>5, <1>6
  <1>12. Once(<<A, B>>)
    BY <1>9, <1>10, <1>11, TwoSections DEF Once
  <1>13. \A s : Defines(<<A, B>>, s) => s[1] \in {"table", "members", "ext"}
    BY <1>1, <1>2, <1>3, <1>5, TwoSections DEF Defines
  <1> QED
    BY <1>4, <1>12, <1>13 DEF Own, PartOf

LEMMA SwitchesOwn ==
    ASSUME NoClash
    PROVE  /\ Own(get_struct_metadata, 10) /\ Own(get_enum_metadata, 11)
           /\ Own(generic_type_setter, 12) /\ Own(get_name_of_type, 13)
           /\ Own(basetype_caster, 14) /\ Own(get_type_size, 15)
  <1>1. ASSUME NEW name, NEW cases, DOMAIN cases \subseteq Types,
               \A n \in DOMAIN cases : cases[n][1] = type_map[n]
        PROVE  Own(Switch(name, cases), SwitchPart(name))
    <2>1. DOMAIN cases \subseteq DOMAIN type_map
      BY <1>1 DEF Types
    <2>2. \A x, y \in DOMAIN cases : cases[x][1] = cases[y][1] => x = y
      BY <1>1, <2>1 DEF NoClash
    <2> QED
      BY <2>2, OwnSwitch
  <1>2. Own(get_name_of_type, 13)
    <2> DEFINE cases == [e \in Enumerators |-> <<e, {}>>]
    <2>1. \A x, y \in DOMAIN cases : cases[x][1] = cases[y][1] => x = y
      OBVIOUS
    <2>2. get_name_of_type = Switch("get_name_of_type", cases)
      BY DEF get_name_of_type
    <2> HIDE DEF cases
    <2> QED
      BY <2>1, <2>2, OwnSwitch DEF SwitchPart
  <1>3. Own(get_struct_metadata, 10)
    <2> DEFINE cases == [n \in {t \in Types : t.stars = 0 /\ IsStruct(t)} |-> <<type_map[n], {<<"table", n.base>>}>>]
    <2>1. get_struct_metadata = Switch("get_struct_metadata", cases)
      BY DEF get_struct_metadata
    <2>2. DOMAIN cases \subseteq Types /\ \A n \in DOMAIN cases : cases[n][1] = type_map[n]
      OBVIOUS
    <2> HIDE DEF cases
    <2> QED
      BY <1>1, <2>1, <2>2 DEF SwitchPart
  <1>4. Own(get_enum_metadata, 11)
    <2> DEFINE cases == [n \in {t \in Types : IsEnum(t) /\ t = Plain(t.base)} |-> <<type_map[n], {EnumTable(n)}>>]
    <2>1. get_enum_metadata = Switch("get_enum_metadata", cases)
      BY DEF get_enum_metadata
    <2>2. DOMAIN cases \subseteq Types /\ \A n \in DOMAIN cases : cases[n][1] = type_map[n]
      OBVIOUS
    <2> HIDE DEF cases
    <2> QED
      BY <1>1, <2>1, <2>2 DEF SwitchPart
  <1>5. Own(generic_type_setter, 12)
    <2> DEFINE cases == [n \in Types |-> <<type_map[n], {set_field(n)}>>]
    <2>1. generic_type_setter = Switch("safe_set_field", cases)
      BY DEF generic_type_setter
    <2>2. DOMAIN cases \subseteq Types /\ \A n \in DOMAIN cases : cases[n][1] = type_map[n]
      OBVIOUS
    <2> HIDE DEF cases
    <2> QED
      BY <1>1, <2>1, <2>2 DEF SwitchPart
  <1>6. Own(basetype_caster, 14)
    <2> DEFINE cases == [n \in {t \in Types : base_type(type_map[t]) # {}} |-> <<type_map[n], {enumerator(e) : e \in base_type(type_map[n])}>>]
    <2>1. basetype_caster = Switch("get_base_type", cases)
      BY DEF basetype_caster
    <2>2. DOMAIN cases \subseteq Types /\ \A n \in DOMAIN cases : cases[n][1] = type_map[n]
      OBVIOUS
    <2> HIDE DEF cases
    <2> QED
      BY <1>1, <2>1, <2>2 DEF SwitchPart
  <1>7. Own(get_type_size, 15)
    <2> DEFINE cases == [n \in Types |-> <<type_map[n], {}>>]
    <2>1. get_type_size = Switch("get_type_size", cases)
      BY DEF get_type_size
    <2>2. DOMAIN cases \subseteq Types /\ \A n \in DOMAIN cases : cases[n][1] = type_map[n]
      OBVIOUS
    <2> HIDE DEF cases
    <2> QED
      BY <1>1, <2>1, <2>2 DEF SwitchPart
  <1> QED
    BY <1>2, <1>3, <1>4, <1>5, <1>6, <1>7

LEMMA InitListed == EmitInit => ListedInv
  BY EmptySequence DEF EmitInit, Init, ListedInv

LEMMA AddedBlock ==
    ASSUME NEW kept, IsSequence(kept), NEW block, NEW b \in Range(AddIfUnique(kept, block))
    PROVE  b \in Range(kept) \/ b = block
  <1>1. CASE AddIfUnique(kept, block) = kept
    BY <1>1
  <1>2. CASE AddIfUnique(kept, block) = Append(kept, block)
    <2>1. Range(Append(kept, block)) = Range(kept) \cup {block}
      BY AppendFacts
    <2> QED
      BY <1>2, <2>1
  <1> QED
    BY <1>1, <1>2 DEF AddIfUnique

LEMMA ListedStep ==
    ASSUME ReadInv, ListedInv, [EmitNext]_emitVars
    PROVE  ListedInv'
  <1>1. CASE UNCHANGED <<tables, input, at, pc>>
    BY <1>1 DEF ListedInv, tables, item
  <1>2. CASE UNCHANGED tables /\ pc' # "body"
    BY <1>2 DEF ListedInv, tables
  <1>3. CASE OpenBlock
    <2>1. CASE Raise
      BY <1>2, <2>1 DEF Raise
    <2>2. CASE ~ Raise
      <3>1. /\ UNCHANGED <<input, at, structs, enums, type_enum>>
            /\ DOMAIN type_map' = DOMAIN type_map \cup {Plain(item.name)}
        BY <1>3, <2>2 DEF OpenBlock, Declared, Entered
      <3> QED
        BY <3>1 DEF ListedInv, item
    <2> QED
      BY <2>1, <2>2
  <1>4. CASE ReadLine
    <2>1. CASE Raise
      BY <1>2, <2>1 DEF Raise
    <2>2. CASE ~ Raise
      <3>1. UNCHANGED <<input, structs, enums, type_map, type_enum, pc>> /\ at'[1] = at[1]
        BY <1>4, <2>2 DEF ReadLine, tables
      <3> QED
        BY <3>1 DEF ListedInv, item
    <2> QED
      BY <2>1, <2>2
  <1>5. CASE CloseBlock
    <2>1. pc = "body"
      BY <1>5 DEF CloseBlock, Reading
    <2>2. IsSequence(structs) /\ IsSequence(enums)
      BY <2>1 DEF ReadInv, KeptInv, Live, KeptOf, BlockKinds
    <2>3. PICK block : /\ block.name = item.name
                       /\ \/ structs' = AddIfUnique(structs, block) /\ enums' = enums
                          \/ enums' = AddIfUnique(enums, block) /\ structs' = structs
      BY <1>5 DEF CloseBlock
    <2>4. UNCHANGED <<type_map, type_enum>> /\ pc' = "text"
      BY <1>5 DEF CloseBlock
    <2>5. \A b \in Range(structs') \cup Range(enums') : b \in Range(structs) \cup Range(enums) \/ b = block
      BY <2>2, <2>3, AddedBlock
    <2> QED
      BY <2>1, <2>3, <2>4, <2>5 DEF ListedInv
  <1>6. CASE ResolveField
    <2>1. PICK s \in Nat \ {0}, f \in Nat \ {0} : at = <<s, f>>
      BY DEF ReadInv, WhereInv
    <2>2. UNCHANGED <<structs, enums>> /\ pc' # "body"
      BY <1>6 DEF ResolveField
    <2>3. DOMAIN type_map \subseteq DOMAIN type_map'
      BY <1>6 DEF ResolveField, Merge, Entered
    <2>4. DOMAIN type_enum' = DOMAIN type_enum \cup {at}
      BY <1>6 DEF ResolveField, Entered
    <2> QED
      BY <2>1, <2>2, <2>3, <2>4 DEF ListedInv
  <1>7. ReadText \/ EndFile \/ SkipBlock \/ EndOfFiles \/ NextStruct \/ Validate =>
           UNCHANGED tables /\ pc' # "body"
    BY DEF ReadText, EndFile, SkipBlock, EndOfFiles, NextStruct, Validate, Reading
  <1>8. EmitCode \/ MapTypes \/ HandleTags \/ Write => UNCHANGED tables /\ pc' # "body"
    BY PluginStep DEF Write
  <1>9. UNCHANGED emitVars => UNCHANGED <<tables, input, at, pc>>
    BY DEF emitVars, vars
  <1> QED
    BY <1>1, <1>2, <1>3, <1>4, <1>5, <1>6, <1>7, <1>8, <1>9 DEF EmitNext, Read, Next

-----------------------------------------------------------------------------
(* What the plugins' code defines                                          *)

LEMMA PrototypeDefines == \A f : Prototype(f).defines = {}
  BY DEF Prototype, Piece

LEMMA InitProtos == EmitInit => ProtosInv
  BY DEF EmitInit, ProtosInv

LEMMA ProtosStep ==
    ASSUME ProtosInv, [EmitNext]_emitVars
    PROVE  ProtosInv'
  <1>1. CASE UNCHANGED protos
    BY <1>1 DEF ProtosInv
  <1>2. ASSUME NEW S, protos' = protos \cup {Prototype(f) : f \in S}
        PROVE  ProtosInv'
    BY <1>2, PrototypeDefines DEF ProtosInv
  <1>3. CASE EmitCode /\ ~ UNCHANGED protos
    <2>1. \E S : protos' = protos \cup {Prototype(f) : f \in S}
      BY <1>3 DEF EmitCode, Stop, emission
    <2> QED
      BY <1>2, <2>1
  <1>4. CASE MapTypes /\ ~ UNCHANGED protos
    <2>1. ~ Stop("crashed")
      BY <1>4 DEF Stop, emission
    <2> DEFINE functions == UNION {Mapped(plugin.mappers[turn[2]].name, n).func : n \in Types}
               routed == Router(plugin.mappers[turn[2]])
    <2>2. protos' = protos \cup {Prototype(f) : f \in functions}
                          \cup (IF routed = <<>> THEN {} ELSE {Prototype(routed[1][1])})
      BY <1>4, <2>1, Zenon DEF MapTypes
    <2> HIDE DEF functions, routed
    <2> QED
      BY <2>2, PrototypeDefines DEF ProtosInv
  <1>5. Read \/ HandleTags \/ Write \/ UNCHANGED emitVars => UNCHANGED protos
    BY DEF Read, HandleTags, Write, Stop, emission, emitVars
  <1> QED
    BY <1>1, <1>3, <1>4, <1>5 DEF EmitNext

\* What the functions are called that a mapper generates
HeadOf(name) ==
    IF name = "type_to_json" THEN "to_json"
    ELSE IF name = "type_to_json_stream" THEN "to_json_stream"
    ELSE name

OfMapper(name, s) ==
    \/ s[1] = HeadOf(name)
    \/ s[1] = "case" /\ s[2] = name
    \/ s = Fn(name)

\* The step of a plugin that a symbol comes from: its functions or a mapper
Owned(k, j, s) ==
    \/ j = 0 /\ \E x \in DOMAIN plugins[k].functions : s = Fn(plugins[k].functions[x].name)
    \/ j \in DOMAIN plugins[k].mappers /\ OfMapper(plugins[k].mappers[j].name, s)

LEMMA OneMapper ==
    ASSUME NEW name \in MapperNames, NEW other \in MapperNames, NEW s,
           OfMapper(name, s), OfMapper(other, s)
    PROVE  name = other
  <1>1. Fn(name)[1] = "fn" /\ Fn(name)[2] = name /\ Fn(other)[1] = "fn" /\ Fn(other)[2] = other
    BY DEF Fn
  <1>2. HeadOf(name) = HeadOf(other) => name = other
    BY DEF HeadOf, MapperNames
  <1>3. HeadOf(name) \notin {"fn", "case"} /\ HeadOf(other) \notin {"fn", "case"}
    BY DEF HeadOf, MapperNames
  <1> QED
    BY <1>1, <1>2, <1>3 DEF OfMapper

LEMMA NameOfMapper ==
    ASSUME WhereInv, NEW k \in DOMAIN plugins, NEW j \in DOMAIN plugins[k].mappers
    PROVE  plugins[k].mappers[j].name \in MapperNames
  <1>1. PICK r \in Runs : plugins = r[2]
    BY DEF WhereInv
  <1>2. \A x \in Range(r[2][k].mappers) : x.name \in MapperNames
    BY <1>1, PluginsAssumption DEF PluginsAssumption
  <1> QED
    BY <1>1, <1>2 DEF Range

LEMMA OneOwner ==
    ASSUME PluginNamesDiffer, WhereInv, NEW s,
           NEW k \in DOMAIN plugins, NEW j, Owned(k, j, s),
           NEW l \in DOMAIN plugins, NEW i, Owned(l, i, s)
    PROVE  k = l /\ j = i
  <1> DEFINE p == plugins[k]
             q == plugins[l]
  <1>1. PICK r \in Runs : plugins = r[2]
    BY DEF WhereInv
  <1>2. /\ \A x \in DOMAIN p.functions, y \in DOMAIN q.functions :
              p.functions[x].name = q.functions[y].name => k = l /\ x = y
        /\ \A x \in DOMAIN p.mappers, y \in DOMAIN q.mappers :
              p.mappers[x].name = q.mappers[y].name => k = l /\ x = y
        /\ \A x \in DOMAIN p.functions, y \in DOMAIN q.mappers :
              p.functions[x].name # q.mappers[y].name
        /\ \A x \in DOMAIN q.functions, y \in DOMAIN p.mappers :
              q.functions[x].name # p.mappers[y].name
    BY <1>1 DEF PluginNamesDiffer
  <1>3. \A x : Fn(x)[1] = "fn" /\ Fn(x)[2] = x
    BY DEF Fn
  <1>4. ASSUME NEW name \in MapperNames, NEW x, OfMapper(name, Fn(x)) PROVE name = x
    <2>1. HeadOf(name) # "fn"
      BY DEF HeadOf, MapperNames
    <2> QED
      BY <1>3, <1>4, <2>1 DEF OfMapper
  <1>5. CASE j \in DOMAIN p.mappers /\ OfMapper(p.mappers[j].name, s)
    <2>1. p.mappers[j].name \in MapperNames
      BY <1>5, NameOfMapper
    <2>2. CASE i \in DOMAIN q.mappers /\ OfMapper(q.mappers[i].name, s)
      <3>1. q.mappers[i].name \in MapperNames
        BY <2>2, NameOfMapper
      <3>2. p.mappers[j].name = q.mappers[i].name
        BY <1>5, <2>1, <2>2, <3>1, OneMapper
      <3> QED
        BY <1>2, <1>5, <2>2, <3>2
    <2>3. CASE \E x \in DOMAIN q.functions : s = Fn(q.functions[x].name)
      BY <1>2, <1>4, <1>5, <2>1, <2>3
    <2> QED
      BY <2>2, <2>3 DEF Owned
  <1>6. CASE j = 0 /\ \E x \in DOMAIN p.functions : s = Fn(p.functions[x].name)
    <2>1. CASE i \in DOMAIN q.mappers /\ OfMapper(q.mappers[i].name, s)
      <3>1. q.mappers[i].name \in MapperNames
        BY <2>1, NameOfMapper
      <3> QED
        BY <1>2, <1>4, <1>6, <2>1, <3>1
    <2>2. CASE i = 0 /\ \E x \in DOMAIN q.functions : s = Fn(q.functions[x].name)
      <3>1. PICK x \in DOMAIN p.functions : s = Fn(p.functions[x].name)
        BY <1>6
      <3>2. PICK y \in DOMAIN q.functions : s = Fn(q.functions[y].name)
        BY <2>2
      <3>3. p.functions[x].name = q.functions[y].name
        BY <1>3, <3>1, <3>2
      <3> QED
        BY <1>2, <1>6, <2>2, <3>3
    <2> QED
      BY <2>1, <2>2 DEF Owned
  <1> QED
    BY <1>5, <1>6 DEF Owned

LEMMA OwnedPart ==
    ASSUME PluginNamesDiffer, WhereInv, NEW k \in DOMAIN plugins, NEW j, NEW s, Owned(k, j, s)
    PROVE  PartOf(s) = 8
  <1>1. PICK r \in Runs : plugins = r[2]
    BY DEF WhereInv
  <1>2. \A x \in DOMAIN plugins[k].functions : plugins[k].functions[x].name \notin GeneratedNames
    BY <1>1 DEF PluginNamesDiffer
  <1>3. \A x : x \notin GeneratedNames => SwitchPart(x) = 8
    BY DEF GeneratedNames, SwitchPart
  <1>4. \A x : Fn(x)[1] = "fn" /\ Fn(x)[2] = x
    BY DEF Fn
  <1>5. CASE \E x \in DOMAIN plugins[k].functions : s = Fn(plugins[k].functions[x].name)
    <2>1. s[1] = "fn" /\ s[2] \notin GeneratedNames
      BY <1>2, <1>4, <1>5
    <2> QED
      BY <1>3, <2>1 DEF PartOf
  <1>6. CASE j \in DOMAIN plugins[k].mappers /\ OfMapper(plugins[k].mappers[j].name, s)
    <2>1. PICK name \in MapperNames : OfMapper(name, s)
      BY <1>6, NameOfMapper
    <2>2. name \notin GeneratedNames
      BY DEF MapperNames, GeneratedNames
    <2>3. CASE s[1] = HeadOf(name)
      <3>1. s[1] \in {"get_field_as_str", "set_field_from_str", "json_serialize_custom", "json_is_string_type",
                      "json_needs_quote", "json_is_string_array", "to_json", "to_json_stream", "process_field"}
        BY <2>3 DEF HeadOf, MapperNames
      <3> QED
        BY <3>1 DEF PartOf
    <2>4. CASE s[1] \in {"fn", "case"} /\ s[2] = name
      BY <1>3, <2>2, <2>4 DEF PartOf
    <2>5. CASE s = Fn(name)
      BY <1>4, <2>4, <2>5
    <2> QED
      BY <2>1, <2>3, <2>4, <2>5 DEF OfMapper
  <1> QED
    BY <1>5, <1>6 DEF Owned

LEMMA MappedDefines ==
    ASSUME NEW name \in MapperNames, NEW n, NEW f \in Mapped(name, n).func, NEW s \in f.defines
    PROVE  /\ s = <<HeadOf(name), Suffix(n)>>
           /\ \A g \in Mapped(name, n).func : g = f
  <1>1. \A h, uses : Function(h, uses).func = {Piece({}, {h}, uses)}
    BY DEF Function
  <1>2. None.func = {}
    BY DEF None
  <1>3. \A h, uses : Piece({}, {h}, uses).defines = {h}
    BY DEF Piece
  <1>4. ASSUME NEW uses, Mapped(name, n) = None \/ Mapped(name, n) = Function(<<name, Suffix(n)>>, uses),
               HeadOf(name) = name
        PROVE  /\ s = <<HeadOf(name), Suffix(n)>>
               /\ \A g \in Mapped(name, n).func : g = f
    <2>1. Mapped(name, n) # None
      BY <1>2
    <2>2. Mapped(name, n).func = {Piece({}, {<<name, Suffix(n)>>}, uses)}
      BY <1>1, <1>4, <2>1
    <2>3. f = Piece({}, {<<name, Suffix(n)>>}, uses)
      BY <2>2
    <2>4. f.defines = {<<name, Suffix(n)>>}
      BY <1>3, <2>3
    <2> QED
      BY <1>4, <2>2, <2>4
  <1>5. CASE name = "get_field_as_str"
    <2>1. \E uses : Mapped(name, n) = None \/ Mapped(name, n) = Function(<<name, Suffix(n)>>, uses)
      BY <1>5 DEF Mapped, get_field_as_str
    <2> QED
      BY <1>4, <1>5, <2>1 DEF HeadOf
  <1>6. CASE name = "set_field_from_str"
    <2>1. \E uses : Mapped(name, n) = None \/ Mapped(name, n) = Function(<<name, Suffix(n)>>, uses)
      BY <1>6 DEF Mapped, set_field_from_str
    <2> QED
      BY <1>4, <1>6, <2>1 DEF HeadOf
  <1>7. CASE name = "process_field"
    <2>1. \E uses : Mapped(name, n) = None \/ Mapped(name, n) = Function(<<name, Suffix(n)>>, uses)
      BY <1>7 DEF Mapped, process_field
    <2> QED
      BY <1>4, <1>7, <2>1 DEF HeadOf
  <1>8. CASE name \in {"json_is_string_type", "json_needs_quote", "json_is_string_array"}
    <2>1. Mapped(name, n).func = {}
      BY <1>8 DEF Mapped, json_is_string_type, json_needs_quote, json_is_string_array, TrueFor, None
    <2> QED
      BY <2>1
  <1>9. CASE name = "json_serialize_custom"
    BY <1>2, <1>9 DEF Mapped, json_serialize_custom, Piece
  <1>10. CASE name = "type_to_json"
    <2>1. Mapped(name, n).func = {} \/ \E uses : Mapped(name, n).func = {Piece({}, {<<"to_json", Suffix(n)>>}, uses)}
      BY <1>2, <1>10 DEF Mapped, type_to_json
    <2> QED
      BY <1>3, <1>10, <2>1 DEF HeadOf
  <1>11. CASE name = "type_to_json_stream"
    <2>1. \/ Mapped(name, n).func = {}
          \/ \E uses : Mapped(name, n).func = {Piece({}, {<<"to_json_stream", Suffix(n)>>}, uses)}
      BY <1>2, <1>11 DEF Mapped, type_to_json_stream
    <2> QED
      BY <1>3, <1>11, <2>1 DEF HeadOf
  <1> QED
    BY <1>5, <1>6, <1>7, <1>8, <1>9, <1>10, <1>11 DEF MapperNames

\* A step of a plugin before another
Earlier(k, j, step) == k < step[1] \/ (k = step[1] /\ j < step[2])

\* The code so far has its symbols once, from the plugins' steps so far.
OnceInv ==
    /\ pc \in {"text", "body", "resolve"} => code = <<>>
    /\ pc \in {"done", "written"} /\ NoClash /\ SuffixesDiffer =>
          /\ Once(code)
          /\ \A s : Defines(code, s) =>
                \E k \in DOMAIN plugins, j \in Nat : Earlier(k, j, turn) /\ Owned(k, j, s)

\* A section of one step
StepSection(section) ==
    /\ \A x, y \in DOMAIN section : \A s :
          s \in section[x].defines /\ s \in section[y].defines => x = y
    /\ \A x \in DOMAIN section : \A s \in section[x].defines : Owned(turn[1], turn[2], s)

LEMMA NoCode == Once(<<>>) /\ \A s : ~ Defines(<<>>, s)
  BY EmptySequence DEF Once, Defines

LEMMA InitOnce == EmitInit => OnceInv
  BY NoCode DEF EmitInit, Init, OnceInv

LEMMA TurnTypes ==
    ASSUME WhereInv, TurnInv
    PROVE  turn[1] \in Nat /\ turn[2] \in Nat
  <1>1. Len(plugins) \in Nat
    BY PluginFacts
  <1>2. turn[1] \in DOMAIN plugins => Len(plugin.mappers) \in Nat
    BY PluginFacts DEF plugin
  <1> QED
    BY <1>1, <1>2 DEF TurnInv

LEMMA RouterOnce ==
    ASSUME WhereInv, router = <<>>, NoClash, Emitting, turn[2] \in DOMAIN plugin.mappers,
           NEW m, m = plugin.mappers[turn[2]]
    PROVE  /\ Once(Router(m))
           /\ \A s : Defines(Router(m), s) =>
                 /\ Owned(turn[1], turn[2], s)
                 /\ s[1] \in {"fn", "case"}
  <1> DEFINE cases == MappedBy(m, "case")
             case(n) == Piece({}, {Label(m.name, type_map[n])},
                              {<<"enumerator", type_map[n]>>} \cup UNION Mapped(m.name, n).case)
             head == <<Piece({}, {Fn(m.name)}, m.types)>>
             branches == [n \in cases |-> case(n)]
  <1>1. DOMAIN head = 1 .. 1 /\ head[1].defines = {Fn(m.name)}
    BY OneSection DEF Piece
  <1>2. \A n \in DOMAIN branches : branches[n].defines = {Label(m.name, type_map[n])}
    BY DEF Piece
  <1>3. DOMAIN branches \subseteq DOMAIN type_map
    BY DEF MappedBy, Types
  <1>4. Router(m) = <<>> \/ Router(m) = <<head, branches>>
    BY DEF Router
  <1> HIDE DEF head, branches, cases, case
  <1>5. /\ Fn(m.name)[1] = "fn"
        /\ \A e : /\ Label(m.name, e)[1] = "case" /\ Label(m.name, e)[2] = m.name
                  /\ Label(m.name, e)[3] = e
    BY DEF Fn, Label
  <1>6. /\ OfMapper(m.name, Fn(m.name))
        /\ \A e : OfMapper(m.name, Label(m.name, e))
    BY <1>5 DEF OfMapper
  <1>7. Once(<<head, branches>>)
    <2>1. \A x, y \in DOMAIN head : x = y
      BY <1>1
    <2>2. \A x, y \in DOMAIN branches : \A s : s \in branches[x].defines /\ s \in branches[y].defines => x = y
      BY <1>2, <1>3, <1>5 DEF NoClash
    <2>3. \A x \in DOMAIN head, y \in DOMAIN branches : \A s :
             ~ (s \in head[x].defines /\ s \in branches[y].defines)
      BY <1>1, <1>2, <1>5
    <2> QED
      BY <2>1, <2>2, <2>3, TwoSections DEF Once
  <1>8. \A s : Defines(<<head, branches>>, s) => OfMapper(m.name, s) /\ s[1] \in {"fn", "case"}
    <2>1. \A x \in DOMAIN head : \A s \in head[x].defines : OfMapper(m.name, s) /\ s[1] \in {"fn", "case"}
      BY <1>1, <1>5, <1>6
    <2>2. \A x \in DOMAIN branches : \A s \in branches[x].defines :
             OfMapper(m.name, s) /\ s[1] \in {"fn", "case"}
      BY <1>2, <1>5, <1>6
    <2> QED
      BY <2>1, <2>2, TwoSections DEF Defines
  <1>9. \A s : OfMapper(m.name, s) => Owned(turn[1], turn[2], s)
    BY DEF Owned, plugin
  <1> QED
    BY <1>4, <1>7, <1>8, <1>9, NoCode

LEMMA BodiesOnce ==
    ASSUME WhereInv, SuffixesDiffer, Emitting, turn[2] \in DOMAIN plugin.mappers,
           NEW m, m = plugin.mappers[turn[2]],
           NEW bodies, bodies \subseteq UNION {Mapped(m.name, n).func : n \in Types},
           NEW section, section = [f \in bodies |-> f]
    PROVE  /\ StepSection(section)
           /\ \A x \in DOMAIN section : \A s \in section[x].defines : s[1] \notin {"fn", "case"}
  <1>1. m.name \in MapperNames
    BY NameOfMapper DEF Emitting, plugin
  <1>2. ASSUME NEW f \in bodies, NEW s \in f.defines
        PROVE  \E n \in Types : /\ f \in Mapped(m.name, n).func
                                /\ s = <<HeadOf(m.name), Suffix(n)>>
                                /\ \A g \in Mapped(m.name, n).func : g = f
    <2>1. PICK n \in Types : f \in Mapped(m.name, n).func
      OBVIOUS
    <2> QED
      BY <1>1, <1>2, <2>1, MappedDefines
  <1>3. ASSUME NEW f \in bodies, NEW g \in bodies, NEW s, s \in f.defines, s \in g.defines
        PROVE  f = g
    <2>1. PICK n \in Types : /\ f \in Mapped(m.name, n).func
                             /\ s = <<HeadOf(m.name), Suffix(n)>>
                             /\ \A h \in Mapped(m.name, n).func : h = f
      BY <1>2, <1>3
    <2>2. PICK k \in Types : /\ g \in Mapped(m.name, k).func
                             /\ s = <<HeadOf(m.name), Suffix(k)>>
                             /\ \A h \in Mapped(m.name, k).func : h = g
      BY <1>2, <1>3
    <2>3. Suffix(n) = Suffix(k)
      BY <2>1, <2>2
    <2>4. n = k
      BY <2>3 DEF SuffixesDiffer
    <2> QED
      BY <2>1, <2>2, <2>4
  <1>4. \A f \in bodies : \A s \in f.defines : s[1] = HeadOf(m.name)
    BY <1>2
  <1>5. HeadOf(m.name) \notin {"fn", "case"}
    BY <1>1 DEF HeadOf, MapperNames
  <1>6. DOMAIN section = bodies /\ \A f \in bodies : section[f] = f
    OBVIOUS
  <1>7. \A s : s[1] = HeadOf(m.name) => Owned(turn[1], turn[2], s)
    BY DEF Owned, OfMapper, plugin
  <1>8. \A x, y \in DOMAIN section : \A s : s \in section[x].defines /\ s \in section[y].defines => x = y
    BY <1>3, <1>6
  <1> QED
    BY <1>4, <1>5, <1>6, <1>7, <1>8 DEF StepSection

\* What a step adds is of that step, and what was there of earlier ones.
LEMMA StepAdds ==
    ASSUME PluginNamesDiffer, WhereInv, TurnInv, CodeInv, Emitting,
           Once(code),
           \A s : Defines(code, s) => \E k \in DOMAIN plugins, j \in Nat : Earlier(k, j, turn) /\ Owned(k, j, s),
           NEW section, StepSection(section),
           NEW routed, IsSequence(routed), Once(routed),
           \A s : Defines(routed, s) => Owned(turn[1], turn[2], s),
           \A s : ~ (Defines(<<section>>, s) /\ Defines(routed, s)),
           NEW new, new = Append(code, section) \o routed
    PROVE  /\ Once(new)
           /\ \A s : Defines(new, s) => Defines(code, s) \/ Owned(turn[1], turn[2], s)
  <1>1. Append(code, section) = code \o <<section>>
    BY AppendIsConcat DEF CodeInv, IsSequence
  <1>2. IsSequence(code) /\ IsSequence(<<section>>)
    BY OneSection DEF CodeInv
  <1>3. Once(<<section>>) /\ \A s : Defines(<<section>>, s) => Owned(turn[1], turn[2], s)
    BY OneOnce, OneDefines DEF StepSection
  <1>4. \A s : Defines(code, s) => ~ Owned(turn[1], turn[2], s)
    <2> SUFFICES ASSUME NEW s, Defines(code, s), Owned(turn[1], turn[2], s)
                 PROVE  FALSE
      OBVIOUS
    <2>1. PICK k \in DOMAIN plugins, j \in Nat : Earlier(k, j, turn) /\ Owned(k, j, s)
      OBVIOUS
    <2>2. k = turn[1] /\ j = turn[2]
      BY <2>1, OneOwner DEF Emitting
    <2> QED
      BY <2>1, <2>2, TurnTypes DEF Earlier
  <1>5. /\ Once(code \o <<section>>) /\ IsSequence(code \o <<section>>)
        /\ \A s : Defines(code \o <<section>>, s) <=> Defines(code, s) \/ Defines(<<section>>, s)
    BY <1>2, <1>3, <1>4, JoinOnce, JoinFacts, JoinDefines
  <1> DEFINE longer == code \o <<section>>
  <1> HIDE DEF longer
  <1>6. /\ Once(longer \o routed)
        /\ \A s : Defines(longer \o routed, s) <=> Defines(longer, s) \/ Defines(routed, s)
    <2>1. \A s : ~ (Defines(longer, s) /\ Defines(routed, s))
      BY <1>4, <1>5 DEF longer
    <2>2. Once(longer) /\ IsSequence(longer)
      BY <1>5 DEF longer
    <2> QED
      BY <2>1, <2>2, JoinOnce, JoinDefines
  <1>7. new = longer \o routed
    BY <1>1 DEF longer
  <1>8. \A s : Defines(longer, s) <=> Defines(code, s) \/ Defines(<<section>>, s)
    BY <1>5 DEF longer
  <1> QED
    BY <1>3, <1>6, <1>7, <1>8

LEMMA SameNames ==
    ASSUME UNCHANGED tables
    PROVE  (NoClash' <=> NoClash) /\ (SuffixesDiffer' <=> SuffixesDiffer)
  <1>1. UNCHANGED Types
    BY DEF tables, Types
  <1> QED
    BY <1>1 DEF tables, NoClash, SuffixesDiffer, Suffix

LEMMA SameOwner ==
    ASSUME plugins' = plugins
    PROVE  \A k, j, s : Owned(k, j, s)' <=> Owned(k, j, s)
  BY DEF Owned, OfMapper

\* A step that is not the last of its plugin, with the code it leaves
LEMMA OnceAfter ==
    ASSUME ReadInv, ShapeInv, OnceInv, Emitting, UNCHANGED <<plugins, tables>>, pc' = "done",
           turn' = <<turn[1], turn[2] + 1>>,
           NoClash /\ SuffixesDiffer => Once(code'),
           NoClash /\ SuffixesDiffer =>
              \A s : Defines(code', s) => Defines(code, s) \/ Owned(turn[1], turn[2], s)
    PROVE  OnceInv'
  <1>1. ASSUME NoClash, SuffixesDiffer
        PROVE  /\ Once(code')
               /\ \A s : Defines(code', s) =>
                     \E k \in DOMAIN plugins, j \in Nat : Earlier(k, j, turn') /\ Owned(k, j, s)
    <2>1. turn[1] \in Nat /\ turn[2] \in Nat /\ turn[1] \in DOMAIN plugins
      BY TurnTypes DEF ReadInv, ShapeInv, Emitting
    <2>2. turn'[1] = turn[1] /\ turn'[2] = turn[2] + 1
      OBVIOUS
    <2>3. \A k \in DOMAIN plugins : k \in Nat
      BY PluginFacts DEF ReadInv
    <2>4. \A k \in DOMAIN plugins, j \in Nat : Earlier(k, j, turn) => Earlier(k, j, turn')
      BY <2>1, <2>2, <2>3 DEF Earlier
    <2>5. Earlier(turn[1], turn[2], turn')
      BY <2>1, <2>2 DEF Earlier
    <2>6. \A s : Defines(code', s) => Defines(code, s) \/ Owned(turn[1], turn[2], s)
      BY <1>1
    <2>7. \A s : Defines(code, s) =>
             \E k \in DOMAIN plugins, j \in Nat : Earlier(k, j, turn) /\ Owned(k, j, s)
      BY <1>1 DEF OnceInv, Emitting
    <2> QED
      BY <1>1, <2>1, <2>4, <2>5, <2>6, <2>7
  <1> QED
    BY <1>1, SameNames, SameOwner DEF OnceInv

LEMMA FunctionsOnce ==
    ASSUME ReadInv, ShapeInv, CodeInv, OnceInv, PluginNamesDiffer, EmitCode, pc' = "done"
    PROVE  OnceInv'
  <1> DEFINE section == [k \in DOMAIN plugin.functions |->
                           Piece({}, {Fn(plugin.functions[k].name)}, plugin.functions[k].uses)]
  <1>1. /\ Emitting /\ turn[2] = 0 /\ turn' = <<turn[1], turn[2] + 1>>
        /\ code' = Append(code, section)
        /\ UNCHANGED <<plugins, tables>>
    <2>1. ~ Stop("raised")
      BY DEF Stop
    <2> QED
      BY <2>1 DEF EmitCode, NextStep, vars
  <1>2. DOMAIN section = DOMAIN plugin.functions
    OBVIOUS
  <1>3. \A x \in DOMAIN section : section[x].defines = {Fn(plugin.functions[x].name)}
    BY DEF Piece
  <1> HIDE DEF section
  <1>4. PICK r \in Runs : plugins = r[2]
    BY DEF ReadInv, WhereInv
  <1>5. \A x, y \in DOMAIN plugin.functions : plugin.functions[x].name = plugin.functions[y].name => x = y
    BY <1>1, <1>4 DEF PluginNamesDiffer, plugin, Emitting
  <1>6. \A x, y : Fn(x) = Fn(y) => x = y
    BY DEF Fn
  <1>7. StepSection(section)
    <2>1. \A x, y \in DOMAIN section : \A s : s \in section[x].defines /\ s \in section[y].defines => x = y
      BY <1>2, <1>3, <1>5, <1>6
    <2>2. \A x \in DOMAIN section : \A s \in section[x].defines : Owned(turn[1], turn[2], s)
      BY <1>1, <1>2, <1>3 DEF Owned, plugin
    <2> QED
      BY <2>1, <2>2 DEF StepSection
  <1>8. code' = Append(code, section) \o <<>>
    <2>1. Append(code, section) \in Seq(Range(Append(code, section)))
      BY AppendFacts DEF CodeInv, IsSequence
    <2> QED
      BY <1>1, <2>1, ConcatEmptySeq
  <1>9. ASSUME NoClash, SuffixesDiffer
        PROVE  /\ Once(code')
               /\ \A s : Defines(code', s) => Defines(code, s) \/ Owned(turn[1], turn[2], s)
    <2>1. /\ Once(code)
          /\ \A s : Defines(code, s) =>
                \E k \in DOMAIN plugins, j \in Nat : Earlier(k, j, turn) /\ Owned(k, j, s)
      BY <1>1, <1>9 DEF OnceInv, Emitting
    <2>2. /\ IsSequence(<<>>) /\ Once(<<>>) /\ \A s : ~ Defines(<<>>, s)
      BY NoCode, EmptySequence
    <2> QED
      BY <1>1, <1>7, <1>8, <2>1, <2>2, StepAdds DEF ReadInv, ShapeInv
  <1> QED
    BY <1>1, <1>9, OnceAfter

LEMMA MapperOnce ==
    ASSUME ReadInv, ShapeInv, CodeInv, OnceInv, PluginNamesDiffer, MapTypes, pc' = "done"
    PROVE  OnceInv'
  <1> DEFINE m == plugin.mappers[turn[2]]
             functions == UNION {Mapped(m.name, n).func : n \in Types}
             bodies == {f \in functions : f.defines # {}}
             routed == Router(m)
             section == [f \in bodies |-> f]
  <1>1. /\ Emitting /\ turn[2] \in DOMAIN plugin.mappers
        /\ turn' = <<turn[1], turn[2] + 1>>
        /\ code' = Append(code, section) \o routed
        /\ UNCHANGED <<plugins, tables>>
    <2>1. ~ Stop("crashed")
      BY DEF Stop
    <2>2. Emitting /\ turn[2] \in DOMAIN plugin.mappers
      BY DEF MapTypes
    <2>3. NextStep /\ UNCHANGED vars /\ code' = Append(code, section) \o routed
      BY <2>1, Zenon DEF MapTypes
    <2> QED
      BY <2>2, <2>3 DEF NextStep, vars
  <1>2. bodies \subseteq functions
    OBVIOUS
  <1>3. ASSUME NoClash, SuffixesDiffer
        PROVE  /\ Once(code')
               /\ \A s : Defines(code', s) => Defines(code, s) \/ Owned(turn[1], turn[2], s)
    <2>1. /\ Once(code)
          /\ \A s : Defines(code, s) =>
                \E k \in DOMAIN plugins, j \in Nat : Earlier(k, j, turn) /\ Owned(k, j, s)
      BY <1>1, <1>3 DEF OnceInv, Emitting
    <2>2. WhereInv /\ TurnInv /\ router = <<>>
      BY DEF ReadInv, ShapeInv, TurnInv
    <2>3. /\ StepSection(section)
          /\ \A x \in DOMAIN section : \A s \in section[x].defines : s[1] \notin {"fn", "case"}
      <3> HIDE DEF bodies
      <3> QED
        BY <1>1, <1>2, <1>3, <2>2, BodiesOnce
    <2>4. /\ Once(routed)
          /\ \A s : Defines(routed, s) => Owned(turn[1], turn[2], s) /\ s[1] \in {"fn", "case"}
      BY <1>1, <1>3, <2>2, RouterOnce
    <2>5. IsSequence(routed)
      BY <2>2, RouterApart
    <2> HIDE DEF section, routed
    <2>6. \A s : ~ (Defines(<<section>>, s) /\ Defines(routed, s))
      BY <2>3, <2>4, OneDefines
    <2> QED
      BY <1>1, <2>1, <2>2, <2>3, <2>4, <2>5, <2>6, StepAdds
  <1> QED
    BY <1>1, <1>3, OnceAfter

LEMMA OnceStep ==
    ASSUME ReadInv, ShapeInv, CodeInv, OnceInv, PluginNamesDiffer, [EmitNext]_emitVars
    PROVE  OnceInv'
  <1>1. CASE UNCHANGED <<plugins, tables, code>> /\ (turn' = turn \/ turn' = <<turn[1] + 1, 0>>)
             /\ pc \in {"done", "written"} /\ pc' \in {"done", "written", "raised", "crashed"}
    <2>1. turn[1] \in Nat /\ turn[2] \in Nat
      BY TurnTypes DEF ReadInv, ShapeInv
    <2>2. \A k \in DOMAIN plugins : k \in Nat
      BY PluginFacts DEF ReadInv
    <2>3. \A k \in DOMAIN plugins, j \in Nat : Earlier(k, j, turn) => Earlier(k, j, turn')
      <3>1. CASE turn' = turn
        BY <3>1
      <3>2. CASE turn' = <<turn[1] + 1, 0>>
        <4>1. turn'[1] = turn[1] + 1
          BY <3>2
        <4> QED
          BY <2>1, <2>2, <4>1 DEF Earlier
      <3> QED
        BY <1>1, <3>1, <3>2
    <2>4. ASSUME NoClash, SuffixesDiffer
          PROVE  /\ Once(code)
                 /\ \A s : Defines(code, s) =>
                       \E k \in DOMAIN plugins, j \in Nat : Earlier(k, j, turn') /\ Owned(k, j, s)
      BY <1>1, <2>3, <2>4 DEF OnceInv
    <2> QED
      BY <1>1, <2>4, SameNames, SameOwner DEF OnceInv
  <1>2. CASE Read
    <2>1. pc \in {"text", "body", "resolve"} /\ code' = code /\ pc' # "written"
      BY <1>2 DEF Read, emission, Next, ReadText, EndFile, SkipBlock, OpenBlock, ReadLine, CloseBlock,
         EndOfFiles, ResolveField, NextStruct, Validate, Raise, Reading
    <2>2. code' = <<>>
      BY <2>1 DEF OnceInv
    <2> QED
      BY <2>2, NoCode DEF OnceInv
  <1>3. CASE pc' \in {"raised", "crashed"}
    BY <1>3 DEF OnceInv
  <1>4. CASE EmitCode \/ MapTypes \/ HandleTags
    <2>1. UNCHANGED <<plugins, tables>> /\ pc = "done" /\ pc' \in {"done", "raised", "crashed"}
      BY <1>4, PluginStep
    <2>2. CASE HandleTags /\ pc' = "done"
      <3>1. ~ Stop("raised")
        BY <2>2 DEF Stop
      <3>2. code' = code /\ turn' = <<turn[1] + 1, 0>>
        BY <2>2, <3>1 DEF HandleTags
      <3> QED
        BY <1>1, <2>1, <3>2
    <2> QED
      BY <1>3, <1>4, <2>1, <2>2, FunctionsOnce, MapperOnce
  <1>5. CASE Write
    BY <1>1, <1>5 DEF Write
  <1>6. CASE UNCHANGED emitVars
    <2>1. UNCHANGED <<plugins, tables, code, turn, pc>>
      BY <1>6 DEF emitVars, vars, emission
    <2>2. CASE pc \in {"done", "written"}
      BY <1>1, <2>1, <2>2
    <2>3. CASE pc \notin {"done", "written"}
      BY <2>1, <2>3 DEF OnceInv
    <2> QED
      BY <2>2, <2>3
  <1> QED
    BY <1>2, <1>4, <1>5, <1>6 DEF EmitNext

LEMMA TextOwn ==
    ASSUME PluginNamesDiffer, ReadInv, ShapeInv, UniqueInv, ListedInv, ProtosInv, OnceInv, WrittenInv,
           pc = "written", NoClash, SuffixesDiffer, ExtVarsDiffer, NEW i \in DOMAIN text
    PROVE  Own(text[i], i)
  <1>1. Own(code, 8)
    <2>1. Once(code)
      BY DEF OnceInv
    <2>2. \A s : Defines(code, s) => \E k \in DOMAIN plugins, j \in Nat : Owned(k, j, s)
      BY DEF OnceInv
    <2>3. \A s : Defines(code, s) => PartOf(s) = 8
      BY <2>2, OwnedPart DEF ReadInv
    <2> QED
      BY <2>1, <2>3 DEF Own
  <1>2. /\ Own(generate_types, 1) /\ Own(generate_plugin_headers, 2) /\ Own(generate_extension_types, 3)
        /\ Own(generate_declarations, 4) /\ Own(generate_enum_validators, 5)
        /\ Own(generate_type_setters, 6) /\ Own(generate_dynamic_array_accessors, 7)
        /\ Own(generate_tables, 9)
    BY TypesOwn, HeadersOwn, ExtensionTypesOwn, DeclarationsOwn, ValidatorsOwn, SettersOwn, DynamicOwn,
       TablesOwn DEF ReadInv, ShapeInv
  <1>3. i \in 1 .. 15
    BY PartsWritten
  <1>4. CASE i \in 1 .. 9
    BY <1>1, <1>2, <1>4, PartsWritten
  <1>5. CASE i \in 10 .. 15
    BY <1>5, SwitchesOwn, PartsWritten
  <1> QED
    BY <1>3, <1>4, <1>5

LEMMA WrittenOnce ==
    ASSUME PluginNamesDiffer, ReadInv, ShapeInv, UniqueInv, ListedInv, ProtosInv, OnceInv, WrittenInv
    PROVE  DefinedOnce
  <1> SUFFICES ASSUME pc = "written", NoClash, SuffixesDiffer, ExtVarsDiffer,
                      NEW p \in Spots, NEW q \in Spots, NEW s,
                      s \in PieceAt(p).defines, s \in PieceAt(q).defines
               PROVE  p = q
    BY DEF DefinedOnce
  <1>1. PICK i \in DOMAIN text : \E j \in DOMAIN text[i] : \E x \in DOMAIN text[i][j] : p = <<i, j, x>>
    BY SpotIs
  <1>2. PICK j \in DOMAIN text[i] : \E x \in DOMAIN text[i][j] : p = <<i, j, x>>
    BY <1>1
  <1>3. PICK x \in DOMAIN text[i][j] : p = <<i, j, x>>
    BY <1>2
  <1>4. PICK k \in DOMAIN text : \E l \in DOMAIN text[k] : \E y \in DOMAIN text[k][l] : q = <<k, l, y>>
    BY SpotIs
  <1>5. PICK l \in DOMAIN text[k] : \E y \in DOMAIN text[k][l] : q = <<k, l, y>>
    BY <1>4
  <1>6. PICK y \in DOMAIN text[k][l] : q = <<k, l, y>>
    BY <1>5
  <1>7. s \in text[i][j][x].defines /\ s \in text[k][l][y].defines
    BY <1>3, <1>6 DEF PieceAt
  <1>8. Defines(text[i], s) /\ Defines(text[k], s)
    BY <1>7 DEF Defines
  <1>9. PartOf(s) = i /\ PartOf(s) = k /\ Once(text[i])
    BY <1>8, TextOwn DEF Own
  <1>10. i = k
    BY <1>9
  <1>11. j = l /\ x = y
    BY <1>7, <1>9, <1>10 DEF Once
  <1> QED
    BY <1>3, <1>6, <1>10, <1>11

\* When authors give every function and every mapper a name of its own, nothing
\* in the generated file is defined twice and no switch has a case twice
\* (generate_plugin_extensions and __str__, for any input and plugins).
THEOREM NothingDefinedTwice == PluginNamesDiffer /\ EmitSpec => []DefinedOnce
  <1> DEFINE I == /\ ReadInv /\ ShapeInv /\ CodeInv /\ WrittenInv
                  /\ UniqueInv /\ ListedInv /\ ProtosInv /\ OnceInv
  <1> SUFFICES ASSUME PluginNamesDiffer
               PROVE  EmitSpec => []DefinedOnce
    OBVIOUS
  <1>1. EmitInit => WrittenInv
    BY DEF EmitInit, Init, WrittenInv
  <1>2. EmitInit => I
    BY <1>1, InitRead, InitShape, InitCode, InitUnique, InitListed, InitProtos, InitOnce
  <1>3. I /\ [EmitNext]_emitVars => I'
    BY EmitStep, ShapeStep, SectionsStep, UniqueStep, ListedStep, ProtosStep, OnceStep
  <1>4. I => DefinedOnce
    BY WrittenOnce
  <1> QED
    BY <1>2, <1>3, <1>4, PTL DEF EmitSpec

-----------------------------------------------------------------------------
(* What the generator's own parts use                                      *)

Uses(part, s) == \E j \in DOMAIN part : \E x \in DOMAIN part[j] : s \in part[j][x].uses
Mentioned(part, s) == Declares(part, s) \/ Defines(part, s)

OfEnumerator(s) == \E e \in Enumerators : s = enumerator(e)
OfTable(s) == \/ \E b \in DOMAIN structs : s = <<"table", structs[b].name>>
              \/ \E b \in DOMAIN enums : s = EnumTable(Plain(enums[b].name))
OfExtension(s) == \E c \in {"field", "member"} : \E key \in Defined(c) : s = <<"extension", c, key>>
OfGetter(s) == \E c \in {"field", "member"} : Defined(c) # {} /\ s = <<"GET_EXT", c>>
OfValidator(s) == \E b \in Checked : s = <<"is_valid", b.name>>
OfSetter(s) == \E n \in Types : s = set_field(n) \/ s = get_field(n)

LEMMA OnePartMentions ==
    ASSUME NEW part, NEW j \in DOMAIN part, NEW x \in DOMAIN part[j], NEW s,
           s \in part[j][x].declares \cup part[j][x].defines
    PROVE  Mentioned(part, s)
  BY DEF Mentioned, Declares, Defines

LEMMA EnumeratorsMentioned == \A s : OfEnumerator(s) => Mentioned(generate_types, s)
  <1> SUFFICES ASSUME NEW e \in Enumerators
               PROVE  Mentioned(generate_types, enumerator(e))
    BY DEF OfEnumerator
  <1> DEFINE section == [d \in Enumerators |-> Piece({}, {enumerator(d)}, {})]
  <1>1. e \in DOMAIN section /\ enumerator(e) \in section[e].defines
    BY DEF Piece
  <1>2. generate_types = <<section>>
    BY DEF generate_types
  <1> HIDE DEF section
  <1> QED
    BY <1>1, <1>2, OneDefines DEF Mentioned

LEMMA ExtensionsMentioned == \A s : OfExtension(s) => Mentioned(generate_extension_types, s)
  <1> SUFFICES ASSUME NEW s, OfExtension(s)
               PROVE  Mentioned(generate_extension_types, s)
    OBVIOUS
  <1> DEFINE symbols == UNION {{<<"extension", c, key>> : key \in Defined(c)} : c \in {"field", "member"}}
             section == <<Piece({}, symbols, {})>>
  <1>1. DOMAIN section = 1 .. 1 /\ section[1].defines = symbols
    BY OneSection DEF Piece
  <1>2. s \in symbols
    BY DEF OfExtension
  <1>3. generate_extension_types = <<section>>
    BY DEF generate_extension_types
  <1> HIDE DEF section, symbols
  <1>4. 1 \in DOMAIN section
    BY <1>1
  <1> QED
    BY <1>1, <1>2, <1>3, <1>4, OneDefines DEF Mentioned

LEMMA DeclarationsMentioned ==
    /\ \A s : OfTable(s) => Mentioned(generate_declarations, s)
    /\ \A s : OfGetter(s) => Mentioned(generate_declarations, s)
  <1> DEFINE A == [b \in DOMAIN structs |->
                     Piece({<<"table", structs[b].name>>} \cup ExtVars("field", b), {}, {})]
             B == [b \in DOMAIN enums |->
                     Piece({EnumTable(Plain(enums[b].name))} \cup ExtVars("member", b), {}, {})]
             C == <<Piece({}, {<<"GET_EXT", c>> : c \in {d \in {"field", "member"} : Defined(d) # {}}}, {})>>
  <1>1. generate_declarations = <<A, B, C>>
    BY DEF generate_declarations
  <1>2. \A b \in DOMAIN structs : b \in DOMAIN A /\ <<"table", structs[b].name>> \in A[b].declares
    BY DEF Piece
  <1>3. \A b \in DOMAIN enums : b \in DOMAIN B /\ EnumTable(Plain(enums[b].name)) \in B[b].declares
    BY DEF Piece
  <1>4. 1 \in DOMAIN C /\ \A s : OfGetter(s) => s \in C[1].defines
    BY OneSection DEF Piece, OfGetter
  <1> HIDE DEF A, B, C
  <1>5. /\ 1 \in DOMAIN generate_declarations /\ generate_declarations[1] = A
        /\ 2 \in DOMAIN generate_declarations /\ generate_declarations[2] = B
        /\ 3 \in DOMAIN generate_declarations /\ generate_declarations[3] = C
    BY <1>1, ThreeSections
  <1>6. ASSUME NEW s, OfTable(s) PROVE Mentioned(generate_declarations, s)
    BY <1>2, <1>3, <1>5, <1>6 DEF OfTable, Mentioned, Declares
  <1>7. ASSUME NEW s, OfGetter(s) PROVE Mentioned(generate_declarations, s)
    BY <1>4, <1>5, <1>7 DEF Mentioned, Defines
  <1> QED
    BY <1>6, <1>7

LEMMA SwitchMentions == \A name, cases : Mentioned(Switch(name, cases), Fn(name))
  <1> TAKE name, cases
  <1> DEFINE head == <<Piece({}, {Fn(name)}, {})>>
             branches == [x \in DOMAIN cases |->
                Piece({}, {Label(name, cases[x][1])}, {enumerator(cases[x][1])} \cup cases[x][2])]
  <1>1. 1 \in DOMAIN head /\ Fn(name) \in head[1].defines
    BY OneSection DEF Piece
  <1>2. Switch(name, cases) = <<head, branches>>
    BY DEF Switch
  <1> HIDE DEF head, branches
  <1> QED
    BY <1>1, <1>2, TwoSections DEF Mentioned, Defines

LEMMA SwitchUses ==
    ASSUME NEW name, NEW cases, NEW s, Uses(Switch(name, cases), s)
    PROVE  \E x \in DOMAIN cases : s = enumerator(cases[x][1]) \/ s \in cases[x][2]
  <1> DEFINE head == <<Piece({}, {Fn(name)}, {})>>
             branches == [x \in DOMAIN cases |->
                Piece({}, {Label(name, cases[x][1])}, {enumerator(cases[x][1])} \cup cases[x][2])]
  <1>1. DOMAIN head = 1 .. 1 /\ head[1].uses = {}
    BY OneSection DEF Piece
  <1>2. /\ DOMAIN branches = DOMAIN cases
        /\ \A x \in DOMAIN cases : branches[x].uses = {enumerator(cases[x][1])} \cup cases[x][2]
    BY DEF Piece
  <1>3. Switch(name, cases) = <<head, branches>>
    BY DEF Switch
  <1> HIDE DEF head, branches
  <1>4. \E j \in 1 .. 2 : \E x \in DOMAIN <<head, branches>>[j] : s \in <<head, branches>>[j][x].uses
    BY <1>3, TwoSections DEF Uses
  <1>5. ASSUME NEW x \in DOMAIN head, s \in head[x].uses PROVE FALSE
    BY <1>1, <1>5
  <1> QED
    BY <1>2, <1>4, <1>5, TwoSections

LEMMA ValidatorsMentioned ==
    /\ \A s : OfValidator(s) => Mentioned(generate_enum_validators, s)
    /\ Mentioned(generate_enum_validators, Fn("enum_is_checked"))
  <1> DEFINE section == [b \in Checked |-> Piece({}, {<<"is_valid", b.name>>}, {})]
             switch == Switch("enum_is_checked", [b \in Checked |-> <<type_map[Plain(b.name)], {}>>])
  <1>1. \A b \in Checked : b \in DOMAIN section /\ <<"is_valid", b.name>> \in section[b].defines
    BY DEF Piece
  <1>2. generate_enum_validators = <<section>> \o switch
    BY DEF generate_enum_validators
  <1>3. IsSequence(switch) /\ Mentioned(switch, Fn("enum_is_checked"))
    BY SwitchApart, SwitchMentions
  <1>4. ~ Declares(switch, Fn("enum_is_checked"))
    <2> DEFINE cases == [b \in Checked |-> <<type_map[Plain(b.name)], {}>>]
               head == <<Piece({}, {Fn("enum_is_checked")}, {})>>
               branches == [x \in DOMAIN cases |->
                  Piece({}, {Label("enum_is_checked", cases[x][1])}, {enumerator(cases[x][1])} \cup cases[x][2])]
    <2>1. DOMAIN head = 1 .. 1 /\ head[1].declares = {}
      BY OneSection DEF Piece
    <2>2. \A x \in DOMAIN branches : branches[x].declares = {}
      BY DEF Piece
    <2>3. switch = <<head, branches>>
      BY DEF Switch
    <2> HIDE DEF head, branches, switch
    <2> QED
      BY <2>1, <2>2, <2>3, TwoSections DEF Declares
  <1> HIDE DEF section, switch
  <1>5. IsSequence(<<section>>)
    BY OneSection
  <1>6. \A s : OfValidator(s) => Defines(<<section>>, s)
    BY <1>1, OneDefines DEF OfValidator
  <1> QED
    BY <1>2, <1>3, <1>4, <1>5, <1>6, JoinDefines DEF Mentioned

LEMMA SettersMentioned == \A s : OfSetter(s) => Mentioned(generate_type_setters, s)
  <1> DEFINE section == [n \in Types |-> generate_type_setter(n)]
  <1>1. \A n \in Types : n \in DOMAIN section /\ {set_field(n), get_field(n)} \subseteq section[n].defines
    BY DEF generate_type_setter, Piece
  <1>2. generate_type_setters = <<section>>
    BY DEF generate_type_setters
  <1> HIDE DEF section
  <1> QED
    BY <1>1, <1>2, OneDefines DEF OfSetter, Mentioned

\* Every field has an enumerator of the table.
FieldEnums == \A b \in DOMAIN structs : \A f \in DOMAIN FieldsOf(b) : type_enum[<<b, f>>] \in Enumerators

LEMMA TypeHasEnumerator == \A n \in DOMAIN type_map : OfEnumerator(enumerator(type_map[n]))
  BY DEF OfEnumerator, Enumerators, Range

LEMMA OneUses ==
    ASSUME NEW section, NEW s
    PROVE  Uses(<<section>>, s) <=> \E x \in DOMAIN section : s \in section[x].uses
  BY OneSection DEF Uses

LEMMA NothingUsed ==
    ASSUME NEW s
    PROVE  ~ Uses(generate_types, s) /\ ~ Uses(generate_extension_types, s) /\ ~ Uses(generate_declarations, s)
  <1>1. ~ Uses(generate_types, s)
    <2> DEFINE section == [e \in Enumerators |-> Piece({}, {enumerator(e)}, {})]
    <2>1. generate_types = <<section>> /\ \A x \in DOMAIN section : section[x].uses = {}
      BY DEF generate_types, Piece
    <2> HIDE DEF section
    <2> QED
      BY <2>1, OneUses
  <1>2. ~ Uses(generate_extension_types, s)
    <2> DEFINE symbols == UNION {{<<"extension", c, key>> : key \in Defined(c)} : c \in {"field", "member"}}
               section == <<Piece({}, symbols, {})>>
    <2>1. DOMAIN section = 1 .. 1 /\ section[1].uses = {}
      BY OneSection DEF Piece
    <2>2. generate_extension_types = <<section>>
      BY DEF generate_extension_types
    <2> HIDE DEF section
    <2> QED
      BY <2>1, <2>2, OneUses
  <1>3. ~ Uses(generate_declarations, s)
    <2> DEFINE A == [b \in DOMAIN structs |->
                       Piece({<<"table", structs[b].name>>} \cup ExtVars("field", b), {}, {})]
               B == [b \in DOMAIN enums |->
                       Piece({EnumTable(Plain(enums[b].name))} \cup ExtVars("member", b), {}, {})]
               C == <<Piece({}, {<<"GET_EXT", c>> : c \in {d \in {"field", "member"} : Defined(d) # {}}}, {})>>
    <2>1. generate_declarations = <<A, B, C>>
      BY DEF generate_declarations
    <2>2. /\ \A x \in DOMAIN A : A[x].uses = {}
          /\ \A x \in DOMAIN B : B[x].uses = {}
      BY DEF Piece
    <2>3. \A x \in DOMAIN C : C[x].uses = {}
      BY OneSection DEF Piece
    <2> HIDE DEF A, B, C
    <2>4. \A j \in DOMAIN generate_declarations :
             \/ j = 1 /\ generate_declarations[j] = A
             \/ j = 2 /\ generate_declarations[j] = B
             \/ j = 3 /\ generate_declarations[j] = C
      BY <2>1, ThreeSections
    <2> QED
      BY <2>2, <2>3, <2>4 DEF Uses
  <1> QED
    BY <1>1, <1>2, <1>3

LEMMA ValidatorsUse ==
    ASSUME ListedInv, NEW s, Uses(generate_enum_validators, s)
    PROVE  OfEnumerator(s)
  <1> DEFINE section == [b \in Checked |-> Piece({}, {<<"is_valid", b.name>>}, {})]
             cases == [b \in Checked |-> <<type_map[Plain(b.name)], {}>>]
             switch == Switch("enum_is_checked", cases)
  <1>1. \A x \in DOMAIN section : section[x].uses = {}
    BY DEF Piece
  <1>2. generate_enum_validators = <<section>> \o switch
    BY DEF generate_enum_validators
  <1>3. IsSequence(switch)
    BY SwitchApart
  <1>4. \A x \in DOMAIN cases : x \in Checked /\ cases[x][1] = type_map[Plain(x.name)] /\ cases[x][2] = {}
    OBVIOUS
  <1> HIDE DEF section, cases
  <1>5. Uses(switch, s) => OfEnumerator(s)
    <2> SUFFICES ASSUME Uses(switch, s) PROVE OfEnumerator(s)
      OBVIOUS
    <2>1. PICK x \in DOMAIN cases : s = enumerator(cases[x][1]) \/ s \in cases[x][2]
      BY SwitchUses
    <2>2. Plain(x.name) \in DOMAIN type_map
      BY <1>4 DEF Checked, ListedInv
    <2> QED
      BY <1>4, <2>1, <2>2, TypeHasEnumerator
  <1> HIDE DEF switch
  <1>6. IsSequence(<<section>>) /\ DOMAIN <<section>> = 1 .. 1 /\ <<section>>[1] = section
    BY OneSection
  <1>7. PICK k \in DOMAIN (<<section>> \o switch) : \E x \in DOMAIN (<<section>> \o switch)[k] :
                                                      s \in (<<section>> \o switch)[k][x].uses
    BY <1>2 DEF Uses
  <1>8. k \in 1 .. Len(<<section>>) + Len(switch) /\ Len(<<section>>) \in Nat /\ Len(switch) \in Nat
    BY <1>3, <1>6, JoinFacts
  <1>9. CASE k <= Len(<<section>>)
    <2>1. k \in DOMAIN <<section>> /\ (<<section>> \o switch)[k] = <<section>>[k]
      BY <1>3, <1>6, <1>8, <1>9, JoinFacts
    <2> QED
      BY <1>1, <1>6, <1>7, <2>1
  <1>10. CASE ~ (k <= Len(<<section>>))
    <2>1. k - Len(<<section>>) \in DOMAIN switch /\ (<<section>> \o switch)[k] = switch[k - Len(<<section>>)]
      BY <1>3, <1>6, <1>8, <1>10, JoinFacts
    <2> QED
      BY <1>5, <1>7, <2>1 DEF Uses
  <1> QED
    BY <1>9, <1>10

LEMMA SettersUse ==
    ASSUME NEW s, Uses(generate_type_setters, s)
    PROVE  OfEnumerator(s) \/ OfValidator(s)
  <1> DEFINE section == [n \in Types |-> generate_type_setter(n)]
  <1>1. \A n \in Types : \A t \in section[n].uses : t = enumerator(type_map[n]) \/ OfValidator(t)
    <2> SUFFICES ASSUME NEW n \in Types, NEW t \in section[n].uses, t # enumerator(type_map[n])
                 PROVE  OfValidator(t)
      OBVIOUS
    <2>1. (\E b \in Checked : Plain(b.name) = n) /\ t = <<"is_valid", n.base>>
      BY DEF generate_type_setter, Piece
    <2> QED
      BY <2>1 DEF OfValidator, Plain, Pointer
  <1>2. generate_type_setters = <<section>> /\ DOMAIN section = Types
    BY DEF generate_type_setters
  <1> HIDE DEF section
  <1>3. \E n \in Types : s \in section[n].uses
    BY <1>2, OneUses
  <1> QED
    BY <1>1, <1>3, TypeHasEnumerator DEF Types

LEMMA DynamicUses ==
    ASSUME ListedInv, FieldsInv, FieldEnums, NEW s, Uses(generate_dynamic_array_accessors, s)
    PROVE  OfEnumerator(s)
  <1> DEFINE section == generate_dynamic_array_accessors[1]
  <1>1. generate_dynamic_array_accessors = <<section>> /\ DOMAIN section = Dynamic
    BY DEF generate_dynamic_array_accessors
  <1>2. \A sf \in Dynamic :
           section[sf].uses = {enumerator(type_enum[sf]), enumerator(type_map[Plain(structs[sf[1]].name)])}
    BY DEF generate_dynamic_array_accessors, Piece
  <1> HIDE DEF section
  <1>3. PICK sf \in Dynamic : s \in section[sf].uses
    BY <1>1, OneUses
  <1>4. sf \in DOMAIN type_enum
    BY DEF Dynamic
  <1>5. sf[1] \in DOMAIN structs /\ sf[2] \in DOMAIN FieldsOf(sf[1]) /\ sf = <<sf[1], sf[2]>>
    BY <1>4 DEF FieldsInv, ListedInv
  <1>6. type_enum[sf] \in Enumerators
    BY <1>5 DEF FieldEnums
  <1>7. Plain(structs[sf[1]].name) \in DOMAIN type_map
    BY <1>5 DEF ListedInv, Range
  <1> QED
    BY <1>2, <1>3, <1>6, <1>7, TypeHasEnumerator DEF OfEnumerator

LEMMA TablesUse ==
    ASSUME FieldEnums, NEW s, Uses(generate_tables, s)
    PROVE  OfEnumerator(s)
  <1> DEFINE A == [b \in DOMAIN structs |-> StructTable(b)]
             B == [b \in DOMAIN enums |-> MembersTable(b)]
  <1>1. \A b \in DOMAIN structs : A[b].uses = {enumerator(type_enum[<<b, f>>]) : f \in DOMAIN FieldsOf(b)}
    BY DEF StructTable, Piece
  <1>2. \A b \in DOMAIN enums : B[b].uses = {}
    BY DEF MembersTable, Piece
  <1>3. DOMAIN A = DOMAIN structs /\ DOMAIN B = DOMAIN enums
    OBVIOUS
  <1>4. generate_tables = <<A, B>>
    BY DEF generate_tables
  <1> HIDE DEF A, B
  <1>5. \E b \in DOMAIN structs : s \in A[b].uses
    BY <1>2, <1>3, <1>4, TwoSections DEF Uses
  <1> QED
    BY <1>1, <1>5 DEF FieldEnums, OfEnumerator

LEMMA SwitchesUse ==
    ASSUME NEW s
    PROVE  /\ Uses(get_struct_metadata, s) => OfEnumerator(s) \/ OfTable(s)
           /\ Uses(get_enum_metadata, s) => OfEnumerator(s) \/ OfTable(s)
           /\ Uses(generic_type_setter, s) => OfEnumerator(s) \/ OfSetter(s)
           /\ Uses(get_name_of_type, s) => OfEnumerator(s)
           /\ Uses(basetype_caster, s) => OfEnumerator(s)
           /\ Uses(get_type_size, s) => OfEnumerator(s)
  <1>1. ASSUME NEW name, NEW cases, DOMAIN cases \subseteq Types,
               \A n \in DOMAIN cases : cases[n][1] = type_map[n],
               Uses(Switch(name, cases), s)
        PROVE  OfEnumerator(s) \/ \E n \in DOMAIN cases : s \in cases[n][2]
    <2>1. PICK x \in DOMAIN cases : s = enumerator(cases[x][1]) \/ s \in cases[x][2]
      BY <1>1, SwitchUses
    <2>2. x \in DOMAIN type_map
      BY <1>1 DEF Types
    <2> QED
      BY <1>1, <2>1, <2>2, TypeHasEnumerator
  <1>2. Uses(get_struct_metadata, s) => OfEnumerator(s) \/ OfTable(s)
    <2> DEFINE cases == [n \in {t \in Types : t.stars = 0 /\ IsStruct(t)} |-> <<type_map[n], {<<"table", n.base>>}>>]
    <2>1. get_struct_metadata = Switch("get_struct_metadata", cases)
      BY DEF get_struct_metadata
    <2>2. /\ DOMAIN cases \subseteq Types
          /\ \A n \in DOMAIN cases : cases[n][1] = type_map[n]
      OBVIOUS
    <2>3. \A n \in DOMAIN cases : IsStruct(n) /\ cases[n][2] = {<<"table", n.base>>}
      OBVIOUS
    <2> HIDE DEF cases
    <2>4. \A n \in DOMAIN cases : \A t \in cases[n][2] : OfTable(t)
      BY <2>3 DEF IsStruct, Named, OfTable, Range
    <2> QED
      BY <1>1, <2>1, <2>2, <2>4
  <1>3. Uses(get_enum_metadata, s) => OfEnumerator(s) \/ OfTable(s)
    <2> DEFINE cases == [n \in {t \in Types : IsEnum(t) /\ t = Plain(t.base)} |-> <<type_map[n], {EnumTable(n)}>>]
    <2>1. get_enum_metadata = Switch("get_enum_metadata", cases)
      BY DEF get_enum_metadata
    <2>2. /\ DOMAIN cases \subseteq Types
          /\ \A n \in DOMAIN cases : cases[n][1] = type_map[n]
      OBVIOUS
    <2>3. \A n \in DOMAIN cases : IsEnum(n) /\ n = Plain(n.base) /\ cases[n][2] = {EnumTable(n)}
      OBVIOUS
    <2> HIDE DEF cases
    <2>4. \A n \in DOMAIN cases : \A t \in cases[n][2] : OfTable(t)
      BY <2>3 DEF IsEnum, Named, OfTable, Range
    <2> QED
      BY <1>1, <2>1, <2>2, <2>4
  <1>4. Uses(generic_type_setter, s) => OfEnumerator(s) \/ OfSetter(s)
    <2> DEFINE cases == [n \in Types |-> <<type_map[n], {set_field(n)}>>]
    <2>1. generic_type_setter = Switch("safe_set_field", cases)
      BY DEF generic_type_setter
    <2>2. /\ DOMAIN cases \subseteq Types
          /\ \A n \in DOMAIN cases : cases[n][1] = type_map[n]
      OBVIOUS
    <2>3. \A n \in DOMAIN cases : \A t \in cases[n][2] : OfSetter(t)
      BY DEF OfSetter
    <2> HIDE DEF cases
    <2> QED
      BY <1>1, <2>1, <2>2, <2>3
  <1>5. Uses(get_name_of_type, s) => OfEnumerator(s)
    <2> DEFINE cases == [e \in Enumerators |-> <<e, {}>>]
    <2>1. get_name_of_type = Switch("get_name_of_type", cases)
      BY DEF get_name_of_type
    <2>2. \A e \in DOMAIN cases : e \in Enumerators /\ cases[e][1] = e /\ cases[e][2] = {}
      OBVIOUS
    <2> HIDE DEF cases
    <2>3. Uses(Switch("get_name_of_type", cases), s) =>
             \E x \in DOMAIN cases : s = enumerator(cases[x][1]) \/ s \in cases[x][2]
      BY SwitchUses
    <2> QED
      BY <2>1, <2>2, <2>3 DEF OfEnumerator
  <1>6. Uses(basetype_caster, s) => OfEnumerator(s)
    <2> DEFINE cases == [n \in {t \in Types : base_type(type_map[t]) # {}} |->
                           <<type_map[n], {enumerator(e) : e \in base_type(type_map[n])}>>]
    <2>1. basetype_caster = Switch("get_base_type", cases)
      BY DEF basetype_caster
    <2>2. /\ DOMAIN cases \subseteq Types
          /\ \A n \in DOMAIN cases : cases[n][1] = type_map[n]
      OBVIOUS
    <2>3. \A e : base_type(e) \subseteq Enumerators
      BY DEF base_type, Enumerators, Range
    <2>4. \A n \in DOMAIN cases : cases[n][2] = {enumerator(e) : e \in base_type(type_map[n])}
      OBVIOUS
    <2> HIDE DEF cases
    <2>5. \A n \in DOMAIN cases : \A t \in cases[n][2] : OfEnumerator(t)
      BY <2>3, <2>4 DEF OfEnumerator
    <2> QED
      BY <1>1, <2>1, <2>2, <2>5
  <1>7. Uses(get_type_size, s) => OfEnumerator(s)
    <2> DEFINE cases == [n \in Types |-> <<type_map[n], {}>>]
    <2>1. get_type_size = Switch("get_type_size", cases)
      BY DEF get_type_size
    <2>2. /\ DOMAIN cases \subseteq Types
          /\ \A n \in DOMAIN cases : cases[n][1] = type_map[n] /\ cases[n][2] = {}
      OBVIOUS
    <2> HIDE DEF cases
    <2> QED
      BY <1>1, <2>1, <2>2
  <1> QED
    BY <1>2, <1>3, <1>4, <1>5, <1>6, <1>7

\* What the declarations declare, the tables define.
LEMMA DeclaredIsDefined ==
    ASSUME NEW s, Declares(generate_declarations, s)
    PROVE  Defines(generate_tables, s)
  <1> DEFINE A == [b \in DOMAIN structs |->
                     Piece({<<"table", structs[b].name>>} \cup ExtVars("field", b), {}, {})]
             B == [b \in DOMAIN enums |->
                     Piece({EnumTable(Plain(enums[b].name))} \cup ExtVars("member", b), {}, {})]
             C == <<Piece({}, {<<"GET_EXT", c>> : c \in {d \in {"field", "member"} : Defined(d) # {}}}, {})>>
             D == [b \in DOMAIN structs |-> StructTable(b)]
             E == [b \in DOMAIN enums |-> MembersTable(b)]
  <1>1. generate_declarations = <<A, B, C>> /\ generate_tables = <<D, E>>
    BY DEF generate_declarations, generate_tables
  <1>2. DOMAIN A = DOMAIN D /\ \A b \in DOMAIN A : A[b].declares = D[b].defines
    BY DEF Piece, StructTable
  <1>3. DOMAIN B = DOMAIN E /\ \A b \in DOMAIN B : B[b].declares = E[b].defines
    BY DEF Piece, MembersTable
  <1>4. \A x \in DOMAIN C : C[x].declares = {}
    BY OneSection DEF Piece
  <1> HIDE DEF A, B, C, D, E
  <1>5. \A j \in DOMAIN generate_declarations :
           \/ j = 1 /\ generate_declarations[j] = A
           \/ j = 2 /\ generate_declarations[j] = B
           \/ j = 3 /\ generate_declarations[j] = C
    BY <1>1, ThreeSections
  <1>6. \/ \E b \in DOMAIN A : s \in A[b].declares
        \/ \E b \in DOMAIN B : s \in B[b].declares
    BY <1>4, <1>5 DEF Declares
  <1> QED
    BY <1>1, <1>2, <1>3, <1>6, TwoSections DEF Defines

-----------------------------------------------------------------------------
(* What the plugins' code uses                                             *)

\* What a plugin asks of the others, whatever the types are
Asked(s) ==
    \E k \in DOMAIN plugins :
        \/ \E x \in DOMAIN plugins[k].functions : s \in plugins[k].functions[x].uses
        \/ \E j \in DOMAIN plugins[k].mappers :
              s \in plugins[k].mappers[j].types \cup Needs(plugins[k].mappers[j].name)

\* What the generator has for the types
OfTypes(s) == OfEnumerator(s) \/ OfTable(s) \/ OfSetter(s) \/ s = Fn("enum_is_checked")

LEMMA HeadsOfTypes == \A s : OfTypes(s) => s[1] \in {"enumerator", "table", "members", "set_field", "get_field", "fn"}
  BY DEF OfTypes, OfEnumerator, OfTable, OfSetter, enumerator, EnumTable, set_field, get_field, Fn

LEMMA AskedIsProvided ==
    ASSUME PluginsAreClosed, WhereInv, NEW s, Asked(s)
    PROVE  Provided(plugins, s)
  <1>1. PICK r \in Runs : plugins = r[2]
    BY DEF WhereInv
  <1>2. PICK k \in DOMAIN plugins :
           \/ \E x \in DOMAIN plugins[k].functions : s \in plugins[k].functions[x].uses
           \/ \E j \in DOMAIN plugins[k].mappers :
                 s \in plugins[k].mappers[j].types \cup Needs(plugins[k].mappers[j].name)
    BY DEF Asked
  <1>3. plugins[k] \in Range(r[2])
    BY <1>1 DEF Range
  <1>4. /\ \A f \in Range(plugins[k].functions) : \A t \in f.uses : Provided(r[2], t)
        /\ \A m \in Range(plugins[k].mappers) : \A t \in m.types \cup Needs(m.name) : Provided(r[2], t)
    BY <1>3, Zenon DEF PluginsAreClosed
  <1>5. /\ \A x \in DOMAIN plugins[k].functions : plugins[k].functions[x] \in Range(plugins[k].functions)
        /\ \A j \in DOMAIN plugins[k].mappers : plugins[k].mappers[j] \in Range(plugins[k].mappers)
    BY DEF Range
  <1>6. CASE \E x \in DOMAIN plugins[k].functions : s \in plugins[k].functions[x].uses
    BY <1>1, <1>4, <1>5, <1>6
  <1>7. CASE \E j \in DOMAIN plugins[k].mappers :
                 s \in plugins[k].mappers[j].types \cup Needs(plugins[k].mappers[j].name)
    BY <1>1, <1>4, <1>5, <1>7
  <1> QED
    BY <1>2, <1>6, <1>7

LEMMA EnumTableOf ==
    ASSUME EnumsByName, NEW n \in Types, IsEnum(n)
    PROVE  OfTable(EnumTable(n))
  <1>1. n = Plain(n.base)
    BY DEF EnumsByName
  <1>2. \E b \in DOMAIN enums : enums[b].name = n.base
    BY DEF IsEnum, Named, Range
  <1> QED
    BY <1>1, <1>2 DEF OfTable

LEMMA FunctionUses ==
    ASSUME NEW f, NEW uses, NEW g \in Function(f, uses).func
    PROVE  g.uses = uses /\ g.declares = {} /\ g.defines = {f}
  BY DEF Function, Piece

LEMMA NoneUses == None.func = {} /\ None.case = {}
  BY DEF None

LEMMA MappedUses ==
    ASSUME EnumsByName, NEW name \in MapperNames, NEW n \in Types,
           NEW f \in Mapped(name, n).func, NEW s \in f.uses
    PROVE  s \in Needs(name) \/ OfTypes(s)
  <1>1. /\ OfTypes(get_field(n)) /\ OfTypes(set_field(n)) /\ OfTypes(enumerator(type_map[n]))
        /\ OfTypes(Fn("enum_is_checked"))
    BY TypeHasEnumerator DEF OfTypes, OfSetter, Types
  <1>2. IsEnum(n) => OfTypes(EnumTable(n))
    BY EnumTableOf DEF OfTypes
  <1>3. CASE name = "get_field_as_str"
    <2>1. Mapped(name, n) = get_field_as_str(n)
      BY <1>3 DEF Mapped
    <2>2. Needs(name) = FieldExt("format") \cup MemberExt("display")
      BY <1>3 DEF Needs
    <2>3. CASE IsEnum(n)
      <3>1. Mapped(name, n) = Function(<<"get_field_as_str", Suffix(n)>>,
                                       {get_field(n), EnumTable(n)} \cup MemberExt("display"))
        BY <2>1, <2>3 DEF get_field_as_str
      <3> QED
        BY <1>1, <1>2, <2>2, <2>3, <3>1, FunctionUses
    <2>4. CASE ~ IsEnum(n)
      <3>1. \/ Mapped(name, n) = Function(<<"get_field_as_str", Suffix(n)>>, {get_field(n)} \cup FieldExt("format"))
            \/ Mapped(name, n) = None
        BY <2>1, <2>4 DEF get_field_as_str
      <3> QED
        BY <1>1, <2>2, <3>1, FunctionUses, NoneUses
    <2> QED
      BY <2>3, <2>4
  <1>4. CASE name = "set_field_from_str"
    <2>1. Mapped(name, n) = set_field_from_str(n)
      BY <1>4 DEF Mapped
    <2>2. CASE IsEnum(n)
      <3>1. Mapped(name, n) = Function(<<"set_field_from_str", Suffix(n)>>,
                {set_field(n), EnumTable(n), Fn("enum_is_checked"), enumerator(type_map[n])})
        BY <2>1, <2>2 DEF set_field_from_str, enumerator
      <3> QED
        BY <1>1, <1>2, <2>2, <3>1, FunctionUses
    <2>3. CASE ~ IsEnum(n)
      <3>1. \/ Mapped(name, n) = Function(<<"set_field_from_str", Suffix(n)>>, {set_field(n)})
            \/ Mapped(name, n) = None
        BY <2>1, <2>3 DEF set_field_from_str
      <3> QED
        BY <1>1, <3>1, FunctionUses, NoneUses
    <2> QED
      BY <2>2, <2>3
  <1>5. CASE name = "process_field"
    <2>1. \/ Mapped(name, n) = Function(<<"process_field", Suffix(n)>>, {get_field(n)})
          \/ Mapped(name, n) = None
      BY <1>5 DEF Mapped, process_field
    <2> QED
      BY <1>1, <2>1, FunctionUses, NoneUses
  <1>6. CASE name \in {"json_is_string_type", "json_needs_quote", "json_is_string_array"}
    <2>1. Mapped(name, n).func = {}
      BY <1>6 DEF Mapped, json_is_string_type, json_needs_quote, json_is_string_array, TrueFor, None
    <2> QED
      BY <2>1
  <1>7. CASE name = "json_serialize_custom"
    <2>1. f.uses = {HeaderType("_cmy_json_state")}
      BY <1>7, NoneUses DEF Mapped, json_serialize_custom, Piece
    <2> QED
      BY <1>7, <2>1 DEF Needs
  <1>8. CASE name = "type_to_json"
    <2>1. f.uses = {Fn("to_json"), enumerator(type_map[n])}
      BY <1>8, NoneUses DEF Mapped, type_to_json, Piece, enumerator
    <2> QED
      BY <1>1, <1>8, <2>1 DEF Needs
  <1>9. CASE name = "type_to_json_stream"
    <2>1. f.uses = {Fn("to_json_stream"), HeaderType("cmy_json_write_cb"), enumerator(type_map[n])}
      BY <1>9, NoneUses DEF Mapped, type_to_json_stream, Piece, enumerator
    <2> QED
      BY <1>1, <1>9, <2>1 DEF Needs
  <1> QED
    BY <1>3, <1>4, <1>5, <1>6, <1>7, <1>8, <1>9 DEF MapperNames

\* A mapper declares what it leaves to the user; its cases call what it
\* declares or defines.
LEMMA MappedDeclares ==
    ASSUME NEW name \in MapperNames, NEW n
    PROVE  /\ \A f \in Mapped(name, n).func : \A s \in f.declares : s[1] = "extern"
           /\ \A c \in Mapped(name, n).case : \A s \in c :
                 \E f \in Mapped(name, n).func : s \in f.declares \cup f.defines
  <1> DEFINE goal(o) == /\ \A f \in o.func : \A s \in f.declares : s[1] = "extern"
                        /\ \A c \in o.case : \A s \in c : \E f \in o.func : s \in f.declares \cup f.defines
  <1>1. goal(None)
    BY DEF None
  <1>2. ASSUME NEW f, NEW uses PROVE goal(Function(f, uses))
    <2> DEFINE piece == Piece({}, {f}, uses)
    <2>1. piece.declares = {} /\ piece.defines = {f}
      BY DEF Piece
    <2> HIDE DEF piece
    <2>2. Function(f, uses).func = {piece} /\ Function(f, uses).case = {{f}}
      BY DEF Function, piece
    <2> QED
      BY <2>1, <2>2
  <1>3. goal([func |-> {}, case |-> {{}}])
    OBVIOUS
  <1>4. CASE name = "get_field_as_str"
    <2>1. Mapped(name, n) = None \/ \E f, uses : Mapped(name, n) = Function(f, uses)
      BY <1>4 DEF Mapped, get_field_as_str
    <2> QED
      BY <1>1, <1>2, <2>1
  <1>5. CASE name = "set_field_from_str"
    <2>1. Mapped(name, n) = None \/ \E f, uses : Mapped(name, n) = Function(f, uses)
      BY <1>5 DEF Mapped, set_field_from_str
    <2> QED
      BY <1>1, <1>2, <2>1
  <1>6. CASE name = "process_field"
    <2>1. Mapped(name, n) = None \/ \E f, uses : Mapped(name, n) = Function(f, uses)
      BY <1>6 DEF Mapped, process_field
    <2> QED
      BY <1>1, <1>2, <2>1
  <1>7. CASE name \in {"json_is_string_type", "json_needs_quote", "json_is_string_array"}
    <2>1. Mapped(name, n) = None \/ Mapped(name, n) = [func |-> {}, case |-> {{}}]
      BY <1>7 DEF Mapped, json_is_string_type, json_needs_quote, json_is_string_array, TrueFor
    <2> QED
      BY <1>1, <1>3, <2>1
  <1>8. CASE name = "json_serialize_custom"
    <2>1. Mapped(name, n) = None \/ \E named :
             Mapped(name, n) = [func |-> {Piece({<<"extern", f>>}, {}, {HeaderType("_cmy_json_state")}) : f \in named},
                                case |-> {{<<"extern", f>>} : f \in named}]
      BY <1>8 DEF Mapped, json_serialize_custom
    <2>2. ASSUME NEW named
          PROVE  goal([func |-> {Piece({<<"extern", f>>}, {}, {HeaderType("_cmy_json_state")}) : f \in named},
                       case |-> {{<<"extern", f>>} : f \in named}])
      <3> DEFINE left(f) == Piece({<<"extern", f>>}, {}, {HeaderType("_cmy_json_state")})
                 o == [func |-> {left(f) : f \in named}, case |-> {{<<"extern", f>>} : f \in named}]
      <3>1. \A f : left(f).declares = {<<"extern", f>>}
        BY DEF Piece
      <3> HIDE DEF left
      <3>2. \A g \in o.func : \E f \in named : g = left(f)
        OBVIOUS
      <3>3. \A c \in o.case : \E f \in named : c = {<<"extern", f>>} /\ left(f) \in o.func
        OBVIOUS
      <3> HIDE DEF o
      <3>4. goal(o)
        BY <3>1, <3>2, <3>3
      <3> QED
        BY <3>4 DEF o, left
    <2> QED
      BY <1>1, <2>1, <2>2
  <1>9. CASE name = "type_to_json"
    <2>1. Mapped(name, n) = None \/ \E f, uses : Mapped(name, n) = [func |-> {Piece({}, {f}, uses)}, case |-> {}]
      BY <1>9 DEF Mapped, type_to_json
    <2> QED
      BY <1>1, <2>1 DEF Piece
  <1>10. CASE name = "type_to_json_stream"
    <2>1. Mapped(name, n) = None \/ \E f, uses : Mapped(name, n) = [func |-> {Piece({}, {f}, uses)}, case |-> {}]
      BY <1>10 DEF Mapped, type_to_json_stream
    <2> QED
      BY <1>1, <2>1 DEF Piece
  <1> QED
    BY <1>4, <1>5, <1>6, <1>7, <1>8, <1>9, <1>10 DEF MapperNames

LEMMA JoinUses ==
    ASSUME NEW p, NEW q, IsSequence(p), IsSequence(q), NEW s, Uses(p \o q, s)
    PROVE  Uses(p, s) \/ Uses(q, s)
  <1>1. PICK k \in DOMAIN (p \o q) : \E x \in DOMAIN (p \o q)[k] : s \in (p \o q)[k][x].uses
    BY DEF Uses
  <1>2. k \in 1 .. Len(p) + Len(q) /\ Len(p) \in Nat /\ Len(q) \in Nat
    BY JoinFacts
  <1>3. CASE k <= Len(p)
    <2>1. k \in DOMAIN p /\ (p \o q)[k] = p[k]
      BY <1>2, <1>3, JoinFacts
    <2> QED
      BY <1>1, <2>1 DEF Uses
  <1>4. CASE ~ (k <= Len(p))
    <2>1. k - Len(p) \in DOMAIN q /\ (p \o q)[k] = q[k - Len(p)]
      BY <1>2, <1>4, JoinFacts
    <2> QED
      BY <1>1, <2>1 DEF Uses
  <1> QED
    BY <1>3, <1>4

-----------------------------------------------------------------------------
(* The plugins' code and its prototypes                                    *)

Promised(declared, s) == \E f \in declared : s \in f.declares

\* What a step of a plugin, once taken, has left a prototype of
Promises(k, j) ==
    (IF j = 0 THEN {Fn(plugins[k].functions[x].name) : x \in DOMAIN plugins[k].functions} ELSE {})
    \cup (IF j \in DOMAIN plugins[k].mappers /\ plugins[k].mappers[j].force
          THEN {Fn(plugins[k].mappers[j].name)} ELSE {})

\* What the code so far uses, the plugins ask for, the types have or a
\* prototype declares; what a prototype declares, the code defines or the
\* user; every step so far has left its prototypes.
UsesInv ==
    /\ pc \in {"text", "body", "resolve"} => code = <<>> /\ protos = {} /\ turn = <<1, 0>>
    /\ pc \in {"done", "written"} =>
          /\ EnumsByName =>
                /\ \A s : Uses(code, s) => Asked(s) \/ OfTypes(s) \/ Promised(protos, s)
                /\ \A f \in protos : \A s \in f.uses : s[1] = "header" /\ Asked(s)
          /\ \A s : Promised(protos, s) => s[1] = "extern" \/ Defines(code, s)
          /\ \A s : Declares(code, s) => s[1] = "extern"
          /\ \A k \in DOMAIN plugins, j \in Nat :
                Earlier(k, j, turn) => \A s \in Promises(k, j) : Promised(protos, s)

LEMMA JoinSections ==
    ASSUME NEW p, NEW q, IsSequence(p), IsSequence(q), NEW k \in DOMAIN (p \o q)
    PROVE  \/ \E j \in DOMAIN p : (p \o q)[k] = p[j]
           \/ \E j \in DOMAIN q : (p \o q)[k] = q[j]
  <1>1. k \in 1 .. Len(p) + Len(q) /\ Len(p) \in Nat /\ Len(q) \in Nat
    BY JoinFacts
  <1>2. CASE k <= Len(p)
    BY <1>1, <1>2, JoinFacts
  <1>3. CASE ~ (k <= Len(p))
    <2>1. k - Len(p) \in 1 .. Len(q)
      BY <1>1, <1>3
    <2> QED
      BY <1>1, <1>3, <2>1, JoinFacts
  <1> QED
    BY <1>2, <1>3

LEMMA AddedToCode ==
    ASSUME CodeInv, NEW section, NEW routed, IsSequence(routed),
           NEW new, new = Append(code, section) \o routed, NEW s
    PROVE  /\ Uses(new, s) => Uses(code, s) \/ Uses(<<section>>, s) \/ Uses(routed, s)
           /\ Declares(new, s) => Declares(code, s) \/ Declares(<<section>>, s) \/ Declares(routed, s)
           /\ Defines(code, s) \/ Defines(<<section>>, s) \/ Defines(routed, s) => Defines(new, s)
  <1>1. Append(code, section) = code \o <<section>>
    BY AppendIsConcat DEF CodeInv, IsSequence
  <1>2. IsSequence(code) /\ IsSequence(<<section>>)
    BY OneSection DEF CodeInv
  <1> DEFINE longer == code \o <<section>>
  <1>3. IsSequence(longer)
    BY <1>2, JoinFacts
  <1>4. \A k \in DOMAIN longer : \/ \E j \in DOMAIN code : longer[k] = code[j]
                                 \/ \E j \in DOMAIN <<section>> : longer[k] = <<section>>[j]
    BY <1>2, JoinSections
  <1>5. Defines(longer, s) <=> Defines(code, s) \/ Defines(<<section>>, s)
    BY <1>2, JoinDefines
  <1>6. new = longer \o routed
    BY <1>1
  <1> HIDE DEF longer
  <1>7. \A k \in DOMAIN new : \/ \E j \in DOMAIN longer : new[k] = longer[j]
                              \/ \E j \in DOMAIN routed : new[k] = routed[j]
    BY <1>3, <1>6, JoinSections
  <1>8. Defines(new, s) <=> Defines(longer, s) \/ Defines(routed, s)
    BY <1>3, <1>6, JoinDefines
  <1>9. /\ Uses(longer, s) => Uses(code, s) \/ Uses(<<section>>, s)
        /\ Declares(longer, s) => Declares(code, s) \/ Declares(<<section>>, s)
    BY <1>4 DEF Uses, Declares
  <1>10. Uses(new, s) => Uses(longer, s) \/ Uses(routed, s)
    BY <1>7 DEF Uses
  <1>11. Declares(new, s) => Declares(longer, s) \/ Declares(routed, s)
    BY <1>7 DEF Declares
  <1> QED
    BY <1>5, <1>8, <1>9, <1>10, <1>11

LEMMA SameAsked ==
    ASSUME UNCHANGED plugins
    PROVE  /\ \A s : Asked(s)' <=> Asked(s)
           /\ \A k, j : Promises(k, j)' = Promises(k, j)
  BY DEF Asked, Promises

LEMMA SameTypes ==
    ASSUME UNCHANGED tables
    PROVE  /\ EnumsByName' <=> EnumsByName
           /\ \A s : OfTypes(s)' <=> OfTypes(s)
  <1>1. UNCHANGED <<Types, Enumerators>>
    BY DEF tables, Types, Enumerators
  <1>2. EnumsByName' <=> EnumsByName
    BY <1>1 DEF tables, EnumsByName, IsEnum, Named
  <1>3. \A s : OfTypes(s)' <=> OfTypes(s)
    BY <1>1 DEF tables, OfTypes, OfEnumerator, OfTable, OfSetter
  <1> QED
    BY <1>2, <1>3

LEMMA PrototypeIs ==
    ASSUME NEW f
    PROVE  /\ Prototype(f).declares = f.declares \cup f.defines
           /\ \A s : s \in Prototype(f).uses <=> s \in f.uses /\ s[1] = "header"
  BY DEF Prototype, Piece

LEMMA PromisedMore ==
    ASSUME NEW P, NEW S, NEW s
    PROVE  Promised(P \cup {Prototype(f) : f \in S}, s) <=>
              Promised(P, s) \/ \E f \in S : s \in f.declares \cup f.defines
  <1>1. \A g : g \in P \cup {Prototype(f) : f \in S} <=> g \in P \/ \E f \in S : g = Prototype(f)
    OBVIOUS
  <1> QED
    BY <1>1, PrototypeIs DEF Promised

\* A step that is not the last of its plugin, with the code and the
\* prototypes it leaves
LEMMA UsesAfter ==
    ASSUME ReadInv, ShapeInv, CodeInv, UsesInv, Emitting, UNCHANGED <<plugins, tables>>, pc' = "done",
           turn' = <<turn[1], turn[2] + 1>>,
           NEW section, NEW routed, IsSequence(routed), code' = Append(code, section) \o routed,
           NEW S, protos' = protos \cup {Prototype(f) : f \in S},
           EnumsByName => \A s : Uses(<<section>>, s) \/ Uses(routed, s) =>
                                    Asked(s) \/ OfTypes(s) \/ \E f \in S : s \in f.declares \cup f.defines,
           EnumsByName => \A f \in S : \A s \in f.uses : s[1] = "header" => Asked(s),
           \A f \in S : \A s \in f.declares \cup f.defines :
               s[1] = "extern" \/ Defines(<<section>>, s) \/ Defines(routed, s),
           \A s : Declares(<<section>>, s) \/ Declares(routed, s) => s[1] = "extern",
           \A s \in Promises(turn[1], turn[2]) : \E f \in S : s \in f.declares \cup f.defines
    PROVE  UsesInv'
  <1>1. pc = "done"
    BY DEF Emitting
  <1>2. \A s : Promised(protos', s) <=> Promised(protos, s) \/ \E f \in S : s \in f.declares \cup f.defines
    BY PromisedMore
  <1>3. \A s : /\ Uses(code', s) => Uses(code, s) \/ Uses(<<section>>, s) \/ Uses(routed, s)
               /\ Declares(code', s) => Declares(code, s) \/ Declares(<<section>>, s) \/ Declares(routed, s)
               /\ Defines(code, s) \/ Defines(<<section>>, s) \/ Defines(routed, s) => Defines(code', s)
    BY AddedToCode
  <1>4. ASSUME EnumsByName
        PROVE  /\ \A s : Uses(code', s) => Asked(s) \/ OfTypes(s) \/ Promised(protos', s)
               /\ \A f \in protos' : \A s \in f.uses : s[1] = "header" /\ Asked(s)
    <2>1. \A s : Uses(code, s) => Asked(s) \/ OfTypes(s) \/ Promised(protos, s)
      BY <1>1, <1>4 DEF UsesInv
    <2>2. \A s : Uses(code', s) => Asked(s) \/ OfTypes(s) \/ Promised(protos', s)
      BY <1>2, <1>3, <1>4, <2>1
    <2>3. \A f \in protos : \A s \in f.uses : s[1] = "header" /\ Asked(s)
      BY <1>1, <1>4 DEF UsesInv
    <2>4. \A g \in protos' : g \in protos \/ \E f \in S : g = Prototype(f)
      OBVIOUS
    <2>5. ASSUME NEW g \in protos', NEW s \in g.uses
          PROVE  s[1] = "header" /\ Asked(s)
      <3>1. CASE g \in protos
        BY <2>3, <3>1
      <3>2. CASE \E f \in S : g = Prototype(f)
        <4>1. PICK f \in S : g = Prototype(f)
          BY <3>2
        <4>2. s \in f.uses /\ s[1] = "header"
          BY <4>1, PrototypeIs
        <4> QED
          BY <1>4, <4>2
      <3> QED
        BY <2>4, <3>1, <3>2
    <2> QED
      BY <2>2, <2>5
  <1>5. \A s : Promised(protos', s) => s[1] = "extern" \/ Defines(code', s)
    <2>1. \A s : Promised(protos, s) => s[1] = "extern" \/ Defines(code, s)
      BY <1>1 DEF UsesInv
    <2> QED
      BY <1>2, <1>3, <2>1
  <1>6. \A s : Declares(code', s) => s[1] = "extern"
    <2>1. \A s : Declares(code, s) => s[1] = "extern"
      BY <1>1 DEF UsesInv
    <2> QED
      BY <1>3, <2>1
  <1>7. \A k \in DOMAIN plugins, j \in Nat :
           Earlier(k, j, turn') => \A s \in Promises(k, j) : Promised(protos', s)
    <2>1. turn[1] \in Nat /\ turn[2] \in Nat /\ turn'[1] = turn[1] /\ turn'[2] = turn[2] + 1
      BY TurnTypes DEF ReadInv, ShapeInv
    <2>2. \A k \in DOMAIN plugins : k \in Nat
      BY PluginFacts DEF ReadInv
    <2>3. \A k \in DOMAIN plugins, j \in Nat :
             Earlier(k, j, turn') => Earlier(k, j, turn) \/ (k = turn[1] /\ j = turn[2])
      BY <2>1, <2>2 DEF Earlier
    <2>4. \A k \in DOMAIN plugins, j \in Nat :
             Earlier(k, j, turn) => \A s \in Promises(k, j) : Promised(protos, s)
      BY <1>1 DEF UsesInv
    <2> QED
      BY <1>2, <2>3, <2>4
  <1>8. /\ EnumsByName' <=> EnumsByName
        /\ \A s : OfTypes(s)' <=> OfTypes(s)
        /\ \A s : Asked(s)' <=> Asked(s)
        /\ \A k, j : Promises(k, j)' = Promises(k, j)
    BY SameTypes, SameAsked
  <1> QED
    BY <1>4, <1>5, <1>6, <1>7, <1>8 DEF UsesInv

LEMMA NothingInNoCode == \A s : ~ Uses(<<>>, s) /\ ~ Declares(<<>>, s)
  BY EmptySequence DEF Uses, Declares

\* The switch of a mapper uses what the mapper asks for, the types' enumerators
\* and what its cases call.
LEMMA RouterUses ==
    ASSUME NEW m, router = <<>>
    PROVE  /\ \A s : Uses(Router(m), s) => \/ s \in m.types
                                           \/ \E n \in Types : OfTypes(s) \/ \E c \in Mapped(m.name, n).case : s \in c
           /\ \A s : ~ Declares(Router(m), s)
           /\ m.force => Router(m) # <<>>
           /\ Router(m) # <<>> =>
                 /\ Router(m)[1][1] = Piece({}, {Fn(m.name)}, m.types)
                 /\ Defines(Router(m), Fn(m.name))
  <1> DEFINE cases == MappedBy(m, "case")
             case(n) == Piece({}, {Label(m.name, type_map[n])},
                              {<<"enumerator", type_map[n]>>} \cup UNION Mapped(m.name, n).case)
             head == <<Piece({}, {Fn(m.name)}, m.types)>>
             branches == [n \in cases |-> case(n)]
  <1>1. DOMAIN head = 1 .. 1 /\ head[1] = Piece({}, {Fn(m.name)}, m.types)
    BY OneSection
  <1>2. head[1].defines = {Fn(m.name)} /\ head[1].declares = {} /\ head[1].uses = m.types
    BY <1>1 DEF Piece
  <1>3. 1 \in DOMAIN head /\ \A x \in DOMAIN head : x = 1
    BY <1>1
  <1>4. /\ DOMAIN branches \subseteq Types
        /\ \A n \in DOMAIN branches : branches[n].declares = {}
    BY DEF Piece, MappedBy
  <1>5. \A n \in DOMAIN branches : \A s \in branches[n].uses :
           s = enumerator(type_map[n]) \/ \E c \in Mapped(m.name, n).case : s \in c
    BY DEF Piece, enumerator
  <1>6. Router(m) = <<>> \/ Router(m) = <<head, branches>>
    BY DEF Router
  <1>7. m.force => Router(m) = <<head, branches>>
    BY DEF Router
  <1> HIDE DEF head, branches, cases, case
  <1>8. \A n \in DOMAIN branches : OfTypes(enumerator(type_map[n]))
    BY <1>4, TypeHasEnumerator DEF OfTypes, Types
  <1>9. <<head, branches>> # <<>>
    BY TwoSections, EmptySequence
  <1>10. ASSUME Router(m) = <<head, branches>>
        PROVE  /\ Router(m)[1][1] = Piece({}, {Fn(m.name)}, m.types)
               /\ Defines(Router(m), Fn(m.name))
    <2>1. Router(m)[1] = head /\ 1 \in DOMAIN Router(m)
      BY <1>10, TwoSections
    <2>2. Defines(Router(m), Fn(m.name))
      <3>1. 1 \in DOMAIN Router(m)[1] /\ Fn(m.name) \in Router(m)[1][1].defines
        BY <1>2, <1>3, <2>1
      <3> QED
        BY <2>1, <3>1 DEF Defines
    <2>3. Router(m)[1][1] = Piece({}, {Fn(m.name)}, m.types)
      BY <1>1, <2>1
    <2> QED
      BY <2>2, <2>3
  <1>11. \A s : ~ Declares(Router(m), s)
    <2>1. \A s : ~ Declares(<<head, branches>>, s)
      <3>1. \A x \in DOMAIN head : head[x].declares = {}
        BY <1>2, <1>3
      <3> QED
        BY <1>4, <3>1, TwoSections DEF Declares
    <2> QED
      BY <1>6, <2>1, NothingInNoCode
  <1>12. ASSUME NEW s, Uses(Router(m), s)
         PROVE  \/ s \in m.types
                \/ \E n \in Types : OfTypes(s) \/ \E c \in Mapped(m.name, n).case : s \in c
    <2>1. Uses(<<head, branches>>, s)
      BY <1>6, <1>12, NothingInNoCode
    <2>2. \/ \E x \in DOMAIN head : s \in head[x].uses
          \/ \E x \in DOMAIN branches : s \in branches[x].uses
      BY <2>1, TwoSections DEF Uses
    <2> QED
      BY <1>1, <1>2, <1>4, <1>5, <1>8, <2>2
  <1> QED
    BY <1>6, <1>7, <1>9, <1>10, <1>11, <1>12

LEMMA FunctionsPromised ==
    ASSUME ReadInv, ShapeInv, CodeInv, UsesInv, EmitCode, pc' = "done"
    PROVE  UsesInv'
  <1> DEFINE section == [k \in DOMAIN plugin.functions |->
                           Piece({}, {Fn(plugin.functions[k].name)}, plugin.functions[k].uses)]
  <1>1. /\ Emitting /\ turn[2] = 0 /\ turn' = <<turn[1], turn[2] + 1>>
        /\ code' = Append(code, section)
        /\ protos' = protos \cup {Prototype(f) : f \in Range(section)}
        /\ UNCHANGED <<plugins, tables>>
    <2>1. ~ Stop("raised")
      BY DEF Stop
    <2> QED
      BY <2>1 DEF EmitCode, NextStep, vars
  <1>2. DOMAIN section = DOMAIN plugin.functions
    OBVIOUS
  <1>3. \A x \in DOMAIN section :
           /\ section[x].declares = {} /\ section[x].defines = {Fn(plugin.functions[x].name)}
           /\ section[x].uses = plugin.functions[x].uses
    BY DEF Piece
  <1> HIDE DEF section
  <1>4. /\ \A x \in DOMAIN section : section[x] \in Range(section)
        /\ \A f \in Range(section) : \E x \in DOMAIN section : f = section[x]
    BY DEF Range
  <1>5. \A x \in DOMAIN section : \A s \in section[x].uses : Asked(s)
    BY <1>1, <1>2, <1>3 DEF Asked, plugin, Emitting
  <1>6. code' = Append(code, section) \o <<>>
    <2>1. Append(code, section) \in Seq(Range(Append(code, section)))
      BY AppendFacts DEF CodeInv, IsSequence
    <2> QED
      BY <1>1, <2>1, ConcatEmptySeq
  <1>7. IsSequence(<<>>) /\ \A s : ~ Uses(<<>>, s) /\ ~ Declares(<<>>, s)
    BY EmptySequence, NothingInNoCode
  <1>8. \A s : Uses(<<section>>, s) => Asked(s)
    BY <1>5, OneUses
  <1>9. \A s : ~ Declares(<<section>>, s)
    BY <1>3, OneSection DEF Declares
  <1>10. \A f \in Range(section) : \A s \in f.uses : Asked(s)
    BY <1>4, <1>5
  <1>11. \A f \in Range(section) : \A s \in f.declares \cup f.defines : Defines(<<section>>, s)
    BY <1>3, <1>4, OneDefines
  <1>12. \A s \in Promises(turn[1], turn[2]) : \E f \in Range(section) : s \in f.declares \cup f.defines
    <2>1. turn[2] \notin DOMAIN plugins[turn[1]].mappers
      BY <1>1, PluginFacts DEF ReadInv, Emitting
    <2>2. \A s \in Promises(turn[1], turn[2]) : \E x \in DOMAIN plugin.functions : s = Fn(plugin.functions[x].name)
      BY <1>1, <2>1 DEF Promises, plugin
    <2> QED
      BY <1>2, <1>3, <1>4, <2>2
  <1> QED
    BY <1>1, <1>6, <1>7, <1>8, <1>9, <1>10, <1>11, <1>12, UsesAfter

LEMMA MapperPromised ==
    ASSUME ReadInv, ShapeInv, CodeInv, UsesInv, MapTypes, pc' = "done"
    PROVE  UsesInv'
  <1> DEFINE m == plugin.mappers[turn[2]]
             functions == UNION {Mapped(m.name, n).func : n \in Types}
             bodies == {f \in functions : f.defines # {}}
             routed == Router(m)
             section == [f \in bodies |-> f]
             head == IF routed = <<>> THEN {} ELSE {routed[1][1]}
             S == functions \cup head
  <1>1. /\ Emitting /\ turn[2] \in DOMAIN plugin.mappers
        /\ turn' = <<turn[1], turn[2] + 1>>
        /\ code' = Append(code, section) \o routed
        /\ protos' = protos \cup {Prototype(f) : f \in functions}
                            \cup (IF routed = <<>> THEN {} ELSE {Prototype(routed[1][1])})
        /\ UNCHANGED <<plugins, tables>>
    <2>1. ~ Stop("crashed")
      BY DEF Stop
    <2>2. Emitting /\ turn[2] \in DOMAIN plugin.mappers
      BY DEF MapTypes
    <2>3. /\ NextStep /\ UNCHANGED vars /\ code' = Append(code, section) \o routed
          /\ protos' = protos \cup {Prototype(f) : f \in functions}
                              \cup (IF routed = <<>> THEN {} ELSE {Prototype(routed[1][1])})
      BY <2>1, Zenon DEF MapTypes
    <2> QED
      BY <2>2, <2>3 DEF NextStep, vars
  <1>2. /\ m.name \in MapperNames
        /\ \A s \in m.types \cup Needs(m.name) : Asked(s)
    <2>1. m.name \in MapperNames
      BY <1>1, NameOfMapper DEF Emitting, plugin, ReadInv
    <2> QED
      BY <1>1, <2>1 DEF Asked, plugin, Emitting
  <1>3. \A f : f \in functions <=> \E n \in Types : f \in Mapped(m.name, n).func
    OBVIOUS
  <1>4. /\ IsSequence(routed)
        /\ \A s : Uses(routed, s) => \/ s \in m.types
                                     \/ \E n \in Types : OfTypes(s) \/ \E c \in Mapped(m.name, n).case : s \in c
        /\ \A s : ~ Declares(routed, s)
        /\ m.force => routed # <<>>
        /\ routed # <<>> =>
              /\ routed[1][1] = Piece({}, {Fn(m.name)}, m.types)
              /\ Defines(routed, Fn(m.name))
    BY RouterUses, RouterApart DEF ReadInv, ShapeInv, TurnInv
  <1>5. DOMAIN section = bodies /\ \A f \in bodies : section[f] = f
    OBVIOUS
  <1>6. \A f : f \in bodies <=> f \in functions /\ f.defines # {}
    OBVIOUS
  <1>7. \A f \in head : /\ routed # <<>> /\ f.declares = {} /\ f.defines = {Fn(m.name)}
                        /\ f.uses = m.types
    BY <1>4 DEF Piece
  <1>8. routed # <<>> => \E f \in head : Fn(m.name) \in f.defines
    BY <1>4 DEF Piece
  <1>9. protos' = protos \cup {Prototype(f) : f \in S}
    BY <1>1
  <1> DEFINE name == m.name
             types == m.types
  <1>10. name \in MapperNames /\ \A s \in types \cup Needs(name) : Asked(s)
    BY <1>2
  <1> HIDE DEF functions, bodies, routed, section, head
  <1>11. EnumsByName => \A f \in functions : \A s \in f.uses : Asked(s) \/ OfTypes(s)
    BY <1>3, <1>10, MappedUses
  <1>12. \A f \in functions : \A s \in f.declares : s[1] = "extern"
    BY <1>3, <1>10, MappedDeclares
  <1>13. \A n \in Types : \A c \in Mapped(name, n).case : \A s \in c :
            \E f \in functions : s \in f.declares \cup f.defines
    BY <1>3, <1>10, MappedDeclares
  <1>14. EnumsByName => \A s : Uses(<<section>>, s) \/ Uses(routed, s) =>
                                  Asked(s) \/ OfTypes(s) \/ \E f \in S : s \in f.declares \cup f.defines
    <2>1. EnumsByName => \A s : Uses(<<section>>, s) => Asked(s) \/ OfTypes(s)
      BY <1>5, <1>6, <1>11, OneUses
    <2>2. \A s : Uses(routed, s) => Asked(s) \/ OfTypes(s) \/ \E f \in functions : s \in f.declares \cup f.defines
      BY <1>4, <1>10, <1>13
    <2> QED
      BY <2>1, <2>2
  <1>15. EnumsByName => \A f \in S : \A s \in f.uses : s[1] = "header" => Asked(s)
    <2>1. \A s : OfTypes(s) => s[1] # "header"
      BY HeadsOfTypes
    <2> QED
      BY <1>7, <1>10, <1>11, <2>1
  <1>16. \A f \in S : \A s \in f.declares \cup f.defines :
            s[1] = "extern" \/ Defines(<<section>>, s) \/ Defines(routed, s)
    <2>1. \A f \in functions : \A s \in f.defines : Defines(<<section>>, s)
      BY <1>5, <1>6, OneDefines
    <2>2. \A f \in head : \A s \in f.declares \cup f.defines : Defines(routed, s)
      BY <1>4, <1>7
    <2> QED
      BY <1>12, <2>1, <2>2
  <1>17. \A s : Declares(<<section>>, s) \/ Declares(routed, s) => s[1] = "extern"
    BY <1>4, <1>5, <1>6, <1>12, OneSection DEF Declares
  <1>18. \A s \in Promises(turn[1], turn[2]) : \E f \in S : s \in f.declares \cup f.defines
    <2>1. turn[2] # 0
      BY <1>1, PluginFacts DEF ReadInv, Emitting, plugin
    <2>2. \A s \in Promises(turn[1], turn[2]) : m.force /\ s = Fn(m.name)
      BY <2>1 DEF Promises, plugin
    <2> QED
      BY <1>4, <1>8, <2>2
  <1> HIDE DEF S
  <1> QED
    BY <1>1, <1>4, <1>9, <1>14, <1>15, <1>16, <1>17, <1>18, UsesAfter

LEMMA InitUses == EmitInit => UsesInv
  BY DEF EmitInit, Init, UsesInv

\* The steps that leave the code and the prototypes alone
LEMMA UsesKept ==
    ASSUME UsesInv, UNCHANGED <<plugins, tables, code, protos>>, pc \in {"done", "written"},
           pc' \in {"done", "written", "raised", "crashed"},
           \A k \in DOMAIN plugins, j \in Nat :
               Earlier(k, j, turn') => Earlier(k, j, turn) \/ Promises(k, j) = {}
    PROVE  UsesInv'
  <1>1. /\ EnumsByName' <=> EnumsByName
        /\ \A s : OfTypes(s)' <=> OfTypes(s)
        /\ \A s : Asked(s)' <=> Asked(s)
        /\ \A k, j : Promises(k, j)' = Promises(k, j)
    BY SameTypes, SameAsked
  <1>2. EnumsByName =>
           /\ \A s : Uses(code, s) => Asked(s) \/ OfTypes(s) \/ Promised(protos, s)
           /\ \A f \in protos : \A s \in f.uses : s[1] = "header" /\ Asked(s)
    BY DEF UsesInv
  <1>3. /\ \A s : Promised(protos, s) => s[1] = "extern" \/ Defines(code, s)
        /\ \A s : Declares(code, s) => s[1] = "extern"
    BY DEF UsesInv
  <1>4. \A k \in DOMAIN plugins, j \in Nat :
           Earlier(k, j, turn') => \A s \in Promises(k, j) : Promised(protos, s)
    BY DEF UsesInv
  <1>5. /\ \A s : Uses(code', s) <=> Uses(code, s)
        /\ \A s : Declares(code', s) <=> Declares(code, s)
        /\ \A s : Defines(code', s) <=> Defines(code, s)
        /\ \A s : Promised(protos', s) <=> Promised(protos, s)
    OBVIOUS
  <1>6. EnumsByName' =>
           /\ \A s : Uses(code', s) => Asked(s)' \/ OfTypes(s)' \/ Promised(protos', s)
           /\ \A f \in protos' : \A s \in f.uses : s[1] = "header" /\ Asked(s)'
    BY <1>1, <1>2, <1>5
  <1>7. \A k \in DOMAIN plugins', j \in Nat :
           Earlier(k, j, turn') => \A s \in Promises(k, j)' : Promised(protos', s)
    BY <1>1, <1>4, <1>5
  <1>8. /\ \A s : Promised(protos', s) => s[1] = "extern" \/ Defines(code', s)
        /\ \A s : Declares(code', s) => s[1] = "extern"
    BY <1>3, <1>5
  <1> QED
    BY <1>6, <1>7, <1>8 DEF UsesInv

LEMMA UsesStep ==
    ASSUME ReadInv, ShapeInv, CodeInv, UsesInv, [EmitNext]_emitVars
    PROVE  UsesInv'
  <1>1. CASE Read
    <2>1. /\ pc \in {"text", "body", "resolve"} /\ pc' # "written"
          /\ UNCHANGED <<code, protos, turn>>
      BY <1>1 DEF Read, emission, Next, ReadText, EndFile, SkipBlock, OpenBlock, ReadLine, CloseBlock,
         EndOfFiles, ResolveField, NextStruct, Validate, Raise, Reading
    <2>2. code' = <<>> /\ protos' = {} /\ turn' = <<1, 0>>
      BY <2>1 DEF UsesInv
    <2>3. \A s : ~ Uses(code', s) /\ ~ Declares(code', s) /\ ~ Promised(protos', s)
      BY <2>2, NothingInNoCode DEF Promised
    <2>4. WhereInv'
      BY EmitStep DEF ReadInv
    <2>5. \A k \in DOMAIN plugins', j \in Nat : ~ Earlier(k, j, turn')
      <3>1. turn'[1] = 1 /\ turn'[2] = 0
        BY <2>2
      <3>2. \A k \in DOMAIN plugins' : k \in Nat /\ k >= 1
        BY <2>4, PluginFacts
      <3> QED
        BY <3>1, <3>2 DEF Earlier
    <2> QED
      BY <2>1, <2>2, <2>3, <2>5 DEF UsesInv
  <1>2. CASE pc' \in {"raised", "crashed"}
    BY <1>2 DEF UsesInv
  <1>3. CASE EmitCode \/ MapTypes \/ HandleTags
    <2>1. UNCHANGED <<plugins, tables>> /\ pc = "done" /\ pc' \in {"done", "raised", "crashed"}
      BY <1>3, PluginStep
    <2>2. CASE HandleTags /\ pc' = "done"
      <3>1. ~ Stop("raised")
        BY <2>2 DEF Stop
      <3>2. /\ UNCHANGED <<code, protos>> /\ turn' = <<turn[1] + 1, 0>>
            /\ Emitting /\ turn[2] = Len(plugin.mappers) + 1
        BY <2>2, <3>1 DEF HandleTags
      <3>3. ASSUME NEW k \in DOMAIN plugins, NEW j \in Nat, Earlier(k, j, turn')
            PROVE  Earlier(k, j, turn) \/ Promises(k, j) = {}
        <4>1. turn[1] \in Nat /\ k \in Nat /\ turn'[1] = turn[1] + 1 /\ turn'[2] = 0
          BY <3>2, TurnTypes, PluginFacts DEF ReadInv, ShapeInv
        <4>2. k < turn[1] \/ k = turn[1]
          BY <3>3, <4>1 DEF Earlier
        <4>3. CASE k = turn[1]
          <5>1. Len(plugins[k].mappers) \in Nat /\ DOMAIN plugins[k].mappers = 1 .. Len(plugins[k].mappers)
            BY PluginFacts DEF ReadInv
          <5>2. CASE j <= Len(plugins[k].mappers)
            BY <3>2, <4>3, <5>1, <5>2 DEF Earlier, plugin
          <5>3. CASE ~ (j <= Len(plugins[k].mappers))
            BY <5>1, <5>3 DEF Promises
          <5> QED
            BY <5>2, <5>3
        <4>4. CASE k < turn[1]
          BY <4>4 DEF Earlier
        <4> QED
          BY <4>2, <4>3, <4>4
      <3> QED
        BY <2>1, <3>2, <3>3, UsesKept
    <2> QED
      BY <1>2, <1>3, <2>1, <2>2, FunctionsPromised, MapperPromised
  <1>4. CASE Write
    <2>1. UNCHANGED <<plugins, tables, code, protos, turn>> /\ pc = "done" /\ pc' = "written"
      BY <1>4 DEF Write
    <2> QED
      BY <2>1, UsesKept
  <1>5. CASE UNCHANGED emitVars
    <2>1. UNCHANGED <<plugins, tables, code, protos, turn, pc>>
      BY <1>5 DEF emitVars, vars, emission
    <2>2. CASE pc \in {"done", "written"}
      BY <2>1, <2>2, UsesKept
    <2>3. CASE pc \notin {"done", "written"}
      BY <2>1, <2>3 DEF UsesInv
    <2> QED
      BY <2>2, <2>3
  <1> QED
    BY <1>1, <1>3, <1>4, <1>5 DEF EmitNext

-----------------------------------------------------------------------------
(* The file that is written                                                *)

LEMMA FieldsHaveEnums ==
    ASSUME ReadInv, pc = "done"
    PROVE  FieldEnums
  <1> SUFFICES ASSUME NEW b \in DOMAIN structs, NEW f \in DOMAIN FieldsOf(b)
               PROVE  type_enum[<<b, f>>] \in Enumerators
    BY DEF FieldEnums
  <1>1. <<b, f>> \in Fields /\ Resolved = Fields
    BY AllResolved
  <1>2. <<b, f>> \in Resolved
    BY <1>1
  <1> DEFINE sf == <<b, f>>
             known == {Plain("unknown")} \cup DeclaredBy(Opened) \cup Made(ResolvedTypes)
  <1>3. sf \in Resolved
    BY <1>2
  <1> HIDE DEF sf
  <1>4. /\ type_map = [n \in known |-> Value(Opened, n)]
        /\ \A r \in Resolved : type_enum[r] = Value(Opened, TypeOf(r))
    BY DEF ReadInv, TableInv, Live
  <1>5. TypeOf(sf) \in known
    BY <1>3 DEF Made, ResolvedTypes
  <1> HIDE DEF known
  <1>6. TypeOf(sf) \in DOMAIN type_map /\ type_map[TypeOf(sf)] = type_enum[sf]
    BY <1>3, <1>4, <1>5
  <1>7. type_enum[sf] \in Enumerators
    BY <1>6 DEF Enumerators, Range
  <1> QED
    BY <1>7 DEF sf

\* When it is written, every field has an enumerator.
EndInv == pc = "written" => FieldEnums

LEMMA EndStep ==
    ASSUME ReadInv, EndInv, [EmitNext]_emitVars
    PROVE  EndInv'
  <1>1. ASSUME UNCHANGED tables, FieldEnums PROVE FieldEnums'
    BY <1>1 DEF tables, FieldEnums, FieldsOf, Enumerators
  <1>2. CASE Write
    <2>1. UNCHANGED tables /\ pc = "done"
      BY <1>2 DEF Write
    <2> QED
      BY <1>1, <2>1, FieldsHaveEnums DEF EndInv
  <1>3. CASE Read
    <2>1. pc' # "written"
      BY <1>3 DEF Read, emission, Next, ReadText, EndFile, SkipBlock, OpenBlock, ReadLine, CloseBlock,
         EndOfFiles, ResolveField, NextStruct, Validate, Raise, Reading
    <2> QED
      BY <2>1 DEF EndInv
  <1>4. CASE EmitCode \/ MapTypes \/ HandleTags
    <2>1. pc' # "written"
      BY <1>4, PluginStep
    <2> QED
      BY <2>1 DEF EndInv
  <1>5. CASE UNCHANGED emitVars
    <2>1. UNCHANGED <<tables, pc>>
      BY <1>5 DEF emitVars, vars
    <2> QED
      BY <1>1, <2>1 DEF EndInv
  <1> QED
    BY <1>2, <1>3, <1>4, <1>5 DEF EmitNext

LEMMA PromisedMentioned ==
    /\ \A s : Promised(protos, s) => Mentioned(generate_plugin_headers, s)
    /\ \A k \in DOMAIN plugins : \A s \in plugins[k].header : Mentioned(generate_plugin_headers, s)
  <1> DEFINE header == UNION {q.header : q \in Range(plugins)}
             A == <<Piece({}, header, {})>>
             B == [f \in protos |-> f]
  <1>1. 1 \in DOMAIN A /\ A[1].defines = header
    BY OneSection DEF Piece
  <1>2. DOMAIN B = protos /\ \A f \in protos : B[f] = f
    OBVIOUS
  <1>3. generate_plugin_headers = <<A, B>>
    BY DEF generate_plugin_headers
  <1>4. \A k \in DOMAIN plugins : plugins[k].header \subseteq header
    BY DEF Range
  <1> HIDE DEF A, B, header
  <1>5. \A s : Promised(protos, s) => Declares(<<A, B>>, s)
    BY <1>2, TwoSections DEF Promised, Declares
  <1>6. \A s \in header : Defines(<<A, B>>, s)
    BY <1>1, TwoSections DEF Defines
  <1> QED
    BY <1>3, <1>4, <1>5, <1>6 DEF Mentioned

\* Headers use and declare what prototypes do.
LEMMA HeadersHave ==
    ASSUME NEW j \in DOMAIN generate_plugin_headers, NEW x \in DOMAIN generate_plugin_headers[j]
    PROVE  LET f == generate_plugin_headers[j][x]
           IN  \/ f.uses = {} /\ f.declares = {}
               \/ j = 2 /\ f \in protos
  <1> DEFINE header == UNION {q.header : q \in Range(plugins)}
             A == <<Piece({}, header, {})>>
             B == [f \in protos |-> f]
  <1>1. DOMAIN A = 1 .. 1 /\ A[1].uses = {} /\ A[1].declares = {}
    BY OneSection DEF Piece
  <1>2. DOMAIN B = protos /\ \A f \in protos : B[f] = f
    OBVIOUS
  <1>3. generate_plugin_headers = <<A, B>>
    BY DEF generate_plugin_headers
  <1> HIDE DEF A, B, header
  <1>4. /\ j = 1 \/ j = 2
        /\ j = 1 => generate_plugin_headers[j] = A
        /\ j = 2 => generate_plugin_headers[j] = B
    BY <1>3, TwoSections
  <1>5. CASE j = 1
    <2>1. x = 1
      BY <1>1, <1>4, <1>5
    <2> QED
      BY <1>1, <1>4, <1>5, <2>1
  <1>6. CASE j = 2
    BY <1>2, <1>4, <1>6
  <1> QED
    BY <1>4, <1>5, <1>6

\* The first section of the headers is what the plugins include.
LEMMA HeaderFirst ==
    ASSUME NEW k \in DOMAIN plugins, NEW s \in plugins[k].header
    PROVE  /\ 1 \in DOMAIN generate_plugin_headers /\ 1 \in DOMAIN generate_plugin_headers[1]
           /\ s \in generate_plugin_headers[1][1].defines
  <1> DEFINE header == UNION {q.header : q \in Range(plugins)}
             A == <<Piece({}, header, {})>>
             B == [f \in protos |-> f]
  <1>1. 1 \in DOMAIN A /\ A[1].defines = header
    BY OneSection DEF Piece
  <1>2. generate_plugin_headers = <<A, B>>
    BY DEF generate_plugin_headers
  <1>3. plugins[k].header \subseteq header
    BY DEF Range
  <1> HIDE DEF A, B, header
  <1>4. 1 \in DOMAIN generate_plugin_headers /\ generate_plugin_headers[1] = A
    BY <1>2, TwoSections
  <1> QED
    BY <1>1, <1>3, <1>4

LEMMA SwitchDeclares == \A name, cases, s : ~ Declares(Switch(name, cases), s)
  <1> TAKE name, cases, s
  <1> DEFINE head == <<Piece({}, {Fn(name)}, {})>>
             branches == [x \in DOMAIN cases |->
                Piece({}, {Label(name, cases[x][1])}, {enumerator(cases[x][1])} \cup cases[x][2])]
  <1>1. \A x \in DOMAIN head : head[x].declares = {}
    BY OneSection DEF Piece
  <1>2. \A x \in DOMAIN branches : branches[x].declares = {}
    BY DEF Piece
  <1>3. Switch(name, cases) = <<head, branches>>
    BY DEF Switch
  <1> HIDE DEF head, branches
  <1> QED
    BY <1>1, <1>2, <1>3, TwoSections DEF Declares

LEMMA OneDeclares ==
    ASSUME NEW section, NEW s
    PROVE  Declares(<<section>>, s) <=> \E x \in DOMAIN section : s \in section[x].declares
  BY OneSection DEF Declares

LEMMA NothingDeclared ==
    ASSUME NEW s
    PROVE  /\ ~ Declares(generate_types, s) /\ ~ Declares(generate_extension_types, s)
           /\ ~ Declares(generate_enum_validators, s) /\ ~ Declares(generate_type_setters, s)
           /\ ~ Declares(generate_dynamic_array_accessors, s) /\ ~ Declares(generate_tables, s)
           /\ ~ Declares(get_struct_metadata, s) /\ ~ Declares(get_enum_metadata, s)
           /\ ~ Declares(generic_type_setter, s) /\ ~ Declares(get_name_of_type, s)
           /\ ~ Declares(basetype_caster, s) /\ ~ Declares(get_type_size, s)
  <1>1. ~ Declares(generate_types, s)
    <2> DEFINE section == [e \in Enumerators |-> Piece({}, {enumerator(e)}, {})]
    <2>1. generate_types = <<section>> /\ \A x \in DOMAIN section : section[x].declares = {}
      BY DEF generate_types, Piece
    <2> HIDE DEF section
    <2> QED
      BY <2>1, OneDeclares
  <1>2. ~ Declares(generate_extension_types, s)
    <2> DEFINE symbols == UNION {{<<"extension", c, key>> : key \in Defined(c)} : c \in {"field", "member"}}
               section == <<Piece({}, symbols, {})>>
    <2>1. \A x \in DOMAIN section : section[x].declares = {}
      BY OneSection DEF Piece
    <2>2. generate_extension_types = <<section>>
      BY DEF generate_extension_types
    <2> HIDE DEF section
    <2> QED
      BY <2>1, <2>2, OneDeclares
  <1>3. ~ Declares(generate_enum_validators, s)
    <2> DEFINE section == [b \in Checked |-> Piece({}, {<<"is_valid", b.name>>}, {})]
               switch == Switch("enum_is_checked", [b \in Checked |-> <<type_map[Plain(b.name)], {}>>])
    <2>1. \A x \in DOMAIN section : section[x].declares = {}
      BY DEF Piece
    <2>2. generate_enum_validators = <<section>> \o switch
      BY DEF generate_enum_validators
    <2>3. IsSequence(switch) /\ ~ Declares(switch, s)
      BY SwitchApart, SwitchDeclares
    <2> HIDE DEF section, switch
    <2>4. IsSequence(<<section>>) /\ ~ Declares(<<section>>, s)
      BY <2>1, OneSection, OneDeclares
    <2>5. \A k \in DOMAIN generate_enum_validators :
             \/ \E j \in DOMAIN <<section>> : generate_enum_validators[k] = <<section>>[j]
             \/ \E j \in DOMAIN switch : generate_enum_validators[k] = switch[j]
      BY <2>2, <2>3, <2>4, JoinSections
    <2> QED
      BY <2>3, <2>4, <2>5 DEF Declares
  <1>4. ~ Declares(generate_type_setters, s)
    <2> DEFINE section == [n \in Types |-> generate_type_setter(n)]
    <2>1. \A n \in DOMAIN section : section[n].declares = {}
      BY DEF generate_type_setter, Piece
    <2>2. generate_type_setters = <<section>>
      BY DEF generate_type_setters
    <2> HIDE DEF section
    <2> QED
      BY <2>1, <2>2, OneDeclares
  <1>5. ~ Declares(generate_dynamic_array_accessors, s)
    <2> DEFINE section == generate_dynamic_array_accessors[1]
    <2>1. generate_dynamic_array_accessors = <<section>> /\ DOMAIN section = Dynamic
      BY DEF generate_dynamic_array_accessors
    <2>2. \A sf \in Dynamic : section[sf].declares = {}
      BY DEF generate_dynamic_array_accessors, Piece
    <2> HIDE DEF section
    <2> QED
      BY <2>1, <2>2, OneDeclares
  <1>6. ~ Declares(generate_tables, s)
    <2> DEFINE A == [b \in DOMAIN structs |-> StructTable(b)]
               B == [b \in DOMAIN enums |-> MembersTable(b)]
    <2>1. /\ \A b \in DOMAIN A : A[b].declares = {}
          /\ \A b \in DOMAIN B : B[b].declares = {}
      BY DEF StructTable, MembersTable, Piece
    <2>2. generate_tables = <<A, B>>
      BY DEF generate_tables
    <2> HIDE DEF A, B
    <2> QED
      BY <2>1, <2>2, TwoSections DEF Declares
  <1>7. /\ ~ Declares(get_struct_metadata, s) /\ ~ Declares(get_enum_metadata, s)
        /\ ~ Declares(generic_type_setter, s) /\ ~ Declares(get_name_of_type, s)
        /\ ~ Declares(basetype_caster, s) /\ ~ Declares(get_type_size, s)
    BY SwitchDeclares
    DEF get_struct_metadata, get_enum_metadata, generic_type_setter, get_name_of_type, basetype_caster,
        get_type_size
  <1> QED
    BY <1>1, <1>2, <1>3, <1>4, <1>5, <1>6, <1>7

\* What the plugins are sure to provide stands in the parts before their code.
LEMMA ProvidedMentioned ==
    ASSUME ReadInv, ShapeInv, UsesInv, WrittenInv, pc = "written", NEW s, Provided(plugins, s)
    PROVE  \/ Mentioned(generate_plugin_headers, s)
           \/ Mentioned(generate_extension_types, s)
           \/ Mentioned(generate_declarations, s)
  <1>1. turn[1] \in Nat /\ \A k \in DOMAIN plugins : k \in Nat /\ k < turn[1]
    <2>1. Len(plugins) \in Nat /\ DOMAIN plugins = 1 .. Len(plugins)
      BY PluginFacts DEF ReadInv
    <2>2. turn[1] \in 1 .. Len(plugins) + 1 /\ turn[1] \notin DOMAIN plugins
      BY DEF ShapeInv, TurnInv, WrittenInv
    <2> QED
      BY <2>1, <2>2
  <1>2. \A k \in DOMAIN plugins, j \in Nat : \A t \in Promises(k, j) : Mentioned(generate_plugin_headers, t)
    <2>1. \A k \in DOMAIN plugins, j \in Nat : Earlier(k, j, turn)
      BY <1>1 DEF Earlier
    <2> QED
      BY <2>1, PromisedMentioned DEF UsesInv
  <1>3. PICK p \in Range(plugins) :
           \/ s \in p.header
           \/ \E f \in Range(p.functions) : s = Fn(f.name)
           \/ \E m \in Range(p.mappers) : m.force /\ s = Fn(m.name)
           \/ \E c \in {"field", "member"} : \E key \in p.defines[c] :
                 s \in {<<"GET_EXT", c>>, <<"extension", c, key>>}
    BY DEF Provided
  <1>4. PICK k \in DOMAIN plugins : p = plugins[k]
    BY DEF Range
  <1>5. CASE s \in p.header
    BY <1>4, <1>5, PromisedMentioned
  <1>6. CASE \E f \in Range(p.functions) : s = Fn(f.name)
    <2>1. PICK x \in DOMAIN p.functions : s = Fn(p.functions[x].name)
      BY <1>6 DEF Range
    <2>2. s \in Promises(k, 0)
      BY <1>4, <2>1 DEF Promises
    <2> QED
      BY <1>2, <2>2
  <1>7. CASE \E m \in Range(p.mappers) : m.force /\ s = Fn(m.name)
    <2>1. PICK j \in DOMAIN p.mappers : p.mappers[j].force /\ s = Fn(p.mappers[j].name)
      BY <1>7 DEF Range
    <2>2. j \in Nat
      BY <1>4, PluginFacts DEF ReadInv
    <2>3. s \in Promises(k, j)
      BY <1>4, <2>1 DEF Promises
    <2> QED
      BY <1>2, <2>2, <2>3
  <1>8. CASE \E c \in {"field", "member"} : \E key \in p.defines[c] :
                s \in {<<"GET_EXT", c>>, <<"extension", c, key>>}
    <2>1. PICK c \in {"field", "member"} : \E key \in p.defines[c] :
                s \in {<<"GET_EXT", c>>, <<"extension", c, key>>}
      BY <1>8
    <2>2. PICK key \in p.defines[c] : s \in {<<"GET_EXT", c>>, <<"extension", c, key>>}
      BY <2>1
    <2>3. key \in Defined(c)
      BY DEF Defined
    <2>4. OfGetter(s) \/ OfExtension(s)
      BY <2>2, <2>3 DEF OfGetter, OfExtension
    <2> QED
      BY <2>4, DeclarationsMentioned, ExtensionsMentioned
  <1> QED
    BY <1>3, <1>5, <1>6, <1>7, <1>8

\* What a part uses stands in a part before it, but for the headers.
LEMMA UsedIsMentioned ==
    ASSUME PluginsAreClosed, ReadInv, ShapeInv, ListedInv, UsesInv, WrittenInv, EndInv,
           pc = "written", EnumsByName,
           NEW i \in DOMAIN text, i # 2, NEW s, Uses(text[i], s)
    PROVE  \E k \in DOMAIN text : k < i /\ Mentioned(text[k], s)
  <1>1. /\ i \in 1 .. 15 /\ DOMAIN text = 1 .. 15
        /\ text[1] = generate_types /\ text[2] = generate_plugin_headers
        /\ text[3] = generate_extension_types /\ text[4] = generate_declarations
        /\ text[5] = generate_enum_validators /\ text[6] = generate_type_setters
        /\ text[7] = generate_dynamic_array_accessors /\ text[8] = code
        /\ text[9] = generate_tables /\ text[10] = get_struct_metadata
        /\ text[11] = get_enum_metadata /\ text[12] = generic_type_setter
        /\ text[13] = get_name_of_type /\ text[14] = basetype_caster /\ text[15] = get_type_size
    BY PartsWritten
  <1>2. /\ OfEnumerator(s) => Mentioned(text[1], s)
        /\ OfTable(s) => Mentioned(text[4], s)
        /\ OfValidator(s) \/ s = Fn("enum_is_checked") => Mentioned(text[5], s)
        /\ OfSetter(s) => Mentioned(text[6], s)
    BY <1>1, EnumeratorsMentioned, DeclarationsMentioned, ValidatorsMentioned, SettersMentioned
  <1>3. i # 1 /\ i # 3 /\ i # 4
    BY <1>1, NothingUsed
  <1>4. FieldEnums /\ FieldsInv
    BY DEF EndInv, ShapeInv
  <1>5. CASE i = 5
    <2>1. OfEnumerator(s)
      BY <1>1, <1>5, ValidatorsUse
    <2> QED
      BY <1>1, <1>2, <1>5, <2>1
  <1>6. CASE i = 6
    <2>1. OfEnumerator(s) \/ OfValidator(s)
      BY <1>1, <1>6, SettersUse
    <2> QED
      BY <1>1, <1>2, <1>6, <2>1
  <1>7. CASE i = 7
    <2>1. OfEnumerator(s)
      BY <1>1, <1>4, <1>7, DynamicUses
    <2> QED
      BY <1>1, <1>2, <1>7, <2>1
  <1>8. CASE i = 8
    <2>1. Asked(s) \/ OfTypes(s) \/ Promised(protos, s)
      BY <1>1, <1>8 DEF UsesInv
    <2>2. Asked(s) => Mentioned(text[2], s) \/ Mentioned(text[3], s) \/ Mentioned(text[4], s)
      BY <1>1, AskedIsProvided, ProvidedMentioned DEF ReadInv
    <2>3. Promised(protos, s) => Mentioned(text[2], s)
      BY <1>1, PromisedMentioned
    <2>4. OfTypes(s) => Mentioned(text[1], s) \/ Mentioned(text[4], s) \/ Mentioned(text[5], s)
                        \/ Mentioned(text[6], s)
      BY <1>2 DEF OfTypes
    <2> QED
      BY <1>1, <1>8, <2>1, <2>2, <2>3, <2>4
  <1>9. CASE i = 9
    <2>1. OfEnumerator(s)
      BY <1>1, <1>4, <1>9, TablesUse
    <2> QED
      BY <1>1, <1>2, <1>9, <2>1
  <1>10. CASE i \in 10 .. 15
    <2>1. \/ OfEnumerator(s)
          \/ i # 12 /\ OfTable(s)
          \/ i = 12 /\ OfSetter(s)
      BY <1>1, <1>10, SwitchesUse
    <2> QED
      BY <1>1, <1>2, <1>10, <2>1
  <1> QED
    BY <1>1, <1>3, <1>5, <1>6, <1>7, <1>8, <1>9, <1>10

\* A prototype uses what the plugins include.
LEMMA HeadersUse ==
    ASSUME PluginsAreClosed, ReadInv, UsesInv, pc = "written", EnumsByName,
           NEW f \in protos, NEW s \in f.uses
    PROVE  \E k \in DOMAIN plugins : s \in plugins[k].header
  <1>1. s[1] = "header" /\ Asked(s)
    BY DEF UsesInv
  <1>2. Provided(plugins, s)
    BY <1>1, AskedIsProvided DEF ReadInv
  <1>3. \A name : Fn(name)[1] = "fn"
    BY DEF Fn
  <1>4. \A c, key : /\ <<"GET_EXT", c>>[1] = "GET_EXT"
                    /\ <<"extension", c, key>>[1] = "extension"
    OBVIOUS
  <1>5. PICK p \in Range(plugins) :
           \/ s \in p.header
           \/ \E g \in Range(p.functions) : s = Fn(g.name)
           \/ \E m \in Range(p.mappers) : m.force /\ s = Fn(m.name)
           \/ \E c \in {"field", "member"} : \E key \in p.defines[c] :
                 s \in {<<"GET_EXT", c>>, <<"extension", c, key>>}
    BY <1>2 DEF Provided
  <1>6. s \in p.header
    BY <1>1, <1>3, <1>4, <1>5
  <1> QED
    BY <1>6 DEF Range

LEMMA DeclaredSomewhere ==
    ASSUME ReadInv, UsesInv, WrittenInv, pc = "written", NEW i \in DOMAIN text, NEW s,
           Declares(text[i], s), s[1] # "extern"
    PROVE  \E k \in DOMAIN text : Defines(text[k], s)
  <1>1. /\ i \in 1 .. 15 /\ DOMAIN text = 1 .. 15
        /\ text[1] = generate_types /\ text[2] = generate_plugin_headers
        /\ text[3] = generate_extension_types /\ text[4] = generate_declarations
        /\ text[5] = generate_enum_validators /\ text[6] = generate_type_setters
        /\ text[7] = generate_dynamic_array_accessors /\ text[8] = code
        /\ text[9] = generate_tables /\ text[10] = get_struct_metadata
        /\ text[11] = get_enum_metadata /\ text[12] = generic_type_setter
        /\ text[13] = get_name_of_type /\ text[14] = basetype_caster /\ text[15] = get_type_size
    BY PartsWritten
  <1>2. i = 2 \/ i = 4 \/ i = 8
    BY <1>1, NothingDeclared
  <1>3. CASE i = 2
    <2>1. Promised(protos, s)
      BY <1>1, <1>3, HeadersHave DEF Declares, Promised
    <2> QED
      BY <1>1, <2>1 DEF UsesInv
  <1>4. CASE i = 4
    BY <1>1, <1>4, DeclaredIsDefined
  <1>5. i # 8
    BY <1>1 DEF UsesInv
  <1> QED
    BY <1>2, <1>3, <1>4, <1>5

LEMMA SeenBefore ==
    ASSUME NEW i \in DOMAIN text, NEW j \in DOMAIN text[i], NEW x \in DOMAIN text[i][j],
           NEW k \in DOMAIN text, NEW l \in DOMAIN text[k], NEW y \in DOMAIN text[k][l],
           k < i \/ (k = i /\ l < j),
           NEW s, s \in text[k][l][y].declares \cup text[k][l][y].defines,
           NEW spot, spot = <<i, j, x>>
    PROVE  Seen(s, spot)
  <1> DEFINE q == <<k, l, y>>
  <1>1. q \in Spots
    BY SpotIs
  <1>2. q[1] = k /\ q[2] = l /\ q[3] = y /\ spot[1] = i /\ spot[2] = j
    OBVIOUS
  <1> HIDE DEF q
  <1>3. q \in Preceding(spot)
    BY <1>1, <1>2 DEF Preceding
  <1>4. s \in Mentions(q)
    BY <1>2 DEF Mentions, PieceAt
  <1> QED
    BY <1>3, <1>4 DEF Seen

LEMMA WrittenDeclared ==
    ASSUME PluginsAreClosed, ReadInv, ShapeInv, ListedInv, UsesInv, WrittenInv, EndInv
    PROVE  DeclaredBeforeUse
  <1> SUFFICES ASSUME pc = "written", EnumsByName, NEW spot \in Spots
               PROVE  /\ \A s \in PieceAt(spot).uses : Seen(s, spot)
                      /\ \A s \in PieceAt(spot).declares :
                            s[1] = "extern" \/ \E q \in Spots : s \in PieceAt(q).defines
    BY DEF DeclaredBeforeUse
  <1>1. PICK i \in DOMAIN text : \E j \in DOMAIN text[i] : \E x \in DOMAIN text[i][j] : spot = <<i, j, x>>
    BY SpotIs
  <1>2. PICK j \in DOMAIN text[i] : \E x \in DOMAIN text[i][j] : spot = <<i, j, x>>
    BY <1>1
  <1>3. PICK x \in DOMAIN text[i][j] : spot = <<i, j, x>>
    BY <1>2
  <1>4. PieceAt(spot) = text[i][j][x]
    BY <1>3 DEF PieceAt
  <1>5. ASSUME NEW s \in text[i][j][x].uses
        PROVE  Seen(s, spot)
    <2>1. CASE i # 2
      <3>1. Uses(text[i], s)
        BY DEF Uses
      <3>2. PICK k \in DOMAIN text : k < i /\ Mentioned(text[k], s)
        BY <2>1, <3>1, UsedIsMentioned
      <3>3. PICK l \in DOMAIN text[k] : \E y \in DOMAIN text[k][l] :
                                          s \in text[k][l][y].declares \cup text[k][l][y].defines
        BY <3>2 DEF Mentioned, Declares, Defines
      <3>4. PICK y \in DOMAIN text[k][l] : s \in text[k][l][y].declares \cup text[k][l][y].defines
        BY <3>3
      <3> QED
        BY <1>3, <3>2, <3>4, SeenBefore
    <2>2. CASE i = 2
      <3>1. text[i] = generate_plugin_headers
        BY <2>2, PartsWritten
      <3>2. j = 2 /\ text[i][j][x] \in protos
        BY <3>1, HeadersHave
      <3>3. PICK k \in DOMAIN plugins : s \in plugins[k].header
        BY <3>2, HeadersUse
      <3>4. 1 \in DOMAIN text[i] /\ 1 \in DOMAIN text[i][1] /\ s \in text[i][1][1].defines
        BY <3>1, <3>3, HeaderFirst
      <3> QED
        BY <1>3, <3>2, <3>4, SeenBefore
    <2> QED
      BY <2>1, <2>2
  <1>6. ASSUME NEW s \in text[i][j][x].declares, s[1] # "extern"
        PROVE  \E q \in Spots : s \in PieceAt(q).defines
    <2>1. Declares(text[i], s)
      BY DEF Declares
    <2>2. \E k \in DOMAIN text : Defines(text[k], s)
      BY <1>6, <2>1, DeclaredSomewhere
    <2> QED
      BY <2>2, SpotsMention
  <1> QED
    BY <1>4, <1>5, <1>6

\* When plugins use what they or those beside them provide, whatever a piece
\* of the generated file uses has been declared before it, and what is declared
\* is defined, by the file or for a custom serializer by the user
\* (generate_plugin_extensions and __str__, for any input and plugins).
THEOREM NothingUsedTooEarly == PluginsAreClosed /\ EmitSpec => []DeclaredBeforeUse
  <1> DEFINE I == /\ ReadInv /\ ShapeInv /\ CodeInv /\ WrittenInv
                  /\ ListedInv /\ UsesInv /\ EndInv
  <1> SUFFICES ASSUME PluginsAreClosed
               PROVE  EmitSpec => []DeclaredBeforeUse
    OBVIOUS
  <1>1. EmitInit => WrittenInv /\ EndInv
    BY DEF EmitInit, Init, WrittenInv, EndInv
  <1>2. EmitInit => I
    BY <1>1, InitRead, InitShape, InitCode, InitListed, InitUses
  <1>3. I /\ [EmitNext]_emitVars => I'
    BY EmitStep, ShapeStep, SectionsStep, ListedStep, UsesStep, EndStep
  <1>4. I => DeclaredBeforeUse
    BY WrittenDeclared
  <1> QED
    BY <1>2, <1>3, <1>4, PTL DEF EmitSpec
=============================================================================
