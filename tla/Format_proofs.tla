---------------------------- MODULE Format_proofs ----------------------------
(***************************************************************************)
(* Proofs about Format, for every registry, layout, text and buffer: char  *)
(* arrays keep their end, the cells of what is read and written stay       *)
(* bytes, print_field shows every field whole, a field takes back what it  *)
(* shows, and shows what it took.                                          *)
(***************************************************************************)
EXTENDS Format, FieldAccess_proofs

-----------------------------------------------------------------------------
(* One copy                                                                *)

LEMMA StringViews == Strings \in SUBSET Views
  BY DEF Strings

\* Writing a plain member that is no char array leaves the strings alone.
LEMMA PlainCopyKeepsEnds ==
    ASSUME StringLayout, NEW m, Ended(m),
           NEW v \in Views, v[2].type \notin StructTypes, v[2].type # "char_arr",
           NEW src, NEW n \in Nat, n <= v[2].size
    PROVE  Ended(CopyIn(m, FirstCell(v), src, n).mem)
  <1> DEFINE w == CopyIn(m, FirstCell(v), src, n).mem
  <1> SUFFICES ASSUME NEW u \in Strings
               PROVE  \E a \in Extent(u) : w[a] = 0
    BY DEF Ended
  <1>1. u[2].type # v[2].type
    BY DEF Strings
  <1>2. \A a \in Extent(u) : w[a] = m[a]
    BY <1>1, StringViews, PlainCopy DEF StringLayout
  <1> QED
    BY <1>2 DEF Ended

\* Writing a text with its NUL into a char array ends that one and leaves
\* the others alone.
LEMMA TextCopyEnds ==
    ASSUME StringLayout, NEW m, Ended(m), NEW v \in Strings,
           NEW src \in [0 .. MaxCopy - 1 -> Nat], NEW n \in Nat, n <= v[2].size,
           NEW k \in 0 .. n - 1, src[k] = 0
    PROVE  Ended(CopyIn(m, FirstCell(v), src, n).mem)
  <1> DEFINE w == CopyIn(m, FirstCell(v), src, n).mem
  <1>1. /\ v \in Views /\ v[2].type = "char_arr" /\ v[2].type \notin StructTypes
        /\ FirstCell(v) \in Nat /\ v[2].size \in Nat
        /\ Extent(v) = Span(FirstCell(v), v[2].size) /\ Extent(v) \subseteq Addr
    BY ViewCells DEF Strings, StringLayout, LaidOut, ArrayTypes
  <1>2. PICK a \in Nat : a = FirstCell(v) + k
    BY <1>1
  <1>3. a \in Extent(v) /\ a \in Span(FirstCell(v), n) /\ a - FirstCell(v) = k
    <2>1. a - FirstCell(v) = k /\ a \in Span(FirstCell(v), n)
      BY <1>1, <1>2 DEF Span
    <2>2. Span(FirstCell(v), n) \subseteq Span(FirstCell(v), v[2].size)
      BY <1>1 DEF Span
    <2> QED
      BY <1>1, <2>1, <2>2
  <1>4. w[a] = 0
    <2>1. a \in Addr
      BY <1>1, <1>3
    <2>2. w[a] = IF a \in Span(FirstCell(v), n) THEN src[a - FirstCell(v)] ELSE m[a]
      BY <2>1 DEF CopyIn
    <2> QED
      BY <1>3, <2>2
  <1> HIDE DEF w
  <1> SUFFICES ASSUME NEW u \in Strings
               PROVE  \E b \in Extent(u) : w[b] = 0
    BY DEF Ended, w
  <1>5. u \in Views /\ Extent(u) = Span(FirstCell(u), u[2].size)
    BY StringViews, ViewCells
  <1>6. CASE \A b \in Extent(u) : w[b] = m[b]
    BY <1>6 DEF Ended
  <1>7. CASE FirstCell(u) = FirstCell(v) /\ u[2].size = v[2].size
    BY <1>1, <1>3, <1>4, <1>5, <1>7
  <1> QED
    BY <1>1, <1>6, <1>7, StringViews, PlainCopy DEF StringLayout, w

\* A struct copied over another brings the ends of its own strings.
LEMMA StructCopyKeepsEnds ==
    ASSUME StringLayout, Ended(mem),
           NEW v \in Views, v[2].type \in StructTypes, v[2].type \in DOMAIN SizeOf,
           NEW src \in SourcesFor(v[2].type), SizeOf[v[2].type] <= v[2].size
    PROVE  Ended(CopyIn(mem, FirstCell(v), src, SizeOf[v[2].type]).mem)
  <1> DEFINE w == CopyIn(mem, FirstCell(v), src, SizeOf[v[2].type]).mem
  <1> SUFFICES ASSUME NEW u \in Strings
               PROVE  \E a \in Extent(u) : w[a] = 0
    BY DEF Ended
  <1>1. /\ u \in Views /\ FirstCell(u) \in Nat /\ u[2].size \in Nat
        /\ Extent(u) = Span(FirstCell(u), u[2].size)
    BY StringViews, ViewCells
  <1>2. CASE \A a \in Extent(u) : w[a] = mem[a]
    BY <1>2 DEF Ended
  <1>3. CASE \E x \in Strings :
               /\ x[2].type = u[2].type /\ x[2].size = u[2].size
               /\ \A i \in 0 .. u[2].size - 1 :
                     w[FirstCell(u) + i] = mem[FirstCell(x) + i]
    <2> HIDE DEF w
    <2>1. PICK x \in Strings :
               /\ x[2].size = u[2].size
               /\ \A i \in 0 .. u[2].size - 1 :
                     w[FirstCell(u) + i] = mem[FirstCell(x) + i]
      BY <1>3
    <2>2. /\ FirstCell(x) \in Nat /\ Extent(x) = Span(FirstCell(x), u[2].size)
      BY <2>1, StringViews, ViewCells
    <2>3. PICK b \in Extent(x) : mem[b] = 0
      BY DEF Ended
    <2>4. PICK i \in 0 .. u[2].size - 1 : b = FirstCell(x) + i
      <3>1. b - FirstCell(x) \in 0 .. u[2].size - 1 /\ b = FirstCell(x) + (b - FirstCell(x))
        BY <1>1, <2>2 DEF Span
      <3> QED
        BY <3>1
    <2>5. FirstCell(u) + i \in Extent(u)
      BY <1>1 DEF Span
    <2> QED
      BY <2>1, <2>3, <2>4, <2>5
  <1> QED
    <2>1. LaidOut(Strings)
      BY DEF StringLayout
    <2> HIDE DEF w
    <2> QED
      BY <1>2, <1>3, <2>1, StringViews, StructCopy DEF w

-----------------------------------------------------------------------------
(* The calls                                                               *)

LEMMA Refused ==
    ASSUME NEW m, Ended(m), NEW e
    PROVE  Ended(Err(m, e).mem)
  BY DEF Err

\* The typed setter, for an instance or for plain data
LEMMA SetFieldKeepsEnds ==
    ASSUME StringLayout, Ended(mem), NEW h \in Handles, NEW T \in DOMAIN SizeOf,
           NEW src, T \in StructTypes => src \in SourcesFor(T)
    PROVE  Ended(set_field(T, mem, h[1], h[3], src).mem)
  <1> DEFINE o == set_field(T, mem, h[1], h[3], src)
             v == <<<<h[1], h[2]>>, h[3]>>
  <1>1. CASE \E e : o = Err(mem, e)
    BY <1>1, Refused
  <1>2. CASE ~\E e : o = Err(mem, e)
    <2>1. /\ h[1] # NULL /\ h[3] # NoField /\ h[3].type = T
          /\ SizeOf[T] <= h[3].size \/ ~(SizeOf[T] > h[3].size)
          /\ o = CopyIn(mem, h[1] + h[3].offset, src, SizeOf[T])
      BY <1>2 DEF set_field, set_field_value
    <2>2. v \in Views /\ v[2] = h[3] /\ FirstCell(v) = h[1] + h[3].offset
      BY <2>1, HandleView DEF FirstCell
    <2>3. SizeOf[T] \in Nat /\ v[2].size \in Nat /\ SizeOf[T] <= v[2].size
      BY <2>1, <2>2, SizeTypes, ViewTypes
    <2>4. T # "char_arr"
      BY DEF StringLayout, ArrayTypes
    <2> HIDE DEF v
    <2>5. CASE T \in StructTypes
      BY <2>1, <2>2, <2>3, <2>5, StructCopyKeepsEnds
    <2>6. CASE T \notin StructTypes
      BY <2>1, <2>2, <2>3, <2>4, <2>6, PlainCopyKeepsEnds
    <2> QED
      BY <2>5, <2>6
  <1> QED
    BY <1>1, <1>2

\* The text a caller passes fits with its NUL, or is refused.
LEMMA SetCharArrKeepsEnds ==
    ASSUME StringLayout, Ended(mem), NEW h \in Handles, NEW s \in Text
    PROVE  Ended(set_char_arr_from_str(mem, h[1], h[3], s).mem)
  <1> DEFINE o == set_char_arr_from_str(mem, h[1], h[3], s)
             v == <<<<h[1], h[2]>>, h[3]>>
             k == (Len(s) + 1) * SizeOf[ElemType["char_arr"]]
  <1>1. CASE \E e : o = Err(mem, e)
    BY <1>1, Refused
  <1>2. CASE ~\E e : o = Err(mem, e)
    <2>1. /\ h[1] # NULL /\ h[3] # NoField /\ h[3].type = "char_arr"
          /\ ~(k > h[3].size)
          /\ o = CopyIn(mem, h[1] + h[3].offset, Terminated(s), k)
      BY <1>2 DEF set_char_arr_from_str, set_field_arr, set_field_value
    <2>2. v \in Views /\ v[2] = h[3] /\ FirstCell(v) = h[1] + h[3].offset
      BY <2>1, HandleView DEF FirstCell
    <2>3. v \in Strings
      BY <2>1, <2>2 DEF Strings
    <2>4. Len(s) \in Nat /\ \A i \in 1 .. Len(s) : s[i] \in Nat
      <3>1. \A S : \A q \in Seq(S) :
               Len(q) \in Nat /\ \A i \in 1 .. Len(q) : q[i] \in S
        OBVIOUS
      <3>2. 1 .. 255 \subseteq Nat
        OBVIOUS
      <3> DEFINE Codes == 1 .. 255
      <3>3. s \in Seq(Codes) /\ Codes \subseteq Nat
        BY <3>2 DEF Text
      <3> HIDE DEF Codes
      <3> QED
        BY <3>1, <3>3
    <2>5. SizeOf[ElemType["char_arr"]] \in Nat \ {0}
      BY AccessAssumption DEF AccessAssumption, StringLayout, ArrayTypes
    <2>6. k \in Nat /\ Len(s) + 1 <= k
      <3>1. PICK c \in Nat \ {0} : c = SizeOf[ElemType["char_arr"]]
        BY <2>5
      <3>2. PICK n \in Nat : n = Len(s) + 1
        BY <2>4
      <3>3. n <= n * c /\ n * c \in Nat
        <4>1. 1 \in Nat /\ 1 <= c /\ c \in Nat /\ 1 * n = n /\ c * n = n * c
          OBVIOUS
        <4>2. 1 * n <= c * n
          BY <4>1, MultMonotone
        <4> QED
          BY <4>1, <4>2
      <3> QED
        BY <3>1, <3>2, <3>3
    <2>7. v[2].size \in Nat /\ v[2].size <= MaxCopy /\ MaxCopy \in Nat
      BY <2>2, ViewTypes, AccessAssumption DEF AccessAssumption
    <2> HIDE DEF k, v
    <2>8. k <= v[2].size
      BY <2>1, <2>2, <2>6, <2>7
    <2>9. /\ Terminated(s) \in [0 .. MaxCopy - 1 -> Nat]
          /\ Len(s) \in 0 .. k - 1
          /\ Terminated(s)[Len(s)] = 0
      <3>1. Len(s) \in 0 .. MaxCopy - 1 /\ Len(s) \in 0 .. k - 1
        BY <2>4, <2>6, <2>7, <2>8
      <3>2. Terminated(s)[Len(s)] = 0
        BY <2>4, <3>1 DEF Terminated
      <3>3. ASSUME NEW i \in 0 .. MaxCopy - 1
            PROVE  (IF i < Len(s) THEN s[i + 1] ELSE 0) \in Nat
        BY <2>4, <2>7
      <3> QED
        BY <3>1, <3>2, <3>3 DEF Terminated
    <2>10. Ended(CopyIn(mem, FirstCell(v), Terminated(s), k).mem)
      BY <2>3, <2>6, <2>8, <2>9, TextCopyEnds
    <2> QED
      BY <2>1, <2>2, <2>10
  <1> QED
    BY <1>1, <1>2

\* A type the plugin converts is a value type of its own, or char_arr.
LEMMA ShownTypes ==
    ASSUME StringLayout, NEW T, Shows(T), T # "char_arr"
    PROVE  T \in DOMAIN SizeOf /\ T \notin StructTypes
  <1>1. T \in DOMAIN SizeOf
    BY FormatAssumption DEF FormatAssumption, Shows
  <1> QED
    BY <1>1 DEF StringLayout

LEMMA SetFromStrKeepsEnds ==
    ASSUME StringLayout, Ended(mem), NEW h \in Handles, NEW s \in Text \cup {NoText}
    PROVE  Ended(set_field_from_str(mem, h[1], h[3], s).mem)
  <1> DEFINE o == set_field_from_str(mem, h[1], h[3], s)
             T == h[3].type
             Typed == \E src : o = set_field(T, mem, h[1], h[3], src)
  <1>1. CASE \E e : o = Err(mem, e)
    BY <1>1, Refused
  <1>2. CASE ~\E e : o = Err(mem, e)
    <2>1. /\ Shows(T) /\ s # NoText
          /\ o = CASE T \in DOMAIN Enums -> set_enum_from_str(T, mem, h[1], h[3], s)
                   [] T = "bool" -> set_bool_from_str(mem, h[1], h[3], s)
                   [] T = "char_arr" -> set_char_arr_from_str(mem, h[1], h[3], s)
                   [] OTHER -> set_number_from_str(T, mem, h[1], h[3], s)
      BY <1>2 DEF set_field_from_str
    <2>2. CASE T = "char_arr"
      <3>1. T \notin DOMAIN Enums /\ T # "bool"
        BY <2>2, FormatAssumption DEF FormatAssumption, StringLayout, ArrayTypes
      <3>2. o = set_char_arr_from_str(mem, h[1], h[3], s)
        BY <2>1, <2>2, <3>1
      <3> QED
        BY <2>1, <3>2, SetCharArrKeepsEnds
    <2>3. CASE T # "char_arr"
      <3>1. T \in DOMAIN SizeOf /\ T \notin StructTypes
        BY <2>1, <2>3, ShownTypes
      <3>2. CASE o = set_number_from_str(T, mem, h[1], h[3], s)
        <4>1. Typed
          BY <1>2, <3>2 DEF set_number_from_str
        <4> QED
          BY <3>1, <4>1, SetFieldKeepsEnds
      <3>3. CASE T = "bool" /\ o = set_bool_from_str(mem, h[1], h[3], s)
        <4>1. Typed
          BY <3>3 DEF set_bool_from_str
        <4> QED
          BY <3>1, <4>1, SetFieldKeepsEnds
      <3>4. CASE o = set_enum_from_str(T, mem, h[1], h[3], s)
        <4>1. Typed
          BY <1>2, <3>4 DEF set_enum_from_str, set_number_from_str
        <4> QED
          BY <3>1, <4>1, SetFieldKeepsEnds
      <3> QED
        BY <2>1, <2>3, <3>2, <3>3, <3>4
    <2> QED
      BY <2>2, <2>3
  <1> QED
    BY <1>1, <1>2

\* Showing changes no memory.
LEMMA ShowKeepsMemory ==
    ASSUME NEW h, Do(get_field_as_str(mem, h[1], h[3]))
    PROVE  mem' = mem
  BY DEF Do, get_field_as_str, get_field_arr, get_field, get_field_value, Err, CopyOut

LEMMA NextKeepsEnds ==
    ASSUME StringLayout, StringsEnd, [FormatNext]_textVars
    PROVE  StringsEnd'
  <1> DEFINE Good == StringsEnd'
  <1>1. ASSUME NEW o, Do(o), Ended(o.mem) PROVE Good
    BY <1>1 DEF Do, StringsEnd, Ended, Strings
  <1>2. ASSUME mem' = mem PROVE Good
    BY <1>2 DEF StringsEnd, Ended, Strings
  <1>3. Ended(mem)
    BY DEF StringsEnd
  <1> HIDE DEF Good
  <1>4. ASSUME NEW h \in Handles, NEW s \in Calls \cup {NoText}, SetFromStr(h, s)
        PROVE  Good
    <2>1. s \in Text \cup {NoText}
      BY FormatAssumption DEF FormatAssumption
    <2>2. Ended(set_field_from_str(mem, h[1], h[3], s).mem)
      BY <1>3, <2>1, SetFromStrKeepsEnds
    <2> QED
      BY <1>1, <1>4, <2>2 DEF SetFromStr
  <1>5. ASSUME NEW h \in Handles, NEW n \in Buffers, AsStr(h, n) PROVE Good
    BY <1>2, <1>5, ShowKeepsMemory DEF AsStr, Show
  <1>6. ASSUME NEW h \in Handles, PrintField(h) PROVE Good
    <2>1. mem' = mem
      BY <1>6, ShowKeepsMemory DEF PrintField, Show, Do, Err
    <2> QED
      BY <1>2, <2>1
  <1>7. ASSUME NEW h \in Handles, NEW T \in ScalarTypes, NEW src \in SourcesFor(T),
               Store(T, h, src)
        PROVE  Good
    <2>1. Ended(set_field(T, mem, h[1], h[3], src).mem)
      BY <1>3, SetFieldKeepsEnds DEF ScalarTypes
    <2> QED
      BY <1>1, <1>7, <2>1 DEF Store, SetField
  <1>8. ASSUME UNCHANGED textVars PROVE Good
    BY <1>2, <1>8 DEF textVars, vars
  <1>9. Good
    BY <1>4, <1>5, <1>6, <1>7, <1>8 DEF FormatNext
  <1> QED
    BY <1>9 DEF Good

\* Whatever texts are stored and structs copied, every char array keeps a NUL
\* within its cells, when it starts with one.
THEOREM StringsKeepTheirEnd ==
    StringLayout /\ Ended(Boot) /\ FormatSpec => []StringsEnd
  <1> SUFFICES ASSUME StringLayout, Ended(Boot) PROVE FormatSpec => []StringsEnd
    OBVIOUS
  <1>1. FormatInit => StringsEnd
    BY DEF FormatInit, Init, StringsEnd
  <1>2. StringsEnd /\ [FormatNext]_textVars => StringsEnd'
    BY NextKeepsEnds
  <1> QED
    BY <1>1, <1>2, PTL DEF FormatSpec

-----------------------------------------------------------------------------
(* What print_field makes of a string                                      *)

LEMMA MinFacts ==
    ASSUME NEW S \in SUBSET Nat, S # {}
    PROVE  Min(S) \in S /\ \A n \in S : Min(S) <= n
  BY LeastNat DEF Min

\* A piece from the front of a sequence
LEMMA FrontPiece ==
    ASSUME NEW S, NEW q \in Seq(S), NEW n \in 0 .. Len(q)
    PROVE  /\ SubSeq(q, 1, n) \in Seq(S) /\ Len(SubSeq(q, 1, n)) = n
           /\ n = Len(q) => SubSeq(q, 1, n) = q
           /\ <<>> \o q = q
  <1>1. Len(q) \in Nat /\ n \in Nat
    OBVIOUS
  <1>2. SubSeq(q, 1, n) \in Seq(S) /\ Len(SubSeq(q, 1, n)) = n
    BY <1>1
  <1>3. \A i \in 1 .. n : SubSeq(q, 1, n)[i] = q[i]
    BY <1>1
  <1>4. n = Len(q) => SubSeq(q, 1, n) = q
    <2> DEFINE p == SubSeq(q, 1, n)
    <2>1. p \in Seq(S) /\ Len(p) = n /\ \A i \in 1 .. n : p[i] = q[i]
      BY <1>2, <1>3
    <2> HIDE DEF p
    <2>2. n = Len(q) => p = q
      BY <1>1, <2>1
    <2> QED
      BY <2>2 DEF p
  <1>5. <<>> \o q = q
    OBVIOUS
  <1> QED
    BY <1>2, <1>4, <1>5

\* The text of a char array is shorter than the array.
LEMMA StringTextFits ==
    ASSUME StringLayout, StringsEnd, NEW v \in Strings
    PROVE  LET s == ValueText(mem, v[1][1], v[2])
           IN  Len(s) \in Nat /\ Len(s) < v[2].count /\ \E S : s \in Seq(S)
  <1> DEFINE at == FirstCell(v)
             count == v[2].count
             cells == [i \in 1 .. count |-> mem[at + i - 1]]
             nul == {i \in DOMAIN cells : cells[i] = 0}
             S == {cells[i] : i \in 1 .. count}
  <1>1. /\ v \in Views /\ v[2].type = "char_arr" /\ count = v[2].size
        /\ at \in Nat /\ count \in Nat \ {0}
        /\ Extent(v) = Span(at, count)
    BY StringViews, ViewCells DEF Strings, StringLayout
  <1>2. ValueText(mem, v[1][1], v[2]) = CString(cells)
    <2>1. "char_arr" \notin DOMAIN Enums
      BY FormatAssumption DEF FormatAssumption, StringLayout, ArrayTypes
    <2>2. v[1][1] + v[2].offset = at
      BY DEF FirstCell
    <2> QED
      BY <1>1, <2>1, <2>2 DEF ValueText
  <1> HIDE DEF at, count
  <1>3. nul # {} /\ nul \in SUBSET (1 .. count)
    <2>1. PICK a \in Extent(v) : mem[a] = 0
      BY DEF StringsEnd, Ended
    <2>2. PICK i \in 1 .. count : at + i - 1 = a
      <3>1. a - at + 1 \in 1 .. count /\ at + (a - at + 1) - 1 = a
        BY <1>1, <2>1 DEF Span
      <3> QED
        BY <3>1
    <2>3. i \in nul
      BY <2>1, <2>2
    <2> QED
      BY <2>3
  <1>4. Min(nul) \in 1 .. count
    <2> HIDE DEF nul
    <2>1. nul \in SUBSET Nat
      BY <1>3
    <2> QED
      BY <1>3, <2>1, MinFacts
  <1>5. cells \in Seq(S) /\ Len(cells) = count
    <2>1. cells \in [1 .. count -> S]
      OBVIOUS
    <2> HIDE DEF cells, S
    <2> QED
      BY <1>1, <2>1
  <1>6. CString(cells) = SubSeq(cells, 1, Min(nul) - 1)
    BY <1>3 DEF CString
  <1> HIDE DEF cells, nul, S
  <1>7. Min(nul) - 1 \in 0 .. Len(cells) /\ Min(nul) - 1 < count /\ Min(nul) - 1 \in Nat
    BY <1>1, <1>4, <1>5
  <1>8. /\ SubSeq(cells, 1, Min(nul) - 1) \in Seq(S)
        /\ Len(SubSeq(cells, 1, Min(nul) - 1)) = Min(nul) - 1
    BY <1>5, <1>7, FrontPiece
  <1> QED
    BY <1>2, <1>6, <1>7, <1>8 DEF count

\* A text shorter than the buffer arrives whole.
LEMMA SnprintfWhole ==
    ASSUME NEW S, NEW s \in Seq(S), NEW n \in Nat, Len(s) < n
    PROVE  Snprintf(<<>> \o s, n) = s
  <1>1. Len(s) \in Nat /\ {Len(s), n - 1} \in SUBSET Nat /\ {Len(s), n - 1} # {}
    OBVIOUS
  <1>2. Min({Len(s), n - 1}) = Len(s)
    <2>1. /\ Min({Len(s), n - 1}) \in {Len(s), n - 1}
          /\ \A k \in {Len(s), n - 1} : Min({Len(s), n - 1}) <= k
      BY <1>1, MinFacts
    <2> QED
      BY <1>1, <2>1
  <1>3. <<>> \o s = s /\ SubSeq(s, 1, Len(s)) = s
    BY <1>1, FrontPiece
  <1> QED
    BY <1>2, <1>3 DEF Snprintf

\* print_field shows the whole of a char array, however long, when no format
\* of its own says otherwise: PrintsAll for strings.
PrintsStrings ==
    [][out' # NoText =>
          \A h \in {k \in Handles : k[3] \notin DOMAIN FormatOf} :
              /\ h[3] # NoField /\ h[3].type = "char_arr"
              /\ PrintField(h)
              => out' = ValueText(mem, h[1], h[3])]_textVars

LEMMA PrintStep ==
    ASSUME StringLayout, StringsEnd, out' # NoText,
           NEW h \in Handles, h[3] \notin DOMAIN FormatOf,
           h[3] # NoField, h[3].type = "char_arr", PrintField(h)
    PROVE  out' = ValueText(mem, h[1], h[3])
  <1> DEFINE v == <<<<h[1], h[2]>>, h[3]>>
             text == ValueText(mem, h[1], h[3])
  <1>1. h[1] # NULL
    BY DEF PrintField
  <1>2. v \in Strings /\ v[1][1] = h[1] /\ v[2] = h[3]
    BY <1>1, HandleView DEF Strings
  <1>3. out' = Snprintf(<<>> \o text, PrintBuf(h[3]))
    BY <1>1 DEF PrintField, Show, FieldText, Before
  <1>4. h[3].count \in Nat /\ MAX_BUF_LEN \in Nat
    BY <1>2, StringViews, ViewTypes, FormatAssumption DEF FormatAssumption
  <1>5. PrintBuf(h[3]) \in Nat /\ h[3].count <= PrintBuf(h[3])
    BY <1>4 DEF PrintBuf
  <1>6. Len(text) \in Nat /\ Len(text) < h[3].count /\ \E S : text \in Seq(S)
    BY <1>2, StringTextFits
  <1> HIDE DEF text
  <1>7. Len(text) < PrintBuf(h[3])
    BY <1>4, <1>5, <1>6
  <1> QED
    BY <1>3, <1>5, <1>6, <1>7, SnprintfWhole DEF text

\* So print_field shows every char array to its end: its buffer grows with
\* the array, and the text stops at the NUL inside.
THEOREM StringsPrintWhole ==
    StringLayout /\ Ended(Boot) /\ FormatSpec => PrintsStrings
  <1> SUFFICES ASSUME StringLayout, Ended(Boot) PROVE FormatSpec => PrintsStrings
    OBVIOUS
  <1>1. StringsEnd /\ [FormatNext]_textVars =>
           [out' # NoText =>
              \A h \in {k \in Handles : k[3] \notin DOMAIN FormatOf} :
                  /\ h[3] # NoField /\ h[3].type = "char_arr"
                  /\ PrintField(h)
                  => out' = ValueText(mem, h[1], h[3])]_textVars
    BY PrintStep
  <1>2. FormatSpec => []StringsEnd
    BY StringsKeepTheirEnd
  <1> QED
    BY <1>1, <1>2, PTL DEF FormatSpec, PrintsStrings

-----------------------------------------------------------------------------
(* Numerals                                                                *)

LEMMA Halved ==
    \A n \in Nat : /\ n \div 10 \in Nat /\ n % 10 \in 0 .. 9 /\ n = 10 * (n \div 10) + (n % 10)
                   /\ n >= 10 => n \div 10 < n
  <1> TAKE n \in Nat
  <1>1. n \div 10 \in Nat
    OBVIOUS
  <1>2. n % 10 \in 0 .. 9
    OBVIOUS
  <1>3. n = 10 * (n \div 10) + (n % 10)
    OBVIOUS
  <1>4. n >= 10 => n \div 10 < n
    OBVIOUS
  <1> QED
    BY <1>1, <1>2, <1>3, <1>4

DigitText == Seq(48 .. 57)

\* The equation of Decimal at n, its value at smaller numbers given
NextDecimal(g, n) == IF n < 10 THEN <<48 + n>> ELSE Append(g[n \div 10], 48 + (n % 10))

DecimalUpTo(g, N) ==
    g \in [0 .. N -> DigitText] /\ \A n \in 0 .. N : g[n] = NextDecimal(g, n)

LEMMA NextDecimalTyped ==
    ASSUME NEW n \in Nat, NEW g, n >= 10 => g[n \div 10] \in DigitText
    PROVE  NextDecimal(g, n) \in DigitText
  <1> DEFINE D == 48 .. 57
  <1>1. CASE n < 10
    <2>1. 48 + n \in D
      BY <1>1
    <2> HIDE DEF D
    <2>2. <<48 + n>> \in Seq(D)
      BY <2>1
    <2> QED
      BY <1>1, <2>2 DEF NextDecimal, DigitText, D
  <1>2. CASE ~(n < 10)
    <2>1. 48 + (n % 10) \in D
      BY Halved
    <2>2. g[n \div 10] \in Seq(D)
      BY <1>2 DEF DigitText
    <2> HIDE DEF D
    <2>3. Append(g[n \div 10], 48 + (n % 10)) \in Seq(D)
      BY <2>1, <2>2
    <2> QED
      BY <1>2, <2>3 DEF NextDecimal, DigitText, D
  <1> QED
    BY <1>1, <1>2

LEMMA SameNextDecimal ==
    ASSUME NEW n \in Nat, NEW g, NEW h, n >= 10 => g[n \div 10] = h[n \div 10]
    PROVE  NextDecimal(g, n) = NextDecimal(h, n)
  BY DEF NextDecimal

LEMMA DecimalStarts ==
    ASSUME NEW N \in Nat
    PROVE  \E g : DecimalUpTo(g, N)
  <1> DEFINE P == {k \in 0 .. N : \E g : DecimalUpTo(g, k)}
  <1>1. 0 \in P
    <2>1. NextDecimal(<<>>, 0) \in DigitText
      BY NextDecimalTyped
    <2>2. PICK g : g = [n \in 0 .. 0 |-> NextDecimal(<<>>, 0)]
      OBVIOUS
    <2>3. g \in [0 .. 0 -> DigitText] /\ g[0] = NextDecimal(<<>>, 0)
      BY <2>1, <2>2
    <2>4. NextDecimal(g, 0) = NextDecimal(<<>>, 0)
      BY SameNextDecimal
    <2>5. \A n \in 0 .. 0 : n = 0
      OBVIOUS
    <2>6. DecimalUpTo(g, 0)
      BY <2>3, <2>4, <2>5 DEF DecimalUpTo
    <2>7. 0 \in 0 .. N
      OBVIOUS
    <2> QED
      BY <2>6, <2>7
  <1>2. ASSUME NEW k \in 1 .. N, k - 1 \in P PROVE k \in P
    <2>1. PICK f : DecimalUpTo(f, k - 1)
      BY <1>2
    <2>2. f \in [0 .. k - 1 -> DigitText] /\ \A n \in 0 .. k - 1 : f[n] = NextDecimal(f, n)
      BY <2>1 DEF DecimalUpTo
    <2>3. PICK last : last = NextDecimal(f, k)
      OBVIOUS
    <2>4. last \in DigitText
      <3>1. k >= 10 => k \div 10 \in 0 .. k - 1
        BY Halved
      <3>2. k >= 10 => f[k \div 10] \in DigitText
        BY <2>2, <3>1
      <3> QED
        BY <2>3, <3>2, NextDecimalTyped
    <2>5. PICK g : g = [n \in 0 .. k |-> IF n = k THEN last ELSE f[n]]
      OBVIOUS
    <2>6. g \in [0 .. k -> DigitText] /\ g[k] = last /\ \A n \in 0 .. k - 1 : g[n] = f[n]
      <3>1. \A n \in 0 .. k : n = k \/ n \in 0 .. k - 1
        OBVIOUS
      <3>2. \A n \in 0 .. k - 1 : n \in 0 .. k /\ n # k
        OBVIOUS
      <3>3. k \in 0 .. k
        OBVIOUS
      <3> QED
        BY <2>2, <2>4, <2>5, <3>1, <3>2, <3>3
    <2>7. ASSUME NEW n \in 0 .. k PROVE g[n] = NextDecimal(g, n)
      <3>1. n >= 10 => n \div 10 \in 0 .. k - 1
        BY Halved
      <3>2. NextDecimal(g, n) = NextDecimal(f, n)
        BY <2>6, <3>1, SameNextDecimal
      <3>3. n = k \/ n \in 0 .. k - 1
        OBVIOUS
      <3> QED
        BY <2>2, <2>3, <2>6, <3>2, <3>3
    <2>8. DecimalUpTo(g, k)
      BY <2>6, <2>7 DEF DecimalUpTo
    <2> QED
      BY <2>8
  <1>3. N \in P
    <2> HIDE DEF P
    <2> QED
      BY <1>1, <1>2, UpTo
  <1> QED
    BY <1>3

LEMMA DecimalsAgree ==
    ASSUME NEW M \in Nat, NEW N \in Nat, NEW g, NEW h, DecimalUpTo(g, M), DecimalUpTo(h, N),
           NEW n \in Nat, n <= M, n <= N
    PROVE  g[n] = h[n]
  <1> DEFINE T == {k \in 0 .. n : g[k] # h[k]}
  <1>1. ASSUME T # {} PROVE FALSE
    <2>1. T \in SUBSET Nat
      OBVIOUS
    <2>2. PICK k \in T : \A j \in T : k <= j
      BY <1>1, <2>1, LeastNat
    <2>3. k \in 0 .. n /\ g[k] # h[k]
      OBVIOUS
    <2>4. k >= 10 => k \div 10 \in 0 .. n /\ k \div 10 < k
      BY <2>3, Halved
    <2>5. k >= 10 => g[k \div 10] = h[k \div 10]
      BY <2>2, <2>3, <2>4
    <2>6. NextDecimal(g, k) = NextDecimal(h, k)
      BY <2>3, <2>5, SameNextDecimal
    <2>7. k \in 0 .. M /\ k \in 0 .. N
      BY <2>3
    <2>8. g[k] = NextDecimal(g, k) /\ h[k] = NextDecimal(h, k)
      BY <2>7 DEF DecimalUpTo
    <2> QED
      BY <2>3, <2>6, <2>8
  <1>2. n \in 0 .. n
    OBVIOUS
  <1> QED
    BY <1>1, <1>2

Decimals(g) == g = [n \in Nat |-> NextDecimal(g, n)]

\* The equation of Decimal, which gives every number its numeral
LEMMA DecimalIs ==
    \A n \in Nat : Decimal[n] \in DigitText /\ Decimal[n] = NextDecimal(Decimal, n)
  <1> DEFINE upTo(n) == CHOOSE g : DecimalUpTo(g, n)
  <1>1. \A n \in Nat : DecimalUpTo(upTo(n), n)
    BY DecimalStarts
  <1>2. PICK d : d = [n \in Nat |-> upTo(n)[n]]
    OBVIOUS
  <1>3. \A n \in Nat : d[n] = upTo(n)[n]
    BY <1>2
  <1> HIDE DEF upTo
  <1>4. ASSUME NEW n \in Nat PROVE d[n] \in DigitText /\ d[n] = NextDecimal(d, n)
    <2>1. PICK g : g = upTo(n) /\ DecimalUpTo(g, n)
      BY <1>1
    <2>2. n \in 0 .. n /\ (n >= 10 => n \div 10 \in 0 .. n /\ n \div 10 \in Nat)
      BY Halved
    <2>3. d[n] = g[n] /\ g[n] \in DigitText /\ g[n] = NextDecimal(g, n)
      BY <1>3, <2>1, <2>2 DEF DecimalUpTo
    <2>4. ASSUME n >= 10 PROVE g[n \div 10] = d[n \div 10]
      <3>1. PICK k \in Nat : k = n \div 10 /\ k <= n
        BY <2>2, <2>4
      <3>2. PICK h : h = upTo(k) /\ DecimalUpTo(h, k)
        BY <1>1
      <3>3. g[k] = h[k]
        BY <2>1, <3>1, <3>2, DecimalsAgree
      <3> QED
        BY <1>3, <3>1, <3>2, <3>3
    <2>5. NextDecimal(g, n) = NextDecimal(d, n)
      BY <2>4, SameNextDecimal
    <2> QED
      BY <2>3, <2>5
  <1>5. Decimals(d)
    <2>1. \A n \in Nat : d[n] = NextDecimal(d, n)
      BY <1>4
    <2>2. d = [n \in Nat |-> d[n]]
      BY <1>2, Zenon
    <2> QED
      BY <2>1, <2>2, Zenon DEF Decimals
  <1>6. Decimal = CHOOSE g : Decimals(g)
    BY Zenon DEF Decimal, Decimals, NextDecimal
  <1>7. Decimals(Decimal)
    BY <1>5, <1>6, Zenon
  <1>8. \A n \in Nat : Decimal[n] = NextDecimal(Decimal, n)
    BY <1>7, Zenon DEF Decimals
  <1>9. \A N \in Nat : \A n \in 0 .. N : Decimal[n] = NextDecimal(Decimal, n)
    BY <1>8
  <1> DEFINE T == {n \in Nat : Decimal[n] \notin DigitText}
  <1>10. ASSUME T # {} PROVE FALSE
    <2>1. PICK k \in T : \A j \in T : k <= j
      <3>1. T \in SUBSET Nat
        OBVIOUS
      <3> QED
        BY <1>10, <3>1, LeastNat
    <2>2. k >= 10 => k \div 10 \in Nat /\ k \div 10 < k
      BY Halved
    <2>3. k >= 10 => Decimal[k \div 10] \in DigitText
      BY <2>1, <2>2
    <2> QED
      BY <1>8, <2>3, NextDecimalTyped
  <1> QED
    BY <1>8, <1>10

LEMMA OneItemMore ==
    ASSUME NEW S, NEW s \in Seq(S), NEW c \in S
    PROVE  /\ Append(s, c) \in Seq(S) /\ Len(s) \in Nat /\ Len(Append(s, c)) = Len(s) + 1
           /\ Append(s, c)[Len(s) + 1] = c /\ \A i \in 1 .. Len(s) : Append(s, c)[i] = s[i]
  OBVIOUS

LEMMA WiderItems ==
    ASSUME NEW S, NEW s \in Seq(S), NEW T, S \subseteq T
    PROVE  s \in Seq(T) /\ Len(s) \in Nat /\ \A i \in 1 .. Len(s) : s[i] \in S
  OBVIOUS

\* The numbers that the beginnings of a text are the numerals of
NumeralUpTo(g, s) ==
    /\ g \in [0 .. Len(s) -> Int]
    /\ g[0] = 0
    /\ \A k \in 1 .. Len(s) : g[k] = 10 * g[k - 1] + (s[k] - 48)

NumeralBy(g, s) ==
    g = [k \in {0} \cup DOMAIN s |-> IF k = 0 THEN 0 ELSE 10 * g[k - 1] + (s[k] - 48)]

NumeralSeq(s) == CHOOSE g : NumeralBy(g, s)

LEMMA NumeralIs ==
    ASSUME NEW s \in Seq(Int)
    PROVE  \E g : NumeralUpTo(g, s) /\ Numeral(s) = g[Len(s)]
  <1> DEFINE step == [v \in (1 .. Len(s)) \X Int |-> 10 * v[2] + (s[v[1]] - 48)]
  <1>1. Len(s) \in Nat /\ DOMAIN s = 1 .. Len(s) /\ \A k \in 1 .. Len(s) : s[k] \in Int
    OBVIOUS
  <1>2. {0} \cup DOMAIN s = 0 .. Len(s)
    BY <1>1
  <1>3. step \in [(1 .. Len(s)) \X Int -> Int]
    BY <1>1
  <1>4. \A k \in 1 .. Len(s), n \in Int : step[<<k, n>>] = 10 * n + (s[k] - 48)
    OBVIOUS
  <1> HIDE DEF step
  <1>5. PICK h \in [0 .. Len(s) -> Int] :
           h[0] = 0 /\ \A k \in 1 .. Len(s) : h[k] = step[<<k, h[k - 1]>>]
    <2>0. PICK N \in Nat : N = Len(s)
      BY <1>1
    <2>1. PICK next \in [(1 .. N) \X Int -> Int] : next = step
      BY <1>3, <2>0
    <2>2. PICK f : Recurses(f, N, Int, 0, next)
      <3>1. 0 \in Int
        OBVIOUS
      <3> QED
        BY <3>1, Recursion
    <2> QED
      BY <2>0, <2>1, <2>2 DEF Recurses
  <1>6. \A k \in 1 .. Len(s) : h[k - 1] \in Int
    <2>1. \A k \in 1 .. Len(s) : k - 1 \in 0 .. Len(s)
      BY <1>1
    <2> QED
      BY <1>5, <2>1
  <1>7. \A k \in 1 .. Len(s) : h[k] = 10 * h[k - 1] + (s[k] - 48)
    BY <1>4, <1>5, <1>6
  <1>8. NumeralBy(h, s)
    <2>1. h = [k \in 0 .. Len(s) |-> h[k]]
      BY <1>5
    <2>2. \A k \in 0 .. Len(s) : h[k] = IF k = 0 THEN 0 ELSE 10 * h[k - 1] + (s[k] - 48)
      <3>1. \A k \in 0 .. Len(s) : k = 0 \/ k \in 1 .. Len(s)
        BY <1>1
      <3> QED
        BY <3>1, <1>5, <1>7
    <2>3. h = [k \in 0 .. Len(s) |-> IF k = 0 THEN 0 ELSE 10 * h[k - 1] + (s[k] - 48)]
      BY <2>1, <2>2, Zenon
    <2> QED
      BY <2>3, <1>2 DEF NumeralBy
  <1>9. NumeralBy(NumeralSeq(s), s)
    BY <1>8, Zenon DEF NumeralSeq
  <1>10. Numeral(s) = NumeralSeq(s)[Len(s)]
    BY Zenon DEF Numeral, NumeralSeq, NumeralBy
  <1>11. PICK g : g = NumeralSeq(s)
    OBVIOUS
  <1>12. /\ g[0] = 0
         /\ \A k \in 1 .. Len(s) : g[k] = 10 * g[k - 1] + (s[k] - 48)
         /\ g = [k \in 0 .. Len(s) |-> g[k]]
    <2>1. g = [k \in 0 .. Len(s) |-> IF k = 0 THEN 0 ELSE 10 * g[k - 1] + (s[k] - 48)]
      BY <1>2, <1>9, <1>11, Zenon DEF NumeralBy
    <2>2. \A k \in 0 .. Len(s) : g[k] = IF k = 0 THEN 0 ELSE 10 * g[k - 1] + (s[k] - 48)
      BY <2>1, Zenon
    <2>3. DOMAIN g = 0 .. Len(s)
      BY <2>1, Zenon
    <2>4. g = [k \in 0 .. Len(s) |-> g[k]]
      BY <2>1, Zenon
    <2>5. 0 \in 0 .. Len(s) /\ \A k \in 1 .. Len(s) : k \in 0 .. Len(s) /\ k # 0
      BY <1>1
    <2> QED
      BY <2>2, <2>4, <2>5
  <1>13. \A k \in 0 .. Len(s) : g[k] \in Int
    <2> DEFINE P == {k \in 0 .. Len(s) : g[k] \in Int}
    <2>1. 0 \in P
      BY <1>1, <1>12
    <2>2. ASSUME NEW k \in 1 .. Len(s), k - 1 \in P PROVE k \in P
      <3>1. PICK n \in Int, c \in Int : n = g[k - 1] /\ c = s[k]
        BY <1>1, <2>2
      <3>2. g[k] = 10 * n + (c - 48)
        BY <1>12, <3>1
      <3>3. k \in 0 .. Len(s)
        BY <1>1
      <3> QED
        BY <3>2, <3>3
    <2>3. \A k \in 0 .. Len(s) : k \in P
      <3> HIDE DEF P
      <3> QED
        BY <1>1, <2>1, <2>2, UpTo
    <2> QED
      BY <2>3
  <1>14. g \in [0 .. Len(s) -> Int]
    BY <1>12, <1>13
  <1> QED
    BY <1>10, <1>11, <1>12, <1>14 DEF NumeralUpTo

LEMMA NumeralsAgree ==
    ASSUME NEW s \in Seq(Int), NEW t \in Seq(Int), Len(s) <= Len(t),
           \A i \in 1 .. Len(s) : t[i] = s[i],
           NEW g, NEW h, NumeralUpTo(g, s), NumeralUpTo(h, t)
    PROVE  g[Len(s)] = h[Len(s)]
  <1>1. PICK n \in Nat : n = Len(s) /\ n <= Len(t) /\ Len(t) \in Nat
    OBVIOUS
  <1>2. /\ g[0] = 0 /\ h[0] = 0
        /\ \A k \in 1 .. n : g[k] = 10 * g[k - 1] + (s[k] - 48)
        /\ \A k \in 1 .. Len(t) : h[k] = 10 * h[k - 1] + (t[k] - 48)
    BY <1>1 DEF NumeralUpTo
  <1>3. ASSUME NEW k \in 1 .. n PROVE h[k] = 10 * h[k - 1] + (s[k] - 48)
    <2>1. k \in 1 .. Len(t) /\ t[k] = s[k]
      BY <1>1
    <2> QED
      BY <1>2, <2>1
  <1> DEFINE P == {k \in 0 .. n : g[k] = h[k]}
  <1>4. 0 \in P
    BY <1>1, <1>2
  <1>5. ASSUME NEW k \in 1 .. n, k - 1 \in P PROVE k \in P
    BY <1>2, <1>3, <1>5
  <1>6. \A k \in 0 .. n : k \in P
    <2> HIDE DEF P
    <2> QED
      BY <1>1, <1>4, <1>5, UpTo
  <1> QED
    BY <1>1, <1>6

\* One digit more
LEMMA NumeralGrows ==
    ASSUME NEW s \in Seq(Int), NEW c \in Int
    PROVE  /\ Numeral(s) \in Int
           /\ Numeral(Append(s, c)) = 10 * Numeral(s) + (c - 48)
           /\ s = <<>> => Numeral(s) = 0
  <1>1. PICK t \in Seq(Int) : t = Append(s, c)
    BY OneItemMore
  <1>2. /\ Len(s) \in Nat /\ Len(t) = Len(s) + 1 /\ t[Len(t)] = c
        /\ \A i \in 1 .. Len(s) : t[i] = s[i]
    BY <1>1, OneItemMore
  <1>3. PICK g : NumeralUpTo(g, s) /\ Numeral(s) = g[Len(s)]
    BY NumeralIs
  <1>4. PICK h : NumeralUpTo(h, t) /\ Numeral(t) = h[Len(t)]
    BY NumeralIs
  <1>5. g[Len(s)] = h[Len(s)]
    <2>1. Len(s) <= Len(t)
      BY <1>2
    <2> QED
      BY <1>2, <1>3, <1>4, <2>1, NumeralsAgree
  <1>6. h[Len(t)] = 10 * h[Len(t) - 1] + (t[Len(t)] - 48)
    <2>1. Len(t) \in 1 .. Len(t)
      BY <1>2
    <2> QED
      BY <1>4, <2>1 DEF NumeralUpTo
  <1>7. Len(t) - 1 = Len(s)
    BY <1>2
  <1>8. g[Len(s)] \in Int /\ (Len(s) = 0 => g[Len(s)] = 0)
    <2>1. Len(s) \in 0 .. Len(s)
      BY <1>2
    <2> QED
      BY <1>3, <2>1 DEF NumeralUpTo
  <1>9. Numeral(Append(s, c)) = 10 * Numeral(s) + (c - 48)
    BY <1>1, <1>2, <1>3, <1>4, <1>5, <1>6, <1>7
  <1> QED
    BY <1>3, <1>8, <1>9

LEMMA DigitTexts ==
    ASSUME NEW d \in DigitText
    PROVE  /\ d \in Seq(Int) /\ Len(d) \in Nat /\ d \in Text
           /\ \A i \in 1 .. Len(d) : d[i] \in 48 .. 57
  <1> DEFINE D == 48 .. 57
             C == 1 .. 255
  <1>1. D \subseteq Int /\ D \subseteq C
    OBVIOUS
  <1>2. d \in Seq(D)
    BY DEF DigitText
  <1> HIDE DEF D, C
  <1>3. d \in Seq(Int) /\ d \in Seq(C) /\ Len(d) \in Nat /\ \A i \in 1 .. Len(d) : d[i] \in D
    BY <1>1, <1>2, WiderItems
  <1> QED
    BY <1>3 DEF D, C, Text

\* The numeral of a number is read as that number.
LEMMA DecimalIsRead ==
    \A n \in Nat : Numeral(Decimal[n]) = n /\ Len(Decimal[n]) >= 1
  <1> DEFINE T == {n \in Nat : ~(Numeral(Decimal[n]) = n /\ Len(Decimal[n]) >= 1)}
  <1>1. ASSUME T # {} PROVE FALSE
    <2>1. PICK k \in T : \A j \in T : k <= j
      <3>1. T \in SUBSET Nat
        OBVIOUS
      <3> QED
        BY <1>1, <3>1, LeastNat
    <2>2. PICK n \in Nat : n = k
      OBVIOUS
    <2>3. Decimal[n] \in DigitText /\ Decimal[n] = NextDecimal(Decimal, n)
      BY DecimalIs
    <2>4. CASE n < 10
      <3>1. PICK c \in Int : c = 48 + n
        OBVIOUS
      <3>2. Decimal[n] = <<c>>
        BY <2>3, <2>4, <3>1 DEF NextDecimal
      <3>3. <<c>> = Append(<<>>, c) /\ <<>> \in Seq(Int) /\ Len(<<c>>) = 1
        OBVIOUS
      <3>4. Numeral(Append(<<>>, c)) = 10 * Numeral(<<>>) + (c - 48) /\ Numeral(<<>>) = 0
        BY <3>3, NumeralGrows
      <3>5. Numeral(Decimal[n]) = n
        BY <3>1, <3>2, <3>3, <3>4
      <3>6. Len(Decimal[n]) = 1
        BY <3>2, <3>3
      <3>7. Len(Decimal[n]) >= 1
        BY <3>6
      <3> QED
        BY <2>1, <2>2, <3>5, <3>7
    <2>5. CASE ~(n < 10)
      <3>1. PICK q \in Nat, r \in 0 .. 9 :
               q = n \div 10 /\ r = n % 10 /\ n = 10 * q + r /\ q < n
        BY <2>5, Halved
      <3>2. Numeral(Decimal[q]) = q
        BY <2>1, <2>2, <3>1
      <3>3. PICK d \in Seq(Int) : d = Decimal[q]
        BY DecimalIs, DigitTexts
      <3>4. PICK c \in Int : c = 48 + r
        OBVIOUS
      <3>5. Decimal[n] = Append(d, c)
        BY <2>3, <2>5, <3>1, <3>3, <3>4 DEF NextDecimal
      <3>6. Numeral(Append(d, c)) = 10 * Numeral(d) + (c - 48)
        BY NumeralGrows
      <3>7. Numeral(Decimal[n]) = n
        <4>1. Numeral(d) = q
          BY <3>2, <3>3
        <4> QED
          BY <3>1, <3>4, <3>5, <3>6, <4>1
      <3>8. Len(Decimal[n]) >= 1
        BY <3>5
      <3> QED
        BY <2>1, <2>2, <3>7, <3>8
    <2> QED
      BY <2>4, <2>5
  <1> QED
    BY <1>1

LEMMA SameItems ==
    ASSUME NEW S, NEW s \in Seq(S), NEW T, NEW t \in Seq(T), Len(s) = Len(t),
           \A i \in 1 .. Len(s) : s[i] = t[i]
    PROVE  s = t
  OBVIOUS

LEMMA ShortItems ==
    ASSUME NEW S, NEW c \in S, NEW d \in Seq(S)
    PROVE  /\ <<>> \in Seq(S) /\ Len(<<>>) = 0
           /\ <<c>> \o d \in Seq(S) /\ Len(<<c>> \o d) = 1 + Len(d)
           /\ (<<c>> \o d)[1] = c /\ \A i \in 1 .. Len(d) : (<<c>> \o d)[1 + i] = d[i]
  OBVIOUS

LEMMA ItemsIn ==
    ASSUME NEW S, NEW s \in Seq(S), NEW T, \A i \in 1 .. Len(s) : s[i] \in T
    PROVE  s \in Seq(T)
  OBVIOUS

\* A piece of a sequence, its place and length known
LEMMA Piece ==
    ASSUME NEW S, NEW s \in Seq(S), NEW T, NEW d \in Seq(T), NEW k \in Nat,
           k + Len(d) <= Len(s), \A i \in 1 .. Len(d) : s[k + i] = d[i]
    PROVE  SubSeq(s, k + 1, k + Len(d)) = d
  <1>1. PICK n \in Nat : n = Len(d) /\ n <= Len(s)
    OBVIOUS
  <1>2. PICK p : p = SubSeq(s, k + 1, k + n)
    OBVIOUS
  <1>3. p \in Seq(S) /\ Len(p) = n /\ \A i \in 1 .. n : p[i] = s[k + i]
    <2>1. Len(p) = n
      BY <1>1, <1>2
    <2>2. \A i \in 1 .. n : p[i] = s[k + i]
      BY <1>1, <1>2
    <2>3. p \in Seq(S)
      BY <1>1, <1>2
    <2> QED
      BY <2>1, <2>2, <2>3
  <1>4. p = d
    BY <1>1, <1>3, SameItems
  <1> QED
    BY <1>1, <1>2, <1>4

LEMMA MaxIs ==
    ASSUME NEW S \in SUBSET Int, NEW n \in S, \A k \in S : k <= n
    PROVE  Max(S) = n
  <1>1. \A y \in S : n >= y
    OBVIOUS
  <1>2. ASSUME NEW x \in S, \A y \in S : x >= y PROVE x = n
    BY <1>1, <1>2
  <1> QED
    BY <1>1, <1>2 DEF Max

\* strtol reads digits, after a sign or none, up to what is none.
LEMMA DigitsAreRead ==
    ASSUME NEW k \in {0, 1}, NEW d \in DigitText, Len(d) >= 1, NEW r \in Seq(Int),
           NEW s \in Seq(Int), Len(s) = k + Len(d) + Len(r),
           \A i \in 1 .. Len(d) : s[k + i] = d[i],
           \A i \in 1 .. Len(r) : s[k + Len(d) + i] = r[i],
           r = <<>> \/ ~IsDigit(r[1]), k = 1 <=> s[1] = 45
    PROVE  Strtol(s) = [value |-> IF k = 1 THEN - Numeral(d) ELSE Numeral(d), rest |-> r]
  <1>1. PICK n \in Nat, m \in Nat : /\ n = Len(d) /\ n >= 1 /\ m = Len(r)
                                    /\ Len(s) = k + n + m /\ k \in Nat
    BY DigitTexts
  <1>2. s # <<>>
    BY <1>1
  <1>3. k = IF s # <<>> /\ s[1] = 45 THEN 1 ELSE 0
    BY <1>2
  <1>4. PICK D : D = Digits(s, k)
    OBVIOUS
  <1>5. D = {j \in 0 .. n + m : \A i \in k + 1 .. k + j : IsDigit(s[i])}
    <2>1. Len(s) - k = n + m
      BY <1>1
    <2> QED
      BY <1>4, <2>1 DEF Digits
  <1>6. n \in D
    <2>1. ASSUME NEW i \in k + 1 .. k + n PROVE IsDigit(s[i])
      <3>1. PICK j \in 1 .. n : i = k + j
        <4>1. i - k \in 1 .. n /\ i = k + (i - k)
          BY <1>1
        <4> QED
          BY <4>1
      <3>2. s[i] = d[j] /\ d[j] \in 48 .. 57
        BY <1>1, <3>1, DigitTexts
      <3> QED
        BY <3>2 DEF IsDigit
    <2> QED
      BY <1>1, <1>5, <2>1
  <1>7. ASSUME NEW j \in D PROVE j <= n
    <2>1. SUFFICES ASSUME j > n PROVE FALSE
      BY <1>1, <1>5
    <2>2. j \in Nat /\ n + 1 <= j /\ m >= 1
      <3>1. j \in 0 .. n + m
        BY <1>5
      <3> QED
        BY <1>1, <2>1, <3>1
    <2>3. k + n + 1 \in k + 1 .. k + j
      <3>1. k \in Nat /\ n \in Nat /\ j \in Nat /\ n + 1 <= j
        BY <1>1, <2>2
      <3> QED
        BY <3>1
    <2>4. IsDigit(s[k + n + 1])
      BY <1>5, <2>3
    <2>5. 1 \in 1 .. Len(r) /\ r # <<>>
      BY <1>1, <2>2
    <2>6. s[k + n + 1] = r[1]
      BY <1>1, <2>5
    <2> QED
      BY <2>4, <2>5, <2>6
  <1>8. Max(D) = n
    <2>1. D \in SUBSET Int
      BY <1>5
    <2> QED
      BY <1>6, <1>7, <2>1, MaxIs
  <1>9. SubSeq(s, k + 1, k + n) = d
    <2>1. d \in Seq(Int) /\ k + Len(d) <= Len(s)
      BY <1>1, DigitTexts
    <2> QED
      BY <1>1, <2>1, Piece
  <1>10. SubSeq(s, k + n + 1, Len(s)) = r
    <2>1. PICK j \in Nat : j = k + n
      BY <1>1
    <2>2. j + Len(r) <= Len(s) /\ \A i \in 1 .. Len(r) : s[j + i] = r[i]
      BY <1>1, <2>1
    <2>3. SubSeq(s, j + 1, j + Len(r)) = r
      BY <2>2, Piece
    <2>4. j + Len(r) = Len(s)
      BY <1>1, <2>1
    <2> QED
      BY <2>1, <2>3, <2>4
  <1>11. n # 0
    BY <1>1
  <1>12. Strtol(s) = [value |-> IF k = 1 THEN - Numeral(SubSeq(s, k + 1, k + n))
                                ELSE Numeral(SubSeq(s, k + 1, k + n)),
                      rest |-> IF n = 0 THEN s ELSE SubSeq(s, k + n + 1, Len(s))]
    BY <1>3, <1>4, <1>8, Zenon DEF Strtol
  <1> QED
    BY <1>9, <1>10, <1>11, <1>12, Zenon

\* What is printed of a number is read as the number.
LEMMA PrintedIsRead ==
    ASSUME NEW n \in Int
    PROVE  /\ Printed(n) \in Text
           /\ Strtol(Printed(n)) = [value |-> n, rest |-> <<>>]
  <1>1. PICK a \in Nat : a = IF n < 0 THEN - n ELSE n
    OBVIOUS
  <1>2. PICK d \in DigitText : d = Decimal[a]
    BY DecimalIs
  <1>3. /\ Len(d) >= 1 /\ Len(d) \in Nat /\ Numeral(d) = a
        /\ d \in Seq(Int) /\ d \in Text /\ \A i \in 1 .. Len(d) : d[i] \in 48 .. 57
    BY <1>2, DecimalIsRead, DigitTexts
  <1>4. PICK r \in Seq(Int) : r = <<>>
    BY <1>1, <1>3, ShortItems
  <1>5. Len(r) = 0
    BY <1>4
  <1>6. CASE n >= 0
    <2>1. Printed(n) = d
      BY <1>1, <1>2, <1>6 DEF Printed
    <2>2. PICK k \in {0, 1} : k = 0
      OBVIOUS
    <2>3. /\ Len(d) = k + Len(d) + Len(r)
          /\ \A i \in 1 .. Len(d) : d[k + i] = d[i]
          /\ \A i \in 1 .. Len(r) : d[k + Len(d) + i] = r[i]
          /\ k = 1 <=> d[1] = 45
      <3>1. 1 \in 1 .. Len(d)
        BY <1>3
      <3>2. d[1] # 45
        <4>1. d[1] \in 48 .. 57
          BY <1>3, <3>1, Zenon
        <4> QED
          BY <4>1
      <3>3. Len(d) = k + Len(d) + Len(r)
        BY <1>3, <1>5, <2>2
      <3>4. \A i \in 1 .. Len(d) : k + i = i
        BY <1>3, <2>2
      <3>5. \A i \in 1 .. Len(r) : FALSE
        BY <1>5
      <3>6. ~(k = 1)
        BY <2>2
      <3>7. \A i \in 1 .. Len(d) : d[k + i] = d[i]
        BY <3>4, Zenon
      <3>8. \A i \in 1 .. Len(r) : d[k + Len(d) + i] = r[i]
        BY <3>5, Zenon
      <3>9. k = 1 <=> d[1] = 45
        BY <3>2, <3>6, Zenon
      <3> QED
        BY <3>3, <3>7, <3>8, <3>9, Zenon
    <2>4. Strtol(d) = [value |-> IF k = 1 THEN - Numeral(d) ELSE Numeral(d), rest |-> r]
      BY <1>3, <1>4, <2>3, DigitsAreRead
    <2>5. (IF k = 1 THEN - Numeral(d) ELSE Numeral(d)) = n
      BY <1>1, <1>3, <1>6, <2>2
    <2> QED
      BY <1>3, <1>4, <2>1, <2>4, <2>5
  <1>7. CASE n < 0
    <2>1. PICK c \in Int : c = 45
      OBVIOUS
    <2>2. PICK s \in Seq(Int) : s = <<c>> \o d
      BY <1>3, ShortItems
    <2>3. Printed(n) = s
      BY <1>1, <1>2, <1>7, <2>1, <2>2 DEF Printed
    <2>4. Len(s) = 1 + Len(d) /\ s[1] = 45 /\ \A i \in 1 .. Len(d) : s[1 + i] = d[i]
      BY <1>3, <2>1, <2>2, ShortItems
    <2>5. PICK k \in {0, 1} : k = 1
      OBVIOUS
    <2>6. /\ Len(s) = k + Len(d) + Len(r)
          /\ \A i \in 1 .. Len(d) : s[k + i] = d[i]
          /\ \A i \in 1 .. Len(r) : s[k + Len(d) + i] = r[i]
          /\ k = 1 <=> s[1] = 45
      BY <1>3, <1>5, <2>4, <2>5
    <2>7. Strtol(s) = [value |-> IF k = 1 THEN - Numeral(d) ELSE Numeral(d), rest |-> r]
      BY <1>3, <1>4, <2>6, DigitsAreRead
    <2>8. (IF k = 1 THEN - Numeral(d) ELSE Numeral(d)) = n
      BY <1>1, <1>3, <1>7, <2>5
    <2>9. s \in Text
      <3> DEFINE C == 1 .. 255
      <3>1. \A i \in 1 .. Len(s) : s[i] \in C
        <4>1. ASSUME NEW i \in 1 .. Len(s) PROVE s[i] \in C
          <5>1. CASE i = 1
            BY <2>4, <5>1
          <5>2. CASE i # 1
            <6>1. i - 1 \in 1 .. Len(d) /\ i = 1 + (i - 1)
              BY <1>3, <2>4, <5>2
            <6>2. s[i] = d[i - 1] /\ d[i - 1] \in 48 .. 57
              BY <1>3, <2>4, <6>1
            <6> QED
              BY <6>2
          <5> QED
            BY <5>1, <5>2
        <4> QED
          BY <4>1
      <3> HIDE DEF C
      <3>2. s \in Seq(C)
        BY <3>1, ItemsIn
      <3> QED
        BY <3>2 DEF C, Text
    <2> QED
      BY <1>4, <2>3, <2>7, <2>8, <2>9
  <1> QED
    BY <1>6, <1>7

-----------------------------------------------------------------------------
(* Bytes                                                                   *)

WidthUpTo(g, n) ==
    /\ g \in [0 .. n -> Nat \ {0}]
    /\ g[0] = 1
    /\ \A k \in 1 .. n : g[k] = 256 * g[k - 1]

WidthBy(g, n) == g = [k \in 0 .. n |-> IF k = 0 THEN 1 ELSE 256 * g[k - 1]]

WidthFun(n) == CHOOSE g : WidthBy(g, n)

LEMMA WidthIs ==
    ASSUME NEW n \in Nat
    PROVE  \E g : WidthUpTo(g, n) /\ Width(n) = g[n]
  <1> DEFINE S == Nat \ {0}
             step == [v \in (1 .. n) \X S |-> 256 * v[2]]
  <1>1. step \in [(1 .. n) \X S -> S] /\ \A k \in 1 .. n, x \in S : step[<<k, x>>] = 256 * x
    OBVIOUS
  <1>2. 1 \in S
    OBVIOUS
  <1> HIDE DEF step
  <1>3. PICK h \in [0 .. n -> S] : h[0] = 1 /\ \A k \in 1 .. n : h[k] = step[<<k, h[k - 1]>>]
    <2>1. PICK next \in [(1 .. n) \X S -> S] : next = step
      BY <1>1
    <2> HIDE DEF S
    <2>2. PICK f : Recurses(f, n, S, 1, next)
      BY <1>2, Recursion
    <2> QED
      BY <2>1, <2>2 DEF Recurses
  <1>4. \A k \in 1 .. n : h[k] = 256 * h[k - 1]
    <2>1. \A k \in 1 .. n : k - 1 \in 0 .. n
      OBVIOUS
    <2>2. ASSUME NEW k \in 1 .. n PROVE h[k] = 256 * h[k - 1]
      <3>1. PICK x \in S : x = h[k - 1]
        BY <2>1
      <3>2. h[k] = step[<<k, x>>]
        BY <1>3, <3>1
      <3> HIDE DEF S
      <3> QED
        BY <1>1, <3>1, <3>2
    <2> QED
      BY <2>2
  <1>5. WidthBy(h, n)
    <2>1. h = [k \in 0 .. n |-> h[k]]
      BY <1>3
    <2>2. \A k \in 0 .. n : h[k] = IF k = 0 THEN 1 ELSE 256 * h[k - 1]
      <3>1. \A k \in 0 .. n : k = 0 \/ k \in 1 .. n
        OBVIOUS
      <3> QED
        BY <3>1, <1>3, <1>4
    <2> QED
      BY <2>1, <2>2, Zenon DEF WidthBy
  <1>6. WidthBy(WidthFun(n), n)
    BY <1>5, Zenon DEF WidthFun
  <1>7. Width(n) = WidthFun(n)[n]
    BY Zenon DEF Width, WidthFun, WidthBy
  <1>8. PICK g : g = WidthFun(n)
    OBVIOUS
  <1>9. /\ g[0] = 1
        /\ \A k \in 1 .. n : g[k] = 256 * g[k - 1]
        /\ g = [k \in 0 .. n |-> g[k]]
    <2>1. g = [k \in 0 .. n |-> IF k = 0 THEN 1 ELSE 256 * g[k - 1]]
      BY <1>6, <1>8, Zenon DEF WidthBy
    <2>2. \A k \in 0 .. n : g[k] = IF k = 0 THEN 1 ELSE 256 * g[k - 1]
      BY <2>1, Zenon
    <2>3. g = [k \in 0 .. n |-> g[k]]
      BY <2>1, Zenon
    <2>4. 0 \in 0 .. n /\ \A k \in 1 .. n : k \in 0 .. n /\ k # 0
      OBVIOUS
    <2> QED
      BY <2>2, <2>3, <2>4
  <1>10. \A k \in 0 .. n : g[k] \in S
    <2> DEFINE P == {k \in 0 .. n : g[k] \in S}
    <2>1. 0 \in P
      BY <1>9
    <2>2. ASSUME NEW k \in 1 .. n, k - 1 \in P PROVE k \in P
      <3>1. PICK x \in S : x = g[k - 1]
        BY <2>2
      <3>2. g[k] = 256 * x /\ k \in 0 .. n
        BY <1>9, <3>1
      <3> QED
        BY <3>2
    <2> HIDE DEF P
    <2>3. \A k \in 0 .. n : k \in P
      BY <2>1, <2>2, UpTo
    <2> QED
      BY <2>3 DEF P
  <1> QED
    BY <1>7, <1>8, <1>9, <1>10 DEF WidthUpTo

\* One byte more
LEMMA Wider ==
    ASSUME NEW n \in Nat
    PROVE  /\ Width(n) \in Nat \ {0} /\ Width(n + 1) = 256 * Width(n)
           /\ Width(0) = 1
  <1>1. ASSUME NEW i \in Nat PROVE Width(i) \in Nat \ {0} /\ (i = 0 => Width(i) = 1)
    <2>1. i \in 0 .. i
      OBVIOUS
    <2> QED
      BY <2>1, WidthIs DEF WidthUpTo
  <1>2. PICK g : WidthUpTo(g, n) /\ Width(n) = g[n]
    BY WidthIs
  <1>3. PICK m \in Nat : m = n + 1
    OBVIOUS
  <1>4. PICK h : WidthUpTo(h, m) /\ Width(m) = h[m]
    BY WidthIs
  <1>5. h[n] = g[n]
    <2> DEFINE P == {k \in 0 .. n : h[k] = g[k]}
    <2>1. 0 \in P
      BY <1>2, <1>4 DEF WidthUpTo
    <2>2. ASSUME NEW k \in 1 .. n, k - 1 \in P PROVE k \in P
      <3>1. k \in 1 .. m
        BY <1>3
      <3> QED
        BY <1>2, <1>4, <2>2, <3>1 DEF WidthUpTo
    <2> HIDE DEF P
    <2>3. \A k \in 0 .. n : k \in P
      BY <2>1, <2>2, UpTo
    <2>4. n \in 0 .. n
      OBVIOUS
    <2> QED
      BY <2>3, <2>4 DEF P
  <1>6. h[m] = 256 * h[m - 1] /\ m - 1 = n
    <2>1. m \in 1 .. m /\ m - 1 = n
      BY <1>3
    <2> QED
      BY <1>4, <2>1 DEF WidthUpTo
  <1> QED
    BY <1>1, <1>2, <1>3, <1>4, <1>5, <1>6

LEMMA LowByte ==
    \A b \in 0 .. 255, w \in Int : (b + 256 * w) % 256 = b /\ (b + 256 * w) \div 256 = w
  OBVIOUS

LEMMA ShiftedOn ==
    \A x \in Int, d \in Nat \ {0} : (x \div d) \div 256 = x \div (256 * d)
  <1>1. ASSUME NEW x \in Int, NEW d \in Nat \ {0}
        PROVE  (x \div d) \div 256 = x \div (d * 256)
    BY SMT
  <1>2. ASSUME NEW x \in Int, NEW d \in Nat \ {0}
        PROVE  (x \div d) \div 256 = x \div (256 * d)
    <2>1. d * 256 = 256 * d
      OBVIOUS
    <2>2. (x \div d) \div 256 = x \div (d * 256)
      BY <1>1
    <2> QED
      BY <2>1, <2>2
  <1> QED
    BY <1>2

LEMMA Shifted ==
    ASSUME NEW x \in Int, NEW d \in Nat \ {0}
    PROVE  x \div d \in Int /\ (x \div d) % 256 \in 0 .. 255 /\ x \div 1 = x
  <1>1. x \div d \in Int
    OBVIOUS
  <1>2. x \div 1 = x
    OBVIOUS
  <1>3. (x \div d) % 256 \in 0 .. 255
    BY <1>1
  <1> QED
    BY <1>1, <1>2, <1>3

\* What is left of v when i bytes are shifted out, and the next byte
Rest(v, i) == v \div Width(i)
Digit(v, i) == Rest(v, i) % 256

Byte == 0 .. 255

\* A number is its lowest byte and the rest.
Parts(x, b, w) == b \in Byte /\ w \in Int /\ x = b + 256 * w

LEMMA NextByte ==
    ASSUME NEW v \in Int, NEW i \in Nat, NEW b, NEW w, Parts(Rest(v, i), b, w)
    PROVE  Digit(v, i) = b /\ Rest(v, i + 1) = w
  <1>0. b \in 0 .. 255 /\ w \in Int /\ Rest(v, i) = b + 256 * w
    BY DEF Parts, Byte
  <1>1. PICK d \in Nat \ {0} : d = Width(i) /\ 256 * d = Width(i + 1)
    BY Wider
  <1>2. PICK q \in Int : q = v \div d /\ q = b + 256 * w
    BY <1>0, <1>1, Shifted DEF Rest
  <1>3. q % 256 = b /\ q \div 256 = w
    <2>1. (b + 256 * w) % 256 = b /\ (b + 256 * w) \div 256 = w
      BY <1>0, LowByte
    <2> QED
      BY <1>2, <2>1
  <1>4. (v \div d) \div 256 = v \div (256 * d)
    BY ShiftedOn
  <1>5. Rest(v, i + 1) = w
    BY <1>1, <1>2, <1>3, <1>4, Zenon DEF Rest
  <1>6. Digit(v, i) = b
    BY <1>1, <1>2, <1>3, Zenon DEF Rest, Digit
  <1> QED
    BY <1>5, <1>6

LEMMA ByteTypes ==
    ASSUME NEW v \in Int, NEW i \in Nat
    PROVE  Rest(v, i) \in Int /\ Digit(v, i) \in 0 .. 255 /\ Rest(v, 0) = v
  <1>1. PICK d \in Nat \ {0} : d = Width(i)
    BY Wider
  <1>2. v \div d \in Int /\ (v \div d) % 256 \in 0 .. 255
    BY Shifted, Zenon
  <1>3. v \div 1 = v /\ 0 \in Nat
    OBVIOUS
  <1>4. Width(0) = 1
    BY <1>3, Wider, Zenon
  <1> QED
    BY <1>1, <1>2, <1>3, <1>4, Zenon DEF Rest, Digit

\* A number is its four lowest bytes and the rest.
FourParts(x, b, c, d, e, w) ==
    /\ b \in Byte /\ c \in Byte /\ d \in Byte /\ e \in Byte /\ w \in Int
    /\ x = b + 256 * c + 65536 * (d + 256 * e) + 65536 * (65536 * w)

LEMMA FourPartsOf ==
    ASSUME NEW p, NEW b, NEW c, NEW d, NEW e, NEW w, FourParts(p, b, c, d, e, w)
    PROVE  \E x, y, z : Parts(p, b, x) /\ Parts(x, c, y) /\ Parts(y, d, z) /\ Parts(z, e, w)
  <1>1. /\ b \in Int /\ c \in Int /\ d \in Int /\ e \in Int /\ w \in Int
        /\ p = b + 256 * c + 65536 * (d + 256 * e) + 65536 * (65536 * w)
    BY DEF FourParts, Byte
  <1>2. PICK z \in Int : z = e + 256 * w
    BY <1>1
  <1>3. PICK y \in Int : y = d + 256 * z
    BY <1>1
  <1>4. PICK x \in Int : x = c + 256 * y
    BY <1>1
  <1>5. p = b + 256 * x
    BY <1>1, <1>2, <1>3, <1>4
  <1>6. b \in Byte /\ c \in Byte /\ d \in Byte /\ e \in Byte
    BY DEF FourParts
  <1>7. Parts(p, b, x) /\ Parts(x, c, y) /\ Parts(y, d, z) /\ Parts(z, e, w)
    BY <1>1, <1>2, <1>3, <1>4, <1>5, <1>6 DEF Parts
  <1> QED
    BY <1>7

LEMMA FourBytes ==
    ASSUME NEW v \in Int, NEW i \in Nat, NEW b, NEW c, NEW d, NEW e, NEW w,
           FourParts(Rest(v, i), b, c, d, e, w)
    PROVE  /\ Digit(v, i) = b /\ Digit(v, i + 1) = c /\ Digit(v, i + 2) = d /\ Digit(v, i + 3) = e
           /\ Rest(v, i + 4) = w
  <1>0. PICK x, y, z :
           Parts(Rest(v, i), b, x) /\ Parts(x, c, y) /\ Parts(y, d, z) /\ Parts(z, e, w)
    BY FourPartsOf
  <1>1. PICK j \in Nat : j = i + 1
    OBVIOUS
  <1>2. PICK k \in Nat : k = i + 2 /\ k = j + 1
    BY <1>1
  <1>3. PICK l \in Nat : l = i + 3 /\ l = k + 1 /\ i + 4 = l + 1
    BY <1>2
  <1>4. Digit(v, i) = b /\ Rest(v, j) = x
    BY <1>0, <1>1, NextByte, Zenon
  <1>5. Digit(v, j) = c /\ Rest(v, k) = y
    BY <1>0, <1>2, <1>4, NextByte, Zenon
  <1>6. Digit(v, k) = d /\ Rest(v, l) = z
    BY <1>0, <1>3, <1>5, NextByte, Zenon
  <1>7. Digit(v, l) = e /\ Rest(v, l + 1) = w
    BY <1>0, <1>6, NextByte, Zenon
  <1> QED
    BY <1>1, <1>2, <1>3, <1>4, <1>5, <1>6, <1>7

LEMMA Widths ==
    /\ Width(1) = 256 /\ Width(2) = 65536 /\ Width(4) = 65536 * 65536
    /\ Width(8) = 65536 * (65536 * Width(4))
  <1>1. \A n \in Nat : Width(n) \in Nat /\ Width(n + 1) = 256 * Width(n) /\ Width(0) = 1
    BY Wider
  <1>2. Width(1) = 256
    <2>1. 0 \in Nat /\ 0 + 1 = 1
      OBVIOUS
    <2> QED
      BY <1>1, <2>1
  <1>3. Width(2) = 65536
    <2>1. 1 \in Nat /\ 1 + 1 = 2
      OBVIOUS
    <2> QED
      BY <1>1, <1>2, <2>1
  <1>4. ASSUME NEW n \in Nat PROVE Width(n + 2) = 65536 * Width(n)
    <2>1. PICK j \in Nat : j = n + 1 /\ j + 1 = n + 2
      OBVIOUS
    <2>2. PICK x \in Nat : x = Width(n)
      BY <1>1
    <2>3. Width(j) = 256 * x /\ Width(j + 1) = 256 * Width(j)
      BY <1>1, <2>1, <2>2
    <2>4. Width(n + 2) = 256 * (256 * x)
      BY <2>1, <2>3
    <2> QED
      BY <2>2, <2>4
  <1>5. Width(4) = 65536 * 65536
    <2>1. 2 \in Nat /\ 2 + 2 = 4
      OBVIOUS
    <2> QED
      BY <1>3, <1>4, <2>1
  <1>6. Width(6) = 65536 * Width(4) /\ Width(8) = 65536 * Width(6)
    <2>1. 4 \in Nat /\ 4 + 2 = 6 /\ 6 \in Nat /\ 6 + 2 = 8
      OBVIOUS
    <2> QED
      BY <1>4, <2>1
  <1> QED
    BY <1>2, <1>3, <1>5, <1>6

\* The bytes of a number that was loaded, as a signed one (t = -1) or not
LEMMA LoadedBytes ==
    ASSUME NEW m, NEW a \in Nat, NEW n \in {1, 2, 4, 8}, NEW t \in {-1, 0},
           \A i \in 0 .. n - 1 : m[a + i] \in Byte
    PROVE  LET v == LoadUnsigned(m, a, n) + t * Width(n)
           IN  v \in Int /\ \A i \in 0 .. n - 1 : Digit(v, i) = m[a + i]
  <1>1. PICK v : v = LoadUnsigned(m, a, n) + t * Width(n)
    OBVIOUS
  <1> SUFFICES v \in Int /\ \A i \in 0 .. n - 1 : Digit(v, i) = m[a + i]
    BY <1>1, Zenon
  <1>2. PICK o \in Nat : o = 0
    OBVIOUS
  <1>3. t \in Int /\ a + 0 = a
    OBVIOUS
  <1>4. \A b \in Byte : b \in Int
    BY DEF Byte
  <1>5. CASE n = 1
    <2>0. 0 \in 0 .. n - 1 /\ \A i \in 0 .. n - 1 : i = 0
      BY <1>5
    <2>1. PICK b \in Byte : b = m[a]
      BY <1>3, <2>0
    <2>2. LoadUnsigned(m, a, n) = b
      BY <1>5, <2>1 DEF LoadUnsigned, Load1
    <2>3. v \in Int /\ v = b + 256 * t
      <3>1. t * Width(n) = 256 * t /\ b \in Int
        BY <1>3, <1>4, <1>5, Widths
      <3> QED
        BY <1>1, <1>3, <2>2, <3>1
    <2>4. Rest(v, o) = v
      BY <1>2, <2>3, ByteTypes
    <2>5. Parts(Rest(v, o), b, t)
      BY <1>3, <2>3, <2>4 DEF Parts
    <2>6. v \in Int
      BY <2>3
    <2>7. Digit(v, o) = b
      BY <2>5, <2>6, NextByte, ZenonT(20)
    <2> QED
      BY <1>2, <1>3, <2>0, <2>1, <2>6, <2>7
  <1>6. CASE n = 2
    <2>0. 0 \in 0 .. n - 1 /\ 1 \in 0 .. n - 1 /\ \A i \in 0 .. n - 1 : i = 0 \/ i = 1
      BY <1>6
    <2>1. PICK b \in Byte, c \in Byte : b = m[a] /\ c = m[a + 1]
      BY <1>3, <2>0
    <2>2. LoadUnsigned(m, a, n) = b + 256 * c
      BY <1>6, <2>1 DEF LoadUnsigned, Load1, Load2
    <2>3. PICK x \in Int : x = c + 256 * t
      BY <1>3, <1>4
    <2>4. v \in Int /\ v = b + 256 * x
      <3>1. t * Width(n) = 65536 * t /\ b \in Int /\ c \in Int
        BY <1>3, <1>4, <1>6, Widths
      <3> QED
        BY <1>1, <1>3, <2>2, <2>3, <3>1
    <2>5. Rest(v, o) = v
      BY <1>2, <2>4, ByteTypes
    <2>6. Parts(Rest(v, o), b, x) /\ Parts(x, c, t)
      BY <1>3, <2>3, <2>4, <2>5 DEF Parts
    <2>7. PICK j \in Nat : j = o + 1 /\ j = 1
      BY <1>2
    <2>8. v \in Int /\ j = o + 1
      BY <2>4, <2>7
    <2>9. Digit(v, o) = b /\ Rest(v, j) = x
      BY <2>6, <2>8, NextByte, ZenonT(20)
    <2>10. Digit(v, j) = c
      BY <2>6, <2>8, <2>9, NextByte, ZenonT(20)
    <2> QED
      BY <1>2, <1>3, <2>0, <2>1, <2>7, <2>8, <2>9, <2>10
  <1>7. CASE n = 4
    <2>0. /\ 0 \in 0 .. n - 1 /\ 1 \in 0 .. n - 1 /\ 2 \in 0 .. n - 1 /\ 3 \in 0 .. n - 1
          /\ \A i \in 0 .. n - 1 : i = 0 \/ i = 1 \/ i = 2 \/ i = 3
      BY <1>7
    <2>1. PICK b \in Byte, c \in Byte, d \in Byte, e \in Byte :
             b = m[a] /\ c = m[a + 1] /\ d = m[a + 2] /\ e = m[a + 3]
      BY <1>3, <2>0
    <2>2. b \in Int /\ c \in Int /\ d \in Int /\ e \in Int
      BY <1>4
    <2>3. LoadUnsigned(m, a, n) = b + 256 * c + 65536 * (d + 256 * e)
      <3>1. a + 2 + 1 = a + 3
        OBVIOUS
      <3> QED
        BY <1>7, <2>1, <3>1 DEF LoadUnsigned, Load1, Load2, Load4
    <2>4. t * Width(n) = 65536 * (65536 * t)
      BY <1>3, <1>7, Widths
    <2>5. v \in Int /\ v = b + 256 * c + 65536 * (d + 256 * e) + 65536 * (65536 * t)
      BY <1>1, <1>3, <2>2, <2>3, <2>4
    <2>6. Rest(v, o) = v
      BY <1>2, <2>5, ByteTypes
    <2>7. FourParts(Rest(v, o), b, c, d, e, t)
      BY <1>3, <2>5, <2>6 DEF FourParts
    <2>8. v \in Int
      BY <2>5
    <2>9. /\ Digit(v, o) = b /\ Digit(v, o + 1) = c /\ Digit(v, o + 2) = d
          /\ Digit(v, o + 3) = e
      BY <2>7, <2>8, FourBytes, ZenonT(20)
    <2> QED
      BY <1>2, <1>3, <2>0, <2>1, <2>8, <2>9
  <1>8. CASE n = 8
    <2>1. /\ \A i \in {0, 1, 2, 3, 4, 5, 6, 7} : i \in 0 .. n - 1
          /\ \A i \in 0 .. n - 1 : i \in {0, 1, 2, 3, 4, 5, 6, 7}
      BY <1>8
    <2>2. PICK b \in Byte, c \in Byte, d \in Byte, e \in Byte :
             b = m[a] /\ c = m[a + 1] /\ d = m[a + 2] /\ e = m[a + 3]
      BY <1>3, <2>1
    <2>3. PICK p \in Byte, q \in Byte, r \in Byte, s \in Byte :
             p = m[a + 4] /\ q = m[a + 5] /\ r = m[a + 6] /\ s = m[a + 7]
      BY <2>1
    <2>4. PICK low \in Int, high \in Int :
             /\ low = b + 256 * c + 65536 * (d + 256 * e)
             /\ high = p + 256 * q + 65536 * (r + 256 * s)
      BY <1>4
    <2>5. LoadUnsigned(m, a, n) = low + 65536 * (65536 * high)
      <3>1. a + 2 + 1 = a + 3 /\ a + 4 + 1 = a + 5 /\ a + 4 + 2 = a + 6 /\ a + 6 + 1 = a + 7
        OBVIOUS
      <3>2. Load4(m, a) = low
        BY <2>2, <2>4, <3>1 DEF Load1, Load2, Load4
      <3>3. Load4(m, a + 4) = high
        BY <2>3, <2>4, <3>1 DEF Load1, Load2, Load4
      <3> QED
        BY <1>8, <3>2, <3>3 DEF LoadUnsigned, Load8
    <2>6. PICK w \in Int : w = high + 65536 * (65536 * t)
      BY <1>3
    <2>7. t * Width(n) = 65536 * (65536 * (65536 * (65536 * t)))
      BY <1>3, <1>8, Widths
    <2>8. v \in Int /\ v = low + 65536 * (65536 * w)
      BY <1>1, <1>3, <2>5, <2>6, <2>7
    <2>9. Rest(v, o) = v
      BY <1>2, <2>8, ByteTypes
    <2>10. FourParts(Rest(v, o), b, c, d, e, w)
      BY <2>4, <2>8, <2>9 DEF FourParts
    <2>11. v \in Int
      BY <2>8
    <2>12. /\ Digit(v, o) = b /\ Digit(v, o + 1) = c /\ Digit(v, o + 2) = d
           /\ Digit(v, o + 3) = e /\ Rest(v, o + 4) = w
      BY <2>10, <2>11, FourBytes, ZenonT(20)
    <2>13. PICK f \in Nat : f = 4 /\ f = o + 4
      BY <1>2
    <2>14. FourParts(Rest(v, f), p, q, r, s, t)
      BY <1>3, <2>4, <2>6, <2>12, <2>13 DEF FourParts
    <2>15. /\ Digit(v, f) = p /\ Digit(v, f + 1) = q /\ Digit(v, f + 2) = r
           /\ Digit(v, f + 3) = s
      BY <2>11, <2>14, FourBytes, ZenonT(20)
    <2>16. \A i \in {0, 1, 2, 3} : Digit(v, i) = m[a + i]
      BY <1>2, <1>3, <2>2, <2>12
    <2>17. \A i \in {4, 5, 6, 7} : Digit(v, i) = m[a + i]
      <3>1. f + 1 = 5 /\ f + 2 = 6 /\ f + 3 = 7
        BY <2>13
      <3> QED
        BY <2>3, <2>13, <2>15, <3>1
    <2> QED
      BY <2>1, <2>11, <2>16, <2>17
  <1> QED
    BY <1>5, <1>6, <1>7, <1>8

-----------------------------------------------------------------------------
(* What is written back as it was read                                     *)

\* The memory is a map of cells.
CellMap(m) == m = [a \in Addr |-> m[a]]

LEMMA BytesAre ==
    ASSUME NEW v \in Int, NEW n \in Nat
    PROVE  /\ Bytes(v, n) \in [0 .. MaxCopy - 1 -> Byte]
           /\ \A i \in 0 .. MaxCopy - 1 : i < n => Bytes(v, n)[i] = Digit(v, i)
  <1>1. MaxCopy \in Nat
    BY AccessAssumption DEF AccessAssumption
  <1>2. 0 \in Byte
    BY DEF Byte
  <1>3. ASSUME NEW i \in 0 .. MaxCopy - 1 PROVE Digit(v, i) \in Byte
    <2>1. i \in Nat
      BY <1>1
    <2> QED
      BY <2>1, ByteTypes DEF Byte
  <1>4. Bytes(v, n) = [i \in 0 .. MaxCopy - 1 |-> IF i < n THEN Digit(v, i) ELSE 0]
    BY Zenon DEF Bytes, Digit, Rest
  <1> QED
    BY <1>2, <1>3, <1>4

LEMMA BytesAreNoNull ==
    ASSUME NEW src \in [0 .. MaxCopy - 1 -> Byte]
    PROVE  src # NoSrc /\ src \in Source
  <1>1. Byte \subseteq Cell
    BY DEF Byte, Cell
  <1>2. src \in [0 .. MaxCopy - 1 -> Cell]
    BY <1>1
  <1> QED
    BY <1>2, AccessAssumption DEF AccessAssumption, Source

\* The n cells of memory m from an address on are those of src.
Same(m, at, src, n) == \A i \in 0 .. n - 1 : src[i] = m[at + i]

LEMMA WriteBack ==
    ASSUME NEW m, CellMap(m), NEW at \in Nat, NEW n \in Nat, NEW src, Same(m, at, src, n)
    PROVE  CopyIn(m, at, src, n).mem = m
  <1>1. ASSUME NEW a \in Addr, a \in Span(at, n) PROVE src[a - at] = m[a]
    <2>1. a \in Nat
      BY LayoutAssumption DEF LayoutAssumption, Addr
    <2>2. a - at \in 0 .. n - 1 /\ at + (a - at) = a
      BY <1>1, <2>1 DEF Span
    <2> QED
      BY <2>2 DEF Same
  <1>2. CopyIn(m, at, src, n).mem =
            [a \in Addr |-> IF a \in Span(at, n) THEN src[a - at] ELSE m[a]]
    BY DEF CopyIn
  <1>3. \A a \in Addr : (IF a \in Span(at, n) THEN src[a - at] ELSE m[a]) = m[a]
    BY <1>1
  <1>4. CopyIn(m, at, src, n).mem = [a \in Addr |-> m[a]]
    BY <1>2, <1>3, Zenon
  <1> QED
    BY <1>4, Zenon DEF CellMap

LEMMA LoadedIsInt ==
    ASSUME NEW m, NEW a \in Nat, NEW n \in {1, 2, 4, 8},
           \A i \in 0 .. n - 1 : m[a + i] \in Byte
    PROVE  LoadUnsigned(m, a, n) \in Int
  <1>1. \A i \in 0 .. n - 1 : m[a + i] \in Int
    BY DEF Byte
  <1>2. a + 0 = a /\ a + 2 + 1 = a + 3
    OBVIOUS
  <1>3. CASE n \in {1, 2}
    <2>1. m[a] \in Int /\ (n = 2 => m[a + 1] \in Int)
      BY <1>1, <1>2, <1>3
    <2> QED
      BY <1>3, <2>1 DEF LoadUnsigned, Load1, Load2
  <1>4. CASE n \in {4, 8}
    <2>1. m[a] \in Int /\ m[a + 1] \in Int /\ m[a + 2] \in Int /\ m[a + 3] \in Int
      BY <1>1, <1>2, <1>4
    <2>2. Load4(m, a) \in Int
      BY <1>2, <2>1 DEF Load1, Load2, Load4
    <2>3. CASE n = 4
      BY <2>2, <2>3 DEF LoadUnsigned
    <2>4. CASE n = 8
      <3>1. /\ m[a + 4] \in Int /\ m[a + 5] \in Int /\ m[a + 6] \in Int /\ m[a + 7] \in Int
            /\ a + 4 + 1 = a + 5 /\ a + 4 + 2 = a + 6 /\ a + 6 + 1 = a + 7
        BY <1>1, <2>4
      <3>2. Load4(m, a + 4) \in Int
        BY <3>1 DEF Load1, Load2, Load4
      <3> QED
        BY <2>2, <2>4, <3>2 DEF LoadUnsigned, Load8
    <2> QED
      BY <1>4, <2>3, <2>4
  <1> QED
    BY <1>3, <1>4

\* A number is in its bytes what it was read from.
LEMMA ReadBytes ==
    ASSUME NEW T, SizeOf[T] \in {1, 2, 4, 8}, NEW m, NEW a \in Nat,
           \A i \in 0 .. SizeOf[T] - 1 : m[a + i] \in Byte
    PROVE  /\ ReadAs(T, m, a) \in Int
           /\ \A i \in 0 .. SizeOf[T] - 1 : Digit(ReadAs(T, m, a), i) = m[a + i]
           /\ LoadUnsigned(m, a, SizeOf[T]) \in Int /\ Width(SizeOf[T]) \in Nat \ {0}
  <1>1. PICK n \in {1, 2, 4, 8} : n = SizeOf[T]
    OBVIOUS
  <1>2. PICK u : u = LoadUnsigned(m, a, n)
    OBVIOUS
  <1>3. \A t \in {-1, 0} : /\ u + t * Width(n) \in Int
                           /\ \A i \in 0 .. n - 1 : Digit(u + t * Width(n), i) = m[a + i]
    BY <1>1, <1>2, LoadedBytes
  <1>4. n \in Nat /\ Width(n) \in Nat \ {0}
    BY Wider
  <1>5. u \in Int
    BY <1>1, <1>2, LoadedIsInt
  <1>6. u + 0 * Width(n) = u /\ u + (-1) * Width(n) = u - Width(n)
    BY <1>4, <1>5
  <1>7. ReadAs(T, m, a) = u \/ ReadAs(T, m, a) = u - Width(n)
    BY <1>1, <1>2 DEF ReadAs
  <1>8. \A x \in {u, u - Width(n)} : x \in Int /\ \A i \in 0 .. n - 1 : Digit(x, i) = m[a + i]
    BY <1>3, <1>6
  <1> QED
    BY <1>1, <1>2, <1>4, <1>5, <1>7, <1>8

LEMMA MaxIn ==
    ASSUME NEW N \in Nat, NEW S \in SUBSET (0 .. N), S # {}
    PROVE  Max(S) \in S
  <1> DEFINE R == {k \in 0 .. N : N - k \in S}
  <1>1. R # {} /\ R \in SUBSET Nat
    <2>1. PICK x \in S : TRUE
      OBVIOUS
    <2>2. x \in 0 .. N /\ N - x \in 0 .. N /\ N - (N - x) = x
      OBVIOUS
    <2>3. N - x \in R
      BY <2>2
    <2>4. R \in SUBSET Nat
      OBVIOUS
    <2> HIDE DEF R
    <2> QED
      BY <2>3, <2>4
  <1>2. PICK k \in R : \A j \in R : k <= j
    BY <1>1, LeastNat
  <1>3. PICK n \in S : n = N - k
    OBVIOUS
  <1>4. ASSUME NEW y \in S PROVE y <= n
    <2>1. y \in 0 .. N /\ N - y \in 0 .. N /\ N - (N - y) = y
      OBVIOUS
    <2>2. N - y \in R
      BY <2>1
    <2>3. k <= N - y /\ k \in 0 .. N
      BY <1>2, <2>2
    <2> QED
      BY <1>3, <2>1, <2>3
  <1>5. S \in SUBSET Int
    OBVIOUS
  <1> QED
    BY <1>3, <1>4, <1>5, MaxIs

LEMMA TextItems ==
    ASSUME NEW s \in Text
    PROVE  s \in Seq(Int) /\ Len(s) \in Nat /\ \A i \in 1 .. Len(s) : s[i] \in 1 .. 255
  <1> DEFINE C == 1 .. 255
  <1>1. s \in Seq(C) /\ C \subseteq Int
    BY DEF Text
  <1> HIDE DEF C
  <1>2. s \in Seq(Int) /\ Len(s) \in Nat /\ \A i \in 1 .. Len(s) : s[i] \in C
    BY <1>1, WiderItems
  <1> QED
    BY <1>2 DEF C

LEMMA PieceOf ==
    ASSUME NEW S, NEW s \in Seq(S), NEW k \in Nat, NEW n \in Nat, k + n <= Len(s)
    PROVE  SubSeq(s, k + 1, k + n) \in Seq(S)
  OBVIOUS

\* strtol returns a number.
LEMMA StrtolType ==
    ASSUME NEW s \in Text
    PROVE  Strtol(s).value \in Int
  <1>1. PICK t \in Seq(Int) : t = s
    BY TextItems
  <1>2. PICK k \in Nat : k = IF s # <<>> /\ s[1] = 45 THEN 1 ELSE 0
    OBVIOUS
  <1>3. PICK N \in Nat : N = Len(s) - k
    <2>1. Len(t) \in Nat /\ (k = 1 => Len(t) >= 1)
      BY <1>1, <1>2
    <2>2. Len(t) - k \in Nat
      BY <1>2, <2>1
    <2> QED
      BY <1>1, <2>2
  <1>4. PICK n \in Nat : n = Max(Digits(s, k)) /\ n <= N
    <2>1. Digits(s, k) \in SUBSET (0 .. N)
      BY <1>3 DEF Digits
    <2>2. 0 \in Digits(s, k)
      BY <1>3 DEF Digits
    <2>3. Max(Digits(s, k)) \in 0 .. N
      BY <2>1, <2>2, MaxIn
    <2> QED
      BY <2>3
  <1>5. PICK p \in Seq(Int) : p = SubSeq(s, k + 1, k + n)
    <2>1. Len(t) \in Nat /\ k + n <= Len(t)
      BY <1>1, <1>3, <1>4
    <2> QED
      BY <1>1, <2>1, PieceOf
  <1>6. Numeral(p) \in Int
    BY NumeralGrows
  <1>7. PICK x \in Int : x = Numeral(p)
    BY <1>6
  <1>8. Strtol(s).value = IF k = 1 THEN - x ELSE x
    BY <1>2, <1>4, <1>5, <1>7, Zenon DEF Strtol
  <1> QED
    BY <1>8

-----------------------------------------------------------------------------
(* The cells of texts keep bytes                                           *)

LEMMA TextViewTypes ==
    /\ TextViews \in SUBSET Views /\ \A v \in TextViews : Shows(v[2].type)
    /\ \A v \in Views : Shows(v[2].type) => v \in TextViews
    /\ \A m : BytesIn(m) <=> \A v \in TextViews : \A a \in Extent(v) : m[a] \in Byte
  BY DEF TextViews, BytesIn, Byte

LEMMA PlainCopyKeepsBytes ==
    ASSUME TextLayout, NEW m, BytesIn(m),
           NEW v \in Views, v[2].type \notin StructTypes,
           NEW src, NEW n \in Nat, n <= v[2].size,
           Shows(v[2].type) => \A i \in 0 .. n - 1 : src[i] \in Byte
    PROVE  BytesIn(CopyIn(m, FirstCell(v), src, n).mem)
  <1> DEFINE w == CopyIn(m, FirstCell(v), src, n).mem
  <1> SUFFICES ASSUME NEW u \in TextViews, NEW a \in Extent(u)
               PROVE  w[a] \in Byte
    BY TextViewTypes
  <1>1. m[a] \in Byte
    BY TextViewTypes
  <1>2. CASE w[a] = m[a]
    BY <1>1, <1>2
  <1>3. CASE w[a] # m[a]
    <2>1. LaidOut(TextViews)
      BY DEF TextLayout
    <2>2. u[2].type = v[2].type
      <3> HIDE DEF w
      <3> QED
        BY <1>3, <2>1, TextViewTypes, PlainCopy DEF w
    <2>3. \A i \in 0 .. n - 1 : src[i] \in Byte
      BY <2>2, TextViewTypes
    <2>4. a \in Addr /\ a \in Nat /\ FirstCell(v) \in Nat
      <3>1. a \in Addr /\ FirstCell(v) \in Nat
        BY TextViewTypes, ViewCells
      <3> QED
        BY <3>1, LayoutAssumption DEF LayoutAssumption, Addr
    <2>5. w[a] = IF a \in Span(FirstCell(v), n) THEN src[a - FirstCell(v)] ELSE m[a]
      BY <2>4, CopiedCell
    <2>6. a \in Span(FirstCell(v), n) => a - FirstCell(v) \in 0 .. n - 1
      BY <2>4 DEF Span
    <2> QED
      BY <1>1, <2>3, <2>5, <2>6
  <1> QED
    BY <1>2, <1>3

LEMMA StructCopyKeepsBytes ==
    ASSUME TextLayout, BytesIn(mem),
           NEW v \in Views, v[2].type \in StructTypes, v[2].type \in DOMAIN SizeOf,
           NEW src \in SourcesFor(v[2].type), SizeOf[v[2].type] <= v[2].size
    PROVE  BytesIn(CopyIn(mem, FirstCell(v), src, SizeOf[v[2].type]).mem)
  <1> DEFINE w == CopyIn(mem, FirstCell(v), src, SizeOf[v[2].type]).mem
  <1> SUFFICES ASSUME NEW u \in TextViews, NEW a \in Extent(u)
               PROVE  w[a] \in Byte
    BY TextViewTypes
  <1>1. u \in Views /\ mem[a] \in Byte
    BY TextViewTypes
  <1>2. /\ FirstCell(u) \in Nat /\ u[2].size \in Nat
        /\ Extent(u) = Span(FirstCell(u), u[2].size)
    BY <1>1, ViewCells
  <1>3. CASE \A b \in Extent(u) : w[b] = mem[b]
    BY <1>1, <1>3
  <1>4. CASE \E x \in TextViews :
               /\ x[2].type = u[2].type /\ x[2].size = u[2].size
               /\ \A i \in 0 .. u[2].size - 1 :
                     w[FirstCell(u) + i] = mem[FirstCell(x) + i]
    <2> HIDE DEF w
    <2>1. PICK x \in TextViews :
               /\ x[2].size = u[2].size
               /\ \A i \in 0 .. u[2].size - 1 :
                     w[FirstCell(u) + i] = mem[FirstCell(x) + i]
      BY <1>4
    <2>2. x \in Views /\ FirstCell(x) \in Nat /\ Extent(x) = Span(FirstCell(x), u[2].size)
      BY <2>1, TextViewTypes, ViewCells
    <2>3. PICK i \in 0 .. u[2].size - 1 : a = FirstCell(u) + i
      <3>1. a - FirstCell(u) \in 0 .. u[2].size - 1 /\ a = FirstCell(u) + (a - FirstCell(u))
        BY <1>2 DEF Span
      <3> QED
        BY <3>1
    <2>4. FirstCell(x) + i \in Extent(x)
      BY <1>2, <2>2 DEF Span
    <2> QED
      BY <2>1, <2>3, <2>4, TextViewTypes
  <1> QED
    <2>1. LaidOut(TextViews)
      BY DEF TextLayout
    <2> HIDE DEF w
    <2> QED
      BY <1>3, <1>4, <2>1, TextViewTypes, StructCopy DEF w

-----------------------------------------------------------------------------
(* Calls keep bytes                                                        *)

\* The memory a call leaves: a map of cells, those of texts bytes
Kept(m) == CellMap(m) /\ BytesIn(m)

LEMMA CopyIsMap ==
    ASSUME NEW m, NEW at, NEW src, NEW n
    PROVE  CellMap(CopyIn(m, at, src, n).mem)
  <1>1. PICK w : w = [a \in Addr |-> IF a \in Span(at, n) THEN src[a - at] ELSE m[a]]
    OBVIOUS
  <1>2. w = [a \in Addr |-> w[a]]
    BY <1>1, Zenon
  <1>3. CopyIn(m, at, src, n).mem = w
    BY <1>1 DEF CopyIn
  <1> QED
    BY <1>2, <1>3, Zenon DEF CellMap

LEMMA RefusedKeepsBytes ==
    ASSUME NEW m, Kept(m), NEW e
    PROVE  Kept(Err(m, e).mem)
  BY DEF Err

LEMMA SetFieldKeepsBytes ==
    ASSUME TextLayout, Kept(mem), NEW h \in Handles, NEW T \in DOMAIN SizeOf, NEW src,
           T \in StructTypes => src \in SourcesFor(T),
           Shows(T) /\ SizeOf[T] <= MaxCopy => \A i \in 0 .. SizeOf[T] - 1 : src[i] \in Byte
    PROVE  Kept(set_field(T, mem, h[1], h[3], src).mem)
  <1> DEFINE o == set_field(T, mem, h[1], h[3], src)
             v == <<<<h[1], h[2]>>, h[3]>>
  <1>1. CASE \E e : o = Err(mem, e)
    BY <1>1, RefusedKeepsBytes
  <1>2. CASE ~\E e : o = Err(mem, e)
    <2>1. /\ h[1] # NULL /\ h[3] # NoField /\ h[3].type = T
          /\ SizeOf[T] <= h[3].size \/ ~(SizeOf[T] > h[3].size)
          /\ o = CopyIn(mem, h[1] + h[3].offset, src, SizeOf[T])
      BY <1>2 DEF set_field, set_field_value
    <2>2. v \in Views /\ v[2] = h[3] /\ FirstCell(v) = h[1] + h[3].offset
      BY <2>1, HandleView DEF FirstCell
    <2>3. SizeOf[T] \in Nat /\ v[2].size \in Nat /\ SizeOf[T] <= v[2].size
      BY <2>1, <2>2, SizeTypes, ViewTypes
    <2>4. SizeOf[T] <= MaxCopy
      <3>1. v[2].size <= MaxCopy /\ MaxCopy \in Nat
        BY <2>2, ViewTypes, AccessAssumption DEF AccessAssumption
      <3> HIDE DEF v
      <3> QED
        BY <2>3, <3>1
    <2> HIDE DEF v
    <2>5. BytesIn(mem)
      BY DEF Kept
    <2>6. CASE T \in StructTypes
      <3>1. BytesIn(o.mem)
        BY <2>1, <2>2, <2>3, <2>5, <2>6, StructCopyKeepsBytes
      <3> QED
        BY <2>1, <3>1, CopyIsMap DEF Kept
    <2>7. CASE T \notin StructTypes
      <3>1. BytesIn(o.mem)
        BY <2>1, <2>2, <2>3, <2>4, <2>5, <2>7, PlainCopyKeepsBytes
      <3> QED
        BY <2>1, <3>1, CopyIsMap DEF Kept
    <2> QED
      BY <2>6, <2>7
  <1> QED
    BY <1>1, <1>2

LEMMA TerminatedType ==
    ASSUME NEW s \in Text
    PROVE  /\ Terminated(s) \in [0 .. MaxCopy - 1 -> Byte]
           /\ \A i \in 0 .. MaxCopy - 1 :
                 Terminated(s)[i] = IF i < Len(s) THEN s[i + 1] ELSE 0
  <1>1. MaxCopy \in Nat
    BY AccessAssumption DEF AccessAssumption
  <1>2. 0 \in Byte /\ \A c \in 1 .. 255 : c \in Byte
    BY DEF Byte
  <1>3. ASSUME NEW i \in 0 .. MaxCopy - 1, i < Len(s) PROVE s[i + 1] \in Byte
    <2>1. i + 1 \in 1 .. Len(s)
      BY <1>1, <1>3, TextItems
    <2> QED
      BY <1>2, <2>1, TextItems
  <1>4. Terminated(s) = [i \in 0 .. MaxCopy - 1 |-> IF i < Len(s) THEN s[i + 1] ELSE 0]
    BY DEF Terminated
  <1>5. \A i \in 0 .. MaxCopy - 1 : (IF i < Len(s) THEN s[i + 1] ELSE 0) \in Byte
    BY <1>2, <1>3
  <1> HIDE DEF Byte
  <1> QED
    BY <1>4, <1>5, Zenon

LEMMA SetCharArrKeepsBytes ==
    ASSUME TextLayout, Kept(mem), NEW h \in Handles, NEW s \in Text
    PROVE  Kept(set_char_arr_from_str(mem, h[1], h[3], s).mem)
  <1> DEFINE o == set_char_arr_from_str(mem, h[1], h[3], s)
             v == <<<<h[1], h[2]>>, h[3]>>
             k == (Len(s) + 1) * SizeOf[ElemType["char_arr"]]
  <1>1. CASE \E e : o = Err(mem, e)
    BY <1>1, RefusedKeepsBytes
  <1>2. CASE ~\E e : o = Err(mem, e)
    <2>1. /\ h[1] # NULL /\ h[3] # NoField /\ h[3].type = "char_arr"
          /\ ~(k > h[3].size)
          /\ o = CopyIn(mem, h[1] + h[3].offset, Terminated(s), k)
      BY <1>2 DEF set_char_arr_from_str, set_field_arr, set_field_value
    <2>2. v \in Views /\ v[2] = h[3] /\ FirstCell(v) = h[1] + h[3].offset
      BY <2>1, HandleView DEF FirstCell
    <2>3. v[2].size \in Nat /\ v[2].size <= MaxCopy /\ MaxCopy \in Nat
      BY <2>2, ViewTypes, AccessAssumption DEF AccessAssumption
    <2>4. k \in Nat /\ k = Len(s) + 1
      BY TextItems DEF TextLayout
    <2> HIDE DEF v, k
    <2>5. k <= v[2].size /\ k <= MaxCopy
      BY <2>1, <2>2, <2>3, <2>4
    <2>6. \A i \in 0 .. k - 1 : Terminated(s)[i] \in Byte
      <3>1. \A i \in 0 .. k - 1 : i \in 0 .. MaxCopy - 1
        BY <2>3, <2>4, <2>5
      <3> QED
        BY <3>1, TerminatedType
    <2>7. v[2].type \notin StructTypes
      BY <2>1, <2>2 DEF TextLayout, StringLayout, LaidOut, ArrayTypes
    <2>8. BytesIn(CopyIn(mem, FirstCell(v), Terminated(s), k).mem)
      BY <2>2, <2>4, <2>5, <2>6, <2>7, PlainCopyKeepsBytes DEF Kept
    <2> QED
      BY <2>1, <2>2, <2>8, CopyIsMap DEF Kept
  <1> QED
    BY <1>1, <1>2

\* What is narrowed for a member is bytes.
LEMMA NarrowIsBytes ==
    ASSUME NEW x \in Int, NEW k \in Nat, NEW n \in Nat, n <= MaxCopy
    PROVE  \A i \in 0 .. n - 1 : Bytes(x, k)[i] \in Byte
  <1>1. MaxCopy \in Nat
    BY AccessAssumption DEF AccessAssumption
  <1>2. \A i \in 0 .. n - 1 : i \in 0 .. MaxCopy - 1
    BY <1>1
  <1> QED
    BY <1>2, BytesAre

LEMMA SetNumberKeepsBytes ==
    ASSUME TextLayout, Kept(mem), NEW h \in Handles, NEW T \in DOMAIN SizeOf, Shows(T),
           T \notin StructTypes, NEW x \in Int, NEW k \in Nat
    PROVE  Kept(set_field(T, mem, h[1], h[3], Bytes(x, k)).mem)
  <1>1. SizeOf[T] \in Nat
    BY SizeTypes
  <1>2. SizeOf[T] <= MaxCopy => \A i \in 0 .. SizeOf[T] - 1 : Bytes(x, k)[i] \in Byte
    BY <1>1, NarrowIsBytes
  <1> QED
    BY <1>2, SetFieldKeepsBytes

LEMMA EnumIndices ==
    ASSUME NEW T \in DOMAIN Enums
    PROVE  DOMAIN Enums[T] \in SUBSET Nat
  <1>1. \A S, q : q \in Seq(S) => DOMAIN q \in SUBSET Nat
    OBVIOUS
  <1>2. Enums[T] \in Seq(Range(Enums[T]))
    BY FormatAssumption DEF FormatAssumption
  <1> QED
    BY <1>1, <1>2, Zenon

LEMMA EnumValues ==
    ASSUME NEW T \in DOMAIN Enums, NEW i \in DOMAIN Enums[T]
    PROVE  Enums[T][i] \in Range(Enums[T]) /\ Enums[T][i].value \in Int
  <1>1. Enums[T][i] \in Range(Enums[T])
    BY DEF Range
  <1>2. Enums[T][i].value \in Cell
    BY <1>1, FormatAssumption DEF FormatAssumption
  <1> QED
    BY <1>1, <1>2 DEF Cell

LEMMA SetFromStrKeepsBytes ==
    ASSUME TextLayout, Kept(mem), NEW h \in Handles, NEW s \in Text \cup {NoText}
    PROVE  Kept(set_field_from_str(mem, h[1], h[3], s).mem)
  <1> DEFINE o == set_field_from_str(mem, h[1], h[3], s)
             T == h[3].type
             Narrowed == \E x \in Int, k \in Nat : o = set_field(T, mem, h[1], h[3], Bytes(x, k))
  <1>1. CASE \E e : o = Err(mem, e)
    BY <1>1, RefusedKeepsBytes
  <1>2. CASE ~\E e : o = Err(mem, e)
    <2>1. /\ Shows(T) /\ s # NoText
          /\ o = CASE T \in DOMAIN Enums -> set_enum_from_str(T, mem, h[1], h[3], s)
                   [] T = "bool" -> set_bool_from_str(mem, h[1], h[3], s)
                   [] T = "char_arr" -> set_char_arr_from_str(mem, h[1], h[3], s)
                   [] OTHER -> set_number_from_str(T, mem, h[1], h[3], s)
      BY <1>2 DEF set_field_from_str
    <2>2. s \in Text /\ StringLayout
      BY <2>1 DEF TextLayout
    <2>3. CASE T = "char_arr"
      <3>1. T \notin DOMAIN Enums /\ T # "bool"
        BY <2>2, <2>3, FormatAssumption DEF FormatAssumption, StringLayout, ArrayTypes
      <3>2. o = set_char_arr_from_str(mem, h[1], h[3], s)
        BY <2>1, <2>3, <3>1
      <3> QED
        BY <2>2, <3>2, SetCharArrKeepsBytes
    <2>4. CASE T # "char_arr"
      <3>1. T \in DOMAIN SizeOf /\ T \notin StructTypes /\ SizeOf[T] \in Nat
        BY <2>1, <2>2, <2>4, ShownTypes, SizeTypes
      <3>2. ASSUME Narrowed PROVE Kept(o.mem)
        <4>1. PICK x \in Int, k \in Nat : o = set_field(T, mem, h[1], h[3], Bytes(x, k))
          BY <3>2
        <4>2. Kept(set_field(T, mem, h[1], h[3], Bytes(x, k)).mem)
          BY <2>1, <3>1, SetNumberKeepsBytes
        <4> QED
          BY <4>1, <4>2
      <3>3. CASE o = set_number_from_str(T, mem, h[1], h[3], s)
        <4>1. Strtol(s).value \in Int
          BY <2>2, StrtolType
        <4>2. o = set_field(T, mem, h[1], h[3], Bytes(Strtol(s).value, SizeOf[T]))
          BY <1>2, <3>3 DEF set_number_from_str
        <4>3. Narrowed
          BY <3>1, <4>1, <4>2
        <4> QED
          BY <3>2, <4>3
      <3>4. CASE T = "bool" /\ o = set_bool_from_str(mem, h[1], h[3], s)
        <4>1. PICK x \in Int : x = IF s \in {TRUE_, ONE} THEN 1 ELSE 0
          OBVIOUS
        <4>2. o = set_field(T, mem, h[1], h[3], Bytes(x, 1))
          BY <3>4, <4>1 DEF set_bool_from_str
        <4>3. Narrowed
          BY <4>2
        <4> QED
          BY <3>2, <4>3
      <3>5. CASE T \in DOMAIN Enums /\ o = set_enum_from_str(T, mem, h[1], h[3], s)
        <4> DEFINE named == {i \in DOMAIN Enums[T] : Enums[T][i].name = s}
        <4>1. CASE named # {}
          <5>1. Enums[T][Min(named)].value \in Int
            <6>1. DOMAIN Enums[T] \in SUBSET Nat
              BY <3>5, EnumIndices
            <6>2. Min(named) \in named
              BY <4>1, <6>1, MinFacts
            <6> QED
              BY <3>5, <6>2, EnumValues
          <5>2. o = set_field(T, mem, h[1], h[3], Bytes(Enums[T][Min(named)].value, SizeOf[T]))
            BY <3>5, <4>1 DEF set_enum_from_str
          <5>3. Narrowed
            BY <3>1, <5>1, <5>2
          <5> QED
            BY <3>2, <5>3
        <4>2. CASE named = {}
          <5>1. o = set_number_from_str(T, mem, h[1], h[3], s)
            BY <1>2, <3>5, <4>2 DEF set_enum_from_str
          <5> QED
            BY <3>3, <5>1
        <4> QED
          BY <4>1, <4>2
      <3> QED
        BY <2>1, <2>4, <3>3, <3>4, <3>5
    <2> QED
      BY <2>3, <2>4
  <1> QED
    BY <1>1, <1>2

LEMMA StoredBytes ==
    ASSUME TextLayout, NEW T \in DOMAIN SizeOf, Shows(T), SizeOf[T] <= MaxCopy,
           NEW src \in SourcesFor(T)
    PROVE  \A i \in 0 .. SizeOf[T] - 1 : src[i] \in Byte
  <1>1. T \notin StructTypes /\ T \notin DOMAIN ElemType
    BY DEF TextLayout, StringLayout
  <1>2. PICK c \in Values : src = Repeat(c)
    BY <1>1 DEF SourcesFor
  <1>3. c \in Byte
    BY DEF TextLayout, Byte
  <1>4. SizeOf[T] \in Nat /\ MaxCopy \in Nat
    BY SizeTypes, AccessAssumption DEF AccessAssumption
  <1>5. \A i \in 0 .. SizeOf[T] - 1 : i \in 0 .. MaxCopy - 1
    BY <1>4
  <1>6. \A i \in 0 .. MaxCopy - 1 : src[i] = c
    BY <1>2 DEF Repeat
  <1> QED
    BY <1>3, <1>5, <1>6

LEMMA NextKeepsBytes ==
    ASSUME TextLayout, Kept(mem), [FormatNext]_textVars
    PROVE  Kept(mem')
  <1>1. ASSUME NEW o, Do(o), Kept(o.mem) PROVE Kept(mem')
    <2>1. mem' = o.mem
      BY <1>1 DEF Do
    <2> QED
      BY <1>1, <2>1
  <1>2. ASSUME mem' = mem PROVE Kept(mem')
    BY <1>2
  <1>3. ASSUME NEW h \in Handles, NEW s \in Calls \cup {NoText}, SetFromStr(h, s)
        PROVE  Kept(mem')
    <2>1. s \in Text \cup {NoText}
      BY FormatAssumption DEF FormatAssumption
    <2>2. Kept(set_field_from_str(mem, h[1], h[3], s).mem)
      BY <2>1, SetFromStrKeepsBytes
    <2> QED
      BY <1>1, <1>3, <2>2 DEF SetFromStr
  <1>4. ASSUME NEW h \in Handles, NEW n \in Buffers, AsStr(h, n) PROVE Kept(mem')
    BY <1>2, <1>4, ShowKeepsMemory DEF AsStr, Show
  <1>5. ASSUME NEW h \in Handles, PrintField(h) PROVE Kept(mem')
    <2>1. mem' = mem
      BY <1>5, ShowKeepsMemory DEF PrintField, Show, Do, Err
    <2> QED
      BY <1>2, <2>1
  <1>6. ASSUME NEW h \in Handles, NEW T \in ScalarTypes, NEW src \in SourcesFor(T),
               Store(T, h, src)
        PROVE  Kept(mem')
    <2>1. T \in DOMAIN SizeOf
      BY DEF ScalarTypes
    <2>2. Kept(set_field(T, mem, h[1], h[3], src).mem)
      BY <2>1, SetFieldKeepsBytes, StoredBytes
    <2> QED
      BY <1>1, <1>6, <2>2 DEF Store, SetField
  <1>7. ASSUME UNCHANGED textVars PROVE Kept(mem')
    BY <1>2, <1>7 DEF textVars, vars
  <1> QED
    BY <1>3, <1>4, <1>5, <1>6, <1>7 DEF FormatNext

-----------------------------------------------------------------------------
(* What a field shows, given back                                          *)

\* A member whose text is taken back: where it is, and what its cells hold
LEMMA TextCells ==
    ASSUME TextLayout, Kept(mem), NEW v \in TextViews
    PROVE  /\ v \in Views /\ Shows(v[2].type) /\ FirstCell(v) \in Nat
           /\ v[2].size \in Nat \ {0} /\ v[2].size <= MaxCopy /\ MaxCopy \in Nat
           /\ Extent(v) = Span(FirstCell(v), v[2].size) /\ Extent(v) \subseteq Addr
           /\ \A i \in 0 .. v[2].size - 1 : mem[FirstCell(v) + i] \in Byte
           /\ v[1][1] # NULL /\ v[2] # NoField /\ v[1][1] + v[2].offset = FirstCell(v)
  <1>1. /\ v \in Views /\ Shows(v[2].type) /\ FirstCell(v) \in Nat
        /\ v[2].size \in Nat \ {0}
        /\ Extent(v) = Span(FirstCell(v), v[2].size) /\ Extent(v) \subseteq Addr
    BY TextViewTypes, ViewCells
  <1>2. ASSUME NEW i \in 0 .. v[2].size - 1 PROVE mem[FirstCell(v) + i] \in Byte
    <2>1. FirstCell(v) + i \in Extent(v)
      BY <1>1 DEF Span
    <2> QED
      BY <2>1, TextViewTypes DEF Kept
  <1>3. v[1][1] # NULL /\ v[2] # NoField /\ v[2].size <= MaxCopy /\ MaxCopy \in Nat
    BY <1>1, ViewTypes, AccessAssumption DEF AccessAssumption
  <1> QED
    BY <1>1, <1>2, <1>3 DEF FirstCell

\* What a type that is no char array looks like
LEMMA ScalarView ==
    ASSUME TextLayout, Kept(mem), NEW v \in TextViews, v[2].type # "char_arr"
    PROVE  LET T == v[2].type
           IN  /\ T \in DOMAIN SizeOf /\ SizeOf[T] = v[2].size /\ SizeOf[T] \in {1, 2, 4, 8}
               /\ ReadAs(T, mem, FirstCell(v)) \in Int
               /\ \A i \in 0 .. SizeOf[T] - 1 :
                     Digit(ReadAs(T, mem, FirstCell(v)), i) = mem[FirstCell(v) + i]
  <1> DEFINE T == v[2].type
  <1>1. Shows(T) /\ FirstCell(v) \in Nat
    BY TextCells
  <1>2. T \in DOMAIN SizeOf
    BY <1>1, ShownTypes DEF TextLayout
  <1>3. SizeOf[T] = v[2].size /\ SizeOf[T] \in {1, 2, 4, 8}
    BY <1>1, <1>2 DEF TextLayout
  <1>4. \A i \in 0 .. SizeOf[T] - 1 : mem[FirstCell(v) + i] \in Byte
    BY <1>3, TextCells
  <1> QED
    BY <1>1, <1>2, <1>3, <1>4, ReadBytes

\* The typed setter takes bytes its validator knows.
LEMMA BytesTaken ==
    ASSUME TextLayout, Kept(mem), NEW v \in TextViews, v[2].type # "char_arr",
           "WRITE" \in v[2].flags, NEW src \in [0 .. MaxCopy - 1 -> Byte],
           v[2].type \in DOMAIN Members => src[0] \in Members[v[2].type]
    PROVE  set_field(v[2].type, mem, v[1][1], v[2], src) =
               CopyIn(mem, FirstCell(v), src, SizeOf[v[2].type])
  <1>1. src # NoSrc
    BY BytesAreNoNull
  <1>2. /\ v[1][1] # NULL /\ v[2] # NoField /\ v[1][1] + v[2].offset = FirstCell(v)
        /\ v[2].size \in Nat
    BY TextCells
  <1>3. ~(SizeOf[v[2].type] > v[2].size)
    BY <1>2, ScalarView
  <1> QED
    BY <1>1, <1>2, <1>3 DEF set_field, set_field_value

LEMMA SmallIsLow ==
    \A n \in 0 .. 255 : n % 256 = n
  OBVIOUS

\* A number written back into the member it was read from
LEMMA NumberPutBack ==
    ASSUME TextLayout, Kept(mem), NEW v \in TextViews, v[2].type # "char_arr",
           "WRITE" \in v[2].flags, NEW n, n = ReadAs(v[2].type, mem, FirstCell(v)),
           v[2].type \in DOMAIN Members => n \in Members[v[2].type]
    PROVE  LET o == set_field(v[2].type, mem, v[1][1], v[2], Bytes(n, SizeOf[v[2].type]))
           IN  o.res = "OK" /\ o.mem = mem
  <1>1. PICK T : T = v[2].type
    OBVIOUS
  <1>2. PICK at \in Nat : at = FirstCell(v)
    BY TextCells
  <1>3. PICK k \in Nat \ {0} : k = SizeOf[T] /\ k <= MaxCopy
    BY <1>1, ScalarView, TextCells
  <1>4. n \in Int /\ \A i \in 0 .. k - 1 : Digit(n, i) = mem[at + i]
    BY <1>1, <1>2, <1>3, ScalarView
  <1>5. PICK src \in [0 .. MaxCopy - 1 -> Byte] :
           src = Bytes(n, k) /\ \A i \in 0 .. MaxCopy - 1 : i < k => src[i] = Digit(n, i)
    BY <1>3, <1>4, BytesAre
  <1>6. MaxCopy \in Nat
    BY TextCells
  <1>7. Same(mem, at, src, k)
    BY <1>3, <1>4, <1>5, <1>6 DEF Same
  <1>8. T \in DOMAIN Members => src[0] \in Members[T]
    <2> SUFFICES ASSUME T \in DOMAIN Members PROVE src[0] \in Members[T]
      OBVIOUS
    <2>1. n \in 0 .. 255 /\ n \in Members[T]
      BY <1>1 DEF TextLayout
    <2>2. src[0] = Digit(n, 0)
      BY <1>3, <1>5, <1>6
    <2>3. Rest(n, 0) = n
      BY <1>4, <1>6, ByteTypes
    <2>4. n % 256 = n
      BY <2>1, SmallIsLow
    <2>5. Digit(n, 0) = n
      BY <2>3, <2>4, Zenon DEF Digit
    <2>6. n \in Members[T]
      BY <2>1
    <2> QED
      BY <2>2, <2>5, <2>6, Zenon
  <1>9. set_field(T, mem, v[1][1], v[2], src) = CopyIn(mem, at, src, k)
    BY <1>1, <1>2, <1>3, <1>8, BytesTaken
  <1>10. CopyIn(mem, at, src, k).mem = mem
    <2>1. CellMap(mem) /\ k \in Nat
      BY DEF Kept
    <2> QED
      BY <1>7, <2>1, WriteBack, Zenon
  <1>11. CopyIn(mem, at, src, k).res = "OK"
    BY DEF CopyIn
  <1> QED
    BY <1>1, <1>3, <1>5, <1>9, <1>10, <1>11

\* The checks in front of every function pass.
LEMMA GivenIs ==
    ASSUME TextLayout, Kept(mem), NEW v \in TextViews, "WRITE" \in v[2].flags, NEW s \in Text
    PROVE  LET T == v[2].type
           IN  /\ T \in DOMAIN Enums => Given(v, s) = set_enum_from_str(T, mem, v[1][1], v[2], s)
               /\ T = "bool" => Given(v, s) = set_bool_from_str(mem, v[1][1], v[2], s)
               /\ T = "char_arr" => Given(v, s) = set_char_arr_from_str(mem, v[1][1], v[2], s)
               /\ T \notin DOMAIN Enums /\ T \notin {"bool", "char_arr"} =>
                     Given(v, s) = set_number_from_str(T, mem, v[1][1], v[2], s)
  <1>1. v[1][1] # NULL /\ v[2] # NoField /\ Shows(v[2].type)
    BY TextCells
  <1>2. s # NoText
    BY FormatAssumption DEF FormatAssumption
  <1>3. "bool" \notin DOMAIN Enums /\ "char_arr" \notin DOMAIN Enums
    BY FormatAssumption DEF TextLayout, StringLayout, ArrayTypes, FormatAssumption
  <1> QED
    BY <1>1, <1>2, <1>3 DEF Given, set_field_from_str

\* The text of a member, by its type
LEMMA TextIs ==
    ASSUME TextLayout, Kept(mem), NEW v \in TextViews, NEW m
    PROVE  LET T == v[2].type
               at == FirstCell(v)
           IN  /\ T = "bool" => TextOf(m, v) = IF m[at] # 0 THEN TRUE_ ELSE FALSE_
               /\ T = "char_arr" => TextOf(m, v) = CString([i \in 1 .. v[2].count |-> m[at + i - 1]])
               /\ T \notin DOMAIN Enums /\ T \notin {"bool", "char", "char_arr"} =>
                     TextOf(m, v) = Printed(ReadAs(T, m, at))
  <1>1. v[1][1] + v[2].offset = FirstCell(v)
    BY TextCells
  <1>2. "bool" \notin DOMAIN Enums /\ "char_arr" \notin DOMAIN Enums
    BY FormatAssumption DEF TextLayout, StringLayout, ArrayTypes, FormatAssumption
  <1> QED
    BY <1>1, <1>2 DEF TextOf, ValueText

\* The property for one member
TakenBack(v) ==
    LET after == Given(v, TextOf(mem, v))
    IN  after.res = "OK" /\ TextOf(after.mem, v) = TextOf(mem, v)

LEMMA NumberTakenBack ==
    ASSUME TextLayout, Kept(mem), NEW v \in TextViews, Rereadable(v),
           v[2].type \notin DOMAIN Enums, v[2].type \notin {"bool", "char_arr"}
    PROVE  TakenBack(v)
  <1> DEFINE T == v[2].type
  <1>1. T # "char" /\ "WRITE" \in v[2].flags
    BY DEF Rereadable
  <1>2. PICK n : n = ReadAs(T, mem, FirstCell(v))
    OBVIOUS
  <1>3. n \in Int
    BY <1>2, ScalarView
  <1>4. TextOf(mem, v) = Printed(n)
    BY <1>1, <1>2, TextIs
  <1>5. Printed(n) \in Text /\ Strtol(Printed(n)) = [value |-> n, rest |-> <<>>]
    BY <1>3, PrintedIsRead
  <1>6. Given(v, Printed(n)) = set_number_from_str(T, mem, v[1][1], v[2], Printed(n))
    BY <1>1, <1>5, GivenIs
  <1>7. Strtol(Printed(n)).value = n /\ Strtol(Printed(n)).rest = <<>>
    BY <1>5
  <1>8. set_number_from_str(T, mem, v[1][1], v[2], Printed(n)) =
           set_field(T, mem, v[1][1], v[2], Bytes(n, SizeOf[T]))
    BY <1>7 DEF set_number_from_str, Ends
  <1>9. T \notin DOMAIN Members
    BY FormatAssumption DEF FormatAssumption
  <1>10. LET o == set_field(T, mem, v[1][1], v[2], Bytes(n, SizeOf[T]))
         IN  o.res = "OK" /\ o.mem = mem
    BY <1>1, <1>2, <1>9, NumberPutBack
  <1> QED
    BY <1>4, <1>6, <1>8, <1>10 DEF TakenBack

LEMMA EnumTakenBack ==
    ASSUME TextLayout, Kept(mem), NEW v \in TextViews, Rereadable(v),
           v[2].type \in DOMAIN Enums
    PROVE  TakenBack(v)
  <1> DEFINE T == v[2].type
  <1>1. /\ T # "char_arr" /\ "WRITE" \in v[2].flags /\ T \in DOMAIN Enums
        /\ T \in DOMAIN SizeOf
    BY FormatAssumption DEF Rereadable, TextLayout, StringLayout, ArrayTypes, FormatAssumption
  <1>2. PICK e \in Range(Enums[T]) :
           e.value = ReadAs(T, mem, FirstCell(v)) /\ e.name = TextOf(mem, v)
    BY DEF Rereadable
  <1>3. PICK i \in DOMAIN Enums[T] : Enums[T][i] = e
    BY DEF Range
  <1>4. PICK s : s = TextOf(mem, v)
    OBVIOUS
  <1>5. s \in Text
    BY <1>1, <1>2, <1>4, FormatAssumption DEF FormatAssumption
  <1>6. PICK named : named = {j \in DOMAIN Enums[T] : Enums[T][j].name = s}
    OBVIOUS
  <1>7. i \in named
    BY <1>2, <1>3, <1>4, <1>6
  <1>8. Min(named) = i
    <2>1. named \in SUBSET Nat
      BY <1>1, <1>6, EnumIndices
    <2>2. Min(named) \in named
      BY <1>7, <2>1, MinFacts
    <2>3. \A j, k \in DOMAIN Enums[T] : Enums[T][j].name = Enums[T][k].name => j = k
      BY <1>1 DEF TextLayout
    <2> QED
      BY <1>6, <1>7, <2>2, <2>3
  <1>9. T \in DOMAIN Members => e.value \in Members[T]
    BY FormatAssumption DEF FormatAssumption
  <1>10. Given(v, s) = set_field(T, mem, v[1][1], v[2], Bytes(e.value, SizeOf[T]))
    <2>1. Given(v, s) = set_enum_from_str(T, mem, v[1][1], v[2], s)
      BY <1>1, <1>5, GivenIs
    <2>2. set_enum_from_str(T, mem, v[1][1], v[2], s) =
             set_field(T, mem, v[1][1], v[2], Bytes(Enums[T][Min(named)].value, SizeOf[T]))
      BY <1>6, <1>7 DEF set_enum_from_str
    <2> QED
      BY <1>3, <1>8, <2>1, <2>2
  <1>11. LET o == set_field(T, mem, v[1][1], v[2], Bytes(e.value, SizeOf[T]))
         IN  o.res = "OK" /\ o.mem = mem
    BY <1>1, <1>2, <1>9, NumberPutBack
  <1> QED
    BY <1>4, <1>10, <1>11 DEF TakenBack

\* true, false and 1 are texts, and not the same.
LEMMA BoolTexts ==
    TRUE_ \in Text /\ FALSE_ \in Text /\ FALSE_ \notin {TRUE_, ONE}
  <1>1. TRUE_ \in Text
    BY DEF TRUE_, Text
  <1>2. FALSE_ \in Text
    BY DEF FALSE_, Text
  <1>3. TRUE_[1] = 116 /\ FALSE_[1] = 102 /\ ONE[1] = 49
    BY DEF TRUE_, FALSE_, ONE
  <1> QED
    BY <1>1, <1>2, <1>3

LEMMA BoolTakenBack ==
    ASSUME TextLayout, Kept(mem), NEW v \in TextViews, Rereadable(v), v[2].type = "bool"
    PROVE  TakenBack(v)
  <1>1. "WRITE" \in v[2].flags /\ v[2].type # "char_arr" /\ "bool" \notin DOMAIN Members
    BY FormatAssumption DEF Rereadable, TextLayout, FormatAssumption
  <1>2. PICK at \in Nat : at = FirstCell(v) /\ at \in Addr
    <2>1. v \in Views /\ FirstCell(v) \in Nat
      BY TextCells
    <2>2. FirstCell(v) \in Addr
      BY <2>1, ViewCells
    <2> QED
      BY <2>1, <2>2
  <1>3. PICK k \in Nat \ {0} : k = SizeOf["bool"]
    BY <1>1, ScalarView
  <1>4. PICK s : s = TextOf(mem, v)
    OBVIOUS
  <1>5. PICK b \in {0, 1} : b = IF s \in {TRUE_, ONE} THEN 1 ELSE 0
    OBVIOUS
  <1>6. s \in Text /\ s = IF b # 0 THEN TRUE_ ELSE FALSE_
    <2>1. s = IF mem[FirstCell(v)] # 0 THEN TRUE_ ELSE FALSE_
      BY <1>4, TextIs
    <2>2. (s = TRUE_ /\ b # 0) \/ (s = FALSE_ /\ b = 0)
      BY <1>5, <2>1, BoolTexts
    <2> QED
      BY <2>2, BoolTexts
  <1>7. Given(v, s) = set_field("bool", mem, v[1][1], v[2], Bytes(b, 1))
    BY <1>1, <1>5, <1>6, GivenIs DEF set_bool_from_str
  <1>8. PICK src \in [0 .. MaxCopy - 1 -> Byte] : src = Bytes(b, 1) /\ src[0] = b
    <2>1. b \in Int /\ 1 \in Nat /\ 0 \in 0 .. MaxCopy - 1 /\ 0 < 1 /\ 0 \in Nat /\ b % 256 = b
      BY TextCells
    <2>2. Bytes(b, 1) \in [0 .. MaxCopy - 1 -> Byte] /\ Bytes(b, 1)[0] = Digit(b, 0)
      BY <2>1, BytesAre
    <2>3. Digit(b, 0) = b
      BY <2>1, ByteTypes DEF Digit
    <2> QED
      BY <2>2, <2>3
  <1>9. Given(v, s) = CopyIn(mem, at, src, k)
    BY <1>1, <1>2, <1>3, <1>7, <1>8, BytesTaken
  <1>10. CopyIn(mem, at, src, k).res = "OK"
    BY DEF CopyIn
  <1>11. CopyIn(mem, at, src, k).mem[at] = b
    <2>1. at \in Span(at, k) /\ at - at = 0
      BY DEF Span
    <2> QED
      BY <1>2, <1>8, <2>1, CopiedCell
  <1>12. TextOf(CopyIn(mem, at, src, k).mem, v) = s
    BY <1>2, <1>6, <1>11, TextIs
  <1> QED
    BY <1>4, <1>9, <1>10, <1>12 DEF TakenBack

LEMMA ItemsOf ==
    ASSUME NEW S, NEW n \in Nat, NEW q \in [1 .. n -> S]
    PROVE  q \in Seq(S) /\ Len(q) = n
  OBVIOUS

LEMMA FrontOf ==
    ASSUME NEW S, NEW q \in Seq(S), NEW n \in Nat, n <= Len(q)
    PROVE  /\ SubSeq(q, 1, n) \in Seq(S) /\ Len(SubSeq(q, 1, n)) = n
           /\ \A i \in 1 .. n : SubSeq(q, 1, n)[i] = q[i]
  OBVIOUS

\* The text of a char array, and where its NUL is
LEMMA StringText ==
    ASSUME TextLayout, Kept(mem), StringsEnd, NEW v \in TextViews, v[2].type = "char_arr"
    PROVE  \E k \in Nat \ {0} :
              /\ k <= v[2].count /\ mem[FirstCell(v) + k - 1] = 0
              /\ TextOf(mem, v) \in Text /\ Len(TextOf(mem, v)) = k - 1
              /\ \A i \in 1 .. k - 1 : TextOf(mem, v)[i] = mem[FirstCell(v) + i - 1]
  <1>1. v \in Strings
    BY TextViewTypes DEF Strings
  <1>2. PICK at \in Nat, count \in Nat \ {0} :
           at = FirstCell(v) /\ count = v[2].count /\ count = v[2].size
           /\ Extent(v) = Span(at, count)
    BY <1>1, StringViews, ViewCells DEF TextLayout, StringLayout
  <1>3. \A i \in 1 .. count : mem[at + i - 1] \in Byte
    <2> TAKE i \in 1 .. count
    <2>1. i - 1 \in 0 .. count - 1 /\ at + (i - 1) = at + i - 1
      BY <1>2
    <2>2. mem[at + (i - 1)] \in Byte
      BY <1>2, <2>1, TextCells
    <2> QED
      BY <2>1, <2>2
  <1>4. PICK cells \in [1 .. count -> Byte] : cells = [i \in 1 .. count |-> mem[at + i - 1]]
    BY <1>3, Zenon
  <1>14. \A i \in 1 .. count : cells[i] = mem[at + i - 1]
    BY <1>4, Zenon
  <1>5. PICK nul : nul = {i \in DOMAIN cells : cells[i] = 0}
    OBVIOUS
  <1>6. nul \in SUBSET (1 .. count) /\ nul # {}
    <2>1. PICK a \in Extent(v) : mem[a] = 0
      BY <1>1 DEF StringsEnd, Ended
    <2>2. a - at + 1 \in 1 .. count /\ at + (a - at + 1) - 1 = a
      BY <1>2, <2>1 DEF Span
    <2>3. a - at + 1 \in nul
      BY <1>4, <1>14, <1>5, <2>1, <2>2
    <2> QED
      BY <1>5, <2>3
  <1>7. PICK k \in 1 .. count : k = Min(nul) /\ cells[k] = 0 /\ \A n \in nul : k <= n
    <2>1. nul \in SUBSET Nat
      BY <1>6
    <2>2. Min(nul) \in nul /\ \A n \in nul : Min(nul) <= n
      BY <1>6, <2>1, MinFacts
    <2> QED
      BY <1>5, <1>6, <2>2
  <1>8. PICK n \in Nat : n = k - 1 /\ n < count
    BY <1>2
  <1>9. TextOf(mem, v) = SubSeq(cells, 1, n)
    <2>1. TextOf(mem, v) = CString(cells)
      <3>1. TextOf(mem, v) = CString([i \in 1 .. v[2].count |-> mem[FirstCell(v) + i - 1]])
        BY TextIs
      <3> QED
        BY <1>2, <1>4, <3>1
    <2>2. CString(cells) = SubSeq(cells, 1, Min(nul) - 1)
      BY <1>5, <1>6 DEF CString
    <2> QED
      BY <1>7, <1>8, <2>1, <2>2
  <1>10. PICK t \in Seq(Byte) : /\ t = SubSeq(cells, 1, n) /\ Len(t) = n
                                /\ \A i \in 1 .. n : t[i] = cells[i]
    <2>1. cells \in Seq(Byte) /\ Len(cells) = count
      BY ItemsOf
    <2>2. /\ SubSeq(cells, 1, n) \in Seq(Byte) /\ Len(SubSeq(cells, 1, n)) = n
          /\ \A i \in 1 .. n : SubSeq(cells, 1, n)[i] = cells[i]
      <3>1. n <= Len(cells)
        BY <1>2, <1>8, <2>1
      <3> QED
        BY <1>8, <2>1, <3>1, FrontOf
    <2> QED
      BY <2>2
  <1>11. ASSUME NEW i \in 1 .. n PROVE t[i] = mem[at + i - 1] /\ t[i] \in 1 .. 255
    <2>1. i \in 1 .. count /\ i < k /\ i \in DOMAIN cells
      BY <1>2, <1>4, <1>8
    <2>2. cells[i] # 0
      BY <1>5, <1>7, <1>8, <2>1
    <2>3. t[i] = cells[i] /\ t[i] \in Byte
      BY <1>4, <1>10, <2>1
    <2> QED
      BY <1>14, <2>1, <2>2, <2>3 DEF Byte
  <1>12. t \in Text
    BY <1>10, <1>11, ItemsIn DEF Text
  <1>13. k \in Nat \ {0} /\ k <= count /\ k - 1 = n /\ mem[at + k - 1] = 0
    BY <1>2, <1>14, <1>7, <1>8
  <1> QED
    BY <1>2, <1>9, <1>10, <1>11, <1>12, <1>13

LEMMA StringTakenBack ==
    ASSUME TextLayout, Kept(mem), StringsEnd, NEW v \in TextViews, Rereadable(v),
           v[2].type = "char_arr"
    PROVE  TakenBack(v)
  <1>1. PICK s : s = TextOf(mem, v)
    OBVIOUS
  <1>2. PICK k \in Nat \ {0} :
           /\ k <= v[2].count /\ mem[FirstCell(v) + k - 1] = 0
           /\ s \in Text /\ Len(s) = k - 1
           /\ \A i \in 1 .. k - 1 : s[i] = mem[FirstCell(v) + i - 1]
    BY <1>1, StringText
  <1>3. PICK at \in Nat, count \in Nat \ {0} :
           at = FirstCell(v) /\ count = v[2].count /\ count = v[2].size
           /\ count <= MaxCopy /\ MaxCopy \in Nat
    BY TextCells, TextViewTypes DEF TextLayout, StringLayout, Strings
  <1>4. PICK src \in [0 .. MaxCopy - 1 -> Byte] :
           /\ src = Terminated(s)
           /\ \A i \in 0 .. MaxCopy - 1 : src[i] = IF i < Len(s) THEN s[i + 1] ELSE 0
    BY <1>2, TerminatedType
  <1>5. Same(mem, at, src, k)
    <2>1. ASSUME NEW i \in 0 .. k - 1, i < k - 1 PROVE src[i] = mem[at + i]
      <3>1. i \in 0 .. MaxCopy - 1 /\ i < Len(s) /\ i + 1 \in 1 .. k - 1 /\ at + (i + 1) - 1 = at + i
        BY <1>2, <1>3, <2>1
      <3> QED
        BY <1>2, <1>3, <1>4, <3>1
    <2>2. ASSUME NEW i \in 0 .. k - 1, i = k - 1 PROVE src[i] = mem[at + i]
      <3>1. i \in 0 .. MaxCopy - 1 /\ ~(i < Len(s)) /\ at + k - 1 = at + i
        BY <1>2, <1>3, <2>2
      <3> QED
        BY <1>2, <1>3, <1>4, <3>1
    <2>3. ASSUME NEW i \in 0 .. k - 1 PROVE src[i] = mem[at + i]
      BY <2>1, <2>2
    <2> QED
      BY <2>3 DEF Same
  <1>6. Given(v, s) = set_char_arr_from_str(mem, v[1][1], v[2], s) /\ "WRITE" \in v[2].flags
    BY <1>2, GivenIs DEF Rereadable
  <1>7. ~(Len(s) >= v[2].count) /\ ~(Len(s) + 1 > v[2].count) /\ Len(s) + 1 = k
        /\ k * 1 = k /\ ~(k > v[2].size)
    BY <1>2, <1>3
  <1>8. SizeOf[ElemType["char_arr"]] = 1
    BY DEF TextLayout
  <1>9. /\ src # NoSrc /\ v[1][1] # NULL /\ v[2] # NoField
        /\ v[1][1] + v[2].offset = at
    BY <1>3, BytesAreNoNull, TextCells
  <1>10. Given(v, s) = CopyIn(mem, at, src, k)
    BY <1>4, <1>6, <1>7, <1>8, <1>9 DEF set_char_arr_from_str, set_field_arr, set_field_value
  <1>11. CopyIn(mem, at, src, k).mem = mem
    <2>1. CellMap(mem) /\ k \in Nat
      BY DEF Kept
    <2> QED
      BY <1>5, <2>1, WriteBack
  <1>12. CopyIn(mem, at, src, k).res = "OK"
    BY DEF CopyIn
  <1> QED
    BY <1>1, <1>10, <1>11, <1>12 DEF TakenBack

LEMMA AllTakenBack ==
    ASSUME TextLayout, Kept(mem), StringsEnd
    PROVE  ShownTextIsTaken
  <1>1. ASSUME NEW v \in TextViews, Rereadable(v) PROVE TakenBack(v)
    BY <1>1, NumberTakenBack, EnumTakenBack, BoolTakenBack, StringTakenBack
  <1> QED
    BY <1>1 DEF ShownTextIsTaken, TakenBack

LEMMA KeptAtBoot ==
    ASSUME BytesIn(Boot)
    PROVE  Kept(Boot)
  BY AccessAssumption DEF AccessAssumption, Kept, CellMap

\* The cells of the members this plugin reads and writes hold bytes.
MembersHoldBytes == BytesIn(mem)

\* Whatever is narrowed, copied or stored into them by text or by the typed
\* setters, those cells stay bytes, when they start as such.
THEOREM MembersKeepBytes ==
    TextLayout /\ BytesIn(Boot) /\ FormatSpec => []MembersHoldBytes
  <1> SUFFICES ASSUME TextLayout, BytesIn(Boot) PROVE FormatSpec => []MembersHoldBytes
    OBVIOUS
  <1>1. FormatInit => Kept(mem)
    BY KeptAtBoot DEF FormatInit, Init
  <1>2. Kept(mem) /\ [FormatNext]_textVars => Kept(mem)'
    BY NextKeepsBytes
  <1>3. Kept(mem) => MembersHoldBytes
    BY DEF Kept, MembersHoldBytes
  <1> QED
    BY <1>1, <1>2, <1>3, PTL DEF FormatSpec

\* Printed and parsed, narrowed and widened, a value comes back as it was:
\* what get_field_as_str shows of a field, set_field_from_str takes for it,
\* and the field then shows the same.
THEOREM ShownIsTaken ==
    TextLayout /\ Ended(Boot) /\ BytesIn(Boot) /\ FormatSpec => []ShownTextIsTaken
  <1> SUFFICES ASSUME TextLayout, Ended(Boot), BytesIn(Boot)
               PROVE  FormatSpec => []ShownTextIsTaken
    OBVIOUS
  <1>1. FormatInit => Kept(mem)
    BY KeptAtBoot DEF FormatInit, Init
  <1>2. Kept(mem) /\ [FormatNext]_textVars => Kept(mem)'
    BY NextKeepsBytes
  <1>3. FormatSpec => []StringsEnd
    BY StringsKeepTheirEnd DEF TextLayout
  <1>4. Kept(mem) /\ StringsEnd => ShownTextIsTaken
    BY AllTakenBack
  <1> QED
    BY <1>1, <1>2, <1>3, <1>4, PTL DEF FormatSpec

-----------------------------------------------------------------------------
(* What print_field makes of the others                                    *)

LEMMA LoadedFits ==
    ASSUME NEW m, NEW a \in Nat, NEW n \in {1, 2, 4, 8},
           \A i \in 0 .. n - 1 : m[a + i] \in Byte
    PROVE  LoadUnsigned(m, a, n) \in Int /\ 0 <= LoadUnsigned(m, a, n) /\ LoadUnsigned(m, a, n) < Width(n)
  <1>1. \A i \in 0 .. n - 1 : m[a + i] \in 0 .. 255
    BY DEF Byte
  <1>2. a + 0 = a /\ a + 2 + 1 = a + 3
    OBVIOUS
  <1>3. CASE n = 1
    <2>1. m[a] \in 0 .. 255
      BY <1>1, <1>2, <1>3
    <2> QED
      BY <1>3, <2>1, Widths DEF LoadUnsigned, Load1
  <1>4. CASE n = 2
    <2>1. m[a] \in 0 .. 255 /\ m[a + 1] \in 0 .. 255
      BY <1>1, <1>2, <1>4
    <2>2. PICK b \in 0 .. 255, c \in 0 .. 255 : b = m[a] /\ c = m[a + 1]
      BY <2>1
    <2>3. LoadUnsigned(m, a, n) = b + 256 * c
      BY <1>4, <2>2 DEF LoadUnsigned, Load1, Load2
    <2>4. Width(n) = 65536
      BY <1>4, Widths
    <2>5. b + 256 * c \in Int /\ 0 <= b + 256 * c /\ b + 256 * c < 65536
      OBVIOUS
    <2> QED
      BY <2>3, <2>4, <2>5
  <1>5. CASE n \in {4, 8}
    <2>1. /\ m[a] \in 0 .. 255 /\ m[a + 1] \in 0 .. 255
          /\ m[a + 2] \in 0 .. 255 /\ m[a + 3] \in 0 .. 255
      BY <1>1, <1>2, <1>5
    <2>2. PICK lo \in Int : lo = Load4(m, a) /\ 0 <= lo /\ lo < 65536 * 65536
      <3>1. PICK b \in 0 .. 255, c \in 0 .. 255, d \in 0 .. 255, e \in 0 .. 255 :
               b = m[a] /\ c = m[a + 1] /\ d = m[a + 2] /\ e = m[a + 3]
        BY <2>1
      <3>2. Load4(m, a) = b + 256 * c + 65536 * (d + 256 * e)
        BY <1>2, <3>1 DEF Load1, Load2, Load4
      <3> QED
        BY <3>2
    <2>3. CASE n = 4
      BY <2>2, <2>3, Widths DEF LoadUnsigned
    <2>4. CASE n = 8
      <3>1. /\ m[a + 4] \in 0 .. 255 /\ m[a + 5] \in 0 .. 255
            /\ m[a + 6] \in 0 .. 255 /\ m[a + 7] \in 0 .. 255
            /\ a + 4 + 1 = a + 5 /\ a + 4 + 2 = a + 6 /\ a + 6 + 1 = a + 7
        BY <1>1, <2>4
      <3>2. PICK hi \in Int : hi = Load4(m, a + 4) /\ 0 <= hi /\ hi < 65536 * 65536
        <4>1. PICK b \in 0 .. 255, c \in 0 .. 255, d \in 0 .. 255, e \in 0 .. 255 :
                 b = m[a + 4] /\ c = m[a + 5] /\ d = m[a + 6] /\ e = m[a + 7]
          BY <3>1
        <4>2. Load4(m, a + 4) = b + 256 * c + 65536 * (d + 256 * e)
          BY <3>1, <4>1 DEF Load1, Load2, Load4
        <4> QED
          BY <4>2
      <3>3. PICK w \in Int : w = Width(4) /\ w = 65536 * 65536 /\ Width(n) = 65536 * (65536 * w)
        BY <2>4, Widths
      <3>4. LoadUnsigned(m, a, n) = lo + 65536 * (65536 * hi)
        BY <2>2, <2>4, <3>2 DEF LoadUnsigned, Load8
      <3>5. hi + 1 <= w
        BY <3>2, <3>3
      <3>6. PICK x \in Int : x = 65536 * (65536 * hi)
        BY <3>2
      <3>7. 0 <= x /\ x + 65536 * 65536 <= 65536 * (65536 * w)
        BY <3>2, <3>5, <3>6
      <3>8. PICK y \in Int : y = 65536 * (65536 * w)
        BY <3>3
      <3>9. lo + x \in Int /\ 0 <= lo + x /\ lo + x < y
        BY <2>2, <3>6, <3>7, <3>8
      <3> QED
        BY <3>3, <3>4, <3>6, <3>8, <3>9
    <2> QED
      BY <1>5, <2>3, <2>4
  <1> QED
    BY <1>3, <1>4, <1>5

\* A number read lies within its width.
LEMMA ReadFits ==
    ASSUME TextLayout, Kept(mem), NEW v \in TextViews, v[2].type # "char_arr"
    PROVE  LET T == v[2].type
           IN  ReadAs(T, mem, FirstCell(v)) \in - (Width(SizeOf[T])) .. Width(SizeOf[T])
  <1>1. PICK T : T = v[2].type
    OBVIOUS
  <1>2. PICK n \in {1, 2, 4, 8} : n = SizeOf[T] /\ n = v[2].size
    BY <1>1, ScalarView
  <1>3. PICK at \in Nat : at = FirstCell(v) /\ \A i \in 0 .. n - 1 : mem[at + i] \in Byte
    BY <1>2, TextCells
  <1>4. PICK u \in Int : u = LoadUnsigned(mem, at, n) /\ 0 <= u /\ u < Width(n)
    BY <1>3, LoadedFits
  <1>5. PICK w \in Nat : w = Width(n)
    BY Wider
  <1>6. ReadAs(T, mem, at) = u \/ ReadAs(T, mem, at) = u - w
    BY <1>2, <1>4, <1>5 DEF ReadAs
  <1>7. \A x \in {u, u - w} : x \in - w .. w
    BY <1>4, <1>5
  <1> QED
    BY <1>1, <1>2, <1>3, <1>5, <1>6, <1>7

\* A text with an end in front of the buffer's
Fits(s) == (\E S : s \in Seq(S)) /\ Len(s) \in Nat /\ Len(s) < MAX_BUF_LEN

LEMMA ShortTexts ==
    ASSUME TextsFit
    PROVE  /\ Fits(TRUE_) /\ Fits(FALSE_) /\ Fits(UNKNOWN_)
           /\ \A c : Fits(CString(<<c>>))
  <1>1. MAX_BUF_LEN \in Nat
    BY FormatAssumption DEF FormatAssumption
  <1>2. FALSE_ \in Seq(Int) /\ Len(FALSE_) = 5
    BY DEF FALSE_
  <1>3. 5 < MAX_BUF_LEN
    BY <1>1, <1>2 DEF TextsFit
  <1>4. Fits(TRUE_)
    <2>1. TRUE_ \in Seq(Int) /\ Len(TRUE_) = 4
      BY DEF TRUE_
    <2> QED
      BY <1>1, <1>3, <2>1 DEF Fits
  <1>5. Fits(FALSE_)
    BY <1>1, <1>2, <1>3 DEF Fits
  <1>6. Fits(UNKNOWN_)
    <2>1. UNKNOWN_ \in Seq(Int) /\ Len(UNKNOWN_) = 3
      BY DEF UNKNOWN_
    <2> QED
      BY <1>1, <1>3, <2>1 DEF Fits
  <1>7. ASSUME NEW c PROVE Fits(CString(<<c>>))
    <2>1. PICK q : q = <<c>>
      OBVIOUS
    <2>2. q \in Seq({c}) /\ Len(q) = 1 /\ DOMAIN q = 1 .. 1
      BY <2>1
    <2>3. CString(q) = q \/ \E k \in 1 .. 1 : CString(q) = SubSeq(q, 1, k - 1)
      <3>1. PICK nul : nul = {i \in DOMAIN q : q[i] = 0}
        OBVIOUS
      <3>2. CASE nul = {}
        BY <3>1, <3>2 DEF CString
      <3>3. CASE nul # {}
        <4>1. nul \in SUBSET (1 .. 1) /\ nul \in SUBSET Nat
          BY <2>2, <3>1
        <4>2. Min(nul) \in 1 .. 1
          BY <3>3, <4>1, MinFacts
        <4>3. CString(q) = SubSeq(q, 1, Min(nul) - 1)
          BY <3>1, <3>3 DEF CString
        <4> QED
          BY <4>2, <4>3
      <3> QED
        BY <3>2, <3>3
    <2>4. SubSeq(q, 1, 0) \in Seq({c}) /\ Len(SubSeq(q, 1, 0)) = 0
      <3>1. 0 \in Nat /\ 0 <= Len(q)
        BY <2>2
      <3> QED
        BY <2>2, <3>1, FrontOf
    <2>5. \A k \in 1 .. 1 : k - 1 = 0
      OBVIOUS
    <2>6. CString(q) \in Seq({c}) /\ Len(CString(q)) \in {0, 1}
      BY <2>2, <2>3, <2>4, <2>5
    <2>7. Fits(CString(q))
      <3>1. \E S : CString(q) \in Seq(S)
        BY <2>6, Zenon
      <3>2. Len(CString(q)) \in Nat /\ Len(CString(q)) < MAX_BUF_LEN
        <4>1. PICK n \in {0, 1} : Len(CString(q)) = n
          BY <2>6, Zenon
        <4>2. n \in Nat /\ n < MAX_BUF_LEN
          BY <1>1, <1>3
        <4> QED
          BY <4>1, <4>2, Zenon
      <3> QED
        BY <3>1, <3>2 DEF Fits
    <2> QED
      BY <2>1, <2>7
  <1> QED
    BY <1>4, <1>5, <1>6, <1>7

LEMMA EnumTextFits ==
    ASSUME TextsFit, NEW T \in DOMAIN Enums, NEW x
    PROVE  Fits(EnumText(T, x))
  <1>1. PICK hits : hits = {i \in DOMAIN Enums[T] : Enums[T][i].value = x}
    OBVIOUS
  <1>2. CASE hits = {}
    BY <1>1, <1>2, ShortTexts DEF EnumText
  <1>3. CASE hits # {}
    <2>1. Min(hits) \in DOMAIN Enums[T]
      <3>1. hits \in SUBSET Nat
        BY <1>1, EnumIndices
      <3>2. Min(hits) \in hits
        BY <1>3, <3>1, MinFacts
      <3> QED
        BY <1>1, <3>2
    <2>2. PICK e \in Range(Enums[T]) : e = Enums[T][Min(hits)]
      BY <2>1, EnumValues
    <2>3. EnumText(T, x) = IF e.display # NoText THEN e.display ELSE e.name
      BY <1>1, <1>3, <2>2 DEF EnumText
    <2>4. /\ Len(e.name) < MAX_BUF_LEN /\ e.name \in Text
          /\ e.display # NoText => Len(e.display) < MAX_BUF_LEN /\ e.display \in Text
      BY <2>2, FormatAssumption DEF TextsFit, FormatAssumption
    <2>5. EnumText(T, x) \in Text /\ Len(EnumText(T, x)) < MAX_BUF_LEN
      BY <2>3, <2>4
    <2> QED
      BY <2>5, TextItems DEF Fits
  <1> QED
    BY <1>2, <1>3

\* The text of a member that is no char array fits print_field's buffer.
LEMMA ScalarTextFits ==
    ASSUME TextLayout, TextsFit, Kept(mem), NEW v \in TextViews, v[2].type # "char_arr"
    PROVE  Fits(TextOf(mem, v))
  <1> DEFINE T == v[2].type
  <1>1. v[1][1] + v[2].offset = FirstCell(v) /\ Shows(T)
    BY TextCells
  <1>2. CASE T \in DOMAIN Enums
    <2>1. T \notin {"bool", "char"}
      BY <1>2 DEF TextLayout
    <2>2. TextOf(mem, v) = EnumText(T, ReadAs(T, mem, FirstCell(v)))
      BY <1>1, <1>2, <2>1 DEF TextOf, ValueText
    <2> QED
      BY <1>2, <2>2, EnumTextFits
  <1>3. CASE T = "bool"
    <2>1. TextOf(mem, v) \in {TRUE_, FALSE_}
      BY <1>3, TextIs
    <2> QED
      BY <2>1, ShortTexts
  <1>4. CASE T = "char"
    <2>1. T \notin DOMAIN Enums
      BY <1>4 DEF TextLayout
    <2>2. TextOf(mem, v) = CString(<<mem[FirstCell(v)]>>)
      BY <1>1, <1>4, <2>1 DEF TextOf, ValueText
    <2> QED
      BY <2>2, ShortTexts
  <1>5. CASE T \notin DOMAIN Enums /\ T \notin {"bool", "char"}
    <2>1. T \in Unsigned \cup Signed
      BY <1>1, <1>5 DEF Shows
    <2>2. PICK n : n = ReadAs(T, mem, FirstCell(v))
      OBVIOUS
    <2>3. n \in - (Width(SizeOf[T])) .. Width(SizeOf[T]) /\ n \in Int
      BY <2>2, ReadFits, ScalarView
    <2>4. Len(Printed(n)) < MAX_BUF_LEN
      BY <2>1, <2>3 DEF TextsFit
    <2>5. TextOf(mem, v) = Printed(n) /\ Printed(n) \in Text
      BY <1>5, <2>2, <2>3, TextIs, PrintedIsRead
    <2> QED
      BY <2>4, <2>5, TextItems DEF Fits
  <1> QED
    BY <1>2, <1>3, <1>4, <1>5

LEMMA PrintAnyStep ==
    ASSUME TextLayout, TextsFit, Kept(mem), StringsEnd, out' # NoText,
           NEW h \in Handles, h[3] \notin DOMAIN FormatOf, PrintField(h)
    PROVE  out' = ValueText(mem, h[1], h[3])
  <1> DEFINE v == <<<<h[1], h[2]>>, h[3]>>
  <1>1. h[1] # NULL /\ h[3] # NoField
    BY DEF PrintField
  <1>2. v \in Views /\ v[1][1] = h[1] /\ v[2] = h[3]
    BY <1>1, HandleView
  <1>3. CASE h[3].type = "char_arr"
    BY <1>1, <1>3, PrintStep DEF TextLayout
  <1>4. CASE h[3].type # "char_arr"
    <2>1. Show(h, PrintBuf(h[3]))
      BY <1>1 DEF PrintField
    <2>2. out' = Snprintf(<<>> \o ValueText(mem, h[1], h[3]), PrintBuf(h[3]))
      BY <2>1 DEF Show, FieldText, Before
    <2>3. Shows(h[3].type)
      <3>1. res' = "OK"
        BY <2>1 DEF Show
      <3>2. res' = get_field_as_str(mem, h[1], h[3]).res
        BY <2>1 DEF Show, Do
      <3> QED
        BY <1>1, <3>1, <3>2 DEF get_field_as_str, Err
    <2>4. v \in TextViews
      BY <1>2, <2>3, TextViewTypes
    <2>5. PICK text : text = ValueText(mem, h[1], h[3]) /\ Fits(text)
      BY <1>2, <1>4, <2>4, ScalarTextFits DEF TextOf
    <2>6. h[3].count \in Nat /\ MAX_BUF_LEN \in Nat
      BY <1>2, ViewTypes, FormatAssumption DEF FormatAssumption
    <2>7. PrintBuf(h[3]) \in Nat /\ MAX_BUF_LEN <= PrintBuf(h[3])
      BY <2>6 DEF PrintBuf
    <2>8. Len(text) < PrintBuf(h[3]) /\ \E S : text \in Seq(S)
      BY <2>5, <2>6, <2>7 DEF Fits
    <2> QED
      BY <2>2, <2>5, <2>7, <2>8, SnprintfWhole
  <1> QED
    BY <1>3, <1>4

\* print_field shows the whole text of every field without a format of its
\* own: a char array up to its NUL, a number to its last digit.
THEOREM PrintsEveryField ==
    TextLayout /\ TextsFit /\ Ended(Boot) /\ BytesIn(Boot) /\ FormatSpec => PrintsAll
  <1> SUFFICES ASSUME TextLayout, TextsFit, Ended(Boot), BytesIn(Boot)
               PROVE  FormatSpec => PrintsAll
    OBVIOUS
  <1>1. FormatInit => Kept(mem)
    BY KeptAtBoot DEF FormatInit, Init
  <1>2. Kept(mem) /\ [FormatNext]_textVars => Kept(mem)'
    BY NextKeepsBytes
  <1>3. FormatSpec => []StringsEnd
    BY StringsKeepTheirEnd DEF TextLayout
  <1>4. Kept(mem) /\ StringsEnd /\ [FormatNext]_textVars =>
           [out' # NoText =>
              \A h \in {k \in Handles : k[3] \notin DOMAIN FormatOf} :
                  PrintField(h) => out' = ValueText(mem, h[1], h[3])]_textVars
    BY PrintAnyStep
  <1> QED
    BY <1>1, <1>2, <1>3, <1>4, PTL DEF FormatSpec, PrintsAll

-----------------------------------------------------------------------------
(* Texts as numerals                                                       *)

LEMMA NoItems ==
    ASSUME NEW S
    PROVE  <<>> \in Seq(S) /\ Len(<<>>) = 0
  OBVIOUS

LEMMA TakenApart ==
    ASSUME NEW S, NEW q \in Seq(S), NEW k \in Nat, Len(q) = k + 1
    PROVE  /\ SubSeq(q, 1, k) \in Seq(S) /\ Len(SubSeq(q, 1, k)) = k
           /\ \A i \in 1 .. k : SubSeq(q, 1, k)[i] = q[i]
           /\ q[k + 1] \in S /\ q = Append(SubSeq(q, 1, k), q[k + 1])
  <1>1. k <= Len(q) /\ k + 1 \in 1 .. Len(q)
    BY SMT
  <1>2. /\ SubSeq(q, 1, k) \in Seq(S) /\ Len(SubSeq(q, 1, k)) = k
        /\ \A i \in 1 .. k : SubSeq(q, 1, k)[i] = q[i]
    BY <1>1, FrontOf
  <1>3. q[k + 1] \in S
    BY <1>1
  <1>4. PICK p \in Seq(S) : p = SubSeq(q, 1, k) /\ Len(p) = k /\ \A i \in 1 .. k : p[i] = q[i]
    BY <1>2
  <1>5. PICK t \in Seq(S) : t = Append(p, q[k + 1])
    BY <1>3, OneItemMore
  <1>6. /\ Len(t) = k + 1 /\ t[k + 1] = q[k + 1]
        /\ \A i \in 1 .. k : t[i] = q[i]
    BY <1>3, <1>4, <1>5, OneItemMore
  <1>7. \A i \in 1 .. Len(t) : t[i] = q[i]
    <2>1. \A i \in 1 .. k + 1 : i \in 1 .. k \/ i = k + 1
      OBVIOUS
    <2> QED
      BY <1>6, <2>1
  <1>8. t = q
    BY <1>6, <1>7, SameItems
  <1> QED
    BY <1>2, <1>3, <1>4, <1>5, <1>8

\* The number a text of digits is the numeral of is printed as that text.
Reprinted(d) ==
    LET n == Numeral(d)
    IN  n \in Nat /\ Decimal[n] = d /\ (d[1] # 48 => n >= 1)

LEMMA LastDigit ==
    \A q \in Nat, r \in 0 .. 9 : (10 * q + r) \div 10 = q /\ (10 * q + r) % 10 = r
  OBVIOUS

LEMMA OneDigitReprinted ==
    ASSUME NEW d \in DigitText, Len(d) = 1
    PROVE  Reprinted(d)
  <1>1. PICK n \in 0 .. 9 : d[1] = 48 + n
    <2>1. d[1] \in 48 .. 57
      <3>1. 1 \in 1 .. Len(d)
        OBVIOUS
      <3> QED
        BY <3>1, DigitTexts
    <2>2. d[1] - 48 \in 0 .. 9 /\ d[1] = 48 + (d[1] - 48)
      BY <2>1
    <2> QED
      BY <2>2
  <1>2. PICK c \in Int : c = d[1] /\ c = 48 + n
    BY <1>1
  <1>3. PICK o \in Seq(Int) : o = <<>>
    BY NoItems
  <1>4. d = <<c>> /\ Append(o, c) = d
    <2>1. PICK t \in Seq(Int) : t = Append(o, c)
      BY OneItemMore
    <2>2. Len(t) = 1 /\ t[1] = c
      BY <1>3, <2>1
    <2>3. Len(t) = Len(d) /\ \A i \in 1 .. Len(t) : t[i] = d[i]
      <3>1. \A i \in 1 .. Len(t) : i = 1
        BY <2>2
      <3> QED
        BY <1>2, <2>2, <3>1
    <2>4. d \in Seq(Int)
      BY DigitTexts
    <2>5. t = d
      BY <2>3, <2>4, SameItems
    <2>6. t = <<c>>
      BY <1>3, <2>1
    <2> QED
      BY <2>1, <2>5, <2>6
  <1>5. Numeral(d) = n
    <2>1. Numeral(Append(o, c)) = 10 * Numeral(o) + (c - 48) /\ Numeral(o) = 0
      BY <1>3, NumeralGrows
    <2>2. 10 * 0 + (c - 48) = n
      BY <1>2
    <2> QED
      BY <1>4, <2>1, <2>2
  <1>6. n \in Nat /\ n < 10
    OBVIOUS
  <1>7. Decimal[n] = <<48 + n>>
    <2>1. Decimal[n] = NextDecimal(Decimal, n)
      BY <1>6, DecimalIs
    <2> QED
      BY <1>6, <2>1 DEF NextDecimal
  <1>8. d[1] # 48 => n >= 1
    BY <1>1
  <1> QED
    BY <1>2, <1>4, <1>5, <1>6, <1>7, <1>8 DEF Reprinted

LEMMA MoreDigitsReprinted ==
    ASSUME NEW p \in DigitText, Len(p) >= 1, p[1] # 48, Reprinted(p), NEW r \in 0 .. 9
    PROVE  LET d == Append(p, 48 + r)
           IN  Reprinted(d)
  <1>1. PICK c \in Int : c = 48 + r
    OBVIOUS
  <1>2. PICK d : d = Append(p, c)
    OBVIOUS
  <1>3. PICK q \in Nat : q = Numeral(p) /\ Decimal[q] = p /\ q >= 1
    BY DEF Reprinted
  <1>4. PICK n \in Nat : n = 10 * q + r /\ n >= 10
    BY <1>3
  <1>5. Numeral(d) = n
    <2>1. p \in Seq(Int)
      BY DigitTexts
    <2>2. Numeral(Append(p, c)) = 10 * Numeral(p) + (c - 48)
      BY <2>1, NumeralGrows
    <2> QED
      BY <1>1, <1>2, <1>3, <1>4, <2>2
  <1>6. n \div 10 = q /\ n % 10 = r
    BY <1>4, LastDigit
  <1>7. Decimal[n] = Append(Decimal[q], 48 + r)
    <2>1. Decimal[n] = NextDecimal(Decimal, n)
      BY DecimalIs
    <2>2. ~(n < 10)
      BY <1>4
    <2> QED
      BY <1>6, <2>1, <2>2 DEF NextDecimal
  <1>8. n >= 1
    BY <1>4
  <1>9. Reprinted(d)
    BY <1>1, <1>2, <1>3, <1>5, <1>7, <1>8 DEF Reprinted
  <1> QED
    BY <1>1, <1>2, <1>9

\* So is every text of digits without leading zeros.
LEMMA DigitsReprinted ==
    ASSUME NEW d \in DigitText, Len(d) >= 1, Len(d) = 1 \/ d[1] # 48
    PROVE  Reprinted(d)
  <1> DEFINE T == {n \in Nat : \E t \in DigitText :
                      Len(t) = n /\ n >= 1 /\ (n = 1 \/ t[1] # 48) /\ ~Reprinted(t)}
  <1>1. ASSUME T # {} PROVE FALSE
    <2>1. PICK n \in T : \A j \in T : n <= j
      <3>1. T \in SUBSET Nat
        OBVIOUS
      <3> QED
        BY <1>1, <3>1, LeastNat
    <2>2. PICK t \in DigitText :
             Len(t) = n /\ n >= 1 /\ n \in Nat /\ (n = 1 \/ t[1] # 48) /\ ~Reprinted(t)
      OBVIOUS
    <2>3. n # 1
      BY <2>2, OneDigitReprinted
    <2>4. PICK k \in Nat : n = k + 1 /\ k >= 1
      <3>1. n - 1 \in Nat /\ n = (n - 1) + 1 /\ n - 1 >= 1
        BY <2>2, <2>3
      <3> QED
        BY <3>1
    <2>5. PICK p : p = SubSeq(t, 1, k)
      OBVIOUS
    <2>6. PICK D : D = 48 .. 57
      OBVIOUS
    <2>7. t \in Seq(D)
      BY <2>6 DEF DigitText
    <2>8. /\ p \in Seq(D) /\ Len(p) = k /\ \A i \in 1 .. k : p[i] = t[i]
          /\ t[k + 1] \in D /\ t = Append(p, t[k + 1])
      BY <2>2, <2>4, <2>5, <2>7, TakenApart
    <2>9. p \in DigitText /\ p[1] # 48
      <3>1. 1 \in 1 .. k
        BY <2>4
      <3> QED
        BY <2>2, <2>3, <2>6, <2>8, <3>1 DEF DigitText
    <2>10. Reprinted(p)
      <3>1. k \notin T
        BY <2>1, <2>4
      <3> QED
        BY <2>4, <2>8, <2>9, <3>1
    <2>11. PICK r \in 0 .. 9 : t[k + 1] = 48 + r
      <3>1. t[k + 1] \in 48 .. 57
        BY <2>6, <2>8
      <3>2. t[k + 1] - 48 \in 0 .. 9 /\ t[k + 1] = 48 + (t[k + 1] - 48)
        BY <3>1
      <3> QED
        BY <3>2
    <2>12. Reprinted(Append(p, 48 + r))
      BY <2>4, <2>8, <2>9, <2>10, MoreDigitsReprinted
    <2> QED
      BY <2>2, <2>8, <2>11, <2>12
  <1>2. Len(d) \in Nat
    BY DigitTexts
  <1> QED
    BY <1>1, <1>2

-----------------------------------------------------------------------------
(* First lines                                                             *)

LEMMA MinIs ==
    ASSUME NEW S \in SUBSET Int, NEW n \in S, \A k \in S : n <= k
    PROVE  Min(S) = n
  <1>1. ASSUME NEW x \in S, \A y \in S : x <= y PROVE x = n
    BY <1>1
  <1> QED
    BY <1>1 DEF Min

\* The first line of s has e characters.
LineEnds(s, e) ==
    /\ e \in 0 .. Len(s) /\ \A i \in 1 .. e : s[i] \notin LINE_END
    /\ e < Len(s) => s[e + 1] \in LINE_END

LEMMA LineIs ==
    ASSUME NEW s \in Text, NEW e, LineEnds(s, e)
    PROVE  Line(s) = SubSeq(s, 1, e)
  <1>1. PICK N \in Nat : N = Len(s) /\ DOMAIN s = 1 .. N
    BY TextItems
  <1>2. e \in 0 .. N /\ (\A i \in 1 .. e : s[i] \notin LINE_END) /\ (e < N => s[e + 1] \in LINE_END)
    BY <1>1 DEF LineEnds
  <1>3. PICK B : B = {i \in DOMAIN s : s[i] \in LINE_END} \cup {Len(s) + 1}
    OBVIOUS
  <1>4. B \in SUBSET Int /\ e + 1 \in B
    <2>1. e + 1 = N + 1 \/ e + 1 \in 1 .. N
      BY <1>2
    <2> QED
      BY <1>1, <1>2, <1>3, <2>1
  <1>5. ASSUME NEW i \in B PROVE e + 1 <= i
    <2>1. i = N + 1 \/ (i \in 1 .. N /\ s[i] \in LINE_END)
      BY <1>1, <1>3
    <2>2. i \in 1 .. N => i \in 1 .. e \/ e + 1 <= i
      BY <1>2
    <2> QED
      BY <1>2, <2>1, <2>2
  <1>6. Min(B) = e + 1
    BY <1>4, <1>5, MinIs
  <1>7. Min(B) - 1 = e
    BY <1>2, <1>6
  <1> QED
    BY <1>3, <1>7 DEF Line

LEMMA LineHas ==
    ASSUME NEW s \in Text
    PROVE  \E e : LineEnds(s, e)
  <1>1. PICK N \in Nat : N = Len(s)
    BY TextItems
  <1>2. PICK B : B = {i \in 0 .. N : i = N \/ s[i + 1] \in LINE_END}
    OBVIOUS
  <1>3. PICK e \in B : \A i \in B : e <= i
    <2>1. N \in B /\ B \in SUBSET Nat
      BY <1>2
    <2> QED
      BY <2>1, LeastNat
  <1>4. ASSUME NEW i \in 1 .. e PROVE s[i] \notin LINE_END
    <2>1. e \in 0 .. N
      BY <1>2
    <2>2. PICK j \in 0 .. N : i = j + 1 /\ j < e
      <3>1. i - 1 \in 0 .. N /\ i = (i - 1) + 1 /\ i - 1 < e
        BY <2>1
      <3> QED
        BY <3>1
    <2>3. j \notin B
      BY <1>3, <2>1, <2>2
    <2> QED
      BY <1>2, <2>2, <2>3
  <1>5. e \in 0 .. N /\ (e < N => s[e + 1] \in LINE_END)
    <2>1. e \in 0 .. N /\ (e = N \/ s[e + 1] \in LINE_END)
      BY <1>2
    <2> QED
      BY <2>1
  <1> QED
    BY <1>1, <1>4, <1>5 DEF LineEnds

LEMMA LineParts ==
    ASSUME NEW s \in Text, NEW e, LineEnds(s, e)
    PROVE  /\ Line(s) \in Seq(Int) /\ Len(Line(s)) = e /\ e \in Nat /\ e <= Len(s)
           /\ \A i \in 1 .. e : Line(s)[i] = s[i]
  <1>1. Line(s) = SubSeq(s, 1, e)
    BY LineIs
  <1>2. s \in Seq(Int) /\ e \in Nat /\ e <= Len(s)
    BY TextItems DEF LineEnds
  <1> QED
    BY <1>1, <1>2, FrontOf

LEMMA EmptyLine ==
    ASSUME NEW s \in Text
    PROVE  Line(s) = <<>> <=> Ends(s)
  <1>1. PICK e : LineEnds(s, e)
    BY LineHas
  <1>2. PICK N \in Nat : N = Len(s)
    BY TextItems
  <1>3. /\ e \in 0 .. N /\ (\A i \in 1 .. e : s[i] \notin LINE_END)
        /\ (e < N => s[e + 1] \in LINE_END)
    BY <1>1, <1>2 DEF LineEnds
  <1>4. PICK l \in Seq(Int) : l = Line(s) /\ Len(l) = e
    BY <1>1, LineParts
  <1>5. l = <<>> <=> e = 0
    BY <1>3, <1>4
  <1>6. s = <<>> <=> N = 0
    <2>1. s \in Seq(Int)
      BY TextItems
    <2> QED
      BY <1>2, <2>1
  <1>7. CASE e = 0
    <2>1. N = 0 \/ s[1] \in LINE_END
      BY <1>2, <1>3, <1>7
    <2> QED
      BY <1>4, <1>5, <1>6, <1>7, <2>1 DEF Ends
  <1>8. CASE e # 0
    <2>1. N # 0 /\ s[1] \notin LINE_END
      <3>1. 1 \in 1 .. e
        BY <1>3, <1>8
      <3> QED
        BY <1>3, <1>8, <3>1
    <2> QED
      BY <1>4, <1>5, <1>6, <1>8, <2>1 DEF Ends
  <1> QED
    BY <1>7, <1>8

-----------------------------------------------------------------------------
(* What strtol takes                                                       *)

\* strtol reads n digits after k signs.
ReadsDigits(s, k, n) ==
    /\ k \in {0, 1} /\ n \in Nat /\ k + n <= Len(s) /\ (k = 1 <=> s # <<>> /\ s[1] = 45)
    /\ \A i \in 1 .. n : IsDigit(s[k + i])
    /\ LET p == SubSeq(s, k + 1, k + n)
       IN  Strtol(s) = [value |-> IF k = 1 THEN - Numeral(p) ELSE Numeral(p),
                        rest |-> IF n = 0 THEN s ELSE SubSeq(s, k + n + 1, Len(s))]

LEMMA StrtolReads ==
    ASSUME NEW s \in Text
    PROVE  \E k, n : ReadsDigits(s, k, n)
  <1>1. PICK k \in {0, 1} : k = IF s # <<>> /\ s[1] = 45 THEN 1 ELSE 0
    OBVIOUS
  <1>2. PICK N \in Nat : N = Len(s) - k /\ Len(s) = N + k
    <2>1. PICK t \in Seq(Int) : t = s
      BY TextItems
    <2>2. Len(t) \in Nat /\ (k = 1 => Len(t) >= 1)
      BY <1>1, <2>1
    <2>3. Len(t) - k \in Nat /\ Len(t) = (Len(t) - k) + k
      BY <2>2
    <2> QED
      BY <2>1, <2>3
  <1>3. PICK n \in Nat : n = Max(Digits(s, k)) /\ n <= N /\ n \in Digits(s, k)
    <2>1. Digits(s, k) \in SUBSET (0 .. N)
      BY <1>2 DEF Digits
    <2>2. 0 \in Digits(s, k)
      BY <1>2 DEF Digits
    <2>3. Max(Digits(s, k)) \in Digits(s, k)
      BY <2>1, <2>2, MaxIn
    <2> QED
      BY <2>1, <2>3
  <1>4. ASSUME NEW i \in 1 .. n PROVE IsDigit(s[k + i])
    <2>1. k + i \in k + 1 .. k + n
      BY SMT
    <2> QED
      BY <1>3, <2>1 DEF Digits
  <1>5. k + n <= Len(s)
    BY <1>2, <1>3
  <1>6. k = 1 <=> s # <<>> /\ s[1] = 45
    BY <1>1
  <1>7. LET p == SubSeq(s, k + 1, k + n)
        IN  Strtol(s) = [value |-> IF k = 1 THEN - Numeral(p) ELSE Numeral(p),
                         rest |-> IF n = 0 THEN s ELSE SubSeq(s, k + n + 1, Len(s))]
    BY <1>1, <1>3, Zenon DEF Strtol
  <1> QED
    BY <1>4, <1>5, <1>6, <1>7 DEF ReadsDigits

\* t is a text of n digits with a sign.
MinusOf(t, d, n) ==
    /\ t \in Seq(Int) /\ t = <<45>> \o d /\ Len(t) = 1 + n /\ t[1] = 45
    /\ \A i \in 1 .. n : t[1 + i] = d[i]

LEMMA Minus ==
    ASSUME NEW d \in Seq(Int)
    PROVE  \E t : MinusOf(t, d, Len(d))
  <1>1. PICK c \in Int : c = 45
    OBVIOUS
  <1>2. PICK t : t = <<c>> \o d
    OBVIOUS
  <1>3. /\ t \in Seq(Int) /\ Len(t) = 1 + Len(d) /\ t[1] = c
        /\ \A i \in 1 .. Len(d) : t[1 + i] = d[i]
    BY <1>2, ShortItems
  <1>4. MinusOf(t, d, Len(d))
    BY <1>1, <1>2, <1>3 DEF MinusOf
  <1> QED
    BY <1>4

LEMMA NoDigits ==
    ASSUME NEW s \in Seq(Int), NEW k \in Nat
    PROVE  SubSeq(s, k + 1, k + 0) = <<>>
  <1>1. PICK p : p = SubSeq(s, k + 1, k + 0)
    OBVIOUS
  <1>2. p \in Seq(Int) /\ Len(p) = 0
    BY <1>1
  <1>3. <<>> \in Seq(Int) /\ Len(<<>>) = 0
    BY NoItems
  <1>4. p = <<>>
    BY <1>2
  <1> QED
    BY <1>1, <1>4

LEMMA RestStarts ==
    ASSUME NEW s \in Seq(Int), NEW j \in Nat, j <= Len(s)
    PROVE  LET r == SubSeq(s, j + 1, Len(s))
           IN  /\ r \in Seq(Int) /\ j + Len(r) = Len(s)
               /\ r = <<>> <=> j = Len(s)
               /\ j < Len(s) => r[1] = s[j + 1]
               /\ \A i \in 1 .. Len(r) : s[j + i] = r[i]
  <1>1. PICK N \in Nat : N = Len(s)
    OBVIOUS
  <1>2. PICK r : r = SubSeq(s, j + 1, N)
    OBVIOUS
  <1>3. r \in Seq(Int) /\ Len(r) = N - j
    BY <1>1, <1>2
  <1>4. \A i \in 1 .. N - j : r[i] = s[j + i]
    BY <1>1, <1>2
  <1>5. PICK m \in Nat : m = Len(r) /\ j + m = N
    <2>1. N - j \in Nat /\ j + (N - j) = N
      BY <1>1
    <2> QED
      BY <1>3, <2>1
  <1>6. r = <<>> <=> j = N
    BY <1>1, <1>3
  <1>7. j < N => r[1] = s[j + 1]
    <2> SUFFICES ASSUME j < N PROVE r[1] = s[j + 1]
      OBVIOUS
    <2>1. 1 \in 1 .. N - j
      BY <1>1
    <2> QED
      BY <1>4, <2>1
  <1>8. \A i \in 1 .. Len(r) : s[j + i] = r[i]
    BY <1>3, <1>4
  <1> QED
    BY <1>1, <1>2, <1>3, <1>5, <1>6, <1>7, <1>8

\* A sign and a text of digits are printed of the number they are read as.
LEMMA SignedReprinted ==
    ASSUME NEW k \in {0, 1}, NEW d \in DigitText, Len(d) >= 1, Len(d) = 1 \/ d[1] # 48,
           k = 1 => d[1] # 48
    PROVE  LET x == IF k = 1 THEN - Numeral(d) ELSE Numeral(d)
           IN  x \in Int /\ Printed(x) = IF k = 1 THEN <<45>> \o d ELSE d
  <1>1. Reprinted(d)
    BY DigitsReprinted
  <1>2. PICK n \in Nat : n = Numeral(d) /\ Decimal[n] = d /\ (k = 1 => n >= 1)
    BY <1>1 DEF Reprinted
  <1>3. CASE k = 1
    <2>1. - n < 0 /\ - (- n) = n /\ - n \in Int
      BY <1>2, <1>3
    <2>2. Printed(- n) = <<45>> \o Decimal[n]
      BY <2>1 DEF Printed
    <2> QED
      BY <1>2, <1>3, <2>1, <2>2
  <1>4. CASE k = 0
    <2>1. ~(n < 0) /\ n \in Int
      OBVIOUS
    <2>2. Printed(n) = Decimal[n]
      BY <2>1 DEF Printed
    <2> QED
      BY <1>2, <1>4, <2>1, <2>2
  <1> QED
    BY <1>3, <1>4

\* What strtol takes to the end of its line is the line, printed.
LEMMA TakenIsPrinted ==
    ASSUME NEW s \in Text, PlainNumeral(s), Ends(Strtol(s).rest)
    PROVE  LET x == Strtol(s).value
           IN  x \in Int /\ ((Line(s) = <<>> /\ x = 0) \/ Line(s) = Printed(x))
  <1>1. PICK k, n : ReadsDigits(s, k, n)
    BY StrtolReads
  <1>2. PICK p : p = SubSeq(s, k + 1, k + n)
    OBVIOUS
  <1>3. /\ k \in {0, 1} /\ n \in Nat /\ k + n <= Len(s) /\ (k = 1 <=> s # <<>> /\ s[1] = 45)
        /\ \A i \in 1 .. n : IsDigit(s[k + i])
        /\ Strtol(s).value = IF k = 1 THEN - Numeral(p) ELSE Numeral(p)
        /\ Strtol(s).rest = IF n = 0 THEN s ELSE SubSeq(s, k + n + 1, Len(s))
    BY <1>1, <1>2 DEF ReadsDigits
  <1>4. s \in Seq(Int) /\ k \in Nat /\ Len(s) \in Nat
    BY <1>3, TextItems
  <1>5. CASE n = 0
    <2>1. Ends(s) /\ Line(s) = <<>>
      BY <1>3, <1>5, EmptyLine
    <2>2. k # 1
      BY <1>3, <2>1 DEF Ends, LINE_END
    <2>3. p = <<>>
      BY <1>2, <1>4, <1>5, NoDigits
    <2>4. Numeral(p) = 0
      <3>1. p \in Seq(Int) /\ 0 \in Int
        BY <2>3, NoItems
      <3> QED
        BY <2>3, <3>1, NumeralGrows
    <2> QED
      BY <1>3, <2>1, <2>2, <2>4
  <1>6. CASE n # 0
    <2>1. PICK j \in Nat : j = k + n /\ j <= Len(s)
      BY <1>3, <1>4
    <2>2. PICK d \in DigitText : d = p /\ Len(d) = n /\ \A i \in 1 .. n : d[i] = s[k + i]
      <3>1. p \in Seq(Int) /\ Len(p) = n /\ \A i \in 1 .. n : p[i] = s[k + i]
        BY <1>2, <1>3, <1>4
      <3>2. PICK D : D = 48 .. 57
        OBVIOUS
      <3>3. \A i \in 1 .. n : p[i] \in D
        BY <1>3, <3>1, <3>2 DEF IsDigit
      <3>4. p \in Seq(D)
        BY <3>1, <3>3, ItemsIn
      <3> QED
        BY <3>1, <3>2, <3>4 DEF DigitText
    <2>3. n >= 1 /\ 1 \in 1 .. n /\ d[1] = s[k + 1]
      <3>1. n >= 1 /\ 1 \in 1 .. n
        BY <1>3, <1>6
      <3> QED
        BY <2>2, <3>1
    <2>4. d[1] = 48 => k = 0 /\ n = 1
      <3> SUFFICES ASSUME d[1] = 48 PROVE k = 0 /\ n = 1
        OBVIOUS
      <3>1. PICK first : first = IF s # <<>> /\ s[1] = 45 THEN 2 ELSE 1
        OBVIOUS
      <3>2. first = k + 1 /\ first \in DOMAIN s
        BY <1>3, <1>4, <2>3, <3>1
      <3>3. first = 1 /\ (Len(s) = 1 \/ ~IsDigit(s[2]))
        BY <2>3, <3>1, <3>2 DEF PlainNumeral
      <3>4. k = 0
        BY <1>3, <3>2, <3>3
      <3>5. n >= 2 => Len(s) # 1 /\ IsDigit(s[2])
        <4>1. n >= 2 => 2 \in 1 .. n /\ k + 2 = 2
          BY <1>3, <3>4
        <4> QED
          BY <1>3, <1>4, <3>4, <4>1
      <3> QED
        BY <1>3, <2>3, <3>3, <3>4, <3>5
    <2>5. PICK x \in Int : x = Strtol(s).value /\ Printed(x) = IF k = 1 THEN <<45>> \o d ELSE d
      <3>1. LET x == IF k = 1 THEN - Numeral(d) ELSE Numeral(d)
            IN  x \in Int /\ Printed(x) = IF k = 1 THEN <<45>> \o d ELSE d
        <4>1. k \in {0, 1} /\ Len(d) >= 1 /\ (Len(d) = 1 \/ d[1] # 48) /\ (k = 1 => d[1] # 48)
          BY <1>3, <2>2, <2>3, <2>4
        <4> QED
          BY <4>1, SignedReprinted
      <3> QED
        BY <1>3, <2>2, <3>1
    <2>6. LineEnds(s, j)
      <3>1. ASSUME NEW i \in 1 .. j PROVE s[i] \notin LINE_END
        <4>1. (k = 1 /\ i = 1) \/ i - k \in 1 .. n
          BY <1>3, <2>1
        <4>2. CASE k = 1 /\ i = 1
          BY <1>3, <4>2 DEF LINE_END
        <4>3. CASE i - k \in 1 .. n
          <5>1. k + (i - k) = i
            BY <1>4
          <5>2. IsDigit(s[i])
            BY <1>3, <4>3, <5>1
          <5> QED
            BY <5>2 DEF IsDigit, LINE_END
        <4> QED
          BY <4>1, <4>2, <4>3
      <3>2. j < Len(s) => s[j + 1] \in LINE_END
        <4>1. PICK r : r = SubSeq(s, j + 1, Len(s))
          OBVIOUS
        <4>2. Ends(r)
          BY <1>3, <1>6, <2>1, <4>1
        <4>3. (r = <<>> <=> j = Len(s)) /\ (j < Len(s) => r[1] = s[j + 1])
          BY <1>4, <2>1, <4>1, RestStarts
        <4> QED
          BY <1>4, <4>2, <4>3 DEF Ends
      <3>3. j \in 0 .. Len(s)
        BY <1>4, <2>1
      <3> QED
        BY <3>1, <3>2, <3>3 DEF LineEnds
    <2>7. PICK l \in Seq(Int) : l = Line(s) /\ Len(l) = j /\ \A i \in 1 .. j : l[i] = s[i]
      BY <2>6, LineParts
    <2>8. PICK t \in Seq(Int) : t = Printed(x) /\ Len(t) = j /\ \A i \in 1 .. j : t[i] = s[i]
      <3>1. d \in Seq(Int)
        BY DigitTexts
      <3>2. CASE k = 0
        <4>1. Printed(x) = d /\ j = n /\ \A i \in 1 .. n : k + i = i
          BY <1>3, <2>1, <2>5, <3>2
        <4> QED
          BY <2>2, <3>1, <4>1
      <3>3. CASE k = 1
        <4>1. PICK t \in Seq(Int) : t = <<45>> \o d /\ Len(t) = 1 + n /\ t[1] = 45
                 /\ \A i \in 1 .. n : t[1 + i] = d[i]
          <5>1. PICK t : MinusOf(t, d, n)
            BY <2>2, <3>1, Minus, Zenon
          <5> QED
            BY <5>1 DEF MinusOf
        <4>2. ASSUME NEW i \in 1 .. j PROVE t[i] = s[i]
          <5>1. i = 1 \/ (i - 1 \in 1 .. n /\ 1 + (i - 1) = i)
            BY <1>3, <2>1, <3>3
          <5>2. CASE i = 1
            BY <1>3, <3>3, <4>1, <5>2
          <5>3. CASE i - 1 \in 1 .. n /\ 1 + (i - 1) = i
            BY <2>2, <3>3, <4>1, <5>3
          <5> QED
            BY <5>1, <5>2, <5>3
        <4> QED
          BY <2>1, <2>5, <3>3, <4>1, <4>2
      <3> QED
        BY <1>3, <3>2, <3>3
    <2>9. l = t
      BY <2>7, <2>8, SameItems
    <2> QED
      BY <2>5, <2>7, <2>8, <2>9
  <1> QED
    BY <1>5, <1>6

\* What a number is printed as
LEMMA PrintedIs ==
    ASSUME NEW x \in Int
    PROVE  \E k \in {0, 1}, d \in DigitText :
              /\ Len(d) >= 1 /\ Printed(x) \in Seq(Int) /\ Len(Printed(x)) = k + Len(d)
              /\ \A i \in 1 .. Len(d) : Printed(x)[k + i] = d[i]
              /\ k = 1 <=> Printed(x)[1] = 45
  <1>1. PICK a \in Nat : a = IF x < 0 THEN - x ELSE x
    OBVIOUS
  <1>2. PICK d \in DigitText : d = Decimal[a]
    BY DecimalIs
  <1>3. PICK n \in Nat : n = Len(d) /\ n >= 1 /\ d \in Seq(Int) /\ \A i \in 1 .. n : d[i] \in 48 .. 57
    BY <1>2, DecimalIsRead, DigitTexts
  <1>4. CASE x < 0
    <2>1. Printed(x) = <<45>> \o d
      BY <1>1, <1>2, <1>4 DEF Printed
    <2>2. PICK t \in Seq(Int) : t = <<45>> \o d /\ Len(t) = 1 + n /\ t[1] = 45
             /\ \A i \in 1 .. n : t[1 + i] = d[i]
      <3>1. d \in Seq(Int) /\ n = Len(d)
        BY <1>3
      <3>2. PICK t : MinusOf(t, d, n)
        BY <3>1, Minus, Zenon
      <3> QED
        BY <3>2 DEF MinusOf
    <2>3. 1 \in {0, 1}
      OBVIOUS
    <2> QED
      BY <1>3, <2>1, <2>2, <2>3
  <1>5. CASE ~(x < 0)
    <2>1. Printed(x) = d
      BY <1>1, <1>2, <1>5 DEF Printed
    <2>2. d[1] # 45
      <3>1. 1 \in 1 .. n
        BY <1>3
      <3>2. d[1] \in 48 .. 57
        BY <1>3, <3>1, Zenon
      <3> QED
        BY <3>2
    <2>3. 0 \in {0, 1} /\ 0 # 1 /\ 0 + n = n /\ \A i \in 1 .. n : 0 + i = i
      OBVIOUS
    <2> QED
      BY <1>3, <2>1, <2>2, <2>3
  <1> QED
    BY <1>4, <1>5

\* A line that is empty or printed of a number is taken to its end.
LEMMA PrintedIsTaken ==
    ASSUME NEW s \in Text, Line(s) = <<>> \/ \E x \in Int : Line(s) = Printed(x)
    PROVE  Ends(Strtol(s).rest)
  <1>1. s \in Seq(Int) /\ Len(s) \in Nat
    BY TextItems
  <1>2. CASE Line(s) = <<>>
    <2>1. Ends(s)
      BY <1>2, EmptyLine
    <2>2. PICK k, n : ReadsDigits(s, k, n)
      BY StrtolReads
    <2>3. /\ k \in {0, 1} /\ n \in Nat /\ k + n <= Len(s) /\ (k = 1 <=> s # <<>> /\ s[1] = 45)
          /\ \A i \in 1 .. n : IsDigit(s[k + i])
          /\ Strtol(s).rest = IF n = 0 THEN s ELSE SubSeq(s, k + n + 1, Len(s))
      BY <2>2 DEF ReadsDigits
    <2>4. n = 0
      <3>1. SUFFICES ASSUME n # 0 PROVE FALSE
        OBVIOUS
      <3>2. s # <<>> /\ s[1] \in LINE_END
        BY <1>1, <2>1, <2>3, <3>1 DEF Ends
      <3>3. k = 0
        BY <2>3, <3>2 DEF LINE_END
      <3>4. 1 \in 1 .. n /\ k + 1 = 1
        BY <2>3, <3>1, <3>3
      <3>5. IsDigit(s[1])
        BY <2>3, <3>4
      <3> QED
        BY <3>2, <3>5 DEF IsDigit, LINE_END
    <2> QED
      BY <2>1, <2>3, <2>4
  <1>3. ASSUME NEW x \in Int, Line(s) = Printed(x) PROVE Ends(Strtol(s).rest)
    <2>1. PICK e : LineEnds(s, e)
      BY LineHas
    <2>2. PICK t \in Seq(Int) : t = Line(s) /\ Len(t) = e /\ e \in Nat /\ e <= Len(s)
             /\ \A i \in 1 .. e : t[i] = s[i]
      BY <2>1, LineParts
    <2>3. PICK k \in {0, 1}, d \in DigitText :
             /\ Len(d) >= 1 /\ e = k + Len(d)
             /\ \A i \in 1 .. Len(d) : t[k + i] = d[i]
             /\ k = 1 <=> t[1] = 45
      <3>1. PICK k \in {0, 1}, d \in DigitText :
               /\ Len(d) >= 1 /\ Len(Printed(x)) = k + Len(d)
               /\ \A i \in 1 .. Len(d) : Printed(x)[k + i] = d[i]
               /\ k = 1 <=> Printed(x)[1] = 45
        BY PrintedIs
      <3>2. t = Printed(x) /\ Len(t) = e
        BY <1>3, <2>2
      <3>3. /\ Len(d) >= 1 /\ e = k + Len(d) /\ \A i \in 1 .. Len(d) : t[k + i] = d[i]
            /\ k = 1 <=> t[1] = 45
        BY <3>1, <3>2
      <3> QED
        BY <3>3
    <2>4. PICK n \in Nat : n = Len(d) /\ n >= 1 /\ e = k + n
      BY <2>3, DigitTexts
    <2>5. PICK r \in Seq(Int) : /\ r = SubSeq(s, e + 1, Len(s)) /\ e + Len(r) = Len(s)
                                /\ (r = <<>> <=> e = Len(s)) /\ (e < Len(s) => r[1] = s[e + 1])
                                /\ \A i \in 1 .. Len(r) : s[e + i] = r[i]
      <3>1. LET r == SubSeq(s, e + 1, Len(s))
            IN  /\ r \in Seq(Int) /\ e + Len(r) = Len(s)
                /\ r = <<>> <=> e = Len(s)
                /\ e < Len(s) => r[1] = s[e + 1]
                /\ \A i \in 1 .. Len(r) : s[e + i] = r[i]
        BY <1>1, <2>2, RestStarts
      <3> QED
        BY <3>1
    <2>6. Ends(r)
      <3>1. e < Len(s) => s[e + 1] \in LINE_END
        BY <2>1 DEF LineEnds
      <3> QED
        BY <1>1, <2>2, <2>5, <3>1 DEF Ends
    <2>7. r = <<>> \/ ~IsDigit(r[1])
      BY <2>6 DEF Ends, IsDigit, LINE_END
    <2>8. \A i \in 1 .. n : s[k + i] = d[i]
      <3>1. \A i \in 1 .. n : k + i \in 1 .. e
        BY <2>4
      <3> QED
        BY <2>2, <2>3, <2>4, <3>1
    <2>9. k = 1 <=> s[1] = 45
      <3>1. 1 \in 1 .. e
        BY <2>4
      <3> QED
        BY <2>2, <2>3, <3>1
    <2>10. Strtol(s).rest = r
      <3>1. /\ Len(s) = k + Len(d) + Len(r)
            /\ \A i \in 1 .. Len(d) : s[k + i] = d[i]
            /\ \A i \in 1 .. Len(r) : s[k + Len(d) + i] = r[i]
        BY <1>1, <2>4, <2>5, <2>8
      <3>2. Strtol(s) = [value |-> IF k = 1 THEN - Numeral(d) ELSE Numeral(d), rest |-> r]
        BY <1>1, <2>3, <2>7, <2>9, <3>1, DigitsAreRead
      <3> QED
        BY <3>2
    <2> QED
      BY <2>6, <2>10
  <1> QED
    BY <1>2, <1>3

-----------------------------------------------------------------------------
(* Numbers as bytes: what is below a power of 256, and what is above it    *)

Part1 == 256
Part2 == 65536
Part4 == 65536 * 65536
Part8 == Part4 * Part4

LEMMA PartsAre ==
    /\ Part1 \in Int /\ Part2 \in Int /\ Part4 \in Int /\ Part8 \in Int
    /\ Part1 * Part1 = Part2 /\ Part2 * Part2 = Part4 /\ Part4 * Part4 = Part8
    /\ Width(1) = Part1 /\ Width(2) = Part2 /\ Width(4) = Part4 /\ Width(8) = Part8
  <1>1. Part1 \in Int /\ Part2 \in Int /\ Part1 * Part1 = Part2
    BY DEF Part1, Part2
  <1>2. Part4 \in Int /\ Part2 * Part2 = Part4
    BY DEF Part2, Part4
  <1>3. Part8 \in Int /\ Part4 * Part4 = Part8
    BY <1>2 DEF Part8
  <1>4. Width(1) = Part1 /\ Width(2) = Part2
    BY Widths DEF Part1, Part2
  <1>5. Width(4) = Part4
    BY Widths DEF Part4
  <1>6. \A x \in Int : 65536 * (65536 * x) = Part4 * x
    BY DEF Part4
  <1>7. Width(8) = Part8
    <2>1. Width(8) = 65536 * (65536 * Part4)
      BY <1>5, Widths
    <2>2. 65536 * (65536 * Part4) = Part4 * Part4
      BY <1>2, <1>6
    <2> QED
      BY <1>3, <2>1, <2>2
  <1> QED
    BY <1>1, <1>2, <1>3, <1>4, <1>5, <1>7

Above(v, u, w, q) == v \in Int /\ u \in Int /\ w \in Int /\ q \in Int /\ v = u + w * q

LEMMA AboveTwice ==
    ASSUME NEW v, NEW u, NEW w, NEW q, NEW y, NEW r, Above(v, u, w, q), Above(q, y, w, r)
    PROVE  Above(v, u + w * y, w * w, r)
  <1>1. /\ v \in Int /\ u \in Int /\ w \in Int /\ q \in Int /\ y \in Int /\ r \in Int
        /\ v = u + w * q /\ q = y + w * r
    BY DEF Above
  <1>2. \A b, c, d, e \in Int : b + c * (d + c * e) = b + c * d + c * c * e
    BY SMT
  <1>3. v = u + w * y + w * w * r
    BY <1>1, <1>2
  <1> QED
    BY <1>1, <1>3 DEF Above

LEMMA AboveOne ==
    ASSUME NEW v \in Int, NEW i \in Nat, NEW m, NEW a \in Nat, m[a] = Digit(v, i)
    PROVE  Above(Rest(v, i), Load1(m, a), Part1, Rest(v, i + 1))
  <1>1. PICK d \in Nat \ {0} : d = Width(i) /\ 256 * d = Width(i + 1)
    BY Wider
  <1>2. PICK q \in Int : q = v \div d /\ Rest(v, i) = q
    BY <1>1, Shifted DEF Rest
  <1>3. q \div 256 = v \div (256 * d)
    BY <1>1, <1>2, ShiftedOn
  <1>4. PICK w \in Int : w = q \div 256 /\ w = Rest(v, i + 1)
    <2>1. Rest(v, i + 1) = q \div 256
      BY <1>1, <1>3 DEF Rest
    <2>2. Rest(v, i + 1) \in Int
      BY ByteTypes
    <2> QED
      BY <2>1, <2>2
  <1>5. q = (q % 256) + 256 * (q \div 256)
    BY SMT
  <1>6. PICK b \in Int : b = q % 256 /\ b = Digit(v, i)
    BY <1>2 DEF Digit
  <1>7. q = b + Part1 * w
    BY <1>4, <1>5, <1>6 DEF Part1
  <1>8. Load1(m, a) = b
    BY <1>6 DEF Load1
  <1> QED
    BY <1>2, <1>4, <1>6, <1>7, <1>8, PartsAre DEF Above

LEMMA AboveTwo ==
    ASSUME NEW v \in Int, NEW i \in Nat, NEW m, NEW a \in Nat,
           m[a] = Digit(v, i), m[a + 1] = Digit(v, i + 1)
    PROVE  Above(Rest(v, i), Load2(m, a), Part2, Rest(v, i + 2))
  <1>1. PICK j \in Nat, b \in Nat : j = i + 1 /\ j + 1 = i + 2 /\ b = a + 1
    OBVIOUS
  <1>2. Above(Rest(v, i), Load1(m, a), Part1, Rest(v, j))
    BY <1>1, AboveOne, Zenon
  <1>3. Above(Rest(v, j), Load1(m, b), Part1, Rest(v, i + 2))
    <2>1. m[b] = Digit(v, j)
      BY <1>1, Zenon
    <2> QED
      BY <1>1, <2>1, AboveOne, Zenon
  <1>4. Above(Rest(v, i), Load1(m, a) + Part1 * Load1(m, b), Part1 * Part1, Rest(v, i + 2))
    BY <1>2, <1>3, AboveTwice, Zenon
  <1>5. Load2(m, a) = Load1(m, a) + Part1 * Load1(m, b)
    BY <1>1 DEF Load2, Part1
  <1> QED
    BY <1>4, <1>5, PartsAre, Zenon

LEMMA AboveFour ==
    ASSUME NEW v \in Int, NEW i \in Nat, NEW m, NEW a \in Nat,
           m[a] = Digit(v, i), m[a + 1] = Digit(v, i + 1),
           m[a + 2] = Digit(v, i + 2), m[a + 3] = Digit(v, i + 3)
    PROVE  Above(Rest(v, i), Load4(m, a), Part4, Rest(v, i + 4))
  <1>1. PICK j \in Nat, b \in Nat :
           j = i + 2 /\ j + 1 = i + 3 /\ j + 2 = i + 4 /\ b = a + 2 /\ b + 1 = a + 3
    OBVIOUS
  <1>2. Above(Rest(v, i), Load2(m, a), Part2, Rest(v, j))
    BY <1>1, AboveTwo, Zenon
  <1>3. Above(Rest(v, j), Load2(m, b), Part2, Rest(v, i + 4))
    <2>1. m[b] = Digit(v, j) /\ m[b + 1] = Digit(v, j + 1)
      BY <1>1, Zenon
    <2> QED
      BY <1>1, <2>1, AboveTwo, Zenon
  <1>4. Above(Rest(v, i), Load2(m, a) + Part2 * Load2(m, b), Part2 * Part2, Rest(v, i + 4))
    BY <1>2, <1>3, AboveTwice, Zenon
  <1>5. Load4(m, a) = Load2(m, a) + Part2 * Load2(m, b)
    BY <1>1 DEF Load4, Part2
  <1> QED
    BY <1>4, <1>5, PartsAre, Zenon

LEMMA AboveEight ==
    ASSUME NEW v \in Int, NEW m, NEW a \in Nat,
           \A i \in 0 .. 7 : m[a + i] = Digit(v, i)
    PROVE  Above(Rest(v, 0), Load8(m, a), Part8, Rest(v, 8))
  <1>1. PICK z \in Nat, j \in Nat, b \in Nat :
           /\ z = 0 /\ z + 1 = 1 /\ z + 2 = 2 /\ z + 3 = 3 /\ z + 4 = j
           /\ j = 4 /\ j + 1 = 5 /\ j + 2 = 6 /\ j + 3 = 7 /\ j + 4 = 8
           /\ b = a + 4 /\ b + 1 = a + 5 /\ b + 2 = a + 6 /\ b + 3 = a + 7 /\ a + 0 = a
    OBVIOUS
  <1>2. Above(Rest(v, 0), Load4(m, a), Part4, Rest(v, j))
    <2>1. m[a] = Digit(v, 0) /\ m[a + 1] = Digit(v, 1) /\ m[a + 2] = Digit(v, 2) /\ m[a + 3] = Digit(v, 3)
      <3>1. 0 \in 0 .. 7 /\ 1 \in 0 .. 7 /\ 2 \in 0 .. 7 /\ 3 \in 0 .. 7
        OBVIOUS
      <3> QED
        BY <1>1, <3>1, Zenon
    <2>2. /\ m[a] = Digit(v, z) /\ m[a + 1] = Digit(v, z + 1)
          /\ m[a + 2] = Digit(v, z + 2) /\ m[a + 3] = Digit(v, z + 3)
      BY <1>1, <2>1, Zenon
    <2>3. Above(Rest(v, z), Load4(m, a), Part4, Rest(v, z + 4))
      BY <2>2, AboveFour, Zenon
    <2> QED
      BY <1>1, <2>3, Zenon
  <1>3. Above(Rest(v, j), Load4(m, b), Part4, Rest(v, 8))
    <2>1. m[a + 4] = Digit(v, 4) /\ m[a + 5] = Digit(v, 5) /\ m[a + 6] = Digit(v, 6) /\ m[a + 7] = Digit(v, 7)
      <3>1. 4 \in 0 .. 7 /\ 5 \in 0 .. 7 /\ 6 \in 0 .. 7 /\ 7 \in 0 .. 7
        OBVIOUS
      <3> QED
        BY <3>1, Zenon
    <2>2. /\ m[b] = Digit(v, j) /\ m[b + 1] = Digit(v, j + 1)
          /\ m[b + 2] = Digit(v, j + 2) /\ m[b + 3] = Digit(v, j + 3)
      BY <1>1, <2>1, Zenon
    <2>3. Above(Rest(v, j), Load4(m, b), Part4, Rest(v, j + 4))
      BY <2>2, AboveFour, Zenon
    <2> QED
      BY <1>1, <2>3, Zenon
  <1>4. Above(Rest(v, 0), Load4(m, a) + Part4 * Load4(m, b), Part4 * Part4, Rest(v, 8))
    BY <1>2, <1>3, AboveTwice, Zenon
  <1>5. Load8(m, a) = Load4(m, a) + Part4 * Load4(m, b)
    <2>1. PICK y \in Int : y = Load4(m, b)
      BY <1>3 DEF Above
    <2>2. 65536 * (65536 * y) = Part4 * y
      BY DEF Part4
    <2>3. Load8(m, a) = Load4(m, a) + 65536 * (65536 * y)
      BY <1>1, <2>1 DEF Load8
    <2> QED
      BY <2>1, <2>2, <2>3
  <1> QED
    BY <1>4, <1>5, PartsAre, Zenon

\* What n bytes hold of a number is the number, but for a multiple of their
\* width.
ShortBy(v, u, w) == \E r \in Int : v = u + w * r

LEMMA LoadedShort ==
    ASSUME NEW v \in Int, NEW n \in {1, 2, 4, 8}, NEW m, NEW a \in Nat,
           \A i \in 0 .. n - 1 : m[a + i] = Digit(v, i)
    PROVE  ShortBy(v, LoadUnsigned(m, a, n), Width(n))
  <1>1. Rest(v, 0) = v
    <2>1. 0 \in Nat
      OBVIOUS
    <2> QED
      BY <2>1, ByteTypes, Zenon
  <1>2. \A u, w, q : Above(v, u, w, q) => ShortBy(v, u, w)
    BY Zenon DEF Above, ShortBy
  <1>3. m[a] = Digit(v, 0)
    <2>1. 0 \in 0 .. n - 1 /\ a + 0 = a
      OBVIOUS
    <2> QED
      BY <2>1, Zenon
  <1>4. PICK z \in Nat : z = 0 /\ z + 1 = 1 /\ z + 2 = 2 /\ z + 3 = 3
    OBVIOUS
  <1>5. m[a] = Digit(v, z) /\ Rest(v, z) = v
    BY <1>1, <1>3, <1>4, Zenon
  <1>6. n # 1 => m[a + 1] = Digit(v, z + 1)
    <2>1. n # 1 => 1 \in 0 .. n - 1
      OBVIOUS
    <2> QED
      BY <1>4, <2>1, Zenon
  <1>7. CASE n = 1
    <2>1. Above(v, Load1(m, a), Part1, Rest(v, z + 1))
      BY <1>5, AboveOne, Zenon
    <2>2. LoadUnsigned(m, a, n) = Load1(m, a) /\ Width(n) = Part1
      BY <1>7, PartsAre DEF LoadUnsigned
    <2> QED
      BY <1>2, <2>1, <2>2, Zenon
  <1>8. CASE n = 2
    <2>1. Above(v, Load2(m, a), Part2, Rest(v, z + 2))
      <3>1. m[a + 1] = Digit(v, z + 1)
        BY <1>6, <1>8
      <3> QED
        BY <1>5, <3>1, AboveTwo, Zenon
    <2>2. LoadUnsigned(m, a, n) = Load2(m, a) /\ Width(n) = Part2
      BY <1>8, PartsAre DEF LoadUnsigned
    <2> QED
      BY <1>2, <2>1, <2>2, Zenon
  <1>9. CASE n = 4
    <2>1. Above(v, Load4(m, a), Part4, Rest(v, z + 4))
      <3>1. m[a + 1] = Digit(v, z + 1)
        BY <1>6, <1>9
      <3>2. m[a + 2] = Digit(v, z + 2) /\ m[a + 3] = Digit(v, z + 3)
        <4>1. 2 \in 0 .. n - 1 /\ 3 \in 0 .. n - 1
          BY <1>9
        <4> QED
          BY <1>4, <4>1, Zenon
      <3> QED
        BY <1>5, <3>1, <3>2, AboveFour, Zenon
    <2>2. LoadUnsigned(m, a, n) = Load4(m, a) /\ Width(n) = Part4
      BY <1>9, PartsAre DEF LoadUnsigned
    <2> QED
      BY <1>2, <2>1, <2>2, Zenon
  <1>10. CASE n = 8
    <2>1. Above(v, Load8(m, a), Part8, Rest(v, 8))
      <3>1. \A i \in 0 .. 7 : m[a + i] = Digit(v, i)
        BY <1>10
      <3> QED
        BY <1>1, <3>1, AboveEight, Zenon
    <2>2. LoadUnsigned(m, a, n) = Load8(m, a) /\ Width(n) = Part8
      BY <1>10, PartsAre DEF LoadUnsigned
    <2> QED
      BY <1>2, <2>1, <2>2, Zenon
  <1> QED
    BY <1>7, <1>8, <1>9, <1>10

\* Number u is what number x becomes in n bytes.
Narrowed(x, u, n) ==
    u \in Int /\ 0 <= u /\ u < Width(n) /\ ShortBy(x, u, Width(n))

\* A number stored, and read again
LEMMA NumberStored ==
    ASSUME TextLayout, Kept(mem), NEW v \in TextViews, v[2].type # "char_arr",
           "WRITE" \in v[2].flags, NEW x \in Int,
           v[2].type \in DOMAIN Members => x \in Members[v[2].type]
    PROVE  LET T == v[2].type
               o == set_field(T, mem, v[1][1], v[2], Bytes(x, SizeOf[T]))
           IN  o.res = "OK" /\ Narrowed(x, LoadUnsigned(o.mem, FirstCell(v), SizeOf[T]), SizeOf[T])
  <1>1. PICK T : T = v[2].type
    OBVIOUS
  <1>2. PICK at \in Nat : at = FirstCell(v)
    BY TextCells
  <1>3. PICK n \in {1, 2, 4, 8} : n = SizeOf[T] /\ n = v[2].size /\ n <= MaxCopy
    BY <1>1, ScalarView, TextCells
  <1>4. MaxCopy \in Nat /\ n \in Nat
    BY TextCells
  <1>5. PICK src \in [0 .. MaxCopy - 1 -> Byte] :
           src = Bytes(x, n) /\ \A i \in 0 .. MaxCopy - 1 : i < n => src[i] = Digit(x, i)
    BY <1>4, BytesAre
  <1>6. T \in DOMAIN Members => src[0] \in Members[T]
    <2> SUFFICES ASSUME T \in DOMAIN Members PROVE src[0] \in Members[T]
      OBVIOUS
    <2>1. x \in 0 .. 255 /\ x \in Members[T]
      BY <1>1 DEF TextLayout
    <2>2. src[0] = Digit(x, 0)
      BY <1>3, <1>4, <1>5
    <2>3. Rest(x, 0) = x
      BY <1>4, ByteTypes
    <2>4. x % 256 = x
      BY <2>1, SmallIsLow
    <2>5. Digit(x, 0) = x
      BY <2>3, <2>4, Zenon DEF Digit
    <2>6. x \in Members[T]
      BY <2>1
    <2> QED
      BY <2>2, <2>5, <2>6, Zenon
  <1>7. set_field(T, mem, v[1][1], v[2], src) = CopyIn(mem, at, src, n)
    BY <1>1, <1>2, <1>3, <1>6, BytesTaken
  <1>8. PICK m : m = CopyIn(mem, at, src, n).mem
                 /\ \A a \in Addr : a \in Span(at, n) => m[a] = src[a - at]
    <2>1. \A a \in Addr : a \in Span(at, n) => CopyIn(mem, at, src, n).mem[a] = src[a - at]
      BY DEF CopyIn
    <2> QED
      BY <2>1, Zenon
  <1>9. ASSUME NEW i \in 0 .. n - 1 PROVE m[at + i] = Digit(x, i) /\ m[at + i] \in Byte
    <2>1. PICK a \in Nat : a = at + i /\ a \in Span(at, n) /\ a - at = i
                            /\ i \in 0 .. MaxCopy - 1 /\ i < n
      BY <1>3, <1>4 DEF Span
    <2>2. a \in Addr
      BY <1>2, <1>3, <2>1, TextCells
    <2>3. m[a] = src[i]
      BY <1>8, <2>1, <2>2, Zenon
    <2>4. m[at + i] = src[i]
      BY <2>1, <2>3
    <2> QED
      BY <1>5, <2>1, <2>4
  <1>10. Narrowed(x, LoadUnsigned(m, at, n), n)
    <2>1. ShortBy(x, LoadUnsigned(m, at, n), Width(n))
      BY <1>9, LoadedShort
    <2>2. /\ LoadUnsigned(m, at, n) \in Int /\ 0 <= LoadUnsigned(m, at, n)
          /\ LoadUnsigned(m, at, n) < Width(n)
      BY <1>9, LoadedFits
    <2> QED
      BY <2>1, <2>2 DEF Narrowed
  <1>11. CopyIn(mem, at, src, n).res = "OK"
    BY DEF CopyIn
  <1> QED
    BY <1>1, <1>2, <1>3, <1>5, <1>7, <1>8, <1>10, <1>11

-----------------------------------------------------------------------------
(* What a text means as a number                                           *)

\* A number that misses a width by a factor of two at most
LEMMA FewWidths ==
    ASSUME NEW w \in Nat \ {0}, NEW u \in 0 .. w - 1, NEW r \in Int,
           NEW x \in - (2 * w) .. 3 * w - 1, x = u + w * r
    PROVE  r \in -2 .. 2 /\ u + r * w = x /\ (x = 0 => u = 0)
  <1>1. u + r * w = x /\ w * r = x - u
    BY SMT
  <1>2. r \notin {d \in Int : d >= 3}
    <2> SUFFICES ASSUME r >= 3 PROVE FALSE
      OBVIOUS
    <2>1. PICK e \in Nat : r = 3 + e
      <3>1. r - 3 \in Nat /\ r = 3 + (r - 3)
        OBVIOUS
      <3> QED
        BY <3>1
    <2>2. PICK y \in Nat : y = w * e
      OBVIOUS
    <2>3. w * r = 3 * w + y
      BY <2>1, <2>2
    <2> QED
      BY <1>1, <2>2, <2>3
  <1>3. r \notin {d \in Int : d <= -3}
    <2> SUFFICES ASSUME r <= -3 PROVE FALSE
      OBVIOUS
    <2>1. PICK e \in Nat : r = -3 - e
      <3>1. -3 - r \in Nat /\ r = -3 - (-3 - r)
        OBVIOUS
      <3> QED
        BY <3>1
    <2>2. PICK y \in Nat : y = w * e
      OBVIOUS
    <2>3. w * r = - (3 * w) - y
      BY <2>1, <2>2
    <2> QED
      BY <1>1, <2>2, <2>3
  <1>4. r \in -2 .. 2
    BY <1>2, <1>3
  <1>5. x = 0 => u = 0
    <2> SUFFICES ASSUME x = 0 PROVE u = 0
      OBVIOUS
    <2>1. w * 0 = 0 /\ w * 1 = w /\ w * 2 = w + w /\ w * (-1) = - w /\ w * (-2) = - (w + w)
      OBVIOUS
    <2>2. r \in {-2, -1, 0, 1, 2}
      BY <1>4
    <2> QED
      BY <2>1, <2>2
  <1> QED
    BY <1>1, <1>4, <1>5

\* What a taken text leaves in a member is one of the numbers it means,
LEMMA NumberIsMeant ==
    ASSUME TextsPlain, NEW s \in Texts, NEW T \in Numeric, SizeOf[T] \in Nat,
           Ends(Strtol(s).rest), NEW u, Narrowed(Strtol(s).value, u, SizeOf[T])
    PROVE  u \in Numbers[s][T]
  <1>1. s \in Text
    BY FormatAssumption DEF FormatAssumption
  <1>2. PICK x \in Int :
           x = Strtol(s).value /\ ((Line(s) = <<>> /\ x = 0) \/ Line(s) = Printed(x))
    BY <1>1, TakenIsPrinted DEF TextsPlain
  <1>3. PICK w \in Nat \ {0} : w = Width(SizeOf[T])
    BY Wider
  <1>4. PICK r \in Int : x = u + w * r
    BY <1>2, <1>3 DEF Narrowed, ShortBy
  <1>5. u \in 0 .. w - 1
    BY <1>3 DEF Narrowed
  <1>6. x \in - (2 * w) .. 3 * w - 1
    BY <1>2, <1>3 DEF TextsPlain
  <1>7. r \in -2 .. 2 /\ u + r * w = x /\ (x = 0 => u = 0)
    BY <1>4, <1>5, <1>6, FewWidths
  <1>8. PICK N : N = {n \in 0 .. w - 1 :
                         \/ Line(s) = <<>> /\ n = 0
                         \/ \E k \in -2 .. 2 : Printed(n + k * w) = Line(s)}
    OBVIOUS
  <1>9. Numbers[s][T] = N
    <2>1. Numbers[s][T] = NumbersIn(s, Width(SizeOf[T]))
      BY DEF Numbers
    <2> QED
      BY <1>3, <1>8, <2>1 DEF NumbersIn
  <1>10. u \in N
    <2>1. CASE Line(s) = <<>> /\ x = 0
      BY <1>5, <1>7, <1>8, <2>1
    <2>2. CASE Line(s) = Printed(x)
      <3>1. Printed(u + r * w) = Line(s)
        BY <1>7, <2>2
      <3> QED
        BY <1>5, <1>7, <1>8, <3>1
    <2> QED
      BY <1>2, <2>1, <2>2
  <1> QED
    BY <1>9, <1>10

\* and a text that is not taken means none.
LEMMA NoNumberIsMeant ==
    ASSUME NEW s \in Texts, NEW T \in Numeric, SizeOf[T] \in Nat, ~ Ends(Strtol(s).rest)
    PROVE  Numbers[s][T] = {}
  <1>1. s \in Text
    BY FormatAssumption DEF FormatAssumption
  <1>2. PICK w \in Nat \ {0} : w = Width(SizeOf[T])
    BY Wider
  <1>3. PICK N : N = {n \in 0 .. w - 1 :
                         \/ Line(s) = <<>> /\ n = 0
                         \/ \E k \in -2 .. 2 : Printed(n + k * w) = Line(s)}
    OBVIOUS
  <1>4. Numbers[s][T] = N
    <2>1. Numbers[s][T] = NumbersIn(s, Width(SizeOf[T]))
      BY DEF Numbers
    <2> QED
      BY <1>2, <1>3, <2>1 DEF NumbersIn
  <1>5. ASSUME NEW n \in N PROVE FALSE
    <2>1. CASE Line(s) = <<>>
      BY <1>1, <2>1, PrintedIsTaken
    <2>2. CASE Line(s) # <<>>
      <3>1. PICK k \in -2 .. 2 : Printed(n + k * w) = Line(s)
        BY <1>3, <1>5, <2>2
      <3>2. PICK y \in Int : y = n + k * w
        BY <1>3
      <3>3. Line(s) = Printed(y)
        BY <3>1, <3>2
      <3> QED
        BY <1>1, <3>3, PrintedIsTaken
    <2> QED
      BY <2>1, <2>2
  <1> QED
    BY <1>4, <1>5

\* The property for one member and one text
TookAsMeant(v, s) ==
    LET after == Given(v, s)
    IN  IF "WRITE" \in v[2].flags /\ Meant(v, s) # {}
        THEN after.res = "OK" /\ TextOf(after.mem, v) \in Meant(v, s)
        ELSE after.res # "OK" /\ after.mem = mem

\* The text of a char and of an enum
LEMMA OtherTextIs ==
    ASSUME TextLayout, Kept(mem), NEW v \in TextViews, NEW m
    PROVE  LET T == v[2].type
               at == FirstCell(v)
           IN  /\ T \in DOMAIN Enums => TextOf(m, v) = EnumText(T, ReadAs(T, m, at))
               /\ T = "char" => TextOf(m, v) = CString(<<m[at]>>)
  <1>1. v[1][1] + v[2].offset = FirstCell(v)
    BY TextCells
  <1>2. "char" \notin DOMAIN Enums /\ "bool" \notin DOMAIN Enums /\ "char_arr" \notin DOMAIN Enums
    BY FormatAssumption DEF TextLayout, StringLayout, ArrayTypes, FormatAssumption
  <1> QED
    BY <1>1, <1>2 DEF TextOf, ValueText

\* The types are different types.
LEMMA TypesDiffer ==
    ASSUME TextLayout, TextsPlain
    PROVE  /\ {"bool", "char_arr", "char"} \cap DOMAIN Enums = {}
           /\ "char_arr" \notin Unsigned \cup Signed
           /\ DOMAIN Members \subseteq DOMAIN Enums
           /\ Signed \cap (Unsigned \cup DOMAIN Enums \cup {"bool", "char"}) = {}
           /\ Unsigned \cap (DOMAIN Enums \cup {"bool", "char"}) = {}
  <1>1. /\ Unsigned \cup Signed \cup DOMAIN Enums \subseteq DOMAIN SizeOf
        /\ DOMAIN Members \subseteq DOMAIN Enums
    BY FormatAssumption DEF FormatAssumption
  <1>2. "char_arr" \notin DOMAIN SizeOf
    BY DEF TextLayout, StringLayout, ArrayTypes
  <1>3. DOMAIN Enums \cap {"bool", "char"} = {}
    BY DEF TextLayout
  <1> QED
    BY <1>1, <1>2, <1>3 DEF TextsPlain

\* An enum means the value of that name, or a number where nobody checks.
NamedBy(T, s) == {e.value : e \in {d \in Range(Enums[T]) : d.name = s}}

LEMMA EnumsMeant ==
    ASSUME TextLayout, TextsPlain, NEW v \in TextViews, NEW s, v[2].type \in DOMAIN Enums
    PROVE  LET T == v[2].type
           IN  Meant(v, s) =
                 {EnumText(T, e) :
                    e \in IF T \in DOMAIN Members \/ NamedBy(T, s) # {}
                          THEN NamedBy(T, s) ELSE Numbers[s][T]}
  <1>1. v[2].type \notin {"char_arr", "bool", "char"} \cup Unsigned \cup Signed
    BY TypesDiffer
  <1>2. CASE v[2].type \in DOMAIN Members
    BY <1>1, <1>2 DEF Meant, NamedBy
  <1>3. CASE v[2].type \notin DOMAIN Members /\ NamedBy(v[2].type, s) # {}
    BY <1>1, <1>3 DEF Meant, NamedBy
  <1>4. CASE v[2].type \notin DOMAIN Members /\ NamedBy(v[2].type, s) = {}
    BY <1>1, <1>4 DEF Meant, NamedBy
  <1> QED
    BY <1>2, <1>3, <1>4

\* A member that may not be written refuses every text.
LEMMA ReadOnlyRefuses ==
    ASSUME TextLayout, Kept(mem), NEW v \in TextViews, NEW s \in Texts,
           "WRITE" \notin v[2].flags
    PROVE  TookAsMeant(v, s)
  <1>1. v[1][1] # NULL /\ v[2] # NoField /\ Shows(v[2].type)
    BY TextCells
  <1>2. s # NoText
    BY FormatAssumption DEF FormatAssumption
  <1>3. Given(v, s) = Err(mem, "ACCESS_DENIED")
    BY <1>1, <1>2 DEF Given, set_field_from_str
  <1>4. Given(v, s).res # "OK" /\ Given(v, s).mem = mem
    BY <1>3 DEF Err
  <1> QED
    BY <1>4 DEF TookAsMeant

LEMMA NumbersAreInts ==
    ASSUME NEW s \in Texts, NEW T \in Numeric
    PROVE  Numbers[s][T] \subseteq Int
  <1>1. Numbers[s][T] = NumbersIn(s, Width(SizeOf[T]))
    BY DEF Numbers
  <1> QED
    BY <1>1 DEF NumbersIn

\* What set_number_from_str does, to a number and to anything else
LEMMA NumberGiven ==
    ASSUME TextLayout, TextsPlain, Kept(mem), NEW v \in TextViews, v[2].type # "char_arr",
           v[2].type \in Numeric, "WRITE" \in v[2].flags, NEW s \in Texts,
           v[2].type \notin DOMAIN Members
    PROVE  LET T == v[2].type
               o == set_number_from_str(T, mem, v[1][1], v[2], s)
               u == LoadUnsigned(o.mem, FirstCell(v), SizeOf[T])
           IN  IF Numbers[s][T] # {} THEN o.res = "OK" /\ u \in Numbers[s][T]
               ELSE o.res # "OK" /\ o.mem = mem
  <1> DEFINE T == v[2].type
             o == set_number_from_str(T, mem, v[1][1], v[2], s)
             u == LoadUnsigned(o.mem, FirstCell(v), SizeOf[T])
  <1>1. SizeOf[T] \in Nat
    BY ScalarView
  <1>2. s \in Text
    BY FormatAssumption DEF FormatAssumption
  <1>3. CASE Ends(Strtol(s).rest)
    <2>1. o = set_field(T, mem, v[1][1], v[2], Bytes(Strtol(s).value, SizeOf[T]))
      BY <1>3 DEF set_number_from_str
    <2>2. Strtol(s).value \in Int
      BY <1>2, StrtolType
    <2>3. o.res = "OK" /\ Narrowed(Strtol(s).value, u, SizeOf[T])
      BY <2>1, <2>2, NumberStored
    <2>4. u \in Numbers[s][T]
      BY <1>1, <1>3, <2>3, NumberIsMeant
    <2> QED
      BY <2>3, <2>4
  <1>4. CASE ~ Ends(Strtol(s).rest)
    <2>1. o = Err(mem, "TYPE_MISMATCH")
      BY <1>4 DEF set_number_from_str
    <2>2. o.res # "OK" /\ o.mem = mem
      BY <2>1 DEF Err
    <2>3. Numbers[s][T] = {}
      BY <1>1, <1>4, NoNumberIsMeant
    <2> QED
      BY <2>2, <2>3
  <1> QED
    BY <1>3, <1>4

\* Numbers and chars
LEMMA NumberTook ==
    ASSUME TextLayout, TextsPlain, Kept(mem), NEW v \in TextViews, NEW s \in Texts,
           "WRITE" \in v[2].flags, v[2].type \in Unsigned \cup Signed \cup {"char"}
    PROVE  TookAsMeant(v, s)
  <1> DEFINE T == v[2].type
             o == set_number_from_str(T, mem, v[1][1], v[2], s)
             u == LoadUnsigned(o.mem, FirstCell(v), SizeOf[T])
  <1>1. /\ T \in Numeric /\ T # "char_arr" /\ T # "bool" /\ T \notin DOMAIN Enums
        /\ T \notin DOMAIN Members
    BY TypesDiffer DEF Numeric
  <1>2. s \in Text
    BY FormatAssumption DEF FormatAssumption
  <1>3. Given(v, s) = o
    BY <1>1, <1>2, GivenIs
  <1>4. IF Numbers[s][T] # {} THEN o.res = "OK" /\ u \in Numbers[s][T]
        ELSE o.res # "OK" /\ o.mem = mem
    BY <1>1, NumberGiven
  <1>5. PICK w \in Int : w = Width(SizeOf[T])
    <2>1. SizeOf[T] \in Nat
      BY <1>1, ScalarView
    <2> QED
      BY <2>1, Wider
  <1>10. PICK N : N = Numbers[s][T] /\ N \subseteq Int
    BY <1>1, NumbersAreInts
  <1>11. /\ T = "char" => Meant(v, s) = {CString(<<n>>) : n \in N}
         /\ T \in Unsigned => Meant(v, s) = {Printed(n) : n \in N}
         /\ T \in Signed => Meant(v, s) = {Printed(IF 2 * n < w THEN n ELSE n - w) : n \in N}
    BY <1>5, <1>10, TypesDiffer DEF Meant
  <1> HIDE DEF o, u
  <1>6. CASE Numbers[s][T] = {}
    <2>1. Meant(v, s) = {}
      BY <1>6, <1>10, <1>11
    <2> QED
      BY <1>3, <1>4, <1>6, <2>1 DEF TookAsMeant
  <1>7. CASE Numbers[s][T] # {} /\ T \in Unsigned
    <2>1. ReadAs(T, o.mem, FirstCell(v)) = u
      BY <1>7, TypesDiffer DEF ReadAs, u
    <2>2. TextOf(o.mem, v) = Printed(u)
      BY <1>1, <1>7, <2>1, TypesDiffer, TextIs
    <2>3. TextOf(o.mem, v) \in Meant(v, s)
      BY <1>4, <1>7, <1>10, <1>11, <2>2
    <2> QED
      BY <1>3, <1>4, <1>7, <2>3 DEF TookAsMeant
  <1>8. CASE Numbers[s][T] # {} /\ T \in Signed
    <2>1. PICK n \in Int : n = u /\ n \in Numbers[s][T]
      BY <1>4, <1>8, <1>10
    <2>2. ReadAs(T, o.mem, FirstCell(v)) = IF 2 * n < w THEN n ELSE n - w
      <3>1. ReadAs(T, o.mem, FirstCell(v)) = IF 2 * n >= w THEN n - w ELSE n
        BY <1>5, <1>8, <2>1 DEF ReadAs, u
      <3> QED
        BY <2>1, <3>1
    <2>3. TextOf(o.mem, v) = Printed(IF 2 * n < w THEN n ELSE n - w)
      BY <1>1, <1>8, <2>2, TypesDiffer, TextIs
    <2>4. TextOf(o.mem, v) \in Meant(v, s)
      BY <1>8, <1>10, <1>11, <2>1, <2>3
    <2> QED
      BY <1>3, <1>4, <1>8, <2>4 DEF TookAsMeant
  <1>9. CASE Numbers[s][T] # {} /\ T = "char"
    <2>1. u = o.mem[FirstCell(v)]
      BY <1>9 DEF u, TextsPlain, LoadUnsigned, Load1
    <2>2. TextOf(o.mem, v) = CString(<<u>>)
      BY <1>9, <2>1, OtherTextIs
    <2>3. TextOf(o.mem, v) \in Meant(v, s)
      BY <1>4, <1>9, <1>10, <1>11, <2>2
    <2> QED
      BY <1>3, <1>4, <1>9, <2>3 DEF TookAsMeant
  <1> QED
    BY <1>6, <1>7, <1>8, <1>9

\* Bools
LEMMA BoolTook ==
    ASSUME TextLayout, TextsPlain, Kept(mem), NEW v \in TextViews, NEW s \in Texts,
           "WRITE" \in v[2].flags, v[2].type = "bool"
    PROVE  TookAsMeant(v, s)
  <1>1. v[2].type # "char_arr" /\ "bool" \notin DOMAIN Members
    BY TypesDiffer
  <1>2. PICK at \in Nat : at = FirstCell(v) /\ at \in Addr
    <2>1. v \in Views /\ FirstCell(v) \in Nat
      BY TextCells
    <2>2. FirstCell(v) \in Addr
      BY <2>1, ViewCells
    <2> QED
      BY <2>1, <2>2
  <1>3. PICK k \in Nat \ {0} : k = SizeOf["bool"]
    BY <1>1, ScalarView
  <1>4. s \in Text
    BY FormatAssumption DEF FormatAssumption
  <1>5. PICK b \in {0, 1} : b = IF s \in {TRUE_, ONE} THEN 1 ELSE 0
    OBVIOUS
  <1>6. Given(v, s) = set_field("bool", mem, v[1][1], v[2], Bytes(b, 1))
    BY <1>1, <1>4, <1>5, GivenIs DEF set_bool_from_str
  <1>7. PICK src \in [0 .. MaxCopy - 1 -> Byte] : src = Bytes(b, 1) /\ src[0] = b
    <2>1. b \in Int /\ 1 \in Nat /\ 0 \in 0 .. MaxCopy - 1 /\ 0 < 1 /\ 0 \in Nat /\ b % 256 = b
      BY TextCells
    <2>2. Bytes(b, 1) \in [0 .. MaxCopy - 1 -> Byte] /\ Bytes(b, 1)[0] = Digit(b, 0)
      BY <2>1, BytesAre
    <2>3. Digit(b, 0) = b
      BY <2>1, ByteTypes DEF Digit
    <2> QED
      BY <2>2, <2>3
  <1>8. Given(v, s) = CopyIn(mem, at, src, k)
    BY <1>1, <1>2, <1>3, <1>6, <1>7, BytesTaken
  <1>9. CopyIn(mem, at, src, k).res = "OK"
    BY DEF CopyIn
  <1>10. CopyIn(mem, at, src, k).mem[at] = b
    <2>1. at \in Span(at, k) /\ at - at = 0
      BY DEF Span
    <2> QED
      BY <1>2, <1>7, <2>1, CopiedCell
  <1>11. TextOf(CopyIn(mem, at, src, k).mem, v) = IF b # 0 THEN TRUE_ ELSE FALSE_
    BY <1>2, <1>10, TextIs
  <1>12. Meant(v, s) = IF s \in {TRUE_, ONE} THEN {TRUE_} ELSE {FALSE_}
    BY TypesDiffer DEF Meant
  <1>13. CASE s \in {TRUE_, ONE}
    <2>1. Meant(v, s) = {TRUE_} /\ b = 1
      BY <1>5, <1>12, <1>13
    <2>2. TextOf(CopyIn(mem, at, src, k).mem, v) = TRUE_
      BY <1>11, <2>1
    <2> QED
      BY <1>8, <1>9, <2>1, <2>2 DEF TookAsMeant
  <1>14. CASE s \notin {TRUE_, ONE}
    <2>1. Meant(v, s) = {FALSE_} /\ b = 0
      BY <1>5, <1>12, <1>14
    <2>2. TextOf(CopyIn(mem, at, src, k).mem, v) = FALSE_
      BY <1>11, <2>1
    <2> QED
      BY <1>8, <1>9, <2>1, <2>2 DEF TookAsMeant
  <1> QED
    BY <1>13, <1>14

\* A value below its width is what is read again.
LEMMA SmallStays ==
    ASSUME NEW w \in Nat \ {0}, NEW x \in 0 .. w - 1, NEW u \in 0 .. w - 1, NEW r \in Int,
           x = u + w * r
    PROVE  u = x
  <1>1. r \notin {d \in Int : d >= 1}
    <2> SUFFICES ASSUME r >= 1 PROVE FALSE
      OBVIOUS
    <2>1. PICK e \in Nat : r = 1 + e
      <3>1. r - 1 \in Nat /\ r = 1 + (r - 1)
        OBVIOUS
      <3> QED
        BY <3>1
    <2>2. PICK y \in Nat : y = w * e
      OBVIOUS
    <2>3. w * r = w + y
      BY <2>1, <2>2
    <2> QED
      BY <2>2, <2>3
  <1>2. r \notin {d \in Int : d <= -1}
    <2> SUFFICES ASSUME r <= -1 PROVE FALSE
      OBVIOUS
    <2>1. PICK e \in Nat : r = -1 - e
      <3>1. -1 - r \in Nat /\ r = -1 - (-1 - r)
        OBVIOUS
      <3> QED
        BY <3>1
    <2>2. PICK y \in Nat : y = w * e
      OBVIOUS
    <2>3. w * r = - w - y
      BY <2>1, <2>2
    <2> QED
      BY <2>2, <2>3
  <1>3. r = 0
    BY <1>1, <1>2
  <1>4. w * 0 = 0
    OBVIOUS
  <1> QED
    BY <1>3, <1>4

\* Enums given the name of a member
LEMMA NameTook ==
    ASSUME TextLayout, TextsPlain, Kept(mem), NEW v \in TextViews, NEW s \in Texts,
           "WRITE" \in v[2].flags, v[2].type \in DOMAIN Enums, NamedBy(v[2].type, s) # {}
    PROVE  TookAsMeant(v, s)
  <1>1. PICK T : T = v[2].type /\ T \in DOMAIN Enums
    OBVIOUS
  <1>2. T # "char_arr" /\ T \notin Signed
    BY <1>1, TypesDiffer
  <1>3. s \in Text
    BY FormatAssumption DEF FormatAssumption
  <1>4. PICK named : named = {j \in DOMAIN Enums[T] : Enums[T][j].name = s}
    OBVIOUS
  <1>5. named # {}
    <2>1. PICK d \in Range(Enums[T]) : d.name = s
      BY <1>1 DEF NamedBy
    <2>2. PICK i \in DOMAIN Enums[T] : Enums[T][i] = d
      BY DEF Range
    <2> QED
      BY <1>4, <2>1, <2>2
  <1>6. PICK i \in named : i = Min(named)
    <2>1. named \in SUBSET Nat
      BY <1>1, <1>4, EnumIndices
    <2> QED
      BY <1>5, <2>1, MinFacts
  <1>7. PICK e : e = Enums[T][i] /\ e \in Range(Enums[T]) /\ e.name = s
    BY <1>1, <1>4, EnumValues
  <1>8. PICK w \in Nat \ {0} : w = Width(SizeOf[T])
    <2>1. SizeOf[T] \in Nat
      BY <1>1, <1>2, ScalarView
    <2> QED
      BY <2>1, Wider
  <1>9. PICK x \in 0 .. w - 1 : x = e.value
    <2>1. e.value \in Nat
      BY <1>1, <1>7, FormatAssumption DEF FormatAssumption, Cell
    <2>2. e.value < w
      BY <1>1, <1>7, <1>8 DEF TextsPlain
    <2> QED
      BY <2>1, <2>2
  <1>10. T \in DOMAIN Members => x \in Members[T]
    BY <1>7, <1>9, FormatAssumption DEF FormatAssumption
  <1>11. PICK o : o = set_field(T, mem, v[1][1], v[2], Bytes(x, SizeOf[T]))
    OBVIOUS
  <1>12. Given(v, s) = o
    <2>1. Given(v, s) = set_enum_from_str(T, mem, v[1][1], v[2], s)
      BY <1>1, <1>3, GivenIs
    <2>2. set_enum_from_str(T, mem, v[1][1], v[2], s) =
             set_field(T, mem, v[1][1], v[2], Bytes(Enums[T][Min(named)].value, SizeOf[T]))
      BY <1>4, <1>5 DEF set_enum_from_str
    <2> QED
      BY <1>6, <1>7, <1>9, <1>11, <2>1, <2>2
  <1>13. PICK u : u = LoadUnsigned(o.mem, FirstCell(v), SizeOf[T])
    OBVIOUS
  <1>14. o.res = "OK" /\ Narrowed(x, u, SizeOf[T])
    <2>1. x \in Int
      BY <1>8
    <2> QED
      BY <1>1, <1>2, <1>10, <1>11, <1>13, <2>1, NumberStored
  <1>15. u = x
    <2>1. PICK r \in Int : x = u + w * r
      BY <1>8, <1>14 DEF Narrowed, ShortBy
    <2>2. u \in 0 .. w - 1
      BY <1>8, <1>14 DEF Narrowed
    <2> QED
      BY <2>1, <2>2, SmallStays
  <1>16. ReadAs(T, o.mem, FirstCell(v)) = x
    BY <1>2, <1>13, <1>15 DEF ReadAs
  <1>17. TextOf(o.mem, v) = EnumText(T, x)
    BY <1>1, <1>16, OtherTextIs
  <1>18. x \in NamedBy(T, s)
    BY <1>7, <1>9 DEF NamedBy
  <1>19. Meant(v, s) = {EnumText(T, d) : d \in NamedBy(T, s)}
    BY <1>1, EnumsMeant
  <1> QED
    BY <1>12, <1>14, <1>17, <1>18, <1>19 DEF TookAsMeant

\* and enums given something else
LEMMA NoNameTook ==
    ASSUME TextLayout, TextsPlain, Kept(mem), NEW v \in TextViews, NEW s \in Texts,
           "WRITE" \in v[2].flags, v[2].type \in DOMAIN Enums, NamedBy(v[2].type, s) = {}
    PROVE  TookAsMeant(v, s)
  <1>1. PICK T : T = v[2].type /\ T \in DOMAIN Enums
    OBVIOUS
  <1>2. T # "char_arr" /\ T \notin Signed /\ T \in Numeric
    BY <1>1, TypesDiffer DEF Numeric
  <1>3. s \in Text
    BY FormatAssumption DEF FormatAssumption
  <1>4. {j \in DOMAIN Enums[T] : Enums[T][j].name = s} = {}
    <2>1. \A j \in DOMAIN Enums[T] : Enums[T][j] \in Range(Enums[T])
      BY <1>1, EnumValues
    <2> QED
      BY <1>1, <2>1 DEF NamedBy
  <1>5. Given(v, s) = set_enum_from_str(T, mem, v[1][1], v[2], s)
    BY <1>1, <1>3, GivenIs
  <1>6. CASE T \in DOMAIN Members
    <2>1. Given(v, s) = Err(mem, "TYPE_MISMATCH")
      BY <1>4, <1>5, <1>6 DEF set_enum_from_str
    <2>2. Given(v, s).res # "OK" /\ Given(v, s).mem = mem
      BY <2>1 DEF Err
    <2>3. Meant(v, s) = {}
      BY <1>1, <1>6, EnumsMeant
    <2> QED
      BY <2>2, <2>3 DEF TookAsMeant
  <1>7. CASE T \notin DOMAIN Members
    <2>1. PICK o : o = set_number_from_str(T, mem, v[1][1], v[2], s)
      OBVIOUS
    <2>2. Given(v, s) = o
      BY <1>4, <1>5, <1>7, <2>1 DEF set_enum_from_str
    <2>3. PICK u : u = LoadUnsigned(o.mem, FirstCell(v), SizeOf[T])
      OBVIOUS
    <2>4. PICK N : N = Numbers[s][T]
      OBVIOUS
    <2>5. IF N # {} THEN o.res = "OK" /\ u \in N ELSE o.res # "OK" /\ o.mem = mem
      BY <1>1, <1>2, <1>7, <2>1, <2>3, <2>4, NumberGiven
    <2>6. TextOf(o.mem, v) = EnumText(T, u)
      <3>1. ReadAs(T, o.mem, FirstCell(v)) = u
        BY <1>2, <2>3 DEF ReadAs
      <3> QED
        BY <1>1, <3>1, OtherTextIs
    <2>7. Meant(v, s) = {EnumText(T, n) : n \in N}
      BY <1>1, <1>7, <2>4, EnumsMeant
    <2> QED
      BY <2>2, <2>5, <2>6, <2>7 DEF TookAsMeant
  <1> QED
    BY <1>6, <1>7

\* A text and its NUL are in memory m from an address on.
HeldAt(m, at, s) ==
    (\A i \in 1 .. Len(s) : m[at + i - 1] = s[i]) /\ m[at + Len(s)] = 0

\* Cells with a text and its NUL in front read as that text.
LEMMA TextInCells ==
    ASSUME NEW s \in Text, NEW count \in Nat, Len(s) < count, NEW m, NEW at \in Nat,
           HeldAt(m, at, s)
    PROVE  CString([i \in 1 .. count |-> m[at + i - 1]]) = s
  <1>1. PICK n \in Nat : n = Len(s) /\ n < count /\ n + 1 \in 1 .. count /\ at + (n + 1) - 1 = at + n
                         /\ n + 1 \in Int /\ n + 1 - 1 = n
    BY TextItems
  <1>2. \A i \in 1 .. n : s[i] \in 1 .. 255 /\ s[i] # 0 /\ i \in 1 .. count
    <2>1. \A i \in 1 .. Len(s) : s[i] \in 1 .. 255
      BY TextItems, Zenon
    <2>2. \A i \in 1 .. n : s[i] \in 1 .. 255
      BY <1>1, <2>1, Zenon
    <2>3. ASSUME NEW i \in 1 .. n PROVE s[i] \in 1 .. 255 /\ s[i] # 0 /\ i \in 1 .. count
      <3>1. s[i] \in 1 .. 255
        BY <2>2
      <3>2. i \in 1 .. count
        BY <1>1
      <3>3. \A c \in 1 .. 255 : c # 0
        OBVIOUS
      <3> QED
        BY <3>1, <3>2, <3>3, Zenon
    <2> QED
      BY <2>3, Zenon
  <1>11. (\A i \in 1 .. n : m[at + i - 1] = s[i]) /\ m[at + n] = 0
    BY <1>1, Zenon DEF HeldAt
  <1>3. PICK cells : cells = [i \in 1 .. count |-> m[at + i - 1]]
    OBVIOUS
  <1>4. DOMAIN cells = 1 .. count /\ \A i \in 1 .. count : cells[i] = m[at + i - 1]
    BY <1>3, Zenon
  <1>5. PICK nul : nul = {i \in DOMAIN cells : cells[i] = 0}
    OBVIOUS
  <1>6. n + 1 \in nul
    BY <1>1, <1>4, <1>5, <1>11
  <1>7. \A i \in nul : n + 1 <= i
    <2> SUFFICES ASSUME NEW i \in nul, i <= n PROVE FALSE
      BY <1>1, <1>4, <1>5
    <2>1. i \in 1 .. n /\ i \in 1 .. count /\ cells[i] = 0
      BY <1>4, <1>5
    <2> QED
      BY <1>2, <1>4, <1>11, <2>1
  <1>8. Min(nul) = n + 1
    <2>1. nul \in SUBSET Int
      BY <1>4, <1>5
    <2> QED
      BY <1>6, <1>7, <2>1, MinIs
  <1>9. CString(cells) = SubSeq(cells, 1, n)
    <2>1. nul # {} /\ Min(nul) - 1 = n
      BY <1>1, <1>6, <1>8
    <2>2. CString(cells) = SubSeq(cells, 1, Min(nul) - 1)
      BY <1>5, <2>1, Zenon DEF CString
    <2> QED
      BY <2>1, <2>2
  <1>10. SubSeq(cells, 1, n) = s
    <2>1. SubSeq(cells, 1, n) = [i \in 1 .. n |-> cells[i]]
      <3>1. PICK S : \A i \in 1 .. count : cells[i] \in S
        <4>1. \A i \in 1 .. count : cells[i] \in {cells[j] : j \in 1 .. count}
          OBVIOUS
        <4> QED
          BY <4>1
      <3>2. cells \in [1 .. count -> S]
        BY <1>3, <1>4, <3>1, Zenon
      <3>3. cells \in Seq(S) /\ Len(cells) = count
        BY <3>2, ItemsOf
      <3>4. /\ SubSeq(cells, 1, n) \in Seq(S) /\ Len(SubSeq(cells, 1, n)) = n
            /\ \A i \in 1 .. n : SubSeq(cells, 1, n)[i] = cells[i]
        BY <1>1, <3>3, FrontOf
      <3> QED
        BY <1>1, <3>4
    <2>2. \A i \in 1 .. n : cells[i] = s[i]
      BY <1>2, <1>4, <1>11
    <2>3. s = [i \in 1 .. n |-> s[i]]
      BY <1>1 DEF Text
    <2> QED
      BY <2>1, <2>2, <2>3
  <1> QED
    BY <1>3, <1>9, <1>10

\* Char arrays
LEMMA StringTook ==
    ASSUME TextLayout, TextsPlain, Kept(mem), NEW v \in TextViews, NEW s \in Texts,
           "WRITE" \in v[2].flags, v[2].type = "char_arr"
    PROVE  TookAsMeant(v, s)
  <1>1. s \in Text
    BY FormatAssumption DEF FormatAssumption
  <1>2. PICK at \in Nat, count \in Nat \ {0} :
           at = FirstCell(v) /\ count = v[2].count /\ count = v[2].size
           /\ count <= MaxCopy /\ MaxCopy \in Nat /\ Span(at, count) \subseteq Addr
    BY TextCells, TextViewTypes DEF TextLayout, StringLayout, Strings
  <1>3. PICK n \in Nat : n = Len(s)
    BY <1>1, TextItems
  <1>4. Meant(v, s) = IF n < count THEN {s} ELSE {}
    BY <1>2, <1>3, TypesDiffer DEF Meant
  <1>5. Given(v, s) = set_char_arr_from_str(mem, v[1][1], v[2], s)
    BY <1>1, GivenIs
  <1>6. CASE n >= count
    <2>1. Given(v, s) = Err(mem, "OUT_OF_BOUNDS")
      BY <1>2, <1>3, <1>5, <1>6 DEF set_char_arr_from_str
    <2>2. Given(v, s).res # "OK" /\ Given(v, s).mem = mem
      BY <2>1 DEF Err
    <2>3. Meant(v, s) = {}
      BY <1>2, <1>3, <1>4, <1>6
    <2> QED
      BY <2>2, <2>3 DEF TookAsMeant
  <1>7. CASE n < count
    <2>1. PICK k \in Nat \ {0} : k = n + 1 /\ k <= count /\ k * 1 = k
      BY <1>2, <1>3, <1>7
    <2>2. PICK src \in [0 .. MaxCopy - 1 -> Byte] :
             /\ src = Terminated(s)
             /\ \A i \in 0 .. MaxCopy - 1 : src[i] = IF i < Len(s) THEN s[i + 1] ELSE 0
      BY <1>1, TerminatedType
    <2>3. SizeOf[ElemType["char_arr"]] = 1
      BY DEF TextLayout
    <2>4. /\ src # NoSrc /\ v[1][1] # NULL /\ v[2] # NoField
          /\ v[1][1] + v[2].offset = at
      BY <1>2, BytesAreNoNull, TextCells
    <2>5. ~(Len(s) >= v[2].count) /\ ~(k > v[2].count) /\ Len(s) + 1 = k /\ ~(k > v[2].size)
      BY <1>2, <1>3, <1>7, <2>1
    <2>6. Given(v, s) = CopyIn(mem, at, src, k)
      BY <1>5, <2>1, <2>2, <2>3, <2>4, <2>5 DEF set_char_arr_from_str, set_field_arr, set_field_value
    <2>7. PICK m : m = CopyIn(mem, at, src, k).mem
                   /\ \A a \in Addr : a \in Span(at, k) => m[a] = src[a - at]
      <3>1. \A a \in Addr : a \in Span(at, k) => CopyIn(mem, at, src, k).mem[a] = src[a - at]
        BY DEF CopyIn
      <3> QED
        BY <3>1, Zenon
    <2>8. ASSUME NEW i \in 0 .. n PROVE m[at + i] = IF i < n THEN s[i + 1] ELSE 0
      <3>1. PICK a \in Nat : a = at + i /\ a \in Span(at, k) /\ a \in Span(at, count) /\ a - at = i
                             /\ i \in 0 .. MaxCopy - 1
        <4>1. i \in Nat /\ i < k /\ i < count /\ i < MaxCopy
          BY <1>2, <2>1
        <4>2. PICK a \in Nat : a = at + i /\ a - at = i
          BY <4>1
        <4>3. a \in Span(at, k) /\ a \in Span(at, count)
          BY <4>1, <4>2 DEF Span
        <4> QED
          BY <1>2, <4>1, <4>2, <4>3
      <3>2. m[a] = src[i]
        BY <1>2, <2>7, <3>1, Zenon
      <3> QED
        BY <1>3, <2>2, <3>1, <3>2
    <2>9. \A i \in 1 .. n : m[at + i - 1] = s[i]
      <3> SUFFICES ASSUME NEW i \in 1 .. n PROVE m[at + i - 1] = s[i]
        OBVIOUS
      <3>1. PICK j \in 0 .. n : j = i - 1 /\ j < n /\ j + 1 = i /\ at + j = at + i - 1
        OBVIOUS
      <3> QED
        BY <2>8, <3>1
    <2>10. m[at + n] = 0
      <3>1. n \in 0 .. n /\ ~(n < n)
        OBVIOUS
      <3> QED
        BY <2>8, <3>1
    <2>11. TextOf(m, v) = s
      <3>1. TextOf(m, v) = CString([i \in 1 .. count |-> m[at + i - 1]])
        BY <1>2, TextIs
      <3>2. CString([i \in 1 .. count |-> m[at + i - 1]]) = s
        <4>1. HeldAt(m, at, s)
          BY <1>3, <2>9, <2>10, Zenon DEF HeldAt
        <4>2. count \in Nat /\ Len(s) < count
          BY <1>3, <1>7
        <4> QED
          BY <1>1, <4>1, <4>2, TextInCells
      <3> QED
        BY <3>1, <3>2
    <2>12. CopyIn(mem, at, src, k).res = "OK"
      BY DEF CopyIn
    <2>13. Meant(v, s) = {s}
      BY <1>4, <1>7
    <2> QED
      BY <2>6, <2>7, <2>11, <2>12, <2>13 DEF TookAsMeant
  <1> QED
    BY <1>2, <1>3, <1>6, <1>7

LEMMA AllTook ==
    ASSUME TextLayout, TextsPlain, Kept(mem)
    PROVE  FieldsShowWhatTheyTook
  <1>1. ASSUME NEW v \in TextViews, NEW s \in Texts PROVE TookAsMeant(v, s)
    <2>1. Shows(v[2].type)
      BY TextCells
    <2>2. CASE "WRITE" \in v[2].flags
      BY <1>1, <2>1, <2>2, NumberTook, BoolTook, NameTook, NoNameTook, StringTook DEF Shows
    <2> QED
      BY <1>1, <2>2, ReadOnlyRefuses
  <1> QED
    BY <1>1 DEF FieldsShowWhatTheyTook, TookAsMeant

\* In whatever state the calls before it left the memory, a writable field
\* takes a text exactly if its first line is a numeral, or it is a name of
\* the field's enum, any text at all for a bool, or fits the field's array;
\* and it then shows that number, modulo the width of its type, that member,
\* or those characters.  What is not taken changes nothing.
THEOREM ShowsWhatItTook ==
    TextLayout /\ TextsPlain /\ BytesIn(Boot) /\ FormatSpec => []FieldsShowWhatTheyTook
  <1> SUFFICES ASSUME TextLayout, TextsPlain, BytesIn(Boot)
               PROVE  FormatSpec => []FieldsShowWhatTheyTook
    OBVIOUS
  <1>1. FormatInit => Kept(mem)
    BY KeptAtBoot DEF FormatInit, Init
  <1>2. Kept(mem) /\ [FormatNext]_textVars => Kept(mem)'
    BY NextKeepsBytes
  <1>3. Kept(mem) => FieldsShowWhatTheyTook
    BY AllTook
  <1> QED
    BY <1>1, <1>2, <1>3, PTL DEF FormatSpec
=============================================================================
