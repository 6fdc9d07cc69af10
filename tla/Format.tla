------------------------------- MODULE Format -------------------------------
(***************************************************************************)
(* The format plugin at run time: fields of primitive types, enums, bools  *)
(* and char arrays read from text and shown as text, by the functions      *)
(* format.py generates on top of the accessors of module FieldAccess.      *)
(*                                                                         *)
(* A text is a C string without its NUL: a sequence of character codes, as *)
(* the cells of a char array hold them.  Of the numbers, those parsed by   *)
(* strtol and strtoul are modelled, not float and double.                  *)
(***************************************************************************)
EXTENDS FieldAccess, SequencesExt

CONSTANTS
    Unsigned, Signed,   \* the integer types but char, as they are printed
    Enums,      \* enum type -> its members: name, value, display (or NoText)
    FormatOf,   \* field -> the text before its conversion, where it has
                \* a format tag
    NoText,     \* the NULL string
    Texts,      \* the texts that matter,
    Calls,      \* and those among them that callers ask to be parsed
    Buffers,    \* sizes of the buffers callers provide
    MAX_BUF_LEN \* what print_field's buffer has at least

TRUE_ == <<116, 114, 117, 101>>
FALSE_ == <<102, 97, 108, 115, 101>>
ONE == <<49>>
UNKNOWN_ == <<60, 63, 62>>      \* stands for <unknown>
LINE_END == {10, 13}

Text == Seq(1 .. 255)

ASSUME FormatAssumption ==
    /\ Unsigned \cup Signed \cup DOMAIN Enums \cup {"bool", "char"} \subseteq DOMAIN SizeOf
    /\ DOMAIN Members \subseteq DOMAIN Enums
    /\ \A T \in DOMAIN Enums : Enums[T] \in Seq(Range(Enums[T]))
    /\ \A T \in DOMAIN Enums : \A e \in Range(Enums[T]) :
          e.name \in Text /\ e.value \in Cell /\ e.display \in Text \cup {NoText}
    /\ \A T \in DOMAIN Members : Members[T] = {e.value : e \in Range(Enums[T])}
    /\ DOMAIN FormatOf \subseteq AllFields
    /\ NoText \notin Text /\ Calls \subseteq Texts /\ Texts \subseteq Text
    /\ Buffers \subseteq Nat \ {0} /\ MAX_BUF_LEN \in Nat \ {0}

VARIABLE out    \* the text the last call left in its buffer, or NoText

textVars == <<vars, out>>

-----------------------------------------------------------------------------
(* The C library                                                           *)

IsDigit(c) == c \in 48 .. 57
Digits(s, k) == {n \in 0 .. Len(s) - k : \A i \in k + 1 .. k + n : IsDigit(s[i])}

\* The number that digits are the numeral of
Numeral(s) ==
    LET upTo[k \in {0} \cup DOMAIN s] ==
            IF k = 0 THEN 0 ELSE 10 * upTo[k - 1] + (s[k] - 48)
    IN  upTo[Len(s)]

\* strtol in base 10: a sign, then digits; nothing is read without digits.
Strtol(s) ==
    LET sign == IF s # <<>> /\ s[1] = 45 THEN 1 ELSE 0
        length == Max(Digits(s, sign))
        value == Numeral(SubSeq(s, sign + 1, sign + length))
    IN  [value |-> IF sign = 1 THEN - value ELSE value,
         rest |-> IF length = 0 THEN s ELSE SubSeq(s, sign + length + 1, Len(s))]

\* %d and %u
Decimal[n \in Nat] == IF n < 10 THEN <<48 + n>> ELSE Append(Decimal[n \div 10], 48 + (n % 10))
Printed(n) == IF n < 0 THEN <<45>> \o Decimal[- n] ELSE Decimal[n]

\* How many values n bytes tell apart
Width(n) == LET upTo[k \in 0 .. n] == IF k = 0 THEN 1 ELSE 256 * upTo[k - 1] IN upTo[n]

\* A value narrowed to n bytes, and read back from them
Bytes(v, n) == [i \in 0 .. MaxCopy - 1 |-> IF i < n THEN (v \div Width(i)) % 256 ELSE 0]
ReadAs(T, m, a) ==
    LET n == LoadUnsigned(m, a, SizeOf[T])
    IN  IF T \in Signed /\ 2 * n >= Width(SizeOf[T]) THEN n - Width(SizeOf[T]) ELSE n

\* What a string function sees in a char array: up to its NUL, and past its
\* end when there is none
CString(cells) ==
    LET nul == {i \in DOMAIN cells : cells[i] = 0}
    IN  IF nul = {} THEN cells ELSE SubSeq(cells, 1, Min(nul) - 1)

\* The cells of a buffer given a text and its NUL
Terminated(s) == [i \in 0 .. MaxCopy - 1 |-> IF i < Len(s) THEN s[i + 1] ELSE 0]

\* snprintf keeps what fits in front of the NUL and tells no one.
Snprintf(s, buflen) == SubSeq(s, 1, Min({Len(s), buflen - 1}))

-----------------------------------------------------------------------------
(* set_field_from_str                                                      *)

\* The types that have functions
Shows(T) == T \in Unsigned \cup Signed \cup DOMAIN Enums \cup {"bool", "char", "char_arr"}

Ends(rest) == rest = <<>> \/ rest[1] \in LINE_END

\* Wrong on purpose: the end of the number is not looked at.
set_number_from_strAny(T, m, inst, f, s) ==
    set_field(T, m, inst, f, Bytes(Strtol(s).value, SizeOf[T]))

set_number_from_str(T, m, inst, f, s) ==
    IF ~ Ends(Strtol(s).rest) THEN Err(m, "TYPE_MISMATCH")
    ELSE set_field(T, m, inst, f, Bytes(Strtol(s).value, SizeOf[T]))

\* A member's name; the name of none is a number if nobody checks the type.
set_enum_from_str(T, m, inst, f, s) ==
    LET named == {i \in DOMAIN Enums[T] : Enums[T][i].name = s}
    IN  IF named # {}
        THEN set_field(T, m, inst, f, Bytes(Enums[T][Min(named)].value, SizeOf[T]))
        ELSE IF T \in DOMAIN Members THEN Err(m, "TYPE_MISMATCH")
        ELSE set_number_from_str(T, m, inst, f, s)

set_bool_from_str(m, inst, f, s) ==
    set_field("bool", m, inst, f, Bytes(IF s \in {TRUE_, ONE} THEN 1 ELSE 0, 1))

\* Wrong on purpose: the NUL is neither counted nor copied.
set_char_arr_from_strBare(m, inst, f, s) ==
    IF Len(s) > f.count THEN Err(m, "OUT_OF_BOUNDS")
    ELSE set_field_arr("char_arr", m, inst, f, Terminated(s), Len(s))

\* Wrong on purpose: the NUL is counted twice.
set_char_arr_from_strTight(m, inst, f, s) ==
    IF Len(s) + 1 >= f.count THEN Err(m, "OUT_OF_BOUNDS")
    ELSE set_field_arr("char_arr", m, inst, f, Terminated(s), Len(s) + 1)

set_char_arr_from_str(m, inst, f, s) ==
    IF Len(s) >= f.count THEN Err(m, "OUT_OF_BOUNDS")
    ELSE set_field_arr("char_arr", m, inst, f, Terminated(s), Len(s) + 1)

\* The switch on field->type comes first, then the checks every generated
\* function begins with.
set_field_from_str(m, inst, f, s) ==
    IF f = NoField THEN Err(m, "NULL_PTR")
    ELSE IF ~ Shows(f.type) THEN Err(m, "TYPE_MISMATCH")
    ELSE IF inst = NULL \/ s = NoText THEN Err(m, "NULL_PTR")
    ELSE IF "WRITE" \notin f.flags THEN Err(m, "ACCESS_DENIED")
    ELSE CASE f.type \in DOMAIN Enums -> set_enum_from_str(f.type, m, inst, f, s)
           [] f.type = "bool" -> set_bool_from_str(m, inst, f, s)
           [] f.type = "char_arr" -> set_char_arr_from_str(m, inst, f, s)
           [] OTHER -> set_number_from_str(f.type, m, inst, f, s)

-----------------------------------------------------------------------------
(* get_field_as_str                                                        *)

\* The text in front of the conversion: bools and enums do not look.
Before(f) ==
    IF f \in DOMAIN FormatOf /\ f.type \notin DOMAIN Enums \cup {"bool"} THEN FormatOf[f] ELSE <<>>

\* The display text or name of the first member with a value
EnumText(T, value) ==
    LET hits == {i \in DOMAIN Enums[T] : Enums[T][i].value = value}
        first == Enums[T][Min(hits)]
    IN  IF hits = {} THEN UNKNOWN_
        ELSE IF first.display # NoText THEN first.display
        ELSE first.name

\* What the value of a field looks like, by its type's default format
ValueText(m, inst, f) ==
    LET a == inst + f.offset
    IN  CASE f.type \in DOMAIN Enums -> EnumText(f.type, ReadAs(f.type, m, a))
          [] f.type = "bool" -> IF m[a] # 0 THEN TRUE_ ELSE FALSE_
          [] f.type = "char_arr" -> CString([i \in 1 .. f.count |-> m[a + i - 1]])
          [] f.type = "char" -> CString(<<m[a]>>)
          [] OTHER -> Printed(ReadAs(f.type, m, a))

\* The outcome for memory and caller; the text is written when that is OK.
get_field_as_str(m, inst, f) ==
    IF f = NoField THEN Err(m, "NULL_PTR")
    ELSE IF ~ Shows(f.type) THEN Err(m, "TYPE_MISMATCH")
    ELSE IF f.type = "char_arr" THEN get_field_arr(f.type, m, inst, f, f.count)
    ELSE get_field(f.type, m, inst, f)

FieldText(m, inst, f) == Before(f) \o ValueText(m, inst, f)

-----------------------------------------------------------------------------
(* The callers                                                             *)

FormatInit == Init /\ out = NoText

SetFromStr(h, s) ==
    /\ Do(set_field_from_str(mem, h[1], h[3], s))
    /\ out' = NoText

\* Both leave a buffer alone when the field cannot be read.
Show(h, buflen) ==
    /\ Do(get_field_as_str(mem, h[1], h[3]))
    /\ out' = IF res' = "OK" THEN Snprintf(FieldText(mem, h[1], h[3]), buflen) ELSE NoText

AsStr(h, buflen) == Show(h, buflen)

\* Wrong on purpose: the buffer does not grow with the array.
PrintBufFixed(f) == MAX_BUF_LEN

PrintBuf(f) == IF f.count > MAX_BUF_LEN THEN f.count ELSE MAX_BUF_LEN

PrintField(h) ==
    IF h[1] = NULL \/ h[3] = NoField THEN Do(Err(mem, "NULL_PTR")) /\ out' = NoText
    ELSE Show(h, PrintBuf(h[3]))

\* Meanwhile the program stores values through the typed setters, structs
\* with strings in them among them.
Store(T, h, src) == SetField(T, h, src) /\ out' = NoText

FormatNext ==
    \E h \in Handles :
        \/ \E s \in Calls \cup {NoText} : SetFromStr(h, s)
        \/ \E n \in Buffers : AsStr(h, n)
        \/ PrintField(h)
        \/ \E T \in ScalarTypes : \E src \in SourcesFor(T) : Store(T, h, src)

FormatSpec == FormatInit /\ [][FormatNext]_textVars

-----------------------------------------------------------------------------
(* Properties                                                              *)

TextViews == {v \in Views : Shows(v[2].type)}
TextOf(m, v) == ValueText(m, v[1][1], v[2])
Given(v, s) == set_field_from_str(mem, v[1][1], v[2], s)

\* The char arrays of the instances, and that each has its NUL in memory m
Strings == {v \in Views : v[2].type = "char_arr"}

Ended(m) == \A v \in Strings : \E a \in Extent(v) : m[a] = 0

\* Every char array ends before its last cell does, so that %s and strlen
\* stay inside it, whatever texts are stored and structs copied: only
\* set_field_char_arr itself could fill one to the brim.
StringsEnd == Ended(mem)

\* How char arrays lie in memory: a char takes a cell, nothing else shares
\* theirs, and the types this plugin converts are no structs.
StringLayout ==
    /\ LaidOut(Strings)
    /\ "char_arr" \in ArrayTypes
    /\ \A v \in Strings : v[2].count = v[2].size
    /\ {T \in DOMAIN SizeOf : Shows(T)} \cap StructTypes = {}

\* What C and the generator say of the members this plugin reads and writes:
\* they share no cells with anything but the structs around them, are as
\* large as their types, and those types are no pointers; the values of a
\* checked enum can be told by their first cell, and names differ.
TextLayout ==
    /\ StringLayout /\ LaidOut(TextViews)
    /\ \A T \in DOMAIN SizeOf : Shows(T) => T \notin DOMAIN ElemType /\ SizeOf[T] \in {1, 2, 4, 8}
    /\ SizeOf[ElemType["char_arr"]] = 1
    /\ \A v \in TextViews : v[2].type # "char_arr" => v[2].size = SizeOf[v[2].type]
    /\ DOMAIN Enums \cap {"bool", "char"} = {}
    /\ \A T \in DOMAIN Members : Members[T] \subseteq 0 .. 255
    /\ \A T \in DOMAIN Enums : \A i, j \in DOMAIN Enums[T] :
          Enums[T][i].name = Enums[T][j].name => i = j
    /\ Values \subseteq 0 .. 255

\* The cells of the members this plugin reads and writes hold bytes.
BytesIn(m) == \A v \in TextViews : \A a \in Extent(v) : m[a] \in 0 .. 255

\* The texts of numbers and of enums are shorter than print_field's buffer.
TextsFit ==
    /\ MAX_BUF_LEN > Len(FALSE_)
    /\ \A T \in DOMAIN Enums : \A e \in Range(Enums[T]) :
          /\ Len(e.name) < MAX_BUF_LEN
          /\ e.display # NoText => Len(e.display) < MAX_BUF_LEN
    /\ \A T \in Unsigned \cup Signed :
          \A n \in - (Width(SizeOf[T])) .. Width(SizeOf[T]) : Len(Printed(n)) < MAX_BUF_LEN

\* The first line of a text
Line(s) == SubSeq(s, 1, Min({i \in DOMAIN s : s[i] \in LINE_END} \cup {Len(s) + 1}) - 1)

\* The types whose text may be a number
Numeric == Unsigned \cup Signed \cup DOMAIN Enums \cup {"char"}

\* The values, modulo a width, that a text stands for: its first line is
\* their numeral; an empty one counts as zero.
NumbersIn(s, width) ==
    {n \in 0 .. width - 1 :
        \/ Line(s) = <<>> /\ n = 0
        \/ \E k \in -2 .. 2 : Printed(n + k * width) = Line(s)}

Numbers == [s \in Texts |-> [T \in Numeric |-> NumbersIn(s, Width(SizeOf[T]))]]

\* A text whose numeral, if it starts with one, has no leading zero and is
\* not -0
PlainNumeral(s) ==
    LET first == IF s # <<>> /\ s[1] = 45 THEN 2 ELSE 1
    IN  first \in DOMAIN s /\ s[first] = 48
        => first = 1 /\ (Len(s) = 1 \/ ~ IsDigit(s[2]))

\* What is assumed of texts and types to say what a text means: numerals are
\* written as printf writes them and miss the width of a type by a factor of
\* two at most; signed types, bool and enums are different types, whose
\* values fit, and a char is a byte.
TextsPlain ==
    /\ \A s \in Texts : PlainNumeral(s)
    /\ \A s \in Texts, T \in Numeric :
          Strtol(s).value \in - (2 * Width(SizeOf[T])) .. 3 * Width(SizeOf[T]) - 1
    /\ Signed \cap (Unsigned \cup DOMAIN Enums \cup {"bool", "char"}) = {}
    /\ Unsigned \cap (DOMAIN Enums \cup {"bool", "char"}) = {}
    /\ \A T \in DOMAIN Enums : \A e \in Range(Enums[T]) : e.value < Width(SizeOf[T])
    /\ SizeOf["char"] = 1

\* What a field is to show after it was given a text: none if the text is
\* none of its type's
Meant(v, s) ==
    LET T == v[2].type
        named == {e.value : e \in {d \in Range(Enums[T]) : d.name = s}}
    IN  CASE T = "char_arr" -> IF Len(s) < v[2].count THEN {s} ELSE {}
          [] T = "bool" -> IF s \in {TRUE_, ONE} THEN {TRUE_} ELSE {FALSE_}
          [] T = "char" -> {CString(<<n>>) : n \in Numbers[s][T]}
          [] T \in Unsigned -> {Printed(n) : n \in Numbers[s][T]}
          [] T \in Signed ->
                {Printed(IF 2 * n < Width(SizeOf[T]) THEN n ELSE n - Width(SizeOf[T])) :
                    n \in Numbers[s][T]}
          [] T \in DOMAIN Members -> {EnumText(T, e) : e \in named}
          [] OTHER -> {EnumText(T, e) : e \in IF named # {} THEN named ELSE Numbers[s][T]}

\* A text is taken by a writable field exactly if it is one of its type's,
\* and then the field shows it, in the type's own format, with nothing left
\* of what it held before; a text not taken leaves the memory as it is.
FieldsShowWhatTheyTook ==
    \A v \in TextViews, s \in Texts :
        LET after == Given(v, s)
        IN  IF "WRITE" \in v[2].flags /\ Meant(v, s) # {}
            THEN after.res = "OK" /\ TextOf(after.mem, v) \in Meant(v, s)
            ELSE after.res # "OK" /\ after.mem = mem

\* A field whose text is neither a display text, nor that of a nameless
\* value, nor a char's
Rereadable(v) ==
    LET T == v[2].type
    IN  /\ {"READ", "WRITE"} \subseteq v[2].flags
        /\ T # "char"
        /\ T \in DOMAIN Enums =>
              \E e \in Range(Enums[T]) :
                 /\ e.value = ReadAs(T, mem, FirstCell(v))
                 /\ e.name = TextOf(mem, v)

\* What such a field shows it takes back, whatever calls put it there, and
\* shows it again.
ShownTextIsTaken ==
    \A v \in TextViews :
        Rereadable(v) =>
            LET after == Given(v, TextOf(mem, v))
            IN  after.res = "OK" /\ TextOf(after.mem, v) = TextOf(mem, v)

\* print_field shows the whole text of a field that has no format of its own,
\* however long its array.
PrintsAll ==
    [][out' # NoText =>
          \A h \in {k \in Handles : k[3] \notin DOMAIN FormatOf} :
              PrintField(h) => out' = ValueText(mem, h[1], h[3])]_textVars
=============================================================================
