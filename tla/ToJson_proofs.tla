---------------------------- MODULE ToJson_proofs ----------------------------
(***************************************************************************)
(* Proofs about to_json, for all tables, data, buffers and texts: the      *)
(* buffer holds the longest beginning of the text that fits it and nothing *)
(* is written behind it, whatever pieces come; the traversal reads what it *)
(* may; and the two together keep both.                                    *)
(***************************************************************************)
EXTENDS JsonDocument, Registry_proofs, SequenceTheorems

-----------------------------------------------------------------------------
(* The buffer                                                              *)

\* size_t does not wrap below its modulus.
LEMMA SmallMod ==
    ASSUME NEW m \in Nat, NEW x \in 0 .. m - 1
    PROVE  x % m = x
  OBVIOUS

Characters == STRING \cup {NUL, Junk}

Context ==
    [buf : [0 .. BufTop -> Characters], capacity : Sizes \cup {0}, offset : Nat,
     stream : Seq(STRING), meant : Seq(STRING)]

\* A buffer that is being filled: it holds the beginning of the text, has
\* room for the NUL, and is untouched behind its end.
Filling(c) ==
    /\ c.offset = Kept(c.stream, c.capacity)
    /\ \A i \in 0 .. c.offset - 1 : c.buf[i] = c.stream[i + 1]
    /\ \A a \in 0 .. BufTop : a >= c.capacity => c.buf[a] = Junk

BufInv ==
    /\ phase \in {"idle", "open"}
    /\ ctx \in Context
    /\ phase = "open" => ctx.capacity # 0
    /\ IF ctx.capacity = 0 THEN ctx = Fresh(0) ELSE Filling(ctx)
    /\ phase = "idle" /\ ctx.capacity # 0 => ctx.buf[ctx.offset] = NUL

\* The end of what is kept is inside the buffer.
LEMMA KeptInside ==
    ASSUME NEW c \in Context, c.capacity # 0
    PROVE  /\ c.capacity \in 1 .. BufTop /\ BufTop \in Nat /\ SizeMod \in Nat
           /\ BufTop < SizeMod
           /\ Len(c.stream) \in Nat
           /\ Kept(c.stream, c.capacity) \in 0 .. c.capacity - 1
  <1>1. /\ c.capacity \in 1 .. BufTop /\ BufTop \in Nat /\ SizeMod \in Nat
        /\ BufTop < SizeMod
    <2>1. c.capacity \in Sizes
      BY DEF Context
    <2>2. /\ Sizes \subseteq 0 .. BufTop /\ BufTop \in Nat /\ SizeMod \in Nat
          /\ BufTop < SizeMod
      BY BufferAssumption DEF BufferAssumption
    <2>3. c.capacity \in 0 .. BufTop
      BY <2>1, <2>2
    <2> QED
      BY <2>2, <2>3
  <1>2. Len(c.stream) \in Nat
    BY DEF Context
  <1> QED
    BY <1>1, <1>2 DEF Kept

With(c, s, b, o) == [c EXCEPT !.stream = s, !.buf = b, !.offset = o]

\* Contexts differ in what the callback changes.
LEMMA Updated ==
    ASSUME NEW c \in Context, NEW s \in Seq(STRING), NEW b \in [0 .. BufTop -> Characters],
           NEW o \in Nat
    PROVE  /\ With(c, s, b, o) \in Context
           /\ With(c, s, b, o).stream = s
           /\ With(c, s, b, o).buf = b
           /\ With(c, s, b, o).offset = o
           /\ With(c, s, b, o).capacity = c.capacity
  BY DEF Context, With

\* One call of the callback
LEMMA WriteFills ==
    ASSUME NEW c \in Context, c.capacity # 0, Filling(c), NEW chunk \in Seq(STRING)
    PROVE  /\ write_cb(c, chunk) \in Context
           /\ write_cb(c, chunk).capacity = c.capacity
           /\ Filling(write_cb(c, chunk))
  <1> DEFINE n == to_write(c, Len(chunk))
             d == write_cb(c, chunk)
             copied == c.offset .. c.offset + n - 1
             filled == [a \in 0 .. BufTop |-> IF a \in copied THEN chunk[a - c.offset + 1]
                                              ELSE c.buf[a]]
  <1>1. /\ c.capacity \in 1 .. BufTop /\ BufTop \in Nat /\ SizeMod \in Nat
        /\ BufTop < SizeMod /\ Len(c.stream) \in Nat
        /\ c.offset \in 0 .. c.capacity - 1
    BY KeptInside DEF Filling
  <1>2. Len(chunk) \in Nat
    OBVIOUS
  <1>3. available(c) = c.capacity - c.offset - 1
    <2>1. c.capacity - c.offset - 1 \in 0 .. SizeMod - 1
      BY <1>1
    <2> QED
      BY <2>1, <1>1, SmallMod DEF available
  <1>4. /\ n \in Nat /\ n <= Len(chunk)
        /\ n = IF Len(chunk) < c.capacity - c.offset - 1 THEN Len(chunk)
               ELSE c.capacity - c.offset - 1
    BY <1>1, <1>2, <1>3 DEF to_write
  <1>5. (c.offset + n) % SizeMod = c.offset + n
    <2>1. c.offset + n \in 0 .. SizeMod - 1
      BY <1>1, <1>4, SMTT(20)
    <2> QED
      BY <2>1, <1>1, SmallMod
  <1>6. /\ c.stream \o chunk \in Seq(STRING)
        /\ Len(c.stream \o chunk) = Len(c.stream) + Len(chunk)
        /\ \A k \in 1 .. Len(c.stream) : (c.stream \o chunk)[k] = c.stream[k]
        /\ \A k \in 1 .. Len(chunk) : (c.stream \o chunk)[Len(c.stream) + k] = chunk[k]
    <2>1. c.stream \in Seq(STRING)
      BY DEF Context
    <2> QED
      BY <2>1
  <1>7. filled \in [0 .. BufTop -> Characters]
    <2>1. \A a \in copied : a - c.offset + 1 \in 1 .. Len(chunk)
      BY <1>1, <1>2, <1>4, SMTT(20)
    <2>2. \A k \in 1 .. Len(chunk) : chunk[k] \in STRING
      OBVIOUS
    <2>3. c.buf \in [0 .. BufTop -> Characters]
      BY DEF Context
    <2> QED
      BY <2>1, <2>2, <2>3 DEF Characters
  <1>8. /\ d \in Context
        /\ d.stream = c.stream \o chunk /\ d.buf = filled
        /\ d.offset = c.offset + n /\ d.capacity = c.capacity
    <2>1. DOMAIN c.buf = 0 .. BufTop
      BY DEF Context
    <2>2. d = With(c, c.stream \o chunk, filled, c.offset + n)
      BY <1>5, <2>1 DEF write_cb, With
    <2>3. c.offset + n \in Nat
      BY <1>1, <1>4
    <2> HIDE DEF d, n, filled
    <2>4. c.stream \o chunk \in Seq(STRING)
      BY <1>6
    <2>5. PICK b \in [0 .. BufTop -> Characters] : b = filled
      BY <1>7
    <2>6. PICK s \in Seq(STRING) : s = c.stream \o chunk
      BY <2>4
    <2>7. PICK o \in Nat : o = c.offset + n
      BY <2>3
    <2>8. /\ With(c, s, b, o) \in Context
          /\ With(c, s, b, o).stream = s
          /\ With(c, s, b, o).buf = b
          /\ With(c, s, b, o).offset = o
          /\ With(c, s, b, o).capacity = c.capacity
      BY Updated
    <2>9. d = With(c, s, b, o)
      BY <2>2, <2>5, <2>6, <2>7
    <2> QED
      BY <2>5, <2>6, <2>7, <2>8, <2>9
  <1> HIDE DEF d, n
  <1>9. d.offset = Kept(d.stream, d.capacity)
    <2>1. /\ d.offset = c.offset + n /\ d.capacity = c.capacity
          /\ Len(d.stream) = Len(c.stream) + Len(chunk)
      BY <1>6, <1>8
    <2>2. CASE Len(c.stream) < c.capacity
      <3>1. c.offset = Len(c.stream)
        BY <2>2 DEF Filling, Kept
      <3>2. n = IF Len(chunk) < c.capacity - Len(c.stream) - 1 THEN Len(chunk)
                ELSE c.capacity - Len(c.stream) - 1
        BY <3>1, <1>4
      <3>3. c.offset + n = IF Len(c.stream) + Len(chunk) < c.capacity
                           THEN Len(c.stream) + Len(chunk) ELSE c.capacity - 1
        BY <3>1, <3>2, <1>1, <1>2
      <3> QED
        BY <2>1, <3>3 DEF Kept
    <2>3. CASE ~(Len(c.stream) < c.capacity)
      <3>1. c.offset = c.capacity - 1
        BY <2>3 DEF Filling, Kept
      <3>2. n = 0
        BY <3>1, <1>1, <1>2, <1>4
      <3>3. d.offset = d.capacity - 1
        BY <2>1, <3>1, <3>2, <1>1
      <3>4. ~(Len(d.stream) < d.capacity)
        BY <2>1, <2>3, <1>1, <1>2
      <3> QED
        BY <3>3, <3>4 DEF Kept
    <2> QED
      BY <2>2, <2>3
  <1>10. ASSUME NEW i \in 0 .. d.offset - 1 PROVE d.buf[i] = d.stream[i + 1]
    <2>1. i \in 0 .. BufTop /\ i < c.offset + n
      BY <1>1, <1>4, <1>8
    <2>2. CASE i < c.offset
      <3>1. i \in 0 .. c.offset - 1 /\ i \notin copied /\ i + 1 \in 1 .. Len(c.stream)
        <4>1. i \in 0 .. c.offset - 1
          BY <2>1, <2>2, <1>1
        <4>2. i \notin copied
          BY <4>1, <1>1, <1>4
        <4>3. c.offset <= Len(c.stream)
          BY <1>1 DEF Filling, Kept
        <4> QED
          BY <4>1, <4>2, <4>3, <1>1
      <3> QED
        BY <2>1, <3>1, <1>6, <1>8 DEF Filling
    <2>3. CASE i >= c.offset
      <3>1. c.offset = Len(c.stream)
        <4>1. i \in Int /\ c.offset \in Int /\ c.capacity \in Int /\ n \in Nat /\ Len(chunk) \in Nat
          BY <2>1, <1>1, <1>2, <1>4
        <4>2. n > 0
          BY <4>1, <2>1, <2>3
        <4>3. n <= c.capacity - c.offset - 1
          BY <4>1, <1>4
        <4>4. ~(c.offset = c.capacity - 1)
          BY <4>1, <4>2, <4>3
        <4> QED
          BY <4>4 DEF Filling, Kept
      <3>2. i \in copied /\ i - c.offset + 1 \in 1 .. Len(chunk)
        <4>1. i \in Int /\ c.offset \in Int /\ n \in Nat /\ Len(chunk) \in Nat /\ n <= Len(chunk)
          BY <2>1, <1>1, <1>2, <1>4
        <4>2. i \in copied
          BY <4>1, <2>1, <2>3
        <4>3. i - c.offset + 1 \in 1 .. Len(chunk)
          BY <4>1, <2>1, <2>3
        <4> QED
          BY <4>2, <4>3
      <3>3. (c.stream \o chunk)[Len(c.stream) + (i - c.offset + 1)] = chunk[i - c.offset + 1]
        BY <3>2, <1>6
      <3>4. Len(c.stream) + (i - c.offset + 1) = i + 1
        BY <3>1, <1>1, <2>1
      <3> QED
        BY <2>1, <3>2, <3>3, <3>4, <1>8
    <2> QED
      BY <2>1, <2>2, <2>3, <1>1
  <1>11. ASSUME NEW a \in 0 .. BufTop, a >= d.capacity PROVE d.buf[a] = Junk
    <2>1. a \notin copied
      BY <1>11, <1>1, <1>4, <1>8, SMTT(20)
    <2> QED
      BY <2>1, <1>11, <1>8 DEF Filling
  <1> QED
    BY <1>8, <1>9, <1>10, <1>11 DEF Filling, d

\* The invariant is kept by every step.
LEMMA InitBufInv == BufferInit => BufInv
  <1> SUFFICES ASSUME BufferInit PROVE BufInv
    OBVIOUS
  <1>1. Fresh(0) \in Context /\ Fresh(0).capacity = 0
    BY BufferAssumption DEF BufferAssumption, Fresh, Context, Characters
  <1> QED
    BY <1>1 DEF BufferInit, BufInv

\* A buffer just handed in is filled with nothing.
LEMMA BeginBufInv ==
    ASSUME BufInv, NEW buflen \in Sizes, Begin(buflen)
    PROVE  BufInv'
  <1>1. /\ phase' = "open" /\ ctx' = Fresh(buflen) /\ buflen # 0
        /\ buflen \in Nat /\ BufTop \in Nat
    BY BufferAssumption DEF BufferAssumption, Begin
  <1>2. /\ Fresh(buflen) \in Context /\ Fresh(buflen).capacity = buflen
    BY <1>1 DEF Fresh, Context, Characters
  <1>3. Filling(Fresh(buflen))
    BY <1>1 DEF Fresh, Filling, Kept
  <1> QED
    BY <1>1, <1>2, <1>3 DEF BufInv

\* What is noted as meant does not matter to the buffer.
LEMMA MeantIsApart ==
    ASSUME NEW c \in Context, Filling(c), NEW t \in Seq(STRING)
    PROVE  /\ [c EXCEPT !.meant = t] \in Context
           /\ Filling([c EXCEPT !.meant = t])
           /\ [c EXCEPT !.meant = t].capacity = c.capacity
  BY DEF Context, Filling

\* What json_write_internal passes on is a text.
LEMMA CutIsText ==
    ASSUME NEW piece \in Seq(STRING), ~(Len(piece) < Scratch)
    PROVE  SubSeq(piece, 1, Scratch - 1) \in Seq(STRING)
  <1>1. Len(piece) \in Nat /\ Scratch \in Nat \ {0}
    BY BufferAssumption DEF BufferAssumption
  <1>2. \A k \in 1 .. Scratch - 1 : piece[k] \in STRING
    BY <1>1
  <1>3. 1 \in Int /\ Scratch - 1 \in Int
    BY <1>1
  <1> QED
    BY <1>2, <1>3, SubSeqProperties, Zenon

\* A call of the callback keeps the invariant, whoever calls it.
LEMMA PieceBufInv ==
    ASSUME BufInv, phase = "open", phase' = "open", NEW piece \in Seq(STRING),
           ctx' \in {WriteRaw(ctx, piece), WriteFormatted(ctx, piece)}
    PROVE  BufInv' /\ ctx'.capacity = ctx.capacity
  <1> DEFINE cut == IF Len(piece) < Scratch THEN piece ELSE SubSeq(piece, 1, Scratch - 1)
  <1>1. /\ ctx \in Context /\ ctx.capacity # 0 /\ Filling(ctx)
    BY DEF BufInv
  <1>2. cut \in Seq(STRING)
    BY CutIsText
  <1>3. PICK chunk \in {piece, cut} :
            ctx' = [write_cb(ctx, chunk) EXCEPT !.meant = @ \o piece]
    BY DEF WriteRaw, WriteFormatted
  <1>4. /\ write_cb(ctx, chunk) \in Context
        /\ write_cb(ctx, chunk).capacity = ctx.capacity
        /\ Filling(write_cb(ctx, chunk))
    <2>1. chunk \in Seq(STRING)
      BY <1>2
    <2> QED
      BY <2>1, <1>1, WriteFills
  <1>5. write_cb(ctx, chunk).meant \o piece \in Seq(STRING)
    BY <1>4 DEF Context
  <1>6. /\ ctx' \in Context /\ Filling(ctx') /\ ctx'.capacity = ctx.capacity
    BY <1>3, <1>4, <1>5, MeantIsApart
  <1> QED
    BY <1>1, <1>6 DEF BufInv

LEMMA WriteBufInv ==
    ASSUME BufInv, NEW piece \in Pieces, Write(piece)
    PROVE  BufInv'
  <1>1. /\ phase = "open" /\ phase' = "open"
        /\ ctx' \in {WriteRaw(ctx, piece), WriteFormatted(ctx, piece)}
    BY DEF BufInv, Write
  <1>2. PICK text \in Seq(STRING) : text = piece
    BY BufferAssumption DEF BufferAssumption
  <1> QED
    BY <1>1, <1>2, PieceBufInv

LEMMA EndBufInv ==
    ASSUME BufInv, End
    PROVE  BufInv'
  <1>1. /\ ctx \in Context /\ ctx.capacity # 0 /\ Filling(ctx) /\ phase' = "idle"
        /\ ctx' = [ctx EXCEPT !.buf[ctx.offset] = NUL]
    BY DEF BufInv, End
  <1>2. /\ ctx.capacity \in 1 .. BufTop /\ BufTop \in Nat
        /\ ctx.offset \in 0 .. ctx.capacity - 1
    BY <1>1, KeptInside DEF Filling
  <1>3. /\ ctx' \in Context /\ ctx'.capacity = ctx.capacity /\ ctx'.offset = ctx.offset
        /\ ctx'.stream = ctx.stream
        /\ ctx'.buf = [ctx.buf EXCEPT ![ctx.offset] = NUL]
    BY <1>1, <1>2 DEF Context, Characters
  <1>4. /\ ctx.buf \in [0 .. BufTop -> Characters] /\ ctx.offset \in 0 .. BufTop
    BY <1>1, <1>2 DEF Context
  <1>5. /\ ctx'.buf[ctx.offset] = NUL
        /\ \A a \in 0 .. BufTop : a # ctx.offset => ctx'.buf[a] = ctx.buf[a]
    BY <1>3, <1>4
  <1>6. Filling(ctx')
    <2>1. \A i \in 0 .. ctx.offset - 1 : i \in 0 .. BufTop /\ i # ctx.offset
      BY <1>2
    <2>2. \A a \in 0 .. BufTop : a >= ctx.capacity => a # ctx.offset
      BY <1>2
    <2> QED
      BY <1>1, <1>3, <1>5, <2>1, <2>2 DEF Filling
  <1> QED
    BY <1>1, <1>3, <1>5, <1>6 DEF BufInv

LEMMA NextBufInv == BufInv /\ [BufferNext]_bufVars => BufInv'
  <1> SUFFICES ASSUME BufInv, [BufferNext]_bufVars PROVE BufInv'
    OBVIOUS
  <1>1. CASE UNCHANGED bufVars
    BY <1>1 DEF bufVars, BufInv
  <1>2. ASSUME NEW buflen \in Sizes, Begin(buflen) PROVE BufInv'
    BY <1>2, BeginBufInv
  <1>3. ASSUME NEW buflen \in Sizes, Refuse(buflen) PROVE BufInv'
    BY <1>3 DEF Refuse, BufInv
  <1>4. ASSUME NEW piece \in Pieces, Write(piece) PROVE BufInv'
    BY <1>4, WriteBufInv
  <1>5. CASE End
    BY <1>5, EndBufInv
  <1> QED
    BY <1>1, <1>2, <1>3, <1>4, <1>5 DEF BufferNext

\* The inductive invariant
THEOREM BufferInvariance == BufferSpec => []BufInv
  BY InitBufInv, NextBufInv, PTL DEF BufferSpec

LEMMA HoldsFromInv == BufInv => HoldsThePrefix
  BY DEF BufInv, Filling, HoldsThePrefix

LEMMA InsideFromInv == BufInv => StaysInside
  <1> SUFFICES ASSUME BufInv PROVE StaysInside
    OBVIOUS
  <1>1. CASE ctx.capacity = 0
    <2>1. ctx.buf = [a \in 0 .. BufTop |-> Junk]
      BY <1>1 DEF BufInv, Fresh
    <2> QED
      BY <1>1, <2>1 DEF StaysInside
  <1>2. CASE ctx.capacity # 0
    <2>1. ctx.capacity \in Nat /\ ctx.offset \in 0 .. ctx.capacity - 1
      BY <1>2, KeptInside DEF BufInv, Filling
    <2> QED
      BY <1>2, <2>1 DEF BufInv, Filling, StaysInside
  <1> QED
    BY <1>1, <1>2

\* The buffer holds the longest beginning of the text that fits it, in
\* whatever pieces the text came.
THEOREM PrefixIsHeld == BufferSpec => []HoldsThePrefix
  BY HoldsFromInv, BufferInvariance, PTL

\* Nothing is written behind the buffer, and the text ends with a NUL.
THEOREM NothingBehind == BufferSpec => []StaysInside
  BY InsideFromInv, BufferInvariance, PTL

-----------------------------------------------------------------------------
(* The tables and the memory                                               *)

\* The instances of the accessors seen here are those of the tables.
LEMMA SameDynamic == Access!Dynamic = {v \in Views : IsDynamic(v[2])}
  <1>1. \A o : Access!FieldsOf(o[2]) = FieldsOf(o[2])
    BY DEF Access!FieldsOf, FieldsOf
  <1>2. \A f : Access!IsDynamic(f) <=> IsDynamic(f)
    BY DEF Access!IsDynamic, IsDynamic
  <1>3. ASSUME NEW v \in Access!Dynamic PROVE v \in Views /\ IsDynamic(v[2])
    BY <1>1, <1>2 DEF Access!Dynamic, Views
  <1>4. ASSUME NEW v \in Views, IsDynamic(v[2]) PROVE v \in Access!Dynamic
    <2>1. PICK o \in Objects : v \in {o} \X FieldsOf(o[2])
      BY DEF Views
    <2>2. v \in {o} \X {f \in Access!FieldsOf(o[2]) : Access!IsDynamic(f)}
      BY <1>1, <1>2, <1>4, <2>1
    <2> QED
      BY <2>2 DEF Access!Dynamic
  <1> QED
    BY <1>3, <1>4

\* A cell that may be read: in a readable member that is no struct, in a
\* readable dynamic array of no structs, or in a length.
Allowed(m, a) ==
    \/ \E v \in ViewsWith("READ") : ~HasMetadata(v[2].type) /\ a \in Extent(v)
    \/ \E v \in Access!Dynamic \cap ViewsWith("READ") :
          /\ ~HasMetadata(get_base_type(v[2].type))
          /\ a \in Access!LiveCells(m, v)
    \/ \E v \in Access!Dynamic : a \in Access!LengthSpan(v[1][1], v[1][2], v[2])

Open(m, cells) == \A a \in cells : a \in Addr /\ Allowed(m, a)

\* What a value of that type at ptr, seen through field, must be: an
\* instance, or cells that may be read.
Place(m, ptr, type, field) ==
    ptr # NULL =>
        /\ HasMetadata(type) => <<ptr, StructOf[type]>> \in Objects
        /\ ~HasMetadata(type) /\ field # NoField =>
              Open(m, {ptr}) /\ Open(m, Span(ptr, get_type_size(type)))
        /\ ~HasMetadata(type) /\ type \in InlineStrings =>
              Open(m, Span(ptr, IF field = NoField THEN 1 ELSE field.size))

\* What the traversal writes
Token1 == {<<mark>> : mark \in {"{", "}", "[", "]", ",", "null"}}
Token2 == {"key", "schema", "unsupported", "custom"} \X STRING
TokenS == {"string"} \X Int
TokenV == {"value"} \X Addr \X STRING
TokenN == {"name"} \X STRING \X BOOLEAN
AnyToken == Token1 \cup Token2 \cup TokenS \cup TokenV \cup TokenN

StructFrame(fr) ==
    /\ fr.kind = "struct"
    /\ fr.ptr \in Int /\ fr.type \in STRING
    /\ fr.i \in Nat \ {0}
    /\ HasMetadata(fr.type)
    /\ fr.ptr # NULL => <<fr.ptr, StructOf[fr.type]>> \in Objects

ArrayFrame(m, fr) ==
    /\ fr.kind = "array"
    /\ fr.ptr \in Int /\ fr.type \in DOMAIN SizeOf
    /\ fr.n \in Nat /\ fr.i \in 0 .. fr.n
    /\ fr.type \notin InlineStrings
    /\ fr.field # NoField
    /\ \A i \in 0 .. fr.n - 1 :
          Place(m, fr.ptr + i * SizeOf[fr.type], fr.type, fr.field)

Frame == [kind : {"struct", "array"}, ptr : Int, type : STRING, i : Nat, n : Nat,
          field : FieldInfo \cup {NoField}, first : BOOLEAN]

GoodFrame(m, fr) == fr \in Frame /\ (StructFrame(fr) \/ ArrayFrame(m, fr))

GoodWork(m, work) ==
    /\ work.out \in Seq(AnyToken)
    /\ work.enter = <<>> \/ \E fr \in Frame : work.enter = <<fr>> /\ GoodFrame(m, fr)
    /\ \A a \in work.rd : Allowed(m, a)

\* Nothing of a view that is not in memory
LEMMA ExtentInside ==
    ASSUME NEW v \in Views
    PROVE  Extent(v) \subseteq Addr
  BY LayoutAssumption DEF LayoutAssumption

LEMMA OneToken ==
    ASSUME NEW t \in AnyToken
    PROVE  <<t>> \in Seq(AnyToken)
  <1>1. \A S : \A x \in S : <<x>> \in Seq(S)
    OBVIOUS
  <1> QED
    BY <1>1

LEMMA MarkToken ==
    ASSUME NEW mark \in {"{", "}", "[", "]", ",", "null"}
    PROVE  Text(mark) \in Seq(AnyToken)
  <1>1. <<mark>> \in AnyToken
    BY DEF AnyToken, Token1
  <1> QED
    BY <1>1, OneToken DEF Text

LEMMA WordToken ==
    ASSUME NEW kind \in {"key", "schema", "unsupported", "custom"}, NEW what \in STRING
    PROVE  Token(kind, what) \in Seq(AnyToken)
  <1>1. <<kind, what>> \in AnyToken
    BY DEF AnyToken, Token2
  <1> QED
    BY <1>1, OneToken DEF Token

LEMMA StringToken ==
    ASSUME NEW start \in Int
    PROVE  Token("string", start) \in Seq(AnyToken)
  <1>1. <<"string", start>> \in AnyToken
    BY DEF AnyToken, TokenS
  <1> QED
    BY <1>1, OneToken DEF Token

LEMMA ValueToken ==
    ASSUME NEW ptr \in Addr, NEW type \in STRING
    PROVE  <<<<"value", ptr, type>>>> \in Seq(AnyToken)
  <1>1. <<"value", ptr, type>> \in AnyToken
    BY DEF AnyToken, TokenV
  <1> QED
    BY <1>1, OneToken

LEMMA NameToken ==
    ASSUME NEW type \in STRING, NEW explicit \in BOOLEAN
    PROVE  <<<<"name", type, explicit>>>> \in Seq(AnyToken)
  <1>1. <<"name", type, explicit>> \in AnyToken
    BY Zenon DEF AnyToken, TokenN
  <1> QED
    BY <1>1, OneToken

\* Work without frames
LEMMA PlainWork ==
    ASSUME NEW m, NEW tokens \in Seq(AnyToken), NEW cells, \A a \in cells : Allowed(m, a)
    PROVE  GoodWork(m, Work(tokens, <<>>, cells))
  BY DEF GoodWork, Work

LEMMA FrameWork ==
    ASSUME NEW m, NEW tokens \in Seq(AnyToken), NEW cells, \A a \in cells : Allowed(m, a),
           NEW fr \in Frame, GoodFrame(m, fr)
    PROVE  GoodWork(m, Work(tokens, <<fr>>, cells))
  BY DEF GoodWork, Work

\* json_serialize_value of a good place does good work.
LEMMA ValueIsGood ==
    ASSUME mem \in [Addr -> Cell],
           NEW ptr \in Int, NEW type \in STRING, NEW field \in FieldInfo \cup {NoField},
           Place(mem, ptr, type, field)
    PROVE  GoodWork(mem, Value(ptr, type, field))
  <1>1. CASE json_serialize_custom(ptr, type)
    BY <1>1, WordToken, PlainWork DEF Value
  <1>2. CASE ~json_serialize_custom(ptr, type) /\ HasMetadata(type)
    <2>1. Visit(ptr, type) \in Frame
      BY DEF Visit, Frame
    <2>2. StructFrame(Visit(ptr, type))
      BY <1>2 DEF StructFrame, Visit, Place
    <2>3. PICK fr \in Frame : fr = Visit(ptr, type)
      BY <2>1
    <2>4. GoodFrame(mem, fr)
      BY <2>2, <2>3 DEF GoodFrame
    <2> QED
      BY <1>2, <2>3, <2>4, MarkToken, FrameWork DEF Value
  <1>3. CASE /\ ~json_serialize_custom(ptr, type) /\ ~HasMetadata(type)
             /\ ptr # NULL /\ type \in StringTypes
    <2>1. Value(ptr, type, field) = String(ptr, type, field)
      BY <1>3 DEF Value
    <2>2. CASE type \in InlineStrings
      <3> DEFINE cells == Span(ptr, IF field = NoField THEN 1 ELSE field.size)
      <3>1. \A a \in cells : Allowed(mem, a)
        BY <1>3, <2>2 DEF Place, Open
      <3>2. String(ptr, type, field) = Work(Token("string", ptr), <<>>, cells)
        BY <2>2 DEF String
      <3> HIDE DEF cells
      <3> QED
        BY <2>1, <3>1, <3>2, StringToken, PlainWork
    <2>3. CASE type \notin InlineStrings /\ field = NoField
      <3>1. NULL \in Int
        BY DEF NULL
      <3> QED
        BY <2>1, <2>3, <3>1, StringToken, PlainWork DEF String
    <2>4. CASE type \notin InlineStrings /\ field # NoField
      <3>1. ptr \in Addr /\ Allowed(mem, ptr)
        BY <1>3, <2>4 DEF Place, Open
      <3>2. mem[ptr] \in Int
        BY <3>1 DEF Cell
      <3>3. String(ptr, type, field) = Work(Token("string", mem[ptr]), <<>>, {ptr})
        BY <2>4 DEF String
      <3>4. PICK start \in Int : start = mem[ptr]
        BY <3>2
      <3>5. PICK cells : cells = {ptr}
        OBVIOUS
      <3>6. \A a \in cells : Allowed(mem, a)
        BY <3>1, <3>5
      <3> QED
        BY <2>1, <3>3, <3>4, <3>5, <3>6, StringToken, PlainWork
    <2> QED
      BY <2>2, <2>3, <2>4
  <1>4. CASE /\ ~json_serialize_custom(ptr, type) /\ ~HasMetadata(type)
             /\ ~(ptr # NULL /\ type \in StringTypes) /\ (ptr = NULL \/ field = NoField)
    <2>1. PICK explicit \in BOOLEAN : explicit = (ptr = NULL)
      OBVIOUS
    <2>2. Value(ptr, type, field) = Work(<<<<"name", type, explicit>>>>, <<>>, {})
      BY <1>4, <2>1 DEF Value
    <2> QED
      BY <2>2, NameToken, PlainWork
  <1>5. CASE /\ ~json_serialize_custom(ptr, type) /\ ~HasMetadata(type)
             /\ ~(ptr # NULL /\ type \in StringTypes) /\ ptr # NULL /\ field # NoField
    <2>1. CASE type \in Unprintable
      <3>1. Value(ptr, type, field) = Work(Token("unsupported", type), <<>>, {})
        BY <1>5, <2>1 DEF Value
      <3> QED
        BY <3>1, WordToken, PlainWork
    <2>2. CASE type \notin Unprintable
      <3> DEFINE cells == Span(ptr, get_type_size(type))
      <3>1. ptr \in Addr /\ \A a \in cells : Allowed(mem, a)
        BY <1>5 DEF Place, Open
      <3>2. Value(ptr, type, field) = Work(<<<<"value", ptr, type>>>>, <<>>, cells)
        BY <1>5, <2>2 DEF Value
      <3> HIDE DEF cells
      <3> QED
        BY <3>1, <3>2, ValueToken, PlainWork
    <2> QED
      BY <2>1, <2>2
  <1> QED
    BY <1>1, <1>2, <1>3, <1>4, <1>5

-----------------------------------------------------------------------------
(* Members and their elements                                              *)

\* The elements of an array are apart and inside it.
LEMMA Slice ==
    ASSUME NEW n \in Nat, NEW s \in Nat, NEW i \in 0 .. n - 1
    PROVE  i * s \in Nat /\ i * s + s <= n * s
  <1>1. n = i + 1 + (n - i - 1) /\ n - i - 1 \in Nat /\ i \in Nat
    OBVIOUS
  <1>2. PICK k \in Nat : n = i + 1 + k
    BY <1>1
  <1>3. n * s = i * s + s + k * s /\ k * s \in Nat /\ i * s \in Nat
    BY <1>1, <1>2
  <1> QED
    BY <1>3

\* What a readable member that is no struct covers may be read.
LEMMA ReadableExtent ==
    ASSUME NEW m, NEW v \in ViewsWith("READ"), ~HasMetadata(v[2].type)
    PROVE  Open(m, Extent(v))
  BY ExtentInside DEF Open, Allowed, ViewsWith

\* A member seen as one value
LEMMA MemberPlace ==
    ASSUME NEW m, NEW v \in ViewsWith("READ")
    PROVE  Place(m, v[1][1] + v[2].offset, v[2].type, v[2])
  <1>1. /\ v \in Views
        /\ v[1][1] \in Nat /\ v[2].offset \in Nat /\ v[2].size \in Nat \ {0}
        /\ v[2].count \in Nat \ {0} /\ v[2] \in AllFields /\ v[2] # NoField
    BY ViewTypes DEF ViewsWith, FieldInfo
  <1> DEFINE ptr == v[1][1] + v[2].offset
  <1>2. ASSUME HasMetadata(v[2].type) PROVE <<ptr, StructOf[v[2].type]>> \in Objects
    <2>1. 0 \in 0 .. v[2].count - 1
      BY <1>1
    <2>2. <<v[1][1] + v[2].offset + 0 * ElemSize(v[2]), StructOf[v[2].type]>> \in Objects
      BY <1>1, <1>2, <2>1, LayoutAssumption DEF LayoutAssumption
    <2>3. ElemSize(v[2]) \in Int
      BY <1>1 DEF ElemSize
    <2>4. v[1][1] + v[2].offset + 0 * ElemSize(v[2]) = ptr
      BY <1>1, <2>3
    <2> QED
      BY <2>2, <2>4
  <1>3. ASSUME ~HasMetadata(v[2].type)
        PROVE  /\ Open(m, {ptr}) /\ Open(m, Span(ptr, get_type_size(v[2].type)))
               /\ Open(m, Span(ptr, v[2].size))
    <2>1. Open(m, Extent(v))
      BY <1>3, ReadableExtent
    <2>2. Extent(v) = Span(ptr, v[2].size)
      BY DEF Extent
    <2>3. ptr \in Span(ptr, v[2].size)
      BY <1>1 DEF Span
    <2>4. Span(ptr, get_type_size(v[2].type)) \subseteq Span(ptr, v[2].size)
      <3>1. get_type_size(v[2].type) \in {v[2].size, 0}
        BY <1>1, TypesAssumption DEF TypesAssumption, get_type_size
      <3> QED
        BY <1>1, <3>1 DEF Span
    <2> QED
      BY <2>1, <2>2, <2>3, <2>4 DEF Open
  <1> QED
    BY <1>1, <1>2, <1>3 DEF Place

\* The elements of an array in the struct
LEMMA InlinePlaces ==
    ASSUME NEW m, NEW v \in ViewsWith("READ"), ~IsDynamic(v[2]), v[2].count > 1,
           NEW i \in 0 .. v[2].count - 1
    PROVE  /\ v[2].type \in DOMAIN ElemType
           /\ LET base == ElemType[v[2].type]
              IN  Place(m, v[1][1] + v[2].offset + i * SizeOf[base], base, v[2])
  <1> DEFINE base == ElemType[v[2].type]
             start == v[1][1] + v[2].offset
             s == SizeOf[base]
  <1>1. /\ v \in Views
        /\ v[1][1] \in Nat /\ v[2].offset \in Nat /\ v[2].size \in Nat \ {0}
        /\ v[2].count \in Nat \ {0} /\ v[2] \in AllFields /\ v[2] # NoField
    BY ViewTypes DEF ViewsWith, FieldInfo
  <1>2. /\ v[2].type \in DOMAIN ElemType
        /\ ElemSize(v[2]) = s
        /\ HasMetadata(v[2].type) <=> HasMetadata(base)
        /\ HasMetadata(v[2].type) => StructOf[v[2].type] = StructOf[base]
    BY <1>1, TypesAssumption DEF TypesAssumption
  <1>3. base \in DOMAIN SizeOf /\ s \in Nat \ {0} /\ base \notin InlineStrings
    BY <1>2, TypesAssumption DEF TypesAssumption
  <1>4. v[2].size = v[2].count * s
    BY <1>1, <1>2, SizesAssumption DEF SizesAssumption
  <1>5. i \in Nat /\ i * s \in Nat /\ i * s + s <= v[2].size
    <2>1. PICK n \in Nat : n = v[2].count
      BY <1>1
    <2>2. PICK k \in Nat : k = s
      BY <1>3
    <2>3. i \in 0 .. n - 1
      BY <2>1
    <2>4. i * k \in Nat /\ i * k + k <= n * k
      BY <2>3, Slice
    <2> HIDE DEF s
    <2> QED
      BY <1>1, <1>4, <2>1, <2>2, <2>4
  <1>6. ASSUME HasMetadata(base) PROVE <<start + i * s, StructOf[base]>> \in Objects
    <2>1. <<v[1][1] + v[2].offset + i * ElemSize(v[2]), StructOf[v[2].type]>> \in Objects
      BY <1>1, <1>2, <1>6, LayoutAssumption DEF LayoutAssumption
    <2> QED
      BY <2>1, <1>2, <1>6
  <1>7. ASSUME ~HasMetadata(base)
        PROVE  Open(m, {start + i * s}) /\ Open(m, Span(start + i * s, get_type_size(base)))
    <2>1. Open(m, Span(start, v[2].size))
      BY <1>2, <1>7, ReadableExtent DEF Extent
    <2>2. get_type_size(base) = s
      BY <1>3 DEF get_type_size
    <2> HIDE DEF start, s
    <2>3. start \in Nat
      BY <1>1 DEF start
    <2>4. PICK k \in Nat : k = i * s
      BY <1>5
    <2>5. Span(start + k, s) \subseteq Span(start, v[2].size) /\ start + k \in Span(start + k, s)
      BY <1>1, <1>3, <1>5, <2>3, <2>4 DEF Span
    <2> QED
      BY <2>1, <2>2, <2>4, <2>5 DEF Open
  <1> QED
    BY <1>2, <1>3, <1>6, <1>7 DEF Place

\* The elements of an array behind a pointer, when the memory is in order
LEMMA DynamicPlaces ==
    ASSUME NEW m, InOrder(m), NEW v \in ViewsWith("READ"), IsDynamic(v[2]),
           Access!Pointer(m, v) \in Nat, Access!LiveCount(m, v) \in Nat,
           NEW i \in 0 .. Access!LiveCount(m, v) - 1
    PROVE  /\ v[2].type \in DOMAIN ElemType
           /\ LET base == ElemType[v[2].type]
              IN  Place(m, Access!Pointer(m, v) + i * SizeOf[base], base, v[2])
  <1> DEFINE base == ElemType[v[2].type]
             start == Access!Pointer(m, v)
             n == Access!LiveCount(m, v)
             s == SizeOf[base]
  <1>1. /\ v \in Views /\ v[2] \in AllFields /\ v[2] # NoField
    BY ViewTypes DEF ViewsWith
  <1>2. v \in Access!Dynamic
    BY <1>1, SameDynamic
  <1>3. v[2].type \in DOMAIN ElemType
    BY <1>1, TypesAssumption DEF TypesAssumption
  <1>4. base \in DOMAIN SizeOf /\ s \in Nat \ {0} /\ base \notin InlineStrings
    BY <1>3, TypesAssumption DEF TypesAssumption
  <1>5. i \in Nat /\ i * s \in Nat /\ i * s + s <= n * s /\ n * s \in Nat
    BY <1>4, Slice
  <1>6. CASE start = NULL
    <2>1. n <= 1
      BY <1>2, <1>6 DEF InOrder
    <2>2. i = 0 /\ i * s = 0
      BY <1>4, <2>1
    <2>3. start + i * s = NULL
      BY <1>6, <2>2 DEF NULL
    <2> QED
      BY <1>3, <2>3 DEF Place
  <1>7. CASE start # NULL
    <2>1. /\ Access!LiveCells(m, v) \subseteq Addr
          /\ HasMetadata(base) => \A j \in 0 .. n - 1 :
                <<start + j * s, StructOf[base]>> \in Objects
      BY <1>2, <1>7 DEF InOrder
    <2>2. Access!LiveCells(m, v) = start .. (start + n * s - 1)
      BY DEF Access!LiveCells, Access!Span
    <2>3. get_base_type(v[2].type) = base
      BY <1>3 DEF get_base_type
    <2>4. ASSUME ~HasMetadata(base)
          PROVE  Open(m, {start + i * s}) /\ Open(m, Span(start + i * s, get_type_size(base)))
      <3>1. Open(m, Access!LiveCells(m, v))
        BY <1>2, <2>1, <2>3, <2>4 DEF Open, Allowed
      <3>2. get_type_size(base) = s
        BY <1>4 DEF get_type_size
      <3> HIDE DEF start, s, n
      <3>3. start \in Nat
        BY DEF start
      <3>4. PICK k \in Nat : k = i * s
        BY <1>5
      <3>5. PICK e \in Nat : e = n * s
        BY <1>5
      <3>6. /\ Span(start + k, s) \subseteq start .. (start + e - 1)
            /\ start + k \in Span(start + k, s)
        BY <1>4, <1>5, <3>3, <3>4, <3>5 DEF Span
      <3> QED
        BY <2>2, <3>1, <3>2, <3>4, <3>5, <3>6 DEF Open
    <2> QED
      BY <1>3, <1>4, <2>1, <2>4 DEF Place
  <1> QED
    BY <1>6, <1>7

\* What is stored in the cells of a length is a number.
LEMMA LoadIsNat ==
    ASSUME NEW m \in [Addr -> Cell], NEW a \in Nat, NEW n \in {1, 2, 4, 8},
           Span(a, n) \subseteq Addr
    PROVE  Access!LoadUnsigned(m, a, n) \in Nat
  <1>1. \A i \in Nat : i < n => m[a + i] \in Nat
    BY DEF Span, Cell
  <1>2. CASE n = 1
    BY <1>1, <1>2 DEF Access!LoadUnsigned, Access!Load1
  <1>3. CASE n = 2
    <2>1. m[a] \in Nat /\ m[a + 1] \in Nat
      BY <1>1, <1>3
    <2> QED
      BY <1>3, <2>1 DEF Access!LoadUnsigned, Access!Load2, Access!Load1
  <1>4. CASE n = 4
    <2>1. /\ m[a] \in Nat /\ m[a + 1] \in Nat
          /\ m[a + 2] \in Nat /\ m[(a + 2) + 1] \in Nat
      BY <1>1, <1>4
    <2> QED
      BY <1>4, <2>1 DEF Access!LoadUnsigned, Access!Load4, Access!Load2, Access!Load1
  <1>5. CASE n = 8
    <2>1. /\ m[a] \in Nat /\ m[a + 1] \in Nat
          /\ m[a + 2] \in Nat /\ m[(a + 2) + 1] \in Nat
      BY <1>1, <1>5
    <2>2. /\ m[a + 4] \in Nat /\ m[(a + 4) + 1] \in Nat
          /\ m[(a + 4) + 2] \in Nat /\ m[((a + 4) + 2) + 1] \in Nat
      BY <1>1, <1>5
    <2>3. Access!Load4(m, a) \in Nat
      BY <2>1 DEF Access!Load4, Access!Load2, Access!Load1
    <2>4. Access!Load4(m, a + 4) \in Nat
      BY <2>2 DEF Access!Load4, Access!Load2, Access!Load1
    <2> QED
      BY <1>5, <2>3, <2>4 DEF Access!LoadUnsigned, Access!Load8
  <1> QED
    BY <1>2, <1>3, <1>4, <1>5

\* The value of a member of an instance, or what stands for it without one,
\* is good work.
LEMMA OneValueIsGood ==
    ASSUME mem \in [Addr -> Cell], NEW v \in ViewsWith("READ")
    PROVE  GoodWork(mem, Value(v[1][1] + v[2].offset, v[2].type, v[2]))
  <1>1. /\ v[1][1] + v[2].offset \in Int /\ v[2].type \in STRING /\ v[2] \in FieldInfo
    BY ViewTypes DEF ViewsWith, FieldInfo
  <1>2. Place(mem, v[1][1] + v[2].offset, v[2].type, v[2])
    BY MemberPlace
  <1>3. PICK ptr \in Int : ptr = v[1][1] + v[2].offset
    BY <1>1
  <1>4. PICK type \in STRING : type = v[2].type
    BY <1>1
  <1>5. PICK f \in FieldInfo \cup {NoField} : f = v[2]
    BY <1>1
  <1>6. Place(mem, ptr, type, f)
    BY <1>2, <1>3, <1>4, <1>5
  <1> QED
    BY <1>3, <1>4, <1>5, <1>6, ValueIsGood

\* The frame of a loop over a good array is good.
LEMMA LoopIsGood ==
    ASSUME NEW m, NEW ptr \in Int, NEW type \in DOMAIN ElemType,
           NEW f \in FieldInfo, NEW n \in Nat,
           \A i \in 0 .. n - 1 : Place(m, ptr + i * SizeOf[ElemType[type]], ElemType[type], f)
    PROVE  /\ Loop(ptr, get_base_type(type), f, n) \in Frame
           /\ GoodFrame(m, Loop(ptr, get_base_type(type), f, n))
  <1>1. get_base_type(type) = ElemType[type]
    BY DEF get_base_type
  <1>2. /\ ElemType[type] \in DOMAIN SizeOf /\ ElemType[type] \in STRING
        /\ ElemType[type] \notin InlineStrings
    BY TypesAssumption DEF TypesAssumption
  <1>3. f # NoField
    BY TablesAssumption DEF TablesAssumption
  <1>4. Loop(ptr, ElemType[type], f, n) \in Frame
    BY <1>2 DEF Loop, Frame
  <1>5. ArrayFrame(m, Loop(ptr, ElemType[type], f, n))
    BY <1>2, <1>3 DEF Loop, ArrayFrame
  <1> QED
    BY <1>1, <1>4, <1>5 DEF GoodFrame

LEMMA InlineArrayIsGood ==
    ASSUME NEW v \in ViewsWith("READ"), ~IsDynamic(v[2]), v[2].count > 1
    PROVE  GoodWork(mem, InlineArray(v[1][1], v[2]))
  <1>1. /\ v[1][1] + v[2].offset \in Int /\ v[2] \in FieldInfo /\ v[2].count \in Nat
    BY ViewTypes DEF ViewsWith
  <1>2. v[2].type \in DOMAIN ElemType
    BY <1>1, ViewTypes, TypesAssumption DEF TypesAssumption, ViewsWith
  <1>3. PICK ptr \in Int : ptr = v[1][1] + v[2].offset
    BY <1>1
  <1>4. PICK type \in DOMAIN ElemType : type = v[2].type
    BY <1>2
  <1>5. PICK f \in FieldInfo : f = v[2]
    BY <1>1
  <1>6. PICK n \in Nat : n = v[2].count
    BY <1>1
  <1>7. ASSUME NEW i \in 0 .. n - 1
        PROVE  Place(mem, ptr + i * SizeOf[ElemType[type]], ElemType[type], f)
    BY <1>3, <1>4, <1>5, <1>6, InlinePlaces
  <1>8. PICK fr \in Frame : fr = Loop(ptr, get_base_type(type), f, n) /\ GoodFrame(mem, fr)
    BY <1>7, LoopIsGood
  <1>9. InlineArray(v[1][1], v[2]) = Work(Text("["), <<fr>>, {})
    BY <1>3, <1>4, <1>5, <1>6, <1>8 DEF InlineArray
  <1> QED
    BY <1>8, <1>9, MarkToken, FrameWork

LEMMA DynamicArrayIsGood ==
    ASSUME mem \in [Addr -> Cell], InOrder(mem),
           NEW parent, HasMetadata(parent),
           NEW v \in ViewsWith("READ"), v[1][2] = StructOf[parent], IsDynamic(v[2])
    PROVE  GoodWork(mem, DynamicArray(v[1][1], parent, v[2]))
  <1> DEFINE inst == v[1][1]
             f == v[2]
             g == Access!LengthField(parent, f)
             length == Access!get_dynamic_array_length(mem, inst, parent, f)
             pointer == Access!get_field_value(mem, inst, f, 1)
             lengthCells == Access!LengthSpan(inst, parent, f)
  <1>1. /\ v \in Views /\ v[1] \in Objects /\ inst \in Nat /\ inst # NULL
        /\ v[1][2] \in StructTypes /\ v[1] = <<inst, v[1][2]>>
        /\ f \in FieldInfo /\ f # NoField /\ f.offset \in Nat /\ f.size \in Nat \ {0}
        /\ f \in AllFields
    BY ViewTypes DEF ViewsWith, FieldInfo
  <1>2. v \in Access!Dynamic
    BY <1>1, SameDynamic
  <1>3. StructOf[StructOf[parent]] = StructOf[parent]
    BY <1>1, TablesAssumption DEF TablesAssumption
  <1>4. g = Access!LengthField(v[1][2], f)
    BY <1>3 DEF Access!LengthField
  <1>5. \A a \in lengthCells : Allowed(mem, a)
    <2>1. lengthCells = Access!LengthSpan(v[1][1], v[1][2], v[2])
      BY <1>4 DEF Access!LengthSpan
    <2> QED
      BY <1>2, <2>1 DEF Allowed
  <1>6. CASE length.res # "OK"
    BY <1>6, MarkToken, PlainWork DEF DynamicArray
  <1>7. CASE length.res = "OK"
    <2>1. length.rd = lengthCells /\ Access!LengthResult(inst, parent, f) = "OK"
      BY <1>7 DEF Access!get_dynamic_array_length, Access!Err, Access!CopyOut,
                  Access!LengthSpan
    <2>2. CASE pointer.res # "OK"
      <3>1. DynamicArray(inst, parent, f) = Work(Text("null"), <<>>, length.rd)
        BY <1>7, <2>2 DEF DynamicArray
      <3> HIDE DEF length, pointer, lengthCells
      <3> QED
        BY <3>1, <2>1, <1>5, MarkToken, PlainWork
    <2>3. CASE pointer.res = "OK"
      <3>1. pointer.rd = {inst + f.offset}
        <4>1. pointer.rd = Access!Span(inst + f.offset, 1)
          BY <2>3 DEF Access!get_field_value, Access!Err, Access!CopyOut
        <4>2. (inst + f.offset) .. (inst + f.offset + 1 - 1) = {inst + f.offset}
          BY <1>1
        <4> QED
          BY <4>1, <4>2 DEF Access!Span
      <3>2. inst + f.offset \in Extent(v) /\ Extent(v) \subseteq Addr
        BY <1>1, ExtentInside DEF Extent, Span
      <3>3. ~HasMetadata(f.type) /\ f.type \in DOMAIN ElemType
        BY <1>1, TypesAssumption DEF TypesAssumption
      <3>4. \A a \in pointer.rd : Allowed(mem, a)
        BY <3>1, <3>2, <3>3 DEF Allowed
      <3>5. mem[inst + f.offset] \in Nat
        BY <3>2 DEF Cell
      <3>6. Access!Length(mem, inst, parent, f) \in Nat
        <4>1. g.size \in {1, 2, 4, 8} /\ g # NoField
          BY <2>1 DEF Access!LengthResult
        <4>2. g \in FieldsOf(v[1][2])
          <5>1. g = FindField(v[1][2], f.length)
            BY DEF Access!LengthField, Access!FindField, FindField
          <5> QED
            BY <1>1, <4>1, <5>1, FindFieldEntry
        <4>3. <<v[1], g>> \in Views
          BY <1>1, <4>2 DEF Views
        <4>4. Span(inst + g.offset, g.size) \subseteq Addr
          BY <4>3, ExtentInside DEF Extent
        <4>5. g.offset \in Nat
          BY <4>3, ViewTypes
        <4>6. inst + g.offset \in Nat
          BY <1>1, <4>5
        <4> QED
          BY <4>1, <4>4, <4>6, LoadIsNat DEF Access!Length
      <3>7. /\ Access!Pointer(mem, v) = mem[inst + f.offset]
            /\ Access!LiveCount(mem, v) = Access!Length(mem, inst, parent, f)
        BY <1>4 DEF Access!Pointer, Access!LiveCount, Access!Length
      <3>8. PICK ptr \in Int : ptr = mem[inst + f.offset]
        BY <3>5
      <3>9. PICK n \in Nat : n = Access!Length(mem, inst, parent, f)
        BY <3>6
      <3>10. PICK type \in DOMAIN ElemType : type = f.type
        BY <3>3
      <3>11. PICK field \in FieldInfo : field = f
        BY <1>1
      <3>12. ASSUME NEW i \in 0 .. n - 1
             PROVE  Place(mem, ptr + i * SizeOf[ElemType[type]], ElemType[type], field)
        <4>1. /\ Access!Pointer(mem, v) \in Nat /\ Access!LiveCount(mem, v) \in Nat
              /\ i \in 0 .. Access!LiveCount(mem, v) - 1
          BY <3>5, <3>6, <3>7, <3>9
        <4>2. Place(mem, Access!Pointer(mem, v) + i * SizeOf[ElemType[v[2].type]],
                    ElemType[v[2].type], v[2])
          BY <4>1, DynamicPlaces
        <4> QED
          BY <4>2, <3>7, <3>8, <3>10, <3>11
      <3>13. PICK fr \in Frame : /\ fr = Loop(ptr, get_base_type(type), field, n)
                                 /\ GoodFrame(mem, fr)
        BY <3>12, LoopIsGood
      <3>14. PICK cells : cells = length.rd \cup pointer.rd
        OBVIOUS
      <3>15. \A a \in cells : Allowed(mem, a)
        BY <1>5, <2>1, <3>4, <3>14
      <3>16. DynamicArray(inst, parent, f) = Work(Text("["), <<fr>>, cells)
        BY <1>7, <2>3, <3>8, <3>9, <3>10, <3>11, <3>13, <3>14 DEF DynamicArray
      <3> HIDE DEF length, pointer, lengthCells
      <3> QED
        BY <3>13, <3>15, <3>16, MarkToken, FrameWork
    <2> QED
      BY <2>2, <2>3
  <1> QED
    BY <1>6, <1>7

\* _json_traversal_iterator on a member that may be read
LEMMA MemberIsGood ==
    ASSUME mem \in [Addr -> Cell], InOrder(mem),
           NEW fr, StructFrame(fr), NEW f \in FieldsOf(StructOf[fr.type]), "READ" \in f.flags
    PROVE  GoodWork(mem, Member(fr.ptr, fr.type, f))
  <1>1. /\ fr.ptr \in Int /\ HasMetadata(fr.type) /\ StructOf[fr.type] \in StructTypes
    BY TablesAssumption DEF StructFrame, TablesAssumption, HasMetadata
  <1>2. f \in AllFields /\ f \in FieldInfo
    BY <1>1, FieldTypes DEF AllFields
  <1>3. /\ f.type \in STRING /\ get_base_type(f.type) \in STRING
    <2>1. f.type \in STRING
      BY <1>2 DEF FieldInfo
    <2>2. f.type \in DOMAIN ElemType => ElemType[f.type] \in STRING
      BY TypesAssumption DEF TypesAssumption
    <2> QED
      BY <2>1, <2>2 DEF get_base_type
  <1>4. CASE fr.ptr = NULL
    <2>1. CASE IsArray(f)
      <3>1. Member(fr.ptr, fr.type, f) = Work(Token("schema", get_base_type(f.type)), <<>>, {})
        BY <1>4, <2>1 DEF Member
      <3>2. PICK base \in STRING : base = get_base_type(f.type)
        BY <1>3
      <3> QED
        BY <3>1, <3>2, WordToken, PlainWork
    <2>2. CASE ~IsArray(f)
      <3>1. Member(fr.ptr, fr.type, f) = Value(NULL, f.type, f)
        BY <1>4, <2>2 DEF Member
      <3>2. NULL \in Int
        BY DEF NULL
      <3>3. PICK type \in STRING : type = f.type
        BY <1>3
      <3>4. PICK field \in FieldInfo \cup {NoField} : field = f
        BY <1>2
      <3>5. Place(mem, NULL, type, field)
        BY DEF Place
      <3> QED
        BY <3>1, <3>2, <3>3, <3>4, <3>5, ValueIsGood
    <2> QED
      BY <2>1, <2>2
  <1>5. CASE fr.ptr # NULL
    <2>1. PICK v \in ViewsWith("READ") : v = <<<<fr.ptr, StructOf[fr.type]>>, f>>
      <3>1. <<fr.ptr, StructOf[fr.type]>> \in Objects
        BY <1>5 DEF StructFrame
      <3>2. PICK o \in Objects : o = <<fr.ptr, StructOf[fr.type]>>
        BY <3>1
      <3>3. o[1] = fr.ptr /\ o[2] = StructOf[fr.type]
        BY <3>2
      <3>4. <<o, f>> \in {o} \X FieldsOf(o[2])
        BY <3>3
      <3>5. <<o, f>> \in Views
        BY <3>4 DEF Views
      <3>6. <<o, f>>[2] = f
        OBVIOUS
      <3> QED
        BY <3>2, <3>5, <3>6 DEF ViewsWith
    <2>2. v[1][1] = fr.ptr /\ v[1][2] = StructOf[fr.type] /\ v[2] = f
      BY <2>1
    <2>3. CASE ~IsArray(f)
      <3>1. Member(fr.ptr, fr.type, f) = Value(v[1][1] + v[2].offset, v[2].type, v[2])
        BY <1>5, <2>2, <2>3 DEF Member
      <3> QED
        BY <3>1, OneValueIsGood
    <2>4. CASE IsArray(f) /\ IsDynamic(f)
      <3>1. Member(fr.ptr, fr.type, f) = DynamicArray(v[1][1], fr.type, v[2])
        BY <1>5, <2>2, <2>4 DEF Member
      <3>2. IsDynamic(v[2])
        BY <2>2, <2>4
      <3>3. PICK parent : parent = fr.type
        OBVIOUS
      <3>4. GoodWork(mem, DynamicArray(v[1][1], parent, v[2]))
        BY <1>1, <2>2, <3>2, <3>3, DynamicArrayIsGood
      <3> QED
        BY <3>1, <3>3, <3>4
    <2>5. CASE IsArray(f) /\ ~IsDynamic(f)
      <3>1. Member(fr.ptr, fr.type, f) = InlineArray(v[1][1], v[2])
        BY <1>5, <2>2, <2>5 DEF Member
      <3>2. ~IsDynamic(v[2]) /\ v[2].count > 1
        BY <2>2, <2>5 DEF IsArray
      <3> QED
        BY <3>1, <3>2, InlineArrayIsGood
    <2> QED
      BY <2>3, <2>4, <2>5
  <1> QED
    BY <1>4, <1>5

-----------------------------------------------------------------------------
(* The traversal                                                           *)

GoodStack(m, frames) ==
    /\ frames \in Seq(Frame)
    /\ \A i \in DOMAIN frames : GoodFrame(m, frames[i])

\* The memory is in order, what is written are tokens, every frame on the
\* stack is about an instance or about cells that may be read.
WalkInv ==
    /\ mem \in Boots
    /\ out \in Seq(AnyToken)
    /\ GoodStack(mem, stack)
    /\ \A a \in rd : Allowed(mem, a)
    /\ asked = <<>> => out = <<>> /\ stack = <<>>

LEMMA PushFrame ==
    ASSUME NEW m, NEW frames, GoodStack(m, frames), NEW fr \in Frame, GoodFrame(m, fr)
    PROVE  GoodStack(m, <<fr>> \o frames)
  <1>1. frames \in Seq(Frame)
    BY DEF GoodStack
  <1>2. /\ <<fr>> \o frames \in Seq(Frame)
        /\ DOMAIN (<<fr>> \o frames) = 1 .. Len(frames) + 1
        /\ (<<fr>> \o frames)[1] = fr
        /\ \A i \in 2 .. Len(frames) + 1 : (<<fr>> \o frames)[i] = frames[i - 1]
    BY <1>1
  <1>3. ASSUME NEW i \in 1 .. Len(frames) + 1 PROVE GoodFrame(m, (<<fr>> \o frames)[i])
    <2>1. CASE i = 1
      BY <2>1, <1>2
    <2>2. CASE i # 1
      <3>1. i \in 2 .. Len(frames) + 1 /\ i - 1 \in DOMAIN frames
        BY <1>1, <2>2
      <3>2. GoodFrame(m, frames[i - 1])
        BY <3>1 DEF GoodStack
      <3> QED
        BY <3>1, <3>2, <1>2
    <2> QED
      BY <2>1, <2>2
  <1> QED
    BY <1>2, <1>3 DEF GoodStack

LEMMA PopFrame ==
    ASSUME NEW m, NEW frames, GoodStack(m, frames), frames # <<>>
    PROVE  /\ GoodStack(m, Tail(frames))
           /\ Head(frames) \in Frame /\ GoodFrame(m, Head(frames))
  <1>1. frames \in Seq(Frame) /\ Len(frames) \in Nat \ {0} /\ DOMAIN frames = 1 .. Len(frames)
    BY DEF GoodStack
  <1>2. /\ Tail(frames) \in Seq(Frame)
        /\ DOMAIN Tail(frames) = 1 .. Len(frames) - 1
        /\ \A i \in 1 .. Len(frames) - 1 : Tail(frames)[i] = frames[i + 1]
    BY <1>1
  <1>3. ASSUME NEW i \in 1 .. Len(frames) - 1 PROVE GoodFrame(m, Tail(frames)[i])
    <2>1. i + 1 \in DOMAIN frames
      BY <1>1
    <2>2. GoodFrame(m, frames[i + 1])
      BY <2>1 DEF GoodStack
    <2> QED
      BY <2>2, <1>2
  <1>4. 1 \in DOMAIN frames /\ Head(frames) = frames[1]
    BY <1>1
  <1>5. Head(frames) \in Frame /\ GoodFrame(m, Head(frames))
    BY <1>1, <1>4 DEF GoodStack
  <1> QED
    BY <1>2, <1>3, <1>5 DEF GoodStack

LEMMA Grouping ==
    ASSUME NEW S, NEW a \in Seq(S), NEW b \in Seq(S), NEW c \in Seq(S)
    PROVE  (a \o b) \o c = a \o (b \o c) /\ a \o b \in Seq(S)
  BY ConcatAssociative

LEMMA TokenGrouping ==
    \A a, b, c \in Seq(AnyToken) :
        (a \o b) \o c = a \o (b \o c) /\ b \o c \in Seq(AnyToken)
  <1> TAKE a, b, c \in Seq(AnyToken)
  <1> QED
    BY Grouping

\* Doing good work on a good stack: what is written is appended.
OutGrows == \E x \in Seq(AnyToken) : out' = out \o x

LEMMA DoIsGood ==
    ASSUME WalkInv, asked # <<>>,
           NEW lead \in Seq(AnyToken), NEW work, GoodWork(mem, work),
           NEW rest, GoodStack(mem, rest), Do(lead, work, rest)
    PROVE  WalkInv' /\ OutGrows
  <1>1. /\ out \in Seq(AnyToken) /\ work.out \in Seq(AnyToken)
        /\ out' = out \o lead \o work.out /\ stack' = work.enter \o rest
        /\ rd' = work.rd /\ mem' = mem /\ asked' = asked
    BY DEF WalkInv, GoodWork, Do
  <1>2. out' \in Seq(AnyToken)
    BY <1>1
  <1>3. GoodStack(mem, stack')
    <2>1. CASE work.enter = <<>>
      <3>1. \A S : \A s \in Seq(S) : <<>> \o s = s
        OBVIOUS
      <3>2. work.enter \o rest = rest
        BY <2>1, <3>1 DEF GoodStack
      <3> QED
        BY <1>1, <3>2
    <2>2. CASE work.enter # <<>>
      <3>1. PICK fr \in Frame : work.enter = <<fr>> /\ GoodFrame(mem, fr)
        BY <2>2 DEF GoodWork
      <3>2. GoodStack(mem, <<fr>> \o rest)
        BY <3>1, PushFrame
      <3> QED
        BY <1>1, <3>1, <3>2
    <2> QED
      BY <2>1, <2>2
  <1>4. \A a \in rd' : Allowed(mem, a)
    BY <1>1 DEF GoodWork
  <1>5. GoodStack(mem', stack') /\ \A a \in rd' : Allowed(mem', a)
    BY <1>1, <1>3, <1>4
  <1>6. OutGrows
    <2>1. PICK a, b \in Seq(AnyToken) : a = out /\ b = work.out
      BY <1>1
    <2>2. PICK x \in Seq(AnyToken) : x = lead \o b
      BY TokenGrouping
    <2>3. (a \o lead) \o b = a \o (lead \o b)
      BY TokenGrouping
    <2>4. out' = out \o x
      BY <1>1, <2>1, <2>2, <2>3, Zenon
    <2> QED
      BY <2>4, Zenon DEF OutGrows
  <1> QED
    BY <1>1, <1>2, <1>5, <1>6 DEF WalkInv

\* A frame whose loop goes on
LEMMA Advanced ==
    ASSUME NEW fr \in Frame, NEW k \in Nat, NEW b \in BOOLEAN
    PROVE  /\ [fr EXCEPT !.i = k, !.first = b] \in Frame
           /\ [fr EXCEPT !.i = k] \in Frame
           /\ \A x \in {[fr EXCEPT !.i = k, !.first = b], [fr EXCEPT !.i = k]} :
                 /\ x.i = k /\ x.kind = fr.kind /\ x.ptr = fr.ptr /\ x.type = fr.type
                 /\ x.n = fr.n /\ x.field = fr.field
  BY DEF Frame

LEMMA AdvancedIsGood ==
    ASSUME NEW m, NEW fr \in Frame, GoodFrame(m, fr), NEW x \in Frame,
           x.i = fr.i + 1 /\ x.kind = fr.kind /\ x.ptr = fr.ptr /\ x.type = fr.type,
           x.n = fr.n /\ x.field = fr.field,
           fr.kind = "array" => fr.i < fr.n
    PROVE  GoodFrame(m, x)
  <1>1. CASE StructFrame(fr)
    BY <1>1 DEF StructFrame, GoodFrame
  <1>2. CASE ArrayFrame(m, fr)
    <2>1. x.i \in 0 .. x.n
      BY <1>2 DEF ArrayFrame
    <2> QED
      BY <1>2, <2>1 DEF ArrayFrame, GoodFrame
  <1> QED
    BY <1>1, <1>2 DEF GoodFrame

\* What the top of the stack is when something is being written
LEMMA TopIsGood ==
    ASSUME WalkInv, NEW kind, Writing(kind)
    PROVE  /\ top \in Frame /\ GoodFrame(mem, top) /\ GoodStack(mem, Tail(stack))
           /\ top.kind = kind /\ asked # <<>>
           /\ mem \in [Addr -> Cell] /\ InOrder(mem)
           /\ kind = "struct" => StructFrame(top)
           /\ kind = "array" => ArrayFrame(mem, top)
  <1>1. /\ GoodStack(mem, stack) /\ stack # <<>> /\ top = Head(stack) /\ top.kind = kind
    BY DEF WalkInv, Writing, top
  <1>2. top \in Frame /\ GoodFrame(mem, top) /\ GoodStack(mem, Tail(stack))
    BY <1>1, PopFrame
  <1>3. asked # <<>>
    BY <1>1 DEF WalkInv
  <1>4. mem \in [Addr -> Cell] /\ InOrder(mem)
    BY RequestsAssumption DEF RequestsAssumption, WalkInv
  <1>5. /\ kind = "struct" => StructFrame(top)
        /\ kind = "array" => ArrayFrame(mem, top)
    BY <1>1, <1>2 DEF GoodFrame, StructFrame, ArrayFrame
  <1> QED
    BY <1>1, <1>2, <1>3, <1>4, <1>5

\* Advance leaves a good stack.
LEMMA AdvanceIsGood ==
    ASSUME WalkInv, NEW kind, Writing(kind), kind = "array" => top.i < top.n
    PROVE  GoodStack(mem, Advance(top))
  <1>1. /\ top \in Frame /\ GoodFrame(mem, top) /\ GoodStack(mem, Tail(stack))
        /\ top.kind = kind
    BY TopIsGood
  <1>2. PICK k \in Nat : k = top.i + 1
    BY <1>1 DEF Frame
  <1>3. PICK x \in Frame : /\ x = [top EXCEPT !.i = k, !.first = FALSE]
                           /\ x.i = k /\ x.kind = top.kind /\ x.ptr = top.ptr
                           /\ x.type = top.type /\ x.n = top.n /\ x.field = top.field
    <2>1. PICK fr \in Frame : fr = top
      BY <1>1
    <2> QED
      BY <2>1, Advanced
  <1>4. GoodFrame(mem, x)
    BY <1>1, <1>2, <1>3, AdvancedIsGood
  <1>5. Advance(top) = <<x>> \o Tail(stack)
    BY <1>2, <1>3 DEF Advance
  <1> QED
    BY <1>1, <1>4, <1>5, PushFrame

LEMMA InitWalkInv == Init => WalkInv
  BY DEF Init, WalkInv, GoodStack

LEMMA StreamWalkInv ==
    ASSUME WalkInv, NEW r \in Requests, to_json_stream(r[1], r[2])
    PROVE  WalkInv'
  <1>1. /\ mem' = mem /\ mem \in Boots /\ asked' = <<r[1], r[2]>>
        /\ out' = Value(r[1], r[2], NoField).out
        /\ stack' = Value(r[1], r[2], NoField).enter
        /\ rd' = Value(r[1], r[2], NoField).rd
    BY DEF to_json_stream, WalkInv
  <1>2. mem \in [Addr -> Cell]
    BY <1>1, RequestsAssumption DEF RequestsAssumption
  <1>3. /\ r[1] \in Addr \cup {NULL} /\ r[2] \in STRING
        /\ r[1] # NULL /\ HasMetadata(r[2]) => <<r[1], StructOf[r[2]]>> \in Objects
        /\ r[1] # NULL /\ r[2] \in InlineStrings =>
              \E v \in ViewsWith("READ") : ~HasMetadata(v[2].type) /\ r[1] \in Extent(v)
    BY RequestsAssumption DEF RequestsAssumption
  <1>4. PICK ptr \in Int : ptr = r[1]
    BY <1>3, LayoutAssumption DEF LayoutAssumption, Addr, NULL
  <1>5. PICK type \in STRING : type = r[2]
    BY <1>3
  <1>6. PICK field \in FieldInfo \cup {NoField} : field = NoField
    OBVIOUS
  <1>7. Place(mem, ptr, type, field)
    <2>1. ASSUME ptr # NULL, type \in InlineStrings
          PROVE  Open(mem, Span(ptr, IF field = NoField THEN 1 ELSE field.size))
      <3>1. PICK v \in ViewsWith("READ") : ~HasMetadata(v[2].type) /\ ptr \in Extent(v)
        BY <2>1, <1>3, <1>4, <1>5
      <3>2. Open(mem, Extent(v))
        BY <3>1, ReadableExtent
      <3>3. ptr .. (ptr + 1 - 1) = {ptr}
        OBVIOUS
      <3>4. Span(ptr, 1) = {ptr}
        BY <3>3 DEF Span
      <3> QED
        BY <1>6, <3>1, <3>2, <3>4 DEF Open
    <2> QED
      BY <2>1, <1>3, <1>4, <1>5, <1>6 DEF Place
  <1>8. GoodWork(mem, Value(ptr, type, field))
    BY <1>2, <1>7, ValueIsGood
  <1>9. PICK work : work = Value(r[1], r[2], NoField)
    OBVIOUS
  <1>10. GoodWork(mem, work)
    BY <1>4, <1>5, <1>6, <1>8, <1>9
  <1>11. out' \in Seq(AnyToken) /\ \A a \in rd' : Allowed(mem, a)
    BY <1>1, <1>9, <1>10 DEF GoodWork
  <1>12. GoodStack(mem, stack')
    <2>1. CASE work.enter = <<>>
      BY <1>1, <1>9, <2>1 DEF GoodStack
    <2>2. CASE work.enter # <<>>
      <3>1. PICK fr \in Frame : work.enter = <<fr>> /\ GoodFrame(mem, fr)
        BY <1>10, <2>2 DEF GoodWork
      <3>2. <<fr>> \in Seq(Frame) /\ DOMAIN <<fr>> = {1} /\ <<fr>>[1] = fr
        OBVIOUS
      <3> QED
        BY <1>1, <1>9, <3>1, <3>2 DEF GoodStack
    <2> QED
      BY <2>1, <2>2
  <1>13. asked' # <<>>
    BY <1>1
  <1>14. GoodStack(mem', stack') /\ \A a \in rd' : Allowed(mem', a)
    BY <1>1, <1>11, <1>12
  <1> QED
    BY <1>1, <1>11, <1>13, <1>14 DEF WalkInv

\* The member at hand
LEMMA MemberOfTop ==
    ASSUME StructFrame(top), top.i \in DOMAIN Members(top)
    PROVE  member \in FieldsOf(StructOf[top.type]) /\ member \in FieldInfo
  <1>1. StructOf[top.type] \in StructTypes
    BY TablesAssumption DEF StructFrame, TablesAssumption, HasMetadata
  <1>2. member \in FieldsOf(StructOf[top.type])
    BY DEF member, Members, FieldsOf
  <1>3. FieldsOf(StructOf[top.type]) \subseteq AllFields
    BY <1>1 DEF AllFields
  <1> QED
    BY <1>2, <1>3, FieldTypes

LEMMA SkipWalkInv ==
    ASSUME WalkInv, SkipMember
    PROVE  WalkInv'
  <1>1. Writing("struct") /\ mem' = mem /\ asked' = asked /\ out' = out /\ rd' = rd
        /\ stack' = <<[top EXCEPT !.i = @ + 1]>> \o Tail(stack)
    BY DEF SkipMember
  <1>2. /\ top \in Frame /\ GoodFrame(mem, top) /\ GoodStack(mem, Tail(stack))
        /\ top.kind = "struct" /\ asked # <<>>
    BY <1>1, TopIsGood
  <1>3. PICK k \in Nat : k = top.i + 1
    BY <1>2 DEF Frame
  <1>4. PICK x \in Frame : /\ x = [top EXCEPT !.i = k]
                           /\ x.i = k /\ x.kind = top.kind /\ x.ptr = top.ptr
                           /\ x.type = top.type /\ x.n = top.n /\ x.field = top.field
    <2>1. PICK fr \in Frame : fr = top
      BY <1>2
    <2>2. FALSE \in BOOLEAN
      OBVIOUS
    <2>3. PICK x : x = [fr EXCEPT !.i = k]
      OBVIOUS
    <2>4. /\ x \in Frame /\ x.i = k /\ x.kind = fr.kind /\ x.ptr = fr.ptr
          /\ x.type = fr.type /\ x.n = fr.n /\ x.field = fr.field
      BY <2>2, <2>3, Advanced, Zenon
    <2> QED
      BY <2>1, <2>3, <2>4, Zenon
  <1>5. GoodFrame(mem, x)
    BY <1>2, <1>3, <1>4, AdvancedIsGood
  <1>6. GoodStack(mem, <<x>> \o Tail(stack))
    BY <1>2, <1>5, PushFrame
  <1>7. stack' = <<x>> \o Tail(stack)
    BY <1>1, <1>3, <1>4
  <1>8. GoodStack(mem', stack') /\ \A a \in rd' : Allowed(mem', a)
    BY <1>1, <1>6, <1>7 DEF WalkInv
  <1> QED
    BY <1>1, <1>2, <1>8 DEF WalkInv

LEMMA MemberWalkInv ==
    ASSUME WalkInv, WriteMember
    PROVE  WalkInv' /\ OutGrows
  <1>1. /\ Writing("struct") /\ top.i \in DOMAIN Members(top) /\ "READ" \in member.flags
    BY DEF WriteMember, MayRead
  <1>2. /\ StructFrame(top) /\ asked # <<>> /\ mem \in [Addr -> Cell] /\ InOrder(mem)
        /\ GoodStack(mem, Tail(stack))
    BY <1>1, TopIsGood
  <1>3. /\ member \in FieldsOf(StructOf[top.type]) /\ member \in FieldInfo
    BY <1>1, <1>2, MemberOfTop
  <1>4. GoodWork(mem, Member(top.ptr, top.type, member))
    BY <1>1, <1>2, <1>3, MemberIsGood
  <1>5. GoodStack(mem, Advance(top))
    BY <1>1, AdvanceIsGood
  <1>6. PICK key \in STRING : key = Key(member)
    BY <1>3, TypesAssumption DEF TypesAssumption, Key, FieldInfo
  <1>7. PICK lead \in Seq(AnyToken) :
            lead = (IF top.first THEN <<>> ELSE Text(",")) \o Token("key", Key(member))
    <2>1. Token("key", key) \in Seq(AnyToken)
      BY WordToken
    <2>2. Text(",") \in Seq(AnyToken)
      BY MarkToken
    <2>3. \A S : \A a, b \in Seq(S) : a \o b \in Seq(S) /\ <<>> \o b \in Seq(S)
      OBVIOUS
    <2> QED
      BY <1>6, <2>1, <2>2, <2>3
  <1>8. PICK work : work = Member(top.ptr, top.type, member)
    OBVIOUS
  <1>9. PICK rest : rest = Advance(top)
    OBVIOUS
  <1>10. Do(lead, work, rest)
    BY <1>7, <1>8, <1>9 DEF WriteMember
  <1> QED
    BY <1>2, <1>4, <1>5, <1>8, <1>9, <1>10, DoIsGood

LEMMA EmptyWork == \A m : GoodWork(m, Work(<<>>, <<>>, {}))
  <1>1. <<>> \in Seq(AnyToken)
    OBVIOUS
  <1> QED
    BY <1>1, PlainWork

LEMMA EndWalkInv ==
    ASSUME WalkInv, EndStruct \/ EndArray
    PROVE  WalkInv' /\ OutGrows
  <1>1. PICK kind \in {"struct", "array"}, mark \in {"}", "]"} :
            Writing(kind) /\ Do(Text(mark), Work(<<>>, <<>>, {}), Tail(stack))
    BY DEF EndStruct, EndArray
  <1>2. asked # <<>> /\ GoodStack(mem, Tail(stack))
    BY <1>1, TopIsGood
  <1>3. PICK lead \in Seq(AnyToken) : lead = Text(mark)
    BY MarkToken
  <1>4. PICK work : work = Work(<<>>, <<>>, {})
    OBVIOUS
  <1>5. PICK rest : rest = Tail(stack)
    OBVIOUS
  <1>6. GoodWork(mem, work) /\ GoodStack(mem, rest) /\ Do(lead, work, rest)
    BY <1>1, <1>2, <1>3, <1>4, <1>5, EmptyWork
  <1> QED
    BY <1>2, <1>6, DoIsGood

LEMMA ElementWalkInv ==
    ASSUME WalkInv, WriteElement
    PROVE  WalkInv' /\ OutGrows
  <1> DEFINE ith_element == top.ptr + top.i * get_type_size(top.type)
  <1>1. Writing("array") /\ top.i < top.n
    BY DEF WriteElement, InLoop
  <1>2. /\ ArrayFrame(mem, top) /\ asked # <<>> /\ mem \in [Addr -> Cell]
        /\ top \in Frame
    BY <1>1, TopIsGood
  <1>3. GoodStack(mem, Advance(top))
    BY <1>1, AdvanceIsGood
  <1>4. get_type_size(top.type) = SizeOf[top.type] /\ SizeOf[top.type] \in Nat \ {0}
    BY <1>2, TypesAssumption DEF ArrayFrame, TypesAssumption, get_type_size
  <1>5. top.i \in 0 .. top.n - 1
    BY <1>1, <1>2 DEF ArrayFrame
  <1>6. Place(mem, ith_element, top.type, top.field)
    BY <1>2, <1>4, <1>5 DEF ArrayFrame
  <1>7. PICK ptr \in Int : ptr = ith_element
    <2>1. top.ptr \in Int /\ top.i \in Int
      BY <1>2, <1>5 DEF ArrayFrame
    <2> QED
      BY <1>4, <2>1
  <1>8. PICK type \in STRING : type = top.type
    BY <1>2 DEF Frame
  <1>9. PICK field \in FieldInfo \cup {NoField} : field = top.field
    BY <1>2 DEF Frame
  <1>10. GoodWork(mem, Value(ptr, type, field))
    <2>1. Place(mem, ptr, type, field)
      BY <1>6, <1>7, <1>8, <1>9
    <2> QED
      BY <2>1, <1>2, ValueIsGood
  <1>11. PICK work : work = IF ith_element = NULL THEN Work(Text("null"), <<>>, {})
                            ELSE Value(ith_element, top.type, top.field)
    OBVIOUS
  <1>12. GoodWork(mem, work)
    <2>1. GoodWork(mem, Work(Text("null"), <<>>, {}))
      BY MarkToken, PlainWork
    <2> QED
      BY <2>1, <1>7, <1>8, <1>9, <1>10, <1>11
  <1>13. PICK lead \in Seq(AnyToken) : lead = IF top.i = 0 THEN <<>> ELSE Text(",")
    <2>1. Text(",") \in Seq(AnyToken)
      BY MarkToken
    <2>2. <<>> \in Seq(AnyToken)
      OBVIOUS
    <2> QED
      BY <2>1, <2>2
  <1>14. PICK rest : rest = Advance(top)
    OBVIOUS
  <1>15. Do(lead, work, rest)
    BY <1>11, <1>13, <1>14 DEF WriteElement
  <1> QED
    BY <1>2, <1>3, <1>12, <1>14, <1>15, DoIsGood

LEMMA NextWalkInv == WalkInv /\ [Next]_vars => WalkInv'
  <1> SUFFICES ASSUME WalkInv, [Next]_vars PROVE WalkInv'
    OBVIOUS
  <1>1. CASE UNCHANGED vars
    <2>1. mem' = mem /\ asked' = asked /\ stack' = stack /\ out' = out /\ rd' = rd
      BY <1>1 DEF vars
    <2>2. GoodStack(mem', stack') /\ \A a \in rd' : Allowed(mem', a)
      BY <2>1 DEF WalkInv
    <2> QED
      BY <2>1, <2>2 DEF WalkInv
  <1>2. ASSUME NEW r \in Requests, to_json_stream(r[1], r[2]) PROVE WalkInv'
    BY <1>2, StreamWalkInv
  <1>3. CASE SkipMember
    BY <1>3, SkipWalkInv
  <1>4. CASE WriteMember
    BY <1>4, MemberWalkInv
  <1>5. CASE WriteElement
    BY <1>5, ElementWalkInv
  <1>6. CASE EndStruct \/ EndArray
    BY <1>6, EndWalkInv
  <1> QED
    BY <1>1, <1>2, <1>3, <1>4, <1>5, <1>6 DEF Next

LEMMA TypesFromInv == WalkInv => TypeOK
  <1> SUFFICES ASSUME WalkInv PROVE TypeOK
    OBVIOUS
  <1>1. ASSUME NEW i \in DOMAIN stack
        PROVE  /\ stack[i].kind = "struct" => HasMetadata(stack[i].type)
               /\ stack[i].kind = "array" => stack[i].i \in 0 .. stack[i].n
    <2>1. GoodFrame(mem, stack[i])
      BY DEF WalkInv, GoodStack
    <2> QED
      BY <2>1 DEF GoodFrame, StructFrame, ArrayFrame
  <1> QED
    BY <1>1 DEF TypeOK, WalkInv

LEMMA ReadsFromInv == WalkInv => ReadsStayInside
  <1> SUFFICES ASSUME WalkInv PROVE ReadsStayInside
    OBVIOUS
  <1>1. \A a \in rd : Allowed(mem, a)
    BY DEF WalkInv
  <1>2. ASSUME NEW i \in DOMAIN stack, stack[i].kind = "struct", stack[i].ptr # NULL
        PROVE  <<stack[i].ptr, StructOf[stack[i].type]>> \in Objects
    <2>1. GoodFrame(mem, stack[i])
      BY DEF WalkInv, GoodStack
    <2> QED
      BY <2>1, <1>2 DEF GoodFrame, StructFrame, ArrayFrame
  <1> QED
    BY <1>1, <1>2 DEF ReadsStayInside, Allowed

-----------------------------------------------------------------------------
(* to_json: the traversal and the buffer together                          *)

\* Pieces wait only inside a call, a string is written only while its token
\* is the next, and nothing is written before the traversal has begun.
JsonInv ==
    /\ BufInv
    /\ WalkInv
    /\ pending \in Seq(AnyToken)
    /\ pending # <<>> => phase = "open"
    /\ chr \in Int
    /\ chr # NULL => pending # <<>> /\ token[1] = "string" /\ token[2] # NULL
    /\ asked = <<>> => pending = <<>> /\ ctx.stream = <<>>

\* What is found in memory has a text.
LEMMA ShownIsText ==
    ASSUME WalkInv, NEW a \in Addr
    PROVE  Shown[mem[a]] \in STRING
  BY ShownAssumption DEF ShownAssumption, WalkInv

LEMMA Strings ==
    ASSUME NEW a \in STRING, NEW b \in STRING, NEW c \in STRING
    PROVE  <<a>> \in Seq(STRING) /\ <<a, b>> \in Seq(STRING) /\ <<a, b, c>> \in Seq(STRING)
  <1>1. \A S : \A x, y, z \in S : <<x>> \in Seq(S) /\ <<x, y>> \in Seq(S) /\ <<x, y, z>> \in Seq(S)
    OBVIOUS
  <1> QED
    BY <1>1

LEMMA LiteralIsString ==
    ASSUME NEW a \in Literals
    PROVE  a \in STRING
  BY LiteralsAssumption DEF LiteralsAssumption

\* A word between two literals
LEMMA Framed ==
    ASSUME NEW a \in Literals, NEW b \in STRING, NEW c \in Literals
    PROVE  /\ <<a>> \in Seq(STRING) /\ <<b>> \in Seq(STRING)
           /\ <<a, b>> \in Seq(STRING) /\ <<a, b, c>> \in Seq(STRING)
  <1>1. a \in STRING /\ c \in STRING
    BY LiteralIsString
  <1> QED
    BY <1>1, Strings

\* Every token that is no string has a text.
LEMMA TextOfToken ==
    ASSUME WalkInv, NEW t \in AnyToken, t[1] \notin {"string", "custom"}
    PROVE  TextOf(t) \in Seq(STRING)
  <1>1. CASE t \in Token1
    <2>1. PICK mark \in {"{", "}", "[", "]", ",", "null"} : t = <<mark>>
      BY <1>1 DEF Token1
    <2>2. TextOf(t) = <<mark>>
      BY <2>1 DEF TextOf
    <2>3. PICK literal \in Literals : literal = mark
      BY DEF Literals
    <2>4. TextOf(t) = <<literal>>
      BY <2>2, <2>3
    <2>5. <<literal>> \in Seq(STRING)
      BY LiteralIsString, Strings
    <2> QED
      BY <2>4, <2>5
  <1>2. CASE t \in Token2
    <2>1. /\ t[1] \in {"key", "schema", "unsupported", "custom"}
      BY <1>2 DEF Token2
    <2>2. PICK what \in STRING : t[2] = what
      BY <1>2 DEF Token2
    <2>3. PICK x \in Literals, y \in Literals : TextOf(t) = <<x, what, y>>
      <3>1. CASE t[1] = "key"
        <4>1. PICK x \in Literals, y \in Literals : x = "'" /\ y = "':"
          BY DEF Literals
        <4> QED
          BY <2>2, <3>1, <4>1 DEF TextOf
      <3>2. CASE t[1] = "schema"
        <4>1. PICK x \in Literals, y \in Literals : x = "['" /\ y = "']"
          BY DEF Literals
        <4> QED
          BY <2>2, <3>2, <4>1 DEF TextOf
      <3>3. CASE t[1] = "unsupported"
        <4>1. PICK x \in Literals, y \in Literals : x = "'<unsupported:" /\ y = ">'"
          BY DEF Literals
        <4> QED
          BY <2>2, <3>3, <4>1 DEF TextOf
      <3> QED
        BY <2>1, <3>1, <3>2, <3>3
    <2> QED
      BY <2>3, Framed
  <1>3. PICK x \in Literals : x = "'"
    BY DEF Literals
  <1>4. CASE t \in TokenV
    <2>1. t[1] = "value" /\ t[2] \in Addr
      BY <1>4 DEF TokenV
    <2>2. PICK ptr \in Addr : t[2] = ptr
      BY <2>1
    <2>3. PICK shown \in STRING : shown = Shown[mem[ptr]]
      BY ShownIsText
    <2>4. TextOf(t) = <<x, shown, x>> \/ TextOf(t) = <<shown>>
      BY <1>3, <2>1, <2>2, <2>3 DEF TextOf, ValueText
    <2> QED
      BY <2>4, Framed
  <1>5. CASE t \in TokenN
    <2>1. t[1] = "name" /\ t[2] \in STRING
      BY <1>5 DEF TokenN
    <2>2. PICK type \in STRING : t[2] = type
      BY <2>1
    <2>3. TextOf(t) = <<x, type, x>> \/ TextOf(t) = <<type>>
      BY <1>3, <2>1, <2>2 DEF TextOf
    <2> QED
      BY <2>3, Framed
  <1>6. t \notin TokenS
    BY DEF TokenS
  <1> QED
    BY <1>1, <1>2, <1>4, <1>5, <1>6 DEF AnyToken

\* The next token and those behind it
LEMMA NextToken ==
    ASSUME JsonInv, pending # <<>>
    PROVE  /\ token \in AnyToken /\ Tail(pending) \in Seq(AnyToken)
           /\ phase = "open" /\ asked # <<>>
  <1>1. pending \in Seq(AnyToken)
    BY DEF JsonInv
  <1>2. Head(pending) \in AnyToken /\ Tail(pending) \in Seq(AnyToken)
    BY <1>1
  <1> QED
    BY <1>2 DEF JsonInv, token

LEMMA StringStart ==
    ASSUME JsonInv, pending # <<>>, token[1] = "string"
    PROVE  token[2] \in Int
  <1>1. PICK t \in AnyToken : t = token /\ t[1] = "string"
    BY NextToken
  <1>2. t \notin Token1
    <2> SUFFICES ASSUME t \in Token1 PROVE FALSE
      OBVIOUS
    <2>1. PICK mark \in {"{", "}", "[", "]", ",", "null"} : t = <<mark>>
      BY DEF Token1
    <2>2. t[1] = mark
      BY <2>1
    <2>3. mark # "string"
      OBVIOUS
    <2> QED
      BY <1>1, <2>2, <2>3
  <1>3. t \notin Token2 /\ t \notin TokenV /\ t \notin TokenN
    BY <1>1 DEF Token2, TokenV, TokenN
  <1>4. t \in TokenS
    BY <1>2, <1>3 DEF AnyToken
  <1>5. t[2] \in Int
    BY <1>4 DEF TokenS
  <1> QED
    BY <1>1, <1>5

LEMMA NullText == <<"n", "u", "l", "l">> \in Seq(STRING)
  <1>1. PICK n \in Literals, u \in Literals, l \in Literals : n = "n" /\ u = "u" /\ l = "l"
    BY DEF Literals
  <1>2. n \in STRING /\ u \in STRING /\ l \in STRING
    BY LiteralIsString
  <1>3. \A S : \A x, y, z \in S : <<x, y, z, z>> \in Seq(S)
    OBVIOUS
  <1>4. <<n, u, l, l>> \in Seq(STRING)
    BY <1>2, <1>3
  <1> QED
    BY <1>1, <1>4

LEMMA QuoteText == <<"'">> \in Seq(STRING)
  <1>1. PICK quote \in Literals : quote = "'"
    BY DEF Literals
  <1>2. <<quote>> \in Seq(STRING)
    BY LiteralIsString, Strings
  <1> QED
    BY <1>1, <1>2

\* A character has a text.
LEMMA EscapedIsText ==
    ASSUME WalkInv, NEW a \in Addr
    PROVE  Escaped(mem[a]) \in Seq(STRING)
  <1>1. PICK shown \in STRING : shown = Shown[mem[a]]
    BY ShownIsText
  <1>2. PICK escape \in Literals : escape = "\\"
    BY DEF Literals
  <1>3. <<escape, shown>> \in Seq(STRING) /\ <<shown>> \in Seq(STRING)
    BY LiteralIsString, Strings
  <1>4. Escaped(mem[a]) = <<escape, shown>> \/ Escaped(mem[a]) = <<shown>>
    BY <1>1, <1>2 DEF Escaped
  <1> QED
    BY <1>3, <1>4

LEMMA TailFacts ==
    ASSUME NEW S, NEW s \in Seq(S), s # <<>>
    PROVE  Tail(s) \in Seq(S)
  OBVIOUS

\* A call of the callback inside to_json
LEMMA CallIsGood ==
    ASSUME JsonInv, pending # <<>>, NEW piece \in Seq(STRING),
           ctx' \in {WriteRaw(ctx, piece), WriteFormatted(ctx, piece)},
           UNCHANGED <<vars, phase, answer>>
    PROVE  /\ BufInv' /\ WalkInv'
           /\ phase' = "open" /\ asked' # <<>>
  <1>1. phase = "open" /\ phase' = "open" /\ asked # <<>>
    BY NextToken
  <1>2. BufInv'
    BY <1>1, PieceBufInv DEF JsonInv
  <1>3. WalkInv'
    BY NextWalkInv DEF JsonInv
  <1>4. asked' = asked
    BY DEF vars
  <1> QED
    BY <1>1, <1>2, <1>3, <1>4

LEMMA TokenJsonInv ==
    ASSUME JsonInv, WriteToken
    PROVE  JsonInv'
  <1>1. /\ pending # <<>> /\ token[1] # "string" /\ pending' = Tail(pending) /\ chr' = chr
        /\ UNCHANGED <<vars, phase, answer>>
    BY DEF WriteToken
  <1>2. token \in AnyToken /\ Tail(pending) \in Seq(AnyToken)
    BY <1>1, NextToken
  <1>3. PICK piece \in Seq(STRING) :
            ctx' \in {WriteRaw(ctx, piece), WriteFormatted(ctx, piece)}
    <2>1. CASE token[1] = "custom"
      <3>1. PICK word \in Literals : word = "serialized"
        BY DEF Literals
      <3>2. <<word>> \in Seq(STRING)
        BY LiteralIsString, Strings
      <3> QED
        BY <2>1, <3>1, <3>2 DEF WriteToken
    <2>2. CASE token[1] # "custom"
      <3>1. PICK t \in AnyToken : t = token
        BY <1>2
      <3>2. TextOf(t) \in Seq(STRING)
        BY <1>1, <2>2, <3>1, TextOfToken DEF JsonInv
      <3> QED
        BY <2>2, <3>1, <3>2 DEF WriteToken
    <2> QED
      BY <2>1, <2>2
  <1>4. BufInv' /\ WalkInv' /\ phase' = "open" /\ asked' # <<>>
    BY <1>1, <1>3, CallIsGood
  <1>5. chr = NULL
    BY <1>1 DEF JsonInv
  <1> QED
    BY <1>1, <1>2, <1>4, <1>5 DEF JsonInv

\* The steps of json_write_string_escaped
LEMMA NullJsonInv ==
    ASSUME JsonInv, WriteNull
    PROVE  JsonInv'
  <1>1. /\ pending # <<>> /\ token[2] = NULL /\ pending' = Tail(pending) /\ chr' = chr
        /\ UNCHANGED <<vars, phase, answer>> /\ ctx' = WriteRaw(ctx, <<"n", "u", "l", "l">>)
    BY DEF WriteNull, WritingString
  <1>2. token \in AnyToken /\ Tail(pending) \in Seq(AnyToken)
    BY <1>1, NextToken
  <1>3. PICK piece \in Seq(STRING) : piece = <<"n", "u", "l", "l">>
    BY NullText
  <1>4. BufInv' /\ WalkInv' /\ phase' = "open" /\ asked' # <<>>
    <2>1. ctx' \in {WriteRaw(ctx, piece), WriteFormatted(ctx, piece)}
      BY <1>1, <1>3
    <2> QED
      BY <1>1, <2>1, CallIsGood
  <1>5. chr = NULL
    BY <1>1 DEF JsonInv
  <1> QED
    BY <1>1, <1>2, <1>4, <1>5 DEF JsonInv

LEMMA OpenJsonInv ==
    ASSUME JsonInv, OpenString
    PROVE  JsonInv'
  <1>1. /\ pending # <<>> /\ token[1] = "string" /\ token[2] # NULL
        /\ pending' = pending /\ chr' = token[2]
        /\ UNCHANGED <<vars, phase, answer>> /\ ctx' = WriteRaw(ctx, <<"'">>)
    BY DEF OpenString, WritingString
  <1>2. token \in AnyToken
    BY <1>1, NextToken
  <1>3. token[2] \in Int
    BY <1>1, StringStart
  <1>4. PICK piece \in Seq(STRING) : piece = <<"'">>
    BY QuoteText
  <1>5. BufInv' /\ WalkInv' /\ phase' = "open" /\ asked' # <<>>
    <2>1. ctx' \in {WriteRaw(ctx, piece), WriteFormatted(ctx, piece)}
      BY <1>1, <1>4
    <2> QED
      BY <1>1, <2>1, CallIsGood
  <1>6. token' = token
    BY <1>1 DEF token
  <1> QED
    BY <1>1, <1>3, <1>5, <1>6 DEF JsonInv

LEMMA CharJsonInv ==
    ASSUME JsonInv, WriteChar
    PROVE  JsonInv'
  <1>1. /\ pending # <<>> /\ token[1] = "string" /\ token[2] # NULL /\ chr \in Addr
        /\ pending' = pending /\ chr' = chr + 1
        /\ UNCHANGED <<vars, phase, answer>> /\ ctx' = WriteRaw(ctx, Escaped(mem[chr]))
    BY DEF WriteChar, JsonInv
  <1>2. chr' \in Int
    BY <1>1 DEF JsonInv
  <1>3. PICK piece \in Seq(STRING) : piece = Escaped(mem[chr])
    BY <1>1, EscapedIsText DEF JsonInv
  <1>4. BufInv' /\ WalkInv' /\ phase' = "open" /\ asked' # <<>>
    <2>1. ctx' \in {WriteRaw(ctx, piece), WriteFormatted(ctx, piece)}
      BY <1>1, <1>3
    <2> QED
      BY <1>1, <2>1, CallIsGood
  <1>5. token' = token
    BY <1>1 DEF token
  <1> QED
    BY <1>1, <1>2, <1>4, <1>5 DEF JsonInv

LEMMA CloseJsonInv ==
    ASSUME JsonInv, CloseString
    PROVE  JsonInv'
  <1>1. /\ pending # <<>> /\ pending' = Tail(pending) /\ chr' = NULL
        /\ UNCHANGED <<vars, phase, answer>> /\ ctx' = WriteRaw(ctx, <<"'">>)
    BY DEF CloseString, JsonInv
  <1>2. Tail(pending) \in Seq(AnyToken)
    BY <1>1, NextToken
  <1>3. PICK piece \in Seq(STRING) : piece = <<"'">>
    BY QuoteText
  <1>4. BufInv' /\ WalkInv' /\ phase' = "open" /\ asked' # <<>>
    <2>1. ctx' \in {WriteRaw(ctx, piece), WriteFormatted(ctx, piece)}
      BY <1>1, <1>3
    <2> QED
      BY <1>1, <2>1, CallIsGood
  <1>5. chr' \in Int
    BY <1>1 DEF NULL
  <1> QED
    BY <1>1, <1>2, <1>4, <1>5 DEF JsonInv

\* What a step of the traversal appends are tokens.
LEMMA TraverseJsonInv ==
    ASSUME JsonInv, Traverse
    PROVE  JsonInv'
  <1>1. /\ phase = "open" /\ pending = <<>> /\ Next /\ UNCHANGED <<bufVars, chr>>
        /\ pending' = SubSeq(out', Len(out) + 1, Len(out'))
    BY DEF Traverse
  <1>2. phase' = phase /\ ctx' = ctx /\ answer' = answer /\ chr' = chr
    BY <1>1 DEF bufVars
  <1>3. BufInv'
    BY <1>2 DEF JsonInv, BufInv
  <1>4. WalkInv'
    BY <1>1, NextWalkInv DEF JsonInv
  <1>5. pending' \in Seq(AnyToken)
    <2>1. PICK text \in Seq(AnyToken) : text = out'
      BY <1>4 DEF WalkInv
    <2>2. Len(out) \in Nat
      BY DEF JsonInv, WalkInv
    <2>3. PICK from \in Int : from = Len(out) + 1 /\ from >= 1
      BY <2>2
    <2>4. PICK to \in Int : to = Len(text)
      OBVIOUS
    <2>5. \A k \in from .. to : text[k] \in AnyToken
      BY <2>3, <2>4
    <2>6. SubSeq(text, from, to) \in Seq(AnyToken)
      BY <2>5, SubSeqProperties, Zenon
    <2> QED
      BY <1>1, <2>1, <2>3, <2>4, <2>6
  <1>6. asked' # <<>>
    <2>1. ASSUME NEW r \in Requests, to_json_stream(r[1], r[2]) PROVE asked' # <<>>
      BY <2>1 DEF to_json_stream
    <2>2. ASSUME SkipMember \/ WriteMember \/ EndStruct \/ WriteElement \/ EndArray
          PROVE  asked' # <<>>
      <3>1. asked' = asked
        BY <2>2 DEF SkipMember, WriteMember, EndStruct, WriteElement, EndArray, Do
      <3>2. stack # <<>>
        BY <2>2 DEF SkipMember, WriteMember, EndStruct, WriteElement, EndArray, Writing
      <3> QED
        BY <3>1, <3>2 DEF JsonInv, WalkInv
    <2> QED
      BY <1>1, <2>1, <2>2 DEF Next
  <1>7. chr = NULL
    BY <1>1 DEF JsonInv
  <1> QED
    BY <1>1, <1>2, <1>3, <1>4, <1>5, <1>6, <1>7 DEF JsonInv

LEMMA CallJsonInv ==
    ASSUME JsonInv, NEW buflen \in Sizes, to_json(buflen)
    PROVE  JsonInv'
  <1>1. /\ asked = <<>> /\ UNCHANGED <<vars, pending, chr>>
        /\ Begin(buflen) \/ Refuse(buflen)
    BY DEF to_json
  <1>2. pending = <<>> /\ ctx.stream = <<>> /\ chr = NULL
    BY <1>1 DEF JsonInv
  <1>3. BufInv'
    <2>1. CASE Begin(buflen)
      BY <2>1, BeginBufInv DEF JsonInv
    <2>2. CASE Refuse(buflen)
      BY <2>2 DEF Refuse, BufInv, JsonInv
    <2> QED
      BY <1>1, <2>1, <2>2
  <1>4. WalkInv'
    BY <1>1, NextWalkInv DEF JsonInv
  <1>5. ctx'.stream = <<>>
    BY <1>1, <1>2 DEF Begin, Refuse, Fresh
  <1> QED
    BY <1>1, <1>2, <1>3, <1>4, <1>5 DEF JsonInv, vars

LEMMA ReturnJsonInv ==
    ASSUME JsonInv, Return
    PROVE  JsonInv'
  <1>1. pending = <<>> /\ asked # <<>> /\ End /\ UNCHANGED <<vars, pending, chr>>
    BY DEF Return, done
  <1>2. BufInv'
    BY <1>1, EndBufInv DEF JsonInv
  <1>3. WalkInv'
    BY <1>1, NextWalkInv DEF JsonInv
  <1>4. asked' # <<>> /\ pending' = <<>> /\ chr' = chr /\ chr = NULL
    BY <1>1 DEF vars, JsonInv
  <1> QED
    BY <1>2, <1>3, <1>4 DEF JsonInv

LEMMA InitJsonInv == JsonInit => JsonInv
  <1> SUFFICES ASSUME JsonInit PROVE JsonInv
    OBVIOUS
  <1>1. BufInv /\ WalkInv
    BY InitBufInv, InitWalkInv DEF JsonInit
  <1>2. pending = <<>> /\ <<>> \in Seq(AnyToken) /\ chr = NULL /\ ctx = Fresh(0)
    BY DEF JsonInit, BufferInit
  <1> QED
    BY <1>1, <1>2 DEF JsonInv, Fresh, NULL

LEMMA NextJsonInv == JsonInv /\ [JsonNext]_jsonVars => JsonInv'
  <1> SUFFICES ASSUME JsonInv, [JsonNext]_jsonVars PROVE JsonInv'
    OBVIOUS
  <1>1. CASE UNCHANGED jsonVars
    <2>1. UNCHANGED <<vars, bufVars, pending, chr>>
      BY <1>1 DEF jsonVars
    <2>2. BufInv'
      BY <2>1, NextBufInv DEF JsonInv
    <2>3. WalkInv'
      BY <2>1, NextWalkInv DEF JsonInv
    <2>4. asked' = asked /\ phase' = phase /\ ctx' = ctx /\ token' = token
      BY <2>1 DEF vars, bufVars, token
    <2> QED
      BY <2>1, <2>2, <2>3, <2>4 DEF JsonInv
  <1>2. ASSUME NEW buflen \in Sizes, to_json(buflen) PROVE JsonInv'
    BY <1>2, CallJsonInv
  <1>3. CASE Traverse
    BY <1>3, TraverseJsonInv
  <1>4. CASE CallBack
    BY <1>4, TokenJsonInv, NullJsonInv, OpenJsonInv, CharJsonInv, CloseJsonInv DEF CallBack
  <1>5. CASE Return
    BY <1>5, ReturnJsonInv
  <1> QED
    BY <1>1, <1>2, <1>3, <1>4, <1>5 DEF JsonNext

\* The inductive invariant of to_json: that of the buffer, that of the
\* traversal, and what ties the pieces still to be written to both.
THEOREM JsonInvariance == JsonSpec => []JsonInv
  BY InitJsonInv, NextJsonInv, PTL DEF JsonSpec

\* Both parts of to_json keep their types, and nothing is written before
\* the traversal has begun.
THEOREM TypeCorrect == JsonSpec => []JsonTypeOK
  <1>1. ASSUME JsonInv PROVE JsonTypeOK
    <2>1. TypeOK
      BY <1>1, TypesFromInv DEF JsonInv
    <2>2. ctx \in Context /\ phase \in {"idle", "open"}
      BY <1>1 DEF JsonInv, BufInv
    <2>3. ctx.offset \in 0 .. SizeMod - 1
      <3>1. CASE ctx.capacity = 0
        <4>1. ctx = Fresh(0) /\ SizeMod \in Nat /\ BufTop \in Nat /\ BufTop < SizeMod
          BY <1>1, <3>1, BufferAssumption DEF JsonInv, BufInv, BufferAssumption
        <4> QED
          BY <4>1 DEF Fresh
      <3>2. CASE ctx.capacity # 0
        <4>1. Filling(ctx)
          BY <1>1, <3>2 DEF JsonInv, BufInv
        <4> QED
          BY <2>2, <3>2, <4>1, KeptInside DEF Filling
      <3> QED
        BY <3>1, <3>2
    <2>4. BufferTypeOK
      BY <2>2, <2>3 DEF BufferTypeOK, Context
    <2> QED
      BY <1>1, <2>1, <2>4 DEF JsonTypeOK, JsonInv
  <1> QED
    BY <1>1, JsonInvariance, PTL

\* The traversal reads readable members, arrays and lengths only, however
\* deep they are nested, and writes a struct where one is.
THEOREM TraversalStaysInside == JsonSpec => []ReadsStayInside
  <1>1. JsonInv => ReadsStayInside
    BY ReadsFromInv DEF JsonInv
  <1> QED
    BY <1>1, JsonInvariance, PTL

\* In to_json too the buffer holds the longest beginning of the text.
THEOREM PrefixArrives == JsonSpec => []HoldsThePrefix
  <1>1. JsonInv => HoldsThePrefix
    BY HoldsFromInv DEF JsonInv
  <1> QED
    BY <1>1, JsonInvariance, PTL

\* to_json writes nothing behind the caller's buffer and ends the text in
\* it with a NUL.
THEOREM NothingBehindTheBuffer == JsonSpec => []StaysInside
  <1>1. JsonInv => StaysInside
    BY InsideFromInv DEF JsonInv
  <1> QED
    BY <1>1, JsonInvariance, PTL

-----------------------------------------------------------------------------
(* Joined texts                                                            *)

LEMMA FollowedTyped ==
    ASSUME NEW S, NEW before \in Seq(S), NEW mark \in Seq(S), NEW part \in Seq(S)
    PROVE  Followed(before, mark, part) \in Seq(S)
  BY DEF Followed

\* How three texts are put together does not matter.
Grouped(s, t, u) == (s \o t) \o u = s \o (t \o u)

LEMMA Regroup ==
    ASSUME NEW S, NEW s \in Seq(S), NEW t \in Seq(S), NEW u \in Seq(S)
    PROVE  Grouped(s, t, u)
  BY ConcatAssociative DEF Grouped

\* What a part adds to the text before it
Added(before, mark, part) ==
    IF before = <<>> \/ part = <<>> THEN part ELSE mark \o part

LEMMA FollowedAdds ==
    ASSUME NEW S, NEW before \in Seq(S), NEW mark \in Seq(S), NEW part \in Seq(S)
    PROVE  /\ Added(before, mark, part) \in Seq(S)
           /\ Followed(before, mark, part) = before \o Added(before, mark, part)
  <1>1. mark \o part \in Seq(S)
    BY ConcatProperties
  <1>2. (before \o mark) \o part = before \o (mark \o part)
    BY ConcatAssociative
  <1> QED
    BY <1>1, <1>2 DEF Followed, Added

Joins(g, parts, mark) ==
    g = [n \in {0} \cup DOMAIN parts |->
            IF n = 0 THEN <<>> ELSE Followed(g[n - 1], mark, parts[n])]

\* The equations of Joined, and its type
LEMMA JoinedIs ==
    ASSUME NEW S, NEW parts \in Seq(Seq(S)), NEW mark \in Seq(S)
    PROVE  /\ Joined(parts, mark) \in [0 .. Len(parts) -> Seq(S)]
           /\ Joined(parts, mark)[0] = <<>>
           /\ \A n \in 1 .. Len(parts) :
                 /\ parts[n] \in Seq(S)
                 /\ Joined(parts, mark)[n] = Followed(Joined(parts, mark)[n - 1], mark, parts[n])
  <1> DEFINE N == Len(parts)
             T == Seq(S)
             step == [v \in (1 .. N) \X T |-> Followed(v[2], mark, parts[v[1]])]
  <1>1. N \in Nat /\ DOMAIN parts = 1 .. N /\ \A n \in 1 .. N : parts[n] \in T
    OBVIOUS
  <1>2. {0} \cup DOMAIN parts = 0 .. N
    BY <1>1
  <1>3. step \in [(1 .. N) \X T -> T]
    BY <1>1, FollowedTyped
  <1>4. \A n \in 1 .. N, s \in T : step[<<n, s>>] = Followed(s, mark, parts[n])
    OBVIOUS
  <1>5. <<>> \in T
    OBVIOUS
  <1> HIDE DEF step, N, T
  <1>6. PICK h \in [0 .. N -> T] : h[0] = <<>> /\ \A n \in 1 .. N : h[n] = step[<<n, h[n - 1]>>]
    <2>1. PICK k \in Nat : k = N
      BY <1>1
    <2>2. PICK a \in T : a = <<>>
      BY <1>5
    <2>3. PICK next \in [(1 .. k) \X T -> T] : next = step
      BY <1>3, <2>1
    <2>4. PICK f : Recurses(f, k, T, a, next)
      BY Recursion
    <2>5. Recurses(f, N, T, <<>>, step)
      BY <2>1, <2>2, <2>3, <2>4
    <2> QED
      BY <2>5 DEF Recurses
  <1>7. \A n \in 1 .. N : h[n - 1] \in T
    BY <1>1, <1>6
  <1>8. \A n \in 1 .. N : h[n] = Followed(h[n - 1], mark, parts[n])
    BY <1>4, <1>6, <1>7
  <1>9. Joins(h, parts, mark)
    <2>1. h = [n \in 0 .. N |-> h[n]]
      BY <1>6
    <2>2. \A n \in 0 .. N :
             h[n] = IF n = 0 THEN <<>> ELSE Followed(h[n - 1], mark, parts[n])
      <3>1. \A n \in 0 .. N : n = 0 \/ n \in 1 .. N
        BY <1>1
      <3> QED
        BY <3>1, <1>6, <1>8
    <2>3. h = [n \in 0 .. N |-> IF n = 0 THEN <<>> ELSE Followed(h[n - 1], mark, parts[n])]
      BY <2>1, <2>2, Zenon
    <2> QED
      BY <2>3, <1>2 DEF Joins
  <1>10. Joined(parts, mark) = CHOOSE g : Joins(g, parts, mark)
    BY Zenon DEF Joined, Joins
  <1>11. Joins(Joined(parts, mark), parts, mark)
    BY <1>9, <1>10, Zenon
  <1>12. PICK g : g = Joined(parts, mark)
    OBVIOUS
  <1>13. g = [n \in 0 .. N |-> IF n = 0 THEN <<>> ELSE Followed(g[n - 1], mark, parts[n])]
    BY <1>2, <1>11, <1>12 DEF Joins
  <1>14. /\ DOMAIN g = 0 .. N /\ g[0] = <<>>
         /\ \A n \in 1 .. N : g[n] = Followed(g[n - 1], mark, parts[n])
    <2>1. \A n \in 0 .. N : g[n] = IF n = 0 THEN <<>> ELSE Followed(g[n - 1], mark, parts[n])
      BY <1>13, Zenon
    <2>2. DOMAIN g = 0 .. N
      BY <1>13, Zenon
    <2>3. 0 \in 0 .. N /\ \A n \in 1 .. N : n \in 0 .. N /\ n # 0
      BY <1>1
    <2> QED
      BY <2>1, <2>2, <2>3
  <1> DEFINE P == {n \in 0 .. N : g[n] \in T}
  <1>15. 0 \in P
    BY <1>1, <1>5, <1>14
  <1>16. ASSUME NEW n \in 1 .. N, n - 1 \in P PROVE n \in P
    <2>1. g[n] \in T
      BY <1>1, <1>14, <1>16, FollowedTyped DEF T
    <2> QED
      BY <2>1, <1>1
  <1>17. \A n \in 0 .. N : n \in P
    <2> HIDE DEF P
    <2> QED
      BY <1>1, <1>15, <1>16, UpTo
  <1>18. g = [n \in 0 .. N |-> g[n]] /\ \A n \in 0 .. N : g[n] \in T
    BY <1>13, <1>17
  <1>19. g \in [0 .. N -> T]
    BY <1>18
  <1> QED
    BY <1>1, <1>12, <1>14, <1>19 DEF N, T

\* What is joined up to a part begins what is joined up to a later one.
LEMMA JoinedGrows ==
    ASSUME NEW S, NEW parts \in Seq(Seq(S)), NEW mark \in Seq(S),
           NEW i \in 0 .. Len(parts)
    PROVE  \E r \in Seq(S) : Join(parts, mark) = Joined(parts, mark)[i] \o r
  <1> DEFINE N == Len(parts)
             T == Seq(S)
             g == Joined(parts, mark)
             P == {k \in 0 .. N - i : \E r \in T : g[i + k] = g[i] \o r}
  <1>1. /\ g \in [0 .. N -> T] /\ N \in Nat
        /\ \A n \in 1 .. N : parts[n] \in T /\ g[n] = Followed(g[n - 1], mark, parts[n])
    BY JoinedIs
  <1> HIDE DEF g, N
  <1>2. 0 \in P
    <2>1. PICK a \in T : a = g[i]
      BY <1>1 DEF N
    <2>2. a \o <<>> = a /\ <<>> \in T
      BY ConcatEmptySeq, EmptySeq
    <2>3. i + 0 = i /\ 0 \in 0 .. N - i
      BY DEF N
    <2> QED
      BY <2>1, <2>2, <2>3
  <1>3. ASSUME NEW k \in 1 .. N - i, k - 1 \in P PROVE k \in P
    <2>1. PICK r \in T : g[i + (k - 1)] = g[i] \o r
      BY <1>3
    <2>2. i + k \in 1 .. N /\ (i + k) - 1 = i + (k - 1) /\ (i + k) - 1 \in 0 .. N
      BY DEF N
    <2>3. /\ g[i + k] = Followed(g[i] \o r, mark, parts[i + k])
          /\ parts[i + k] \in T /\ g[i] \in T
      BY <1>1, <2>1, <2>2 DEF N
    <2>4. PICK part \in T : part = parts[i + k]
      BY <2>3
    <2>5. PICK a \in T : a = g[i]
      BY <2>3
    <2>6. PICK x \in T : x = a \o r
      BY ConcatProperties
    <2>7. PICK y \in T : y = Added(x, mark, part) /\ Followed(x, mark, part) = x \o y
      BY FollowedAdds
    <2>8. Grouped(a, r, y)
      BY Regroup
    <2>11. PICK z \in T : z = r \o y
      BY ConcatProperties
    <2>9. g[i + k] = g[i] \o (r \o y)
      BY <2>3, <2>4, <2>5, <2>6, <2>7, <2>8 DEF Grouped
    <2>12. g[i + k] = g[i] \o z
      BY <2>9, <2>11
    <2>10. k \in 0 .. N - i
      OBVIOUS
    <2> QED
      BY <2>10, <2>12
  <1>4. \A k \in 0 .. N - i : k \in P
    <2>1. N - i \in Nat
      BY <1>1 DEF N
    <2> HIDE DEF P
    <2> QED
      BY <1>2, <1>3, <2>1, UpTo
  <1>5. N - i \in 0 .. N - i /\ i + (N - i) = N
    BY <1>1 DEF N
  <1>6. \E r \in T : g[N] = g[i] \o r
    BY <1>4, <1>5
  <1> QED
    BY <1>6 DEF Join, g, N

-----------------------------------------------------------------------------
(* Values and the documents of their parts                                 *)

Doc == Seq(AnyToken)

\* A good place holds a value.
LEMMA PlaceIsSeen ==
    ASSUME NEW m, NEW ptr \in Int, NEW type \in STRING, NEW field \in FieldInfo,
           Place(m, ptr, type, field)
    PROVE  <<ptr, type, field>> \in Seen
  <1>1. field # NoField
    BY TablesAssumption DEF TablesAssumption
  <1>2. ptr \in Addr \cup {NULL}
    <2>1. CASE ptr # NULL /\ HasMetadata(type)
      <3>1. <<ptr, StructOf[type]>> \in Objects
        BY <2>1 DEF Place
      <3> QED
        BY <3>1, LayoutAssumption DEF LayoutAssumption
    <2>2. CASE ptr # NULL /\ ~HasMetadata(type)
      BY <1>1, <2>2 DEF Place, Open
    <2> QED
      BY <2>1, <2>2
  <1> DEFINE v == <<ptr, type, field>>
  <1>3. v[1] = ptr /\ v[2] = type /\ v[3] = field
    OBVIOUS
  <1>4. ptr # NULL /\ HasMetadata(type) => <<ptr, StructOf[type]>> \in Objects
    BY DEF Place
  <1> QED
    BY <1>2, <1>3, <1>4 DEF Seen

\* The view of a member of an instance
LEMMA ViewOfMember ==
    ASSUME NEW p, NEW t, <<p, t>> \in Objects, NEW f \in FieldsOf(t), "READ" \in f.flags
    PROVE  \E v \in ViewsWith("READ") :
              v = <<<<p, t>>, f>> /\ v[1] = <<p, t>> /\ v[1][1] = p /\ v[1][2] = t /\ v[2] = f
  <1>1. PICK o \in Objects : o = <<p, t>>
    OBVIOUS
  <1>2. o[1] = p /\ o[2] = t
    BY <1>1
  <1>3. <<o, f>> \in {o} \X FieldsOf(o[2])
    BY <1>2
  <1>4. PICK v \in Views : v = <<o, f>>
    BY <1>3 DEF Views
  <1>5. v[1] = o /\ v[2] = f
    BY <1>4
  <1>6. v \in ViewsWith("READ")
    BY <1>4, <1>5 DEF ViewsWith
  <1> QED
    BY <1>1, <1>2, <1>4, <1>5, <1>6

\* A length is counted the same by the type of an instance and by the type
\* of its struct.
LEMMA SameCount ==
    ASSUME NEW m, NEW inst, NEW type, HasMetadata(type), NEW f
    PROVE  /\ StructOf[type] \in StructTypes /\ HasMetadata(StructOf[type])
           /\ Count(m, inst, type, f) = Count(m, inst, StructOf[type], f)
           /\ Access!Length(m, inst, type, f) = Access!Length(m, inst, StructOf[type], f)
  <1>1. StructOf[type] \in StructTypes
    BY TablesAssumption DEF TablesAssumption, HasMetadata
  <1>2. StructOf[StructOf[type]] = StructOf[type] /\ HasMetadata(StructOf[type])
    BY <1>1, TablesAssumption DEF TablesAssumption
  <1>3. Access!LengthField(type, f) = Access!LengthField(StructOf[type], f)
    BY <1>2 DEF Access!LengthField
  <1> QED
    BY <1>1, <1>2, <1>3 DEF Count, Access!Length

\* A readable dynamic array has a pointer and a length.
LEMMA DynamicIs ==
    ASSUME NEW m \in [Addr -> Cell], NEW v \in ViewsWith("READ"), IsDynamic(v[2])
    PROVE  /\ Access!LengthResult(v[1][1], v[1][2], v[2]) = "OK"
           /\ Access!Pointer(m, v) \in Nat
           /\ Access!LiveCount(m, v) \in Nat
           /\ v[2].type \in DOMAIN ElemType
  <1> DEFINE inst == v[1][1]
             f == v[2]
             g == Access!LengthField(v[1][2], f)
  <1>1. /\ v \in Views /\ v[1] \in Objects /\ inst \in Nat
        /\ v[1][2] \in StructTypes /\ v[1] = <<inst, v[1][2]>>
        /\ f \in FieldInfo /\ f.offset \in Nat /\ f.size \in Nat \ {0}
        /\ f \in AllFields
    BY ViewTypes DEF ViewsWith, FieldInfo
  <1>2. v \in Access!Dynamic
    BY <1>1, SameDynamic
  <1>3. Access!LengthResult(inst, v[1][2], f) = "OK" /\ f.type \in DOMAIN ElemType
    BY <1>1, <1>2, TypesAssumption DEF TypesAssumption
  <1>4. Access!Pointer(m, v) \in Nat
    <2>1. inst + f.offset \in Extent(v) /\ Extent(v) \subseteq Addr
      BY <1>1, ExtentInside DEF Extent, Span
    <2> QED
      BY <2>1 DEF Access!Pointer, Cell
  <1>5. Access!LiveCount(m, v) \in Nat
    <2>1. g.size \in {1, 2, 4, 8} /\ g # NoField
      BY <1>3 DEF Access!LengthResult
    <2>2. g \in FieldsOf(v[1][2])
      <3>1. StructOf[v[1][2]] = v[1][2]
        BY <1>1, TablesAssumption DEF TablesAssumption
      <3>2. g = FindField(v[1][2], f.length)
        BY <3>1 DEF Access!LengthField, Access!FindField, FindField
      <3> QED
        BY <1>1, <2>1, <3>2, FindFieldEntry
    <2>3. <<v[1], g>> \in Views
      BY <1>1, <2>2 DEF Views
    <2>4. Span(inst + g.offset, g.size) \subseteq Addr
      BY <2>3, ExtentInside DEF Extent
    <2>5. g.offset \in Nat
      BY <2>3, ViewTypes
    <2>6. inst + g.offset \in Nat
      BY <1>1, <2>5
    <2> QED
      BY <2>1, <2>4, <2>6, LoadIsNat DEF Access!LiveCount, Access!Length
  <1> QED
    BY <1>3, <1>4, <1>5

\* A readable array of an instance: where it starts, how many elements it
\* has, of which type, and that each of them is a value.
LEMMA ArrayIs ==
    ASSUME NEW m \in Boots, NEW p, NEW type, HasMetadata(type), <<p, StructOf[type]>> \in Objects,
           NEW f \in FieldsOf(StructOf[type]), "READ" \in f.flags, ~IsOne(f)
    PROVE  /\ Start(m, p, f) \in Nat
           /\ Count(m, p, type, f) \in Nat
           /\ get_base_type(f.type) \in DOMAIN SizeOf
           /\ Start(m, p, f) = NULL => Count(m, p, type, f) <= 1
           /\ \A i \in 1 .. Count(m, p, type, f) :
                 Element(Start(m, p, f), get_base_type(f.type), f, i) \in Seen
  <1> DEFINE t == StructOf[type]
             start == Start(m, p, f)
             n == Count(m, p, type, f)
             base == get_base_type(f.type)
  <1>1. m \in [Addr -> Cell] /\ InOrder(m)
    BY RequestsAssumption DEF RequestsAssumption
  <1>2. PICK v \in ViewsWith("READ") :
            v = <<<<p, t>>, f>> /\ v[1] = <<p, t>> /\ v[1][1] = p /\ v[1][2] = t /\ v[2] = f
    BY ViewOfMember
  <1>3. /\ v \in Views /\ v[1][1] \in Nat /\ v[1][1] # NULL /\ f \in FieldInfo
        /\ f \in AllFields /\ f.offset \in Nat /\ f.count \in Nat \ {0}
    BY <1>2, ViewTypes DEF ViewsWith
  <1>4. n = Count(m, p, t, f)
    BY SameCount
  <1>5. start \in Nat /\ n \in Nat /\ f.type \in DOMAIN ElemType
    <2>1. CASE IsDynamic(f)
      <3>1. start = Access!Pointer(m, v) /\ n = Access!LiveCount(m, v)
        BY <1>2, <1>4, <2>1 DEF Start, Count, Access!Pointer, Access!LiveCount
      <3> QED
        BY <1>1, <1>2, <2>1, <3>1, DynamicIs
    <2>2. CASE ~IsDynamic(f)
      <3>1. start = p + f.offset /\ n = f.count
        BY <2>2 DEF Start, Count
      <3>2. f.count > 1
        BY <1>3, <2>2 DEF IsOne
      <3>3. f.type \in DOMAIN ElemType
        BY <1>3, <2>2, <3>2, TypesAssumption DEF TypesAssumption
      <3> QED
        BY <1>2, <1>3, <3>1, <3>3
    <2> QED
      BY <2>1, <2>2
  <1>6. base = ElemType[f.type] /\ base \in DOMAIN SizeOf /\ base \in STRING
        /\ SizeOf[base] \in Nat \ {0} /\ get_type_size(base) = SizeOf[base]
    BY <1>5, TypesAssumption DEF TypesAssumption, get_base_type, get_type_size
  <1>7. start = NULL => n <= 1
    <2>1. CASE IsDynamic(f)
      <3>1. start = Access!Pointer(m, v) /\ n = Access!LiveCount(m, v)
        BY <1>2, <1>4, <2>1 DEF Start, Count, Access!Pointer, Access!LiveCount
      <3>2. v \in Access!Dynamic
        BY <1>2, <1>3, <2>1, SameDynamic
      <3> QED
        BY <1>1, <3>1, <3>2 DEF InOrder
    <2>2. CASE ~IsDynamic(f)
      <3>1. start = p + f.offset
        BY <2>2 DEF Start
      <3> QED
        BY <1>2, <1>3, <3>1 DEF NULL
    <2> QED
      BY <2>1, <2>2
  <1>8. ASSUME NEW i \in 1 .. n PROVE Element(start, base, f, i) \in Seen
    <2>1. PICK j \in 0 .. n - 1 : j = i - 1
      BY <1>5
    <2>2. Place(m, start + j * SizeOf[base], base, f)
      <3>1. CASE IsDynamic(f)
        <4>1. start = Access!Pointer(m, v) /\ n = Access!LiveCount(m, v)
          BY <1>2, <1>4, <3>1 DEF Start, Count, Access!Pointer, Access!LiveCount
        <4>2. Place(m, Access!Pointer(m, v) + j * SizeOf[ElemType[v[2].type]],
                    ElemType[v[2].type], v[2])
          BY <1>1, <1>2, <1>5, <3>1, <4>1, DynamicPlaces
        <4> QED
          BY <1>2, <1>6, <4>1, <4>2
      <3>2. CASE ~IsDynamic(f)
        <4>1. start = v[1][1] + v[2].offset /\ n = v[2].count
          BY <1>2, <3>2 DEF Start, Count
        <4>2. v[2].count > 1
          BY <1>2, <1>3, <3>2 DEF IsOne
        <4>3. Place(m, v[1][1] + v[2].offset + j * SizeOf[ElemType[v[2].type]],
                    ElemType[v[2].type], v[2])
          BY <1>2, <3>2, <4>1, <4>2, InlinePlaces
        <4> QED
          BY <1>2, <1>6, <4>1, <4>3
      <3> QED
        BY <3>1, <3>2
    <2>3. PICK a \in Int : a = start + j * SizeOf[base]
      <3>1. PICK s \in Int : s = SizeOf[base]
        BY <1>6
      <3>2. PICK b \in Int : b = start
        BY <1>5
      <3> QED
        BY <3>1, <3>2
    <2>4. Place(m, a, base, f)
      BY <2>2, <2>3
    <2>5. PICK x \in STRING : x = base
      BY <1>6
    <2>6. <<a, x, f>> \in Seen
      BY <1>3, <2>4, <2>5, PlaceIsSeen
    <2> QED
      BY <1>6, <2>1, <2>3, <2>5, <2>6 DEF Element
  <1> QED
    BY <1>5, <1>6, <1>7, <1>8

\* The one value of a member is a value too.
LEMMA OneIsSeen ==
    ASSUME NEW m \in Boots, NEW p, NEW type, HasMetadata(type),
           p = NULL \/ <<p, StructOf[type]>> \in Objects,
           NEW f \in FieldsOf(StructOf[type]), "READ" \in f.flags
    PROVE  One(p, f) \in Seen
  <1>1. StructOf[type] \in StructTypes
    BY SameCount
  <1>2. f \in FieldInfo
    BY <1>1, FieldTypes DEF AllFields
  <1>3. f.type \in STRING
    BY <1>2 DEF FieldInfo
  <1>4. CASE p = NULL
    <2>1. Place(m, NULL, f.type, f) /\ NULL \in Int
      BY DEF Place, NULL
    <2> QED
      BY <1>2, <1>3, <1>4, <2>1, PlaceIsSeen DEF One
  <1>5. CASE p # NULL
    <2>1. PICK v \in ViewsWith("READ") :
              /\ v[1] = <<p, StructOf[type]>> /\ v[1][1] = p /\ v[1][2] = StructOf[type]
              /\ v[2] = f
      BY <1>5, ViewOfMember
    <2>2. Place(m, p + f.offset, f.type, f)
      BY <2>1, MemberPlace
    <2>3. p + f.offset \in Int
      BY <2>1, ViewTypes DEF ViewsWith
    <2> QED
      BY <1>2, <1>3, <1>5, <2>2, <2>3, PlaceIsSeen DEF One
  <1> QED
    BY <1>4, <1>5

\* A sequence given by its elements
LEMMA SeqOfItems ==
    ASSUME NEW n \in Nat, NEW S, NEW s \in [1 .. n -> S]
    PROVE  s \in Seq(S) /\ Len(s) = n /\ DOMAIN s = 1 .. n
  <1>1. s \in Seq(S)
    OBVIOUS
  <1>2. Len(s) \in Nat /\ DOMAIN s = 1 .. Len(s) /\ DOMAIN s = 1 .. n
    BY <1>1, LenProperties
  <1> QED
    BY <1>1, <1>2

LEMMA JoinTyped ==
    ASSUME NEW parts \in Seq(Doc), NEW mark \in Doc
    PROVE  Join(parts, mark) \in Doc
  <1>1. Joined(parts, mark) \in [0 .. Len(parts) -> Doc]
    BY JoinedIs DEF Doc
  <1>2. Len(parts) \in 0 .. Len(parts)
    OBVIOUS
  <1> QED
    BY <1>1, <1>2 DEF Join

LEMMA Bracketed ==
    ASSUME NEW a \in Doc, NEW x \in Doc, NEW b \in Doc
    PROVE  a \o x \o b \in Doc
  BY ConcatProperties DEF Doc

LEMMA Marks ==
    /\ Text("{") \in Doc /\ Text("}") \in Doc /\ Text("[") \in Doc /\ Text("]") \in Doc
    /\ Text(",") \in Doc /\ Text("null") \in Doc /\ <<>> \in Doc
  <1>1. <<>> \in Doc
    BY DEF Doc
  <1> QED
    BY <1>1, MarkToken DEF Doc

LEMMA ElementsTyped ==
    ASSUME NEW d \in [Seen -> Doc], NEW n \in Nat, NEW start, NEW base, NEW f,
           \A i \in 1 .. n : start = NULL \/ Element(start, base, f, i) \in Seen
    PROVE  /\ ElementDocuments(d, start, base, f, n) \in Seq(Doc)
           /\ Len(ElementDocuments(d, start, base, f, n)) = n
  <1> DEFINE s == ElementDocuments(d, start, base, f, n)
  <1>1. s = [i \in 1 .. n |-> IF start = NULL THEN Text("null")
                              ELSE d[Element(start, base, f, i)]]
    BY DEF ElementDocuments
  <1>2. \A i \in 1 .. n : s[i] = IF start = NULL THEN Text("null")
                                 ELSE d[Element(start, base, f, i)]
    BY <1>1
  <1>3. s = [i \in 1 .. n |-> s[i]]
    BY <1>1, <1>2
  <1>4. \A i \in 1 .. n : s[i] \in Doc
    BY <1>2, Marks
  <1> HIDE DEF s
  <1>5. PICK x \in [1 .. n -> Doc] : x = s
    BY <1>3, <1>4
  <1>6. x \in Seq(Doc) /\ Len(x) = n
    BY SeqOfItems
  <1> QED
    BY <1>5, <1>6 DEF s

\* An instance, or none
IsInstance(p, type) ==
    HasMetadata(type) /\ (p = NULL \/ <<p, StructOf[type]>> \in Objects)

LEMMA MemberDocumentTyped ==
    ASSUME NEW m \in Boots, NEW p, NEW type, IsInstance(p, type),
           NEW f \in FieldsOf(StructOf[type]), "READ" \in f.flags,
           NEW d \in [Seen -> Doc]
    PROVE  MemberDocument(m, d, p, type, f) \in Doc
  <1>1. HasMetadata(type) /\ (p = NULL \/ <<p, StructOf[type]>> \in Objects)
    BY DEF IsInstance
  <1>2. StructOf[type] \in StructTypes
    BY <1>1, SameCount
  <1>3. f \in FieldInfo
    BY <1>2, FieldTypes DEF AllFields
  <1>4. CASE IsOne(f)
    <2>1. One(p, f) \in Seen
      BY <1>1, OneIsSeen
    <2> QED
      BY <1>4, <2>1 DEF MemberDocument
  <1>5. CASE ~IsOne(f) /\ p = NULL
    <2>1. f.type \in STRING
      BY <1>3 DEF FieldInfo
    <2>2. PICK base \in STRING : base = get_base_type(f.type)
      BY <2>1, TypesAssumption DEF TypesAssumption, get_base_type
    <2>3. Token("schema", base) \in Doc
      BY WordToken DEF Doc
    <2> QED
      BY <1>5, <2>2, <2>3 DEF MemberDocument
  <1>6. CASE ~IsOne(f) /\ p # NULL
    <2> DEFINE start == Start(m, p, f)
               n == Count(m, p, type, f)
               base == get_base_type(f.type)
               parts == ElementDocuments(d, start, base, f, n)
    <2>1. /\ n \in Nat
          /\ \A i \in 1 .. n : Element(start, base, f, i) \in Seen
      BY <1>1, <1>6, ArrayIs
    <2>2. MemberDocument(m, d, p, type, f) = Text("[") \o Join(parts, Text(",")) \o Text("]")
      BY <1>6 DEF MemberDocument
    <2> HIDE DEF start, n, base
    <2>3. parts \in Seq(Doc)
      BY <2>1, ElementsTyped
    <2> HIDE DEF parts
    <2>4. Join(parts, Text(",")) \in Doc
      BY <2>3, Marks, JoinTyped
    <2>5. PICK x \in Doc : x = Join(parts, Text(","))
      BY <2>4
    <2>6. Text("[") \o x \o Text("]") \in Doc
      BY Marks, Bracketed, Zenon
    <2> QED
      BY <2>2, <2>5, <2>6, Zenon
  <1> QED
    BY <1>4, <1>5, <1>6

\* The documents depend on those of the parts only.
LEMMA MemberDocumentAgrees ==
    ASSUME NEW m \in Boots, NEW p, NEW type, IsInstance(p, type),
           NEW f \in FieldsOf(StructOf[type]), "READ" \in f.flags,
           NEW d, NEW e, \A w \in Parts(m, <<p, StructOf[type]>>, f) : d[w] = e[w]
    PROVE  MemberDocument(m, d, p, type, f) = MemberDocument(m, e, p, type, f)
  <1> DEFINE inst == <<p, StructOf[type]>>
  <1>1. HasMetadata(type) /\ inst[1] = p /\ inst[2] = StructOf[type]
    BY DEF IsInstance
  <1>2. CASE IsOne(f)
    <2>1. Parts(m, inst, f) = {One(p, f)}
      BY <1>1, <1>2 DEF Parts
    <2> QED
      BY <1>2, <2>1 DEF MemberDocument
  <1>3. CASE ~IsOne(f) /\ p = NULL
    BY <1>3 DEF MemberDocument
  <1>4. CASE ~IsOne(f) /\ p # NULL
    <2> DEFINE start == Start(m, p, f)
               n == Count(m, p, type, f)
               base == get_base_type(f.type)
    <2>1. n = Count(m, p, StructOf[type], f)
      BY <1>1, SameCount
    <2>2. ASSUME start # NULL, NEW i \in 1 .. n
          PROVE  d[Element(start, base, f, i)] = e[Element(start, base, f, i)]
      <3>1. Parts(m, inst, f) = {Element(start, base, f, j) : j \in 1 .. n}
        BY <1>1, <1>4, <2>1, <2>2 DEF Parts
      <3>2. Element(start, base, f, i) \in Parts(m, inst, f)
        BY <3>1
      <3> QED
        BY <3>2
    <2>3. ElementDocuments(d, start, base, f, n) = ElementDocuments(e, start, base, f, n)
      BY <2>2 DEF ElementDocuments
    <2> QED
      BY <1>4, <2>3 DEF MemberDocument
  <1> QED
    BY <1>2, <1>3, <1>4

\* The key of a member and its document
KeyText(f) == Token("key", Key(f))

MemberText(m, d, p, type, f) ==
    IF "READ" \notin f.flags THEN <<>> ELSE KeyText(f) \o MemberDocument(m, d, p, type, f)

LEMMA MemberDocumentsAre ==
    ASSUME NEW m, NEW d, NEW p, NEW type
    PROVE  MemberDocuments(m, d, p, type) =
              [i \in DOMAIN Fields[StructOf[type]] |->
                  MemberText(m, d, p, type, Fields[StructOf[type]][i])]
  BY Zenon DEF MemberDocuments, MemberText, KeyText, Key

LEMMA KeyTyped ==
    ASSUME NEW f \in FieldInfo
    PROVE  KeyText(f) \in Doc
  <1>1. PICK key \in STRING : key = Key(f)
    BY TypesAssumption DEF TypesAssumption, Key, FieldInfo
  <1>2. Token("key", key) \in Doc
    BY WordToken DEF Doc
  <1> QED
    BY <1>1, <1>2 DEF KeyText

\* The table of an instance
LEMMA TableOf ==
    ASSUME NEW type, HasMetadata(type)
    PROVE  /\ Fields[StructOf[type]] \in Seq(FieldInfo)
           /\ \A i \in DOMAIN Fields[StructOf[type]] :
                 /\ Fields[StructOf[type]][i] \in FieldsOf(StructOf[type])
                 /\ Fields[StructOf[type]][i] \in FieldInfo
  <1>1. StructOf[type] \in StructTypes
    BY SameCount
  <1>2. Fields[StructOf[type]] \in Seq(FieldInfo)
    BY <1>1, TablesAssumption DEF TablesAssumption
  <1> QED
    BY <1>2 DEF FieldsOf

LEMMA MemberDocumentsTyped ==
    ASSUME NEW m \in Boots, NEW p, NEW type, IsInstance(p, type), NEW d \in [Seen -> Doc]
    PROVE  /\ MemberDocuments(m, d, p, type) \in Seq(Doc)
           /\ Len(MemberDocuments(m, d, p, type)) = Len(Fields[StructOf[type]])
           /\ \A i \in DOMAIN Fields[StructOf[type]] :
                 /\ i \in 1 .. Len(Fields[StructOf[type]])
                 /\ MemberDocuments(m, d, p, type)[i] =
                       MemberText(m, d, p, type, Fields[StructOf[type]][i])
  <1> DEFINE table == Fields[StructOf[type]]
             s == MemberDocuments(m, d, p, type)
  <1>1. HasMetadata(type)
    BY DEF IsInstance
  <1>2. /\ table \in Seq(FieldInfo)
        /\ \A i \in DOMAIN table : table[i] \in FieldsOf(StructOf[type]) /\ table[i] \in FieldInfo
    BY <1>1, TableOf
  <1>3. PICK n \in Nat : n = Len(table) /\ DOMAIN table = 1 .. n
    BY <1>2
  <1>4. s = [i \in 1 .. n |-> MemberText(m, d, p, type, table[i])]
    BY <1>3, MemberDocumentsAre
  <1> HIDE DEF table, s
  <1>5. ASSUME NEW i \in 1 .. n PROVE MemberText(m, d, p, type, table[i]) \in Doc
    <2>1. PICK f \in FieldsOf(StructOf[type]) : f = table[i] /\ f \in FieldInfo
      BY <1>2, <1>3
    <2>2. CASE "READ" \notin f.flags
      BY <2>1, <2>2, Marks DEF MemberText
    <2>3. CASE "READ" \in f.flags
      <3>1. MemberDocument(m, d, p, type, f) \in Doc
        BY <2>3, MemberDocumentTyped
      <3>2. KeyText(f) \in Doc
        BY <2>1, KeyTyped
      <3>3. KeyText(f) \o MemberDocument(m, d, p, type, f) \in Doc
        BY <3>1, <3>2, ConcatProperties DEF Doc
      <3> QED
        BY <2>1, <2>3, <3>3 DEF MemberText
    <2> QED
      BY <2>2, <2>3
  <1>6. \A i \in 1 .. n : s[i] = MemberText(m, d, p, type, table[i]) /\ s[i] \in Doc
    BY <1>4, <1>5
  <1>7. s = [i \in 1 .. n |-> s[i]]
    BY <1>4, <1>6, Zenon
  <1>8. s \in Seq(Doc) /\ Len(s) = n
    <2>1. PICK x \in [1 .. n -> Doc] : x = s
      BY <1>6, <1>7
    <2>2. x \in Seq(Doc) /\ Len(x) = n
      BY SeqOfItems
    <2> QED
      BY <2>1, <2>2
  <1> QED
    BY <1>3, <1>6, <1>8 DEF s, table

\* A value seen is a struct to be written out, or needs no other documents.
IsWritten(v) == HasMetadata(v[2]) /\ ~json_serialize_custom(v[1], v[2])

LEMMA SeenIs ==
    ASSUME NEW v \in Seen
    PROVE  /\ v[1] \in Addr \cup {NULL} /\ v[1] \in Int /\ v[2] \in STRING
           /\ HasMetadata(v[2]) => IsInstance(v[1], v[2])
  BY LayoutAssumption DEF LayoutAssumption, Seen, IsInstance, Addr, NULL

LEMMA DocumentAgrees ==
    ASSUME NEW m \in Boots, NEW v \in Seen, NEW d, NEW e,
           IsWritten(v) =>
              \A f \in FieldsOf(StructOf[v[2]]) : "READ" \in f.flags =>
                 \A w \in Parts(m, <<v[1], StructOf[v[2]]>>, f) : d[w] = e[w]
    PROVE  DocumentOf(m, d, v) = DocumentOf(m, e, v)
  <1>1. CASE ~IsWritten(v)
    BY <1>1 DEF DocumentOf, IsWritten, json_serialize_custom
  <1>2. CASE IsWritten(v)
    <2>1. HasMetadata(v[2]) /\ IsInstance(v[1], v[2])
      BY <1>2, SeenIs DEF IsWritten
    <2>2. ASSUME NEW i \in DOMAIN Fields[StructOf[v[2]]]
          PROVE  MemberText(m, d, v[1], v[2], Fields[StructOf[v[2]]][i]) =
                    MemberText(m, e, v[1], v[2], Fields[StructOf[v[2]]][i])
      <3>1. PICK f \in FieldsOf(StructOf[v[2]]) : f = Fields[StructOf[v[2]]][i]
        BY <2>1, TableOf
      <3>2. "READ" \in f.flags =>
               MemberDocument(m, d, v[1], v[2], f) = MemberDocument(m, e, v[1], v[2], f)
        BY <1>2, <2>1, MemberDocumentAgrees
      <3> QED
        BY <3>1, <3>2 DEF MemberText
    <2>3. MemberDocuments(m, d, v[1], v[2]) = MemberDocuments(m, e, v[1], v[2])
      BY <2>2, MemberDocumentsAre, Zenon
    <2> QED
      BY <1>2, <2>3 DEF DocumentOf, IsWritten, json_serialize_custom
  <1> QED
    BY <1>1, <1>2

LEMMA DocumentTyped ==
    ASSUME NEW m \in Boots, NEW v \in Seen, NEW d \in [Seen -> Doc]
    PROVE  DocumentOf(m, d, v) \in Doc
  <1>1. /\ v[1] \in Addr \cup {NULL} /\ v[1] \in Int /\ v[2] \in STRING
        /\ HasMetadata(v[2]) => IsInstance(v[1], v[2])
    BY SeenIs
  <1>2. PICK type \in STRING : type = v[2]
    BY <1>1
  <1>3. PICK ptr \in Int : ptr = v[1] /\ ptr \in Addr \cup {NULL}
    BY <1>1
  <1>4. /\ Token("custom", type) \in Doc /\ Token("unsupported", type) \in Doc
        /\ <<<<"name", type, TRUE>>>> \in Doc /\ <<<<"name", type, FALSE>>>> \in Doc
    BY WordToken, NameToken, Zenon DEF Doc
  <1>5. HasMetadata(type) =>
           Text("{") \o Join(MemberDocuments(m, d, ptr, type), Text(",")) \o Text("}") \in Doc
    <2> SUFFICES ASSUME HasMetadata(type)
                 PROVE  Text("{") \o Join(MemberDocuments(m, d, ptr, type), Text(",")) \o Text("}")
                           \in Doc
      OBVIOUS
    <2>1. PICK parts \in Seq(Doc) : parts = MemberDocuments(m, d, ptr, type)
      BY <1>1, <1>2, <1>3, MemberDocumentsTyped
    <2>2. Join(parts, Text(",")) \in Doc
      BY Marks, JoinTyped
    <2> QED
      BY <2>1, <2>2, Marks, Bracketed
  <1>6. \A start \in Int : Token("string", start) \in Doc
    BY StringToken DEF Doc
  <1>7. ptr # NULL => m[ptr] \in Int /\ ptr \in Addr
    BY <1>3, RequestsAssumption DEF RequestsAssumption, Cell
  <1>8. ptr # NULL => <<<<"value", ptr, type>>>> \in Doc
    BY <1>7, ValueToken DEF Doc
  <1>9. NULL \in Int
    BY DEF NULL
  <1>10. ptr # NULL =>
            Token("string", IF type \in InlineStrings THEN ptr
                            ELSE IF v[3] = NoField THEN NULL ELSE m[ptr]) \in Doc
    BY <1>6, <1>7, <1>9
  <1> QED
    BY <1>2, <1>3, <1>4, <1>5, <1>8, <1>10, Zenon DEF DocumentOf

\* The parts of a value are values.
LEMMA PartsAreSeen ==
    ASSUME NEW m \in Boots, NEW p, NEW type, IsInstance(p, type),
           NEW f \in FieldsOf(StructOf[type]), "READ" \in f.flags,
           NEW w \in Parts(m, <<p, StructOf[type]>>, f)
    PROVE  w \in Seen
  <1> DEFINE inst == <<p, StructOf[type]>>
  <1>1. /\ HasMetadata(type) /\ (p = NULL \/ <<p, StructOf[type]>> \in Objects)
        /\ inst[1] = p /\ inst[2] = StructOf[type]
    BY DEF IsInstance
  <1>2. CASE IsOne(f)
    <2>1. w = One(p, f)
      BY <1>1, <1>2 DEF Parts
    <2> QED
      BY <1>1, <2>1, OneIsSeen
  <1>3. CASE ~IsOne(f)
    <2>1. p # NULL
      BY <1>1, <1>3 DEF Parts
    <2>2. PICK i \in 1 .. Count(m, p, StructOf[type], f) :
              w = Element(Start(m, p, f), get_base_type(f.type), f, i)
      BY <1>1, <1>3 DEF Parts
    <2>3. i \in 1 .. Count(m, p, type, f)
      BY <1>1, <2>2, SameCount
    <2> QED
      BY <1>1, <1>3, <2>1, <2>2, <2>3, ArrayIs
  <1> QED
    BY <1>2, <1>3

\* How deep a value is nested
Rank(depth, v) == IF IsWritten(v) THEN 1 + depth[<<v[1], StructOf[v[2]]>>] ELSE 0

LEMMA RankIs ==
    ASSUME NEW bound \in Nat, NEW depth \in [Instances -> 0 .. bound], NEW v \in Seen
    PROVE  /\ Rank(depth, v) \in 0 .. bound + 1
           /\ IsWritten(v) => <<v[1], StructOf[v[2]]>> \in Instances
  <1>1. CASE IsWritten(v)
    <2>1. IsInstance(v[1], v[2]) /\ HasMetadata(v[2])
      BY <1>1, SeenIs DEF IsWritten
    <2>2. StructOf[v[2]] \in StructTypes
      BY <2>1, SameCount
    <2>3. <<v[1], StructOf[v[2]]>> \in Instances
      BY <2>1, <2>2 DEF IsInstance, Instances
    <2> QED
      BY <1>1, <2>3 DEF Rank
  <1>2. CASE ~IsWritten(v)
    BY <1>2 DEF Rank
  <1> QED
    BY <1>1, <1>2

LEMMA RanksBounded ==
    ASSUME NEW bound \in Nat, NEW depth \in [Instances -> 0 .. bound]
    PROVE  \A v \in Seen : Rank(depth, v) \in Nat /\ Rank(depth, v) < bound + 2
  <1> SUFFICES ASSUME NEW v \in Seen
               PROVE  Rank(depth, v) \in Nat /\ Rank(depth, v) < bound + 2
    OBVIOUS
  <1>1. PICK r \in 0 .. bound + 1 : r = Rank(depth, v)
    BY RankIs
  <1> QED
    BY <1>1

LEMMA PartsRankLower ==
    ASSUME NEW m \in Boots, NEW bound \in Nat, NEW depth \in [Instances -> 0 .. bound],
           Nested(m, depth), NEW v \in Seen, IsWritten(v),
           NEW f \in FieldsOf(StructOf[v[2]]), "READ" \in f.flags,
           NEW w \in Parts(m, <<v[1], StructOf[v[2]]>>, f)
    PROVE  w \in Seen /\ Rank(depth, w) < Rank(depth, v)
  <1>1. IsInstance(v[1], v[2]) /\ w \in Seen
    BY SeenIs, PartsAreSeen DEF IsWritten
  <1>2. PICK inst \in Instances : inst = <<v[1], StructOf[v[2]]>> /\ inst[2] = StructOf[v[2]]
    BY RankIs
  <1>3. IsWritten(w) => depth[<<w[1], StructOf[w[2]]>>] < depth[inst]
    BY <1>2 DEF Nested, IsWritten
  <1>4. Rank(depth, v) = 1 + depth[inst] /\ depth[inst] \in Nat
    BY <1>2 DEF Rank
  <1>5. CASE IsWritten(w)
    <2>1. <<w[1], StructOf[w[2]]>> \in Instances
      BY <1>1, <1>5, RankIs
    <2>2. depth[<<w[1], StructOf[w[2]]>>] \in Nat
      BY <2>1
    <2>3. Rank(depth, w) = 1 + depth[<<w[1], StructOf[w[2]]>>]
      BY <1>5 DEF Rank
    <2> QED
      BY <1>1, <1>3, <1>4, <1>5, <2>2, <2>3
  <1>6. CASE ~IsWritten(w)
    BY <1>1, <1>4, <1>6 DEF Rank
  <1> QED
    BY <1>5, <1>6

\* Documents of the values up to a rank
Fits(m, depth, d, k) ==
    \A v \in Seen : Rank(depth, v) < k => d[v] = DocumentOf(m, d, v)

LEMMA DocumentsUpTo ==
    ASSUME NEW m \in Boots, NEW bound \in Nat, NEW depth \in [Instances -> 0 .. bound],
           Nested(m, depth)
    PROVE  \E d \in [Seen -> Doc] : Fits(m, depth, d, bound + 2)
  <1> DEFINE P == {k \in 0 .. bound + 2 : \E d \in [Seen -> Doc] : Fits(m, depth, d, k)}
  <1>0. \A v \in Seen : Rank(depth, v) \in Nat /\ Rank(depth, v) < bound + 2
    BY RanksBounded
  <1>1. 0 \in P
    <2>1. PICK d : d = [v \in Seen |-> <<>>]
      OBVIOUS
    <2>2. d \in [Seen -> Doc]
      BY <2>1, Marks
    <2>3. Fits(m, depth, d, 0)
      BY <1>0 DEF Fits
    <2>4. 0 \in 0 .. bound + 2
      OBVIOUS
    <2> QED
      BY <2>2, <2>3, <2>4
  <1>2. ASSUME NEW k \in 1 .. bound + 2, k - 1 \in P PROVE k \in P
    <2>1. PICK d \in [Seen -> Doc] : Fits(m, depth, d, k - 1)
      BY <1>2
    <2>2. PICK e \in [Seen -> Doc] : \A v \in Seen : e[v] = DocumentOf(m, d, v)
      <3>1. [v \in Seen |-> DocumentOf(m, d, v)] \in [Seen -> Doc]
        BY DocumentTyped
      <3> QED
        BY <3>1
    <2>3. ASSUME NEW v \in Seen, Rank(depth, v) < k PROVE e[v] = DocumentOf(m, e, v)
      <3>1. ASSUME IsWritten(v), NEW f \in FieldsOf(StructOf[v[2]]), "READ" \in f.flags,
                   NEW w \in Parts(m, <<v[1], StructOf[v[2]]>>, f)
            PROVE  d[w] = e[w]
        <4>1. w \in Seen /\ Rank(depth, w) < Rank(depth, v)
          BY <3>1, PartsRankLower
        <4>2. Rank(depth, w) \in Nat /\ Rank(depth, v) \in Nat /\ k \in Nat
          BY <4>1, <1>0
        <4>3. Rank(depth, w) < k - 1
          BY <2>3, <4>1, <4>2
        <4> QED
          BY <2>1, <2>2, <4>1, <4>3 DEF Fits
      <3>2. DocumentOf(m, d, v) = DocumentOf(m, e, v)
        BY <3>1, DocumentAgrees
      <3> QED
        BY <2>2, <3>2
    <2>4. Fits(m, depth, e, k)
      BY <2>3 DEF Fits
    <2>5. k \in 0 .. bound + 2
      OBVIOUS
    <2> QED
      BY <2>4, <2>5
  <1>3. \A k \in 0 .. bound + 2 : k \in P
    <2>1. bound + 2 \in Nat
      OBVIOUS
    <2> HIDE DEF P
    <2> QED
      BY <1>1, <1>2, <2>1, UpTo
  <1>4. bound + 2 \in P
    <2> HIDE DEF P
    <2> QED
      BY <1>3
  <1> QED
    BY <1>4

\* There is only one way to give every value its document.
LEMMA DocumentsAgree ==
    ASSUME NEW m \in Boots, NEW bound \in Nat, NEW depth \in [Instances -> 0 .. bound],
           Nested(m, depth), NEW d, NEW e,
           \A v \in Seen : d[v] = DocumentOf(m, d, v) /\ e[v] = DocumentOf(m, e, v)
    PROVE  \A v \in Seen : d[v] = e[v]
  <1> DEFINE P == {k \in 0 .. bound + 2 : \A v \in Seen : Rank(depth, v) < k => d[v] = e[v]}
  <1>0. \A v \in Seen : Rank(depth, v) \in Nat /\ Rank(depth, v) < bound + 2
    BY RanksBounded
  <1>1. 0 \in P
    <2>1. \A v \in Seen : ~(Rank(depth, v) < 0)
      BY <1>0
    <2> QED
      BY <2>1
  <1>2. ASSUME NEW k \in 1 .. bound + 2, k - 1 \in P PROVE k \in P
    <2>1. ASSUME NEW v \in Seen, Rank(depth, v) < k PROVE d[v] = e[v]
      <3>1. ASSUME IsWritten(v), NEW f \in FieldsOf(StructOf[v[2]]), "READ" \in f.flags,
                   NEW w \in Parts(m, <<v[1], StructOf[v[2]]>>, f)
            PROVE  d[w] = e[w]
        <4>1. w \in Seen /\ Rank(depth, w) < Rank(depth, v)
          BY <3>1, PartsRankLower
        <4>2. Rank(depth, w) \in Nat /\ Rank(depth, v) \in Nat /\ k \in Nat
          BY <4>1, <1>0
        <4>3. Rank(depth, w) < k - 1
          BY <2>1, <4>1, <4>2
        <4> QED
          BY <1>2, <4>1, <4>3
      <3>2. DocumentOf(m, d, v) = DocumentOf(m, e, v)
        BY <3>1, DocumentAgrees
      <3> QED
        BY <3>2
    <2> QED
      BY <2>1
  <1>3. \A k \in 0 .. bound + 2 : k \in P
    <2>1. bound + 2 \in Nat
      OBVIOUS
    <2> HIDE DEF P
    <2> QED
      BY <1>1, <1>2, <2>1, UpTo
  <1>4. bound + 2 \in P
    <2> HIDE DEF P
    <2> QED
      BY <1>3
  <1> QED
    BY <1>0, <1>4

Gives(g, m) == g = [v \in Seen |-> DocumentOf(m, g, v)]

\* When no instance is part of itself, every value has the document that
\* its parts make.
LEMMA DocumentsExist ==
    ASSUME NEW m \in Boots, NoCycle(m)
    PROVE  /\ Documents(m) \in [Seen -> Doc]
           /\ \A v \in Seen : Documents(m)[v] = DocumentOf(m, Documents(m), v)
  <1>1. PICK bound \in Nat : \E depth \in [Instances -> 0 .. bound] : Nested(m, depth)
    BY DEF NoCycle
  <1>2. PICK depth \in [Instances -> 0 .. bound] : Nested(m, depth)
    BY <1>1
  <1>3. PICK d \in [Seen -> Doc] : Fits(m, depth, d, bound + 2)
    BY <1>2, DocumentsUpTo
  <1>4. \A v \in Seen : d[v] = DocumentOf(m, d, v)
    <2>1. \A v \in Seen : Rank(depth, v) < bound + 2
      BY RanksBounded
    <2> QED
      BY <1>3, <2>1 DEF Fits
  <1>5. Gives(d, m)
    <2>1. d = [v \in Seen |-> d[v]]
      OBVIOUS
    <2> QED
      BY <1>4, <2>1, Zenon DEF Gives
  <1>6. Documents(m) = CHOOSE g : Gives(g, m)
    BY Zenon DEF Documents, Gives
  <1>7. Gives(Documents(m), m)
    BY <1>5, <1>6, Zenon
  <1>8. PICK g : g = Documents(m)
    OBVIOUS
  <1>9. g = [v \in Seen |-> DocumentOf(m, g, v)]
    BY <1>7, <1>8 DEF Gives
  <1>10. \A v \in Seen : g[v] = DocumentOf(m, g, v)
    BY <1>9, Zenon
  <1>11. \A v \in Seen : g[v] = d[v]
    BY <1>2, <1>4, <1>10, DocumentsAgree
  <1>12. g = [v \in Seen |-> g[v]]
    BY <1>9, <1>10, Zenon
  <1>13. g \in [Seen -> Doc]
    BY <1>11, <1>12
  <1> QED
    BY <1>8, <1>10, <1>13

-----------------------------------------------------------------------------
(* Frames and what is left of their documents                              *)

\* The documents of the parts of a frame's struct or array, how many of
\* them are written, and the marks around them
FrameParts(m, fr) ==
    IF fr.kind = "struct" THEN MemberDocuments(m, Documents(m), fr.ptr, fr.type)
    ELSE ElementDocuments(Documents(m), fr.ptr, fr.type, fr.field, fr.n)

FrameAt(fr) == IF fr.kind = "struct" THEN fr.i - 1 ELSE fr.i

Opening(fr) == IF fr.kind = "struct" THEN Text("{") ELSE Text("[")
Closing(fr) == IF fr.kind = "struct" THEN Text("}") ELSE Text("]")
Comma == Text(",")

SoFar(m, fr) == Opening(fr) \o Joined(FrameParts(m, fr), Comma)[FrameAt(fr)]
Whole(m, fr) == Opening(fr) \o Join(FrameParts(m, fr), Comma) \o Closing(fr)

\* A frame that is where its document is: the members are written up to
\* there, the next is the first exactly when nothing is, and an array
\* without elements to point at has at most one.
Placed(m, fr) ==
    /\ fr \in Frame /\ GoodFrame(m, fr)
    /\ fr.kind = "struct" =>
          /\ fr.i - 1 \in 0 .. Len(Fields[StructOf[fr.type]])
          /\ fr.first <=> Joined(FrameParts(m, fr), Comma)[fr.i - 1] = <<>>
    /\ fr.kind = "array" => fr.ptr \in Nat /\ (fr.ptr = NULL => fr.n <= 1)

Left(m, fr, r) == Placed(m, fr) /\ r \in Doc /\ SoFar(m, fr) \o r = Whole(m, fr)

LEMMA MarkDocs == \A fr : Opening(fr) \in Doc /\ Closing(fr) \in Doc /\ Comma \in Doc
  BY Marks, Zenon DEF Opening, Closing, Comma

\* The elements of an array that is being written are values.
LEMMA ElementsOfFrame ==
    ASSUME NEW m, NEW fr \in Frame, ArrayFrame(m, fr)
    PROVE  \A i \in 1 .. fr.n : Element(fr.ptr, fr.type, fr.field, i) \in Seen
  <1>1. /\ fr.ptr \in Int /\ fr.type \in DOMAIN SizeOf /\ fr.type \in STRING
        /\ fr.n \in Nat /\ fr.field \in FieldInfo
        /\ \A i \in 0 .. fr.n - 1 : Place(m, fr.ptr + i * SizeOf[fr.type], fr.type, fr.field)
    BY DEF ArrayFrame, Frame
  <1>2. get_type_size(fr.type) = SizeOf[fr.type] /\ SizeOf[fr.type] \in Nat
    BY <1>1, TypesAssumption DEF TypesAssumption, get_type_size
  <1>3. ASSUME NEW i \in 1 .. fr.n PROVE Element(fr.ptr, fr.type, fr.field, i) \in Seen
    <2>1. PICK s \in Int : s = SizeOf[fr.type]
      BY <1>2
    <2>2. PICK p \in Int : p = fr.ptr
      BY <1>1
    <2>3. i - 1 \in 0 .. fr.n - 1 /\ i - 1 \in Int
      BY <1>1
    <2>4. PICK a \in Int : a = p + (i - 1) * s
      BY <2>3
    <2>5. Place(m, a, fr.type, fr.field)
      BY <1>1, <2>1, <2>2, <2>3, <2>4
    <2>6. PICK type \in STRING : type = fr.type
      BY <1>1
    <2>7. PICK f \in FieldInfo : f = fr.field
      BY <1>1
    <2>8. <<a, type, f>> \in Seen
      BY <2>5, <2>6, <2>7, PlaceIsSeen
    <2> QED
      BY <1>2, <2>1, <2>2, <2>4, <2>6, <2>7, <2>8 DEF Element
  <1> QED
    BY <1>3

LEMMA FrameDocuments ==
    ASSUME NEW m \in Boots, NoCycle(m), NEW fr, Placed(m, fr)
    PROVE  /\ FrameParts(m, fr) \in Seq(Doc)
           /\ FrameAt(fr) \in 0 .. Len(FrameParts(m, fr))
           /\ Len(FrameParts(m, fr)) =
                 IF fr.kind = "struct" THEN Len(Fields[StructOf[fr.type]]) ELSE fr.n
           /\ fr.kind \in {"struct", "array"}
           /\ fr.kind = "struct" => StructFrame(fr) /\ IsInstance(fr.ptr, fr.type)
           /\ fr.kind = "array" => ArrayFrame(m, fr)
  <1>1. fr \in Frame /\ GoodFrame(m, fr) /\ fr.kind \in {"struct", "array"}
    BY DEF Placed, Frame
  <1>2. PICK d \in [Seen -> Doc] : d = Documents(m)
    BY DocumentsExist
  <1>3. CASE fr.kind = "struct"
    <2>1. StructFrame(fr)
      BY <1>1, <1>3 DEF GoodFrame, ArrayFrame
    <2>2. IsInstance(fr.ptr, fr.type)
      BY <2>1 DEF StructFrame, IsInstance
    <2>3. /\ MemberDocuments(m, d, fr.ptr, fr.type) \in Seq(Doc)
          /\ Len(MemberDocuments(m, d, fr.ptr, fr.type)) = Len(Fields[StructOf[fr.type]])
      BY <2>2, MemberDocumentsTyped
    <2> QED
      BY <1>1, <1>2, <1>3, <2>1, <2>2, <2>3 DEF FrameParts, FrameAt, Placed
  <1>4. CASE fr.kind = "array"
    <2>1. ArrayFrame(m, fr)
      BY <1>1, <1>4 DEF GoodFrame, StructFrame
    <2>2. fr.n \in Nat /\ fr.i \in 0 .. fr.n
      BY <2>1 DEF ArrayFrame
    <2>3. \A i \in 1 .. fr.n : Element(fr.ptr, fr.type, fr.field, i) \in Seen
      BY <1>1, <2>1, ElementsOfFrame
    <2>4. PICK n \in Nat : n = fr.n
      BY <2>2
    <2>5. /\ ElementDocuments(d, fr.ptr, fr.type, fr.field, n) \in Seq(Doc)
          /\ Len(ElementDocuments(d, fr.ptr, fr.type, fr.field, n)) = n
      BY <2>3, <2>4, ElementsTyped
    <2> QED
      BY <1>1, <1>2, <1>4, <2>1, <2>2, <2>4, <2>5 DEF FrameParts, FrameAt
  <1> QED
    BY <1>1, <1>3, <1>4

-----------------------------------------------------------------------------
(* How texts are put together                                              *)

LEMMA Cancel ==
    ASSUME NEW a \in Doc, NEW b \in Doc, NEW c \in Doc, a \o b = a \o c
    PROVE  b = c
  BY ConcatSimplifications DEF Doc

LEMMA Together ==
    ASSUME NEW a \in Doc, NEW b \in Doc
    PROVE  a \o b \in Doc
  BY ConcatProperties DEF Doc

LEMMA Regrouped ==
    ASSUME NEW a \in Doc, NEW b \in Doc, NEW c \in Doc
    PROVE  Grouped(a, b, c)
  BY Regroup DEF Doc

Begins(a, b) == \E r \in Doc : b = a \o r

LEMMA JoinBegins ==
    ASSUME NEW parts \in Seq(Doc), NEW mark \in Doc, NEW i \in 0 .. Len(parts)
    PROVE  Begins(Joined(parts, mark)[i], Join(parts, mark))
  BY JoinedGrows DEF Doc, Begins

\* What is left after one more part
Before(o, j, a, q, c, r, whole) ==
    whole = (o \o ((j \o a) \o q)) \o c /\ (o \o j) \o r = whole

After(o, j, a, q, c, r, whole) ==
    (o \o (j \o a)) \o (q \o c) = whole /\ r = a \o (q \o c)

LEMMA LeftAfter ==
    ASSUME NEW o \in Doc, NEW j \in Doc, NEW a \in Doc, NEW q \in Doc, NEW c \in Doc,
           NEW r \in Doc, NEW whole, Before(o, j, a, q, c, r, whole)
    PROVE  After(o, j, a, q, c, r, whole)
  <1>1. PICK ja \in Doc : ja = j \o a
    BY Together
  <1>2. PICK qc \in Doc : qc = q \o c
    BY Together
  <1>3. PICK oj \in Doc : oj = o \o j
    BY Together
  <1>4. PICK jaq \in Doc : jaq = ja \o q
    BY Together
  <1>5. PICK aqc \in Doc : aqc = a \o qc
    BY Together
  <1>6. PICK ojaq \in Doc : ojaq = o \o jaq
    BY Together
  <1>7. PICK oja \in Doc : oja = o \o ja
    BY Together
  <1>8. ojaq = oja \o q
    <2>1. Grouped(o, ja, q)
      BY Regrouped
    <2> QED
      BY <2>1, <1>4, <1>6, <1>7 DEF Grouped
  <1>9. ojaq \o c = oja \o qc
    <2>1. Grouped(oja, q, c)
      BY Regrouped
    <2> QED
      BY <2>1, <1>2, <1>8 DEF Grouped
  <1>10. oja = oj \o a
    <2>1. Grouped(o, j, a)
      BY Regrouped
    <2> QED
      BY <2>1, <1>1, <1>3, <1>7 DEF Grouped
  <1>11. oja \o qc = oj \o aqc
    <2>1. Grouped(oj, a, qc)
      BY Regrouped
    <2> QED
      BY <2>1, <1>5, <1>10 DEF Grouped
  <1>12. whole = ojaq \o c /\ oj \o r = whole
    BY <1>1, <1>3, <1>4, <1>6 DEF Before
  <1>13. oj \o r = oj \o aqc
    BY <1>9, <1>11, <1>12
  <1>14. r = aqc
    BY <1>13, Cancel
  <1> QED
    BY <1>1, <1>2, <1>5, <1>7, <1>9, <1>12, <1>14 DEF After

\* A new frame: all but the mark that opens it is left.
LEMMA NewFrame ==
    ASSUME NEW m \in Boots, NoCycle(m), NEW fr, Placed(m, fr), FrameAt(fr) = 0
    PROVE  \E r \in Doc : Left(m, fr, r) /\ Opening(fr) \o r = Whole(m, fr)
  <1>1. PICK parts \in Seq(Doc) : parts = FrameParts(m, fr)
    BY FrameDocuments
  <1>2. Joined(parts, Comma)[0] = <<>>
    BY MarkDocs, JoinedIs DEF Doc
  <1>3. PICK j \in Doc : j = Join(parts, Comma)
    BY MarkDocs, JoinTyped
  <1>4. PICK o \in Doc, c \in Doc : o = Opening(fr) /\ c = Closing(fr)
    BY MarkDocs
  <1>5. Whole(m, fr) = (o \o j) \o c
    BY <1>1, <1>3, <1>4 DEF Whole
  <1>6. SoFar(m, fr) = o
    <2>1. o \o <<>> = o
      BY ConcatEmptySeq DEF Doc
    <2> QED
      BY <1>1, <1>2, <1>4, <2>1 DEF SoFar
  <1>7. PICK r \in Doc : r = j \o c
    BY Together
  <1>8. o \o r = (o \o j) \o c
    <2>1. Grouped(o, j, c)
      BY Regrouped
    <2> QED
      BY <2>1, <1>7 DEF Grouped
  <1> QED
    BY <1>4, <1>5, <1>6, <1>8 DEF Left

\* One part more: what it adds is taken from what is left.
LeavesNext(m, x, added, r) == \E s \in Doc : Left(m, x, s) /\ r = added \o s

LEMMA OnePart ==
    ASSUME NEW m \in Boots, NoCycle(m), NEW fr, NEW r, Left(m, fr, r), NEW x, Placed(m, x),
           FrameParts(m, x) = FrameParts(m, fr), x.kind = fr.kind,
           FrameAt(x) = FrameAt(fr) + 1
    PROVE  /\ FrameAt(x) \in 1 .. Len(FrameParts(m, fr))
           /\ LeavesNext(m, x, Added(Joined(FrameParts(m, fr), Comma)[FrameAt(fr)], Comma,
                                     FrameParts(m, fr)[FrameAt(x)]), r)
  <1>1. PICK parts \in Seq(Doc) : parts = FrameParts(m, fr)
    BY FrameDocuments DEF Left
  <1>2. PICK k \in 0 .. Len(parts) : k = FrameAt(fr)
    BY <1>1, FrameDocuments DEF Left
  <1>3. k + 1 = FrameAt(x) /\ k + 1 \in 1 .. Len(parts) /\ k + 1 \in 0 .. Len(parts)
    <2>1. FrameAt(x) \in 0 .. Len(parts)
      BY <1>1, FrameDocuments
    <2> QED
      BY <1>2, <2>1
  <1>4. /\ Joined(parts, Comma) \in [0 .. Len(parts) -> Doc]
        /\ parts[k + 1] \in Doc
        /\ Joined(parts, Comma)[k + 1] = Followed(Joined(parts, Comma)[(k + 1) - 1], Comma,
                                                  parts[k + 1])
    <2>1. PICK f : f = Joined(parts, Comma)
      OBVIOUS
    <2>2. /\ f \in [0 .. Len(parts) -> Doc]
          /\ \A n \in 1 .. Len(parts) :
                parts[n] \in Doc /\ f[n] = Followed(f[n - 1], Comma, parts[n])
      <3>1. parts \in Seq(Seq(AnyToken)) /\ Comma \in Seq(AnyToken)
        BY MarkDocs, Zenon DEF Doc
      <3>2. /\ Joined(parts, Comma) \in [0 .. Len(parts) -> Seq(AnyToken)]
            /\ \A n \in 1 .. Len(parts) :
                  /\ parts[n] \in Seq(AnyToken)
                  /\ Joined(parts, Comma)[n] =
                        Followed(Joined(parts, Comma)[n - 1], Comma, parts[n])
        BY <3>1, JoinedIs, Zenon
      <3> QED
        BY <2>1, <3>2, Zenon DEF Doc
    <2> QED
      BY <1>3, <2>1, <2>2, Zenon
  <1>5. PICK j \in Doc : j = Joined(parts, Comma)[k]
    BY <1>4
  <1>6. PICK part \in Doc : part = parts[k + 1]
    BY <1>4
  <1>7. (k + 1) - 1 = k
    OBVIOUS
  <1>8. PICK a \in Doc : a = Added(j, Comma, part) /\ Followed(j, Comma, part) = j \o a
    BY MarkDocs, FollowedAdds DEF Doc
  <1>9. Joined(parts, Comma)[k + 1] = j \o a
    BY <1>4, <1>5, <1>6, <1>7, <1>8
  <1>10. PICK q \in Doc : Join(parts, Comma) = Joined(parts, Comma)[k + 1] \o q
    <2>1. PICK i \in 0 .. Len(parts) : i = k + 1
      BY <1>3
    <2>2. Begins(Joined(parts, Comma)[i], Join(parts, Comma))
      BY MarkDocs, JoinBegins
    <2> QED
      BY <2>1, <2>2 DEF Begins
  <1>11. PICK o \in Doc, c \in Doc : o = Opening(fr) /\ c = Closing(fr)
    BY MarkDocs
  <1>12. o = Opening(x) /\ c = Closing(x)
    BY <1>11 DEF Opening, Closing
  <1>13. PICK whole : whole = Whole(m, fr) /\ whole = Whole(m, x)
    BY <1>11, <1>12 DEF Whole
  <1>14. whole = (o \o ((j \o a) \o q)) \o c
    BY <1>1, <1>9, <1>10, <1>11, <1>13 DEF Whole
  <1>15. r \in Doc /\ (o \o j) \o r = whole
    BY <1>1, <1>2, <1>5, <1>11, <1>13 DEF Left, SoFar
  <1>16. (o \o (j \o a)) \o (q \o c) = whole /\ r = a \o (q \o c)
    <2>1. Before(o, j, a, q, c, r, whole)
      BY <1>14, <1>15 DEF Before
    <2>2. After(o, j, a, q, c, r, whole)
      BY <1>15, <2>1, LeftAfter
    <2> QED
      BY <2>2 DEF After
  <1>17. PICK s \in Doc : s = q \o c
    BY Together
  <1>18. SoFar(m, x) = o \o (j \o a)
    BY <1>1, <1>3, <1>9, <1>12 DEF SoFar
  <1>19. Left(m, x, s)
    BY <1>13, <1>16, <1>17, <1>18 DEF Left
  <1>20. r = Added(Joined(FrameParts(m, fr), Comma)[FrameAt(fr)], Comma,
                   FrameParts(m, fr)[FrameAt(x)]) \o s
    BY <1>1, <1>2, <1>3, <1>5, <1>6, <1>8, <1>16, <1>17
  <1> QED
    BY <1>1, <1>3, <1>19, <1>20 DEF LeavesNext

\* All parts written: the mark that closes is left.
LEMMA NothingMore ==
    ASSUME NEW m \in Boots, NoCycle(m), NEW fr, NEW r, Left(m, fr, r),
           FrameAt(fr) = Len(FrameParts(m, fr))
    PROVE  r = Closing(fr)
  <1>1. PICK parts \in Seq(Doc) : parts = FrameParts(m, fr)
    BY FrameDocuments DEF Left
  <1>2. PICK j \in Doc : j = Join(parts, Comma)
    BY MarkDocs, JoinTyped
  <1>3. PICK o \in Doc, c \in Doc : o = Opening(fr) /\ c = Closing(fr)
    BY MarkDocs
  <1>4. PICK x \in Doc : x = o \o j
    BY Together
  <1>5. r \in Doc /\ x \o r = x \o c
    BY <1>1, <1>2, <1>3, <1>4 DEF Left, SoFar, Whole, Join
  <1> QED
    BY <1>3, <1>5, Cancel

-----------------------------------------------------------------------------
(* Work writes documents                                                   *)

LEMMA NotEmptied ==
    ASSUME NEW a \in Doc, NEW b \in Doc, a # <<>>
    PROVE  a \o b # <<>>
  BY ConcatEqualIffEmpty DEF Doc

LEMMA TokensAreThere ==
    /\ \A mark : Text(mark) # <<>>
    /\ \A kind, what : Token(kind, what) # <<>>
    /\ \A t : <<t>> # <<>>
  BY DEF Text, Token

LEMMA NotEmptyText ==
    ASSUME NEW a \in Doc, NEW x \in Doc, NEW b \in Doc, a # <<>>
    PROVE  a \o x \o b # <<>>
  <1>1. PICK y \in Doc : y = a \o x
    BY Together
  <1>2. y # <<>>
    BY <1>1, NotEmptied
  <1> QED
    BY <1>1, <1>2, NotEmptied

\* Every value is written as something.
LEMMA DocumentNotEmpty ==
    ASSUME NEW m \in Boots, NoCycle(m), NEW v \in Seen
    PROVE  Documents(m)[v] # <<>> /\ Documents(m)[v] \in Doc
  <1>1. PICK d \in [Seen -> Doc] : d = Documents(m) /\ d[v] = DocumentOf(m, d, v)
    BY DocumentsExist
  <1>2. CASE v[2] \in CustomTypes /\ v[1] # NULL
    BY <1>1, <1>2, TokensAreThere DEF DocumentOf
  <1>3. CASE ~(v[2] \in CustomTypes /\ v[1] # NULL) /\ HasMetadata(v[2])
    <2>1. PICK parts \in Seq(Doc) : parts = MemberDocuments(m, d, v[1], v[2])
      BY <1>3, SeenIs, MemberDocumentsTyped
    <2>2. PICK x \in Doc : x = Join(parts, Text(","))
      BY Marks, JoinTyped
    <2>3. d[v] = Text("{") \o x \o Text("}")
      BY <1>1, <1>3, <2>1, <2>2 DEF DocumentOf
    <2>4. PICK a \in Doc, b \in Doc : a = Text("{") /\ b = Text("}")
      BY Marks
    <2> QED
      BY <1>1, <2>3, <2>4, TokensAreThere, NotEmptyText
  <1>4. CASE ~(v[2] \in CustomTypes /\ v[1] # NULL) /\ ~HasMetadata(v[2])
    BY <1>1, <1>4, TokensAreThere, Zenon DEF DocumentOf
  <1> QED
    BY <1>1, <1>2, <1>3, <1>4

\* Work that writes a document: all of it, or what comes before the parts
\* of the frame it enters.
Writes(m, work, doc) ==
    /\ work.out \in Doc /\ doc \in Doc
    /\ \/ work.enter = <<>> /\ work.out = doc
       \/ \E fr \in Frame, r \in Doc :
             work.enter = <<fr>> /\ work.out \o r = doc /\ Left(m, fr, r)

LEMMA PlainWrites ==
    ASSUME NEW m, NEW doc \in Doc, NEW cells
    PROVE  Writes(m, Work(doc, <<>>, cells), doc)
  BY DEF Writes, Work

LEMMA FrameWrites ==
    ASSUME NEW m \in Boots, NoCycle(m), NEW fr, Placed(m, fr), FrameAt(fr) = 0, NEW cells
    PROVE  Writes(m, Work(Opening(fr), <<fr>>, cells), Whole(m, fr))
  <1>1. PICK r \in Doc : Left(m, fr, r) /\ Opening(fr) \o r = Whole(m, fr)
    BY NewFrame
  <1>2. PICK o \in Doc : o = Opening(fr)
    BY MarkDocs
  <1>3. PICK w \in Doc : w = Whole(m, fr)
    BY <1>1, <1>2, Together
  <1>4. fr \in Frame
    BY DEF Placed
  <1>5. PICK work : work = Work(o, <<fr>>, cells)
    OBVIOUS
  <1>6. work.out = o /\ work.enter = <<fr>>
    BY <1>5 DEF Work
  <1>7. Writes(m, work, w)
    BY <1>1, <1>2, <1>3, <1>4, <1>6 DEF Writes
  <1> QED
    BY <1>2, <1>3, <1>5, <1>7

\* A struct that is entered
LEMMA VisitPlaced ==
    ASSUME NEW m \in Boots, NoCycle(m), NEW ptr \in Int, NEW type \in STRING,
           IsInstance(ptr, type)
    PROVE  /\ Placed(m, Visit(ptr, type)) /\ FrameAt(Visit(ptr, type)) = 0
           /\ Opening(Visit(ptr, type)) = Text("{")
           /\ Whole(m, Visit(ptr, type)) =
                 Text("{") \o Join(MemberDocuments(m, Documents(m), ptr, type), Text(",")) \o Text("}")
  <1>1. PICK fr \in Frame : fr = Visit(ptr, type)
    BY DEF Visit, Frame
  <1>2. fr.kind = "struct" /\ fr.ptr = ptr /\ fr.type = type /\ fr.i = 1 /\ fr.first = TRUE
    BY <1>1 DEF Visit
  <1>3. StructFrame(fr)
    BY <1>2 DEF StructFrame, IsInstance
  <1>4. PICK d \in [Seen -> Doc] : d = Documents(m)
    BY DocumentsExist
  <1>5. PICK parts \in Seq(Doc) : parts = MemberDocuments(m, d, ptr, type)
    BY MemberDocumentsTyped
  <1>6. FrameParts(m, fr) = parts
    BY <1>2, <1>4, <1>5 DEF FrameParts
  <1>7. Joined(parts, Comma)[0] = <<>>
    BY MarkDocs, JoinedIs DEF Doc
  <1>8. fr.i - 1 = 0 /\ 0 \in 0 .. Len(Fields[StructOf[fr.type]])
    <2>1. Fields[StructOf[fr.type]] \in Seq(FieldInfo)
      BY <1>2, TableOf DEF IsInstance
    <2> QED
      BY <1>2, <2>1
  <1>9. fr.first <=> Joined(FrameParts(m, fr), Comma)[fr.i - 1] = <<>>
    BY <1>2, <1>6, <1>7, <1>8
  <1>10. Placed(m, fr)
    <2>1. fr.kind # "array" /\ GoodFrame(m, fr)
      BY <1>2, <1>3 DEF GoodFrame
    <2> QED
      BY <1>1, <1>8, <1>9, <2>1 DEF Placed
  <1>11. FrameAt(fr) = 0 /\ Opening(fr) = Text("{") /\ Closing(fr) = Text("}")
    BY <1>2, <1>8 DEF FrameAt, Opening, Closing
  <1> QED
    BY <1>1, <1>4, <1>5, <1>6, <1>10, <1>11 DEF Whole, Comma

\* json_serialize_value writes the document of the value.
LEMMA ValueWrites ==
    ASSUME mem \in Boots, NoCycle(mem),
           NEW ptr \in Int, NEW type \in STRING, NEW field \in FieldInfo \cup {NoField},
           <<ptr, type, field>> \in Seen
    PROVE  Writes(mem, Value(ptr, type, field), Documents(mem)[<<ptr, type, field>>])
  <1> DEFINE v == <<ptr, type, field>>
  <1>1. PICK d \in [Seen -> Doc] : d = Documents(mem) /\ d[v] = DocumentOf(mem, d, v)
    BY DocumentsExist
  <1>2. v[1] = ptr /\ v[2] = type /\ v[3] = field
    OBVIOUS
  <1>3. d[v] \in Doc
    OBVIOUS
  <1>4. CASE json_serialize_custom(ptr, type)
    <2>1. d[v] = Token("custom", type)
      BY <1>1, <1>2, <1>4 DEF DocumentOf, json_serialize_custom
    <2>2. Value(ptr, type, field) = Work(d[v], <<>>, {})
      BY <1>4, <2>1 DEF Value
    <2> QED
      BY <1>1, <1>3, <2>2, PlainWrites
  <1>5. CASE ~json_serialize_custom(ptr, type) /\ HasMetadata(type)
    <2>1. IsInstance(ptr, type)
      BY <1>2, <1>5, SeenIs
    <2>2. PICK fr : fr = Visit(ptr, type)
      OBVIOUS
    <2>3. /\ Placed(mem, fr) /\ FrameAt(fr) = 0 /\ Opening(fr) = Text("{")
          /\ Whole(mem, fr) =
                Text("{") \o Join(MemberDocuments(mem, d, ptr, type), Text(",")) \o Text("}")
      BY <1>1, <2>1, <2>2, VisitPlaced
    <2>4. d[v] = Whole(mem, fr)
      BY <1>1, <1>2, <1>5, <2>3 DEF DocumentOf, json_serialize_custom
    <2>5. Value(ptr, type, field) = Work(Opening(fr), <<fr>>, {})
      BY <1>5, <2>2, <2>3 DEF Value
    <2> QED
      BY <1>1, <2>3, <2>4, <2>5, FrameWrites
  <1>6. CASE ~json_serialize_custom(ptr, type) /\ ~HasMetadata(type)
    <2>1. \E cells : Value(ptr, type, field) = Work(d[v], <<>>, cells)
      <3>1. CASE ptr # NULL /\ type \in StringTypes
        <4>1. d[v] = Token("string", IF type \in InlineStrings THEN ptr
                                     ELSE IF field = NoField THEN NULL ELSE mem[ptr])
          BY <1>1, <1>2, <1>6, <3>1 DEF DocumentOf, json_serialize_custom
        <4>2. Value(ptr, type, field) = String(ptr, type, field)
          BY <1>6, <3>1 DEF Value
        <4> QED
          BY <4>1, <4>2, Zenon DEF String
      <3>2. CASE ptr = NULL
        <4>1. d[v] = <<<<"name", type, TRUE>>>>
          BY <1>1, <1>2, <1>6, <3>2 DEF DocumentOf
        <4>2. Value(ptr, type, field) = Work(<<<<"name", type, TRUE>>>>, <<>>, {})
          BY <1>6, <3>2, Zenon DEF Value
        <4> QED
          BY <4>1, <4>2
      <3>3. CASE ptr # NULL /\ type \notin StringTypes /\ field = NoField
        <4>1. d[v] = <<<<"name", type, FALSE>>>>
          BY <1>1, <1>2, <1>6, <3>3 DEF DocumentOf, json_serialize_custom
        <4>2. (ptr = NULL) = FALSE
          BY <3>3
        <4>3. Value(ptr, type, field) = Work(<<<<"name", type, FALSE>>>>, <<>>, {})
          BY <1>6, <3>3, <4>2, Zenon DEF Value
        <4> QED
          BY <4>1, <4>3
      <3>4. CASE ptr # NULL /\ type \notin StringTypes /\ field # NoField
        <4>1. d[v] = IF type \in Unprintable THEN Token("unsupported", type)
                     ELSE <<<<"value", ptr, type>>>>
          BY <1>1, <1>2, <1>6, <3>4 DEF DocumentOf, json_serialize_custom
        <4> QED
          BY <1>6, <3>4, <4>1, Zenon DEF Value
      <3> QED
        BY <3>1, <3>2, <3>3, <3>4
    <2> QED
      BY <1>1, <1>3, <2>1, PlainWrites
  <1> QED
    BY <1>4, <1>5, <1>6

-----------------------------------------------------------------------------
(* Members and elements write theirs                                       *)

LEMMA EnteredIsGood ==
    ASSUME NEW m, NEW tokens, NEW fr, NEW cells, GoodWork(m, Work(tokens, <<fr>>, cells))
    PROVE  fr \in Frame /\ GoodFrame(m, fr)
  <1>1. PICK work : work = Work(tokens, <<fr>>, cells)
    OBVIOUS
  <1>2. work.enter = <<fr>>
    BY <1>1 DEF Work
  <1>3. PICK x \in Frame : work.enter = <<x>> /\ GoodFrame(m, x)
    BY <1>1, <1>2 DEF GoodWork
  <1> QED
    BY <1>2, <1>3

\* A loop that is entered
LEMMA LoopPlaced ==
    ASSUME NEW m \in Boots, NoCycle(m), NEW start \in Nat, NEW base, NEW f, NEW n,
           start = NULL => n <= 1,
           Loop(start, base, f, n) \in Frame, GoodFrame(m, Loop(start, base, f, n))
    PROVE  /\ Placed(m, Loop(start, base, f, n)) /\ FrameAt(Loop(start, base, f, n)) = 0
           /\ Opening(Loop(start, base, f, n)) = Text("[")
           /\ Whole(m, Loop(start, base, f, n)) =
                 Text("[") \o Join(ElementDocuments(Documents(m), start, base, f, n), Text(","))
                     \o Text("]")
  <1>1. PICK fr \in Frame : fr = Loop(start, base, f, n)
    OBVIOUS
  <1>2. /\ fr.kind = "array" /\ fr.kind # "struct" /\ fr.ptr = start /\ fr.type = base
        /\ fr.i = 0 /\ fr.n = n /\ fr.field = f
    BY <1>1 DEF Loop
  <1>3. Placed(m, fr)
    BY <1>1, <1>2 DEF Placed
  <1>4. FrameAt(fr) = 0
    BY <1>2 DEF FrameAt
  <1>5. FrameParts(m, fr) = ElementDocuments(Documents(m), start, base, f, n)
    BY <1>2 DEF FrameParts
  <1>6. Opening(fr) = Text("[") /\ Closing(fr) = Text("]")
    BY <1>2, Zenon DEF Opening, Closing
  <1> QED
    BY <1>1, <1>3, <1>4, <1>5, <1>6, Zenon DEF Whole, Comma

LEMMA ArrayWrites ==
    ASSUME NEW m \in Boots, NoCycle(m), NEW start \in Nat, NEW base, NEW f, NEW n,
           start = NULL => n <= 1, NEW cells,
           GoodWork(m, Work(Text("["), <<Loop(start, base, f, n)>>, cells))
    PROVE  Writes(m, Work(Text("["), <<Loop(start, base, f, n)>>, cells),
                  Text("[") \o Join(ElementDocuments(Documents(m), start, base, f, n), Text(","))
                     \o Text("]"))
  <1>1. PICK fr : fr = Loop(start, base, f, n)
    OBVIOUS
  <1>2. fr \in Frame /\ GoodFrame(m, fr)
    BY <1>1, EnteredIsGood, Zenon
  <1>3. /\ Placed(m, fr) /\ FrameAt(fr) = 0 /\ Opening(fr) = Text("[")
        /\ Whole(m, fr) =
              Text("[") \o Join(ElementDocuments(Documents(m), start, base, f, n), Text(","))
                  \o Text("]")
    BY <1>1, <1>2, LoopPlaced, Zenon
  <1>4. Writes(m, Work(Opening(fr), <<fr>>, cells), Whole(m, fr))
    BY <1>3, FrameWrites
  <1> QED
    BY <1>1, <1>3, <1>4, Zenon

\* The work of a dynamic array that can be read
LEMMA DynamicArrayWork ==
    ASSUME mem \in [Addr -> Cell], NEW p, NEW type, HasMetadata(type),
           <<p, StructOf[type]>> \in Objects,
           NEW f \in FieldsOf(StructOf[type]), "READ" \in f.flags, IsDynamic(f)
    PROVE  \E cells : DynamicArray(p, type, f) =
              Work(Text("["), <<Loop(Start(mem, p, f), get_base_type(f.type), f,
                                     Count(mem, p, type, f))>>, cells)
  <1> DEFINE length == Access!get_dynamic_array_length(mem, p, type, f)
             pointer == Access!get_field_value(mem, p, f, 1)
  <1>1. PICK v \in ViewsWith("READ") :
            /\ v = <<<<p, StructOf[type]>>, f>> /\ v[1] = <<p, StructOf[type]>>
            /\ v[1][1] = p /\ v[1][2] = StructOf[type] /\ v[2] = f
    BY ViewOfMember
  <1>2. /\ p \in Nat /\ p # NULL /\ f # NoField /\ f.size \in Nat \ {0}
    BY <1>1, ViewTypes DEF ViewsWith, FieldInfo
  <1>3. Access!LengthResult(p, StructOf[type], f) = "OK"
    BY <1>1, DynamicIs
  <1>4. Access!LengthField(type, f) = Access!LengthField(StructOf[type], f)
    <2>1. StructOf[StructOf[type]] = StructOf[type]
      BY TablesAssumption DEF TablesAssumption, HasMetadata
    <2> QED
      BY <2>1 DEF Access!LengthField
  <1>5. Access!LengthResult(p, type, f) = "OK"
    BY <1>2, <1>3, <1>4, Zenon DEF Access!LengthResult, Access!HasMetadata, HasMetadata
  <1>6. length.res = "OK"
    BY <1>5 DEF Access!get_dynamic_array_length, Access!CopyOut
  <1>7. pointer.res = "OK"
    <2>1. ~(1 > f.size)
      BY <1>2
    <2> QED
      BY <1>2, <2>1 DEF Access!get_field_value, Access!CopyOut, Access!NULL, NULL
  <1>8. Start(mem, p, f) = mem[p + f.offset]
        /\ Count(mem, p, type, f) = Access!Length(mem, p, type, f)
    BY DEF Start, Count
  <1> HIDE DEF length, pointer
  <1>9. DynamicArray(p, type, f) =
           Work(Text("["), <<Loop(mem[p + f.offset], get_base_type(f.type), f,
                                  Access!Length(mem, p, type, f))>>, length.rd \cup pointer.rd)
    BY <1>6, <1>7, Zenon DEF DynamicArray, length, pointer
  <1> QED
    BY <1>8, <1>9, Zenon

LEMMA ArrayMember ==
    ASSUME NEW f \in FieldInfo
    PROVE  /\ IsArray(f) <=> ~IsOne(f)
           /\ ~IsOne(f) => f.type \notin StringTypes
           /\ ~IsOne(f) /\ ~IsDynamic(f) => f.count > 1
  <1>1. f.count \in Nat \ {0}
    BY DEF FieldInfo
  <1>2. f.count > 1 <=> f.count # 1
    BY <1>1
  <1> QED
    BY <1>2, Zenon DEF IsArray, IsOne

\* _json_traversal_iterator writes the document of the member.
LEMMA MemberWrites ==
    ASSUME mem \in Boots, NoCycle(mem),
           NEW fr, StructFrame(fr), NEW f \in FieldsOf(StructOf[fr.type]), "READ" \in f.flags
    PROVE  Writes(mem, Member(fr.ptr, fr.type, f),
                  MemberDocument(mem, Documents(mem), fr.ptr, fr.type, f))
  <1>1. PICK p \in Int, type \in STRING : p = fr.ptr /\ type = fr.type /\ IsInstance(p, type)
    BY DEF StructFrame, IsInstance
  <1>2. f \in FieldsOf(StructOf[type]) /\ HasMetadata(type)
    BY <1>1 DEF IsInstance
  <1>3. f \in FieldInfo /\ f.type \in STRING /\ StructOf[type] \in StructTypes
    BY <1>2, FieldTypes, TablesAssumption
       DEF AllFields, FieldInfo, TablesAssumption, HasMetadata
  <1>4. mem \in [Addr -> Cell] /\ InOrder(mem)
    BY RequestsAssumption DEF RequestsAssumption
  <1>5. GoodWork(mem, Member(p, type, f))
    BY <1>1, <1>4, MemberIsGood
  <1>6. PICK d \in [Seen -> Doc] : d = Documents(mem)
    BY DocumentsExist
  <1>7. Writes(mem, Member(p, type, f), MemberDocument(mem, d, p, type, f))
    <2>1. CASE IsOne(f)
      <3>1. PICK a \in Int : a = (IF p = NULL THEN NULL ELSE p + f.offset)
        <4>1. f.offset \in Int /\ NULL \in Int
          BY <1>3 DEF FieldInfo, NULL
        <4> QED
          BY <4>1
      <3>2. One(p, f) = <<a, f.type, f>>
        BY <3>1 DEF One
      <3>3. One(p, f) \in Seen
        BY <1>1, <1>2, OneIsSeen DEF IsInstance
      <3>4. Member(p, type, f) = Value(a, f.type, f)
        BY <1>3, <2>1, <3>1, ArrayMember, Zenon DEF Member
      <3>5. PICK t \in STRING : t = f.type
        BY <1>3
      <3>6. PICK g \in FieldInfo \cup {NoField} : g = f
        BY <1>3
      <3>7. Writes(mem, Value(a, t, g), Documents(mem)[<<a, t, g>>])
        BY <3>2, <3>3, <3>5, <3>6, ValueWrites
      <3>8. MemberDocument(mem, d, p, type, f) = d[One(p, f)]
        BY <2>1, Zenon DEF MemberDocument
      <3> QED
        BY <1>6, <3>2, <3>4, <3>5, <3>6, <3>7, <3>8
    <2>2. CASE ~IsOne(f) /\ p = NULL
      <3>1. Member(p, type, f) = Work(Token("schema", get_base_type(f.type)), <<>>, {})
        BY <1>3, <2>2, ArrayMember, Zenon DEF Member
      <3>2. MemberDocument(mem, d, p, type, f) = Token("schema", get_base_type(f.type))
        BY <2>2, Zenon DEF MemberDocument
      <3>3. Token("schema", get_base_type(f.type)) \in Doc
        BY <1>1, <1>2, <1>6, <3>2, MemberDocumentTyped
      <3> QED
        BY <3>1, <3>2, <3>3, PlainWrites
    <2>3. CASE ~IsOne(f) /\ p # NULL
      <3>1. <<p, StructOf[type]>> \in Objects
        BY <1>1, <2>3 DEF IsInstance
      <3>2. /\ Start(mem, p, f) \in Nat
            /\ Start(mem, p, f) = NULL => Count(mem, p, type, f) <= 1
        BY <1>2, <2>3, <3>1, ArrayIs
      <3>3. PICK cells : Member(p, type, f) =
               Work(Text("["), <<Loop(Start(mem, p, f), get_base_type(f.type), f,
                                      Count(mem, p, type, f))>>, cells)
        <4>1. CASE IsDynamic(f)
          <5>1. Member(p, type, f) = DynamicArray(p, type, f)
            BY <1>3, <2>3, <4>1, ArrayMember, Zenon DEF Member
          <5> QED
            BY <1>2, <1>4, <3>1, <4>1, <5>1, DynamicArrayWork, Zenon
        <4>2. CASE ~IsDynamic(f)
          <5>1. Member(p, type, f) = InlineArray(p, f)
            BY <1>3, <2>3, <4>2, ArrayMember, Zenon DEF Member
          <5>2. Start(mem, p, f) = p + f.offset /\ Count(mem, p, type, f) = f.count
            BY <4>2, Zenon DEF Start, Count
          <5> QED
            BY <5>1, <5>2, Zenon DEF InlineArray
        <4> QED
          BY <4>1, <4>2
      <3>4. PICK s \in Nat : s = Start(mem, p, f)
        BY <3>2
      <3>5. PICK n, base : n = Count(mem, p, type, f) /\ base = get_base_type(f.type)
        OBVIOUS
      <3>6. Member(p, type, f) = Work(Text("["), <<Loop(s, base, f, n)>>, cells)
        BY <3>3, <3>4, <3>5, Zenon
      <3>7. s = NULL => n <= 1
        BY <3>2, <3>4, <3>5
      <3>8. Writes(mem, Work(Text("["), <<Loop(s, base, f, n)>>, cells),
                   Text("[") \o Join(ElementDocuments(Documents(mem), s, base, f, n), Text(","))
                       \o Text("]"))
        BY <1>5, <3>6, <3>7, ArrayWrites, Zenon
      <3>9. MemberDocument(mem, d, p, type, f) =
               Text("[") \o Join(ElementDocuments(d, s, base, f, n), Text(",")) \o Text("]")
        BY <2>3, <3>4, <3>5, Zenon DEF MemberDocument
      <3> QED
        BY <1>6, <3>6, <3>8, <3>9, Zenon
    <2> QED
      BY <2>1, <2>2, <2>3
  <1> QED
    BY <1>1, <1>6, <1>7

\* A turn of the loop writes the document of the element.
LEMMA ElementWrites ==
    ASSUME mem \in Boots, NoCycle(mem), NEW fr, Placed(mem, fr), fr.kind = "array", fr.i < fr.n
    PROVE  /\ fr.i + 1 \in 1 .. fr.n
           /\ LET ith == fr.ptr + fr.i * get_type_size(fr.type)
              IN  Writes(mem, IF ith = NULL THEN Work(Text("null"), <<>>, {})
                              ELSE Value(ith, fr.type, fr.field),
                         FrameParts(mem, fr)[fr.i + 1])
  <1>1. /\ ArrayFrame(mem, fr) /\ fr \in Frame /\ fr.ptr \in Nat /\ (fr.ptr = NULL => fr.n <= 1)
    <2>1. fr.kind # "struct"
      OBVIOUS
    <2> QED
      BY <2>1 DEF Placed, GoodFrame, StructFrame
  <1>2. /\ \A i \in 1 .. fr.n : Element(fr.ptr, fr.type, fr.field, i) \in Seen
        /\ fr.n \in Nat /\ fr.field \in FieldInfo
    <2>1. fr.n \in Nat /\ fr.field \in FieldInfo
      BY <1>1 DEF ArrayFrame, Frame
    <2> QED
      BY <1>1, <2>1, ElementsOfFrame
  <1>3. /\ fr.i \in Nat /\ fr.type \in STRING /\ get_type_size(fr.type) \in Nat \ {0}
    BY <1>1, TypesAssumption DEF ArrayFrame, TypesAssumption, get_type_size, Frame
  <1>4. PICK i \in Nat, n \in Nat, size \in Nat \ {0}, ptr \in Nat :
            i = fr.i /\ n = fr.n /\ size = get_type_size(fr.type) /\ ptr = fr.ptr
    BY <1>1, <1>2, <1>3
  <1>5. i < n /\ i + 1 \in 1 .. n /\ (ptr = 0 => i = 0)
    <2>1. i < n /\ (ptr = 0 => n <= 1)
      BY <1>1, <1>4 DEF NULL
    <2> QED
      BY <2>1
  <1>6. PICK ith \in Nat : ith = ptr + i * size /\ (ith = 0 <=> ptr = 0)
    <2>1. i * size \in Nat /\ (i = 0 => i * size = 0)
      BY <1>4
    <2> QED
      BY <1>5, <2>1
  <1>7. PICK d \in [Seen -> Doc] : d = Documents(mem)
    BY DocumentsExist
  <1>8. PICK doc : doc = FrameParts(mem, fr)[fr.i + 1]
    OBVIOUS
  <1>9. doc = IF ptr = NULL THEN Text("null") ELSE d[Element(ptr, fr.type, fr.field, i + 1)]
    <2>1. FrameParts(mem, fr) = ElementDocuments(d, ptr, fr.type, fr.field, n)
      BY <1>4, <1>7 DEF FrameParts
    <2> QED
      BY <1>4, <1>5, <1>8, <2>1, Zenon DEF ElementDocuments
  <1>10. CASE ptr = NULL
    <2>1. doc = Text("null") /\ ith = NULL
      BY <1>6, <1>9, <1>10 DEF NULL
    <2>2. Writes(mem, Work(Text("null"), <<>>, {}), doc)
      BY <2>1, Marks, PlainWrites
    <2> QED
      BY <1>4, <1>5, <1>6, <1>8, <2>1, <2>2, Zenon
  <1>11. CASE ptr # NULL
    <2>1. ith # NULL
      BY <1>6, <1>11 DEF NULL
    <2>2. PICK type \in STRING, field \in FieldInfo : type = fr.type /\ field = fr.field
      BY <1>2, <1>3
    <2>3. Element(ptr, fr.type, fr.field, i + 1) = <<ith, type, field>>
      <3>1. (i + 1) - 1 = i
        BY <1>4
      <3> QED
        BY <1>4, <1>6, <2>2, <3>1 DEF Element
    <2>4. <<ith, type, field>> \in Seen
      BY <1>2, <1>4, <1>5, <2>3
    <2>5. Writes(mem, Value(ith, type, field), Documents(mem)[<<ith, type, field>>])
      BY <2>4, ValueWrites
    <2>6. Writes(mem, Value(ith, type, field), doc)
      BY <1>7, <1>9, <1>11, <2>3, <2>5
    <2> QED
      BY <1>4, <1>5, <1>6, <1>8, <2>1, <2>2, <2>6, Zenon
  <1> QED
    BY <1>10, <1>11

-----------------------------------------------------------------------------
(* What the stack still has to write                                       *)

\* The frames, innermost first, complete their documents one after the
\* other.
CompletesBy(m, frames, after, rest) ==
    /\ rest \in [0 .. Len(frames) -> Doc]
    /\ rest[0] = after /\ rest[Len(frames)] = <<>>
    /\ \A k \in 1 .. Len(frames) :
          \E r \in Doc : Left(m, frames[k], r) /\ rest[k - 1] = r \o rest[k]

Completes(m, frames, after) == \E rest : CompletesBy(m, frames, after, rest)

LEMMA NothingCompletes ==
    ASSUME NEW m
    PROVE  /\ Completes(m, <<>>, <<>>)
           /\ \A after : Completes(m, <<>>, after) => after = <<>>
  <1>1. Len(<<>>) = 0 /\ 1 .. 0 = {} /\ 0 .. 0 = {0}
    OBVIOUS
  <1>2. PICK rest \in [0 .. 0 -> Doc] : rest[0] = <<>>
    <2>1. <<>> \in Doc
      BY Marks
    <2>2. [k \in 0 .. 0 |-> <<>>] \in [0 .. 0 -> Doc]
      BY <2>1
    <2> QED
      BY <1>1, <2>2
  <1>3. CompletesBy(m, <<>>, <<>>, rest)
    BY <1>1, <1>2 DEF CompletesBy
  <1>4. ASSUME NEW after, Completes(m, <<>>, after) PROVE after = <<>>
    BY <1>1, <1>4 DEF Completes, CompletesBy
  <1> QED
    BY <1>3, <1>4 DEF Completes

LEMMA PushCompletes ==
    ASSUME NEW m, NEW frames \in Seq(Frame), NEW after \in Doc, Completes(m, frames, after),
           NEW fr \in Frame, NEW r \in Doc, Left(m, fr, r)
    PROVE  Completes(m, <<fr>> \o frames, r \o after)
  <1> DEFINE more == <<fr>> \o frames
             n == Len(frames)
  <1>1. PICK old : CompletesBy(m, frames, after, old)
    BY DEF Completes
  <1>2. /\ n \in Nat /\ Len(more) = n + 1 /\ more[1] = fr
        /\ \A k \in 2 .. n + 1 : more[k] = frames[k - 1]
    OBVIOUS
  <1>3. PICK first \in Doc : first = r \o after
    BY Together
  <1>4. old \in [0 .. n -> Doc] /\ old[0] = after /\ old[n] = <<>>
    BY <1>1 DEF CompletesBy
  <1>5. PICK rest \in [0 .. n + 1 -> Doc] :
            rest[0] = first /\ \A k \in 1 .. n + 1 : rest[k] = old[k - 1]
    <2> DEFINE g == [k \in 0 .. n + 1 |-> IF k = 0 THEN first ELSE old[k - 1]]
    <2>1. \A k \in 0 .. n + 1 : (IF k = 0 THEN first ELSE old[k - 1]) \in Doc
      BY <1>2, <1>4
    <2>2. g \in [0 .. n + 1 -> Doc]
      BY <2>1
    <2>3. g[0] = first /\ \A k \in 1 .. n + 1 : g[k] = old[k - 1]
      BY <1>2
    <2> QED
      BY <2>2, <2>3
  <1> HIDE DEF more, n
  <1>6. rest[n + 1] = <<>>
    <2>1. n + 1 \in 1 .. n + 1 /\ (n + 1) - 1 = n
      BY <1>2
    <2> QED
      BY <1>4, <1>5, <2>1
  <1>7. ASSUME NEW k \in 1 .. n + 1
        PROVE  \E q \in Doc : Left(m, more[k], q) /\ rest[k - 1] = q \o rest[k]
    <2>1. CASE k = 1
      <3>1. 1 \in 1 .. n + 1 /\ 1 - 1 = 0
        BY <1>2
      <3>2. rest[1] = after
        BY <1>4, <1>5, <3>1
      <3> QED
        BY <1>2, <1>3, <1>5, <2>1, <3>1, <3>2
    <2>2. CASE k # 1
      <3>1. PICK j \in 1 .. n : j = k - 1 /\ k \in 2 .. n + 1 /\ j \in 1 .. n + 1
        BY <1>2, <2>2
      <3>2. PICK q \in Doc : Left(m, frames[j], q) /\ old[j - 1] = q \o old[j]
        BY <1>1 DEF CompletesBy, n
      <3>3. rest[j] = old[j - 1] /\ rest[k] = old[j]
        BY <1>5, <3>1
      <3> QED
        BY <1>2, <3>1, <3>2, <3>3
    <2> QED
      BY <2>1, <2>2
  <1>8. CompletesBy(m, more, first, rest)
    BY <1>2, <1>5, <1>6, <1>7 DEF CompletesBy
  <1> QED
    BY <1>3, <1>8 DEF Completes, more

\* What comes after is the rest of the innermost frame and that of the others.
Splits(m, frames, after) ==
    \E r \in Doc, s \in Doc :
        Left(m, Head(frames), r) /\ Completes(m, Tail(frames), s) /\ after = r \o s

LEMMA PopCompletes ==
    ASSUME NEW m, NEW frames \in Seq(Frame), frames # <<>>, NEW after,
           Completes(m, frames, after)
    PROVE  Splits(m, frames, after)
  <1> DEFINE less == Tail(frames)
             n == Len(less)
  <1>1. PICK old : CompletesBy(m, frames, after, old)
    BY DEF Completes
  <1>2. /\ n \in Nat /\ Len(frames) = n + 1 /\ frames[1] = Head(frames)
        /\ \A k \in 1 .. n : less[k] = frames[k + 1]
    OBVIOUS
  <1>3. old \in [0 .. n + 1 -> Doc] /\ old[0] = after /\ old[n + 1] = <<>>
    BY <1>1, <1>2 DEF CompletesBy
  <1>4. PICK r \in Doc : Left(m, Head(frames), r) /\ after = r \o old[1]
    <2>1. 1 \in 1 .. Len(frames) /\ 1 - 1 = 0
      BY <1>2
    <2> QED
      BY <1>1, <1>2, <1>3, <2>1 DEF CompletesBy
  <1>5. PICK rest \in [0 .. n -> Doc] : \A k \in 0 .. n : rest[k] = old[k + 1]
    <2>1. \A k \in 0 .. n : old[k + 1] \in Doc
      BY <1>2, <1>3
    <2> DEFINE g == [k \in 0 .. n |-> old[k + 1]]
    <2>2. g \in [0 .. n -> Doc]
      BY <2>1
    <2> QED
      BY <2>2
  <1> HIDE DEF less, n
  <1>6. rest[n] = <<>> /\ rest[0] = old[1] /\ old[1] \in Doc
    <2>1. n \in 0 .. n /\ 0 \in 0 .. n /\ 0 + 1 = 1 /\ 1 \in 0 .. n + 1
      BY <1>2
    <2> QED
      BY <1>3, <1>5, <2>1
  <1>7. ASSUME NEW k \in 1 .. n
        PROVE  \E q \in Doc : Left(m, less[k], q) /\ rest[k - 1] = q \o rest[k]
    <2>1. PICK j \in 1 .. n + 1 : j = k + 1 /\ j - 1 = k /\ k - 1 \in 0 .. n /\ k \in 0 .. n
                                  /\ (k - 1) + 1 = k
      BY <1>2
    <2>2. PICK q \in Doc : Left(m, frames[j], q) /\ old[j - 1] = q \o old[j]
      BY <1>1, <1>2 DEF CompletesBy
    <2>3. rest[k - 1] = old[k] /\ rest[k] = old[j]
      BY <1>5, <2>1
    <2> QED
      BY <1>2, <2>1, <2>2, <2>3
  <1>8. CompletesBy(m, less, old[1], rest)
    BY <1>5, <1>6, <1>7 DEF CompletesBy, n
  <1> QED
    BY <1>4, <1>6, <1>8 DEF Completes, Splits, less

\* Work on top of frames
Goes(m, frames, work, text) ==
    \E t \in Doc : Completes(m, work.enter \o frames, t) /\ work.out \o t = text

LEMMA WorkCompletes ==
    ASSUME NEW m, NEW frames \in Seq(Frame), NEW s \in Doc, Completes(m, frames, s),
           NEW work, NEW doc, Writes(m, work, doc)
    PROVE  Goes(m, frames, work, doc \o s)
  <1>1. CASE work.enter = <<>> /\ work.out = doc
    <2>1. <<>> \o frames = frames
      BY ConcatEmptySeq
    <2> QED
      BY <1>1, <2>1 DEF Goes
  <1>2. ASSUME NEW fr \in Frame, NEW r \in Doc,
               work.enter = <<fr>>, work.out \o r = doc, Left(m, fr, r)
        PROVE  Goes(m, frames, work, doc \o s)
    <2>1. PICK o \in Doc : o = work.out
      BY DEF Writes
    <2>2. PICK t \in Doc : t = r \o s
      BY Together
    <2>3. Completes(m, <<fr>> \o frames, t)
      BY <1>2, <2>2, PushCompletes
    <2>4. o \o t = (o \o r) \o s
      <3>1. Grouped(o, r, s)
        BY Regrouped
      <3> QED
        BY <2>2, <3>1 DEF Grouped
    <2> QED
      BY <1>2, <2>1, <2>2, <2>3, <2>4 DEF Goes
  <1> QED
    BY <1>1, <1>2 DEF Writes

\* What is written, and what still comes, make the document asked for.
DocState(m, frames, o, a) ==
    \E after \in Doc : /\ Completes(m, frames, after)
                       /\ o \o after = Documents(m)[<<a[1], a[2], NoField>>]

\* A part written on top of the frames
Appended(o, lead, tokens) == o \o lead \o tokens

\* A frame that has written one part more than fr: added
WroteNext(m, fr, x, added) ==
    /\ Placed(m, x) /\ FrameParts(m, x) = FrameParts(m, fr) /\ x.kind = fr.kind
    /\ FrameAt(x) = FrameAt(fr) + 1
    /\ Added(Joined(FrameParts(m, fr), Comma)[FrameAt(fr)], Comma,
             FrameParts(m, fr)[FrameAt(x)]) = added

LEMMA PartWritten ==
    ASSUME NEW m \in Boots, NoCycle(m),
           NEW frames \in Seq(Frame), frames # <<>>, NEW fr, fr = Head(frames),
           NEW o \in Doc, NEW a, DocState(m, frames, o, a),
           NEW lead \in Doc, NEW work, NEW doc, Writes(m, work, doc),
           NEW x \in Frame, Placed(m, fr) => WroteNext(m, fr, x, lead \o doc)
    PROVE  DocState(m, work.enter \o (<<x>> \o Tail(frames)), Appended(o, lead, work.out), a)
  <1>1. PICK after \in Doc : /\ Completes(m, frames, after)
                             /\ o \o after = Documents(m)[<<a[1], a[2], NoField>>]
    BY DEF DocState
  <1>2. PICK r \in Doc, s \in Doc : /\ Left(m, fr, r) /\ Completes(m, Tail(frames), s)
                                    /\ after = r \o s
    <2>1. Splits(m, frames, after)
      BY <1>1, PopCompletes
    <2> QED
      BY <2>1 DEF Splits
  <1>3. /\ Placed(m, fr) /\ Placed(m, x) /\ FrameParts(m, x) = FrameParts(m, fr)
        /\ x.kind = fr.kind /\ FrameAt(x) = FrameAt(fr) + 1
        /\ Added(Joined(FrameParts(m, fr), Comma)[FrameAt(fr)], Comma,
                 FrameParts(m, fr)[FrameAt(x)]) = lead \o doc
    BY <1>2 DEF Left, WroteNext
  <1>4. PICK t \in Doc : Left(m, x, t) /\ r = (lead \o doc) \o t
    <2>1. LeavesNext(m, x, Added(Joined(FrameParts(m, fr), Comma)[FrameAt(fr)], Comma,
                                 FrameParts(m, fr)[FrameAt(x)]), r)
      BY <1>2, <1>3, OnePart
    <2> QED
      BY <1>3, <2>1 DEF LeavesNext
  <1>5. Tail(frames) \in Seq(Frame)
    OBVIOUS
  <1>6. PICK u \in Doc : u = t \o s
    BY Together
  <1>7. Completes(m, <<x>> \o Tail(frames), u)
    BY <1>2, <1>4, <1>5, <1>6, PushCompletes
  <1>8. <<x>> \o Tail(frames) \in Seq(Frame)
    BY <1>5
  <1>9. PICK v \in Doc : /\ Completes(m, work.enter \o (<<x>> \o Tail(frames)), v)
                         /\ work.out \o v = doc \o u
    <2>1. PICK below \in Seq(Frame) : below = <<x>> \o Tail(frames)
      BY <1>8
    <2>2. Completes(m, below, u)
      BY <1>7, <2>1
    <2>3. Goes(m, below, work, doc \o u)
      BY <2>2, WorkCompletes
    <2> QED
      BY <2>1, <2>3 DEF Goes
  <1>10. PICK w \in Doc : w = work.out
    BY DEF Writes
  <1>11. doc \in Doc
    BY DEF Writes
  <1>12. PICK ld \in Doc : ld = lead \o doc
    BY <1>11, Together
  <1>13. PICK ol \in Doc : ol = o \o lead
    BY Together
  <1>14. (ol \o w) \o v = o \o after
    <2>1. PICK wv \in Doc : wv = w \o v
      BY Together
    <2>2. (ol \o w) \o v = ol \o wv
      <3>1. Grouped(ol, w, v)
        BY Regrouped
      <3> QED
        BY <2>1, <3>1 DEF Grouped
    <2>3. ol \o wv = o \o (lead \o wv)
      <3>1. Grouped(o, lead, wv)
        BY Regrouped
      <3> QED
        BY <1>13, <3>1 DEF Grouped
    <2>4. lead \o wv = ld \o u
      <3>1. Grouped(lead, doc, u)
        BY <1>11, Regrouped
      <3> QED
        BY <1>9, <1>10, <1>12, <2>1, <3>1 DEF Grouped
    <2>5. ld \o u = after
      <3>1. Grouped(ld, t, s)
        BY Regrouped
      <3> QED
        BY <1>2, <1>4, <1>6, <1>12, <3>1 DEF Grouped
    <2> QED
      BY <2>2, <2>3, <2>4, <2>5
  <1>15. Appended(o, lead, work.out) \o v = o \o after
    BY <1>10, <1>13, <1>14 DEF Appended
  <1> QED
    BY <1>1, <1>9, <1>15 DEF DocState

\* A frame that is done
LEMMA FrameClosed ==
    ASSUME NEW m \in Boots, NoCycle(m),
           NEW frames \in Seq(Frame), frames # <<>>, NEW fr, fr = Head(frames),
           NEW o \in Doc, NEW a, DocState(m, frames, o, a),
           Placed(m, fr) => FrameAt(fr) = Len(FrameParts(m, fr))
    PROVE  DocState(m, Tail(frames), o \o Closing(fr), a)
  <1>1. PICK after \in Doc : /\ Completes(m, frames, after)
                             /\ o \o after = Documents(m)[<<a[1], a[2], NoField>>]
    BY DEF DocState
  <1>2. PICK r \in Doc, s \in Doc : /\ Left(m, fr, r) /\ Completes(m, Tail(frames), s)
                                    /\ after = r \o s
    <2>1. Splits(m, frames, after)
      BY <1>1, PopCompletes
    <2> QED
      BY <2>1 DEF Splits
  <1>3. r = Closing(fr)
    BY <1>2, NothingMore DEF Left
  <1>4. (o \o r) \o s = o \o after
    <2>1. Grouped(o, r, s)
      BY Regrouped
    <2> QED
      BY <1>2, <2>1 DEF Grouped
  <1> QED
    BY <1>1, <1>2, <1>3, <1>4 DEF DocState

-----------------------------------------------------------------------------
(* Every step of the traversal keeps the document                          *)

\* What the next part of a frame adds
Adds(parts, j, k) ==
    /\ parts[k] = <<>> => j[k] = j[k - 1] /\ Added(j[k - 1], Comma, parts[k]) = <<>>
    /\ parts[k] # <<>> =>
          /\ j[k] # <<>>
          /\ Added(j[k - 1], Comma, parts[k]) =
                (IF j[k - 1] = <<>> THEN <<>> ELSE Comma) \o parts[k]

LEMMA NextPart ==
    ASSUME NEW m \in Boots, NoCycle(m), NEW fr, Placed(m, fr),
           NEW k \in 1 .. Len(FrameParts(m, fr))
    PROVE  Adds(FrameParts(m, fr), Joined(FrameParts(m, fr), Comma), k)
  <1>0. PICK parts, j : parts = FrameParts(m, fr) /\ j = Joined(parts, Comma)
                        /\ k \in 1 .. Len(parts)
    OBVIOUS
  <1> SUFFICES Adds(parts, j, k)
    BY <1>0
  <1>1. parts \in Seq(Doc) /\ Comma \in Doc
    BY <1>0, FrameDocuments, MarkDocs
  <1>2. PICK before \in Doc, part \in Doc : before = j[k - 1] /\ part = parts[k]
                                            /\ j[k] = Followed(before, Comma, part)
    <2>1. j \in [0 .. Len(parts) -> Doc]
      BY <1>0, <1>1, JoinedIs DEF Doc
    <2>2. parts[k] \in Doc /\ j[k] = Followed(j[k - 1], Comma, parts[k])
      BY <1>0, <1>1, JoinedIs DEF Doc
    <2>3. k - 1 \in 0 .. Len(parts)
      BY <1>0, <1>1
    <2> QED
      BY <2>1, <2>2, <2>3
  <1>3. PICK added \in Doc : added = Added(before, Comma, part) /\ j[k] = before \o added
    <2>1. /\ Added(before, Comma, part) \in Seq(AnyToken)
          /\ Followed(before, Comma, part) = before \o Added(before, Comma, part)
      <3>1. before \in Seq(AnyToken) /\ Comma \in Seq(AnyToken) /\ part \in Seq(AnyToken)
        BY <1>1 DEF Doc
      <3> QED
        BY <3>1, FollowedAdds
    <2> QED
      BY <1>2, <2>1 DEF Doc
  <1>4. part \o <<>> = part /\ <<>> \o part = part /\ before \o <<>> = before
        /\ <<>> \o added = added
    BY ConcatEmptySeq DEF Doc
  <1>5. CASE part = <<>>
    <2>1. added = <<>>
      BY <1>3, <1>5 DEF Added
    <2> QED
      BY <1>2, <1>3, <1>4, <1>5, <2>1 DEF Adds
  <1>6. CASE part # <<>>
    <2>1. added = (IF before = <<>> THEN <<>> ELSE Comma) \o part
      BY <1>3, <1>4, <1>6 DEF Added
    <2>2. before \o added # <<>>
      <3>1. CASE before = <<>>
        BY <1>4, <1>6, <2>1, <3>1
      <3>2. CASE before # <<>>
        BY <3>2, NotEmptied
      <3> QED
        BY <3>1, <3>2
    <2> QED
      BY <1>2, <1>3, <1>6, <2>1, <2>2 DEF Adds
  <1> QED
    BY <1>5, <1>6

\* The member at hand is the next part of its frame.
LEMMA MemberPart ==
    ASSUME NEW m \in Boots, NoCycle(m), NEW fr, Placed(m, fr), fr.kind = "struct",
           fr.i \in DOMAIN Members(fr)
    PROVE  /\ fr.i \in 1 .. Len(FrameParts(m, fr)) /\ fr.i \in Nat
           /\ FrameAt(fr) = fr.i - 1
           /\ FrameParts(m, fr)[fr.i] =
                 MemberText(m, Documents(m), fr.ptr, fr.type, Members(fr)[fr.i])
           /\ fr.first <=> Joined(FrameParts(m, fr), Comma)[fr.i - 1] = <<>>
  <1>1. /\ Len(FrameParts(m, fr)) = Len(Fields[StructOf[fr.type]])
        /\ StructFrame(fr) /\ IsInstance(fr.ptr, fr.type)
    BY FrameDocuments
  <1>2. PICK d \in [Seen -> Doc] : d = Documents(m)
    BY DocumentsExist
  <1>3. FrameParts(m, fr) = MemberDocuments(m, d, fr.ptr, fr.type)
    BY <1>2 DEF FrameParts
  <1>4. /\ fr.i \in 1 .. Len(Fields[StructOf[fr.type]])
        /\ MemberDocuments(m, d, fr.ptr, fr.type)[fr.i] =
              MemberText(m, d, fr.ptr, fr.type, Fields[StructOf[fr.type]][fr.i])
    BY <1>1, <1>2, MemberDocumentsTyped DEF Members
  <1>5. fr.i \in Nat
    BY <1>1 DEF StructFrame
  <1> QED
    BY <1>1, <1>2, <1>3, <1>4, <1>5 DEF FrameAt, Placed, Members

\* The frame that has written it
LEMMA AdvancedStruct ==
    ASSUME NEW m \in Boots, NoCycle(m), NEW fr, Placed(m, fr), fr.kind = "struct",
           fr.i \in DOMAIN Members(fr), NEW x \in Frame,
           x.i = fr.i + 1, x.kind = fr.kind, x.ptr = fr.ptr, x.type = fr.type,
           x.n = fr.n, x.field = fr.field,
           x.first <=> Joined(FrameParts(m, fr), Comma)[fr.i] = <<>>
    PROVE  /\ Placed(m, x) /\ FrameParts(m, x) = FrameParts(m, fr)
           /\ FrameAt(x) = FrameAt(fr) + 1 /\ FrameAt(x) = fr.i
  <1>1. /\ fr.i \in 1 .. Len(FrameParts(m, fr)) /\ fr.i \in Nat /\ FrameAt(fr) = fr.i - 1
        /\ Len(FrameParts(m, fr)) = Len(Fields[StructOf[fr.type]])
    BY MemberPart, FrameDocuments
  <1>2. FrameParts(m, x) = FrameParts(m, fr)
    BY DEF FrameParts
  <1>3. x.i - 1 = fr.i /\ FrameAt(x) = fr.i
    BY <1>1 DEF FrameAt
  <1>4. GoodFrame(m, x)
    <2>1. fr \in Frame /\ GoodFrame(m, fr) /\ (fr.kind = "array" => fr.i < fr.n)
      BY DEF Placed
    <2> QED
      BY <2>1, AdvancedIsGood
  <1>5. x.i - 1 \in 0 .. Len(Fields[StructOf[x.type]])
    BY <1>1, <1>3
  <1>6. x.first <=> Joined(FrameParts(m, x), Comma)[x.i - 1] = <<>>
    BY <1>2, <1>3
  <1>7. x.kind # "array"
    OBVIOUS
  <1>8. Placed(m, x)
    BY <1>4, <1>5, <1>6, <1>7 DEF Placed
  <1>9. FrameAt(fr) + 1 = fr.i
    BY <1>1
  <1> QED
    BY <1>2, <1>3, <1>8, <1>9

LEMMA AdvancedArray ==
    ASSUME NEW m \in Boots, NoCycle(m), NEW fr, Placed(m, fr), fr.kind = "array",
           fr.i < fr.n, NEW x \in Frame,
           x.i = fr.i + 1, x.kind = fr.kind, x.ptr = fr.ptr, x.type = fr.type,
           x.n = fr.n, x.field = fr.field
    PROVE  /\ Placed(m, x) /\ FrameParts(m, x) = FrameParts(m, fr)
           /\ FrameAt(x) = FrameAt(fr) + 1 /\ FrameAt(x) = fr.i + 1
           /\ FrameAt(fr) = fr.i
  <1>1. fr.kind # "struct" /\ x.kind # "struct"
    OBVIOUS
  <1>2. FrameParts(m, x) = FrameParts(m, fr)
    BY DEF FrameParts
  <1>3. FrameAt(x) = x.i /\ FrameAt(fr) = fr.i
    BY <1>1 DEF FrameAt
  <1>4. GoodFrame(m, x)
    <2>1. fr \in Frame /\ GoodFrame(m, fr)
      BY DEF Placed
    <2> QED
      BY <2>1, AdvancedIsGood
  <1>5. Placed(m, x)
    BY <1>1, <1>4 DEF Placed
  <1> QED
    BY <1>2, <1>3, <1>5

DocInv == asked # <<>> => DocState(mem, stack, out, asked)

\* The innermost frame
LEMMA TopOfStack ==
    ASSUME WalkInv, DocInv, NEW kind, Writing(kind)
    PROVE  /\ mem \in Boots /\ stack \in Seq(Frame) /\ stack # <<>> /\ top = Head(stack)
           /\ out \in Doc /\ top \in Frame /\ top.kind = kind
           /\ asked # <<>> /\ DocState(mem, stack, out, asked)
  <1>1. asked # <<>> /\ top \in Frame /\ top.kind = kind
    BY TopIsGood
  <1>2. stack \in Seq(Frame)
    BY DEF WalkInv, GoodStack
  <1> QED
    BY <1>1, <1>2 DEF WalkInv, DocInv, Writing, top, Doc

LEMMA NewStack ==
    ASSUME NEW frames \in Seq(Frame), frames # <<>>, NEW x \in Frame
    PROVE  <<x>> \o Tail(frames) \in Seq(Frame)
  <1>1. Tail(frames) \in Seq(Frame)
    OBVIOUS
  <1> QED
    BY <1>1

LEMMA TopPlaced ==
    ASSUME NEW m, NEW frames \in Seq(Frame), frames # <<>>, NEW o, NEW a,
           DocState(m, frames, o, a)
    PROVE  Placed(m, Head(frames))
  <1>1. PICK after : Completes(m, frames, after)
    BY DEF DocState
  <1>2. Splits(m, frames, after)
    BY <1>1, PopCompletes
  <1> QED
    BY <1>2 DEF Splits, Left

\* Every element is written as something.
LEMMA ElementsAreThere ==
    ASSUME NEW m \in Boots, NoCycle(m), NEW fr, Placed(m, fr), fr.kind = "array",
           NEW parts, parts = FrameParts(m, fr)
    PROVE  \A k \in 1 .. fr.n : parts[k] # <<>>
  <1>1. fr \in Frame /\ ArrayFrame(m, fr)
    BY FrameDocuments DEF Placed
  <1>2. \A i \in 1 .. fr.n : Element(fr.ptr, fr.type, fr.field, i) \in Seen
    BY <1>1, ElementsOfFrame
  <1>3. PICK d, n : d = Documents(m) /\ n = fr.n
    OBVIOUS
  <1>4. parts = ElementDocuments(d, fr.ptr, fr.type, fr.field, n)
    BY <1>3 DEF FrameParts
  <1>5. ASSUME NEW k \in 1 .. n PROVE parts[k] # <<>>
    <2>1. parts[k] = IF fr.ptr = NULL THEN Text("null")
                     ELSE d[Element(fr.ptr, fr.type, fr.field, k)]
      BY <1>4 DEF ElementDocuments
    <2>2. d[Element(fr.ptr, fr.type, fr.field, k)] # <<>>
      BY <1>2, <1>3, DocumentNotEmpty
    <2> QED
      BY <2>1, <2>2, TokensAreThere
  <1> QED
    BY <1>3, <1>5

\* What the step leaves
LEMMA KeptState ==
    ASSUME NEW s, NEW o, stack' = s, out' = o, UNCHANGED <<mem, asked>>,
           DocState(mem, s, o, asked)
    PROVE  DocInv'
  <1>1. DocState(mem', stack', out', asked')
    BY Zenon
  <1> QED
    BY <1>1 DEF DocInv

LEMMA SkipKeeps ==
    ASSUME WalkInv, DocInv, NoCycle(mem), SkipMember
    PROVE  DocInv'
  <1>1. /\ Writing("struct") /\ top.i \in DOMAIN Members(top) /\ "READ" \notin member.flags
        /\ UNCHANGED <<mem, asked>> /\ out' = out
        /\ stack' = <<[top EXCEPT !.i = @ + 1]>> \o Tail(stack)
    BY DEF SkipMember, MayRead
  <1>2. /\ mem \in Boots /\ stack \in Seq(Frame) /\ stack # <<>> /\ top = Head(stack)
        /\ out \in Doc /\ top \in Frame /\ top.kind = "struct"
        /\ DocState(mem, stack, out, asked)
    BY <1>1, TopOfStack
  <1>3. PICK fr \in Frame : fr = top
    BY <1>2
  <1>4. PICK x \in Frame : /\ x = [fr EXCEPT !.i = @ + 1]
                           /\ x.i = fr.i + 1 /\ x.kind = fr.kind /\ x.ptr = fr.ptr
                           /\ x.type = fr.type /\ x.n = fr.n /\ x.field = fr.field
                           /\ x.first = fr.first
    <2>1. PICK k \in Nat : k = fr.i + 1
      BY DEF Frame
    <2>2. [fr EXCEPT !.i = k] \in Frame /\ [fr EXCEPT !.i = @ + 1] = [fr EXCEPT !.i = k]
      BY <2>1 DEF Frame
    <2>3. PICK x \in Frame : x = [fr EXCEPT !.i = k]
      BY <2>2
    <2>4. x.i = k /\ x.kind = fr.kind /\ x.ptr = fr.ptr /\ x.type = fr.type
          /\ x.n = fr.n /\ x.field = fr.field /\ x.first = fr.first
      BY <2>3 DEF Frame
    <2> QED
      BY <2>1, <2>2, <2>3, <2>4
  <1>5. PICK none \in Doc : none = <<>> /\ none \o none = none
    <2>1. <<>> \o <<>> = <<>>
      OBVIOUS
    <2> QED
      BY <2>1, Marks
  <1>6. ASSUME Placed(mem, fr)
        PROVE  WroteNext(mem, fr, x, none)
    <2>1. fr.kind = "struct" /\ fr.i \in DOMAIN Members(fr)
      BY <1>1, <1>2, <1>3
    <2>2. /\ fr.i \in 1 .. Len(FrameParts(mem, fr)) /\ FrameAt(fr) = fr.i - 1
          /\ FrameParts(mem, fr)[fr.i] =
                MemberText(mem, Documents(mem), fr.ptr, fr.type, Members(fr)[fr.i])
          /\ fr.first <=> Joined(FrameParts(mem, fr), Comma)[fr.i - 1] = <<>>
      BY <1>2, <1>6, <2>1, MemberPart
    <2>3. FrameParts(mem, fr)[fr.i] = <<>>
      BY <1>1, <1>3, <2>2 DEF MemberText, member
    <2>4. PICK parts, j : parts = FrameParts(mem, fr) /\ j = Joined(parts, Comma)
      OBVIOUS
    <2>5. j[fr.i] = j[fr.i - 1] /\ Added(j[fr.i - 1], Comma, parts[fr.i]) = <<>>
      <3>1. Adds(parts, j, fr.i)
        BY <1>2, <1>6, <2>2, <2>4, NextPart
      <3> QED
        BY <2>3, <2>4, <3>1 DEF Adds
    <2>6. x.first <=> Joined(FrameParts(mem, fr), Comma)[fr.i] = <<>>
      BY <1>4, <2>2, <2>4, <2>5
    <2>7. /\ Placed(mem, x) /\ FrameParts(mem, x) = FrameParts(mem, fr)
          /\ FrameAt(x) = FrameAt(fr) + 1 /\ FrameAt(x) = fr.i
      BY <1>2, <1>4, <1>6, <2>1, <2>6, AdvancedStruct
    <2> QED
      BY <1>4, <1>5, <2>2, <2>4, <2>5, <2>7 DEF WroteNext
  <1>7. PICK work : work = Work(none, <<>>, {})
    OBVIOUS
  <1>8. work.out = none /\ work.enter = <<>> /\ Writes(mem, work, none)
    BY <1>7, PlainWrites DEF Work
  <1>9. DocState(mem, work.enter \o (<<x>> \o Tail(stack)), Appended(out, none, work.out), asked)
    <2>1. Placed(mem, fr) => WroteNext(mem, fr, x, none \o none)
      BY <1>5, <1>6
    <2> QED
      BY <1>2, <1>3, <1>8, <2>1, PartWritten
  <1>10. PICK rest \in Seq(Frame) : rest = <<x>> \o Tail(stack)
    <2>1. <<x>> \o Tail(stack) \in Seq(Frame)
      BY <1>2, NewStack
    <2> QED
      BY <2>1
  <1>11. work.enter \o rest = rest /\ Appended(out, none, work.out) = out
    <2>1. <<>> \o rest = rest /\ out \o <<>> = out
      BY <1>2, ConcatEmptySeq DEF Doc
    <2> QED
      BY <1>5, <1>8, <2>1 DEF Appended
  <1>12. DocState(mem, rest, out, asked)
    BY <1>9, <1>10, <1>11
  <1>13. stack' = rest
    BY <1>1, <1>3, <1>4, <1>10
  <1> QED
    BY <1>1, <1>12, <1>13, KeptState

\* The next member with its comma and key
LEMMA MemberKeeps ==
    ASSUME WalkInv, DocInv, NoCycle(mem), WriteMember
    PROVE  DocInv'
  <1>1. /\ Writing("struct") /\ top.i \in DOMAIN Members(top) /\ "READ" \in member.flags
    BY DEF WriteMember, MayRead
  <1>2. /\ mem \in Boots /\ stack \in Seq(Frame) /\ stack # <<>> /\ top = Head(stack)
        /\ out \in Doc /\ top \in Frame /\ top.kind = "struct"
        /\ asked # <<>> /\ DocState(mem, stack, out, asked)
    BY <1>1, TopOfStack
  <1>3. PICK fr \in Frame : fr = top
    BY <1>2
  <1>4. StructFrame(fr) /\ member \in FieldsOf(StructOf[fr.type]) /\ member \in FieldInfo
    BY <1>1, <1>3, TopIsGood, MemberOfTop
  <1>5. PICK x \in Frame : /\ x = [fr EXCEPT !.i = @ + 1, !.first = FALSE]
                           /\ x.i = fr.i + 1 /\ x.kind = fr.kind /\ x.ptr = fr.ptr
                           /\ x.type = fr.type /\ x.n = fr.n /\ x.field = fr.field
                           /\ x.first = FALSE
    <2>1. PICK k \in Nat : k = fr.i + 1
      BY DEF Frame
    <2>2. /\ [fr EXCEPT !.i = k, !.first = FALSE] \in Frame
          /\ [fr EXCEPT !.i = @ + 1, !.first = FALSE] = [fr EXCEPT !.i = k, !.first = FALSE]
      BY <2>1 DEF Frame
    <2>3. PICK x \in Frame : x = [fr EXCEPT !.i = k, !.first = FALSE]
      BY <2>2
    <2>4. x.i = k /\ x.kind = fr.kind /\ x.ptr = fr.ptr /\ x.type = fr.type
          /\ x.n = fr.n /\ x.field = fr.field /\ x.first = FALSE
      BY <2>3 DEF Frame
    <2> QED
      BY <2>1, <2>2, <2>3, <2>4
  <1>6. PICK f \in FieldInfo : f = member
    BY <1>4
  <1>7. PICK work, doc : /\ work = Member(fr.ptr, fr.type, f)
                         /\ doc = MemberDocument(mem, Documents(mem), fr.ptr, fr.type, f)
    OBVIOUS
  <1>8. Writes(mem, work, doc) /\ doc \in Doc
    <2>1. Writes(mem, Member(fr.ptr, fr.type, f),
                 MemberDocument(mem, Documents(mem), fr.ptr, fr.type, f))
      BY <1>1, <1>2, <1>4, <1>6, MemberWrites
    <2>2. Writes(mem, work, doc)
      BY <1>7, <2>1
    <2> QED
      BY <2>2 DEF Writes
  <1>9. PICK comma \in Doc : comma = IF fr.first THEN <<>> ELSE Comma
    BY Marks, MarkDocs
  <1>10. PICK key \in Doc : key = KeyText(f) /\ key = Token("key", Key(f)) /\ key # <<>>
    BY KeyTyped, TokensAreThere DEF KeyText
  <1>11. PICK lead \in Doc : lead = comma \o key
    BY Together
  <1>12. PICK text \in Doc : text = key \o doc /\ text # <<>> /\ lead \o doc = comma \o text
    <2>1. key \o doc \in Doc /\ key \o doc # <<>>
      BY <1>8, <1>10, Together, NotEmptied
    <2>2. Grouped(comma, key, doc)
      BY <1>8, Regrouped
    <2> QED
      BY <1>11, <2>1, <2>2 DEF Grouped
  <1>13. ASSUME Placed(mem, fr)
         PROVE  WroteNext(mem, fr, x, lead \o doc)
    <2>1. fr.kind = "struct" /\ fr.i \in DOMAIN Members(fr)
      BY <1>1, <1>2, <1>3
    <2>2. /\ fr.i \in 1 .. Len(FrameParts(mem, fr)) /\ FrameAt(fr) = fr.i - 1
          /\ FrameParts(mem, fr)[fr.i] =
                MemberText(mem, Documents(mem), fr.ptr, fr.type, Members(fr)[fr.i])
          /\ fr.first <=> Joined(FrameParts(mem, fr), Comma)[fr.i - 1] = <<>>
      BY <1>2, <1>13, <2>1, MemberPart
    <2>3. FrameParts(mem, fr)[fr.i] = text
      <3>1. "READ" \in f.flags /\ f = Members(fr)[fr.i]
        BY <1>1, <1>3, <1>6 DEF member
      <3> QED
        BY <1>7, <1>10, <1>12, <2>2, <3>1 DEF MemberText
    <2>4. PICK parts, j : parts = FrameParts(mem, fr) /\ j = Joined(parts, Comma)
      OBVIOUS
    <2>5. /\ j[fr.i] # <<>>
          /\ Added(j[fr.i - 1], Comma, parts[fr.i]) =
                (IF j[fr.i - 1] = <<>> THEN <<>> ELSE Comma) \o parts[fr.i]
      <3>1. PICK k \in 1 .. Len(parts) : k = fr.i /\ parts[k] # <<>>
        BY <1>12, <2>2, <2>3, <2>4
      <3>2. /\ j[k] # <<>>
            /\ Added(j[k - 1], Comma, parts[k]) =
                  (IF j[k - 1] = <<>> THEN <<>> ELSE Comma) \o parts[k]
        <4>1. Adds(parts, j, k)
          BY <1>2, <1>13, <2>4, <3>1, NextPart
        <4> QED
          BY <3>1, <4>1 DEF Adds
      <3> QED
        BY <3>1, <3>2
    <2>6. Added(j[fr.i - 1], Comma, parts[fr.i]) = lead \o doc
      <3>1. comma = IF j[fr.i - 1] = <<>> THEN <<>> ELSE Comma
        BY <1>9, <2>2, <2>4
      <3> QED
        BY <1>12, <2>3, <2>4, <2>5, <3>1
    <2>7. x.first <=> Joined(FrameParts(mem, fr), Comma)[fr.i] = <<>>
      BY <1>5, <2>4, <2>5
    <2>8. /\ Placed(mem, x) /\ FrameParts(mem, x) = FrameParts(mem, fr)
          /\ FrameAt(x) = FrameAt(fr) + 1 /\ FrameAt(x) = fr.i
      BY <1>2, <1>5, <1>13, <2>1, <2>7, AdvancedStruct
    <2> QED
      BY <1>5, <2>2, <2>4, <2>6, <2>8 DEF WroteNext
  <1>14. DocState(mem, work.enter \o (<<x>> \o Tail(stack)), Appended(out, lead, work.out), asked)
    BY <1>2, <1>3, <1>8, <1>13, PartWritten
  <1>15. /\ out' = Appended(out, lead, work.out)
         /\ stack' = work.enter \o (<<x>> \o Tail(stack)) /\ UNCHANGED <<mem, asked>>
    <2>1. PICK before, rest : /\ before = (IF top.first THEN <<>> ELSE Text(",")) \o Token("key", Key(member))
                              /\ rest = Advance(top)
      OBVIOUS
    <2>2. before = lead
      BY <1>3, <1>6, <1>9, <1>10, <1>11, <2>1 DEF Comma
    <2>3. rest = <<x>> \o Tail(stack)
      BY <1>3, <1>5, <2>1 DEF Advance
    <2>4. work = Member(top.ptr, top.type, member)
      BY <1>3, <1>6, <1>7
    <2>5. Do(before, work, rest)
      BY <2>1, <2>4 DEF WriteMember
    <2> QED
      BY <2>2, <2>3, <2>5 DEF Do, Appended
  <1> QED
    BY <1>14, <1>15, KeptState

\* The next element with its comma
LEMMA ElementKeeps ==
    ASSUME WalkInv, DocInv, NoCycle(mem), WriteElement
    PROVE  DocInv'
  <1>1. Writing("array") /\ top.i < top.n
    BY DEF WriteElement, InLoop
  <1>2. /\ mem \in Boots /\ stack \in Seq(Frame) /\ stack # <<>> /\ top = Head(stack)
        /\ out \in Doc /\ top \in Frame /\ top.kind = "array"
        /\ asked # <<>> /\ DocState(mem, stack, out, asked)
    BY <1>1, TopOfStack
  <1>3. PICK fr \in Frame : fr = top
    BY <1>2
  <1>4. PICK x \in Frame : /\ x = [fr EXCEPT !.i = @ + 1, !.first = FALSE]
                           /\ x.i = fr.i + 1 /\ x.kind = fr.kind /\ x.ptr = fr.ptr
                           /\ x.type = fr.type /\ x.n = fr.n /\ x.field = fr.field
    <2>1. PICK k \in Nat : k = fr.i + 1
      BY DEF Frame
    <2>2. /\ [fr EXCEPT !.i = k, !.first = FALSE] \in Frame
          /\ [fr EXCEPT !.i = @ + 1, !.first = FALSE] = [fr EXCEPT !.i = k, !.first = FALSE]
      BY <2>1 DEF Frame
    <2>3. PICK x \in Frame : x = [fr EXCEPT !.i = k, !.first = FALSE]
      BY <2>2
    <2>4. x.i = k /\ x.kind = fr.kind /\ x.ptr = fr.ptr /\ x.type = fr.type
          /\ x.n = fr.n /\ x.field = fr.field
      BY <2>3 DEF Frame
    <2> QED
      BY <2>1, <2>2, <2>3, <2>4
  <1>5. PICK work : work = (LET ith == fr.ptr + fr.i * get_type_size(fr.type)
                            IN  IF ith = NULL THEN Work(Text("null"), <<>>, {})
                                ELSE Value(ith, fr.type, fr.field))
    OBVIOUS
  <1>6. PICK lead \in Doc : lead = IF fr.i = 0 THEN <<>> ELSE Comma
    BY Marks, MarkDocs
  <1>7. PICK next : next = Appended(out, lead, work.out)
    OBVIOUS
  <1>8. /\ out' = next /\ stack' = work.enter \o (<<x>> \o Tail(stack))
        /\ UNCHANGED <<mem, asked>>
    <2>1. PICK before, rest : /\ before = (IF top.i = 0 THEN <<>> ELSE Text(","))
                              /\ rest = Advance(top)
      OBVIOUS
    <2>2. before = lead
      BY <1>3, <1>6, <2>1 DEF Comma
    <2>3. rest = <<x>> \o Tail(stack)
      BY <1>3, <1>4, <2>1 DEF Advance
    <2>4. Do(before, work, rest)
      BY <1>3, <1>5, <2>1 DEF WriteElement
    <2> QED
      BY <1>7, <2>2, <2>3, <2>4 DEF Do, Appended
  <1>9. CASE Placed(mem, fr)
    <2>1. PICK doc : doc = FrameParts(mem, fr)[fr.i + 1]
      OBVIOUS
    <2>2. fr.i + 1 \in 1 .. fr.n /\ Writes(mem, work, doc)
      BY <1>1, <1>2, <1>3, <1>5, <1>9, <2>1, ElementWrites
    <2>3. doc \in Doc
      BY <2>2 DEF Writes
    <2>4. WroteNext(mem, fr, x, lead \o doc)
      <3>1. /\ Placed(mem, x) /\ FrameParts(mem, x) = FrameParts(mem, fr)
            /\ FrameAt(x) = FrameAt(fr) + 1 /\ FrameAt(x) = fr.i + 1 /\ FrameAt(fr) = fr.i
        <4>1. fr.kind = "array" /\ fr.i < fr.n
          BY <1>1, <1>2, <1>3
        <4> QED
          BY <1>2, <1>4, <1>9, <4>1, AdvancedArray
      <3>2. PICK parts, j : /\ parts \in Seq(Doc) /\ Len(parts) = fr.n
                            /\ parts = FrameParts(mem, fr) /\ j = Joined(parts, Comma)
        BY <1>2, <1>3, <1>9, FrameDocuments
      <3>3. fr.i \in Nat /\ (fr.i + 1) - 1 = fr.i
        BY DEF Frame
      <3>4. \A k \in 1 .. fr.n : parts[k] # <<>>
        BY <1>2, <1>3, <1>9, <3>2, ElementsAreThere
      <3>5. Added(j[fr.i], Comma, doc) = (IF j[fr.i] = <<>> THEN <<>> ELSE Comma) \o doc
        <4>1. PICK k \in 1 .. Len(parts) : k = fr.i + 1 /\ k - 1 = fr.i /\ parts[k] # <<>>
          BY <2>2, <3>2, <3>3, <3>4
        <4>2. Added(j[k - 1], Comma, parts[k]) =
                 (IF j[k - 1] = <<>> THEN <<>> ELSE Comma) \o parts[k]
          <5>1. Adds(parts, j, k)
            BY <1>2, <1>9, <3>2, <4>1, NextPart
          <5> QED
            BY <4>1, <5>1 DEF Adds
        <4> QED
          BY <2>1, <3>2, <4>1, <4>2
      <3>6. j[fr.i] = <<>> <=> fr.i = 0
        <4>1. CASE fr.i = 0
          BY <3>2, <4>1, MarkDocs, JoinedIs DEF Doc
        <4>2. CASE fr.i # 0
          <5>1. PICK k \in 1 .. Len(parts) : k = fr.i /\ parts[k] # <<>>
            <6>1. PICK n \in Nat : n = fr.n /\ n = Len(parts)
              BY <3>2
            <6>2. fr.i \in 1 .. n
              BY <2>2, <3>3, <4>2, <6>1
            <6> QED
              BY <3>4, <6>1, <6>2
          <5>2. j[k] # <<>>
            <6>1. Adds(parts, j, k)
              BY <1>2, <1>9, <3>2, <5>1, NextPart
            <6>2. parts[k] # <<>> => j[k] # <<>>
              BY <6>1, Zenon DEF Adds
            <6> QED
              BY <5>1, <6>2
          <5> QED
            BY <4>2, <5>1, <5>2
        <4> QED
          BY <4>1, <4>2
      <3>7. Added(j[fr.i], Comma, doc) = lead \o doc
        BY <1>6, <3>5, <3>6
      <3> QED
        BY <1>4, <2>1, <3>1, <3>2, <3>7 DEF WroteNext
    <2>5. DocState(mem, work.enter \o (<<x>> \o Tail(stack)), Appended(out, lead, work.out), asked)
      BY <1>2, <1>3, <2>2, <2>4, PartWritten
    <2> QED
      BY <1>7, <1>8, <2>5, KeptState
  <1>10. Placed(mem, fr)
    BY <1>2, <1>3, TopPlaced
  <1> QED
    BY <1>9, <1>10

\* The end of a struct and of an array
LEMMA EndKeeps ==
    ASSUME WalkInv, DocInv, NoCycle(mem), EndStruct \/ EndArray
    PROVE  DocInv'
  <1>0. PICK kind \in {"struct", "array"} : \E mark :
            /\ Writing(kind) /\ mark = Text(IF kind = "struct" THEN "}" ELSE "]")
            /\ Do(mark, Work(<<>>, <<>>, {}), Tail(stack))
            /\ kind = "struct" => top.i \notin DOMAIN Members(top)
            /\ kind = "array" => top.i >= top.n
    <2>1. CASE EndStruct
      <3>1. /\ Writing("struct") /\ Do(Text("}"), Work(<<>>, <<>>, {}), Tail(stack))
            /\ top.i \notin DOMAIN Members(top)
        BY <2>1, Zenon DEF EndStruct
      <3>2. "struct" # "array"
        OBVIOUS
      <3> QED
        BY <3>1, <3>2, Zenon
    <2>2. CASE EndArray
      <3>1. /\ Writing("array") /\ Do(Text("]"), Work(<<>>, <<>>, {}), Tail(stack))
            /\ top.i >= top.n
        BY <2>2, Zenon DEF EndArray, LoopOver
      <3>2. "struct" # "array"
        OBVIOUS
      <3> QED
        BY <3>1, <3>2, Zenon
    <2> QED
      BY <2>1, <2>2
  <1>1. PICK mark :
            /\ Writing(kind) /\ mark = Text(IF kind = "struct" THEN "}" ELSE "]")
            /\ Do(mark, Work(<<>>, <<>>, {}), Tail(stack))
            /\ kind = "struct" => top.i \notin DOMAIN Members(top)
            /\ kind = "array" => top.i >= top.n
    BY <1>0, Zenon
  <1>2. /\ mem \in Boots /\ stack \in Seq(Frame) /\ stack # <<>> /\ top = Head(stack)
        /\ out \in Doc /\ top \in Frame /\ top.kind = kind
        /\ asked # <<>> /\ DocState(mem, stack, out, asked)
    BY <1>1, TopOfStack
  <1>3. mark = Closing(top)
    BY <1>1, <1>2, Zenon DEF Closing
  <1>4. PICK close \in Doc : close = mark
    BY <1>3, MarkDocs
  <1>5. ASSUME Placed(mem, top)
        PROVE  FrameAt(top) = Len(FrameParts(mem, top))
    <2>1. CASE kind = "struct"
      <3>1. /\ Len(FrameParts(mem, top)) = Len(Fields[StructOf[top.type]])
            /\ StructFrame(top) /\ IsInstance(top.ptr, top.type)
        BY <1>2, <1>5, <2>1, FrameDocuments
      <3>2. PICK table \in Seq(FieldInfo) : table = Fields[StructOf[top.type]]
        BY <3>1, TableOf DEF IsInstance
      <3>3. /\ top.i \in Nat /\ top.i - 1 \in 0 .. Len(table) /\ top.i \notin DOMAIN table
            /\ FrameAt(top) = top.i - 1
        BY <1>1, <1>2, <1>5, <2>1, <3>1, <3>2 DEF Placed, StructFrame, Members, FrameAt
      <3>4. top.i - 1 = Len(table)
        BY <3>3
      <3> QED
        BY <3>1, <3>2, <3>3, <3>4
    <2>2. CASE kind = "array"
      <3>1. Len(FrameParts(mem, top)) = top.n /\ ArrayFrame(mem, top)
        BY <1>2, <1>5, <2>2, FrameDocuments
      <3>2. FrameAt(top) = top.i
        BY <1>2, <2>2 DEF FrameAt
      <3>3. top.n \in Nat /\ top.i \in 0 .. top.n /\ top.i >= top.n
        BY <1>1, <2>2, <3>1 DEF ArrayFrame
      <3> QED
        BY <3>1, <3>2, <3>3
    <2> QED
      BY <2>1, <2>2
  <1>6. DocState(mem, Tail(stack), out \o Closing(top), asked)
    BY <1>2, <1>5, FrameClosed
  <1>7. /\ out' = out \o close /\ stack' = Tail(stack) /\ UNCHANGED <<mem, asked>>
    <2>1. PICK work, rest : work = Work(<<>>, <<>>, {}) /\ rest = Tail(stack)
                            /\ work.out = <<>> /\ work.enter = <<>>
      <3>1. PICK work : work = Work(<<>>, <<>>, {})
        OBVIOUS
      <3>2. work.out = <<>> /\ work.enter = <<>>
        BY <3>1 DEF Work
      <3> QED
        BY <3>1, <3>2
    <2>2. Do(close, work, rest)
      BY <1>1, <1>4, <2>1
    <2>3. out' = out \o close \o <<>> /\ stack' = <<>> \o rest /\ UNCHANGED <<mem, asked>>
      BY <2>1, <2>2 DEF Do
    <2>4. rest \in Seq(Frame)
      BY <1>2, <2>1
    <2>5. PICK all \in Doc : all = out \o close
      BY <1>2, Together
    <2>6. all \o <<>> = all /\ <<>> \o rest = rest
      BY <2>4, ConcatEmptySeq DEF Doc
    <2> QED
      BY <2>1, <2>3, <2>5, <2>6
  <1> QED
    BY <1>3, <1>4, <1>6, <1>7, KeptState

\* The call
LEMMA StreamKeeps ==
    ASSUME WalkInv, NoCycle(mem), NEW r \in Requests, to_json_stream(r[1], r[2])
    PROVE  DocInv'
  <1>1. /\ mem' = mem /\ mem \in Boots /\ asked' = <<r[1], r[2]>>
        /\ out' = Value(r[1], r[2], NoField).out
        /\ stack' = Value(r[1], r[2], NoField).enter
    BY DEF to_json_stream, WalkInv
  <1>2. /\ r[1] \in Addr \cup {NULL} /\ r[2] \in STRING
        /\ r[1] # NULL /\ HasMetadata(r[2]) => <<r[1], StructOf[r[2]]>> \in Objects
    BY RequestsAssumption DEF RequestsAssumption
  <1>3. PICK ptr \in Int : ptr = r[1]
    BY <1>2, LayoutAssumption DEF LayoutAssumption, Addr, NULL
  <1>4. PICK type \in STRING : type = r[2]
    BY <1>2
  <1>5. PICK field \in FieldInfo \cup {NoField} : field = NoField
    OBVIOUS
  <1>6. <<ptr, type, field>> \in Seen
    <2>1. <<ptr, type, field>> \in (Addr \cup {NULL}) \X STRING \X (FieldInfo \cup {NoField})
      BY <1>2, <1>3, <1>4
    <2> QED
      BY <1>2, <1>3, <1>4, <2>1 DEF Seen
  <1>7. PICK work : work = Value(ptr, type, field)
    OBVIOUS
  <1>8. PICK doc : doc = Documents(mem)[<<ptr, type, field>>]
    OBVIOUS
  <1>9. Writes(mem, work, doc) /\ doc \in Doc
    <2>1. Writes(mem, Value(ptr, type, field), Documents(mem)[<<ptr, type, field>>])
      BY <1>1, <1>6, ValueWrites
    <2>2. Writes(mem, work, doc)
      BY <1>7, <1>8, <2>1
    <2> QED
      BY <2>2 DEF Writes
  <1>10. PICK none \in Doc, below \in Seq(Frame) : none = <<>> /\ below = <<>>
    <2>1. <<>> \in Seq(Frame)
      OBVIOUS
    <2> QED
      BY <2>1, Marks
  <1>11. Completes(mem, below, none)
    BY <1>10, NothingCompletes
  <1>12. Goes(mem, below, work, doc \o none)
    BY <1>9, <1>11, WorkCompletes
  <1>13. doc \o none = doc
    BY <1>9, <1>10, ConcatEmptySeq DEF Doc
  <1>14. PICK t \in Doc : Completes(mem, work.enter \o below, t) /\ work.out \o t = doc
    BY <1>12, <1>13 DEF Goes
  <1>15. work.enter \o below = work.enter
    <2>1. work.enter = <<>> \/ \E fr \in Frame : work.enter = <<fr>>
      BY <1>9 DEF Writes
    <2>2. work.enter \in Seq(Frame)
      <3>1. ASSUME NEW fr \in Frame PROVE <<fr>> \in Seq(Frame)
        OBVIOUS
      <3>2. <<>> \in Seq(Frame)
        OBVIOUS
      <3> QED
        BY <2>1, <3>1, <3>2, Zenon
    <2> QED
      BY <1>10, <2>2, ConcatEmptySeq
  <1>16. Completes(mem', stack', t)
    BY <1>1, <1>3, <1>4, <1>5, <1>7, <1>14, <1>15
  <1>17. out' \o t = Documents(mem')[<<asked'[1], asked'[2], NoField>>]
    <2>1. asked'[1] = ptr /\ asked'[2] = type
      BY <1>1, <1>3, <1>4
    <2>2. out' = work.out /\ mem' = mem
      BY <1>1, <1>3, <1>4, <1>5, <1>7
    <2> QED
      BY <1>5, <1>8, <1>14, <2>1, <2>2
  <1>18. DocState(mem', stack', out', asked')
    BY <1>14, <1>16, <1>17 DEF DocState
  <1> QED
    BY <1>18 DEF DocInv

LEMMA NextDocInv ==
    ASSUME WalkInv, DocInv, NoCycle(mem), [Next]_vars
    PROVE  DocInv'
  <1>1. CASE UNCHANGED vars
    <2>1. mem' = mem /\ stack' = stack /\ out' = out /\ asked' = asked
      BY <1>1 DEF vars
    <2>2. asked' # <<>> => DocState(mem', stack', out', asked')
      BY <2>1, Zenon DEF DocInv
    <2> QED
      BY <2>2 DEF DocInv
  <1>2. ASSUME NEW r \in Requests, to_json_stream(r[1], r[2]) PROVE DocInv'
    BY <1>2, StreamKeeps
  <1>3. CASE SkipMember
    BY <1>3, SkipKeeps
  <1>4. CASE WriteMember
    BY <1>4, MemberKeeps
  <1>5. CASE EndStruct \/ EndArray
    BY <1>5, EndKeeps
  <1>6. CASE WriteElement
    BY <1>6, ElementKeeps
  <1> QED
    BY <1>1, <1>2, <1>3, <1>4, <1>5, <1>6 DEF Next

\* A step of to_json is one of the traversal, or none of it.
LEMMA WalkOfJson ==
    ASSUME [JsonNext]_jsonVars
    PROVE  [Next]_vars
  <1>1. CASE UNCHANGED jsonVars
    BY <1>1 DEF jsonVars
  <1>2. CASE Traverse
    BY <1>2 DEF Traverse
  <1>3. ASSUME NEW buflen \in Sizes, to_json(buflen) PROVE UNCHANGED vars
    BY <1>3 DEF to_json
  <1>4. CASE CallBack
    BY <1>4 DEF CallBack, WriteToken, WriteNull, OpenString, WriteChar, CloseString
  <1>5. CASE Return
    BY <1>5 DEF Return
  <1> QED
    BY <1>1, <1>2, <1>3, <1>4, <1>5 DEF JsonNext

LEMMA PrefixOfWhole ==
    ASSUME NEW a \in Doc, NEW b \in Doc
    PROVE  IsPrefix(a, a \o b)
  <1>1. /\ a \o b \in Seq(AnyToken) /\ Len(a \o b) = Len(a) + Len(b)
        /\ Len(a) \in Nat /\ Len(b) \in Nat
        /\ \A k \in 1 .. Len(a) : (a \o b)[k] = a[k]
    BY ConcatProperties DEF Doc
  <1>2. PICK whole \in Doc : whole = a \o b
    BY <1>1 DEF Doc
  <1>3. SubSeq(a, 1, Len(a)) = SubSeq(whole, 1, Len(a))
    BY <1>1, <1>2 DEF Doc
  <1>4. Len(a) <= Len(whole)
    BY <1>1, <1>2
  <1> QED
    BY <1>2, <1>3, <1>4 DEF IsPrefix

LEMMA OutputFromInv ==
    ASSUME WalkInv, DocInv
    PROVE  OutputIsTheDocument
  <1>1. CASE asked = <<>>
    BY <1>1 DEF OutputIsTheDocument
  <1>2. CASE asked # <<>>
    <2>1. PICK after \in Doc : Completes(mem, stack, after) /\ out \o after = Asked
      BY <1>2 DEF DocInv, DocState, Asked
    <2>2. out \in Doc
      BY DEF WalkInv, Doc
    <2>3. stack = <<>> => out = Asked
      <3>1. ASSUME stack = <<>> PROVE out = Asked
        <4>1. after = <<>>
          BY <2>1, <3>1, NothingCompletes
        <4>2. out \o <<>> = out
          BY <2>2, ConcatEmptySeq DEF Doc
        <4> QED
          BY <2>1, <4>1, <4>2
      <3> QED
        BY <3>1
    <2>4. IsPrefix(out, Asked)
      <3>1. IsPrefix(out, out \o after)
        BY <2>2, PrefixOfWhole
      <3> QED
        BY <2>1, <3>1, Zenon
    <2> QED
      BY <2>3, <2>4, Zenon DEF OutputIsTheDocument
  <1> QED
    BY <1>1, <1>2

\* What the traversal writes is the document of the value asked for: whole
\* when it is done, a beginning of it before, for all tables and all data
\* without a cycle.
THEOREM DocumentIsWritten ==
    ASSUME NoCycles
    PROVE  JsonSpec => []OutputIsTheDocument
  <1>1. JsonInit => DocInv
    BY DEF JsonInit, Init, DocInv
  <1>2. JsonInv /\ DocInv /\ [JsonNext]_jsonVars => DocInv'
    <2> SUFFICES ASSUME JsonInv, DocInv, [JsonNext]_jsonVars PROVE DocInv'
      OBVIOUS
    <2>1. WalkInv /\ NoCycle(mem)
      BY DEF JsonInv, WalkInv, NoCycles
    <2> QED
      BY <2>1, WalkOfJson, NextDocInv
  <1>3. JsonInv /\ DocInv => OutputIsTheDocument
    BY OutputFromInv DEF JsonInv
  <1> QED
    BY <1>1, <1>2, <1>3, JsonInvariance, PTL DEF JsonSpec

-----------------------------------------------------------------------------
(* The text of the document                                                *)

\* What is joined depends on the parts joined only.
JoinedBy(g, parts, mark) ==
    /\ g[0] = <<>>
    /\ \A n \in 1 .. Len(parts) : g[n] = Followed(g[n - 1], mark, parts[n])

LEMMA JoinedSteps ==
    ASSUME NEW S, NEW parts \in Seq(Seq(S)), NEW mark \in Seq(S)
    PROVE  JoinedBy(Joined(parts, mark), parts, mark)
  BY JoinedIs DEF JoinedBy

LEMMA JoinedAgree ==
    ASSUME NEW S, NEW parts \in Seq(Seq(S)), NEW more \in Seq(Seq(S)), NEW mark \in Seq(S),
           Len(parts) <= Len(more), \A i \in 1 .. Len(parts) : more[i] = parts[i]
    PROVE  Joined(more, mark)[Len(parts)] = Joined(parts, mark)[Len(parts)]
  <1>1. PICK n \in Nat, k \in Nat : n = Len(parts) /\ k = Len(more) /\ n <= k
    OBVIOUS
  <1>2. PICK g, h : g = Joined(parts, mark) /\ h = Joined(more, mark)
    OBVIOUS
  <1>3. g[0] = <<>> /\ \A i \in 1 .. n : g[i] = Followed(g[i - 1], mark, parts[i])
    <2>1. JoinedBy(Joined(parts, mark), parts, mark)
      BY JoinedSteps
    <2> QED
      BY <1>1, <1>2, <2>1 DEF JoinedBy
  <1>4. h[0] = <<>> /\ \A i \in 1 .. k : h[i] = Followed(h[i - 1], mark, more[i])
    <2>1. JoinedBy(Joined(more, mark), more, mark)
      BY JoinedSteps
    <2> QED
      BY <1>1, <1>2, <2>1 DEF JoinedBy
  <1>5. \A i \in 1 .. n : h[i] = Followed(h[i - 1], mark, parts[i])
    <2>1. ASSUME NEW i \in 1 .. n PROVE h[i] = Followed(h[i - 1], mark, parts[i])
      <3>1. i \in 1 .. k
        BY <1>1
      <3>2. more[i] = parts[i]
        BY <1>1
      <3> QED
        BY <1>4, <3>1, <3>2, Zenon
    <2> QED
      BY <2>1
  <1> DEFINE P == {i \in 0 .. n : g[i] = h[i]}
  <1>6. 0 \in P
    BY <1>1, <1>3, <1>4
  <1>7. ASSUME NEW i \in 1 .. n, i - 1 \in P PROVE i \in P
    <2>1. g[i] = h[i]
      BY <1>3, <1>5, <1>7
    <2> QED
      BY <1>1, <2>1
  <1>8. PICK Q : Q = P
    OBVIOUS
  <1>9. \A i \in 0 .. n : i \in Q
    <2>1. 0 \in Q /\ \A i \in 1 .. n : i - 1 \in Q => i \in Q
      BY <1>6, <1>7, <1>8
    <2> QED
      BY <1>1, <2>1, UpTo
  <1>10. n \in P
    BY <1>1, <1>8, <1>9
  <1> QED
    BY <1>1, <1>2, <1>10

\* One part more, and no mark
JoinsOneMore(parts, more) == Join(more, <<>>) = Join(parts, <<>>) \o more[Len(more)]

LEMMA JoinedTyped ==
    ASSUME NEW S, NEW parts \in Seq(Seq(S)), NEW mark \in Seq(S)
    PROVE  Joined(parts, mark) \in [0 .. Len(parts) -> Seq(S)]
  BY JoinedIs

LEMMA JoinIsText ==
    ASSUME NEW S, NEW parts \in Seq(Seq(S)), NEW mark \in Seq(S)
    PROVE  Joined(parts, mark)[Len(parts)] \in Seq(S)
  <1>1. PICK n \in Nat : n = Len(parts)
    OBVIOUS
  <1>2. PICK g, T : g = Joined(parts, mark) /\ T = Seq(S)
    OBVIOUS
  <1>3. g \in [0 .. n -> T]
    BY <1>1, <1>2, JoinedTyped
  <1>4. g[n] \in T
    BY <1>3
  <1> QED
    BY <1>1, <1>2, <1>4, Zenon

LEMMA JoinMore ==
    ASSUME NEW S, NEW parts \in Seq(Seq(S)), NEW more \in Seq(Seq(S)),
           Len(more) = Len(parts) + 1, \A i \in 1 .. Len(parts) : more[i] = parts[i]
    PROVE  JoinsOneMore(parts, more) /\ Join(parts, <<>>) \in Seq(S)
  <1>1. PICK none \in Seq(S) : none = <<>>
    <2>1. <<>> \in Seq(S)
      OBVIOUS
    <2> QED
      BY <2>1
  <1>2. PICK n \in Nat : n = Len(parts) /\ n + 1 = Len(more)
    <2>1. Len(parts) \in Nat
      OBVIOUS
    <2> QED
      BY <2>1
  <1>3. PICK before \in Seq(S) : before = Joined(parts, none)[n]
    <2>1. Joined(parts, none)[Len(parts)] \in Seq(S)
      BY JoinIsText
    <2> QED
      BY <1>2, <2>1, Zenon
  <1>4. PICK part \in Seq(S) : part = more[n + 1]
    BY <1>2
  <1>5. Joined(more, none)[n + 1] = Followed(Joined(more, none)[(n + 1) - 1], none, part)
    <2>1. JoinedBy(Joined(more, none), more, none)
      BY JoinedSteps
    <2> QED
      BY <1>2, <1>4, <2>1 DEF JoinedBy
  <1>6. Joined(more, none)[n] = before
    <2>1. Len(parts) <= Len(more)
      BY <1>2
    <2> QED
      BY <1>2, <1>3, <2>1, JoinedAgree
  <1>7. Followed(before, none, part) = before \o part
    <2>1. before \o none = before
      BY <1>1, ConcatEmptySeq
    <2> QED
      BY <2>1 DEF Followed
  <1>8. Joined(more, none)[n + 1] = before \o part
    BY <1>2, <1>5, <1>6, <1>7
  <1> QED
    BY <1>1, <1>2, <1>3, <1>4, <1>8 DEF JoinsOneMore, Join

LEMMA JoinNothing == Join(<<>>, <<>>) = <<>>
  <1>1. <<>> \in Seq(Seq(STRING)) /\ <<>> \in Seq(STRING) /\ Len(<<>>) = 0
    OBVIOUS
  <1>2. PICK parts \in Seq(Seq(STRING)), mark \in Seq(STRING) : parts = <<>> /\ mark = <<>>
    BY <1>1
  <1>3. JoinedBy(Joined(parts, mark), parts, mark)
    BY JoinedSteps
  <1> QED
    BY <1>1, <1>2, <1>3 DEF Join, JoinedBy

\* Nobody writes the memory: texts stay.
LEMMA SameTexts ==
    ASSUME mem' = mem
    PROVE  /\ \A t : TextOf(t)' = TextOf(t)
           /\ \A t : TokenText(t)' = TokenText(t)
           /\ \A w : TokenTexts(w)' = TokenTexts(w)
  <1>1. \A t : TextOf(t)' = TextOf(t)
    BY Zenon DEF TextOf, ValueText
  <1>2. \A t : TokenText(t)' = TokenText(t)
    BY <1>1, Zenon DEF TokenText
  <1>3. \A w : TokenTexts(w)' = TokenTexts(w)
    BY <1>2, Zenon DEF TokenTexts
  <1> QED
    BY <1>1, <1>2, <1>3

\* One token more
LEMMA TextsOfMore ==
    ASSUME NEW w \in Doc, NEW t \in AnyToken, TokenTexts(w) \in Seq(Seq(STRING)),
           TokenText(t) \in Seq(STRING)
    PROVE  /\ TokenTexts(w \o <<t>>) \in Seq(Seq(STRING))
           /\ JoinsOneMore(TokenTexts(w), TokenTexts(w \o <<t>>))
           /\ TokenTexts(w \o <<t>>)[Len(TokenTexts(w \o <<t>>))] = TokenText(t)
           /\ w \o <<t>> \in Doc
  <1>1. PICK v \in Doc : v = w \o <<t>>
    <2>1. <<t>> \in Seq(AnyToken)
      OBVIOUS
    <2>2. w \o <<t>> \in Seq(AnyToken)
      BY <2>1 DEF Doc
    <2> QED
      BY <2>2 DEF Doc
  <1>2. PICK n \in Nat : n = Len(w)
    BY DEF Doc
  <1>3. DOMAIN w = 1 .. n /\ DOMAIN v = 1 .. n + 1 /\ v[n + 1] = t /\ \A i \in 1 .. n : v[i] = w[i]
    BY <1>1, <1>2 DEF Doc
  <1>4. PICK a : a = TokenTexts(w)
    OBVIOUS
  <1>5. PICK b : b = TokenTexts(v)
    OBVIOUS
  <1>6. PICK T : T = Seq(STRING)
    OBVIOUS
  <1>7. PICK text \in T : text = TokenText(t)
    BY <1>6
  <1>8. a \in Seq(T) /\ Len(a) = n /\ \A i \in 1 .. n : a[i] = TokenText(w[i])
    <2>1. a = [i \in 1 .. n |-> TokenText(w[i])]
      BY <1>3, <1>4, Zenon DEF TokenTexts
    <2>2. a \in Seq(T)
      BY <1>4, <1>6
    <2>3. DOMAIN a = 1 .. n /\ DOMAIN a = 1 .. Len(a) /\ Len(a) \in Nat
      BY <2>1, <2>2
    <2>4. Len(a) = n
      BY <1>2, <2>3
    <2> QED
      BY <2>1, <2>2, <2>4
  <1>9. DOMAIN b = 1 .. n + 1 /\ b[n + 1] = text /\ \A i \in 1 .. n : b[i] = a[i]
    <2>1. b = [i \in 1 .. n + 1 |-> TokenText(v[i])]
      BY <1>3, <1>5, Zenon DEF TokenTexts
    <2>2. DOMAIN b = 1 .. n + 1 /\ \A i \in 1 .. n + 1 : b[i] = TokenText(v[i])
      BY <2>1
    <2>3. b[n + 1] = text
      BY <1>3, <1>7, <2>2
    <2>4. ASSUME NEW i \in 1 .. n PROVE b[i] = a[i]
      BY <1>3, <1>8, <2>2
    <2> QED
      BY <2>2, <2>3, <2>4
  <1>10. b \in Seq(T) /\ Len(b) = n + 1
    <2>1. \A i \in 1 .. n : a[i] \in T
      BY <1>8
    <2>2. ASSUME NEW i \in 1 .. n + 1 PROVE b[i] \in T
      <3>1. CASE i = n + 1
        BY <1>7, <1>9, <3>1
      <3>2. CASE i # n + 1
        <4>1. i \in 1 .. n
          BY <3>2
        <4> QED
          BY <1>9, <2>1, <4>1
      <3> QED
        BY <3>1, <3>2
    <2>3. b = [i \in 1 .. n + 1 |-> b[i]]
      <3>1. b = [i \in 1 .. n + 1 |-> TokenText(v[i])]
        BY <1>3, <1>5, Zenon DEF TokenTexts
      <3> QED
        BY <3>1
    <2>4. b \in [1 .. n + 1 -> T]
      BY <2>2, <2>3
    <2>5. n + 1 \in Nat
      OBVIOUS
    <2> QED
      BY <2>4, <2>5, SeqOfItems
  <1>11. JoinsOneMore(a, b)
    <2>1. a \in Seq(Seq(STRING)) /\ b \in Seq(Seq(STRING))
      BY <1>6, <1>8, <1>10
    <2>2. Len(b) = Len(a) + 1 /\ \A i \in 1 .. Len(a) : b[i] = a[i]
      BY <1>8, <1>9, <1>10
    <2> QED
      BY <2>1, <2>2, JoinMore
  <1>12. TokenTexts(v) \in Seq(Seq(STRING))
    BY <1>5, <1>6, <1>10
  <1>13. JoinsOneMore(TokenTexts(w), TokenTexts(v))
    BY <1>4, <1>5, <1>11
  <1>14. TokenTexts(v)[Len(TokenTexts(v))] = TokenText(t)
    BY <1>5, <1>7, <1>9, <1>10
  <1> QED
    BY <1>1, <1>12, <1>13, <1>14

\* The characters of a text, and one more
LEMMA CharsMore ==
    ASSUME NEW m, NEW start \in Int, NEW n \in Nat,
           \A a \in start .. start + n : Escaped(m[a]) \in Seq(STRING)
    PROVE  /\ JoinsOneMore(Chars(m, start, n), Chars(m, start, n + 1))
           /\ Chars(m, start, n + 1)[Len(Chars(m, start, n + 1))] = Escaped(m[start + n])
           /\ Join(Chars(m, start, n), <<>>) \in Seq(STRING)
           /\ Join(Chars(m, start, n + 1), <<>>) \in Seq(STRING)
  <1>1. PICK T : T = Seq(STRING)
    OBVIOUS
  <1>2. PICK a : a = Chars(m, start, n)
    OBVIOUS
  <1>3. PICK b : b = Chars(m, start, n + 1)
    OBVIOUS
  <1>4. PICK text : text = [x \in start .. start + n |-> Escaped(m[x])]
    OBVIOUS
  <1>5. \A x \in start .. start + n : text[x] = Escaped(m[x]) /\ text[x] \in T
    BY <1>1, <1>4
  <1>6. a \in [1 .. n -> T] /\ \A i \in 1 .. n : a[i] = text[start + i - 1]
    <2>1. \A i \in 1 .. n : start + i - 1 \in start .. start + n
      OBVIOUS
    <2>2. a = [i \in 1 .. n |-> Escaped(m[start + i - 1])]
      BY <1>2, Zenon DEF Chars
    <2> QED
      BY <1>5, <2>1, <2>2
  <1>7. b \in [1 .. n + 1 -> T] /\ \A i \in 1 .. n + 1 : b[i] = text[start + i - 1]
    <2>1. \A i \in 1 .. n + 1 : start + i - 1 \in start .. start + n
      OBVIOUS
    <2>2. b = [i \in 1 .. n + 1 |-> Escaped(m[start + i - 1])]
      BY <1>3, Zenon DEF Chars
    <2> QED
      BY <1>5, <2>1, <2>2
  <1>8. a \in Seq(T) /\ Len(a) = n
    BY <1>6, SeqOfItems
  <1>9. b \in Seq(T) /\ Len(b) = n + 1
    <2>1. n + 1 \in Nat
      OBVIOUS
    <2> QED
      BY <1>7, <2>1, SeqOfItems
  <1>10. Len(b) = Len(a) + 1 /\ \A i \in 1 .. Len(a) : b[i] = a[i]
    <2>1. \A i \in 1 .. n : i \in 1 .. n + 1
      OBVIOUS
    <2> QED
      BY <1>6, <1>7, <1>8, <1>9, <2>1
  <1>11. a \in Seq(Seq(STRING)) /\ b \in Seq(Seq(STRING))
    BY <1>1, <1>8, <1>9
  <1>12. JoinsOneMore(a, b) /\ Join(a, <<>>) \in Seq(STRING)
    BY <1>10, <1>11, JoinMore
  <1>13. Join(b, <<>>) \in Seq(STRING)
    <2>1. PICK none \in Seq(STRING) : none = <<>>
      <3>1. <<>> \in Seq(STRING)
        OBVIOUS
      <3> QED
        BY <3>1
    <2>2. Joined(b, none)[Len(b)] \in Seq(STRING)
      BY <1>11, JoinIsText
    <2> QED
      BY <2>1, <2>2, Zenon DEF Join
  <1>14. b[Len(b)] = Escaped(m[start + n])
    <2>1. n + 1 \in 1 .. n + 1 /\ start + (n + 1) - 1 = start + n /\ start + n \in start .. start + n
      OBVIOUS
    <2> QED
      BY <1>5, <1>7, <1>9, <2>1
  <1>15. JoinsOneMore(Chars(m, start, n), Chars(m, start, n + 1))
    BY <1>2, <1>3, <1>12, Zenon
  <1>16. Chars(m, start, n + 1)[Len(Chars(m, start, n + 1))] = Escaped(m[start + n])
    BY <1>3, <1>14, Zenon
  <1> QED
    BY <1>2, <1>3, <1>12, <1>13, <1>15, <1>16, Zenon

LEMMA NoChars ==
    ASSUME NEW m, NEW start
    PROVE  Join(Chars(m, start, 0), <<>>) = <<>>
  <1>1. PICK a : a = Chars(m, start, 0)
    OBVIOUS
  <1>2. a = [i \in 1 .. 0 |-> Escaped(m[start + i - 1])]
    BY <1>1, Zenon DEF Chars
  <1>3. a = <<>>
    BY <1>2
  <1> QED
    BY <1>1, <1>3, JoinNothing, Zenon

\* A text ends at its first NUL.
LEMMA LengthIs ==
    ASSUME NEW m, NEW start \in Int, NEW n \in 0 .. Top, Top \in Nat, m[start + n] = 0,
           \A i \in 0 .. n - 1 : m[start + i] # 0
    PROVE  StringLength(m, start) = n
  <1>1. n \in 0 .. Top /\ m[start + n] = 0 /\ \A i \in 0 .. n - 1 : m[start + i] # 0
    OBVIOUS
  <1>2. ASSUME NEW k \in 0 .. Top, m[start + k] = 0, \A i \in 0 .. k - 1 : m[start + i] # 0
        PROVE  k = n
    <2>1. ~(k < n)
      BY <1>1, <1>2
    <2>2. ~(n < k)
      BY <1>1, <1>2
    <2> QED
      BY <2>1, <2>2
  <1>3. PICK k \in 0 .. Top : /\ k = StringLength(m, start)
                              /\ m[start + k] = 0 /\ \A i \in 0 .. k - 1 : m[start + i] # 0
    BY <1>1, Zenon DEF StringLength
  <1> QED
    BY <1>2, <1>3

-----------------------------------------------------------------------------
(* What has been passed to the callback                                    *)

\* What has been passed of the string at start when p is its next character
Begun(m, start, p) ==
    IF p = NULL THEN <<>> ELSE <<"'">> \o Join(Chars(m, start, p - start), <<>>)

\* The tokens w have been passed and then begun; those that wait follow them.
Streamed(w, texts, begun, o, p, s) ==
    /\ o = w \o p
    /\ texts \in Seq(Seq(STRING))
    /\ s = Join(texts, <<>>) \o begun

\* Between the traversal and the buffer: a buffer with room, the texts of the
\* tokens that do not wait, and of the string being written its beginning,
\* in which there is no NUL.
TextInv ==
    /\ asked # <<>> => ctx.capacity # 0
    /\ asked # <<>> /\ phase = "idle" => pending = <<>> /\ stack = <<>>
    /\ chr # NULL => /\ chr >= token[2]
                     /\ \A a \in token[2] .. chr - 1 : a \in Addr /\ mem[a] # 0
    /\ \E w \in Doc :
          Streamed(w, TokenTexts(w), Begun(mem, token[2], chr), out, pending, ctx.stream)

\* A piece reaches the stream whole, when it is passed as it is or fits.
LEMMA RawStream ==
    ASSUME NEW c \in Context, NEW piece \in Seq(STRING)
    PROVE  /\ WriteRaw(c, piece).stream = c.stream \o piece
           /\ WriteRaw(c, piece).capacity = c.capacity
           /\ Len(piece) < Scratch => WriteFormatted(c, piece) = WriteRaw(c, piece)
  <1>1. /\ write_cb(c, piece).stream = c.stream \o piece
        /\ write_cb(c, piece).capacity = c.capacity
        /\ write_cb(c, piece) \in [{"buf", "capacity", "offset", "stream", "meant"} ->
              {write_cb(c, piece)[x] : x \in {"buf", "capacity", "offset", "stream", "meant"}}]
    BY DEF write_cb, Context
  <1>2. PICK d : d = write_cb(c, piece)
    OBVIOUS
  <1>3. WriteRaw(c, piece) = [d EXCEPT !.meant = @ \o piece]
    BY <1>2 DEF WriteRaw
  <1>4. Len(piece) < Scratch => WriteFormatted(c, piece) = [d EXCEPT !.meant = @ \o piece]
    BY <1>2 DEF WriteFormatted
  <1>5. /\ [d EXCEPT !.meant = @ \o piece].stream = d.stream
        /\ [d EXCEPT !.meant = @ \o piece].capacity = d.capacity
    BY <1>1, <1>2
  <1> QED
    BY <1>1, <1>2, <1>3, <1>4, <1>5

\* No formatted piece is longer than three words.
LEMMA TextIsShort ==
    ASSUME NEW t \in AnyToken, t[1] \notin {"string", "custom"}
    PROVE  \E x, y, z : TextOf(t) = <<x>> \/ TextOf(t) = <<x, y, z>>
  <1>1. CASE t[1] = "key" \/ t[1] = "unsupported" \/ t[1] = "schema"
    <2>1. PICK what : what = t[2]
      OBVIOUS
    <2>2. \E x, z : TextOf(t) = <<x, what, z>>
      BY <1>1, <2>1 DEF TextOf
    <2> QED
      BY <2>2
  <1>2. CASE t[1] = "value"
    <2>1. PICK cell : cell = Shown[mem[t[2]]]
      OBVIOUS
    <2>2. TextOf(t) = <<cell>> \/ \E x : TextOf(t) = <<x, cell, x>>
      BY <1>2, <2>1 DEF TextOf, ValueText
    <2> QED
      BY <2>2
  <1>3. CASE t[1] = "name"
    <2>1. PICK what : what = t[2]
      OBVIOUS
    <2>2. TextOf(t) = <<what>> \/ \E x : TextOf(t) = <<x, what, x>>
      BY <1>3, <2>1 DEF TextOf
    <2> QED
      BY <2>2
  <1>4. CASE t[1] \notin {"key", "unsupported", "schema", "value", "name"}
    <2>1. TextOf(t) = <<t[1]>>
      BY <1>4 DEF TextOf
    <2> QED
      BY <2>1
  <1> QED
    BY <1>1, <1>2, <1>3, <1>4

LEMMA TextFits ==
    ASSUME PiecesFit, NEW t \in AnyToken, t[1] \notin {"string", "custom"}
    PROVE  Len(TextOf(t)) < Scratch
  <1>1. PICK x, y, z : TextOf(t) = <<x>> \/ TextOf(t) = <<x, y, z>>
    BY TextIsShort
  <1>2. PICK n \in Nat : n = Scratch /\ n > 3
    BY BufferAssumption DEF BufferAssumption, PiecesFit
  <1>3. Len(<<x>>) = 1 /\ Len(<<x, y, z>>) = 3
    OBVIOUS
  <1>4. PICK text : text = TextOf(t)
    OBVIOUS
  <1>5. Len(text) = 1 \/ Len(text) = 3
    BY <1>1, <1>3, <1>4
  <1>6. Len(text) < n
    <2>1. PICK k : k = Len(text)
      OBVIOUS
    <2>2. k \in {1, 3}
      BY <1>5, <2>1
    <2>3. k < n
      BY <1>2, <2>2
    <2> QED
      BY <2>1, <2>3
  <1> QED
    BY <1>2, <1>4, <1>6, Zenon

LEMMA TextGrouping ==
    \A a, b, c \in Seq(STRING) : (a \o b) \o c = a \o (b \o c) /\ a \o b \in Seq(STRING)
  <1> TAKE a, b, c \in Seq(STRING)
  <1> QED
    BY Grouping

LEMMA NextBehind ==
    ASSUME NEW w \in Doc, NEW p \in Doc, p # <<>>
    PROVE  w \o p = (w \o <<Head(p)>>) \o Tail(p)
  <1>1. Head(p) \in AnyToken /\ Tail(p) \in Doc
    BY DEF Doc
  <1>2. PICK h \in AnyToken, rest \in Doc : h = Head(p) /\ rest = Tail(p)
    BY <1>1
  <1>3. p = <<h>> \o rest
    BY <1>2 DEF Doc
  <1>4. <<h>> \in Doc
    BY DEF Doc
  <1>5. (w \o <<h>>) \o rest = w \o (<<h>> \o rest)
    BY <1>4, Grouping DEF Doc
  <1> QED
    BY <1>2, <1>3, <1>5

LEMMA TextsJoined ==
    ASSUME NEW texts \in Seq(Seq(STRING))
    PROVE  Join(texts, <<>>) \in Seq(STRING)
  <1>1. PICK none \in Seq(STRING) : none = <<>>
    <2>1. <<>> \in Seq(STRING)
      OBVIOUS
    <2> QED
      BY <2>1
  <1>2. Joined(texts, none)[Len(texts)] \in Seq(STRING)
    BY JoinIsText
  <1> QED
    BY <1>1, <1>2, Zenon DEF Join

\* A token has been passed when its last piece is.
LEMMA TokenPassed ==
    ASSUME JsonInv, TextInv, pending # <<>>, NEW w \in Doc,
           NEW begun \in Seq(STRING), NEW piece \in Seq(STRING),
           Streamed(w, TokenTexts(w), begun, out, pending, ctx.stream),
           begun \o piece = TokenText(token),
           ctx'.stream = ctx.stream \o piece, ctx'.capacity = ctx.capacity,
           pending' = Tail(pending), chr' = NULL, UNCHANGED <<vars, phase>>
    PROVE  TextInv'
  <1>1. mem' = mem /\ out' = out /\ asked' = asked /\ stack' = stack /\ phase' = phase
    BY DEF vars
  <1>2. phase = "open" /\ token \in AnyToken
    BY NextToken
  <1>3. PICK t \in AnyToken : t = token
    BY <1>2
  <1>4. PICK text \in Seq(STRING) : text = begun \o piece
    BY Grouping
  <1>5. TokenText(t) = text
    BY <1>3, <1>4
  <1>6. PICK v : v = w \o <<t>>
    OBVIOUS
  <1>7. PICK texts \in Seq(Seq(STRING)) : texts = TokenTexts(w)
    BY DEF Streamed
  <1>8. /\ v \in Doc /\ TokenTexts(v) \in Seq(Seq(STRING))
        /\ JoinsOneMore(texts, TokenTexts(v)) /\ TokenTexts(v)[Len(TokenTexts(v))] = text
    BY <1>5, <1>6, <1>7, TextsOfMore
  <1>9. PICK joined : joined = Join(texts, <<>>)
    OBVIOUS
  <1>10. Join(TokenTexts(v), <<>>) = joined \o text
    BY <1>8, <1>9, Zenon DEF JoinsOneMore
  <1>11. joined \in Seq(STRING)
    BY <1>7, <1>8, <1>9, TextsJoined
  <1>12. ctx'.stream = joined \o text
    <2>1. ctx.stream = joined \o begun
      BY <1>7, <1>9 DEF Streamed
    <2>2. (joined \o begun) \o piece = joined \o (begun \o piece)
      BY <1>11, TextGrouping, Zenon
    <2>3. (joined \o begun) \o piece = joined \o text
      BY <1>4, <2>2, Zenon
    <2>4. ctx.stream \o piece = (joined \o begun) \o piece
      BY <2>1, Zenon
    <2> QED
      BY <2>3, <2>4, Zenon
  <1>13. out = v \o Tail(pending)
    <2>1. pending \in Doc
      BY DEF JsonInv, Doc
    <2> QED
      BY <1>3, <1>6, <2>1, NextBehind DEF Streamed, token
  <1>14. TokenTexts(v)' = TokenTexts(v)
    BY <1>1, SameTexts
  <1>15. Join(TokenTexts(v), <<>>) \o <<>> = Join(TokenTexts(v), <<>>)
    <2>1. joined \o text \in Seq(STRING)
      BY <1>11, Grouping
    <2> QED
      BY <1>10, <2>1, ConcatEmptySeq
  <1>16. Streamed(v, TokenTexts(v), <<>>, out', pending', ctx'.stream)
    BY <1>1, <1>8, <1>10, <1>12, <1>13, <1>15 DEF Streamed
  <1>17. Begun(mem', token'[2], chr') = <<>>
    BY DEF Begun
  <1>18. Streamed(v, TokenTexts(v)', Begun(mem', token'[2], chr'), out', pending', ctx'.stream)
    BY <1>14, <1>16, <1>17
  <1> QED
    BY <1>1, <1>2, <1>8, <1>18 DEF TextInv

\* Steps that pass nothing and whose tokens, if any, join those that wait
LEMMA NothingPassed ==
    ASSUME TextInv, chr = NULL, chr' = NULL, mem' = mem, ctx'.stream = ctx.stream,
           asked' # <<>> => ctx'.capacity # 0,
           asked' # <<>> /\ phase' = "idle" => pending' = <<>> /\ stack' = <<>>,
           \A w \in Doc : out = w \o pending => out' = w \o pending'
    PROVE  TextInv'
  <1>1. PICK w \in Doc :
            Streamed(w, TokenTexts(w), Begun(mem, token[2], chr), out, pending, ctx.stream)
    BY DEF TextInv
  <1>2. Begun(mem, token[2], chr) = <<>> /\ Begun(mem', token'[2], chr') = <<>>
    BY DEF Begun
  <1>3. TokenTexts(w)' = TokenTexts(w)
    BY SameTexts
  <1>4. Streamed(w, TokenTexts(w), <<>>, out', pending', ctx'.stream)
    BY <1>1, <1>2 DEF Streamed
  <1>5. Streamed(w, TokenTexts(w)', Begun(mem', token'[2], chr'), out', pending', ctx'.stream)
    BY <1>2, <1>3, <1>4
  <1> QED
    BY <1>5 DEF TextInv

LEMMA InitText == JsonInit => TextInv
  <1> SUFFICES ASSUME JsonInit PROVE TextInv
    OBVIOUS
  <1>1. /\ asked = <<>> /\ out = <<>> /\ pending = <<>> /\ chr = NULL /\ ctx.stream = <<>>
    BY DEF JsonInit, Init, BufferInit, Fresh
  <1>2. PICK w \in Doc : w = <<>>
    BY Marks
  <1>3. PICK texts : texts = TokenTexts(w)
    OBVIOUS
  <1>4. texts = <<>>
    BY <1>2, <1>3 DEF TokenTexts
  <1>5. Join(texts, <<>>) = <<>>
    BY <1>4, JoinNothing
  <1>6. out = w \o pending
    BY <1>1, <1>2
  <1>7. texts \in Seq(Seq(STRING))
    <2>1. <<>> \in Seq(Seq(STRING))
      OBVIOUS
    <2> QED
      BY <1>4, <2>1
  <1>8. ctx.stream = Join(texts, <<>>) \o Begun(mem, token[2], chr)
    <2>1. Begun(mem, token[2], chr) = <<>>
      BY <1>1 DEF Begun
    <2>2. <<>> \o <<>> = <<>>
      OBVIOUS
    <2> QED
      BY <1>1, <1>5, <2>1, <2>2
  <1>9. Streamed(w, TokenTexts(w), Begun(mem, token[2], chr), out, pending, ctx.stream)
    BY <1>3, <1>6, <1>7, <1>8 DEF Streamed
  <1> QED
    BY <1>1, <1>9 DEF TextInv

LEMMA CallText ==
    ASSUME JsonInv, TextInv, NEW buflen \in Sizes, to_json(buflen)
    PROVE  TextInv'
  <1>1. /\ asked = <<>> /\ UNCHANGED <<vars, pending, chr>>
        /\ Begin(buflen) \/ Refuse(buflen)
    BY DEF to_json
  <1>2. ctx.stream = <<>> /\ chr = NULL
    BY <1>1 DEF JsonInv
  <1>3. ctx'.stream = <<>>
    BY <1>1, <1>2 DEF Begin, Refuse, Fresh
  <1>4. mem' = mem /\ asked' = <<>> /\ out' = out /\ pending' = pending /\ chr' = NULL
    BY <1>1, <1>2 DEF vars
  <1> QED
    BY <1>2, <1>3, <1>4, NothingPassed

LEMMA AppendedDoc ==
    ASSUME NEW w \in Doc, NEW x \in Doc
    PROVE  SubSeq(w \o x, Len(w) + 1, Len(w \o x)) = x
  <1>1. /\ Len(w) \in Nat /\ Len(x) \in Nat /\ w \o x \in Seq(AnyToken)
        /\ Len(w \o x) = Len(w) + Len(x)
        /\ \A k \in 1 .. Len(x) : (w \o x)[Len(w) + k] = x[k]
    BY ConcatProperties DEF Doc
  <1>2. PICK a \in Nat, b \in Nat : a = Len(w) /\ b = Len(x)
    BY <1>1
  <1>3. PICK whole \in Seq(AnyToken) : whole = w \o x
    BY <1>1
  <1>4. PICK behind \in Seq(AnyToken) : behind = SubSeq(whole, a + 1, a + b)
    <2>1. \A k \in a + 1 .. a + b : whole[k] \in AnyToken
      BY <1>1, <1>2, <1>3
    <2>2. a + 1 \in Int /\ a + b \in Int
      OBVIOUS
    <2> QED
      BY <2>1, <2>2, SubSeqProperties, Zenon
  <1>5. Len(behind) = b /\ \A k \in 1 .. b : behind[k] = whole[a + k]
    BY <1>1, <1>2, <1>3, <1>4
  <1>6. x \in Seq(AnyToken) /\ Len(x) = b /\ \A k \in 1 .. b : x[k] = whole[a + k]
    BY <1>1, <1>2, <1>3 DEF Doc
  <1>7. behind = x
    <2>1. Len(behind) = Len(x) /\ \A k \in 1 .. Len(behind) : behind[k] = x[k]
      BY <1>5, <1>6
    <2> QED
      BY <1>6, <2>1, SeqEqual
  <1>8. Len(w \o x) = a + b /\ Len(w) + 1 = a + 1
    BY <1>1, <1>2
  <1> QED
    BY <1>3, <1>4, <1>7, <1>8, Zenon

\* A step of the traversal appends to what is written.
LEMMA NextGrows ==
    ASSUME WalkInv, Next
    PROVE  OutGrows
  <1>1. out \in Seq(AnyToken) /\ out' \in Seq(AnyToken)
    BY NextWalkInv DEF WalkInv
  <1>2. ASSUME NEW r \in Requests, to_json_stream(r[1], r[2]) PROVE OutGrows
    <2>1. asked = <<>>
      BY <1>2 DEF to_json_stream
    <2>2. PICK a, b \in Seq(AnyToken) : a = out /\ b = out' /\ a = <<>>
      BY <1>1, <2>1 DEF WalkInv
    <2>3. b = a \o b
      BY <2>2, ConcatEmptySeq
    <2>4. out' = out \o b
      BY <2>2, <2>3, Zenon
    <2> QED
      BY <2>4, Zenon DEF OutGrows
  <1>3. CASE SkipMember
    <2>1. PICK a \in Seq(AnyToken) : a = out /\ a = out'
      BY <1>1, <1>3, Zenon DEF SkipMember
    <2>2. PICK b \in Seq(AnyToken) : b = <<>> /\ a \o b = a
      <3>1. <<>> \in Seq(AnyToken)
        OBVIOUS
      <3> QED
        BY <3>1, ConcatEmptySeq
    <2>3. out' = out \o b
      BY <2>1, <2>2, Zenon
    <2> QED
      BY <2>3, Zenon DEF OutGrows
  <1>4. CASE WriteMember
    BY <1>4, MemberWalkInv
  <1>5. CASE WriteElement
    BY <1>5, ElementWalkInv
  <1>6. CASE EndStruct \/ EndArray
    BY <1>6, EndWalkInv
  <1> QED
    BY <1>2, <1>3, <1>4, <1>5, <1>6, Zenon DEF Next

LEMMA TraverseText ==
    ASSUME JsonInv, TextInv, Traverse
    PROVE  TextInv'
  <1>1. /\ phase = "open" /\ pending = <<>> /\ Next /\ UNCHANGED <<bufVars, chr>>
        /\ pending' = SubSeq(out', Len(out) + 1, Len(out'))
    BY DEF Traverse
  <1>2. chr = NULL /\ chr' = NULL /\ phase' = "open" /\ ctx' = ctx /\ ctx.capacity # 0
    BY <1>1 DEF JsonInv, BufInv, bufVars
  <1>3. mem' = mem
    BY <1>1, Zenon DEF Next, to_json_stream, SkipMember, WriteMember, WriteElement,
                       EndStruct, EndArray, Do
  <1>4. PICK x \in Doc : out' = out \o x
    BY <1>1, NextGrows DEF JsonInv, OutGrows, Doc
  <1>5. ASSUME NEW w \in Doc, out = w \o pending PROVE out' = w \o pending'
    <2>1. out = w
      <3>1. w \o <<>> = w
        BY ConcatEmptySeq DEF Doc
      <3> QED
        BY <1>1, <1>5, <3>1, Zenon
    <2>2. SubSeq(w \o x, Len(w) + 1, Len(w \o x)) = x
      BY AppendedDoc
    <2>3. out' = w \o x
      BY <1>4, <2>1, Zenon
    <2>4. pending' = x
      BY <1>1, <2>1, <2>2, <2>3, Zenon
    <2> QED
      BY <1>4, <2>1, <2>4, Zenon
  <1>6. phase' # "idle"
    BY <1>2
  <1> QED
    BY <1>2, <1>3, <1>5, <1>6, NothingPassed

LEMMA ReturnText ==
    ASSUME JsonInv, TextInv, Return
    PROVE  TextInv'
  <1>1. /\ pending = <<>> /\ asked # <<>> /\ stack = <<>> /\ phase = "open"
        /\ ctx' = [ctx EXCEPT !.buf[ctx.offset] = NUL] /\ UNCHANGED <<vars, pending, chr>>
    BY DEF Return, done, End
  <1>2. chr = NULL /\ chr' = NULL /\ ctx \in Context /\ ctx.capacity # 0
    BY <1>1 DEF JsonInv, BufInv
  <1>3. ctx'.stream = ctx.stream /\ ctx'.capacity = ctx.capacity
    BY <1>1, <1>2 DEF Context
  <1>4. mem' = mem /\ out' = out /\ pending' = pending /\ stack' = stack
    BY <1>1 DEF vars
  <1>5. ctx'.capacity # 0 /\ pending' = <<>> /\ stack' = <<>>
    BY <1>1, <1>2, <1>3, <1>4
  <1>6. \A w \in Doc : out = w \o pending => out' = w \o pending'
    BY <1>4
  <1> QED
    BY <1>2, <1>3, <1>4, <1>5, <1>6, NothingPassed

LEMMA Nothing == <<>> \in Seq(STRING) /\ \A s \in Seq(STRING) : <<>> \o s = s /\ s \o <<>> = s
  BY ConcatEmptySeq

\* A token that is one piece
LEMMA WholeToken ==
    ASSUME JsonInv, TextInv, pending # <<>>, chr = NULL, NEW piece \in Seq(STRING),
           piece = TokenText(token), ctx' = WriteRaw(ctx, piece),
           pending' = Tail(pending), chr' = NULL, UNCHANGED <<vars, phase>>
    PROVE  TextInv'
  <1>1. PICK w \in Doc :
            Streamed(w, TokenTexts(w), Begun(mem, token[2], chr), out, pending, ctx.stream)
    BY DEF TextInv
  <1>2. Begun(mem, token[2], chr) = <<>>
    BY DEF Begun
  <1>3. PICK none \in Seq(STRING) : none = <<>> /\ none \o piece = piece
    BY Nothing
  <1>4. Streamed(w, TokenTexts(w), none, out, pending, ctx.stream)
    BY <1>1, <1>2, <1>3
  <1>5. ctx \in Context
    BY DEF JsonInv, BufInv
  <1>6. ctx'.stream = ctx.stream \o piece /\ ctx'.capacity = ctx.capacity
    BY <1>5, RawStream
  <1>7. none \o piece = TokenText(token)
    BY <1>3
  <1> QED
    BY <1>4, <1>6, <1>7, TokenPassed

LEMMA WriteTokenText ==
    ASSUME PiecesFit, JsonInv, TextInv, WriteToken
    PROVE  TextInv'
  <1>1. /\ pending # <<>> /\ token[1] # "string" /\ pending' = Tail(pending) /\ chr' = chr
        /\ UNCHANGED <<vars, phase, answer>>
        /\ ctx' = IF token[1] = "custom" THEN WriteRaw(ctx, <<"serialized">>)
                  ELSE WriteFormatted(ctx, TextOf(token))
    BY DEF WriteToken
  <1>2. chr = NULL
    BY <1>1 DEF JsonInv
  <1>3. token \in AnyToken
    BY <1>1, NextToken
  <1>4. PICK t \in AnyToken : t = token /\ t[1] # "string"
    BY <1>1, <1>3
  <1>5. ctx \in Context
    BY DEF JsonInv, BufInv
  <1>6. PICK piece \in Seq(STRING) : piece = TokenText(t) /\ ctx' = WriteRaw(ctx, piece)
    <2>1. CASE t[1] = "custom"
      <3>1. PICK word \in Literals : word = "serialized"
        BY DEF Literals
      <3>2. <<word>> \in Seq(STRING)
        BY LiteralIsString, Strings
      <3>3. TokenText(t) = <<word>>
        BY <2>1, <3>1 DEF TokenText
      <3>4. ctx' = WriteRaw(ctx, <<word>>)
        BY <1>1, <1>4, <2>1, <3>1
      <3> QED
        BY <3>2, <3>3, <3>4
    <2>2. CASE t[1] # "custom"
      <3>1. PICK text \in Seq(STRING) : text = TextOf(t) /\ Len(text) < Scratch
        BY <1>4, <2>2, TextOfToken, TextFits DEF JsonInv
      <3>2. TokenText(t) = text
        BY <1>4, <2>2, <3>1 DEF TokenText
      <3>3. ctx' = WriteFormatted(ctx, text)
        BY <1>1, <1>4, <2>2, <3>1
      <3>4. WriteFormatted(ctx, text) = WriteRaw(ctx, text)
        BY <1>5, <3>1, RawStream
      <3> QED
        BY <3>2, <3>3, <3>4
    <2> QED
      BY <2>1, <2>2
  <1>7. piece = TokenText(token)
    BY <1>4, <1>6
  <1>8. UNCHANGED <<vars, phase>> /\ chr' = NULL /\ pending # <<>> /\ pending' = Tail(pending)
    BY <1>1, <1>2
  <1> QED
    BY <1>2, <1>6, <1>7, <1>8, WholeToken

LEMMA WriteNullText ==
    ASSUME JsonInv, TextInv, WriteNull
    PROVE  TextInv'
  <1>1. /\ pending # <<>> /\ token[1] = "string" /\ token[2] = NULL
        /\ pending' = Tail(pending) /\ chr' = chr
        /\ UNCHANGED <<vars, phase, answer>> /\ ctx' = WriteRaw(ctx, <<"n", "u", "l", "l">>)
    BY DEF WriteNull, WritingString
  <1>2. chr = NULL
    BY <1>1 DEF JsonInv
  <1>3. PICK piece \in Seq(STRING) : piece = <<"n", "u", "l", "l">>
    BY NullText
  <1>4. TokenText(token) = piece
    BY <1>1, <1>3 DEF TokenText, StringText
  <1>5. ctx' = WriteRaw(ctx, piece)
    BY <1>1, <1>3
  <1>6. UNCHANGED <<vars, phase>> /\ chr' = NULL /\ pending # <<>> /\ pending' = Tail(pending)
    BY <1>1, <1>2
  <1> QED
    BY <1>2, <1>4, <1>5, <1>6, WholeToken

\* A string that has begun goes on.
LEMMA StringGoesOn ==
    ASSUME JsonInv, TextInv, NEW piece \in Seq(STRING),
           NEW begun \in Seq(STRING), begun = Begun(mem, token[2], chr),
           Begun(mem, token[2], chr') = begun \o piece,
           ctx' = WriteRaw(ctx, piece), UNCHANGED <<vars, phase, pending>>,
           pending # <<>>,
           chr' >= token[2] /\ \A a \in token[2] .. chr' - 1 : a \in Addr /\ mem[a] # 0
    PROVE  TextInv'
  <1>1. mem' = mem /\ out' = out /\ asked' = asked /\ phase' = phase /\ token' = token
        /\ pending' = pending /\ stack' = stack
    BY DEF vars, token
  <1>2. PICK w \in Doc :
            Streamed(w, TokenTexts(w), Begun(mem, token[2], chr), out, pending, ctx.stream)
    BY DEF TextInv
  <1>3. ctx \in Context /\ ctx.capacity # 0 /\ phase = "open"
    BY NextToken DEF JsonInv, BufInv
  <1>4. ctx'.stream = ctx.stream \o piece /\ ctx'.capacity = ctx.capacity
    BY <1>3, RawStream
  <1>5. PICK texts \in Seq(Seq(STRING)) : texts = TokenTexts(w)
    BY <1>2 DEF Streamed
  <1>6. PICK joined \in Seq(STRING) : joined = Join(texts, <<>>)
    BY <1>5, TextsJoined
  <1>7. ctx.stream = joined \o begun /\ out = w \o pending
    BY <1>2, <1>5, <1>6 DEF Streamed
  <1>8. (joined \o begun) \o piece = joined \o (begun \o piece)
    BY TextGrouping
  <1>9. ctx'.stream = joined \o (begun \o piece)
    BY <1>4, <1>7, <1>8, Zenon
  <1>10. TokenTexts(w)' = TokenTexts(w)
    BY <1>1, SameTexts
  <1>11. Begun(mem', token'[2], chr') = begun \o piece
    BY <1>1
  <1>12. Streamed(w, TokenTexts(w), begun \o piece, out', pending', ctx'.stream)
    BY <1>1, <1>5, <1>6, <1>7, <1>9 DEF Streamed
  <1>13. Streamed(w, TokenTexts(w)', Begun(mem', token'[2], chr'), out', pending', ctx'.stream)
    BY <1>10, <1>11, <1>12, Zenon
  <1>14. ctx'.capacity # 0 /\ phase' = "open"
    BY <1>1, <1>3, <1>4
  <1>15. chr' >= token'[2] /\ \A a \in token'[2] .. chr' - 1 : a \in Addr /\ mem'[a] # 0
    BY <1>1
  <1> QED
    BY <1>13, <1>14, <1>15 DEF TextInv

LEMMA OpenText ==
    ASSUME JsonInv, TextInv, OpenString
    PROVE  TextInv'
  <1>1. /\ pending # <<>> /\ token[1] = "string" /\ token[2] # NULL /\ chr = NULL
        /\ chr' = token[2] /\ UNCHANGED <<vars, phase, pending>>
        /\ ctx' = WriteRaw(ctx, <<"'">>)
    BY DEF OpenString, WritingString
  <1>2. PICK start \in Int : start = token[2]
    BY <1>1, StringStart
  <1>3. PICK quote \in Seq(STRING) : quote = <<"'">>
    BY QuoteText
  <1>4. PICK none \in Seq(STRING) : none = <<>> /\ none \o quote = quote /\ quote \o none = quote
    BY Nothing
  <1>5. none = Begun(mem, token[2], chr)
    BY <1>1, <1>4 DEF Begun
  <1>6. Begun(mem, token[2], chr') = none \o quote
    <2>1. start - start = 0
      OBVIOUS
    <2>2. Begun(mem, start, start) = quote \o Join(Chars(mem, start, start - start), <<>>)
      BY <1>1, <1>2, <1>3, Zenon DEF Begun
    <2>3. Join(Chars(mem, start, 0), <<>>) = none
      BY <1>4, NoChars
    <2>4. Begun(mem, start, start) = none \o quote
      BY <1>4, <2>1, <2>2, <2>3, Zenon
    <2> QED
      BY <1>1, <1>2, <2>4, Zenon
  <1>7. chr' >= token[2] /\ \A a \in token[2] .. chr' - 1 : a \in Addr /\ mem[a] # 0
    BY <1>1, <1>2
  <1>8. ctx' = WriteRaw(ctx, quote)
    BY <1>1, <1>3
  <1> QED
    BY <1>1, <1>5, <1>6, <1>7, <1>8, StringGoesOn

\* Where the string stands
LEMMA Halfway ==
    ASSUME JsonInv, TextInv, chr # NULL, chr \in Addr
    PROVE  \E start \in Int, n \in Nat :
              /\ start = token[2] /\ chr = start + n /\ n \in 0 .. Top /\ Top \in Nat
              /\ \A a \in start .. start + n : a \in Addr
              /\ \A i \in 0 .. n - 1 : mem[start + i] # 0
  <1>1. pending # <<>> /\ token[1] = "string" /\ token[2] # NULL
    BY DEF JsonInv
  <1>2. PICK start \in Int : start = token[2]
    BY <1>1, StringStart
  <1>3. /\ Top \in Nat /\ chr \in 1 .. Top
    BY LayoutAssumption DEF LayoutAssumption, Addr
  <1>4. chr >= start /\ \A a \in start .. chr - 1 : a \in 1 .. Top /\ mem[a] # 0
    BY <1>2 DEF TextInv, Addr
  <1>5. start # 0
    BY <1>1, <1>2 DEF NULL
  <1>6. start >= 1
    <2>1. CASE start = chr
      BY <1>3, <2>1
    <2>2. CASE start # chr
      <3>1. start \in start .. chr - 1
        BY <1>3, <1>4, <2>2
      <3> QED
        BY <1>4, <3>1
    <2> QED
      BY <2>1, <2>2
  <1>7. PICK n \in Nat : chr = start + n
    <2>1. chr - start \in Nat /\ chr = start + (chr - start)
      BY <1>3, <1>4
    <2> QED
      BY <2>1
  <1>8. n \in 0 .. Top
    BY <1>3, <1>6, <1>7
  <1>9. \A a \in start .. start + n : a \in Addr
    BY <1>3, <1>6, <1>7 DEF Addr
  <1>10. \A i \in 0 .. n - 1 : mem[start + i] # 0
    <2>1. \A i \in 0 .. n - 1 : start + i \in start .. chr - 1
      BY <1>3, <1>7
    <2> QED
      BY <1>4, <2>1
  <1> QED
    BY <1>2, <1>3, <1>7, <1>8, <1>9, <1>10

LEMMA CharText ==
    ASSUME JsonInv, TextInv, WriteChar
    PROVE  TextInv'
  <1>1. /\ chr # NULL /\ chr \in Addr /\ mem[chr] # 0 /\ chr' = chr + 1
        /\ UNCHANGED <<vars, phase, pending>> /\ ctx' = WriteRaw(ctx, Escaped(mem[chr]))
    BY DEF WriteChar
  <1>2. PICK start \in Int, n \in Nat :
              /\ start = token[2] /\ chr = start + n
              /\ \A a \in start .. start + n : a \in Addr
              /\ \A i \in 0 .. n - 1 : mem[start + i] # 0
    BY <1>1, Halfway
  <1>3. pending # <<>>
    BY <1>1 DEF JsonInv
  <1>4. \A a \in start .. start + n : Escaped(mem[a]) \in Seq(STRING)
    BY <1>2, EscapedIsText DEF JsonInv
  <1>5. PICK piece \in Seq(STRING) : piece = Escaped(mem[start + n])
    BY <1>4
  <1>6. PICK quote \in Seq(STRING) : quote = <<"'">>
    BY QuoteText
  <1>7. /\ JoinsOneMore(Chars(mem, start, n), Chars(mem, start, n + 1))
        /\ Chars(mem, start, n + 1)[Len(Chars(mem, start, n + 1))] = piece
        /\ Join(Chars(mem, start, n), <<>>) \in Seq(STRING)
    BY <1>4, <1>5, CharsMore
  <1>8. PICK joined \in Seq(STRING) : joined = Join(Chars(mem, start, n), <<>>)
    BY <1>7
  <1>9. Join(Chars(mem, start, n + 1), <<>>) = joined \o piece
    BY <1>7, <1>8, Zenon DEF JoinsOneMore
  <1>10. PICK begun \in Seq(STRING) : begun = quote \o joined
    BY TextGrouping
  <1>11. begun = Begun(mem, token[2], chr)
    <2>1. (start + n) - start = n
      OBVIOUS
    <2>2. Begun(mem, start, start + n) = quote \o Join(Chars(mem, start, (start + n) - start), <<>>)
      BY <1>1, <1>2, <1>6, Zenon DEF Begun
    <2> QED
      BY <1>2, <1>8, <1>10, <2>1, <2>2, Zenon
  <1>12. Begun(mem, token[2], chr') = begun \o piece
    <2>1. (start + n + 1) - start = n + 1 /\ chr' = start + n + 1
      <3>1. (start + n + 1) - start = n + 1
        OBVIOUS
      <3>2. chr' = start + n + 1
        BY <1>1, <1>2, Zenon
      <3> QED
        BY <3>1, <3>2
    <2>2. start + n + 1 # NULL
      <3>1. start + n \in Addr
        BY <1>1, <1>2
      <3> QED
        BY <3>1, LayoutAssumption DEF LayoutAssumption, Addr, NULL
    <2>3. Begun(mem, start, start + n + 1)
              = quote \o Join(Chars(mem, start, (start + n + 1) - start), <<>>)
      BY <1>6, <2>2, Zenon DEF Begun
    <2>4. (quote \o joined) \o piece = quote \o (joined \o piece)
      BY TextGrouping
    <2>5. Begun(mem, start, start + n + 1) = begun \o piece
      BY <1>9, <1>10, <2>1, <2>3, <2>4, Zenon
    <2> QED
      BY <1>2, <2>1, <2>5, Zenon
  <1>13. chr' >= token[2] /\ \A a \in token[2] .. chr' - 1 : a \in Addr /\ mem[a] # 0
    <2>1. ASSUME NEW a \in start .. start + n PROVE mem[a] # 0
      <3>1. CASE a = start + n
        BY <1>1, <1>2, <3>1
      <3>2. CASE a # start + n
        <4>1. a - start \in 0 .. n - 1 /\ start + (a - start) = a
          BY <3>2
        <4> QED
          BY <1>2, <4>1
      <3> QED
        BY <3>1, <3>2
    <2>2. chr' - 1 = start + n /\ chr' >= start
      BY <1>1, <1>2
    <2> QED
      BY <1>2, <2>1, <2>2
  <1>14. ctx' = WriteRaw(ctx, piece)
    BY <1>1, <1>2, <1>5
  <1> QED
    BY <1>1, <1>3, <1>11, <1>12, <1>13, <1>14, StringGoesOn

LEMMA CloseText ==
    ASSUME JsonInv, TextInv, CloseString
    PROVE  TextInv'
  <1>1. /\ chr # NULL /\ chr \in Addr /\ mem[chr] = 0 /\ chr' = NULL
        /\ pending' = Tail(pending)
        /\ UNCHANGED <<vars, phase>> /\ ctx' = WriteRaw(ctx, <<"'">>)
    BY DEF CloseString
  <1>2. PICK start \in Int, n \in Nat :
              /\ start = token[2] /\ chr = start + n /\ n \in 0 .. Top /\ Top \in Nat
              /\ \A a \in start .. start + n : a \in Addr
              /\ \A i \in 0 .. n - 1 : mem[start + i] # 0
    BY <1>1, Halfway
  <1>3. pending # <<>> /\ token[1] = "string" /\ token[2] # NULL
    BY <1>1 DEF JsonInv
  <1>4. \A a \in start .. start + n : Escaped(mem[a]) \in Seq(STRING)
    BY <1>2, EscapedIsText DEF JsonInv
  <1>5. PICK quote \in Seq(STRING) : quote = <<"'">>
    BY QuoteText
  <1>6. PICK joined \in Seq(STRING) : joined = Join(Chars(mem, start, n), <<>>)
    BY <1>4, CharsMore
  <1>7. PICK begun \in Seq(STRING) : begun = quote \o joined
    BY TextGrouping
  <1>8. begun = Begun(mem, token[2], chr)
    <2>1. (start + n) - start = n
      OBVIOUS
    <2>2. Begun(mem, start, start + n) = quote \o Join(Chars(mem, start, (start + n) - start), <<>>)
      BY <1>1, <1>2, <1>5, Zenon DEF Begun
    <2>3. Begun(mem, token[2], chr) = Begun(mem, start, start + n)
      <3>1. start = token[2] /\ chr = start + n
        BY <1>2
      <3> QED
        BY <3>1, Zenon
    <2>4. Begun(mem, start, start + n) = quote \o Join(Chars(mem, start, n), <<>>)
      BY <2>1, <2>2, Zenon
    <2>5. Begun(mem, token[2], chr) = quote \o joined
      BY <1>6, <2>3, <2>4, Zenon
    <2> QED
      BY <1>7, <2>5, Zenon
  <1>9. begun \o quote = TokenText(token)
    <2>1. StringLength(mem, start) = n
      <3>1. mem[start + n] = 0
        BY <1>1, <1>2
      <3> QED
        BY <1>2, <3>1, LengthIs
    <2>2. StringText(mem, start) = quote \o Join(Chars(mem, start, n), <<>>) \o quote
      BY <1>2, <1>3, <1>5, <2>1, Zenon DEF StringText
    <2>3. TokenText(token) = StringText(mem, start)
      BY <1>2, <1>3 DEF TokenText
    <2> QED
      BY <1>6, <1>7, <2>2, <2>3, Zenon
  <1>10. PICK w \in Doc : Streamed(w, TokenTexts(w), begun, out, pending, ctx.stream)
    BY <1>8 DEF TextInv
  <1>11. ctx \in Context
    BY DEF JsonInv, BufInv
  <1>12. ctx'.stream = ctx.stream \o quote /\ ctx'.capacity = ctx.capacity
    BY <1>1, <1>5, <1>11, RawStream
  <1> QED
    BY <1>1, <1>3, <1>9, <1>10, <1>12, TokenPassed

LEMMA NextText ==
    ASSUME PiecesFit, JsonInv, TextInv, [JsonNext]_jsonVars
    PROVE  TextInv'
  <1>1. CASE UNCHANGED jsonVars
    <2>1. /\ mem' = mem /\ out' = out /\ asked' = asked /\ stack' = stack
          /\ phase' = phase /\ ctx' = ctx /\ pending' = pending /\ chr' = chr /\ token' = token
      BY <1>1 DEF jsonVars, vars, bufVars, token
    <2>2. PICK w \in Doc :
              Streamed(w, TokenTexts(w), Begun(mem, token[2], chr), out, pending, ctx.stream)
      BY DEF TextInv
    <2>3. TokenTexts(w)' = TokenTexts(w)
      BY <2>1, SameTexts
    <2>4. Streamed(w, TokenTexts(w)', Begun(mem', token'[2], chr'), out', pending', ctx'.stream)
      BY <2>1, <2>2, <2>3
    <2> QED
      BY <2>1, <2>4 DEF TextInv
  <1>2. ASSUME NEW buflen \in Sizes, to_json(buflen) PROVE TextInv'
    BY <1>2, CallText
  <1>3. CASE Traverse
    BY <1>3, TraverseText
  <1>4. CASE CallBack
    BY <1>4, WriteTokenText, WriteNullText, OpenText, CharText, CloseText DEF CallBack
  <1>5. CASE Return
    BY <1>5, ReturnText
  <1> QED
    BY <1>1, <1>2, <1>3, <1>4, <1>5 DEF JsonNext

LEMMA ArrivesFromInv ==
    ASSUME JsonInv, TextInv, OutputIsTheDocument
    PROVE  TextArrives
  <1> SUFFICES ASSUME phase = "idle", asked # <<>>
      PROVE  LET text == Join(TokenTexts(Asked), <<>>)
                 kept == Kept(text, ctx.capacity)
             IN  /\ ctx.buf[kept] = NUL
                 /\ \A i \in 0 .. kept - 1 : ctx.buf[i] = text[i + 1]
    BY DEF TextArrives
  <1>1. ctx.capacity # 0 /\ pending = <<>> /\ stack = <<>> /\ chr = NULL
    BY DEF TextInv, JsonInv
  <1>2. out = Asked
    BY <1>1 DEF OutputIsTheDocument
  <1>3. PICK w \in Doc : Streamed(w, TokenTexts(w), Begun(mem, token[2], chr), out, <<>>, ctx.stream)
    BY <1>1 DEF TextInv
  <1>4. Begun(mem, token[2], chr) = <<>>
    BY <1>1 DEF Begun
  <1>5. w = out
    <2>1. w \o <<>> = w
      BY ConcatEmptySeq DEF Doc
    <2> QED
      BY <1>3, <2>1, Zenon DEF Streamed
  <1>6. PICK text \in Seq(STRING) : text = Join(TokenTexts(Asked), <<>>)
    BY <1>2, <1>3, <1>5, TextsJoined DEF Streamed
  <1>7. ctx.stream = text
    <2>1. text \o <<>> = text
      BY Nothing
    <2> QED
      BY <1>2, <1>3, <1>4, <1>5, <1>6, <2>1, Zenon DEF Streamed
  <1>8. Filling(ctx) /\ ctx.buf[ctx.offset] = NUL
    BY <1>1 DEF JsonInv, BufInv
  <1>9. /\ ctx.buf[Kept(text, ctx.capacity)] = NUL
        /\ \A i \in 0 .. Kept(text, ctx.capacity) - 1 : ctx.buf[i] = text[i + 1]
    BY <1>7, <1>8 DEF Filling
  <1> QED
    BY <1>6, <1>9, Zenon

\* What to_json leaves in the buffer is the text of the document of the value
\* asked for, whole or as much of it as fits before a NUL, for all tables,
\* buffers and data without a cycle, when formatted pieces fit scratch.
THEOREM TextIsWritten ==
    ASSUME NoCycles, PiecesFit
    PROVE  JsonSpec => []TextArrives
  <1>1. JsonInit => TextInv
    BY InitText
  <1>2. JsonInv /\ TextInv /\ [JsonNext]_jsonVars => TextInv'
    BY NextText
  <1>3. JsonInv /\ TextInv /\ OutputIsTheDocument => TextArrives
    BY ArrivesFromInv
  <1>4. JsonSpec => []OutputIsTheDocument
    BY DocumentIsWritten
  <1> QED
    BY <1>1, <1>2, <1>3, <1>4, JsonInvariance, PTL DEF JsonSpec
=============================================================================
