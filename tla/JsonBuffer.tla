----------------------------- MODULE JsonBuffer -----------------------------
(***************************************************************************)
(* How JSON text reaches the caller of to_json (plugins/json.py): every    *)
(* piece goes through a write callback, and to_json's callback keeps what  *)
(* fits its buffer.  Formatted pieces pass through a buffer of their own.  *)
(*                                                                         *)
(* What pieces there are is module ToJson's matter: here, any.             *)
(***************************************************************************)
EXTENDS Integers, Sequences

CONSTANTS
    Pieces,     \* the texts that get written: sequences of characters
    Sizes,      \* the buffer sizes callers pass
    BufTop,     \* the memory is 0 .. BufTop, the buffer starts at 0
    Scratch,    \* sizeof scratch in json_write_internal: 128
    SizeMod,    \* size_t counts modulo this
    MaxText,    \* bound of the model: characters of a document
    NUL, Junk   \* '\0', and a byte nobody wrote

ASSUME BufferAssumption ==
    /\ BufTop \in Nat /\ SizeMod \in Nat /\ MaxText \in Nat
    /\ Scratch \in Nat \ {0}
    /\ Sizes \subseteq 0 .. BufTop
    /\ BufTop < SizeMod
    /\ Pieces \subseteq Seq(STRING)

VARIABLES
    phase,      \* "idle", or "open" inside to_json_stream
    ctx,        \* the _cmy_json_fixedbuf_ctx: buf, capacity, offset; beside
                \* them everything passed to the callback (stream), and the
                \* same before json_write_internal cut it (meant)
    answer      \* what to_json returned

bufVars == <<phase, ctx, answer>>

Fresh(buflen) == [buf |-> [a \in 0 .. BufTop |-> Junk], capacity |-> buflen,
                  offset |-> 0, stream |-> <<>>, meant |-> <<>>]

\* Wrong on purpose: no room is left for the NUL.
availableAll(c) == (c.capacity - c.offset) % SizeMod

available(c) == (c.capacity - c.offset - 1) % SizeMod

\* Wrong on purpose: what does not fit whole is left out.
to_writeWhole(c, len) == IF len <= available(c) THEN len ELSE 0

to_write(c, len) == IF len < available(c) THEN len ELSE available(c)

\* _fixed_buf_write_cb on the context c
write_cb(c, chunk) ==
    LET n == to_write(c, Len(chunk))
    IN  [c EXCEPT !.stream = @ \o chunk,
                  !.buf = [a \in DOMAIN c.buf |->
                              IF a \in c.offset .. c.offset + n - 1
                              THEN chunk[a - c.offset + 1] ELSE c.buf[a]],
                  !.offset = (@ + n) % SizeMod]

\* A quote, an escape or a character of a string value
WriteRaw(c, piece) == [write_cb(c, piece) EXCEPT !.meant = @ \o piece]

\* json_write_internal: vsnprintf keeps what fits scratch, and the rest is
\* lost.
WriteFormatted(c, piece) ==
    [write_cb(c, IF Len(piece) < Scratch THEN piece ELSE SubSeq(piece, 1, Scratch - 1))
        EXCEPT !.meant = @ \o piece]

-----------------------------------------------------------------------------
BufferInit ==
    /\ phase = "idle"
    /\ ctx = Fresh(0)
    /\ answer = "OK"

\* to_json up to the call of to_json_stream
Begin(buflen) ==
    /\ phase = "idle"
    /\ buflen # 0
    /\ phase' = "open"
    /\ ctx' = Fresh(buflen)     \* another buffer each time
    /\ UNCHANGED answer

Refuse(buflen) ==
    /\ phase = "idle"
    /\ buflen = 0
    /\ answer' = "NULL_PTR"
    /\ UNCHANGED <<phase, ctx>>

Write(piece) ==
    /\ phase = "open"
    /\ Len(ctx.stream) + Len(piece) <= MaxText
    /\ ctx' \in {WriteRaw(ctx, piece), WriteFormatted(ctx, piece)}
    /\ UNCHANGED <<phase, answer>>

\* Wrong on purpose: the NUL goes to the end of the buffer.
EndAtCapacity ==
    /\ phase = "open"
    /\ phase' = "idle"
    /\ ctx' = [ctx EXCEPT !.buf[ctx.capacity] = NUL]
    /\ answer' = "OK"

\* The end of to_json
End ==
    /\ phase = "open"
    /\ phase' = "idle"
    /\ ctx' = [ctx EXCEPT !.buf[ctx.offset] = NUL]
    /\ answer' = "OK"

BufferNext ==
    \/ \E buflen \in Sizes : Begin(buflen) \/ Refuse(buflen)
    \/ \E piece \in Pieces : Write(piece)
    \/ End

BufferSpec == BufferInit /\ [][BufferNext]_bufVars

-----------------------------------------------------------------------------
(* Properties                                                              *)

\* Sizes are sizes, and the memory is a map of characters.
BufferTypeOK ==
    /\ phase \in {"idle", "open"}
    /\ DOMAIN ctx.buf = 0 .. BufTop
    /\ ctx.capacity \in Sizes \cup {0} /\ ctx.offset \in 0 .. SizeMod - 1
    /\ ctx.stream \in Seq(STRING)

\* The longest beginning of the text that fits, followed by a NUL
Kept(text, capacity) ==
    IF Len(text) < capacity THEN Len(text) ELSE capacity - 1

\* However the text is cut into pieces, the buffer holds its beginning, as
\* much as fits before a NUL: no piece is kept after one that was cut.
HoldsThePrefix ==
    ctx.capacity # 0 =>
        /\ ctx.offset = Kept(ctx.stream, ctx.capacity)
        /\ \A i \in 0 .. ctx.offset - 1 :
              ctx.buf[i] = ctx.stream[i + 1]

\* Nothing is written behind the buffer, and when to_json returns the text
\* in it ends with a NUL.
StaysInside ==
    /\ \A a \in 0 .. BufTop : a >= ctx.capacity => ctx.buf[a] = Junk
    /\ phase = "idle" /\ ctx.capacity # 0 =>
          ctx.offset < ctx.capacity /\ ctx.buf[ctx.offset] = NUL

\* plugins/README.md, "Serializes a raw value into valid JSON": the text is
\* not altered on its way to the callback.
TextIsWhole == ctx.stream = ctx.meant
=============================================================================
