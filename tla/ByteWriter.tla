----------------------------- MODULE ByteWriter -----------------------------
(***************************************************************************)
(* runtime/writer.c: the destinations of serialized images, a channel or   *)
(* the buffer of a Tcl byte array, and the writers of numbers on top.      *)
(*                                                                         *)
(* A byte is a number 0 .. 255.  A writer is a record: its kind, the bytes *)
(* it holds, the position it writes at (from 0), how many bytes are used,  *)
(* and the byte array handed out at the end.  The bytes of a channel are   *)
(* the file; those of a byte array fill its buffer, which can be larger    *)
(* than what is used and whose cells are Undefined until written.          *)
(***************************************************************************)
EXTENDS Integers, Sequences, SequencesExt

Undefined == -1

AKTIVE_WRITE_END  == -1
AKTIVE_WRITE_HERE == AKTIVE_WRITE_END
AKTIVE_WRITE_DONE == -2

(* The bytes `new` written over `old` at a position; `gap` is what is found
   between the end of `old` and the beginning of `new`. *)
Overwrite(old, new, pos, gap) ==
    [i \in 1 .. IF pos + Len(new) > Len(old) THEN pos + Len(new) ELSE Len(old) |->
        IF i \in pos + 1 .. pos + Len(new) THEN new[i - pos]
        ELSE IF i <= Len(old) THEN old[i] ELSE gap]

aktive_write_channel ==
    [kind |-> "channel", bytes |-> << >>, pos |-> 0, used |-> 0, out |-> << >>]

aktive_write_bytearray ==
    [kind |-> "bytearray", bytes |-> << >>, pos |-> 0, used |-> 0, out |-> << >>]

(* A file is extended with zeros when written past its end. *)
aktive_writer_to_channel(w, buf, pos) ==
    LET at == IF pos # AKTIVE_WRITE_END THEN pos
              ELSE IF buf = << >> THEN Len(w.bytes) ELSE w.pos
        bytes == IF buf = << >> THEN w.bytes ELSE Overwrite(w.bytes, buf, at, 0)
    IN  IF pos = AKTIVE_WRITE_DONE THEN [w EXCEPT !.out = w.bytes]
        ELSE [w EXCEPT !.bytes = bytes, !.pos = at + Len(buf), !.used = Len(bytes)]

(* A faulty form of Grow, which forgets what was written. *)
GrowAfresh(bytes, size) == [i \in 1 .. size |-> Undefined]

(* The buffer is reallocated with its contents and more behind them. *)
Grow(bytes, size) == [i \in 1 .. size |-> IF i <= Len(bytes) THEN bytes[i] ELSE Undefined]

Used(used, pos) == IF pos > used THEN pos ELSE used

aktive_writer_to_bytearray(w, buf, pos) ==
    LET at == IF pos # AKTIVE_WRITE_END THEN pos
              ELSE IF buf = << >> THEN Len(w.bytes) ELSE w.pos
        end == at + Len(buf)
        room == IF end > Len(w.bytes) /\ buf # << >> THEN Grow(w.bytes, 2 * end) ELSE w.bytes
    IN  IF pos = AKTIVE_WRITE_DONE THEN [w EXCEPT !.out = SubSeq(w.bytes, 1, w.used)]
        ELSE IF buf = << >> THEN [w EXCEPT !.pos = at]
        ELSE [w EXCEPT !.bytes = Overwrite(room, buf, at, Undefined), !.pos = end,
                       !.used = Used(@, end)]

Write(w, buf, pos) == IF w.kind = "channel" THEN aktive_writer_to_channel(w, buf, pos)
                      ELSE aktive_writer_to_bytearray(w, buf, pos)

aktive_write_here(w, buf)    == Write(w, buf, AKTIVE_WRITE_HERE)
aktive_write_at(w, buf, pos) == Write(w, buf, pos)
aktive_write_goto(w, pos)    == Write(w, << >>, pos)
aktive_write_done(w)         == Write(w, << >>, AKTIVE_WRITE_DONE)

-----------------------------------------------------------------------------
(* A faulty form of LittleEndian: the division of a negative number rounds to
   zero, as that of C does. *)
LittleEndianQuotient(v, n) ==
    LET Quotient(a) == IF a < 0 THEN - ((- a) \div 256) ELSE a \div 256
        rest[i \in 1 .. n] == IF i = 1 THEN v ELSE Quotient(rest[i - 1])
    IN  [i \in 1 .. n |-> rest[i] % 256]

(* The n bytes of a number in two's complement, lowest byte first. *)
LittleEndian(v, n) ==
    LET rest[i \in 1 .. n] == IF i = 1 THEN v ELSE rest[i - 1] \div 256
    IN  [i \in 1 .. n |-> rest[i] % 256]

BigEndian(v, n) == Reverse(LittleEndian(v, n))

aktive_write_here_uint8(w, v)    == aktive_write_here(w, << v % 256 >>)
aktive_write_here_uint16be(w, v) == aktive_write_here(w, BigEndian(v, 2))
aktive_write_here_uint32be(w, v) == aktive_write_here(w, BigEndian(v, 4))
aktive_write_here_uint64be(w, v) == aktive_write_here(w, BigEndian(v, 8))
aktive_write_here_uint16le(w, v) == aktive_write_here(w, LittleEndian(v, 2))
aktive_write_here_uint32le(w, v) == aktive_write_here(w, LittleEndian(v, 4))
aktive_write_here_uint64le(w, v) == aktive_write_here(w, LittleEndian(v, 8))
aktive_write_here_int8(w, v)     == aktive_write_here(w, << v % 256 >>)
aktive_write_here_int16be(w, v)  == aktive_write_here(w, BigEndian(v, 2))
aktive_write_here_int32be(w, v)  == aktive_write_here(w, BigEndian(v, 4))
aktive_write_here_int64be(w, v)  == aktive_write_here(w, BigEndian(v, 8))
aktive_write_here_int16le(w, v)  == aktive_write_here(w, LittleEndian(v, 2))
aktive_write_here_int32le(w, v)  == aktive_write_here(w, LittleEndian(v, 4))
aktive_write_here_int64le(w, v)  == aktive_write_here(w, LittleEndian(v, 8))

(* A double is written by the 64 bits that represent it.  It is given by the
   number these bits are. *)
aktive_write_here_float64be(w, v) == aktive_write_here(w, BigEndian(v, 8))
aktive_write_here_float64le(w, v) == aktive_write_here(w, LittleEndian(v, 8))

(* The ASCII codes of the decimal digits of a number. *)
Decimal(v) ==
    LET rest[i \in 1 .. 10] == IF i = 1 THEN v ELSE rest[i - 1] \div 10
        count == IF v = 0 THEN 1 ELSE CHOOSE n \in 1 .. 10 : rest[n] # 0 /\ (n = 10 \/ rest[n + 1] = 0)
    IN  Reverse([i \in 1 .. count |-> 48 + (rest[i] % 10)])

aktive_write_here_uint_text(w, v) == aktive_write_here(w, Decimal(v))
aktive_write_here_int_text(w, v)  ==
    aktive_write_here(w, IF v < 0 THEN << 45 >> \o Decimal(-v) ELSE Decimal(v))

-----------------------------------------------------------------------------
(* A pixel of a netpbm image is given in units of 1/510, so that 510 is white
   and odd values are halfway between two bytes. *)
One == 510

aktive_clamp(x) == IF x < 0 THEN 0 ELSE IF x > One THEN One ELSE x

aktive_quantize_uint8(x)  == (aktive_clamp(x) * 255) \div One
aktive_quantize_uint16(x) == (aktive_clamp(x) * 65535) \div One
=============================================================================
