----------------------------- MODULE ByteReader -----------------------------
(***************************************************************************)
(* runtime/reader.c: numbers and texts read from a channel, or got from a  *)
(* byte array in memory.  Both come in the same functions, `read` and      *)
(* `get`; here they share operators that take as a parameter the function  *)
(* all of them rest on, aktive_read_string or aktive_get_string.           *)
(*                                                                         *)
(* A source r has its bytes and a position (from 0).  What a function      *)
(* yields is a record: ok, the value v, and the source r afterwards.       *)
(***************************************************************************)
EXTENDS Integers, Sequences, SequencesExt

Source(bytes) == [bytes |-> bytes, pos |-> 0]

Failed(r) == [ok |-> FALSE, v |-> << >>, r |-> r]

Tcl_Seek(r, pos) == [r EXCEPT !.pos = pos]

(* What Tcl_Read finds: fewer bytes than asked for at the end of the file,
   none at all behind it. *)
Tcl_Read(r, n) ==
    SubSeq(r.bytes, r.pos + 1, IF r.pos + n > Len(r.bytes) THEN Len(r.bytes) ELSE r.pos + n)

(* A read of too few bytes is undone by a seek to where it began. *)
aktive_read_string(r, n) ==
    LET mark == r.pos
        buf  == Tcl_Read(r, n)
        src  == [r EXCEPT !.pos = @ + Len(buf)]
    IN  IF Len(buf) < n THEN Failed(Tcl_Seek(src, mark))
        ELSE [ok |-> TRUE, v |-> buf, r |-> src]

aktive_get_string(r, n) ==
    LET stop == r.pos + n
    IN  IF stop > Len(r.bytes) THEN Failed(r)
        ELSE [ok |-> TRUE, v |-> SubSeq(r.bytes, r.pos + 1, stop), r |-> [r EXCEPT !.pos = stop]]

Match(String(_, _), r, pattern) ==
    LET got == String(r, Len(pattern))
    IN  IF got.ok /\ got.v # pattern THEN Failed(Tcl_Seek(got.r, r.pos)) ELSE got

aktive_read_match(r, pattern) == Match(aktive_read_string, r, pattern)
aktive_get_match(r, pattern)  == Match(aktive_get_string, r, pattern)

-----------------------------------------------------------------------------
(* The automaton that reads a decimal number.  Its states are leader, digits
   and trails, and the ends: accept, reject, and rewind, which accepts and
   gives back the character just read.  The number is 32 bits wide in the
   code; none that wraps is met here. *)
HASH    == 35
NEWLINE == 10

IsSpace(c) == c \in {32, 9, 10, 11, 12, 13}
IsDigit(c) == c \in 48 .. 57

Class(c) == IF IsSpace(c) THEN "space" ELSE IF IsDigit(c) THEN "digit" ELSE "other"

SkipTrails ==
    [leader |-> [space |-> "leader", digit |-> "digits", other |-> "reject", eof |-> "reject"],
     digits |-> [space |-> "trails", digit |-> "digits", other |-> "reject", eof |-> "accept"],
     trails |-> [space |-> "trails", digit |-> "rewind", other |-> "rewind", eof |-> "accept"]]

(* One space ends the number; what follows it may be a pixel. *)
StopSharp == [SkipTrails EXCEPT !.digits.space = "accept"]

Ends == {"accept", "reject", "rewind"}

(* A character c, at the end of input << >>, moves the automaton s. *)
Advance(table, s, c) ==
    LET to == IF c = << >> THEN table[s.mode].eof ELSE table[s.mode][Class(c[1])]
    IN  [s EXCEPT !.mode = to, !.v = IF to = "digits" THEN 10 * @ + c[1] - 48 ELSE @,
                  !.r.pos = IF to = "rewind" THEN @ - 1 ELSE @]

(* A faulty form of AdvanceOrSkip: the end of the line of a comment is not
   part of it. *)
AdvanceOrSkipTo(table, s, c) ==
    IF c # << >> /\ s.skip /\ c[1] # NEWLINE THEN s
    ELSE IF c # << >> /\ c[1] = HASH THEN [s EXCEPT !.skip = TRUE]
    ELSE Advance(table, [s EXCEPT !.skip = FALSE], c)

(* Another one: a comment is not known. *)
AdvancePlain(table, s, c) == Advance(table, s, c)

(* A comment suspends the automaton, from HASH up to and with the end of its
   line, wherever it begins. *)
AdvanceOrSkip(table, s, c) ==
    IF c # << >> /\ s.skip THEN [s EXCEPT !.skip = c[1] # NEWLINE]
    ELSE IF c # << >> /\ c[1] = HASH THEN [s EXCEPT !.skip = TRUE]
    ELSE Advance(table, s, c)

Step(String(_, _), Move(_, _, _), table, s) ==
    LET got == String(s.r, 1)
    IN  IF s.mode \in Ends THEN s ELSE Move(table, [s EXCEPT !.r = got.r], got.v)

Number(String(_, _), Move(_, _, _), table, r) ==
    LET s[k \in 0 .. Len(r.bytes) - r.pos + 1] ==
            IF k = 0 THEN [mode |-> "leader", skip |-> FALSE, v |-> 0, r |-> r]
            ELSE Step(String, Move, table, s[k - 1])
        end == s[Len(r.bytes) - r.pos + 1]
    IN  [ok |-> end.mode # "reject", v |-> end.v, r |-> end.r]

aktive_read_uint_str(r)      == Number(aktive_read_string, Advance, SkipTrails, r)
aktive_read_uint_strsharp(r) == Number(aktive_read_string, Advance, StopSharp, r)
aktive_read_uint_strcom(r)   == Number(aktive_read_string, AdvanceOrSkip, SkipTrails, r)
aktive_get_uint_str(r)       == Number(aktive_get_string, Advance, SkipTrails, r)
aktive_get_uint_strsharp(r)  == Number(aktive_get_string, Advance, StopSharp, r)
aktive_get_uint_strcom(r)    == Number(aktive_get_string, AdvanceOrSkip, SkipTrails, r)

-----------------------------------------------------------------------------
(* The number that bytes stand for, the lowest first, without and with sign. *)
Unsigned(bytes) ==
    LET sum[i \in 1 .. Len(bytes) + 1] == IF i > Len(bytes) THEN 0 ELSE bytes[i] + 256 * sum[i + 1]
    IN  sum[1]

Signed(bytes) ==
    LET n   == Len(bytes)
        top == IF bytes[n] < 128 THEN bytes[n] ELSE bytes[n] - 256
    IN  LET sum[i \in 1 .. n] == IF i = n THEN top ELSE bytes[i] + 256 * sum[i + 1] IN sum[1]

UnsignedBE(bytes) == Unsigned(Reverse(bytes))
SignedBE(bytes)   == Signed(Reverse(bytes))

Decoded(got, Value(_)) == IF got.ok THEN [got EXCEPT !.v = Value(got.v)] ELSE got

aktive_read_uint8(r)    == Decoded(aktive_read_string(r, 1), Unsigned)
aktive_read_uint16be(r) == Decoded(aktive_read_string(r, 2), UnsignedBE)
aktive_read_uint32be(r) == Decoded(aktive_read_string(r, 4), UnsignedBE)
aktive_read_uint64be(r) == Decoded(aktive_read_string(r, 8), SignedBE)
aktive_read_uint16le(r) == Decoded(aktive_read_string(r, 2), Unsigned)
aktive_read_uint32le(r) == Decoded(aktive_read_string(r, 4), Unsigned)
aktive_read_uint64le(r) == Decoded(aktive_read_string(r, 8), Signed)
aktive_read_int8(r)     == Decoded(aktive_read_string(r, 1), Signed)
aktive_read_int16be(r)  == Decoded(aktive_read_string(r, 2), SignedBE)
aktive_read_int32be(r)  == Decoded(aktive_read_string(r, 4), SignedBE)
aktive_read_int64be(r)  == Decoded(aktive_read_string(r, 8), SignedBE)
aktive_read_int16le(r)  == Decoded(aktive_read_string(r, 2), Signed)
aktive_read_int32le(r)  == Decoded(aktive_read_string(r, 4), Signed)
aktive_read_int64le(r)  == Decoded(aktive_read_string(r, 8), Signed)

aktive_get_uint8(r)     == Decoded(aktive_get_string(r, 1), Unsigned)
aktive_get_uint16be(r)  == Decoded(aktive_get_string(r, 2), UnsignedBE)
aktive_get_uint32be(r)  == Decoded(aktive_get_string(r, 4), UnsignedBE)
aktive_get_uint64be(r)  == Decoded(aktive_get_string(r, 8), SignedBE)
aktive_get_uint16le(r)  == Decoded(aktive_get_string(r, 2), Unsigned)
aktive_get_uint32le(r)  == Decoded(aktive_get_string(r, 4), Unsigned)
aktive_get_uint64le(r)  == Decoded(aktive_get_string(r, 8), Signed)
aktive_get_int8(r)      == Decoded(aktive_get_string(r, 1), Signed)
aktive_get_int16be(r)   == Decoded(aktive_get_string(r, 2), SignedBE)
aktive_get_int32be(r)   == Decoded(aktive_get_string(r, 4), SignedBE)
aktive_get_int64be(r)   == Decoded(aktive_get_string(r, 8), SignedBE)
aktive_get_int16le(r)   == Decoded(aktive_get_string(r, 2), Signed)
aktive_get_int32le(r)   == Decoded(aktive_get_string(r, 4), Signed)
aktive_get_int64le(r)   == Decoded(aktive_get_string(r, 8), Signed)

(* Doubles, given by the number their 64 bits are; n of them in one read. *)
Doubles(Bits(_), bytes) ==
    [i \in 1 .. Len(bytes) \div 8 |-> Bits(SubSeq(bytes, 8 * i - 7, 8 * i))]

DoublesBE(bytes) == Doubles(SignedBE, bytes)
DoublesLE(bytes) == Doubles(Signed, bytes)

aktive_read_float64be(r)      == Decoded(aktive_read_string(r, 8), SignedBE)
aktive_read_float64le(r)      == Decoded(aktive_read_string(r, 8), Signed)
aktive_get_float64be(r)       == Decoded(aktive_get_string(r, 8), SignedBE)
aktive_get_float64le(r)       == Decoded(aktive_get_string(r, 8), Signed)
aktive_read_float64be_n(r, n) == Decoded(aktive_read_string(r, 8 * n), DoublesBE)
aktive_read_float64le_n(r, n) == Decoded(aktive_read_string(r, 8 * n), DoublesLE)
aktive_get_float64be_n(r, n)  == Decoded(aktive_get_string(r, 8 * n), DoublesBE)
aktive_get_float64le_n(r, n)  == Decoded(aktive_get_string(r, 8 * n), DoublesLE)
=============================================================================
