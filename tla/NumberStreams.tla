---------------------------- MODULE NumberStreams ----------------------------
(***************************************************************************)
(* Numbers written one after the other and read back, and decimal numbers  *)
(* read from any text: the use that the file formats make of               *)
(* runtime/writer.c and runtime/reader.c, number by number.                *)
(***************************************************************************)
EXTENDS FiniteSets, ByteWriter, ByteReader

CONSTANTS Numbers,      \* the numbers written
          MaxItems,     \* as many at most
          Characters,   \* those of texts
          MaxText       \* and how many a text has at most

ASSUME NumbersAssumption == Numbers \subseteq Int

VARIABLES items,        \* what has been written: [kind, v]
          stream,       \* the writer
          input,        \* what is read from
          got,          \* the numbers read
          mode          \* write, read; str, strsharp, strcom for a text

streamVars == << items, stream, input, got, mode >>

TextModes == {"str", "strsharp", "strcom"}

Texts == UNION {[1 .. n -> Characters] : n \in 0 .. MaxText}

InitStream == \/ /\ items = << >>
                 /\ stream \in {aktive_write_channel, aktive_write_bytearray}
                 /\ input = Source(<< >>)
                 /\ got = << >>
                 /\ mode = "write"
              \/ /\ items = << >>
                 /\ stream = aktive_write_channel
                 /\ \E t \in Texts : input = Source(t)
                 /\ got = << >>
                 /\ mode \in TextModes

Kinds == {"uint8", "uint16be", "uint32be", "uint64be", "uint16le", "uint32le", "uint64le",
          "int8", "int16be", "int32be", "int64be", "int16le", "int32le", "int64le",
          "float64be", "float64le", "text"}

(* The bytes of a number of a kind, and the kinds without sign.  Those of 64
   bits go in and out as integers with a sign. *)
Width(kind) ==
    IF kind \in {"uint64be", "int64be", "float64be", "uint64le", "int64le", "float64le"} THEN 8
    ELSE IF kind \in {"uint32be", "int32be", "uint32le", "int32le"} THEN 4
    ELSE IF kind \in {"uint16be", "int16be", "uint16le", "int16le"} THEN 2
    ELSE 1

PlainKinds == {"uint8", "uint16be", "uint16le", "uint32be", "uint32le"}

(* What is left of a number for the highest of its n bytes. *)
High(v) == v \div 65536

Lead(n, v) == IF n = 1 THEN v ELSE IF n = 2 THEN v \div 256
              ELSE IF n = 4 THEN High(v) \div 256 ELSE High(High(High(v))) \div 256

(* The numbers a kind can hold: what is left for the highest byte fits there.  A
   text is printed like an integer with a sign, of 32 bits. *)
InRange(kind, v) ==
    IF kind = "text" THEN 0 <= High(v) /\ High(v) < 32768
    ELSE Lead(Width(kind), v) \in IF kind \in PlainKinds THEN 0 .. 255 ELSE -128 .. 127

WriteOne(w, kind, v) ==
    CASE kind = "uint8"    -> aktive_write_here_uint8(w, v)
      [] kind = "uint16be" -> aktive_write_here_uint16be(w, v)
      [] kind = "uint32be" -> aktive_write_here_uint32be(w, v)
      [] kind = "uint64be" -> aktive_write_here_uint64be(w, v)
      [] kind = "uint16le" -> aktive_write_here_uint16le(w, v)
      [] kind = "uint32le" -> aktive_write_here_uint32le(w, v)
      [] kind = "uint64le" -> aktive_write_here_uint64le(w, v)
      [] kind = "int8"     -> aktive_write_here_int8(w, v)
      [] kind = "int16be"  -> aktive_write_here_int16be(w, v)
      [] kind = "int32be"  -> aktive_write_here_int32be(w, v)
      [] kind = "int64be"  -> aktive_write_here_int64be(w, v)
      [] kind = "int16le"  -> aktive_write_here_int16le(w, v)
      [] kind = "int32le"  -> aktive_write_here_int32le(w, v)
      [] kind = "int64le"  -> aktive_write_here_int64le(w, v)
      [] kind = "float64be" -> aktive_write_here_float64be(w, v)
      [] kind = "float64le" -> aktive_write_here_float64le(w, v)
      [] kind = "text"     -> aktive_write_here_uint8(aktive_write_here_uint_text(w, v), 32)

ReadOne(kind, r) ==
    CASE kind = "uint8"    -> << aktive_read_uint8(r), aktive_get_uint8(r) >>
      [] kind = "uint16be" -> << aktive_read_uint16be(r), aktive_get_uint16be(r) >>
      [] kind = "uint32be" -> << aktive_read_uint32be(r), aktive_get_uint32be(r) >>
      [] kind = "uint64be" -> << aktive_read_uint64be(r), aktive_get_uint64be(r) >>
      [] kind = "uint16le" -> << aktive_read_uint16le(r), aktive_get_uint16le(r) >>
      [] kind = "uint32le" -> << aktive_read_uint32le(r), aktive_get_uint32le(r) >>
      [] kind = "uint64le" -> << aktive_read_uint64le(r), aktive_get_uint64le(r) >>
      [] kind = "int8"     -> << aktive_read_int8(r), aktive_get_int8(r) >>
      [] kind = "int16be"  -> << aktive_read_int16be(r), aktive_get_int16be(r) >>
      [] kind = "int32be"  -> << aktive_read_int32be(r), aktive_get_int32be(r) >>
      [] kind = "int64be"  -> << aktive_read_int64be(r), aktive_get_int64be(r) >>
      [] kind = "int16le"  -> << aktive_read_int16le(r), aktive_get_int16le(r) >>
      [] kind = "int32le"  -> << aktive_read_int32le(r), aktive_get_int32le(r) >>
      [] kind = "int64le"  -> << aktive_read_int64le(r), aktive_get_int64le(r) >>
      [] kind = "float64be" -> << aktive_read_float64be(r), aktive_get_float64be(r) >>
      [] kind = "float64le" -> << aktive_read_float64le(r), aktive_get_float64le(r) >>
      [] kind = "text"     -> << aktive_read_uint_strsharp(r), aktive_get_uint_strsharp(r) >>
      [] kind = "str"      -> << aktive_read_uint_str(r), aktive_get_uint_str(r) >>
      [] kind = "strsharp" -> << aktive_read_uint_strsharp(r), aktive_get_uint_strsharp(r) >>
      [] kind = "strcom"   -> << aktive_read_uint_strcom(r), aktive_get_uint_strcom(r) >>

WriteNumber == /\ mode = "write"
               /\ Len(items) < MaxItems
               /\ \E kind \in Kinds, v \in Numbers :
                      /\ InRange(kind, v)
                      /\ items' = Append(items, [kind |-> kind, v |-> v])
                      /\ stream' = WriteOne(stream, kind, v)
               /\ UNCHANGED << input, got, mode >>

CloseStream == /\ mode = "write"
               /\ stream' = aktive_write_done(stream)
               /\ input' = Source(aktive_write_done(stream).out)
               /\ mode' = "read"
               /\ UNCHANGED << items, got >>

(* Both readers read; `got` is what they say.  A refusal is the last of it: no
   caller reads on. *)
ReadsOn == \A k \in DOMAIN got : got[k][1].ok

ReadBoth(kind) == LET both == ReadOne(kind, input)
                  IN  /\ got' = Append(got, both)
                      /\ input' = both[1].r
                      /\ UNCHANGED << items, stream, mode >>

ReadNumber == /\ mode = "read" /\ ReadsOn
              /\ Len(got) < Len(items)
              /\ ReadBoth(items[Len(got) + 1].kind)

ReadText == /\ mode \in TextModes /\ ReadsOn
            /\ ReadBoth(mode)

StreamStep == WriteNumber \/ CloseStream \/ ReadNumber \/ ReadText

StreamSpec == InitStream /\ [][StreamStep]_streamVars

-----------------------------------------------------------------------------
(* A file and a string with the same bytes are read alike, up to where they
   are read on. *)
Alike == \A k \in 1 .. Len(got) : got[k][1] = got[k][2]

(* Every number comes back, of any width and byte order, next to any other
   (the write and read functions of runtime/writer.c and reader.c). *)
NumbersComeBack ==
    items # << >> => /\ Alike
                     /\ \A k \in 1 .. Len(got) : got[k][1].ok /\ got[k][1].v = items[k].v

-----------------------------------------------------------------------------
(* What the words of a text are, without regard to how they are read: the
   characters outside of comments, and what spaces make of them. *)
InComment(text, i) ==
    \E h \in 1 .. i : text[h] = HASH /\ \A j \in h .. i - 1 : text[j] # NEWLINE

Plain(text) == LET keep == {i \in DOMAIN text : ~ InComment(text, i)}
                   At(n) == CHOOSE i \in keep : Cardinality({j \in keep : j < i}) = n - 1
               IN  [n \in 1 .. Cardinality(keep) |-> text[At(n)]]

Begins(text) == {i \in DOMAIN text : ~ IsSpace(text[i]) /\ (i = 1 \/ IsSpace(text[i - 1]))}

Word(text, n) ==
    LET first == CHOOSE i \in Begins(text) : Cardinality({j \in Begins(text) : j < i}) = n - 1
        last  == CHOOSE j \in first .. Len(text) :
                     /\ \A k \in first .. j : ~ IsSpace(text[k])
                     /\ j = Len(text) \/ IsSpace(text[j + 1])
    IN  SubSeq(text, first, last)

IsNumber(word) == \A i \in DOMAIN word : IsDigit(word[i])

Value(word) == LET v[i \in 0 .. Len(word)] == IF i = 0 THEN 0 ELSE 10 * v[i - 1] + word[i] - 48
               IN  v[Len(word)]

(* One after the other the words of a text are read, up to the first that is
   not a number, which is refused, as is the end of the text; a word that is a
   number never is.  No word is lost or read twice.  Where comments count, the
   words are those of the text without them, a comment before, behind or in
   the middle of a number included; elsewhere HASH is a character like others
   (aktive_read_uint_str, _strsharp, _strcom and their get forms). *)
Original == input.bytes

WordsRead ==
    mode \in TextModes =>
        LET text == IF mode = "strcom" THEN Plain(Original) ELSE Original
        IN  /\ Alike
            /\ \A n \in 1 .. Len(got) :
                   IF n <= Cardinality(Begins(text)) /\ IsNumber(Word(text, n))
                   THEN got[n][1].ok /\ got[n][1].v = Value(Word(text, n))
                   ELSE ~ got[n][1].ok
=============================================================================
