------------------------------- MODULE Netpbm -------------------------------
(***************************************************************************)
(* op/netpbm.c: the sink that writes images as PGM or PPM, as text or      *)
(* binary, and the readers of such files and strings.                      *)
(*                                                                         *)
(* Pixel values leave the readers multiplied with 1/maxval.  The factor is *)
(* left out: a value read is the number in the file.                       *)
(***************************************************************************)
EXTENDS ByteWriter, ByteReader

MAXCOL == 70

Variants == {2, 3, 5, 6}

bands(variant)  == IF variant \in {3, 6} THEN 3 ELSE 1
binary(variant) == variant \in {5, 6}

(* The sink: what it writes to, its format, the number of values written of
   those the image has, and the column of the text. *)
aktive_netpbm_sink(writer, variant, maxvalue) ==
    [writer |-> writer, variant |-> variant, maxvalue |-> maxvalue,
     size |-> 0, written |-> 0, col |-> 0]

extended(maxvalue) == maxvalue > 255

netpbm_header(info, image) ==
    LET buf == << 80, 48 + info.variant, 32 >> \o Decimal(image.width) \o << 32 >>
               \o Decimal(image.height) \o << 32 >> \o Decimal(info.maxvalue) \o << 32 >>
    IN  [info EXCEPT !.writer = aktive_write_here(@, buf),
                     !.size = image.width * image.height * image.depth,
                     !.written = 0, !.col = Len(buf)]

(* The separator behind a text of n characters. *)
LineEnds(info, n) == info.col + n >= MAXCOL

PutText(info, v) ==
    LET text == Decimal(v)
        term == IF LineEnds(info, Len(text)) THEN 10 ELSE 32
    IN  [info EXCEPT !.writer = aktive_write_here_uint8(aktive_write_here(@, text), term),
                     !.col = IF term = 10 THEN 0 ELSE @ + Len(text) + 1,
                     !.written = @ + 1]

PutByte(info, v)  == [info EXCEPT !.writer = aktive_write_here_uint8(@, v), !.written = @ + 1]
PutShort(info, v) == [info EXCEPT !.writer = aktive_write_here_uint16be(@, v), !.written = @ + 1]

(* The values of a block, one after the other. *)
Each(Put(_, _), info, values) ==
    LET done[j \in 0 .. Len(values)] == IF j = 0 THEN info ELSE Put(done[j - 1], values[j])
    IN  done[Len(values)]

netpbm_text(info, x)  == PutText(info, aktive_quantize_uint8(x))
netpbm_etext(info, x) == PutText(info, aktive_quantize_uint16(x))
netpbm_byte(info, x)  == PutByte(info, aktive_quantize_uint8(x))
netpbm_short(info, x) == PutShort(info, aktive_quantize_uint16(x))

netpbm_process(info, block) ==
    CASE ~ binary(info.variant) /\ ~ extended(info.maxvalue) -> Each(netpbm_text, info, block)
      [] ~ binary(info.variant) /\ extended(info.maxvalue)   -> Each(netpbm_etext, info, block)
      [] binary(info.variant) /\ ~ extended(info.maxvalue)   -> Each(netpbm_byte, info, block)
      [] binary(info.variant) /\ extended(info.maxvalue)     -> Each(netpbm_short, info, block)

netpbm_final(info) == [info EXCEPT !.writer = aktive_write_done(@)]

-----------------------------------------------------------------------------
(* The header, by steps each of which goes on if the one before went well.
   Type '7' passes the first test on the code and is then looked up behind the
   end of the tables; what is found there is undefined.  Here it is refused. *)
Then(got, Next(_)) == IF got.ok THEN Next(got.r) ELSE got

BadHeader == [ok |-> FALSE]

Header(magic, Character(_), Size(_), Sharp(_), Plain(_)) ==
    LET type      == Then(magic, Character)
        vcode     == type.v - 48
        width     == Size(type.r)
        height    == Then(width, Size)
        MaxVal(r) == IF binary(vcode) THEN Sharp(r) ELSE Plain(r)
        maxval    == Then(height, MaxVal)
    IN  IF ~ type.ok \/ vcode \notin Variants \/ ~ maxval.ok THEN BadHeader
        ELSE [ok |-> TRUE, width |-> width.v, height |-> height.v, depth |-> bands(vcode),
              maxval |-> maxval.v, base |-> maxval.r.pos, variant |-> vcode]

aktive_netpbm_header_read(r) ==
    Header(aktive_read_match(r, << 80 >>), aktive_read_uint8, aktive_read_uint_strcom,
           aktive_read_uint_strsharp, aktive_read_uint_str)

aktive_netpbm_header_get(r) ==
    Header(aktive_get_match(r, << 80 >>), aktive_get_uint8, aktive_get_uint_strcom,
           aktive_get_uint_strsharp, aktive_get_uint_str)

-----------------------------------------------------------------------------
(* Binary rows: w columns from x on of row y, of cells of `size` bytes, with
   zeros for what is missing in the file. *)
Offset(info, size, x, y) == info.base + info.depth * size * (y * info.width + x)

Ingest(info, size, raw, w) ==
    LET got == info.depth * (Len(raw) \div (info.depth * size))
    IN  [i \in 1 .. info.depth * w |->
            IF i <= got THEN UnsignedBE(SubSeq(raw, size * (i - 1) + 1, size * i)) ELSE 0]

ReadBinary(info, size, x, y, w, r) ==
    Ingest(info, size, Tcl_Read(Tcl_Seek(r, Offset(info, size, x, y)), w * info.depth * size), w)

(* In memory nothing tells that a row begins behind the end: the amount is
   negative there, which the assertion on it takes for a large one. *)
Panic == << -2 >>

GetBinary(info, size, x, y, w, r) ==
    LET offset == Offset(info, size, x, y)
        want   == offset + w * info.depth * size
        stop   == IF want > Len(r.bytes) THEN Len(r.bytes) ELSE want
    IN  IF stop < offset THEN Panic
        ELSE Ingest(info, size, SubSeq(r.bytes, offset + 1, stop), w)

(* Text rows, as the vector cache fills them: `count` numbers from where the
   previous row ended, fewer if one can not be read. *)
RowFill(Num(_), count, r) ==
    LET More(s) ==
            LET got == Num(s.r)
            IN  IF ~ s.ok THEN [s EXCEPT !.v = Append(@, Undefined)]
                ELSE [ok |-> got.ok, r |-> got.r,
                      v |-> Append(s.v, IF got.ok THEN got.v ELSE Undefined)]
        read[k \in 0 .. count] ==
            IF k = 0 THEN [ok |-> TRUE, v |-> << >>, r |-> r] ELSE More(read[k - 1])
    IN  [v |-> read[count].v, next |-> read[count].r.pos]

rowfiller_read(count, r) == RowFill(aktive_read_uint_strcom, count, r)
rowfiller_get(count, r)  == RowFill(aktive_get_uint_strcom, count, r)

TextRow(Fill(_, _), info, count, y, r) ==
    LET row[k \in 0 .. y] == Fill(count, Tcl_Seek(r, IF k = 0 THEN info.base ELSE row[k - 1].next))
    IN  row[y].v

netpbm_read_pgm_byte(info, x, y, w, r)  == ReadBinary(info, 1, x, y, w, r)
netpbm_read_pgm_short(info, x, y, w, r) == ReadBinary(info, 2, x, y, w, r)
netpbm_read_ppm_byte(info, x, y, w, r)  == ReadBinary(info, 1, x, y, w, r)
netpbm_read_ppm_short(info, x, y, w, r) == ReadBinary(info, 2, x, y, w, r)

netpbm_read_pgm_text(info, x, y, w, r) ==
    SubSeq(TextRow(rowfiller_read, info, info.width, y, r), x + 1, x + w)
netpbm_read_ppm_text(info, x, y, w, r) ==
    SubSeq(TextRow(rowfiller_read, info, 3 * info.width, y, r), 3 * x + 1, 3 * (x + w))

netpbm_read_pgm_etext(info, x, y, w, r) == netpbm_read_pgm_text(info, x, y, w, r)
netpbm_read_ppm_etext(info, x, y, w, r) == netpbm_read_ppm_text(info, x, y, w, r)

netpbm_get_pgm_byte(info, x, y, w, r)  == GetBinary(info, 1, x, y, w, r)
netpbm_get_pgm_short(info, x, y, w, r) == GetBinary(info, 2, x, y, w, r)
netpbm_get_ppm_byte(info, x, y, w, r)  == GetBinary(info, 1, x, y, w, r)
netpbm_get_ppm_short(info, x, y, w, r) == GetBinary(info, 2, x, y, w, r)

netpbm_get_pgm_text(info, x, y, w, r) ==
    SubSeq(TextRow(rowfiller_get, info, info.width, y, r), x + 1, x + w)
netpbm_get_ppm_text(info, x, y, w, r) ==
    SubSeq(TextRow(rowfiller_get, info, 3 * info.width, y, r), 3 * x + 1, 3 * (x + w))

(* The code calls the function for one band here. *)
netpbm_get_pgm_etext(info, x, y, w, r) == netpbm_get_pgm_text(info, x, y, w, r)
netpbm_get_ppm_etext(info, x, y, w, r) == netpbm_get_pgm_text(info, x, y, w, r)

(* The tables of readers and getters, by type and range of values. *)
netpbm_reader(info, x, y, w, r) ==
    LET wide == extended(info.maxval) IN
    CASE info.variant = 2 /\ ~ wide -> netpbm_read_pgm_text(info, x, y, w, r)
      [] info.variant = 2 /\ wide   -> netpbm_read_pgm_etext(info, x, y, w, r)
      [] info.variant = 3 /\ ~ wide -> netpbm_read_ppm_text(info, x, y, w, r)
      [] info.variant = 3 /\ wide   -> netpbm_read_ppm_etext(info, x, y, w, r)
      [] info.variant = 5 /\ ~ wide -> netpbm_read_pgm_byte(info, x, y, w, r)
      [] info.variant = 5 /\ wide   -> netpbm_read_pgm_short(info, x, y, w, r)
      [] info.variant = 6 /\ ~ wide -> netpbm_read_ppm_byte(info, x, y, w, r)
      [] info.variant = 6 /\ wide   -> netpbm_read_ppm_short(info, x, y, w, r)

netpbm_getter(info, x, y, w, r) ==
    LET wide == extended(info.maxval) IN
    CASE info.variant = 2 /\ ~ wide -> netpbm_get_pgm_text(info, x, y, w, r)
      [] info.variant = 2 /\ wide   -> netpbm_get_pgm_etext(info, x, y, w, r)
      [] info.variant = 3 /\ ~ wide -> netpbm_get_ppm_text(info, x, y, w, r)
      [] info.variant = 3 /\ wide   -> netpbm_get_ppm_etext(info, x, y, w, r)
      [] info.variant = 5 /\ ~ wide -> netpbm_get_pgm_byte(info, x, y, w, r)
      [] info.variant = 5 /\ wide   -> netpbm_get_pgm_short(info, x, y, w, r)
      [] info.variant = 6 /\ ~ wide -> netpbm_get_ppm_byte(info, x, y, w, r)
      [] info.variant = 6 /\ wide   -> netpbm_get_ppm_short(info, x, y, w, r)
=============================================================================
