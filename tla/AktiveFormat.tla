---------------------------- MODULE AktiveFormat ----------------------------
(***************************************************************************)
(* op/aktive.c: the sinks that write images in the native AKTIVE format,   *)
(* big or little endian, and the readers of such files and strings.  The   *)
(* rows of an image are written where they belong, in the order in which   *)
(* they arrive.                                                            *)
(***************************************************************************)
EXTENDS ByteWriter, ByteReader

(* "AKTIVE", "AKTIVELE", "AKTIVE_D", "00" *)
MAGICBE == << 65, 75, 84, 73, 86, 69 >>
MAGICLE == MAGICBE \o << 76, 69 >>
MAGIC2  == MAGICBE \o << 95, 68 >>
VERSION == << 48, 48 >>

(* The size in bytes of a uint of the header and of a double. *)
UINT   == 4
DOUBLE == 8

aktive_aktive_sink(writer) ==
    [writer |-> writer, x |-> 0, y |-> 0, size |-> 0, written |-> 0,
     start |-> 0, rowsize |-> 0, pixsize |-> 0]

(* The header of an image: its parts, of which each Put writes a number. *)
HeaderText(writer, magic, I32(_, _), U32(_, _), image) ==
    LET w1 == aktive_write_here(aktive_write_here(writer, magic), VERSION)
        w2 == I32(I32(w1, image.x), image.y)
        w3 == U32(U32(U32(w2, image.width), image.height), image.depth)
        w4 == U32(w3, Len(image.meta))
        w5 == IF image.meta = << >> THEN w4 ELSE aktive_write_here(w4, image.meta)
    IN  aktive_write_here(w5, MAGIC2)

Started(info, writer, magic, image) ==
    [info EXCEPT !.writer = writer, !.x = image.x, !.y = image.y,
                 !.size = image.width * image.height * image.depth, !.written = 0,
                 !.start = Len(magic) + Len(VERSION) + 6 * UINT + Len(image.meta) + Len(MAGIC2),
                 !.pixsize = image.depth * DOUBLE,
                 !.rowsize = image.width * image.depth * DOUBLE]

aktive_be_header(info, image) ==
    Started(info, HeaderText(info.writer, MAGICBE, aktive_write_here_int32be,
                             aktive_write_here_uint32be, image), MAGICBE, image)

aktive_le_header(info, image) ==
    Started(info, HeaderText(info.writer, MAGICLE, aktive_write_here_int32le,
                             aktive_write_here_uint32le, image), MAGICLE, image)

(* A faulty form of RowOffset: the logical position is taken for the offset. *)
RowOffsetLogical(info, location, r) ==
    info.start + info.rowsize * (location.y + r) + info.pixsize * location.x

(* Where row r of a block at `location` belongs in the file. *)
RowOffset(info, location, r) ==
    info.start + info.rowsize * (location.y - info.y + r) + info.pixsize * (location.x - info.x)

(* The rows of a block, each written from its place on. *)
PutRows(Put(_, _), info, block) ==
    LET values == block.width * block.depth
        Row(w, r) ==
            LET put[c \in 0 .. values] ==
                    IF c = 0 THEN aktive_write_goto(w, RowOffset(info, block.location, r))
                    ELSE Put(put[c - 1], block.pixel[r * values + c])
            IN  put[values]
        rows[r \in 0 .. block.height] == IF r = 0 THEN info.writer ELSE Row(rows[r - 1], r - 1)
    IN  [info EXCEPT !.writer = rows[block.height], !.written = @ + block.height * values]

aktive_be_pixels(info, block) == PutRows(aktive_write_here_float64be, info, block)
aktive_le_pixels(info, block) == PutRows(aktive_write_here_float64le, info, block)

aktive_final(info) == [info EXCEPT !.writer = aktive_write_done(@)]

-----------------------------------------------------------------------------
BadImage == [ok |-> FALSE]

esize(magic, info) == Len(magic) + Len(VERSION) + 6 * UINT + info.metac + Len(MAGIC2)
                      + info.width * info.height * info.depth * DOUBLE

(* A faulty form of header_esize: a file may be larger. *)
header_esizeAtLeast(magic, info, inmax) ==
    IF inmax < esize(magic, info) THEN BadImage
    ELSE [info EXCEPT !.esize = inmax, !.pitch = info.width * info.depth]

(* The sizes of an image; that of the file has to be what they make it. *)
header_esize(magic, info, inmax) ==
    IF inmax # esize(magic, info) THEN BadImage
    ELSE [info EXCEPT !.esize = inmax, !.pitch = info.width * info.depth]

(* Each step of the header is tried only after the previous ones. *)
Try(got, Next(_)) == IF got.ok THEN Next(got.r) ELSE got

HeaderOf(Matches(_, _), I32(_), U32(_), String(_, _), magic, r) ==
    LET Version(s) == Matches(s, VERSION)
        Magic2(s)  == Matches(s, MAGIC2)
        x == Try(Try(Matches(r, magic), Version), I32)
        y == Try(x, I32)
        width == Try(y, U32)   height == Try(width, U32)   depth == Try(height, U32)
        metac == Try(depth, U32)
        Meta(s) == String(s, metac.v)
        meta == Try(metac, Meta)
        end  == Try(meta, Magic2)
    IN  IF ~ end.ok THEN BadImage
        ELSE header_esize(magic,
                 [ok |-> TRUE, x |-> x.v, y |-> y.v, width |-> width.v, height |-> height.v,
                  depth |-> depth.v, metac |-> metac.v, meta |-> meta.v, pix |-> end.r.pos,
                  esize |-> 0, pitch |-> 0], Len(r.bytes))

aktive_aktive_be_header_read(r) ==
    HeaderOf(aktive_read_match, aktive_read_int32be, aktive_read_uint32be, aktive_read_string,
             MAGICBE, r)
aktive_aktive_le_header_read(r) ==
    HeaderOf(aktive_read_match, aktive_read_int32le, aktive_read_uint32le, aktive_read_string,
             MAGICLE, r)
aktive_aktive_be_header_get(r) ==
    HeaderOf(aktive_get_match, aktive_get_int32be, aktive_get_uint32be, aktive_get_string,
             MAGICBE, r)
aktive_aktive_le_header_get(r) ==
    HeaderOf(aktive_get_match, aktive_get_int32le, aktive_get_uint32le, aktive_get_string,
             MAGICLE, r)

slice_offset(info, x, y) ==
    info.pix + DOUBLE * ((y - info.y) * info.pitch + (x - info.x) * info.depth)

(* n values of row y from column x on, logical positions both. *)
aktive_aktive_be_slice_read(info, x, y, n, r) ==
    aktive_read_float64be_n(Tcl_Seek(r, slice_offset(info, x, y)), n)
aktive_aktive_le_slice_read(info, x, y, n, r) ==
    aktive_read_float64le_n(Tcl_Seek(r, slice_offset(info, x, y)), n)
aktive_aktive_be_slice_get(info, x, y, n, r) ==
    aktive_get_float64be_n(Tcl_Seek(r, slice_offset(info, x, y)), n)
aktive_aktive_le_slice_get(info, x, y, n, r) ==
    aktive_get_float64le_n(Tcl_Seek(r, slice_offset(info, x, y)), n)
=============================================================================
