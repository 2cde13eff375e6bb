----------------------------- MODULE ImageFiles -----------------------------
(***************************************************************************)
(* Writing an image into a file or a byte array and reading it back: the   *)
(* sink run of etc/sink/netpbm.tcl and etc/sink/aktive.tcl over the        *)
(* formats of Netpbm and AktiveFormat.  A sink is given the image by rows, *)
(* in order if it is sequential (netpbm), else in the order in which the   *)
(* worker threads are done with them (AKTIVE).                             *)
(***************************************************************************)
EXTENDS FiniteSets, AktiveFormat

NP == INSTANCE Netpbm

CONSTANTS Pictures,     \* the images written, each with all its values in order
          MaxValues     \* the ranges of netpbm values: 255, 65535

ASSUME PicturesAssumption ==
    /\ MaxValues \subseteq Nat
    /\ \A i \in Pictures :
           /\ i.x \in Int /\ i.y \in Int
           /\ i.width \in Nat /\ i.height \in Nat /\ i.depth \in Nat
           /\ i.meta \in Seq(0 .. 255)
           /\ i.pixel \in Seq(Int) /\ Len(i.pixel) = i.height * (i.width * i.depth)

NetpbmFormats == [name : {"netpbm"}, variant : NP!Variants, maxvalue : MaxValues]
AktiveFormats == [name : {"aktive"}, endian : {"be", "le"}]

VARIABLES picture,      \* the image that is written
          format,
          info,         \* the state of the sink, with its writer
          todo,         \* the rows it has not been given yet
          phase         \* setup, pixels, then closed, or panic on an assertion

fileVars == << picture, format, info, todo, phase >>

Rows(i) == 0 .. i.height - 1

RowValues(i, k) == SubSeq(i.pixel, k * i.width * i.depth + 1, (k + 1) * i.width * i.depth)

RowBlock(i, k) == [location |-> [x |-> i.x, y |-> i.y + k], width |-> i.width, height |-> 1,
                   depth |-> i.depth, pixel |-> RowValues(i, k)]

(* The operators of netpbm refuse images with other than their bands. *)
Fits(i, f) == f.name = "netpbm" => i.depth = NP!bands(f.variant)

Writers == {aktive_write_channel, aktive_write_bytearray}

SinkInfo(f, writer) == IF f.name = "netpbm" THEN NP!aktive_netpbm_sink(writer, f.variant, f.maxvalue)
                       ELSE aktive_aktive_sink(writer)

InitFile == /\ picture \in Pictures
            /\ format \in NetpbmFormats \cup AktiveFormats
            /\ Fits(picture, format)
            /\ \E w \in Writers : info = SinkInfo(format, w)
            /\ todo = Rows(picture)
            /\ phase = "setup"

InNetpbm == format.name = "netpbm"
BE == ~ InNetpbm /\ format.endian = "be"
LE == ~ InNetpbm /\ format.endian = "le"

SetupSink == /\ phase = "setup"
             /\ \/ InNetpbm /\ info' = NP!netpbm_header(info, picture)
                \/ BE /\ info' = aktive_be_header(info, picture)
                \/ LE /\ info' = aktive_le_header(info, picture)
             /\ phase' = "pixels"
             /\ UNCHANGED << picture, format, todo >>

ProcessRow(k) == /\ phase = "pixels"
                 /\ todo' = todo \ {k}
                 /\ \/ /\ InNetpbm
                       /\ \A j \in todo : k <= j
                       /\ info' = NP!netpbm_process(info, RowBlock(picture, k).pixel)
                    \/ BE /\ info' = aktive_be_pixels(info, RowBlock(picture, k))
                    \/ LE /\ info' = aktive_le_pixels(info, RowBlock(picture, k))
                 /\ UNCHANGED << picture, format, phase >>

(* The sinks check that all values were written, and close. *)
FinalSink == /\ phase = "pixels"
             /\ todo = {}
             /\ IF info.written # info.size
                THEN phase' = "panic" /\ UNCHANGED info
                ELSE /\ phase' = "closed"
                     /\ info' = IF InNetpbm THEN NP!netpbm_final(info) ELSE aktive_final(info)
             /\ UNCHANGED << picture, format, todo >>

FileStep == SetupSink \/ (\E k \in todo : ProcessRow(k)) \/ FinalSink

FileSpec == InitFile /\ [][FileStep]_fileVars

-----------------------------------------------------------------------------
File == Source(info.writer.out)

(* The values a netpbm file can hold of those of the image. *)
Quantized(x) == IF format.maxvalue = 255 THEN aktive_quantize_uint8(x) ELSE aktive_quantize_uint16(x)

Piece(values, x, w) == SubSeq(values, x * picture.depth + 1, (x + w) * picture.depth)

SameGeometry(h) == h.ok /\ h.width = picture.width /\ h.height = picture.height /\ h.depth = picture.depth

(* All requests for a part of one row. *)
RowParts == {q \in [y : Rows(picture), x : 0 .. picture.width - 1, w : 1 .. picture.width] :
                q.x + q.w <= picture.width}

NetpbmReadsBack(Read(_), Row(_, _, _, _, _)) ==
    LET h == Read(File)
    IN  /\ SameGeometry(h)
        /\ h.maxval = format.maxvalue
        /\ \A q \in RowParts : LET row == RowValues(picture, q.y) IN
               Row(h, q.x, q.y, q.w, File)
                   = Piece([j \in 1 .. Len(row) |-> Quantized(row[j])], q.x, q.w)

AktiveReadsBack(Read(_), Slice(_, _, _, _, _)) ==
    LET h == Read(File)
    IN  /\ SameGeometry(h)
        /\ h.x = picture.x /\ h.y = picture.y /\ h.meta = picture.meta
        /\ \A q \in RowParts :
               Slice(h, picture.x + q.x, picture.y + q.y, q.w * picture.depth, File).v
                   = Piece(RowValues(picture, q.y), q.x, q.w)

(* The function that gets text of wide values in three bands calls that for one
   band: such strings are not read as they were written. *)
WideText == InNetpbm /\ format.variant = 3 /\ format.maxvalue > 255

(* What was written is read back, whatever the order in which the rows came,
   from a file and from a string, in whole rows and in parts (the sinks and
   readers of op/netpbm.c and op/aktive.c). *)
RoundTrip ==
    /\ phase # "panic"
    /\ phase = "closed" =>
        /\ InNetpbm => NetpbmReadsBack(NP!aktive_netpbm_header_read, NP!netpbm_reader)
        /\ InNetpbm /\ ~ WideText => NetpbmReadsBack(NP!aktive_netpbm_header_get, NP!netpbm_getter)
        /\ BE => /\ AktiveReadsBack(aktive_aktive_be_header_read, aktive_aktive_be_slice_read)
                 /\ AktiveReadsBack(aktive_aktive_be_header_get, aktive_aktive_be_slice_get)
        /\ LE => /\ AktiveReadsBack(aktive_aktive_le_header_read, aktive_aktive_le_slice_read)
                 /\ AktiveReadsBack(aktive_aktive_le_header_get, aktive_aktive_le_slice_get)

(* The bytes of the header and of a row stay what they were once written: a
   later row, or the growth of the buffer, does not touch them; and nothing is
   handed out that was never written (aktive_writer_to_bytearray). *)
RowBytes(k) == info.start + k * info.rowsize + 1 .. info.start + (k + 1) * info.rowsize

Written == IF InNetpbm THEN 1 .. info.writer.used
           ELSE IF phase = "setup" THEN {}
           ELSE 1 .. info.start \cup UNION {RowBytes(k) : k \in Rows(picture) \ todo}

BytesStay ==
    phase \in {"setup", "pixels"} =>
        /\ \A i \in Written : info'.writer.bytes[i] = info.writer.bytes[i]
        /\ phase' = "closed" => \A i \in 1 .. Len(info'.writer.out) : info'.writer.out[i] # Undefined

WrittenStays == [][BytesStay]_fileVars

(* Only the reader of its own byte order takes an AKTIVE file, and none takes
   a file that has been cut, or has a byte too many (header_esize and the
   header functions of op/aktive.c). *)
OnlyComplete ==
    phase = "closed" /\ ~ InNetpbm =>
        LET more == Append(info.writer.out, 0) IN
        \A k \in 0 .. Len(more) :
            LET cut   == Source(SubSeq(more, 1, k))
                whole == k = Len(info.writer.out)
            IN  /\ aktive_aktive_be_header_read(cut).ok = (whole /\ BE)
                /\ aktive_aktive_be_header_get(cut).ok = (whole /\ BE)
                /\ aktive_aktive_le_header_read(cut).ok = (whole /\ LE)
                /\ aktive_aktive_le_header_get(cut).ok = (whole /\ LE)
=============================================================================
