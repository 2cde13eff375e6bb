------------------------------- MODULE Blitter -------------------------------
(***************************************************************************)
(* runtime/blit.c: the loops that clear, fill, copy and compute the cells  *)
(* of a block of pixels, with the loop nests of etc/runtime/blitter.tcl.   *)
(*                                                                         *)
(* A block has a location, the dimensions of its domain, and its cells in  *)
(* order: the first `used` are its pixels, by rows, columns and bands; the *)
(* others stay as they were.  It is `bad` once a position lay beyond what  *)
(* is used, which stops the program in a generated loop nest and is not    *)
(* noticed in the others.                                                  *)
(*                                                                         *)
(* Values are tuples: what they are does not matter, only where they are.  *)
(***************************************************************************)
EXTENDS Sequences, Rectangle

Zero   == << "zero" >>
Unset  == << "unset" >>         \* memory that was never written
Beyond == << "beyond" >>        \* what a position beyond a block yields

(* aktive_block, before its first use. *)
aktive_block(depth) ==
    [location |-> aktive_point(0, 0), domain |-> [width |-> 0, height |-> 0, depth |-> depth],
     pixel |-> << >>, used |-> 0, bad |-> FALSE]

capacity(block) == Len(block.pixel)

(* Memory is added if it does not suffice, and never given back; what is used
   of it is cleared. *)
Resize(pixel, size) ==
    [i \in 1 .. Maximum(Len(pixel), size) |-> IF i <= size THEN Zero ELSE pixel[i]]

aktive_blit_setup(dst, request) ==
    LET size == request.width * request.height * dst.domain.depth
    IN  [dst EXCEPT !.location = aktive_point(request.x, request.y),
                    !.domain.width = request.width, !.domain.height = request.height,
                    !.used = size, !.pixel = Resize(@, size)]

aktive_blit_close(dst) == [dst EXCEPT !.pixel = << >>, !.used = 0]

pitch(block) == block.domain.width * block.domain.depth

aktive_blit_index(block, x, y, z) == y * pitch(block) + x * block.domain.depth + z

Inside(block, pos) == pos \in 0 .. block.used - 1

Cell(block, pos) == IF Inside(block, pos) THEN block.pixel[pos + 1] ELSE Beyond

(* A step of a loop sets a cell. *)
Put(block, pos, v) ==
    [location |-> block.location, domain |-> block.domain, used |-> block.used,
     pixel |-> IF Inside(block, pos) THEN [block.pixel EXCEPT ![pos + 1] = v] ELSE block.pixel,
     bad |-> block.bad \/ ~ Inside(block, pos)]

(* n steps, each with the position and the value for it. *)
Run(dst, n, at, value) ==
    LET done[k \in 0 .. n] == IF k = 0 THEN dst ELSE Put(done[k - 1], at[k - 1], value[k - 1])
    IN  done[n]

(* The steps of a loop nest over rows, columns and bands, in their order. *)
Steps(rows, columns, bands, At(_, _, _)) ==
    [i \in 0 .. rows * columns * bands - 1 |->
        At(i \div (columns * bands), (i \div bands) % columns, i % bands)]

Nest(dst, rows, columns, bands, At(_, _, _), Value(_, _, _)) ==
    Run(dst, rows * columns * bands, Steps(rows, columns, bands, At), Steps(rows, columns, bands, Value))

(* The nest {y AY} {x AX} {z first} of `bands` bands. *)
Over(dst, area, first, bands, Value(_, _, _)) ==
    LET At(row, col, z) == aktive_blit_index(dst, area.x + col, area.y + row, first + z)
    IN  Nest(dst, area.height, area.width, bands, At, Value)

(* The nest {y AY} {xz AX}, in which columns and bands are one axis.  Its
   beginning is not multiplied with the number of bands. *)
Folded(dst, area, Value(_, _, _)) ==
    LET At(row, xz, z) == (area.y + row) * pitch(dst) + area.x + xz
    IN  Nest(dst, area.height, area.width * dst.domain.depth, 1, At, Value)

-----------------------------------------------------------------------------
(* num cells from position pos on, every stride-th of them. *)
aktive_blit_dset(block, pos, num, stride, value) ==
    LET At(row, n, z)    == pos + n * stride
        Same(r, n, z) == value
    IN  Nest(block, 1, num, 1, At, Same)

aktive_blit_dset1(block, pos, num, value) == aktive_blit_dset(block, pos, num, 1, value)

aktive_blit_dclear(block, pos, num) == aktive_blit_dset1(block, pos, num, Zero)

aktive_blit_clear_all(dst) == aktive_blit_dclear(dst, 0, dst.used)

aktive_blit_clear(dst, area) ==
    LET Nothing(r, c, z) == Zero IN Over(dst, area, 0, dst.domain.depth, Nothing)

aktive_blit_clear_bands_from(dst, area, first, n) ==
    LET Nothing(r, c, z) == Zero IN Over(dst, area, first, n, Nothing)

aktive_blit_fill(dst, area, v) ==
    LET Same(r, c, z) == v IN Folded(dst, area, Same)

aktive_blit_fill_bands(dst, area, bandv) ==
    LET Band(r, c, z) == bandv[z + 1] IN Over(dst, area, 0, dst.domain.depth, Band)

(* The images of these two have one band: the pitch of their blocks is the
   width. *)
aktive_blit_fill_rows(dst, area, x, rowv) ==
    LET At(row, col, z)  == (area.y + row) * dst.domain.width + area.x + col
        Nth(row, col, z) == IF x + col \in 0 .. Len(rowv) - 1 THEN rowv[x + col + 1] ELSE Beyond
    IN  Nest(dst, area.height, area.width, 1, At, Nth)

aktive_blit_fill_columns(dst, area, y, columnv) ==
    LET At(row, col, z)  == (area.y + row) * dst.domain.width + area.x + col
        Nth(row, col, z) == IF y + row \in 0 .. Len(columnv) - 1 THEN columnv[y + row + 1] ELSE Beyond
    IN  Nest(dst, area.height, area.width, 1, At, Nth)

-----------------------------------------------------------------------------
aktive_blit_copy(dst, area, src, srcloc) ==
    LET Source(row, xz, z) == Cell(src, (srcloc.y + row) * pitch(src) + srcloc.x + xz)
    IN  Folded(dst, area, Source)

aktive_blit_copy0(dst, area, src) ==
    LET Source(row, col, z) == Cell(src, aktive_blit_index(src, col, row, z))
    IN  Over(dst, area, 0, dst.domain.depth, Source)

(* Functions are given by name; what one yields is its name with the arguments. *)
aktive_blit_unary0(dst, area, op, src) ==
    LET Applied(row, xz, z) == << op, Cell(src, row * pitch(src) + xz) >>
    IN  Folded(dst, area, Applied)

aktive_blit_unary1(dst, area, op, a, src) ==
    LET Applied(row, xz, z) == << op, Cell(src, row * pitch(src) + xz), a >>
    IN  Folded(dst, area, Applied)

aktive_blit_unary2(dst, area, op, a, c, src) ==
    LET Applied(row, xz, z) == << op, Cell(src, row * pitch(src) + xz), a, c >>
    IN  Folded(dst, area, Applied)

aktive_blit_unarygz(dst, area, op, param, src) ==
    LET Applied(row, col, z) ==
            << op, Cell(src, aktive_blit_index(src, col, row, z)), param, z >>
    IN  Over(dst, area, 0, dst.domain.depth, Applied)

(* The sources of a binary operation may have more bands than the result. *)
aktive_blit_binary(dst, area, op, srca, srcb) ==
    LET Applied(row, col, z) == << op, Cell(srca, aktive_blit_index(srca, col, row, z)),
                                          Cell(srcb, aktive_blit_index(srcb, col, row, z)) >>
    IN  Over(dst, area, 0, dst.domain.depth, Applied)

(* The destination is the first source too, as it is at that step. *)
aktive_blit_binary_acc(dst, area, op, src) ==
    LET At(row, col, z)   == aktive_blit_index(dst, area.x + col, area.y + row, z)
        From(row, col, z) == aktive_blit_index(dst, col, row, z)
        Arg(row, col, z)  == Cell(src, aktive_blit_index(src, col, row, z))
        depth == dst.domain.depth
        n     == area.height * area.width * depth
        at    == Steps(area.height, area.width, depth, At)
        from  == Steps(area.height, area.width, depth, From)
        arg   == Steps(area.height, area.width, depth, Arg)
        done[k \in 0 .. n] ==
            IF k = 0 THEN dst
            ELSE Put(done[k - 1], at[k - 1], << op, Cell(done[k - 1], from[k - 1]), arg[k - 1] >>)
    IN  done[n]

(* A complex value is two bands. *)
Complex(src, col, row) ==
    << "complex", Cell(src, aktive_blit_index(src, col, row, 0)),
                  Cell(src, aktive_blit_index(src, col, row, 1)) >>

Part(z, v) == << "part", z, v >>

aktive_blit_cunary(dst, area, op, src) ==
    LET Applied(row, col, z) == Part(z, << op, Complex(src, col, row) >>)
    IN  Over(dst, area, 0, 2, Applied)

aktive_blit_cbinary(dst, area, op, srca, srcb) ==
    LET Applied(row, col, z) == Part(z, << op, Complex(srca, col, row), Complex(srcb, col, row) >>)
    IN  Over(dst, area, 0, 2, Applied)

aktive_blit_creduce(dst, area, op, src) ==
    LET Applied(row, col, z) == << op, Complex(src, col, row) >> IN Over(dst, area, 0, 1, Applied)

(* The loops go over all of the destination's block, not over the area. *)
aktive_blit_copy0_bands(dst, area, src, first, last) ==
    LET Source(row, col, z) == Cell(src, aktive_blit_index(src, col, row, first + z))
        block == aktive_rectangle(area.x, area.y, dst.domain.width, dst.domain.height)
    IN  Over(dst, block, 0, dst.domain.depth, Source)

(* All bands of the source, into those of the destination from `first` on. *)
aktive_blit_copy0_bands_to(dst, area, src, first) ==
    LET Source(row, col, z) == Cell(src, aktive_blit_index(src, col, row, z))
    IN  Over(dst, area, first, src.domain.depth, Source)

(* A position of a block of one band. *)
aktive_blit_set(dst, location, v) ==
    aktive_blit_dset1(dst, location.y * dst.domain.width + location.x, 1, v)
=============================================================================
