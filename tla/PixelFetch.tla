----------------------------- MODULE PixelFetch -----------------------------
(***************************************************************************)
(* How a request for an area is served by an image operator: the core of   *)
(* aktive_region_fetch_area in runtime/region.c over Rectangle and         *)
(* Blitter.  The request may lie across the borders of the image: then the *)
(* zones outside are cleared and the operator is asked for the rest, to be *)
(* put at its place in the block.                                          *)
(*                                                                         *)
(* An operator's inputs are images of the same domain, of which every      *)
(* pixel is another value, and answer requests as they should.  A request  *)
(* is a rectangle of the caller, handed on by reference down to the image  *)
(* that generates pixels; some of these write into it.                     *)
(***************************************************************************)
EXTENDS Blitter

CONSTANTS Domains,      \* the rectangles an image may take
          Requests,     \* the areas it may be asked for, around 0, 0
          Capacities,   \* the cells a result block may have from requests before
          Inputs        \* what inputs 0, 1 and 2 may do to a request they are handed

Rectangles == [x : Int, y : Int, width : Nat \ {0}, height : Nat \ {0}]

ASSUME DomainsAssumption  == \A r \in Domains : r \in Rectangles
ASSUME RequestsAssumption == \A r \in Requests : r \in Rectangles
ASSUME CapacitiesAssumption == \A c \in Capacities : c \in Nat

(* An input keeps a request (of another form it is handed a copy, or has the
   pixels already), or is one of the generators that move it, or hands it on to
   one. *)
Rewriters == {"keep", "row", "column", "matrix"}

ASSUME InputsAssumption == \A i \in Inputs : i \in [0 .. 2 -> Rewriters]

VARIABLES operation,    \* the operator, and its number of bands
          inputs, domain,
          request,      \* the rectangle of the caller
          wanted,       \* what it was when the caller asked (no variable of the code)
          block,        \* the result
          zones,        \* the zones still to be cleared
          stage         \* setup, split, zones, fetch, done

fetchVars == << operation, inputs, domain, request, wanted, block, zones, stage >>

Operations ==
    [name : {"identity", "unary0", "unary1", "unary2", "unarygz", "binary", "nary", "fill",
             "binary_deeper", "fill_bands", "cache", "bands", "montage"}, depth : {1, 2}]
    \cup [name : {"fill_rows", "fill_columns", "matrix", "points", "creduce"}, depth : {1}]
    \cup [name : {"cunary", "cbinary", "zmontage"}, depth : {2}]

-----------------------------------------------------------------------------
(* The value of input number i at a position. *)
Input(i, x, y, z) == << "in", i, x, y, z >>

(* An input answers with its pixels, and zero beyond its borders. *)
Answered(i, p, z) == IF aktive_rectangle_contains(domain, p) THEN Input(i, p.x, p.y, z) ELSE Zero

Fetched(i, depth, area) ==
    LET row   == area.width * depth
        At(k) == aktive_point(area.x + ((k - 1) % row) \div depth, area.y + (k - 1) \div row)
    IN  [aktive_block(depth) EXCEPT
            !.location = aktive_point(area.x, area.y),
            !.domain.width = area.width, !.domain.height = area.height,
            !.used = area.height * row,
            !.pixel = [k \in 1 .. area.height * row |-> Answered(i, At(k), (k - 1) % depth)]]

(* The images from a row, a column or a matrix of values take the location of
   their image from the request, in the rectangle they are handed. *)
Moved(kind, area) ==
    aktive_rectangle(IF kind \in {"row", "matrix"} THEN area.x - domain.x ELSE area.x,
                     IF kind \in {"column", "matrix"} THEN area.y - domain.y ELSE area.y,
                     area.width, area.height)

(* What an input leaves of an area it is asked for.  Across its borders it hands
   on a rectangle of its own.  (An area it was asked for last is answered from
   the block and kept; these are the first requests that it gets.) *)
After(i, area) == IF aktive_rectangle_is_subset(area, domain) THEN Moved(inputs[i], area) ELSE area

op1(v)        == << "op1", v >>
op1a(v, a)    == << "op1a", v, a >>
op1ac(v, a, c) == << "op1ac", v, a, c >>
opz(v, a, z)  == << "opz", v, a, z >>
op2(v, w)     == << "op2", v, w >>
constant      == << "constant" >>
Vector(n)     == [k \in 1 .. n |-> << "value", k >>]

(* The points of a sparse image, one in each row, and some beyond the image if
   that is high. *)
Coords == [k \in 1 .. domain.height |-> aktive_point(domain.x + k - 1, domain.y + domain.height - k)]

(* Those that the request has are set. *)
SetPoint(b, area, p) ==
    IF aktive_rectangle_contains(area, p)
    THEN aktive_blit_set(b, aktive_point(p.x - area.x, p.y - area.y), constant)
    ELSE b

SetPoints(b, area, coords) ==
    LET set[n \in 0 .. Len(coords)] ==
            IF n = 0 THEN b ELSE SetPoint(set[n - 1], area, coords[n])
    IN  set[Len(coords)]

(* The memory sink: a row of an image is put where it belongs in the memory,
   which begins at the location of the image. *)
aktive_pixels(memory, loc, src) ==
    LET dst == aktive_rectangle(src.location.x - loc.x, src.location.y - loc.y,
                                src.domain.width, src.domain.height)
    IN  aktive_blit_copy0(memory, dst, src)

(* The cache of an image: a block of its size, into which the sink is run.  No
   row touches what another writes; their order is immaterial. *)
aktive_op_ocache(depth) ==
    LET row(n)  == Fetched(0, depth, aktive_rectangle(domain.x, domain.y + n, domain.width, 1))
        rows[n \in 0 .. domain.height] ==
            IF n = 0 THEN aktive_blit_setup(aktive_block(depth), domain)
            ELSE aktive_pixels(rows[n - 1], aktive_point(domain.x, domain.y), row(n - 1))
    IN  rows[domain.height]

-----------------------------------------------------------------------------
(* The pixel functions of the operators, from etc/.  They are given an area of
   their domain and where to put it.  The rectangle of the area is what they
   ask their inputs for. *)
identity(b, area, dst) == aktive_blit_copy0(b, dst, Fetched(0, operation.depth, area))

unary(b, area, dst) ==
    LET src == Fetched(0, operation.depth, area)
    IN  CASE operation.name = "unary0" -> aktive_blit_unary0(b, dst, "op1", src)
          [] operation.name = "unary1" -> aktive_blit_unary1(b, dst, "op1a", 1, src)
          [] operation.name = "unary2" -> aktive_blit_unary2(b, dst, "op1ac", 1, 2, src)

lookup(b, area, dst) == aktive_blit_unarygz(b, dst, "opz", 1, Fetched(0, operation.depth, area))

(* The generated loop nest of a binary operator, for inputs with as many bands
   as the result. *)
binary_folded(b, dst, op, src0, src1) ==
    LET Applied(row, xz, z) == << op, Cell(src0, row * pitch(src0) + xz), Cell(src1, row * pitch(src1) + xz) >>
    IN  Folded(b, dst, Applied)

(* The second input is asked with what the first has left of the rectangle. *)
binary(b, area, dst) ==
    LET src0 == Fetched(0, operation.depth, area)
        src1 == Fetched(1, IF operation.name = "binary_deeper" THEN operation.depth + 1 ELSE operation.depth,
                        After(0, area))
    IN  IF b.domain.depth # src0.domain.depth \/ b.domain.depth # src1.domain.depth
        THEN aktive_blit_binary(b, dst, "op2", src0, src1)
        ELSE binary_folded(b, dst, "op2", src0, src1)

nary(b, area, dst) ==
    LET depth  == operation.depth
        second == After(0, area)
        third  == After(1, second)
        first  == aktive_blit_copy0(b, dst, Fetched(0, depth, area))
        both   == aktive_blit_binary_acc(first, dst, "op2", Fetched(1, depth, second))
    IN  aktive_blit_binary_acc(both, dst, "op2", Fetched(2, depth, third))

cunary(b, area, dst) == aktive_blit_cunary(b, dst, "op1", Fetched(0, 2, area))

(* Both inputs are arguments of one call: C leaves open which is asked first. *)
cbinary(b, area, dst, first) ==
    LET Asked(i) == IF i = first THEN area ELSE After(first, area)
    IN  aktive_blit_cbinary(b, dst, "op2", Fetched(0, 2, Asked(0)), Fetched(1, 2, Asked(1)))

creduce(b, area, dst) == aktive_blit_creduce(b, dst, "op1", Fetched(0, 2, area))

(* The memory of a matrix, for which one value was not given. *)
MatrixValue(n) == IF n < domain.width * domain.height THEN << "value", n >> ELSE Zero

matrix_setup ==
    LET memory == aktive_blit_setup(aktive_block(1), domain)
    IN  [memory EXCEPT !.pixel = [n \in 1 .. domain.width * domain.height |-> MatrixValue(n)]]

(* The images that do not need inputs; three of them move the rectangle. *)
generated(b, area, dst) ==
    LET depth == operation.depth
    IN  CASE operation.name = "fill"       -> aktive_blit_fill(b, dst, constant)
          [] operation.name = "fill_bands" -> aktive_blit_fill_bands(b, dst, Vector(depth))
          [] operation.name = "fill_rows"  ->
                 aktive_blit_fill_rows(b, dst, Moved("row", area).x, Vector(domain.width))
          [] operation.name = "fill_columns" ->
                 aktive_blit_fill_columns(b, dst, Moved("column", area).y, Vector(domain.height))
          [] operation.name = "matrix"     ->
                 LET at == Moved("matrix", area)
                 IN  aktive_blit_copy(b, dst, matrix_setup, aktive_point(at.x, at.y))

points(b, area, dst) == SetPoints(aktive_blit_clear(b, dst), area, Coords)

cached(b, area, dst) ==
    aktive_blit_copy(b, dst, aktive_op_ocache(operation.depth), aktive_point(area.x, area.y))

select_bands(b, area, dst) ==
    LET depth == operation.depth
    IN  aktive_blit_copy0_bands(b, dst, Fetched(0, depth + 1, area), 1, depth)

(* The part of an input of one band, for which there is a rectangle of its own. *)
montage(b, area, dst) ==
    LET part == aktive_blit_copy0(b, dst, Fetched(0, 1, area))
    IN  IF operation.depth = 1 THEN part
        ELSE aktive_blit_clear_bands_from(part, dst, 1, operation.depth - 1)

(* A faulty form of zmontage: no copy is made. *)
zmontageHanded(b, area, dst) ==
    aktive_blit_copy0_bands_to(aktive_blit_copy0_bands_to(b, dst, Fetched(0, 1, area), 0),
                               dst, Fetched(1, 1, After(0, area)), 1)

(* The second input gets a copy, made before the first is asked. *)
zmontage(b, area, dst) ==
    aktive_blit_copy0_bands_to(aktive_blit_copy0_bands_to(b, dst, Fetched(0, 1, area), 0),
                               dst, Fetched(1, 1, area), 1)

Pixels(b, area, dst, first) ==
    CASE operation.name = "identity" -> identity(b, area, dst)
      [] operation.name \in {"unary0", "unary1", "unary2"} -> unary(b, area, dst)
      [] operation.name = "unarygz"  -> lookup(b, area, dst)
      [] operation.name \in {"binary", "binary_deeper"} -> binary(b, area, dst)
      [] operation.name = "nary"     -> nary(b, area, dst)
      [] operation.name = "cunary"   -> cunary(b, area, dst)
      [] operation.name = "cbinary"  -> cbinary(b, area, dst, first)
      [] operation.name = "creduce"  -> creduce(b, area, dst)
      [] operation.name \in {"fill", "fill_bands", "fill_rows", "fill_columns", "matrix"} -> generated(b, area, dst)
      [] operation.name = "points"   -> points(b, area, dst)
      [] operation.name = "cache"    -> cached(b, area, dst)
      [] operation.name = "bands"    -> select_bands(b, area, dst)
      [] operation.name = "montage"  -> montage(b, area, dst)
      [] operation.name = "zmontage" -> zmontage(b, area, dst)

(* What the operator and its inputs leave of the rectangle it was handed. *)
RequestLeft(area, first) ==
    CASE operation.name \in {"identity", "unary0", "unary1", "unary2", "cunary", "creduce", "bands", "zmontage"} ->
             After(0, area)
      [] operation.name \in {"binary", "binary_deeper"} -> After(1, After(0, area))
      [] operation.name = "nary"         -> After(2, After(1, After(0, area)))
      [] operation.name = "cbinary"      -> After(1 - first, After(first, area))
      [] operation.name = "fill_rows"    -> Moved("row", area)
      [] operation.name = "fill_columns" -> Moved("column", area)
      [] operation.name = "matrix"       -> Moved("matrix", area)
      [] operation.name \in {"unarygz", "fill", "fill_bands", "points", "cache", "montage"} -> area

-----------------------------------------------------------------------------
InitFetch == /\ operation \in Operations
             /\ inputs \in Inputs
             /\ domain \in Domains
             /\ \E r \in Requests : request = aktive_rectangle_move(r, domain.x, domain.y)
             /\ wanted = request
             /\ \E c \in Capacities :
                    block = [aktive_block(operation.depth) EXCEPT !.pixel = [k \in 1 .. c |-> Unset]]
             /\ zones = {}
             /\ stage = "setup"

SetupBlock == /\ stage = "setup"
              /\ block' = aktive_blit_setup(block, request)
              /\ stage' = "split"
              /\ UNCHANGED << operation, inputs, domain, request, wanted, zones >>

(* A faulty form of Destination: the beginning of the block. *)
DestinationZero(inside, area) == aktive_rectangle(0, 0, inside.width, inside.height)

(* Where the part inside belongs in the block. *)
Destination(inside, area) == aktive_rectangle_move(inside, - area.x, - area.y)

(* All of it is served by the operator, or none, or some. *)
Split == /\ stage = "split"
         /\ zones' = aktive_rectangle_outzones(domain, request)
         /\ \/ /\ aktive_rectangle_is_subset(request, domain)
               /\ stage' = "fetch"
               /\ UNCHANGED block
            \/ /\ ~ aktive_rectangle_is_subset(request, domain)
               /\ aktive_rectangle_is_empty(aktive_rectangle_intersect(domain, request))
               /\ block' = aktive_blit_clear_all(block)
               /\ stage' = "done"
            \/ /\ ~ aktive_rectangle_is_subset(request, domain)
               /\ ~ aktive_rectangle_is_empty(aktive_rectangle_intersect(domain, request))
               /\ stage' = "zones"
               /\ UNCHANGED block
         /\ UNCHANGED << operation, inputs, domain, request, wanted >>

ClearZone == /\ stage = "zones"
             /\ \E z \in zones : block' = aktive_blit_clear(block, z) /\ zones' = zones \ {z}
             /\ stage' = IF zones' = {} THEN "fetch" ELSE "zones"
             /\ UNCHANGED << operation, inputs, domain, request, wanted >>

(* The operator is handed the caller's rectangle if all of it lies inside, one
   of the zones if not. *)
Fetch == /\ stage = "fetch"
         /\ LET inside == aktive_rectangle_intersect(domain, request)
            IN  \E first \in {0, 1} :
                    /\ first = 1 => operation.name = "cbinary"
                    /\ block' = Pixels(block, inside, Destination(inside, request), first)
                    /\ request' = IF aktive_rectangle_is_subset(request, domain)
                                  THEN RequestLeft(request, first) ELSE request
         /\ stage' = "done"
         /\ UNCHANGED << operation, inputs, domain, wanted, zones >>

FetchStep == SetupBlock \/ Split \/ ClearZone \/ Fetch

FetchSpec == InitFetch /\ [][FetchStep]_fetchVars

-----------------------------------------------------------------------------
(* What an operator's pixels are. *)
Promised(p, z) ==
    LET In(i, b) == Input(i, p.x, p.y, b)
        Both(i)  == << "complex", In(i, 0), In(i, 1) >>
    IN  CASE operation.name \in {"identity", "cache"} -> In(0, z)
          [] operation.name = "unary0"   -> op1(In(0, z))
          [] operation.name = "unary1"   -> op1a(In(0, z), 1)
          [] operation.name = "unary2"   -> op1ac(In(0, z), 1, 2)
          [] operation.name = "unarygz"  -> opz(In(0, z), 1, z)
          [] operation.name \in {"binary", "binary_deeper"} -> op2(In(0, z), In(1, z))
          [] operation.name = "nary"     -> op2(op2(In(0, z), In(1, z)), In(2, z))
          [] operation.name = "fill"     -> constant
          [] operation.name = "fill_bands" -> Vector(operation.depth)[z + 1]
          [] operation.name = "fill_rows"  -> Vector(domain.width)[p.x - domain.x + 1]
          [] operation.name = "fill_columns" -> Vector(domain.height)[p.y - domain.y + 1]
          [] operation.name = "matrix"   ->
                 MatrixValue((p.y - domain.y) * domain.width + p.x - domain.x + 1)
          [] operation.name = "points"   -> IF \E k \in 1 .. Len(Coords) : Coords[k] = p THEN constant ELSE Zero
          [] operation.name = "bands"    -> In(0, z + 1)
          [] operation.name = "montage"  -> IF z = 0 THEN In(0, 0) ELSE Zero
          [] operation.name = "zmontage" -> In(z, 0)
          [] operation.name = "cunary"   -> Part(z, op1(Both(0)))
          [] operation.name = "cbinary"  -> Part(z, op2(Both(0), Both(1)))
          [] operation.name = "creduce"  -> op1(Both(0))

Exact ==
    /\ ~ block.bad
    /\ block.location = aktive_point(wanted.x, wanted.y)
    /\ \A x \in 0 .. wanted.width - 1, y \in 0 .. wanted.height - 1, z \in 0 .. operation.depth - 1 :
           LET p == aktive_point(wanted.x + x, wanted.y + y)
           IN  Cell(block, aktive_blit_index(block, x, y, z))
                   = IF aktive_rectangle_contains(domain, p) THEN Promised(p, z) ELSE Zero

(* Input i moves requests that it is handed. *)
Moves(i) == \/ inputs[i] \in {"row", "matrix"} /\ domain.x # 0
            \/ inputs[i] \in {"column", "matrix"} /\ domain.y # 0

(* What these operators can go wrong with: those with folded axes begin at the
   wrong band; inputs that move the request which the next one is asked with
   make it answer for another area; the cache takes the logical position for
   that in its memory, and has folded axes; the accumulation reads, and the
   sparse image writes, from the beginning of the block; the selection of bands
   goes over all of the block; an input of few bands is read beyond its end. *)
Misplaced ==
    /\ ~ Apart(domain, wanted)
    /\ \/ /\ operation.name \in {"unary0", "unary1", "unary2", "binary", "fill"}
          /\ operation.depth > 1 /\ Left(domain, wanted) > 0
       \/ operation.name \in {"binary", "binary_deeper", "cbinary", "nary"} /\ Moves(0)
       \/ operation.name \in {"cbinary", "nary"} /\ Moves(1)
       \/ /\ operation.name = "cache"
          /\ \/ domain.x # 0 \/ domain.y # 0
             \/ operation.depth > 1 /\ wanted.x # domain.x
       \/ /\ operation.name \in {"nary", "points"}
          /\ Left(domain, wanted) > 0 \/ Top(domain, wanted) > 0
       \/ operation.name = "bands" /\ ~ aktive_rectangle_is_subset(wanted, domain)
       \/ operation.name = "montage" /\ operation.depth > 1

(* Whatever lies across the borders of the image, whatever the block held
   before, and whatever the inputs do to the rectangle: every pixel inside of
   what was asked for is what the operator promises, every other one is zero
   (aktive_region_fetch_area_core, aktive_rectangle_outzones, the loops of
   runtime/blit.c and the pixel functions of etc/). *)
FetchExact == stage = "done" /\ ~ Misplaced => Exact

(* The zones outside of the domain and the part inside lie in the block of the
   request, and each of its positions is in one of them, and in one only
   (aktive_rectangle_outzones). *)
Parts == aktive_rectangle_outzones(domain, request)
         \cup {Destination(aktive_rectangle_intersect(domain, request), request)}

ZonesPartition ==
    stage = "zones" =>
        /\ \A z \in Parts :
              aktive_rectangle_is_subset(z, aktive_rectangle(0, 0, request.width, request.height))
        /\ \A x \in 0 .. request.width - 1, y \in 0 .. request.height - 1 :
              /\ \E z \in Parts : aktive_rectangle_contains(z, aktive_point(x, y))
              /\ \A z, o \in Parts : /\ aktive_rectangle_contains(z, aktive_point(x, y))
                                     /\ aktive_rectangle_contains(o, aktive_point(x, y))
                                     => z = o

(* etc/transformer/math/binary.tcl says "we trivially know that the request is
   good for both inputs": what an operator computes of two inputs then is right
   whatever they are, here in the nest without folded axes. *)
GoodForBoth == stage = "done" /\ operation.name = "binary_deeper" => Exact

=============================================================================
