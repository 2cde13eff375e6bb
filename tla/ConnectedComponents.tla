------------------------- MODULE ConnectedComponents -------------------------
(***************************************************************************)
(* op/cconn.c: the connected components of an image of one band.  Rows are *)
(* scanned into blocks of one row each, adjacent blocks are fused, until   *)
(* one block is left.  The batch that does it is FuseBatch; here are the   *)
(* scan and the fusion themselves, in any order a batch may do them.       *)
(*                                                                         *)
(* A range is a piece of a row, [y, xmin, xmax].  A component stands for   *)
(* its structure in memory; its identity is the range it was made with.  A *)
(* block has the ranges of its rows, the component each belongs to, the    *)
(* components, and the list of those that are linked into it.              *)
(***************************************************************************)
EXTENDS Integers, FiniteSets, Sequences, SequencesExt

CONSTANTS Bitmaps       \* images: width, height, and the positions that are set

ASSUME BitmapsAssumption == \A i \in Bitmaps : i.width \in Nat /\ i.height \in Nat

VARIABLES bitmap,
          eight,        \* whether diagonal neighbours are neighbours
          blocks,       \* the blocks there are
          unscanned,    \* the rows not scanned yet
          result        \* the dictionary made of the last block

ccVars == << bitmap, eight, blocks, unscanned, result >>

Smaller(a, b) == IF a < b THEN a ELSE b
Larger(a, b)  == IF a > b THEN a ELSE b

cc_new_range(y, xmin, xmax) == [y |-> y, xmin |-> xmin, xmax |-> xmax]

(* Unsigned arithmetic: for xmin = 0 the product with xmin - 1 is 0. *)
cc_new(y, xmin, xmax) ==
    LET area == xmax - xmin + 1
    IN  [xmin |-> xmin, xmax |-> xmax, ymin |-> y, ymax |-> y, area |-> area,
         xsum |-> IF xmax = xmin THEN xmax
                  ELSE (xmax * (xmax + 1) - xmin * (xmin - 1)) \div 2,
         ysum |-> y * area,
         parts |-> << cc_new_range(y, xmin, xmax) >>]

cc_new_row == << >>

Block(ymin, ymax, rows, owner, cc, list) ==
    [ymin |-> ymin, ymax |-> ymax, rows |-> rows, owner |-> owner, cc |-> cc, list |-> list]

cc_new_block(y) == Block(y, y, << cc_new_row >>, << >>, << >>, << >>)

(* The structures of components, ranges and the owners of these are functions
   on what they are about; a component goes away with a merge. *)
With(f, x, e)  == [y \in DOMAIN f \cup {x} |-> IF y = x THEN e ELSE f[y]]
Without(f, x)  == [y \in DOMAIN f \ {x} |-> f[y]]
Together(f, g) == [y \in DOMAIN f \cup DOMAIN g |-> IF y \in DOMAIN f THEN f[y] ELSE g[y]]

Unlinked(list, c) == RemoveAt(list, CHOOSE n \in DOMAIN list : list[n] = c)

cc_unlink(block, c) ==
    Block(block.ymin, block.ymax, block.rows, block.owner, block.cc, Unlinked(block.list, c))

cc_extend_block(block, xmin, xmax) ==
    LET range == cc_new_range(block.ymin, xmin, xmax)
    IN  Block(block.ymin, block.ymax, << Append(block.rows[1], range) >>,
              With(block.owner, range, range),
              With(block.cc, range, cc_new(block.ymin, xmin, xmax)),
              Append(block.list, range))

(* A faulty form of Owners: the ranges of the second keep their owner. *)
OwnerStays(block, a, b) == block.owner

(* All ranges of component b belong to a now. *)
Owners(block, a, b) ==
    [r \in DOMAIN block.owner |-> IF r \in ToSet(block.cc[b].parts) THEN a ELSE block.owner[r]]

(* Component B becomes part of A. *)
Merged(A, B) ==
    [xmin |-> Smaller(A.xmin, B.xmin), xmax |-> Larger(A.xmax, B.xmax),
     ymin |-> Smaller(A.ymin, B.ymin), ymax |-> Larger(A.ymax, B.ymax),
     area |-> A.area + B.area, xsum |-> A.xsum + B.xsum, ysum |-> A.ysum + B.ysum,
     parts |-> A.parts \o B.parts]

cc_merge(block, a, b) ==
    Block(block.ymin, block.ymax, block.rows, Owners(block, a, b),
          Without(With(block.cc, a, Merged(block.cc[a], block.cc[b])), b), block.list)

(* Ranges a and b of adjacent rows, above and below. *)
cc_neighbour_4(a, b) == ~ (a.xmax < b.xmin \/ a.xmin > b.xmax)
cc_neighbour_8(a, b) == ~ (a.xmax + 1 < b.xmin \/ a.xmin > b.xmax + 1)

linked(a, b) == IF eight THEN cc_neighbour_8(a, b) ELSE cc_neighbour_4(a, b)

Joined(block, ar, br) ==
    LET A == block.owner[ar]
        B == block.owner[br]
    IN  IF linked(ar, br) /\ A # B THEN cc_merge(cc_unlink(block, B), A, B) ELSE block

(* The range that ends first is left for the next one of its row. *)
StepA(ar, br) == ar.xmax <= br.xmax

Walk(i, j, block) == [i |-> i, j |-> j, block |-> block]

WalkStep(s, above, below) ==
    IF s.i > Len(above) \/ s.j > Len(below) THEN s
    ELSE LET block == Joined(s.block, above[s.i], below[s.j])
         IN  IF StepA(above[s.i], below[s.j]) THEN Walk(s.i + 1, s.j, block)
             ELSE Walk(s.i, s.j + 1, block)

(* The last row of a and the first of b are gone through together.  The fused
   block has the lists and rows of both, a's first. *)
Fused(a, b) == Block(a.ymin, b.ymax, a.rows \o b.rows, Together(a.owner, b.owner),
                     Together(a.cc, b.cc), a.list \o b.list)

cc_fuse_blocks(a, b) ==
    LET above == Last(a.rows)
        below == Head(b.rows)
        walk[n \in 0 .. Len(above) + Len(below)] ==
            IF n = 0 THEN Walk(1, 1, Fused(a, b)) ELSE WalkStep(walk[n - 1], above, below)
    IN  walk[Len(above) + Len(below)].block

(* The values of a row, from left to right; x = width ends the last range. *)
Scan(incomponent, start, end, block) ==
    [incomponent |-> incomponent, start |-> start, end |-> end, block |-> block]

ScanStep(s, x, set, width) ==
    IF x < width /\ x \in set THEN Scan(TRUE, IF s.incomponent THEN s.start ELSE x, x, s.block)
    ELSE IF s.incomponent THEN Scan(FALSE, s.start, s.end, cc_extend_block(s.block, s.start, s.end))
    ELSE s

cc_scan(set, width, block) ==
    LET done[n \in 0 .. width + 1] ==
            IF n = 0 THEN Scan(FALSE, 0, 0, block) ELSE ScanStep(done[n - 1], n - 1, set, width)
    IN  done[width + 1].block

(* The dictionary: components by number from 1, with their area, box, sums
   (whose quotient with the area is the centroid) and parts. *)
aktive_cc_as_tcl_dict(block) ==
    [n \in 1 .. Len(block.list) |->
        LET c == block.cc[block.list[n]] IN
        [area |-> c.area, box |-> << c.xmin, c.ymin, c.xmax, c.ymax >>,
         xsum |-> c.xsum, ysum |-> c.ysum, parts |-> c.parts]]

-----------------------------------------------------------------------------
InitComponents == /\ bitmap \in Bitmaps
                  /\ eight \in BOOLEAN
                  /\ blocks = {}
                  /\ unscanned = 0 .. bitmap.height - 1
                  /\ result = "none"

(* Row number y is requested at 0, y wherever the image is: what comes back of
   an image elsewhere is the part of it that lies there. *)
FetchedRow(y) == {x \in 0 .. bitmap.width - 1 : << x, y >> \in bitmap.set}

ScanRow == /\ \E y \in unscanned :
                  /\ blocks' = blocks \cup {cc_scan(FetchedRow(y), bitmap.width, cc_new_block(y))}
                  /\ unscanned' = unscanned \ {y}
           /\ UNCHANGED << bitmap, eight, result >>

FuseBlocks == /\ \E a, b \in blocks :
                     /\ a.ymax + 1 = b.ymin
                     /\ blocks' = (blocks \ {a, b}) \cup {cc_fuse_blocks(a, b)}
              /\ UNCHANGED << bitmap, eight, unscanned, result >>

(* The block that covers the image is converted and released. *)
Convert == /\ \E a \in blocks : /\ a.ymin = 0 /\ a.ymax = bitmap.height - 1
                                /\ result' = aktive_cc_as_tcl_dict(a)
                                /\ blocks' = {}
           /\ UNCHANGED << bitmap, eight, unscanned >>

ComponentStep == ScanRow \/ FuseBlocks \/ Convert

ComponentsSpec == InitComponents /\ [][ComponentStep]_ccVars

-----------------------------------------------------------------------------
(* What the components are: the classes of the positions that are set under
   the paths of neighbours. *)
Near(p, q) ==
    LET dx == p[1] - q[1]
        dy == p[2] - q[2]
    IN  IF eight THEN dx \in -1 .. 1 /\ dy \in -1 .. 1 ELSE dx * dx + dy * dy <= 1

Reached(set, p) ==
    LET grow[n \in 0 .. Cardinality(set)] ==
            IF n = 0 THEN {p} ELSE UNION {{q \in set : Near(o, q)} : o \in grow[n - 1]}
    IN  grow[Cardinality(set)]

Classes(set) == {Reached(set, p) : p \in set}

Positions(range) == (range.xmin .. range.xmax) \X {range.y}

Covered(c) == UNION {Positions(r) : r \in ToSet(c.parts)}

(* The sum of coordinate k, 1 or 2, of the positions of S, all below n. *)
Weight(S, k, m) == m * Cardinality({p \in S : p[k] = m})

CoordinateSum(S, k, n) ==
    LET sum[m \in 0 .. n] == IF m = 0 THEN 0 ELSE sum[m - 1] + Weight(S, k, m - 1)
    IN  sum[n]

(* The data of a component are those of its positions. *)
DataExact(c) ==
    LET S == Covered(c) IN
    /\ c.area = Cardinality(S)
    /\ c.xsum = CoordinateSum(S, 1, bitmap.width)
    /\ c.ysum = CoordinateSum(S, 2, bitmap.height)
    /\ \A p \in S : p[1] \in c.xmin .. c.xmax /\ p[2] \in c.ymin .. c.ymax
    /\ \E p \in S : p[1] = c.xmin
    /\ \E p \in S : p[1] = c.xmax
    /\ \E p \in S : p[2] = c.ymin
    /\ \E p \in S : p[2] = c.ymax

(* In every block, however it came about, the components listed are those of
   what was fetched of the block's rows, each once, with its data; none is
   left over that was merged; and every range knows the component it belongs
   to, which the next fusion relies on (cc_scan, cc_fuse_blocks, cc_merge,
   cc_unlink). *)
ComponentsExact ==
    \A b \in blocks :
        LET set == UNION {FetchedRow(y) \X {y} : y \in b.ymin .. b.ymax}
        IN  /\ {Covered(b.cc[c]) : c \in ToSet(b.list)} = Classes(set)
            /\ Len(b.list) = Cardinality(Classes(set))
            /\ ToSet(b.list) = DOMAIN b.cc
            /\ \A c \in ToSet(b.list) : DataExact(b.cc[c])
            /\ \A r \in DOMAIN b.owner :
                   b.owner[r] \in DOMAIN b.cc /\ r \in ToSet(b.cc[b.owner[r]].parts)
=============================================================================
