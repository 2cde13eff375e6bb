--------------------------- MODULE OperationsProofs ---------------------------
(***************************************************************************)
(* The split of a request by the borders of an image, for every image and  *)
(* every request of at least one position: the zones outside and the part  *)
(* inside lie in the block of the request, cover it, and do not overlap.   *)
(*                                                                         *)
(* Each of the pieces is described by the positions it has, relative to    *)
(* the request; the rest is arithmetic on the borders.                     *)
(*                                                                         *)
(* What intersection, union and inclusion of rectangles are.               *)
(*                                                                         *)
(* For any number of threads and rows, in either of the caches that are    *)
(* filled by such fetches, FillOnce: what is copied is complete, and       *)
(* nothing is filled twice.                                                *)
(*                                                                         *)
(* The components that the block operations of ConnectedComponents find    *)
(* are the classes of the positions that are set, for every image.         *)
(*                                                                         *)
(* And what a fetch leaves in the block of a request: the pixels that the  *)
(* operator promises inside of the image, and zero outside of it.          *)
(*                                                                         *)
(* Numbers written one after the other, in any of the encodings, come back *)
(* as they were, from a file as from a string.                             *)
(***************************************************************************)
EXTENDS PixelFetch, FillOnce, ConnectedComponents, NumberStreams, FiniteSetTheorems, SequenceTheorems, TLAPS

(* The part inside, as a piece of the block. *)
Core(d, r) == Destination(aktive_rectangle_intersect(d, r), r)

Pieces(d, r) == aktive_rectangle_outzones(d, r) \cup {Core(d, r)}

(* An area that meets the domain has some part inside. *)
LEMMA MeetsNotEmpty ==
    ASSUME NEW d \in Rectangles, NEW r \in Rectangles
    PROVE  aktive_rectangle_is_empty(aktive_rectangle_intersect(d, r)) <=> Apart(d, r)
  BY DEF Rectangles, aktive_rectangle_is_empty, aktive_rectangle_intersect, Apart,
         aktive_rectangle, Xmax, Ymax, Minimum, Maximum

(* What each of the pieces is. *)
LEMMA PieceIs ==
    ASSUME NEW d \in Rectangles, NEW r \in Rectangles, ~ Apart(d, r), NEW z
    PROVE  z \in Pieces(d, r) <=>
              \/ Top(d, r) > 0 /\ z = ZoneA(d, r)
              \/ Bottom(d, r) > 0 /\ z = ZoneB(d, r)
              \/ Left(d, r) > 0 /\ z = ZoneC(d, r)
              \/ Right(d, r) > 0 /\ z = ZoneD(d, r)
              \/ z = Core(d, r)
  BY MeetsNotEmpty DEF Pieces, aktive_rectangle_outzones

(* The borders, counted from those of the request. *)
LEMMA Borders ==
    ASSUME NEW d \in Rectangles, NEW r \in Rectangles, ~ Apart(d, r)
    PROVE  /\ Top(d, r) \in Int /\ Bottom(d, r) \in Int /\ Left(d, r) \in Int /\ Right(d, r) \in Int
           /\ d.width \in Nat \ {0} /\ d.height \in Nat \ {0}
           /\ r.width = Left(d, r) + d.width + Right(d, r)
           /\ r.height = Top(d, r) + d.height + Bottom(d, r)
           /\ Left(d, r) < r.width /\ Top(d, r) < r.height
           /\ Right(d, r) < r.width /\ Bottom(d, r) < r.height
           /\ r.width \in Nat \ {0} /\ r.height \in Nat \ {0}
  BY DEF Rectangles, Apart, Xmax, Ymax, Top, Bottom, Left, Right

(* The positions from x1 to below x2, and from y1 to below y2. *)
Has(x1, x2, y1, y2, x, y) == x1 <= x /\ x < x2 /\ y1 <= y /\ y < y2

LEMMA ContainsHas ==
    ASSUME NEW x1 \in Int, NEW y1 \in Int, NEW w \in Int, NEW h \in Int, NEW x \in Int, NEW y \in Int
    PROVE  aktive_rectangle_contains(aktive_rectangle(x1, y1, w, h), aktive_point(x, y))
               <=> Has(x1, x1 + w, y1, y1 + h, x, y)
  BY DEF aktive_rectangle_contains, aktive_rectangle, aktive_point, Xmax, Ymax, Has

(* The part inside begins at the border that comes later, and ends at the one
   that comes first. *)
LEMMA CoreIs ==
    ASSUME NEW d \in Rectangles, NEW r \in Rectangles, ~ Apart(d, r)
    PROVE  LET x1 == Maximum(Left(d, r), 0)
               x2 == Minimum(Left(d, r) + d.width, r.width)
               y1 == Maximum(Top(d, r), 0)
               y2 == Minimum(Top(d, r) + d.height, r.height)
           IN  Core(d, r) = aktive_rectangle(x1, y1, x2 - x1, y2 - y1)
  <1> DEFINE nx == Maximum(r.x, d.x)
             ny == Maximum(r.y, d.y)
             mx == Minimum(Xmax(r), Xmax(d))
             my == Minimum(Ymax(r), Ymax(d))
  <1>1. aktive_rectangle_intersect(d, r) = aktive_rectangle(nx, ny, mx - nx, my - ny)
    BY DEF aktive_rectangle_intersect
  <1>2. Core(d, r) = aktive_rectangle(nx + (- r.x), ny + (- r.y), mx - nx, my - ny)
    BY <1>1 DEF Core, Destination, aktive_rectangle_move, aktive_rectangle
  <1>3. /\ nx + (- r.x) = Maximum(Left(d, r), 0)
        /\ mx - nx = Minimum(Left(d, r) + d.width, r.width) - Maximum(Left(d, r), 0)
    BY DEF Rectangles, Maximum, Minimum, Xmax, Left
  <1>4. /\ ny + (- r.y) = Maximum(Top(d, r), 0)
        /\ my - ny = Minimum(Top(d, r) + d.height, r.height) - Maximum(Top(d, r), 0)
    BY DEF Rectangles, Maximum, Minimum, Ymax, Top
  <1> QED  BY <1>2, <1>3, <1>4

(* The same of the pieces.  C, D and the core have the rows that the domain
   and the request have in common. *)
LEMMA PiecesHave ==
    ASSUME NEW d \in Rectangles, NEW r \in Rectangles, ~ Apart(d, r), NEW x \in Int, NEW y \in Int
    PROVE  LET p  == aktive_point(x, y)
               y1 == Maximum(Top(d, r), 0)
               y2 == Minimum(Top(d, r) + d.height, r.height)
           IN  /\ aktive_rectangle_contains(ZoneA(d, r), p) <=> Has(0, r.width, 0, Top(d, r), x, y)
               /\ aktive_rectangle_contains(ZoneB(d, r), p)
                      <=> Has(0, r.width, Top(d, r) + d.height, r.height, x, y)
               /\ aktive_rectangle_contains(ZoneC(d, r), p) <=> Has(0, Left(d, r), y1, y2, x, y)
               /\ aktive_rectangle_contains(ZoneD(d, r), p)
                      <=> Has(Left(d, r) + d.width, r.width, y1, y2, x, y)
               /\ aktive_rectangle_contains(Core(d, r), p)
                      <=> Has(Maximum(Left(d, r), 0), Minimum(Left(d, r) + d.width, r.width), y1, y2, x, y)
  <1> DEFINE y1 == Maximum(Top(d, r), 0)
             y2 == Minimum(Top(d, r) + d.height, r.height)
  <1>1. y1 \in Int /\ y2 \in Int /\ d.height + HADJ(d, r) = y2 - y1
    BY Borders DEF Maximum, Minimum, HADJ
  <1>2. ZoneA(d, r) = aktive_rectangle(0, 0, r.width, Top(d, r))
    BY DEF ZoneA
  <1>3. ZoneB(d, r) = aktive_rectangle(0, Top(d, r) + d.height, r.width, Bottom(d, r))
    BY DEF ZoneB
  <1>4. ZoneC(d, r) = aktive_rectangle(0, y1, Left(d, r), y2 - y1)
    BY <1>1 DEF ZoneC, TP
  <1>5. ZoneD(d, r) = aktive_rectangle(Left(d, r) + d.width, y1, Right(d, r), y2 - y1)
    BY <1>1 DEF ZoneD, TP
  <1>6. Core(d, r) = aktive_rectangle(Maximum(Left(d, r), 0), y1,
                         Minimum(Left(d, r) + d.width, r.width) - Maximum(Left(d, r), 0), y2 - y1)
    BY CoreIs
  <1> DEFINE x1 == Maximum(Left(d, r), 0)
             x2 == Minimum(Left(d, r) + d.width, r.width)
  <1>7. x1 \in Int /\ x2 \in Int
    BY Borders DEF Maximum, Minimum
  <1> HIDE DEF x1, x2, y1, y2
  <1>8. /\ aktive_rectangle_contains(ZoneA(d, r), aktive_point(x, y))
               <=> Has(0, r.width, 0, Top(d, r), x, y)
        /\ aktive_rectangle_contains(ZoneB(d, r), aktive_point(x, y))
               <=> Has(0, r.width, Top(d, r) + d.height, r.height, x, y)
    <2>1. aktive_rectangle_contains(ZoneA(d, r), aktive_point(x, y))
              <=> Has(0, 0 + r.width, 0, 0 + Top(d, r), x, y)
      BY <1>2, Borders
         DEF aktive_rectangle_contains, aktive_rectangle, aktive_point, Xmax, Ymax, Has
    <2> DEFINE b == Top(d, r) + d.height
    <2>2. b \in Int /\ b + Bottom(d, r) = r.height
      BY Borders
    <2>3. aktive_rectangle_contains(ZoneB(d, r), aktive_point(x, y))
              <=> Has(0, 0 + r.width, b, b + Bottom(d, r), x, y)
      BY <1>3, <2>2, Borders
         DEF aktive_rectangle_contains, aktive_rectangle, aktive_point, Xmax, Ymax, Has
    <2> QED  BY <2>1, <2>2, <2>3, Borders DEF Has
  <1>9. /\ aktive_rectangle_contains(ZoneC(d, r), aktive_point(x, y))
               <=> Has(0, Left(d, r), y1, y2, x, y)
        /\ aktive_rectangle_contains(ZoneD(d, r), aktive_point(x, y))
               <=> Has(Left(d, r) + d.width, r.width, y1, y2, x, y)
    <2>1. aktive_rectangle_contains(ZoneC(d, r), aktive_point(x, y))
              <=> Has(0, 0 + Left(d, r), y1, y1 + (y2 - y1), x, y)
      BY <1>1, <1>4, Borders
         DEF aktive_rectangle_contains, aktive_rectangle, aktive_point, Xmax, Ymax, Has
    <2> DEFINE a == Left(d, r) + d.width
    <2>2. a \in Int /\ a + Right(d, r) = r.width
      BY Borders
    <2>3. aktive_rectangle_contains(ZoneD(d, r), aktive_point(x, y))
              <=> Has(a, a + Right(d, r), y1, y1 + (y2 - y1), x, y)
      BY <1>1, <1>5, <2>2, Borders, SMTT(20)
         DEF aktive_rectangle_contains, aktive_rectangle, aktive_point, Xmax, Ymax, Has
    <2> QED  BY <1>1, <2>1, <2>2, <2>3, Borders DEF Has
  <1>10. aktive_rectangle_contains(Core(d, r), aktive_point(x, y)) <=> Has(x1, x2, y1, y2, x, y)
    <2>1. PICK w, h : w = x2 - x1 /\ h = y2 - y1
      OBVIOUS
    <2>2. w \in Int /\ h \in Int /\ x1 + w = x2 /\ y1 + h = y2
      BY <1>1, <1>7, <2>1
    <2>3. Core(d, r) = aktive_rectangle(x1, y1, w, h)
      BY <1>6, <2>1, Zenon DEF x1, x2
    <2>4. aktive_rectangle_contains(aktive_rectangle(x1, y1, w, h), aktive_point(x, y))
              <=> Has(x1, x1 + w, y1, y1 + h, x, y)
      BY <1>1, <1>7, <2>2, ContainsHas
    <2> QED  BY <2>2, <2>3, <2>4, Zenon
  <1> QED  BY <1>8, <1>9, <1>10 DEF x1, x2, y1, y2

LEMMA Covering ==
    ASSUME NEW d \in Rectangles, NEW r \in Rectangles, ~ Apart(d, r),
           NEW x \in 0 .. r.width - 1, NEW y \in 0 .. r.height - 1
    PROVE  \E z \in Pieces(d, r) : aktive_rectangle_contains(z, aktive_point(x, y))
  <1> DEFINE p == aktive_point(x, y)
  <1>1. \/ Top(d, r) > 0 /\ aktive_rectangle_contains(ZoneA(d, r), p)
        \/ Bottom(d, r) > 0 /\ aktive_rectangle_contains(ZoneB(d, r), p)
        \/ Left(d, r) > 0 /\ aktive_rectangle_contains(ZoneC(d, r), p)
        \/ Right(d, r) > 0 /\ aktive_rectangle_contains(ZoneD(d, r), p)
        \/ aktive_rectangle_contains(Core(d, r), p)
    BY Borders, PiecesHave DEF Has, Maximum, Minimum
  <1> QED  BY <1>1, PieceIs

LEMMA NoOverlap ==
    ASSUME NEW d \in Rectangles, NEW r \in Rectangles, ~ Apart(d, r),
           NEW x \in 0 .. r.width - 1, NEW y \in 0 .. r.height - 1,
           NEW z \in Pieces(d, r), NEW o \in Pieces(d, r),
           aktive_rectangle_contains(z, aktive_point(x, y)),
           aktive_rectangle_contains(o, aktive_point(x, y))
    PROVE  z = o
  <1> DEFINE In(q) == aktive_rectangle_contains(q, aktive_point(x, y))
  <1>1. /\ In(ZoneA(d, r)) => ~ In(ZoneB(d, r)) /\ ~ In(ZoneC(d, r)) /\ ~ In(ZoneD(d, r)) /\ ~ In(Core(d, r))
        /\ In(ZoneB(d, r)) => ~ In(ZoneC(d, r)) /\ ~ In(ZoneD(d, r)) /\ ~ In(Core(d, r))
        /\ In(ZoneC(d, r)) => ~ In(ZoneD(d, r)) /\ ~ In(Core(d, r))
        /\ In(ZoneD(d, r)) => ~ In(Core(d, r))
    BY Borders, PiecesHave DEF Has, Maximum, Minimum
  <1> QED  BY <1>1, PieceIs

LEMMA WithinBlock ==
    ASSUME NEW d \in Rectangles, NEW r \in Rectangles, ~ Apart(d, r), NEW z \in Pieces(d, r)
    PROVE  aktive_rectangle_is_subset(z, aktive_rectangle(0, 0, r.width, r.height))
  <1> USE DEF aktive_rectangle_is_subset, aktive_rectangle, Xmax, Ymax
  <1>1. (Top(d, r) > 0 /\ z = ZoneA(d, r)) \/ (Bottom(d, r) > 0 /\ z = ZoneB(d, r))
            => aktive_rectangle_is_subset(z, aktive_rectangle(0, 0, r.width, r.height))
    BY Borders DEF ZoneA, ZoneB
  <1>2. (Left(d, r) > 0 /\ z = ZoneC(d, r)) \/ (Right(d, r) > 0 /\ z = ZoneD(d, r))
            => aktive_rectangle_is_subset(z, aktive_rectangle(0, 0, r.width, r.height))
    BY Borders DEF ZoneC, ZoneD, TP, HADJ, Maximum, Minimum
  <1>3. z = Core(d, r) => aktive_rectangle_is_subset(z, aktive_rectangle(0, 0, r.width, r.height))
    <2> DEFINE x1 == Maximum(Left(d, r), 0)
               x2 == Minimum(Left(d, r) + d.width, r.width)
               y1 == Maximum(Top(d, r), 0)
               y2 == Minimum(Top(d, r) + d.height, r.height)
    <2>1. Core(d, r) = aktive_rectangle(x1, y1, x2 - x1, y2 - y1)
      BY CoreIs
    <2>2. x1 \in Int /\ x2 \in Int /\ 0 <= x1 /\ x2 <= r.width
      BY Borders DEF Maximum, Minimum
    <2>3. y1 \in Int /\ y2 \in Int /\ 0 <= y1 /\ y2 <= r.height
      BY Borders DEF Maximum, Minimum
    <2> HIDE DEF x1, x2, y1, y2
    <2> QED  BY <2>1, <2>2, <2>3, Borders
  <1> HIDE DEF aktive_rectangle_is_subset, aktive_rectangle, Xmax, Ymax
  <1> QED  BY <1>1, <1>2, <1>3, PieceIs

-----------------------------------------------------------------------------
(* An area is split only if it meets the image. *)
SplitInv == /\ domain \in Rectangles
            /\ wanted \in Rectangles
            /\ stage # "done" => request = wanted
            /\ stage = "zones" => ~ Apart(domain, request)

LEMMA Inductive == FetchSpec => []SplitInv
  <1>1. InitFetch => SplitInv
    BY DomainsAssumption, RequestsAssumption
       DEF InitFetch, SplitInv, Rectangles, aktive_rectangle_move, aktive_rectangle
  <1>2. SplitInv /\ [FetchStep]_fetchVars => SplitInv'
    <2> SUFFICES ASSUME SplitInv, [FetchStep]_fetchVars PROVE SplitInv'
      OBVIOUS
    <2>1. CASE Split
      BY <2>1, MeetsNotEmpty DEF Split, SplitInv
    <2>2. CASE SetupBlock
      BY <2>2 DEF SetupBlock, SplitInv
    <2>3. CASE ClearZone
      BY <2>3 DEF ClearZone, SplitInv
    <2>4. CASE Fetch
      BY <2>4 DEF Fetch, SplitInv
    <2>5. CASE UNCHANGED fetchVars
      BY <2>5 DEF fetchVars, SplitInv
    <2> QED  BY <2>1, <2>2, <2>3, <2>4, <2>5 DEF FetchStep
  <1> QED  BY <1>1, <1>2, PTL DEF FetchSpec

(* However the request and the image lie, the zones that are cleared and the
   part that the operator is asked for make up the block, without overlap
   (aktive_rectangle_outzones, aktive_region_fetch_area). *)
THEOREM SplitIsPartition == FetchSpec => []ZonesPartition
  <1>1. SplitInv => ZonesPartition
    <2> SUFFICES ASSUME SplitInv, stage = "zones" PROVE ZonesPartition
      BY DEF ZonesPartition
    <2>1. Parts = Pieces(domain, request)
      BY DEF Parts, Pieces, Core
    <2>2. request \in Rectangles
      BY DEF SplitInv
    <2> QED  BY <2>1, <2>2, Covering, NoOverlap, WithinBlock DEF SplitInv, ZonesPartition
  <1> QED  BY <1>1, Inductive, PTL

-----------------------------------------------------------------------------
(* What the functions of runtime/rectangle.c that combine two rectangles
   return, in terms of the positions that the rectangles have.  The requests
   need no more of them than the intersection; the theorems are for all
   rectangles, those of fractional positions in a common unit. *)
FRectangles == [xlo : Int, ylo : Int, xhi : Int, yhi : Int]

Spots == [x : Int, y : Int]

USE DEF Rectangles, FRectangles, Spots, Minimum, Maximum, Xmax, Ymax,
        aktive_rectangle, aktive_frectangle

(* The intersection has the positions that both rectangles have, also when
   there are none (aktive_rectangle_intersect). *)
THEOREM IntersectIsMeet ==
    ASSUME NEW a \in Rectangles, NEW b \in Rectangles, NEW p \in Spots
    PROVE  aktive_rectangle_contains(aktive_rectangle_intersect(a, b), p)
               <=> aktive_rectangle_contains(a, p) /\ aktive_rectangle_contains(b, p)
  <1>1. CASE Apart(a, b)
    BY <1>1 DEF Apart, aktive_rectangle_intersect, aktive_rectangle_contains
  <1>2. CASE ~ Apart(a, b)
    BY <1>2 DEF Apart, aktive_rectangle_intersect, aktive_rectangle_contains
  <1> QED  BY <1>1, <1>2

(* The union contains both rectangles and is contained in every rectangle that
   does (aktive_rectangle_union). *)
THEOREM UnionIsLeast ==
    ASSUME NEW a \in Rectangles, NEW b \in Rectangles, NEW c \in Rectangles
    PROVE  aktive_rectangle_is_subset(aktive_rectangle_union(a, b), c)
               <=> aktive_rectangle_is_subset(a, c) /\ aktive_rectangle_is_subset(b, c)
  <1>1. aktive_rectangle_union(a, b) \in Rectangles
    BY DEF aktive_rectangle_union
  <1>2. /\ Xmax(aktive_rectangle_union(a, b)) = Maximum(Xmax(b), Xmax(a))
        /\ Ymax(aktive_rectangle_union(a, b)) = Maximum(Ymax(b), Ymax(a))
    BY DEF aktive_rectangle_union
  <1>3. /\ aktive_rectangle_union(a, b).x = Minimum(b.x, a.x)
        /\ aktive_rectangle_union(a, b).y = Minimum(b.y, a.y)
    BY DEF aktive_rectangle_union
  <1> QED  BY <1>1, <1>2, <1>3 DEF aktive_rectangle_is_subset

(* A rectangle is a subset of another just if it has no position which that
   has not (aktive_rectangle_is_subset, aktive_rectangle_contains). *)
THEOREM SubsetIsInclusion ==
    ASSUME NEW a \in Rectangles, NEW b \in Rectangles
    PROVE  aktive_rectangle_is_subset(a, b)
               <=> \A p \in Spots : aktive_rectangle_contains(a, p) => aktive_rectangle_contains(b, p)
  <1>1. ASSUME aktive_rectangle_is_subset(a, b)
        PROVE  \A p \in Spots : aktive_rectangle_contains(a, p) => aktive_rectangle_contains(b, p)
    BY <1>1 DEF aktive_rectangle_is_subset, aktive_rectangle_contains
  <1>2. ASSUME \A p \in Spots : aktive_rectangle_contains(a, p) => aktive_rectangle_contains(b, p)
        PROVE  aktive_rectangle_is_subset(a, b)
    <2> DEFINE first == aktive_point(a.x, a.y)
               last  == aktive_point(Xmax(a) - 1, Ymax(a) - 1)
    <2>1. first \in Spots /\ aktive_rectangle_contains(a, first)
      BY DEF aktive_point, aktive_rectangle_contains
    <2>2. last \in Spots /\ aktive_rectangle_contains(a, last)
      BY DEF aktive_point, aktive_rectangle_contains
    <2>3. aktive_rectangle_contains(b, first) /\ aktive_rectangle_contains(b, last)
      BY <1>2, <2>1, <2>2
    <2> QED  BY <2>3 DEF aktive_point, aktive_rectangle_contains, aktive_rectangle_is_subset
  <1> QED  BY <1>1, <1>2

(* The same of rectangles that include their borders: the intersection is
   empty just if no position is in both (aktive_frectangle_intersect). *)
THEOREM FIntersectIsMeet ==
    ASSUME NEW a \in FRectangles, NEW b \in FRectangles, NEW p \in Spots
    PROVE  aktive_frectangle_contains(aktive_frectangle_intersect(a, b), p)
               <=> aktive_frectangle_contains(a, p) /\ aktive_frectangle_contains(b, p)
  BY DEF aktive_frectangle_intersect, aktive_frectangle_contains

(* And the union is the least that contains both (aktive_frectangle_union). *)
THEOREM FUnionIsLeast ==
    ASSUME NEW a \in FRectangles, NEW b \in FRectangles, NEW c \in FRectangles
    PROVE  aktive_frectangle_is_subset(aktive_frectangle_union(a, b), c)
               <=> aktive_frectangle_is_subset(a, c) /\ aktive_frectangle_is_subset(b, c)
  BY DEF aktive_frectangle_union, aktive_frectangle_is_subset

HIDE DEF Rectangles, FRectangles, Spots, Minimum, Maximum, Xmax, Ymax,
         aktive_rectangle, aktive_frectangle

-----------------------------------------------------------------------------
(* The caches that fetches fill.  The invariant says who holds the mutex of a
   memory, and that the flag of a memory is never ahead of its rows: a thread
   that fills has the mutex and finds the flag unset, so that no other fills
   the same memory, and a thread that reads has found the flag set. *)

Places == {"idle", "check", "lock", "recheck", "fill", "unlock", "read"}

Types == /\ cache \in {"gic", "iveccache"}
         /\ memory \in [RowSet -> {"unset", "zero", "row"}]
         /\ filled \in SUBSET RowSet
         /\ holder \in [RowSet -> Readers \cup {Free}]
         /\ place \in [Readers -> Places]
         /\ want \in [Readers -> RowSet]
         /\ missing \in [Readers -> SUBSET RowSet]
         /\ filling \in [RowSet -> Nat]

(* A thread between lock and unlock is the holder. *)
Holding == \A t \in Readers :
               place[t] \in {"recheck", "fill", "unlock"} => holder[Memory(want[t])] = t

(* The memory of a set flag is complete. *)
FlagTrue == \A row \in RowSet : Memory(row) \in filled => memory[row] = "row"

(* A thread that fills has done what it no longer misses, its flag is not set;
   one behind that has found the flag set, or set it. *)
Progress == \A t \in Readers :
                /\ place[t] = "fill" =>
                       /\ Memory(want[t]) \notin filled
                       /\ \A row \in RowSet : Memory(row) = Memory(want[t]) /\ row \notin missing[t]
                              => memory[row] = "row"
                       /\ \A row \in missing[t] : Memory(row) = Memory(want[t])
                /\ place[t] \in {"unlock", "read"} => Memory(want[t]) \in filled

(* A fill that was begun is done, or a thread is at it. *)
Begun == \A m \in RowSet :
             /\ filling[m] <= 1
             /\ filling[m] # 0 /\ m \notin filled
                    => \E t \in Readers : place[t] = "fill" /\ Memory(want[t]) = m

IInv == Types /\ Holding /\ FlagTrue /\ Progress /\ Begun

LEMMA MemoryIsRow == ASSUME NEW row \in RowSet PROVE Memory(row) \in RowSet
  BY NumRowsAssumption DEF Memory, RowSet

LEMMA InitInv == InitOnce => IInv
  <1> SUFFICES ASSUME InitOnce PROVE IInv
    OBVIOUS
  <1>1. Types
    BY NumRowsAssumption DEF InitOnce, Types, Places, RowSet
  <1>2. Holding /\ Progress /\ Begun
    BY DEF InitOnce, Holding, Progress, Begun
  <1>3. FlagTrue
    BY DEF InitOnce, FlagTrue
  <1> QED  BY <1>1, <1>2, <1>3 DEF IInv

(* The steps that change only where a thread is, and what it is asked for. *)
LEMMA StepMoves ==
    ASSUME IInv, NEW t \in Readers, Request(t) \/ FirstCheck(t) \/ Copied(t)
    PROVE  IInv'
  <1> USE DEF IInv, At, GoTo, Mine
  <1>1. \A row \in RowSet : Memory(row)' = Memory(row)
    BY DEF Request, FirstCheck, Copied, Memory
  <1>2. /\ UNCHANGED << cache, memory, filled, holder, missing, filling >>
        /\ want' \in [Readers -> RowSet] /\ place' \in [Readers -> Places]
        /\ place[t] \notin {"recheck", "fill", "unlock"}
        /\ place'[t] \notin {"recheck", "fill", "unlock"}
        /\ \A s \in Readers \ {t} : place'[s] = place[s] /\ want'[s] = want[s]
        /\ place'[t] = "read" => Memory(want[t]) \in filled /\ want' = want
    <2>1. CASE Request(t)
      BY <2>1 DEF Request, Types, Places
    <2>2. CASE FirstCheck(t)
      BY <2>2 DEF FirstCheck, Types, Places
    <2>3. CASE Copied(t)
      BY <2>3, NumRowsAssumption DEF Copied, Types, Places, RowSet
    <2> QED  BY <2>1, <2>2, <2>3
  <1>3. Types' /\ FlagTrue'
    BY <1>1, <1>2 DEF Types, FlagTrue
  <1>4. Holding'
    BY <1>1, <1>2, MemoryIsRow DEF Holding, Types
  <1>5. Progress'
    <2> SUFFICES ASSUME NEW s \in Readers
                 PROVE  /\ place'[s] = "fill" =>
                               /\ Memory(want[s])' \notin filled'
                               /\ \A row \in RowSet : Memory(row)' = Memory(want[s])' /\ row \notin missing'[s]
                                      => memory'[row] = "row"
                               /\ \A row \in missing'[s] : Memory(row)' = Memory(want[s])'
                        /\ place'[s] \in {"unlock", "read"} => Memory(want[s])' \in filled'
      BY DEF Progress
    <2>1. Memory(want[s])' = IF cache' = "gic" THEN 0 ELSE want'[s]
      BY DEF Memory
    <2>2. Memory(want[s]) = IF cache = "gic" THEN 0 ELSE want[s]
      BY DEF Memory
    <2> QED  BY <1>1, <1>2, <2>1, <2>2 DEF Progress, Types
  <1>6. Begun'
    BY <1>1, <1>2, MemoryIsRow DEF Begun, Types, Memory
  <1> QED  BY <1>3, <1>4, <1>5, <1>6

LEMMA StepClaim == ASSUME IInv, NEW t \in Readers, Claim(t) PROVE IInv'
  <1> USE DEF IInv, At, GoTo, Mine, Claim
  <1>1. Types'
    BY MemoryIsRow DEF Types, Places
  <1>2. Holding'
    <2> USE DEF Types, Holding
    <2>1. \A s \in Readers : Memory(want[s])' = Memory(want[s]) /\ Memory(want[s]) \in RowSet
      BY MemoryIsRow DEF Memory
    <2>2. \A s \in Readers \ {t} :
              place[s] \in {"recheck", "fill", "unlock"} => Memory(want[s]) # Memory(want[t])
      BY ReadersAssumption
    <2>3. /\ place'[t] = "recheck" /\ holder'[Memory(want[t])] = t
          /\ \A s \in Readers \ {t} : place'[s] = place[s]
          /\ \A m \in RowSet \ {Memory(want[t])} : holder'[m] = holder[m]
      BY <2>1
    <2> QED  BY <2>1, <2>2, <2>3
  <1>3. FlagTrue' /\ Progress'
    BY DEF FlagTrue, Progress, Types, Memory
  <1>4. Begun'
    BY DEF Begun, Types, Memory
  <1> QED  BY <1>1, <1>2, <1>3, <1>4

(* No other thread fills the memory whose mutex a thread has. *)
LEMMA Alone ==
    ASSUME IInv, NEW t \in Readers, NEW s \in Readers,
           place[t] \in {"recheck", "fill", "unlock"}, place[s] \in {"recheck", "fill", "unlock"},
           Memory(want[t]) = Memory(want[s])
    PROVE  s = t
  BY DEF IInv, Holding

LEMMA StepSecondCheck == ASSUME IInv, NEW t \in Readers, SecondCheck(t) PROVE IInv'
  <1> USE DEF IInv, At, GoTo, Mine
  <1>1. CASE /\ Mine(t) \in filled /\ GoTo(t, "unlock")
             /\ UNCHANGED << memory, missing, filling, cache, filled, holder, want >>
    <2>1. Types' /\ Holding' /\ FlagTrue'
      BY <1>1 DEF SecondCheck, Types, Places, Holding, FlagTrue, Memory
    <2>2. Progress'
      BY <1>1 DEF SecondCheck, Types, Progress, Memory
    <2>3. Begun'
      BY <1>1 DEF SecondCheck, Types, Begun, Memory
    <2> QED  BY <2>1, <2>2, <2>3
  <1>2. CASE Mine(t) \notin filled /\ BeginFill(t) /\ UNCHANGED << cache, filled, holder, want >>
    <2> USE <1>2 DEF BeginFill, SecondCheck
    <2>1. Types'
      BY MemoryIsRow DEF Types, Places, RowsOf, Fresh
    <2>2. Holding'
      BY DEF Types, Holding, Memory
    <2>3. \A row \in RowSet : Memory(row) # Memory(want[t]) => memory'[row] = memory[row]
      BY DEF RowsOf, Types
    <2>4. FlagTrue'
      BY <2>3 DEF FlagTrue, Memory
    <2>5. \A s \in Readers : Memory(want[s])' = Memory(want[s])
      BY DEF Memory
    <2>6. \A row \in RowSet : Memory(row)' = Memory(row)
      BY DEF Memory
    <2>7. missing'[t] = {row \in RowSet : Memory(row) = Memory(want[t])}
      BY DEF RowsOf, Types
    <2>8. Progress'
      <3>1. /\ place'[t] = "fill"
            /\ \A s \in Readers \ {t} : place'[s] = place[s] /\ missing'[s] = missing[s]
        BY DEF Types
      <3>2. \A s \in Readers \ {t} : place[s] = "fill" => Memory(want[s]) # Memory(want[t])
        BY Alone
      <3> QED  BY <2>3, <2>5, <2>6, <2>7, <3>1, <3>2 DEF Progress, Types
    <2>9. Begun'
      <3>1. \A s \in Readers : place[s] = "fill" => Memory(want[s]) # Memory(want[t])
        BY Alone DEF SecondCheck
      <3>2. Memory(want[t]) \in RowSet
        BY MemoryIsRow DEF Types
      <3>3. filling[Memory(want[t])] = 0
        BY <3>1, <3>2 DEF Begun, Types
      <3>4. /\ place'[t] = "fill"
            /\ \A s \in Readers \ {t} : place'[s] = place[s]
            /\ filling' = [filling EXCEPT ![Memory(want[t])] = @ + 1]
        BY DEF Types
      <3> QED  BY <2>5, <3>2, <3>3, <3>4 DEF Begun, Types
    <2> QED  BY <2>1, <2>2, <2>4, <2>8, <2>9
  <1> QED  BY <1>1, <1>2 DEF SecondCheck

LEMMA StepFillRow == ASSUME IInv, NEW t \in Readers, FillRow(t) PROVE IInv'
  <1> USE DEF IInv, At, GoTo, Mine, FillRow
  <1>1. PICK done \in missing[t] : /\ memory' = [memory EXCEPT ![done] = "row"]
                                   /\ missing' = [missing EXCEPT ![t] = @ \ {done}]
    OBVIOUS
  <1>2. Types' /\ Holding' /\ FlagTrue'
    BY <1>1 DEF Types, Places, Holding, FlagTrue, Memory
  <1>3. Progress'
    BY <1>1 DEF Types, Progress, Memory
  <1>4. Begun'
    BY DEF Types, Begun, Memory
  <1> QED  BY <1>2, <1>3, <1>4

LEMMA StepMarkFilled == ASSUME IInv, NEW t \in Readers, MarkFilled(t) PROVE IInv'
  <1> USE DEF IInv, At, GoTo, Mine, MarkFilled
  <1>0. \A row \in RowSet : Memory(row)' = Memory(row)
    BY DEF Memory
  <1>1. Types'
    BY MemoryIsRow DEF Types, Places
  <1>2. Holding'
    BY DEF Types, Holding, Memory
  <1>3. FlagTrue'
    BY <1>0 DEF Types, FlagTrue, Progress
  <1>4. Progress'
    <2>1. \A s \in Readers \ {t} : place[s] = "fill" => Memory(want[s]) # Memory(want[t])
      BY Alone
    <2>2. \A s \in Readers : Memory(want[s])' = Memory(want[s])
      BY DEF Memory
    <2> QED  BY <1>0, <2>1, <2>2 DEF Types, Progress
  <1>5. Begun'
    BY DEF Types, Begun, Memory
  <1> QED  BY <1>1, <1>2, <1>3, <1>4, <1>5

LEMMA StepRelease == ASSUME IInv, NEW t \in Readers, Release(t) PROVE IInv'
  <1> USE DEF IInv, At, GoTo, Mine, Release
  <1>1. Types' /\ FlagTrue'
    BY DEF Types, Places, FlagTrue, Memory
  <1>2. Holding'
    <2>1. \A s \in Readers \ {t} : place[s] \in {"recheck", "fill", "unlock"}
                                       => Memory(want[s]) # Memory(want[t])
      BY Alone
    <2>2. \A s \in Readers : Memory(want[s])' = Memory(want[s])
      BY DEF Memory
    <2> QED  BY <2>1, <2>2 DEF Types, Holding
  <1>3. Progress'
    BY DEF Types, Progress, Memory
  <1>4. Begun'
    BY DEF Types, Begun, Memory
  <1> QED  BY <1>1, <1>2, <1>3, <1>4

LEMMA StepInv == IInv /\ [OnceStep]_onceVars => IInv'
  <1> SUFFICES ASSUME IInv, [OnceStep]_onceVars PROVE IInv'
    OBVIOUS
  <1>1. CASE UNCHANGED onceVars
    BY <1>1 DEF onceVars, IInv, Types, Holding, FlagTrue, Progress, Begun, Memory
  <1>2. ASSUME NEW t \in Readers, Request(t) \/ FirstCheck(t) \/ Copied(t) PROVE IInv'
    BY <1>2, StepMoves
  <1> QED
    BY <1>1, <1>2, StepClaim, StepSecondCheck, StepFillRow, StepMarkFilled, StepRelease DEF OnceStep

LEMMA Invariance == OnceSpec => []IInv
  BY InitInv, StepInv, PTL DEF OnceSpec

(* The row that a thread copies is complete and stays so while it copies
   (aktive_gicache_fill, aktive_iveccache_get). *)
THEOREM CopiesAreComplete == OnceSpec => []CopyComplete
  <1>1. IInv => CopyComplete
    BY DEF IInv, Types, FlagTrue, Progress, CopyComplete, At
  <1> QED  BY <1>1, Invariance, PTL

(* However many threads ask for it at the same time, a memory is filled by one
   of them and once. *)
THEOREM FillsAreSingle == OnceSpec => []FilledOnce
  <1>1. IInv => FilledOnce
    BY DEF IInv, Begun, FilledOnce
  <1> QED  BY <1>1, Invariance, PTL

-----------------------------------------------------------------------------
(***************************************************************************)
(* Connected components.  For any image the components of a block are the  *)
(* classes of its positions.  A block is good when                         *)
(*   - its ranges are pieces of rows with gaps between those of one row,   *)
(*     they cover what was fetched, and the first and the last row have    *)
(*     theirs in order (Framed);                                           *)
(*   - the ranges of a component hang together, and its data are those of  *)
(*     its positions (Grouped);                                            *)
(*   - ranges that touch belong to the same component (Separate).          *)
(* A scan makes a good block.  While two blocks are fused the third of     *)
(* these is lost between the two rows that meet; the walk through them     *)
(* restores it, since the range that is left behind is linked to no range  *)
(* that is still to come (LeftBehind).                                     *)
(*                                                                         *)
(* The definitions are recursive functions of numbers: each exists by      *)
(* SetInduction, and what it computes is shown by it.                      *)
(***************************************************************************)
(* Induction: a set that has 0, and with a number the next one, has all. *)
LEMMA SetInduction ==
    ASSUME NEW S, 0 \in S, \A k \in Nat : k \in S => k + 1 \in S
    PROVE  \A n \in Nat : n \in S
  <1> SUFFICES ASSUME NEW m \in Nat, m \notin S PROVE FALSE
    OBVIOUS
  <1> DEFINE D == {k \in Nat : k <= m /\ k \notin S}
             f == [k \in D |-> k - 1]
  <1>1. \A k \in D : k - 1 \in D
    OBVIOUS
  <1>2. IsFiniteSet(D)
    BY FS_BoundedSetOfNaturals
  <1>3. f \in Injection(D, D)
    BY <1>1 DEF Injection, IsInjective
  <1>4. f \in Surjection(D, D)
    <2> HIDE DEF D, f
    <2> QED  BY <1>2, <1>3, FS_Injection
  <1>5. PICK k \in D : f[k] = m
    <2>1. m \in D
      OBVIOUS
    <2> HIDE DEF D, f
    <2> QED  BY <1>4, <2>1 DEF Surjection
  <1>6. k - 1 = m /\ k <= m /\ k \in Nat
    BY <1>5
  <1> QED  BY <1>6

-----------------------------------------------------------------------------
(* The running sums of a function. *)
Sums(f, G, n) == /\ f \in [0 .. n -> Nat] /\ f[0] = 0
                 /\ \A m \in 1 .. n : f[m] = f[m - 1] + G[m - 1]

(* There are such sums. *)
LEMMA SumsExist == ASSUME NEW G \in [Nat -> Nat], NEW n \in Nat PROVE \E f : Sums(f, G, n)
  <1> DEFINE E == {j \in Nat : \E f : Sums(f, G, j)}
  <1>1. 0 \in E
    <2>1. PICK f : f = [m \in 0 .. 0 |-> 0]
      OBVIOUS
    <2>2. Sums(f, G, 0)
      BY <2>1 DEF Sums
    <2> QED  BY <2>2
  <1>2. ASSUME NEW j \in Nat, j \in E PROVE j + 1 \in E
    <2>1. PICK f : Sums(f, G, j)
      BY <1>2
    <2>2. PICK g : g = [m \in 0 .. j + 1 |-> IF m <= j THEN f[m] ELSE f[j] + G[j]]
      OBVIOUS
    <2>3. g \in [0 .. j + 1 -> Nat] /\ g[0] = 0
      <3>1. f \in [0 .. j -> Nat]
        BY <2>1 DEF Sums
      <3>2. f[0] = 0
        BY <2>1 DEF Sums
      <3>3. ASSUME NEW m \in 0 .. j PROVE g[m] = f[m] /\ f[m] \in Nat
        <4>1. m \in 0 .. j + 1 /\ m <= j
          OBVIOUS
        <4>2. f[m] \in Nat
          BY <3>1
        <4>3. g[m] = f[m]
          BY <2>2, <4>1
        <4> QED  BY <4>2, <4>3
      <3>4. g[j + 1] \in Nat
        <4>1. j + 1 \in 0 .. j + 1 /\ ~ (j + 1 <= j) /\ j \in 0 .. j
          OBVIOUS
        <4>2. g[j + 1] = f[j] + G[j]
          BY <2>2, <4>1
        <4>3. f[j] \in Nat
          BY <3>1, <4>1
        <4>4. G[j] \in Nat
          OBVIOUS
        <4> QED  BY <4>2, <4>3, <4>4
      <3>5. ASSUME NEW m \in 0 .. j + 1 PROVE g[m] \in Nat
        <4>1. CASE m = j + 1
          BY <3>4, <4>1
        <4>2. CASE m # j + 1
          <5>1. m \in 0 .. j
            BY <4>2
          <5> QED  BY <3>3, <5>1
        <4> QED  BY <4>1, <4>2
      <3>6. g \in [0 .. j + 1 -> Nat]
        BY <2>2, <3>5
      <3>7. 0 \in 0 .. j
        OBVIOUS
      <3>8. g[0] = 0
        BY <3>2, <3>3, <3>7
      <3> QED  BY <3>6, <3>8
    <2>4. ASSUME NEW m \in 1 .. j + 1 PROVE g[m] = g[m - 1] + G[m - 1]
      <3>1. CASE m <= j
        <4>1. m \in 1 .. j /\ m - 1 \in 0 .. j /\ m \in 0 .. j
          BY <3>1
        <4>2. g[m] = f[m] /\ g[m - 1] = f[m - 1]
          BY <2>2, <4>1
        <4> QED  BY <2>1, <4>1, <4>2 DEF Sums
      <3>2. CASE m = j + 1
        <4>1. m - 1 = j /\ m \in 0 .. j + 1 /\ j \in 0 .. j + 1 /\ ~ (m <= j)
          BY <3>2
        <4>2. g[m] = f[j] + G[j] /\ g[j] = f[j]
          BY <2>2, <4>1
        <4> QED  BY <4>1, <4>2
      <3> QED  BY <3>1, <3>2
    <2>5. Sums(g, G, j + 1)
      BY <2>3, <2>4 DEF Sums
    <2> QED  BY <2>5
  <1>3. \A m \in Nat : m \in E
    <2> HIDE DEF E
    <2> QED  BY <1>1, <1>2, SetInduction
  <1> QED  BY <1>3

(* The sums of two functions add up. *)
LEMMA SumsAdd ==
    ASSUME NEW n \in Nat, NEW f, NEW g, NEW h, NEW F \in [Nat -> Nat], NEW G \in [Nat -> Nat], NEW H \in [Nat -> Nat],
           Sums(f, F, n), Sums(g, G, n), Sums(h, H, n), \A m \in Nat : H[m] = F[m] + G[m]
    PROVE  h[n] = f[n] + g[n]
  <1> DEFINE E == {m \in Nat : m <= n => h[m] = f[m] + g[m]}
  <1>1. 0 \in E
    BY DEF Sums
  <1>2. ASSUME NEW m \in Nat, m \in E PROVE m + 1 \in E
    <2> SUFFICES ASSUME m + 1 <= n PROVE h[m + 1] = f[m + 1] + g[m + 1]
      OBVIOUS
    <2>1. m + 1 \in 1 .. n /\ (m + 1) - 1 = m /\ m \in 0 .. n
      OBVIOUS
    <2>2. h[m] = f[m] + g[m] /\ f[m] \in Nat /\ g[m] \in Nat
      BY <1>2, <2>1 DEF Sums
    <2>3. h[m + 1] = h[m] + H[m] /\ f[m + 1] = f[m] + F[m] /\ g[m + 1] = g[m] + G[m]
      BY <2>1 DEF Sums
    <2>4. H[m] = F[m] + G[m] /\ F[m] \in Nat /\ G[m] \in Nat
      OBVIOUS
    <2> QED  BY <2>2, <2>3, <2>4
  <1>3. \A m \in Nat : m \in E
    <2> HIDE DEF E
    <2> QED  BY <1>1, <1>2, SetInduction
  <1> QED  BY <1>3

(* CoordinateSum as such a sum. *)
Level(S, k, m) == {p \in S : p[k] = m}

Weights(S, k) == [m \in Nat |-> Weight(S, k, m)]

(* The weights are numbers. *)
LEMMA WeightsAre ==
    ASSUME NEW S, NEW k, IsFiniteSet(S)
    PROVE  /\ Weights(S, k) \in [Nat -> Nat]
           /\ \A m \in Nat : Weights(S, k)[m] = m * Cardinality(Level(S, k, m))
           /\ \A m : IsFiniteSet(Level(S, k, m)) /\ Cardinality(Level(S, k, m)) \in Nat
  <1>1. ASSUME NEW m PROVE IsFiniteSet(Level(S, k, m)) /\ Cardinality(Level(S, k, m)) \in Nat
    <2>1. Level(S, k, m) \in SUBSET S
      BY DEF Level
    <2> QED  BY <2>1, FS_Subset, FS_CardinalityType
  <1>2. ASSUME NEW m \in Nat PROVE Weight(S, k, m) \in Nat /\ Weight(S, k, m) = m * Cardinality(Level(S, k, m))
    <2>1. PICK c \in Nat : c = Cardinality(Level(S, k, m))
      BY <1>1
    <2>2. Weight(S, k, m) = m * c
      BY <2>1 DEF Weight, Level
    <2> QED  BY <2>1, <2>2
  <1> QED  BY <1>1, <1>2 DEF Weights

(* CoordinateSum is such a sum. *)
LEMMA SumSteps ==
    ASSUME NEW S, NEW k, NEW n \in Nat, IsFiniteSet(S)
    PROVE  \E f : Sums(f, Weights(S, k), n) /\ CoordinateSum(S, k, n) = f[n]
  <1> DEFINE Is(f) == f = [m \in 0 .. n |-> IF m = 0 THEN 0 ELSE f[m - 1] + Weight(S, k, m - 1)]
  <1>1. \A m \in 1 .. n : Weights(S, k)[m - 1] = Weight(S, k, m - 1)
    BY DEF Weights
  <1>2. PICK e : Sums(e, Weights(S, k), n)
    BY SumsExist, WeightsAre
  <1>3. Is(e)
    <2>1. \A m \in 1 .. n : e[m] = e[m - 1] + Weight(S, k, m - 1)
      BY <1>1, <1>2 DEF Sums
    <2>2. e = [m \in 0 .. n |-> e[m]] /\ e[0] = 0
      BY <1>2 DEF Sums
    <2>3. \A m \in 0 .. n : m = 0 \/ m \in 1 .. n
      OBVIOUS
    <2> QED  BY <2>1, <2>2, <2>3
  <1>4. PICK f : f = (CHOOSE g : Is(g)) /\ Is(f)
    BY <1>3
  <1>5. CoordinateSum(S, k, n) = f[n]
    BY <1>4 DEF CoordinateSum
  <1>6. /\ f[0] = 0 /\ f = [m \in 0 .. n |-> f[m]]
        /\ \A m \in 1 .. n : f[m] = f[m - 1] + Weights(S, k)[m - 1]
    <2>1. ASSUME NEW m \in 1 .. n PROVE f[m] = f[m - 1] + Weight(S, k, m - 1)
      <3>1. m \in 0 .. n /\ m # 0
        OBVIOUS
      <3>2. f[m] = IF m = 0 THEN 0 ELSE f[m - 1] + Weight(S, k, m - 1)
        BY <1>4, <3>1
      <3> QED  BY <3>1, <3>2
    <2>2. f = [m \in 0 .. n |-> f[m]]
      BY <1>4
    <2>3. f[0] = 0
      <3>1. 0 \in 0 .. n
        OBVIOUS
      <3> QED  BY <1>4, <3>1
    <2> QED  BY <1>1, <2>1, <2>2, <2>3
  <1> DEFINE E == {m \in Nat : m <= n => f[m] \in Nat}
  <1>7. 0 \in E
    BY <1>6
  <1>8. ASSUME NEW m \in Nat, m \in E PROVE m + 1 \in E
    <2> SUFFICES ASSUME m + 1 <= n PROVE f[m + 1] \in Nat
      OBVIOUS
    <2>1. m + 1 \in 1 .. n /\ (m + 1) - 1 = m /\ f[m] \in Nat
      BY <1>8
    <2>2. PICK W : W = Weights(S, k) /\ W \in [Nat -> Nat]
      BY WeightsAre
    <2>3. f[m + 1] = f[m] + W[m]
      BY <1>6, <2>1, <2>2
    <2>4. W[m] \in Nat
      BY <2>2
    <2> QED  BY <2>1, <2>3, <2>4
  <1>9. \A m \in Nat : m \in E
    <2> HIDE DEF E
    <2> QED  BY <1>7, <1>8, SetInduction
  <1>10. f \in [0 .. n -> Nat]
    BY <1>6, <1>9
  <1> QED  BY <1>5, <1>6, <1>10 DEF Sums

(* The sums over disjoint sets. *)
LEMMA CoordinatesAdd ==
    ASSUME NEW S, NEW T, IsFiniteSet(S), IsFiniteSet(T), S \cap T = {}, NEW k, NEW n \in Nat
    PROVE  CoordinateSum(S \cup T, k, n) = CoordinateSum(S, k, n) + CoordinateSum(T, k, n)
  <1>1. PICK U : U = S \cup T /\ IsFiniteSet(U)
    BY FS_Union
  <1>2. PICK F, G, H : F = Weights(S, k) /\ G = Weights(T, k) /\ H = Weights(U, k)
    OBVIOUS
  <1>3. F \in [Nat -> Nat] /\ G \in [Nat -> Nat] /\ H \in [Nat -> Nat]
    BY <1>1, <1>2, WeightsAre
  <1>4. ASSUME NEW m \in Nat PROVE H[m] = F[m] + G[m]
    <2>1. PICK A, B : A = Level(S, k, m) /\ B = Level(T, k, m)
      OBVIOUS
    <2>2. Level(U, k, m) = A \cup B /\ A \cap B = {}
      BY <1>1, <2>1 DEF Level
    <2>3. IsFiniteSet(A) /\ IsFiniteSet(B) /\ Cardinality(A) \in Nat /\ Cardinality(B) \in Nat
      BY <2>1, WeightsAre
    <2>4. Cardinality(A \cap B) = 0
      BY <2>2, FS_EmptySet
    <2>5. Cardinality(A \cup B) = Cardinality(A) + Cardinality(B) - Cardinality(A \cap B)
      BY <2>3, FS_Union
    <2>6. PICK a \in Nat, b \in Nat : a = Cardinality(A) /\ b = Cardinality(B)
      BY <2>3
    <2>7. Cardinality(Level(U, k, m)) = a + b
      BY <2>2, <2>4, <2>5, <2>6
    <2>8. F[m] = m * a /\ G[m] = m * b /\ H[m] = m * (a + b)
      BY <1>1, <1>2, <2>1, <2>6, <2>7, WeightsAre
    <2> QED  BY <2>6, <2>8
  <1>5. PICK f : Sums(f, F, n) /\ CoordinateSum(S, k, n) = f[n]
    BY <1>2, SumSteps
  <1>6. PICK g : Sums(g, G, n) /\ CoordinateSum(T, k, n) = g[n]
    BY <1>2, SumSteps
  <1>7. PICK h : Sums(h, H, n) /\ CoordinateSum(U, k, n) = h[n]
    BY <1>1, <1>2, SumSteps
  <1>8. h[n] = f[n] + g[n]
    <2>1. Sums(f, F, n) /\ Sums(g, G, n) /\ Sums(h, H, n)
      BY <1>5, <1>6, <1>7
    <2>2. \A m \in Nat : H[m] = F[m] + G[m]
      BY <1>4
    <2> QED  BY <1>3, <2>1, <2>2, SumsAdd
  <1> QED  BY <1>1, <1>5, <1>6, <1>7, <1>8

(* The positions of a range. *)
Ranges(img) == {r \in [y : 0 .. img.height - 1, xmin : 0 .. img.width - 1, xmax : 0 .. img.width - 1] :
                   r.xmin <= r.xmax}

Strip(a, b, y) == (a .. b) \X {y}

(* How many positions of a piece of a row have a coordinate. *)
LEMMA RowLevels ==
    ASSUME NEW a \in Nat, NEW b \in Nat, a <= b, NEW y \in Nat, NEW S, S = Strip(a, b, y)
    PROVE  /\ IsFiniteSet(S) /\ Cardinality(S) = b - a + 1
           /\ \A m \in Nat : m \in a .. b => Cardinality(Level(S, 1, m)) = 1
           /\ \A m \in Nat : m \notin a .. b => Cardinality(Level(S, 1, m)) = 0
           /\ Cardinality(Level(S, 2, y)) = b - a + 1
           /\ \A m \in Nat : m # y => Cardinality(Level(S, 2, m)) = 0
  <1> DEFINE f == [x \in a .. b |-> << x, y >>]
  <1>1. f \in [a .. b -> S]
    BY DEF Strip
  <1>2. \A u, v \in a .. b : f[u] = f[v] => u = v
    OBVIOUS
  <1>3. \A p \in S : \E x \in a .. b : f[x] = p
    BY DEF Strip
  <1>4. f \in Bijection(a .. b, S)
    BY <1>1, <1>2, <1>3 DEF Bijection, Injection, Surjection, IsInjective
  <1>5. IsFiniteSet(a .. b) /\ Cardinality(a .. b) = b - a + 1
    <2>1. a \in Int /\ b \in Int
      OBVIOUS
    <2> QED  BY <2>1, FS_Interval
  <1>6. IsFiniteSet(S) /\ Cardinality(S) = b - a + 1
    <2> HIDE DEF f
    <2> QED  BY <1>4, <1>5, FS_Bijection DEF ExistsBijection
  <1>7. ASSUME NEW m \in Nat
        PROVE  /\ Cardinality(Level(S, 1, m)) = IF m \in a .. b THEN 1 ELSE 0
               /\ Cardinality(Level(S, 2, m)) = IF m = y THEN b - a + 1 ELSE 0
    <2>1. Level(S, 1, m) = IF m \in a .. b THEN {<< m, y >>} ELSE {}
      BY DEF Level, Strip
    <2>2. Level(S, 2, m) = IF m = y THEN S ELSE {}
      BY DEF Level, Strip
    <2> QED  BY <1>6, <2>1, <2>2, FS_EmptySet, FS_Singleton
  <1> QED  BY <1>6, <1>7

Doubled(a, b)      == b * (b + 1) - a * (a - 1)
Heights(a, b, y)   == y * (b - a + 1)

(* The sum of the first coordinates of a piece of a row, doubled. *)
LEMMA RowSumsX ==
    ASSUME NEW a \in Nat, NEW b \in Nat, a <= b, NEW y \in Nat, NEW w \in Nat, b < w,
           NEW S, S = Strip(a, b, y)
    PROVE  /\ CoordinateSum(S, 1, w) \in Nat
           /\ 2 * CoordinateSum(S, 1, w) = Doubled(a, b)
  <1>2. /\ IsFiniteSet(S)
        /\ \A m \in Nat : m \in a .. b => Cardinality(Level(S, 1, m)) = 1
        /\ \A m \in Nat : m \notin a .. b => Cardinality(Level(S, 1, m)) = 0
    <2>1. a \in Nat /\ b \in Nat /\ a <= b /\ y \in Nat /\ S = Strip(a, b, y)
      OBVIOUS
    <2> QED  BY <2>1, RowLevels
  <1>3. PICK F : F = Weights(S, 1)
    OBVIOUS
  <1>4. \A m \in Nat : F[m] = IF m \in a .. b THEN m ELSE 0
    <2> SUFFICES ASSUME NEW m \in Nat PROVE F[m] = IF m \in a .. b THEN m ELSE 0
      OBVIOUS
    <2>1. F[m] = m * Cardinality(Level(S, 1, m))
      BY <1>2, <1>3, WeightsAre
    <2> QED  BY <1>2, <2>1
  <1>6. PICK f : Sums(f, F, w) /\ CoordinateSum(S, 1, w) = f[w]
    BY <1>2, <1>3, SumSteps
  <1> DEFINE Gauss(m) == IF m <= a THEN 0 ELSE IF m <= b THEN m * (m - 1) - a * (a - 1) ELSE b * (b + 1) - a * (a - 1)
             D == {m \in Nat : m <= w => 2 * f[m] = Gauss(m)}
  <1>8. 0 \in D
    BY <1>6 DEF Sums
  <1>9. ASSUME NEW m \in Nat, m \in D PROVE m + 1 \in D
    <2> SUFFICES ASSUME m + 1 <= w PROVE 2 * f[m + 1] = Gauss(m + 1)
      OBVIOUS
    <2>1. m + 1 \in 1 .. w /\ (m + 1) - 1 = m /\ m \in 0 .. w
      OBVIOUS
    <2>2. f[m + 1] = f[m] + F[m] /\ f[m] \in Nat
      BY <1>6, <2>1 DEF Sums
    <2>3. F[m] = IF m \in a .. b THEN m ELSE 0
      BY <1>4
    <2>4. 2 * f[m] = Gauss(m)
      BY <1>9
    <2>5. CASE m < a
      BY <2>2, <2>3, <2>4, <2>5
    <2>6. CASE m \in a .. b
      <3>4. f[m + 1] = f[m] + m
        BY <2>2, <2>3, <2>6
      <3>1. 2 * f[m + 1] = 2 * f[m] + 2 * m
        BY <2>2, <3>4
      <3>2. Gauss(m) = m * (m - 1) - a * (a - 1)
        BY <2>6
      <3>3. Gauss(m + 1) = (m + 1) * m - a * (a - 1)
        BY <2>6
      <3> HIDE DEF Gauss
      <3> QED  BY <2>2, <2>4, <3>1, <3>2, <3>3
    <2>7. CASE m > b
      <3>1. F[m] = 0 /\ Gauss(m) = Gauss(m + 1)
        BY <2>3, <2>7
      <3> HIDE DEF Gauss
      <3> QED  BY <2>2, <2>4, <3>1
    <2> QED  BY <2>5, <2>6, <2>7
  <1>11. w \in D
    <2> HIDE DEF D
    <2> QED  BY <1>8, <1>9, SetInduction
  <1>12. 2 * f[w] = b * (b + 1) - a * (a - 1)
    BY <1>11
  <1>13. f[w] \in Nat
    BY <1>6 DEF Sums
  <1> QED  BY <1>6, <1>12, <1>13 DEF Doubled

(* The sum of the second coordinates of a piece of a row. *)
LEMMA RowSumsY ==
    ASSUME NEW a \in Nat, NEW b \in Nat, a <= b, NEW y \in Nat, NEW h \in Nat, y < h,
           NEW S, S = Strip(a, b, y)
    PROVE  CoordinateSum(S, 2, h) = Heights(a, b, y)
  <1>2. /\ IsFiniteSet(S)
        /\ Cardinality(Level(S, 2, y)) = b - a + 1
        /\ \A m \in Nat : m # y => Cardinality(Level(S, 2, m)) = 0
    BY RowLevels
  <1>3. PICK G : G = Weights(S, 2)
    OBVIOUS
  <1>5. \A m \in Nat : G[m] = IF m = y THEN y * (b - a + 1) ELSE 0
    <2> SUFFICES ASSUME NEW m \in Nat PROVE G[m] = IF m = y THEN y * (b - a + 1) ELSE 0
      OBVIOUS
    <2>1. G[m] = m * Cardinality(Level(S, 2, m))
      BY <1>2, <1>3, WeightsAre
    <2> QED  BY <1>2, <2>1
  <1>7. PICK g : Sums(g, G, h) /\ CoordinateSum(S, 2, h) = g[h]
    BY <1>2, <1>3, SumSteps
  <1> DEFINE Total(m) == IF m <= y THEN 0 ELSE y * (b - a + 1)
             E == {m \in Nat : m <= h => g[m] = Total(m)}
  <1>8. 0 \in E
    BY <1>7 DEF Sums
  <1>10. ASSUME NEW m \in Nat, m \in E PROVE m + 1 \in E
    <2> SUFFICES ASSUME m + 1 <= h PROVE g[m + 1] = Total(m + 1)
      OBVIOUS
    <2>1. m + 1 \in 1 .. h /\ (m + 1) - 1 = m /\ m \in 0 .. h
      OBVIOUS
    <2>2. g[m + 1] = g[m] + G[m] /\ g[m] \in Nat
      BY <1>7, <2>1 DEF Sums
    <2>3. PICK t \in Nat : t = y * (b - a + 1)
      OBVIOUS
    <2>4. G[m] = IF m = y THEN t ELSE 0
      BY <1>5, <2>3
    <2>5. g[m] = (IF m <= y THEN 0 ELSE t) /\ Total(m + 1) = IF m + 1 <= y THEN 0 ELSE t
      BY <1>10, <2>3
    <2> HIDE DEF Total
    <2> QED  BY <2>2, <2>4, <2>5
  <1>11. h \in E
    <2> HIDE DEF E
    <2> QED  BY <1>8, <1>10, SetInduction
  <1>12. g[h] = y * (b - a + 1)
    BY <1>11
  <1> QED  BY <1>7, <1>12 DEF Heights

(* The data of a component that covers S. *)
DataOf(c, S, w, h) ==
    /\ IsFiniteSet(S)
    /\ c.area = Cardinality(S)
    /\ c.xsum = CoordinateSum(S, 1, w)
    /\ c.ysum = CoordinateSum(S, 2, h)
    /\ c.xmin \in Int /\ c.xmax \in Int /\ c.ymin \in Int /\ c.ymax \in Int
    /\ \A p \in S : p[1] \in c.xmin .. c.xmax /\ p[2] \in c.ymin .. c.ymax
    /\ \E p \in S : p[1] = c.xmin
    /\ \E p \in S : p[1] = c.xmax
    /\ \E p \in S : p[2] = c.ymin
    /\ \E p \in S : p[2] = c.ymax

(* The data of a component of one range (cc_new). *)
LEMMA NewData ==
    ASSUME NEW w \in Nat, NEW h \in Nat, NEW a \in 0 .. w - 1, NEW b \in a .. w - 1, NEW y \in 0 .. h - 1
    PROVE  DataOf(cc_new(y, a, b), Strip(a, b, y), w, h)
  <1>1. PICK S, c : S = Strip(a, b, y) /\ c = cc_new(y, a, b)
    OBVIOUS
  <1>2. a \in Nat /\ b \in Nat /\ y \in Nat /\ a <= b /\ b < w /\ y < h
    OBVIOUS
  <1>3. IsFiniteSet(S) /\ Cardinality(S) = b - a + 1
    BY <1>1, <1>2, RowLevels
  <1>3a. CoordinateSum(S, 1, w) \in Nat /\ 2 * CoordinateSum(S, 1, w) = Doubled(a, b)
    BY <1>1, <1>2, RowSumsX
  <1>4. PICK s \in Nat : s = CoordinateSum(S, 1, w) /\ 2 * s = b * (b + 1) - a * (a - 1)
    BY <1>3a DEF Doubled
  <1>5a. CoordinateSum(S, 2, h) = Heights(a, b, y)
    BY <1>1, <1>2, RowSumsY
  <1>5. CoordinateSum(S, 2, h) = y * (b - a + 1)
    BY <1>5a DEF Heights
  <1>6. s = IF b = a THEN b ELSE (b * (b + 1) - a * (a - 1)) \div 2
    <2>1. CASE b = a
      <3>1. 2 * s = 2 * b
        BY <1>2, <1>4, <2>1
      <3> QED  BY <1>2, <2>1, <3>1
    <2>2. CASE b # a
      <3>1. PICK v \in Int : v = b * (b + 1) - a * (a - 1)
        BY <1>2
      <3>2. v = 2 * s
        BY <1>4, <3>1
      <3>3. v \div 2 = s
        BY <3>2
      <3> QED  BY <2>2, <3>1, <3>3
    <2> QED  BY <2>1, <2>2
  <1>7. /\ c.xmin = a /\ c.xmax = b /\ c.ymin = y /\ c.ymax = y /\ c.area = b - a + 1 /\ c.xsum = s
        /\ c.ysum = y * (b - a + 1)
    BY <1>1, <1>6 DEF cc_new
  <1>8. << a, y >> \in S /\ << b, y >> \in S
    BY <1>1, <1>2 DEF Strip
  <1>9. \A p \in S : p[1] \in a .. b /\ p[2] \in y .. y
    BY <1>1, <1>2 DEF Strip
  <1> QED  BY <1>1, <1>2, <1>3, <1>4, <1>5, <1>7, <1>8, <1>9 DEF DataOf

(* The data of a component that took up another (cc_merge). *)
LEMMA MergedData ==
    ASSUME NEW A, NEW B, NEW S, NEW T, NEW w \in Nat, NEW h \in Nat, S \cap T = {},
           DataOf(A, S, w, h), DataOf(B, T, w, h)
    PROVE  DataOf(Merged(A, B), S \cup T, w, h)
  <1>1. PICK U, C : U = S \cup T /\ C = Merged(A, B)
    OBVIOUS
  <1>2. IsFiniteSet(S) /\ IsFiniteSet(T)
    BY DEF DataOf
  <1>3. Cardinality(S \cap T) = 0
    BY FS_EmptySet
  <1>4. IsFiniteSet(U) /\ Cardinality(U) = Cardinality(S) + Cardinality(T)
    <2>1. Cardinality(S) \in Nat /\ Cardinality(T) \in Nat
      BY <1>2, FS_CardinalityType
    <2>2. IsFiniteSet(S \cup T) /\ Cardinality(S \cup T) = Cardinality(S) + Cardinality(T) - Cardinality(S \cap T)
      BY <1>2, FS_Union
    <2> QED  BY <1>1, <1>3, <2>1, <2>2
  <1>5. /\ CoordinateSum(U, 1, w) = CoordinateSum(S, 1, w) + CoordinateSum(T, 1, w)
        /\ CoordinateSum(U, 2, h) = CoordinateSum(S, 2, h) + CoordinateSum(T, 2, h)
    BY <1>1, <1>2, CoordinatesAdd
  <1>6. /\ C.xmin = Smaller(A.xmin, B.xmin) /\ C.xmax = Larger(A.xmax, B.xmax)
        /\ C.ymin = Smaller(A.ymin, B.ymin) /\ C.ymax = Larger(A.ymax, B.ymax)
        /\ C.area = A.area + B.area /\ C.xsum = A.xsum + B.xsum /\ C.ysum = A.ysum + B.ysum
    BY <1>1 DEF Merged
  <1>7. /\ C.xmin \in Int /\ C.xmax \in Int /\ C.ymin \in Int /\ C.ymax \in Int
        /\ C.xmin <= A.xmin /\ C.xmin <= B.xmin /\ C.xmax >= A.xmax /\ C.xmax >= B.xmax
        /\ C.ymin <= A.ymin /\ C.ymin <= B.ymin /\ C.ymax >= A.ymax /\ C.ymax >= B.ymax
        /\ C.xmin \in {A.xmin, B.xmin} /\ C.xmax \in {A.xmax, B.xmax}
        /\ C.ymin \in {A.ymin, B.ymin} /\ C.ymax \in {A.ymax, B.ymax}
    BY <1>6 DEF DataOf, Smaller, Larger
  <1>8. \A p \in U : p[1] \in C.xmin .. C.xmax /\ p[2] \in C.ymin .. C.ymax
    <2> SUFFICES ASSUME NEW p \in U PROVE p[1] \in C.xmin .. C.xmax /\ p[2] \in C.ymin .. C.ymax
      OBVIOUS
    <2>1. CASE p \in S
      <3>1. p[1] \in A.xmin .. A.xmax /\ p[2] \in A.ymin .. A.ymax
        BY <2>1 DEF DataOf
      <3> QED  BY <1>7, <3>1 DEF DataOf
    <2>2. CASE p \in T
      <3>1. p[1] \in B.xmin .. B.xmax /\ p[2] \in B.ymin .. B.ymax
        BY <2>2 DEF DataOf
      <3> QED  BY <1>7, <3>1 DEF DataOf
    <2> QED  BY <1>1, <2>1, <2>2
  <1>9. /\ \E p \in U : p[1] = C.xmin
        /\ \E p \in U : p[1] = C.xmax
        /\ \E p \in U : p[2] = C.ymin
        /\ \E p \in U : p[2] = C.ymax
    BY <1>1, <1>7 DEF DataOf
  <1>10. C.area = Cardinality(U) /\ C.xsum = CoordinateSum(U, 1, w) /\ C.ysum = CoordinateSum(U, 2, h)
    BY <1>4, <1>5, <1>6 DEF DataOf
  <1> QED  BY <1>1, <1>4, <1>7, <1>8, <1>9, <1>10 DEF DataOf

(* The list of the members of a set. *)
Lists(l, D) == /\ l \in Seq(D) /\ ToSet(l) = D
               /\ \A i, j \in 1 .. Len(l) : l[i] = l[j] => i = j

(* What is in two sequences put together. *)
LEMMA ToSetConcat ==
    ASSUME NEW S, NEW s \in Seq(S), NEW t \in Seq(S)
    PROVE  ToSet(s \o t) = ToSet(s) \cup ToSet(t)
  <1>0. PICK u : u = s \o t
    OBVIOUS
  <1>1. PICK m \in Nat, n \in Nat : u = s \o t /\ m = Len(s) /\ n = Len(t)
    BY <1>0
  <1>2. /\ DOMAIN s = 1 .. m /\ DOMAIN t = 1 .. n /\ DOMAIN u = 1 .. m + n
        /\ \A i \in 1 .. m + n : u[i] = IF i <= m THEN s[i] ELSE t[i - m]
    BY <1>1
  <1>3. ASSUME NEW e \in ToSet(u) PROVE e \in ToSet(s) \cup ToSet(t)
    <2>1. PICK i \in 1 .. m + n : u[i] = e
      BY <1>2, <1>3 DEF ToSet
    <2>2. CASE i <= m
      BY <1>2, <2>1, <2>2 DEF ToSet
    <2>3. CASE i > m
      <3>1. i - m \in 1 .. n /\ e = t[i - m]
        BY <1>2, <2>1, <2>3
      <3> QED  BY <1>2, <3>1 DEF ToSet
    <2> QED  BY <2>1, <2>2, <2>3
  <1>4. ASSUME NEW e \in ToSet(s) PROVE e \in ToSet(u)
    <2>1. PICK i \in 1 .. m : s[i] = e
      BY <1>2, <1>4 DEF ToSet
    <2>2. i \in 1 .. m + n /\ i <= m
      OBVIOUS
    <2>3. u[i] = e
      BY <1>2, <2>1, <2>2
    <2> QED  BY <1>2, <2>2, <2>3 DEF ToSet
  <1>5. ASSUME NEW e \in ToSet(t) PROVE e \in ToSet(u)
    <2>1. PICK i \in 1 .. n : t[i] = e
      BY <1>2, <1>5 DEF ToSet
    <2>2. m + i \in 1 .. m + n /\ ~ (m + i <= m) /\ (m + i) - m = i
      OBVIOUS
    <2>3. u[m + i] = e
      BY <1>2, <2>1, <2>2
    <2> QED  BY <1>2, <2>2, <2>3 DEF ToSet
  <1> QED  BY <1>1, <1>3, <1>4, <1>5

(* The list of two disjoint sets. *)
LEMMA ListsJoined ==
    ASSUME NEW D, NEW E, NEW s, NEW t, Lists(s, D), Lists(t, E), D \cap E = {}
    PROVE  Lists(s \o t, D \cup E)
  <1>1. s \in Seq(D \cup E) /\ t \in Seq(D \cup E)
    BY DEF Lists
  <1>2. ToSet(s \o t) = D \cup E
    BY <1>1, ToSetConcat DEF Lists
  <1>0. PICK u : u = s \o t
    OBVIOUS
  <1>3. PICK m \in Nat, n \in Nat : u = s \o t /\ m = Len(s) /\ n = Len(t)
    BY <1>0 DEF Lists
  <1>4. /\ u \in Seq(D \cup E) /\ Len(u) = m + n
        /\ \A i \in 1 .. m + n : u[i] = IF i <= m THEN s[i] ELSE t[i - m]
    BY <1>1, <1>3
  <1>5. ASSUME NEW i \in 1 .. m + n, NEW j \in 1 .. m + n, u[i] = u[j] PROVE i = j
    <2>1. \A k \in 1 .. m + n : /\ k <= m => k \in 1 .. m /\ u[k] = s[k] /\ s[k] \in D
                                /\ ~ (k <= m) => k - m \in 1 .. n /\ u[k] = t[k - m] /\ t[k - m] \in E
      BY <1>3, <1>4 DEF Lists
    <2>2. CASE i <= m /\ j <= m
      BY <1>3, <1>5, <2>1, <2>2 DEF Lists
    <2>3. CASE ~ (i <= m) /\ ~ (j <= m)
      <3>1. i - m = j - m
        BY <1>3, <1>5, <2>1, <2>3 DEF Lists
      <3> QED  BY <3>1
    <2> QED  BY <1>5, <2>1, <2>2, <2>3
  <1> QED  BY <1>2, <1>3, <1>4, <1>5 DEF Lists

(* A list with one member more. *)
LEMMA ListsAppended ==
    ASSUME NEW D, NEW s, Lists(s, D), NEW x, x \notin D
    PROVE  Lists(Append(s, x), D \cup {x})
  <1>1. Lists(<< x >>, {x})
    <2>1. << x >> \in Seq({x}) /\ Len(<< x >>) = 1 /\ << x >>[1] = x
      OBVIOUS
    <2>2. ToSet(<< x >>) = {x}
      BY <2>1 DEF ToSet
    <2> QED  BY <2>1, <2>2 DEF Lists
  <1>2. Append(s, x) = s \o << x >>
    <2>1. s \in Seq(D \cup {x}) /\ x \in D \cup {x}
      BY DEF Lists
    <2> QED  BY <2>1, AppendIsConcat
  <1> QED  BY <1>1, <1>2, ListsJoined

(* A list without one of its members. *)
LEMMA ListsUnlinked ==
    ASSUME NEW D, NEW s, Lists(s, D), NEW c \in D
    PROVE  Lists(Unlinked(s, c), D \ {c})
  <1>1. PICK l \in Nat : l = Len(s) /\ DOMAIN s = 1 .. l
    BY DEF Lists
  <1>2. PICK n \in 1 .. l : n = (CHOOSE k \in DOMAIN s : s[k] = c) /\ s[n] = c
    <2>1. \E k \in DOMAIN s : s[k] = c
      BY DEF Lists, ToSet
    <2> QED  BY <1>1, <2>1
  <1>3. PICK p, q, u : /\ p = SubSeq(s, 1, n - 1) /\ q = SubSeq(s, n + 1, l)
                       /\ u = p \o q /\ u = Unlinked(s, c)
    BY <1>1, <1>2 DEF Unlinked, RemoveAt
  <1>4. \A i \in 1 .. l : s[i] \in D
    BY <1>1 DEF Lists
  <1>5. p \in Seq(D) /\ Len(p) = n - 1 /\ \A i \in 1 .. n - 1 : p[i] = s[i]
    <2>1. 1 \in Int /\ n - 1 \in Int /\ \A i \in 1 .. n - 1 : s[i] \in D
      BY <1>4
    <2>2. /\ p \in Seq(D) /\ Len(p) = IF 1 <= n - 1 THEN (n - 1) - 1 + 1 ELSE 0
          /\ \A i \in 1 .. (n - 1) - 1 + 1 : p[i] = s[1 + i - 1]
      BY <1>3, <2>1, SubSeqProperties
    <2> QED  BY <2>2
  <1>6. q \in Seq(D) /\ Len(q) = l - n /\ \A i \in 1 .. l - n : q[i] = s[n + i]
    <2>1. n + 1 \in Int /\ l \in Int /\ \A i \in n + 1 .. l : s[i] \in D
      BY <1>4
    <2>2. /\ q \in Seq(D) /\ Len(q) = IF n + 1 <= l THEN l - (n + 1) + 1 ELSE 0
          /\ \A i \in 1 .. l - (n + 1) + 1 : q[i] = s[(n + 1) + i - 1]
      BY <1>3, <2>1, SubSeqProperties
    <2>3. \A i \in 1 .. l - n : i \in 1 .. l - (n + 1) + 1 /\ (n + 1) + i - 1 = n + i
      OBVIOUS
    <2> QED  BY <2>2, <2>3
  <1>7. PICK source : source = [i \in 1 .. l - 1 |-> IF i <= n - 1 THEN i ELSE i + 1]
    OBVIOUS
  <1>8. u \in Seq(D) /\ Len(u) = l - 1 /\ \A i \in 1 .. l - 1 : u[i] = s[source[i]]
    <2>1. /\ u \in Seq(D) /\ Len(u) = (n - 1) + (l - n)
          /\ \A i \in 1 .. (n - 1) + (l - n) : u[i] = IF i <= n - 1 THEN p[i] ELSE q[i - (n - 1)]
      <3>1. /\ p \o q \in Seq(D) /\ Len(p \o q) = Len(p) + Len(q)
            /\ \A i \in 1 .. Len(p) + Len(q) : (p \o q)[i] = IF i <= Len(p) THEN p[i] ELSE q[i - Len(p)]
        BY <1>5, <1>6, ConcatProperties
      <3> QED  BY <1>3, <1>5, <1>6, <3>1
    <2>2. ASSUME NEW i \in 1 .. l - 1 PROVE u[i] = s[source[i]]
      <3>1. i \in 1 .. (n - 1) + (l - n)
        OBVIOUS
      <3>2. CASE i <= n - 1
        BY <1>5, <1>7, <2>1, <3>1, <3>2
      <3>3. CASE ~ (i <= n - 1)
        <4>1. i - (n - 1) \in 1 .. l - n /\ n + (i - (n - 1)) = i + 1
          BY <3>3
        <4>2. u[i] = q[i - (n - 1)] /\ q[i - (n - 1)] = s[i + 1] /\ source[i] = i + 1
          BY <1>6, <1>7, <2>1, <3>1, <3>3, <4>1
        <4> QED  BY <4>2
      <3> QED  BY <3>2, <3>3
    <2> QED  BY <2>1, <2>2
  <1>9. \A i \in 1 .. l - 1 : source[i] \in 1 .. l /\ source[i] # n
    BY <1>7
  <1>10. \A i, j \in 1 .. l - 1 : source[i] = source[j] => i = j
    BY <1>7
  <1>11. \A k \in 1 .. l : k # n => \E i \in 1 .. l - 1 : source[i] = k
    <2> SUFFICES ASSUME NEW k \in 1 .. l, k # n PROVE \E i \in 1 .. l - 1 : source[i] = k
      OBVIOUS
    <2>1. CASE k < n
      <3>1. k \in 1 .. l - 1 /\ source[k] = k
        BY <1>7, <2>1
      <3> QED  BY <3>1
    <2>2. CASE k > n
      <3>1. k - 1 \in 1 .. l - 1 /\ source[k - 1] = k
        BY <1>7, <2>2
      <3> QED  BY <3>1
    <2> QED  BY <2>1, <2>2
  <1>12. \A i, j \in 1 .. l : s[i] = s[j] => i = j
    BY <1>1 DEF Lists
  <1>13. \A i, j \in 1 .. l - 1 : u[i] = u[j] => i = j
    BY <1>8, <1>9, <1>10, <1>12
  <1>14. \A i \in 1 .. l - 1 : u[i] \in D \ {c}
    BY <1>2, <1>4, <1>8, <1>9, <1>12
  <1>15. \A d \in D \ {c} : \E i \in 1 .. l - 1 : u[i] = d
    <2> SUFFICES ASSUME NEW d \in D, d # c PROVE \E i \in 1 .. l - 1 : u[i] = d
      OBVIOUS
    <2>1. PICK k \in 1 .. l : s[k] = d
      <3>1. ToSet(s) = D
        BY DEF Lists
      <3>2. ToSet(s) = {s[k] : k \in 1 .. l}
        BY <1>1 DEF ToSet
      <3> QED  BY <3>1, <3>2
    <2>2. k # n
      BY <1>2, <2>1
    <2>3. PICK i \in 1 .. l - 1 : source[i] = k
      BY <1>11, <2>2
    <2>4. u[i] = d
      BY <1>8, <2>1, <2>3
    <2> QED  BY <2>4
  <1>16. DOMAIN u = 1 .. l - 1
    BY <1>8
  <1>17. ToSet(u) = D \ {c}
    BY <1>14, <1>15, <1>16 DEF ToSet
  <1>18. u \in Seq(D \ {c})
    BY <1>8, <1>14, <1>16
  <1> QED  BY <1>3, <1>8, <1>13, <1>17, <1>18 DEF Lists

(* A list is as long as what its members stand for, one to one. *)
LEMMA ListsLength ==
    ASSUME NEW D, NEW s, Lists(s, D), NEW C, NEW f \in [D -> C],
           \A a, b \in D : f[a] = f[b] => a = b, \A c \in C : \E a \in D : f[a] = c
    PROVE  Len(s) = Cardinality(C)
  <1>1. PICK l \in Nat : l = Len(s) /\ DOMAIN s = 1 .. l
    BY DEF Lists
  <1> DEFINE g == [i \in 1 .. l |-> f[s[i]]]
  <1>2. g \in [1 .. l -> C]
    BY <1>1 DEF Lists
  <1>3. \A i, j \in 1 .. l : g[i] = g[j] => i = j
    BY <1>1 DEF Lists
  <1>4. \A c \in C : \E i \in 1 .. l : g[i] = c
    <2> SUFFICES ASSUME NEW c \in C PROVE \E i \in 1 .. l : g[i] = c
      OBVIOUS
    <2>1. PICK a \in D : f[a] = c
      OBVIOUS
    <2>2. PICK i \in 1 .. l : s[i] = a
      BY <1>1 DEF Lists, ToSet
    <2> QED  BY <2>1, <2>2
  <1>5. g \in Bijection(1 .. l, C)
    BY <1>2, <1>3, <1>4 DEF Bijection, Injection, Surjection, IsInjective
  <1>6. IsFiniteSet(1 .. l) /\ Cardinality(1 .. l) = l
    <2>1. 1 \in Int /\ l \in Int
      OBVIOUS
    <2> QED  BY <2>1, FS_Interval
  <1> HIDE DEF g
  <1> QED  BY <1>1, <1>5, <1>6, FS_Bijection DEF ExistsBijection

(* Neighbours, and sets of positions that hang together, with the kind of
   neighbour as a parameter. *)
NearBy(e, p, q) ==
    LET dx == p[1] - q[1]
        dy == p[2] - q[2]
    IN  IF e THEN dx \in -1 .. 1 /\ dy \in -1 .. 1 ELSE dx * dx + dy * dy <= 1

LinkedBy(e, a, b) == IF e THEN cc_neighbour_8(a, b) ELSE cc_neighbour_4(a, b)

Area(img, lo, hi) == {p \in (0 .. img.width - 1) \X (lo .. hi) : << p[1], p[2] >> \in img.set}

ClosedIn(T, set, e) == \A p \in T, q \in set : NearBy(e, p, q) => q \in T

Conn(S, set, e) == \A T \in SUBSET set : ClosedIn(T, set, e) /\ T \cap S # {} => S \subseteq T

Touch(r, s, e) == \E p \in Positions(r), q \in Positions(s) : NearBy(e, p, q)

Gap(r, s) == r.xmax + 1 < s.xmin

(* The neighbours of the model. *)
LEMMA NearIs == \A p, q : Near(p, q) <=> NearBy(eight, p, q)
  BY DEF Near, NearBy

(* The links of the model. *)
LEMMA LinkedIs == \A r, s : linked(r, s) <=> LinkedBy(eight, r, s)
  BY DEF linked, LinkedBy

(* When the sum of two squares is at most 1. *)
LEMMA SmallSquares ==
    ASSUME NEW x \in Int, NEW y \in Int
    PROVE  x * x + y * y <= 1 <=> (x = 0 /\ y \in -1 .. 1) \/ (y = 0 /\ x \in -1 .. 1)
  <1>1. \A k \in Int : k * k >= 0 /\ (k \notin -1 .. 1 => k * k > 1) /\ (k # 0 => k * k >= 1)
    OBVIOUS
  <1>2. x * x \in Int /\ y * y \in Int
    OBVIOUS
  <1>3. CASE x = 0 /\ y = 0
    BY <1>3
  <1>4. CASE x = 0 /\ y # 0
    <2>1. y * y <= 1 <=> y \in -1 .. 1
      <3>1. CASE y \in -1 .. 1
        <4>1. y = -1 \/ y = 1
          BY <1>4, <3>1
        <4> QED  BY <4>1
      <3> QED  BY <1>1, <1>2, <3>1
    <2> QED  BY <1>4, <2>1
  <1>5. CASE x # 0 /\ y = 0
    <2>1. x * x <= 1 <=> x \in -1 .. 1
      <3>1. CASE x \in -1 .. 1
        <4>1. x = -1 \/ x = 1
          BY <1>5, <3>1
        <4> QED  BY <4>1
      <3> QED  BY <1>1, <1>2, <3>1
    <2> QED  BY <1>5, <2>1
  <1>6. CASE x # 0 /\ y # 0
    BY <1>1, <1>2, <1>6
  <1> QED  BY <1>3, <1>4, <1>5, <1>6

(* Which positions are neighbours. *)
LEMMA NearMeans ==
    ASSUME NEW e \in BOOLEAN, NEW p \in Int \X Int, NEW q \in Int \X Int
    PROVE  NearBy(e, p, q) <=> /\ p[1] - q[1] \in -1 .. 1 /\ p[2] - q[2] \in -1 .. 1
                               /\ e \/ p[1] = q[1] \/ p[2] = q[2]
  <1>1. PICK x \in Int, y \in Int : x = p[1] - q[1] /\ y = p[2] - q[2]
    OBVIOUS
  <1>2. (x = 0 <=> p[1] = q[1]) /\ (y = 0 <=> p[2] = q[2])
    BY <1>1
  <1>3. CASE e
    BY <1>1, <1>3 DEF NearBy
  <1>4. CASE ~ e
    <2>1. NearBy(e, p, q) <=> x * x + y * y <= 1
      BY <1>1, <1>4 DEF NearBy
    <2>2. x * x + y * y <= 1 <=> (x = 0 /\ y \in -1 .. 1) \/ (y = 0 /\ x \in -1 .. 1)
      BY SmallSquares
    <2> QED  BY <1>1, <1>2, <1>4, <2>1, <2>2
  <1> QED  BY <1>3, <1>4

(* Neighbours are neighbours of each other. *)
LEMMA NearSymmetric ==
    ASSUME NEW e \in BOOLEAN, NEW p \in Int \X Int, NEW q \in Int \X Int, NearBy(e, p, q)
    PROVE  NearBy(e, q, p)
  <1>1. p[1] \in Int /\ p[2] \in Int /\ q[1] \in Int /\ q[2] \in Int
    OBVIOUS
  <1>2. /\ p[1] - q[1] \in -1 .. 1 /\ p[2] - q[2] \in -1 .. 1
        /\ e \/ p[1] = q[1] \/ p[2] = q[2]
    BY NearMeans
  <1>3. q[1] - p[1] \in -1 .. 1 /\ q[2] - p[2] \in -1 .. 1
    BY <1>1, <1>2
  <1> QED  BY <1>2, <1>3, NearMeans

(* What hangs together still does among more positions. *)
LEMMA ConnWider ==
    ASSUME NEW S, NEW set, NEW e, NEW wider, set \subseteq wider, S \subseteq set, Conn(S, set, e)
    PROVE  Conn(S, wider, e)
  <1> SUFFICES ASSUME NEW T \in SUBSET wider, ClosedIn(T, wider, e), T \cap S # {}
               PROVE  S \subseteq T
    BY DEF Conn
  <1>1. PICK U \in SUBSET set : U = T \cap set
    OBVIOUS
  <1>2. ClosedIn(U, set, e)
    BY <1>1 DEF ClosedIn
  <1>3. U \cap S # {}
    BY <1>1
  <1>4. S \subseteq U
    BY <1>2, <1>3 DEF Conn
  <1> QED  BY <1>1, <1>4

(* Two parts with neighbours in each other hang together. *)
LEMMA ConnJoined ==
    ASSUME NEW set \in SUBSET (Int \X Int), NEW S \in SUBSET set, NEW T \in SUBSET set, NEW e \in BOOLEAN,
           Conn(S, set, e), Conn(T, set, e), NEW p \in S, NEW q \in T, NearBy(e, p, q)
    PROVE  Conn(S \cup T, set, e)
  <1> SUFFICES ASSUME NEW U \in SUBSET set, ClosedIn(U, set, e), U \cap (S \cup T) # {}
               PROVE  S \cup T \subseteq U
    BY DEF Conn
  <1>1. NearBy(e, q, p)
    BY NearSymmetric
  <1>2. CASE U \cap S # {}
    <2>1. S \subseteq U
      BY <1>2 DEF Conn
    <2>2. q \in U
      BY <2>1 DEF ClosedIn
    <2>3. T \subseteq U
      BY <2>2 DEF Conn
    <2> QED  BY <2>1, <2>3
  <1>3. CASE U \cap T # {}
    <2>1. T \subseteq U
      BY <1>3 DEF Conn
    <2>2. p \in U
      BY <1>1, <2>1 DEF ClosedIn
    <2>3. S \subseteq U
      BY <2>2 DEF Conn
    <2> QED  BY <2>1, <2>3
  <1> QED  BY <1>2, <1>3

(* A piece of a row hangs together. *)
LEMMA ConnStrip ==
    ASSUME NEW a \in Nat, NEW b \in Nat, NEW y \in Nat, NEW set, NEW e \in BOOLEAN,
           \A x \in a .. b : << x, y >> \in set
    PROVE  Conn(Strip(a, b, y), set, e)
  <1> SUFFICES ASSUME NEW T \in SUBSET set, ClosedIn(T, set, e), T \cap ((a .. b) \X {y}) # {}
               PROVE  (a .. b) \X {y} \subseteq T
    BY DEF Conn, Strip
  <1>1. PICK x \in a .. b : << x, y >> \in T
    OBVIOUS
  <1>2. ASSUME NEW u \in a .. b, NEW v \in a .. b, u - v \in -1 .. 1, << u, y >> \in T
        PROVE  << v, y >> \in T
    <2>1. << u, y >> \in Int \X Int /\ << v, y >> \in Int \X Int
      OBVIOUS
    <2>2. NearBy(e, << u, y >>, << v, y >>)
      BY <1>2, <2>1, NearMeans
    <2> QED  BY <1>2, <2>2 DEF ClosedIn
  <1> DEFINE U == {k \in Nat : x + k <= b => << x + k, y >> \in T}
             D == {k \in Nat : x - k >= a => << x - k, y >> \in T}
  <1>3. 0 \in U /\ 0 \in D
    BY <1>1
  <1>4. ASSUME NEW k \in Nat, k \in U PROVE k + 1 \in U
    <2> SUFFICES ASSUME x + (k + 1) <= b PROVE << x + (k + 1), y >> \in T
      OBVIOUS
    <2>1. /\ << x + k, y >> \in T /\ x + k \in a .. b /\ x + (k + 1) \in a .. b
          /\ (x + k) - (x + (k + 1)) \in -1 .. 1
      BY <1>4
    <2> QED  BY <1>2, <2>1
  <1>5. ASSUME NEW k \in Nat, k \in D PROVE k + 1 \in D
    <2> SUFFICES ASSUME x - (k + 1) >= a PROVE << x - (k + 1), y >> \in T
      OBVIOUS
    <2>1. /\ << x - k, y >> \in T /\ x - k \in a .. b /\ x - (k + 1) \in a .. b
          /\ (x - k) - (x - (k + 1)) \in -1 .. 1
      BY <1>5
    <2> QED  BY <1>2, <2>1
  <1>6. \A k \in Nat : k \in U
    <2> HIDE DEF U
    <2> QED  BY <1>3, <1>4, SetInduction
  <1>7. \A k \in Nat : k \in D
    <2> HIDE DEF D
    <2> QED  BY <1>3, <1>5, SetInduction
  <1>8. ASSUME NEW v \in a .. b PROVE << v, y >> \in T
    <2>1. CASE v >= x
      <3>1. v - x \in Nat /\ x + (v - x) = v /\ v <= b
        BY <2>1
      <3>2. x + (v - x) <= b => << x + (v - x), y >> \in T
        BY <1>6, <3>1
      <3> QED  BY <3>1, <3>2
    <2>2. CASE v < x
      <3>1. x - v \in Nat /\ x - (x - v) = v /\ v >= a
        BY <2>2
      <3>2. x - (x - v) >= a => << x - (x - v), y >> \in T
        BY <1>7, <3>1
      <3> QED  BY <3>1, <3>2
    <2> QED  BY <2>1, <2>2
  <1> QED  BY <1>8

(* Ranges with neighbouring positions are in the same or in adjacent rows;
   in the same row there is no gap between them, in adjacent ones they are
   linked. *)
LEMMA TouchRows ==
    ASSUME NEW img, img.width \in Nat, img.height \in Nat, NEW e \in BOOLEAN,
           NEW r \in Ranges(img), NEW s \in Ranges(img), Touch(r, s, e)
    PROVE  /\ r.y - s.y \in -1 .. 1
           /\ r.y = s.y => ~ Gap(r, s) /\ ~ Gap(s, r)
           /\ s.y = r.y + 1 => LinkedBy(e, r, s)
           /\ Touch(s, r, e)
  <1>1. PICK p \in Positions(r), q \in Positions(s) : NearBy(e, p, q)
    BY DEF Touch
  <1>2. /\ r.y \in Int /\ r.xmin \in Int /\ r.xmax \in Int
        /\ s.y \in Int /\ s.xmin \in Int /\ s.xmax \in Int
    BY DEF Ranges
  <1>3. /\ p \in Int \X Int /\ q \in Int \X Int
        /\ p[1] \in r.xmin .. r.xmax /\ p[2] = r.y
        /\ q[1] \in s.xmin .. s.xmax /\ q[2] = s.y
    BY <1>2 DEF Positions
  <1>4. /\ p[1] - q[1] \in -1 .. 1 /\ p[2] - q[2] \in -1 .. 1
        /\ e \/ p[1] = q[1] \/ p[2] = q[2]
    BY <1>1, <1>3, NearMeans
  <1>5. PICK u \in Int, v \in Int : u = p[1] /\ v = q[1]
    BY <1>3
  <1>6. r.y = s.y => ~ Gap(r, s) /\ ~ Gap(s, r)
    BY <1>2, <1>3, <1>4, <1>5 DEF Gap
  <1>7. s.y = r.y + 1 => LinkedBy(e, r, s)
    BY <1>2, <1>3, <1>4, <1>5 DEF LinkedBy, cc_neighbour_4, cc_neighbour_8
  <1>8. NearBy(e, q, p)
    BY <1>1, <1>3, NearSymmetric
  <1>9. Touch(s, r, e)
    BY <1>8 DEF Touch
  <1> QED  BY <1>3, <1>4, <1>6, <1>7, <1>9

(* Linked ranges of adjacent rows have neighbouring positions. *)
LEMMA LinkedTouch ==
    ASSUME NEW img, img.width \in Nat, img.height \in Nat, NEW e \in BOOLEAN,
           NEW r \in Ranges(img), NEW s \in Ranges(img), s.y = r.y + 1, LinkedBy(e, r, s)
    PROVE  Touch(r, s, e)
  <1>1. /\ r.y \in Int /\ r.xmin \in Int /\ r.xmax \in Int /\ r.xmin <= r.xmax
        /\ s.y \in Int /\ s.xmin \in Int /\ s.xmax \in Int /\ s.xmin <= s.xmax
    BY DEF Ranges
  <1>2. \E u \in r.xmin .. r.xmax, v \in s.xmin .. s.xmax : u - v \in -1 .. 1 /\ (e \/ u = v)
    <2>1. CASE e
      <3>1. r.xmax + 1 >= s.xmin /\ r.xmin <= s.xmax + 1
        BY <1>1, <2>1 DEF LinkedBy, cc_neighbour_8
      <3>2. CASE r.xmax < s.xmin
        <4>1. r.xmax - s.xmin \in -1 .. 1 /\ r.xmax \in r.xmin .. r.xmax /\ s.xmin \in s.xmin .. s.xmax
          BY <1>1, <3>1, <3>2
        <4> QED  BY <2>1, <4>1
      <3>3. CASE s.xmax < r.xmin
        <4>1. r.xmin - s.xmax \in -1 .. 1 /\ r.xmin \in r.xmin .. r.xmax /\ s.xmax \in s.xmin .. s.xmax
          BY <1>1, <3>1, <3>3
        <4> QED  BY <2>1, <4>1
      <3>4. CASE r.xmax >= s.xmin /\ s.xmax >= r.xmin
        <4>1. PICK u \in Int : u = IF r.xmin >= s.xmin THEN r.xmin ELSE s.xmin
          BY <1>1
        <4>2. u \in r.xmin .. r.xmax /\ u \in s.xmin .. s.xmax /\ u - u \in -1 .. 1
          BY <1>1, <3>4, <4>1
        <4> QED  BY <4>2
      <3> QED  BY <1>1, <3>2, <3>3, <3>4
    <2>2. CASE ~ e
      <3>1. r.xmax >= s.xmin /\ s.xmax >= r.xmin
        BY <1>1, <2>2 DEF LinkedBy, cc_neighbour_4
      <3>2. PICK u \in Int : u = IF r.xmin >= s.xmin THEN r.xmin ELSE s.xmin
        BY <1>1
      <3>3. u \in r.xmin .. r.xmax /\ u \in s.xmin .. s.xmax /\ u - u \in -1 .. 1
        BY <1>1, <3>1, <3>2
      <3> QED  BY <3>3
    <2> QED  BY <2>1, <2>2
  <1>3. PICK u \in r.xmin .. r.xmax, v \in s.xmin .. s.xmax : u - v \in -1 .. 1 /\ (e \/ u = v)
    BY <1>2
  <1>4. PICK p, q : p = << u, r.y >> /\ q = << v, s.y >>
    OBVIOUS
  <1>5. p \in Int \X Int /\ q \in Int \X Int /\ p \in Positions(r) /\ q \in Positions(s)
    BY <1>1, <1>4 DEF Positions
  <1>6. p[1] = u /\ q[1] = v /\ p[2] = r.y /\ q[2] = s.y /\ r.y - s.y = -1
    BY <1>1, <1>4
  <1>7. NearBy(e, p, q)
    BY <1>3, <1>5, <1>6, NearMeans
  <1> QED  BY <1>5, <1>7 DEF Touch

Of(owner, c) == {r \in DOMAIN owner : owner[r] = c}

Cover(R) == UNION {Positions(r) : r \in R}

Component(C, R, set, img, e) ==
    /\ C.parts \in Seq(Ranges(img))
    /\ ToSet(C.parts) = R
    /\ DataOf(C, Cover(R), img.width, img.height)
    /\ Conn(Cover(R), set, e)

Grouped(b, set, img, e) ==
    /\ DOMAIN b.cc \subseteq DOMAIN b.owner
    /\ \A r \in DOMAIN b.owner : b.owner[r] \in DOMAIN b.cc
    /\ Lists(b.list, DOMAIN b.cc)
    /\ \A c \in DOMAIN b.cc : Component(b.cc[c], Of(b.owner, c), set, img, e)

AllApart(R) == \A r, s \in R : r = s \/ r.y # s.y \/ Gap(r, s) \/ Gap(s, r)

RowIs(row, R, y) ==
    /\ row \in Seq(R)
    /\ ToSet(row) = {r \in R : r.y = y}
    /\ \A i, j \in 1 .. Len(row) : i < j => Gap(row[i], row[j])

Framed(b, img) ==
    /\ b.ymin \in Nat /\ b.ymax \in Nat /\ b.ymin <= b.ymax /\ b.ymax < img.height
    /\ DOMAIN b.owner \subseteq {r \in Ranges(img) : r.y \in b.ymin .. b.ymax}
    /\ AllApart(DOMAIN b.owner)
    /\ Cover(DOMAIN b.owner) = Area(img, b.ymin, b.ymax)
    /\ b.rows \in Seq(Seq(Ranges(img))) /\ b.rows # << >>
    /\ RowIs(Head(b.rows), DOMAIN b.owner, b.ymin)
    /\ RowIs(Last(b.rows), DOMAIN b.owner, b.ymax)

Sound(b, img, e) == Framed(b, img) /\ Grouped(b, Area(img, b.ymin, b.ymax), img, e)

(* n is as b, with components fused. *)
Coarser(n, b) ==
    /\ n.ymin = b.ymin /\ n.ymax = b.ymax /\ n.rows = b.rows /\ DOMAIN n.owner = DOMAIN b.owner
    /\ \A r, s \in DOMAIN b.owner : b.owner[r] = b.owner[s] => n.owner[r] = n.owner[s]

(* The positions of two sets of ranges. *)
LEMMA CoverUnion == \A R, S : Cover(R \cup S) = Cover(R) \cup Cover(S)
  BY DEF Cover

(* Ranges that lie apart share no position. *)
LEMMA CoversDisjoint ==
    ASSUME NEW img, NEW R \in SUBSET Ranges(img), NEW S \in SUBSET Ranges(img),
           img.width \in Nat, img.height \in Nat, AllApart(R \cup S), R \cap S = {}
    PROVE  Cover(R) \cap Cover(S) = {}
  <1> SUFFICES ASSUME NEW p, p \in Cover(R), p \in Cover(S) PROVE FALSE
    OBVIOUS
  <1>1. PICK r \in R : p \in Positions(r)
    BY DEF Cover
  <1>2. PICK s \in S : p \in Positions(s)
    BY DEF Cover
  <1>3. r # s /\ (r.y # s.y \/ Gap(r, s) \/ Gap(s, r))
    BY DEF AllApart
  <1>4. /\ r.xmin \in Int /\ r.xmax \in Int /\ s.xmin \in Int /\ s.xmax \in Int
        /\ r.y = s.y /\ p[1] \in r.xmin .. r.xmax /\ p[1] \in s.xmin .. s.xmax
    BY <1>1, <1>2 DEF Ranges, Positions
  <1> QED  BY <1>3, <1>4 DEF Gap

(* To merge the components of two touching ranges leaves the block sound
   (cc_unlink, cc_merge). *)
LEMMA MergeSound ==
    ASSUME NEW img, img.width \in Nat, img.height \in Nat, NEW e \in BOOLEAN, NEW b, Sound(b, img, e),
           NEW r \in DOMAIN b.owner, NEW s \in DOMAIN b.owner, Touch(r, s, e),
           NEW A, A = b.owner[r], NEW B, B = b.owner[s], A # B,
           NEW n, n = cc_merge(cc_unlink(b, B), A, B)
    PROVE  Sound(n, img, e) /\ Coarser(n, b) /\ n.owner[r] = n.owner[s]
  <1>1. PICK set : set = Area(img, b.ymin, b.ymax)
    OBVIOUS
  <1>2. Grouped(b, set, img, e) /\ Framed(b, img)
    BY <1>1 DEF Sound
  <1>3. PICK R : R = DOMAIN b.owner /\ R \subseteq Ranges(img) /\ AllApart(R) /\ Cover(R) = set
    BY <1>1, <1>2 DEF Framed
  <1>4. A \in DOMAIN b.cc /\ B \in DOMAIN b.cc
    BY <1>2 DEF Grouped
  <1>5. PICK RA, RB : RA = Of(b.owner, A) /\ RB = Of(b.owner, B)
    OBVIOUS
  <1>6. Component(b.cc[A], RA, set, img, e) /\ Component(b.cc[B], RB, set, img, e)
    BY <1>2, <1>4, <1>5 DEF Grouped
  <1>7. /\ n.ymin = b.ymin /\ n.ymax = b.ymax /\ n.rows = b.rows
        /\ n.list = Unlinked(b.list, B)
        /\ n.owner = [t \in DOMAIN b.owner |-> IF t \in ToSet(b.cc[B].parts) THEN A ELSE b.owner[t]]
        /\ n.cc = Without(With(b.cc, A, Merged(b.cc[A], b.cc[B])), B)
    BY DEF cc_merge, cc_unlink, Block, Owners
  <1>8. DOMAIN n.owner = R /\ \A t \in R : n.owner[t] = IF b.owner[t] = B THEN A ELSE b.owner[t]
    BY <1>3, <1>5, <1>6, <1>7 DEF Component, Of
  <1>9. /\ DOMAIN n.cc = DOMAIN b.cc \ {B}
        /\ n.cc[A] = Merged(b.cc[A], b.cc[B])
        /\ \A c \in DOMAIN n.cc : c # A => n.cc[c] = b.cc[c]
    <2>1. PICK g : g = With(b.cc, A, Merged(b.cc[A], b.cc[B]))
      OBVIOUS
    <2>2. DOMAIN g = DOMAIN b.cc
      BY <1>4, <2>1 DEF With
    <2>3. g[A] = Merged(b.cc[A], b.cc[B])
      BY <1>4, <2>1 DEF With
    <2>4. \A c \in DOMAIN b.cc : c # A => g[c] = b.cc[c]
      BY <1>4, <2>1 DEF With
    <2>5. n.cc = Without(g, B)
      BY <1>7, <2>1
    <2>6. DOMAIN n.cc = DOMAIN b.cc \ {B} /\ \A c \in DOMAIN n.cc : n.cc[c] = g[c]
      BY <2>2, <2>5 DEF Without
    <2> QED  BY <1>4, <2>3, <2>4, <2>6, <2>2
  <1>10. Lists(n.list, DOMAIN n.cc)
    <2>1. Lists(b.list, DOMAIN b.cc)
      BY <1>2 DEF Grouped
    <2>2. B \in DOMAIN b.cc
      BY <1>4, Zenon
    <2>3. Lists(Unlinked(b.list, B), DOMAIN b.cc \ {B})
      BY <2>1, <2>2, ListsUnlinked, Zenon
    <2>4. n.list = Unlinked(b.list, B)
      BY <1>7, Zenon
    <2>5. DOMAIN n.cc = DOMAIN b.cc \ {B}
      BY <1>9, Zenon
    <2> QED  BY <2>3, <2>4, <2>5, Zenon
  <1>11. Of(n.owner, A) = RA \cup RB
    BY <1>3, <1>5, <1>8 DEF Of
  <1>12. \A c \in DOMAIN n.cc : c # A => Of(n.owner, c) = Of(b.owner, c)
    BY <1>3, <1>8, <1>9 DEF Of
  <1>13. Component(n.cc[A], RA \cup RB, set, img, e)
    <2>1. RA \subseteq R /\ RB \subseteq R /\ RA \cap RB = {} /\ r \in RA /\ s \in RB
      BY <1>3, <1>5 DEF Of
    <2>2. Cover(RA) \cap Cover(RB) = {}
      <3>1. AllApart(RA \cup RB)
        BY <1>3, <2>1 DEF AllApart
      <3> QED  BY <1>3, <2>1, <3>1, CoversDisjoint
    <2>3. Cover(RA \cup RB) = Cover(RA) \cup Cover(RB)
      BY CoverUnion
    <2>15. PICK P, Q, C : P = b.cc[A] /\ Q = b.cc[B] /\ C = n.cc[A]
      OBVIOUS
    <2>16. C = Merged(P, Q)
      BY <1>9, <2>15
    <2>4. DataOf(C, Cover(RA \cup RB), img.width, img.height)
      <3>1. PICK S, T : S = Cover(RA) /\ T = Cover(RB) /\ S \cap T = {}
        BY <2>2
      <3>2. DataOf(P, S, img.width, img.height) /\ DataOf(Q, T, img.width, img.height)
        BY <1>6, <2>15, <3>1 DEF Component
      <3>3. DataOf(Merged(P, Q), S \cup T, img.width, img.height)
        BY <3>1, <3>2, MergedData
      <3> QED  BY <2>3, <2>16, <3>1, <3>3
    <2>5. PICK p \in Positions(r), q \in Positions(s) : NearBy(e, p, q)
      BY DEF Touch
    <2>6. p \in Cover(RA) /\ q \in Cover(RB)
      BY <2>1, <2>5 DEF Cover
    <2>7. Cover(RA) \subseteq set /\ Cover(RB) \subseteq set
      BY <1>3, <2>1 DEF Cover
    <2>8. set \subseteq Int \X Int
      BY <1>1, <1>2 DEF Area, Framed
    <2>9. Conn(Cover(RA) \cup Cover(RB), set, e)
      BY <1>6, <2>5, <2>6, <2>7, <2>8, ConnJoined DEF Component
    <2>10. C.parts = P.parts \o Q.parts
      BY <2>16 DEF Merged
    <2>11. P.parts \in Seq(Ranges(img)) /\ Q.parts \in Seq(Ranges(img))
      BY <1>6, <2>15 DEF Component
    <2>17. PICK u, v : u = P.parts /\ v = Q.parts
      OBVIOUS
    <2>18. u \o v \in Seq(Ranges(img)) /\ ToSet(u \o v) = ToSet(u) \cup ToSet(v)
      BY <2>11, <2>17, ToSetConcat
    <2>12. C.parts \in Seq(Ranges(img)) /\ ToSet(C.parts) = ToSet(u) \cup ToSet(v)
      BY <2>10, <2>17, <2>18
    <2>13. ToSet(C.parts) = RA \cup RB
      BY <1>6, <2>12, <2>15, <2>17 DEF Component
    <2> QED  BY <2>3, <2>4, <2>9, <2>12, <2>13, <2>15 DEF Component
  <1>14. Grouped(n, set, img, e)
    <2>1. DOMAIN n.cc \subseteq DOMAIN n.owner
      BY <1>2, <1>3, <1>8, <1>9 DEF Grouped
    <2>2. \A t \in DOMAIN n.owner : n.owner[t] \in DOMAIN n.cc
      BY <1>2, <1>3, <1>4, <1>8, <1>9 DEF Grouped
    <2>3. \A c \in DOMAIN n.cc : Component(n.cc[c], Of(n.owner, c), set, img, e)
      <3> SUFFICES ASSUME NEW c \in DOMAIN n.cc PROVE Component(n.cc[c], Of(n.owner, c), set, img, e)
        OBVIOUS
      <3>1. CASE c = A
        BY <1>11, <1>13, <3>1
      <3>2. CASE c # A
        BY <1>2, <1>9, <1>12, <3>2 DEF Grouped
      <3> QED  BY <3>1, <3>2
    <2> QED  BY <1>10, <2>1, <2>2, <2>3 DEF Grouped
  <1>15. Framed(n, img)
    BY <1>2, <1>3, <1>7, <1>8 DEF Framed
  <1>16. Coarser(n, b)
    BY <1>3, <1>7, <1>8 DEF Coarser
  <1>17. n.owner[r] = n.owner[s]
    BY <1>3, <1>8
  <1> QED  BY <1>1, <1>7, <1>14, <1>15, <1>16, <1>17 DEF Sound

(* A meeting of two ranges leaves the block sound, and linked ranges in one
   component. *)
LEMMA JoinedSound ==
    ASSUME NEW img, img.width \in Nat, img.height \in Nat, eight \in BOOLEAN, NEW b, Sound(b, img, eight),
           NEW r \in DOMAIN b.owner, NEW s \in DOMAIN b.owner, s.y = r.y + 1,
           NEW n, n = Joined(b, r, s)
    PROVE  /\ Sound(n, img, eight) /\ Coarser(n, b)
           /\ LinkedBy(eight, r, s) => n.owner[r] = n.owner[s]
  <1>1. PICK A, B : A = b.owner[r] /\ B = b.owner[s]
    OBVIOUS
  <1>2. CASE LinkedBy(eight, r, s) /\ A # B
    <2>1. n = cc_merge(cc_unlink(b, B), A, B)
      BY <1>1, <1>2, LinkedIs DEF Joined
    <2>2. r \in Ranges(img) /\ s \in Ranges(img)
      BY DEF Sound, Framed
    <2>3. Touch(r, s, eight)
      BY <1>2, <2>2, LinkedTouch
    <2> QED  BY <1>1, <1>2, <2>1, <2>3, MergeSound
  <1>3. CASE ~ (LinkedBy(eight, r, s) /\ A # B)
    <2>1. n = b
      BY <1>1, <1>3, LinkedIs DEF Joined
    <2> QED  BY <1>1, <1>3, <2>1 DEF Coarser
  <1> QED  BY <1>2, <1>3

Separate(owner, e) == \A r, s \in DOMAIN owner : Touch(r, s, e) => owner[r] = owner[s]

Good(b, img, e) == Sound(b, img, e) /\ Separate(b.owner, e)

(* A row among more ranges of other rows. *)
LEMMA RowWider ==
    ASSUME NEW row, NEW R, NEW y, RowIs(row, R, y), NEW S, R \subseteq S, \A s \in S : s.y = y => s \in R
    PROVE  RowIs(row, S, y)
  <1>1. row \in Seq(S)
    BY DEF RowIs
  <1>2. ToSet(row) = {r \in S : r.y = y}
    BY DEF RowIs
  <1> QED  BY <1>1, <1>2 DEF RowIs

(* The first and the last of two sequences put together. *)
LEMMA FusedRows ==
    ASSUME NEW S, NEW s \in Seq(S), NEW t \in Seq(S), s # << >>, t # << >>
    PROVE  /\ s \o t \in Seq(S) /\ s \o t # << >>
           /\ Head(s \o t) = Head(s) /\ Last(s \o t) = Last(t)
  <1>1. PICK u, l, m : u = s \o t /\ l = Len(s) /\ m = Len(t)
    OBVIOUS
  <1>2. l \in Nat /\ m \in Nat /\ l >= 1 /\ m >= 1
    BY <1>1
  <1>3. /\ u \in Seq(S) /\ Len(u) = l + m
        /\ \A i \in 1 .. l + m : u[i] = IF i <= l THEN s[i] ELSE t[i - l]
    BY <1>1, ConcatProperties
  <1>4. 1 \in 1 .. l + m /\ 1 <= l /\ l + m \in 1 .. l + m /\ ~ (l + m <= l) /\ (l + m) - l = m
    BY <1>2
  <1>5. u[1] = s[1] /\ u[l + m] = t[m]
    BY <1>3, <1>4
  <1>6. u # << >>
    BY <1>2, <1>3
  <1> QED  BY <1>1, <1>3, <1>5, <1>6 DEF Last

(* Two sound blocks of adjacent rows, put together, are sound. *)
LEMMA FusedSound ==
    ASSUME NEW img, img.width \in Nat, img.height \in Nat, NEW e \in BOOLEAN,
           NEW a, NEW b, Sound(a, img, e), Sound(b, img, e), a.ymax + 1 = b.ymin,
           NEW f, f = Fused(a, b)
    PROVE  Sound(f, img, e)
  <1>1. PICK A, B, R, S : /\ A = Area(img, a.ymin, a.ymax) /\ B = Area(img, b.ymin, b.ymax)
                          /\ R = DOMAIN a.owner /\ S = DOMAIN b.owner
    OBVIOUS
  <1>2. Framed(a, img) /\ Framed(b, img) /\ Grouped(a, A, img, e) /\ Grouped(b, B, img, e)
    BY <1>1 DEF Sound
  <1>3. /\ f.ymin = a.ymin /\ f.ymax = b.ymax /\ f.rows = a.rows \o b.rows
        /\ f.owner = Together(a.owner, b.owner) /\ f.cc = Together(a.cc, b.cc)
        /\ f.list = a.list \o b.list
    BY DEF Fused, Block
  <1>4. /\ a.ymin \in Nat /\ a.ymax \in Nat /\ b.ymin \in Nat /\ b.ymax \in Nat /\ a.ymax + 1 = b.ymin
        /\ a.ymin <= a.ymax /\ b.ymin <= b.ymax /\ b.ymax < img.height
    BY <1>2 DEF Framed
  <1>5. /\ R \subseteq Ranges(img) /\ S \subseteq Ranges(img)
        /\ \A r \in R : r.y \in a.ymin .. a.ymax
        /\ \A r \in S : r.y \in b.ymin .. b.ymax
    BY <1>1, <1>2 DEF Framed
  <1>6. R \cap S = {} /\ \A r \in R, s \in S : r.y # s.y
    BY <1>4, <1>5
  <1>7. /\ DOMAIN f.owner = R \cup S
        /\ \A r \in R : f.owner[r] = a.owner[r]
        /\ \A r \in S : f.owner[r] = b.owner[r]
    BY <1>1, <1>3, <1>6 DEF Together
  <1>8. /\ DOMAIN a.cc \subseteq R /\ DOMAIN b.cc \subseteq S
        /\ \A r \in R : a.owner[r] \in DOMAIN a.cc
        /\ \A r \in S : b.owner[r] \in DOMAIN b.cc
    BY <1>1, <1>2 DEF Grouped
  <1>9. /\ DOMAIN f.cc = DOMAIN a.cc \cup DOMAIN b.cc
        /\ \A c \in DOMAIN a.cc : f.cc[c] = a.cc[c]
        /\ \A c \in DOMAIN b.cc : f.cc[c] = b.cc[c]
    BY <1>3, <1>6, <1>8 DEF Together
  <1>10. PICK U : U = Area(img, f.ymin, f.ymax) /\ U = A \cup B
    <2>1. a.ymin .. b.ymax = (a.ymin .. a.ymax) \cup (b.ymin .. b.ymax)
      BY <1>4
    <2> QED  BY <1>1, <1>3, <2>1 DEF Area
  <1>11. Framed(f, img)
    <2>1. f.ymin \in Nat /\ f.ymax \in Nat /\ f.ymin <= f.ymax /\ f.ymax < img.height
      BY <1>3, <1>4
    <2>2. DOMAIN f.owner \subseteq {r \in Ranges(img) : r.y \in f.ymin .. f.ymax}
      BY <1>3, <1>4, <1>5, <1>7
    <2>3. AllApart(DOMAIN f.owner)
      <3>1. AllApart(R) /\ AllApart(S)
        BY <1>1, <1>2 DEF Framed
      <3> QED  BY <1>6, <1>7, <3>1 DEF AllApart
    <2>4. Cover(DOMAIN f.owner) = U
      <3>1. Cover(R) = A /\ Cover(S) = B
        BY <1>1, <1>2 DEF Framed
      <3> QED  BY <1>7, <1>10, <3>1, CoverUnion
    <2>5. PICK s, t : s = a.rows /\ t = b.rows
      OBVIOUS
    <2>6. s \in Seq(Seq(Ranges(img))) /\ t \in Seq(Seq(Ranges(img))) /\ s # << >> /\ t # << >>
      BY <1>2, <2>5 DEF Framed
    <2>7. /\ s \o t \in Seq(Seq(Ranges(img))) /\ s \o t # << >>
          /\ Head(s \o t) = Head(s) /\ Last(s \o t) = Last(t)
      BY <2>6, FusedRows
    <2>8. RowIs(Head(s), R \cup S, f.ymin)
      <3>1. RowIs(Head(s), R, a.ymin)
        BY <1>1, <1>2, <2>5 DEF Framed
      <3>2. \A r \in R \cup S : r.y = a.ymin => r \in R
        BY <1>4, <1>5
      <3> QED  BY <1>3, <3>1, <3>2, RowWider
    <2>9. RowIs(Last(t), R \cup S, f.ymax)
      <3>1. RowIs(Last(t), S, b.ymax)
        BY <1>1, <1>2, <2>5 DEF Framed
      <3>2. \A r \in R \cup S : r.y = b.ymax => r \in S
        BY <1>4, <1>5
      <3> QED  BY <1>3, <3>1, <3>2, RowWider
    <2> QED  BY <1>3, <1>7, <1>10, <2>1, <2>2, <2>3, <2>4, <2>5, <2>7, <2>8, <2>9 DEF Framed
  <1>12. Grouped(f, U, img, e)
    <2>1. DOMAIN f.cc \subseteq DOMAIN f.owner
      BY <1>7, <1>8, <1>9
    <2>2. \A r \in DOMAIN f.owner : f.owner[r] \in DOMAIN f.cc
      BY <1>7, <1>8, <1>9
    <2>3. Lists(f.list, DOMAIN f.cc)
      <3>1. Lists(a.list, DOMAIN a.cc) /\ Lists(b.list, DOMAIN b.cc)
        BY <1>2 DEF Grouped
      <3>2. DOMAIN a.cc \cap DOMAIN b.cc = {}
        BY <1>6, <1>8
      <3> QED  BY <1>3, <1>9, <3>1, <3>2, ListsJoined
    <2>4. ASSUME NEW c \in DOMAIN f.cc PROVE Component(f.cc[c], Of(f.owner, c), U, img, e)
      <3>1. CASE c \in DOMAIN a.cc
        <4>1. PICK C, T : C = a.cc[c] /\ T = Of(a.owner, c)
          OBVIOUS
        <4>2. Of(f.owner, c) = T
          BY <1>1, <1>6, <1>7, <1>8, <3>1, <4>1 DEF Of
        <4>3. Component(C, T, A, img, e)
          BY <1>2, <3>1, <4>1 DEF Grouped
        <4>4. Cover(T) \subseteq A
          <5>1. T \subseteq R /\ Cover(R) = A
            BY <1>1, <1>2, <4>1 DEF Of, Framed
          <5> QED  BY <5>1 DEF Cover
        <4>5. Conn(Cover(T), U, e)
          BY <1>10, <4>3, <4>4, ConnWider DEF Component
        <4> QED  BY <1>9, <3>1, <4>1, <4>2, <4>3, <4>5 DEF Component
      <3>2. CASE c \in DOMAIN b.cc
        <4>1. PICK C, T : C = b.cc[c] /\ T = Of(b.owner, c)
          OBVIOUS
        <4>2. Of(f.owner, c) = T
          BY <1>1, <1>6, <1>7, <1>8, <3>2, <4>1 DEF Of
        <4>3. Component(C, T, B, img, e)
          BY <1>2, <3>2, <4>1 DEF Grouped
        <4>4. Cover(T) \subseteq B
          <5>1. T \subseteq S /\ Cover(S) = B
            BY <1>1, <1>2, <4>1 DEF Of, Framed
          <5> QED  BY <5>1 DEF Cover
        <4>5. Conn(Cover(T), U, e)
          BY <1>10, <4>3, <4>4, ConnWider DEF Component
        <4> QED  BY <1>9, <3>2, <4>1, <4>2, <4>3, <4>5 DEF Component
      <3> QED  BY <1>9, <3>1, <3>2
    <2> QED  BY <2>1, <2>2, <2>3, <2>4 DEF Grouped
  <1> QED  BY <1>10, <1>11, <1>12 DEF Sound

(* The recursive function of cc_fuse_blocks. *)
Walks(w, above, below, f, N) ==
    w = [n \in 0 .. N |-> IF n = 0 THEN Walk(1, 1, f) ELSE WalkStep(w[n - 1], above, below)]

(* There is such a function. *)
LEMMA WalkExists ==
    ASSUME NEW above, NEW below, NEW f, NEW N \in Nat
    PROVE  \E w : Walks(w, above, below, f, N)
  <1> DEFINE E == {n \in Nat : \E w : Walks(w, above, below, f, n)}
  <1>1. 0 \in E
    <2>1. PICK w : w = [n \in 0 .. 0 |-> Walk(1, 1, f)]
      OBVIOUS
    <2>2. \A n \in 0 .. 0 : n = 0
      OBVIOUS
    <2>3. Walks(w, above, below, f, 0)
      BY <2>1, <2>2 DEF Walks
    <2> QED  BY <2>3
  <1>2. ASSUME NEW k \in Nat, k \in E PROVE k + 1 \in E
    <2>1. PICK w : Walks(w, above, below, f, k)
      BY <1>2
    <2>2. PICK v : v = [n \in 0 .. k + 1 |-> IF n <= k THEN w[n] ELSE WalkStep(w[k], above, below)]
      OBVIOUS
    <2>3. \A n \in 0 .. k : v[n] = w[n] /\ w[n] = IF n = 0 THEN Walk(1, 1, f) ELSE WalkStep(w[n - 1], above, below)
      BY <2>1, <2>2 DEF Walks
    <2>4. ASSUME NEW n \in 0 .. k + 1
          PROVE  v[n] = IF n = 0 THEN Walk(1, 1, f) ELSE WalkStep(v[n - 1], above, below)
      <3>1. CASE n = 0
        <4>1. 0 \in 0 .. k
          OBVIOUS
        <4> QED  BY <2>3, <3>1, <4>1
      <3>2. CASE n \in 1 .. k
        <4>1. n \in 0 .. k /\ n - 1 \in 0 .. k /\ n # 0
          BY <3>2
        <4>2. v[n] = WalkStep(w[n - 1], above, below) /\ v[n - 1] = w[n - 1]
          BY <2>3, <4>1
        <4> QED  BY <4>1, <4>2
      <3>3. CASE n = k + 1
        <4>1. ~ (n <= k) /\ n - 1 = k /\ n # 0 /\ k \in 0 .. k
          BY <3>3
        <4>2. v[n] = WalkStep(w[k], above, below) /\ v[k] = w[k]
          BY <2>2, <2>3, <4>1
        <4> QED  BY <4>1, <4>2
      <3>4. n = 0 \/ n \in 1 .. k \/ n = k + 1
        OBVIOUS
      <3> QED  BY <3>1, <3>2, <3>3, <3>4
    <2>5. v = [n \in 0 .. k + 1 |-> v[n]]
      BY <2>2
    <2>6. Walks(v, above, below, f, k + 1)
      BY <2>4, <2>5 DEF Walks
    <2> QED  BY <2>6
  <1>3. \A n \in Nat : n \in E
    <2> HIDE DEF E
    <2> QED  BY <1>1, <1>2, SetInduction
  <1> QED  BY <1>3

(* The two rows of a fusion. *)
Facing(above, below, R, img) ==
    /\ R \subseteq Ranges(img)
    /\ above \in Seq(R) /\ below \in Seq(R)
    /\ \A i \in 1 .. Len(above), j \in 1 .. Len(below) : below[j].y = above[i].y + 1
    /\ \A i, j \in 1 .. Len(above) : i < j => Gap(above[i], above[j])
    /\ \A i, j \in 1 .. Len(below) : i < j => Gap(below[i], below[j])

Met(owner, above, below, i, j, e) ==
    LinkedBy(e, above[i], below[j]) => owner[above[i]] = owner[below[j]]

(* After n steps of the walk: one range has been left per step, unless one
   row has ended; and what has been left has met all it is linked to. *)
WalkGood(s, n, f, above, below, img, e) ==
    /\ Sound(s.block, img, e) /\ Coarser(s.block, f)
    /\ s.i \in 1 .. Len(above) + 1 /\ s.j \in 1 .. Len(below) + 1
    /\ s.i + s.j = n + 2 \/ s.i = Len(above) + 1 \/ s.j = Len(below) + 1
    /\ \A i \in 1 .. Len(above), j \in 1 .. Len(below) :
           i < s.i \/ j < s.j => Met(s.block.owner, above, below, i, j, e)

(* To be coarser is transitive. *)
LEMMA CoarserTrans ==
    ASSUME NEW a, NEW b, NEW c, Coarser(a, b), Coarser(b, c) PROVE Coarser(a, c)
  BY DEF Coarser

(* The range that ends first is linked to no later one. *)
LEMMA LeftBehind ==
    ASSUME NEW img, img.width \in Nat, img.height \in Nat, NEW e \in BOOLEAN, NEW R,
           NEW above, NEW below, Facing(above, below, R, img),
           NEW i \in 1 .. Len(above), NEW j \in 1 .. Len(below)
    PROVE  /\ StepA(above[i], below[j]) =>
                  \A l \in 1 .. Len(below) : l > j => ~ LinkedBy(e, above[i], below[l])
           /\ ~ StepA(above[i], below[j]) =>
                  \A l \in 1 .. Len(above) : l > i => ~ LinkedBy(e, above[l], below[j])
  <1>1. \A l \in 1 .. Len(above) : above[l] \in Ranges(img)
    BY DEF Facing
  <1>2. \A l \in 1 .. Len(below) : below[l] \in Ranges(img)
    BY DEF Facing
  <1>3. \A r \in Ranges(img) : r.xmin \in Int /\ r.xmax \in Int /\ r.xmin <= r.xmax
    BY DEF Ranges
  <1>4. ASSUME NEW l \in 1 .. Len(below), l > j, StepA(above[i], below[j])
        PROVE  ~ LinkedBy(e, above[i], below[l])
    <2>1. PICK r, s, t : r = above[i] /\ s = below[j] /\ t = below[l]
      OBVIOUS
    <2>2. r \in Ranges(img) /\ s \in Ranges(img) /\ t \in Ranges(img)
      BY <1>1, <1>2, <2>1
    <2>3. r.xmax <= s.xmax
      BY <1>4, <2>1 DEF StepA
    <2>4. s.xmax + 1 < t.xmin
      BY <1>4, <2>1 DEF Facing, Gap
    <2>5. r.xmax + 1 < t.xmin /\ r.xmax < t.xmin
      BY <1>3, <2>2, <2>3, <2>4
    <2> QED  BY <2>1, <2>5 DEF LinkedBy, cc_neighbour_4, cc_neighbour_8
  <1>5. ASSUME NEW l \in 1 .. Len(above), l > i, ~ StepA(above[i], below[j])
        PROVE  ~ LinkedBy(e, above[l], below[j])
    <2>1. PICK r, s, t : r = above[i] /\ s = below[j] /\ t = above[l]
      OBVIOUS
    <2>2. r \in Ranges(img) /\ s \in Ranges(img) /\ t \in Ranges(img)
      BY <1>1, <1>2, <2>1
    <2>3. r.xmax > s.xmax
      BY <1>3, <1>5, <2>1, <2>2 DEF StepA
    <2>4. r.xmax + 1 < t.xmin
      BY <1>5, <2>1 DEF Facing, Gap
    <2>5. t.xmin > s.xmax + 1 /\ t.xmin > s.xmax
      BY <1>3, <2>2, <2>3, <2>4
    <2> QED  BY <2>1, <2>5 DEF LinkedBy, cc_neighbour_4, cc_neighbour_8
  <1> QED  BY <1>4, <1>5

(* Each step of the walk keeps that. *)
LEMMA WalkKeeps ==
    ASSUME NEW img, img.width \in Nat, img.height \in Nat, eight \in BOOLEAN, NEW f,
           NEW above, NEW below, Facing(above, below, DOMAIN f.owner, img),
           NEW n \in Nat, NEW s, WalkGood(s, n, f, above, below, img, eight)
    PROVE  WalkGood(WalkStep(s, above, below), n + 1, f, above, below, img, eight)
  <1>1. PICK p \in Nat, q \in Nat : p = Len(above) /\ q = Len(below)
    BY DEF Facing
  <1>2. PICK i \in 1 .. p + 1, j \in 1 .. q + 1 : i = s.i /\ j = s.j
    BY <1>1 DEF WalkGood
  <1>5. i + j = n + 2 \/ i = p + 1 \/ j = q + 1
    BY <1>1, <1>2 DEF WalkGood
  <1>3. CASE i > p \/ j > q
    <2>1. WalkStep(s, above, below) = s
      BY <1>1, <1>2, <1>3 DEF WalkStep
    <2>2. i = p + 1 \/ j = q + 1
      BY <1>3
    <2> QED  BY <1>1, <1>2, <2>1, <2>2 DEF WalkGood
  <1>4. CASE i \in 1 .. p /\ j \in 1 .. q
    <2>1. PICK b, c : b = s.block /\ c = Joined(b, above[i], below[j])
      OBVIOUS
    <2>2. Sound(b, img, eight) /\ Coarser(b, f)
      BY <2>1 DEF WalkGood
    <2>3. /\ \A k \in 1 .. p : above[k] \in DOMAIN b.owner
          /\ \A k \in 1 .. q : below[k] \in DOMAIN b.owner
          /\ below[j].y = above[i].y + 1
      BY <1>1, <1>4, <2>2 DEF Facing, Coarser
    <2>4. /\ Sound(c, img, eight) /\ Coarser(c, b)
          /\ LinkedBy(eight, above[i], below[j]) => c.owner[above[i]] = c.owner[below[j]]
      BY <1>4, <2>1, <2>2, <2>3, JoinedSound
    <2>5. Coarser(c, f)
      BY <2>2, <2>4, CoarserTrans
    <2>6. \A k \in 1 .. p, l \in 1 .. q : k < i \/ l < j => Met(c.owner, above, below, k, l, eight)
      <3> SUFFICES ASSUME NEW k \in 1 .. p, NEW l \in 1 .. q, k < i \/ l < j
                   PROVE  Met(c.owner, above, below, k, l, eight)
        OBVIOUS
      <3>1. Met(b.owner, above, below, k, l, eight)
        BY <1>1, <1>2, <2>1 DEF WalkGood
      <3>2. above[k] \in DOMAIN b.owner /\ below[l] \in DOMAIN b.owner
        BY <2>3
      <3> QED  BY <2>4, <3>1, <3>2 DEF Met, Coarser
    <2>7. Met(c.owner, above, below, i, j, eight)
      BY <2>4 DEF Met
    <2>8. CASE StepA(above[i], below[j])
      <3>1. PICK u : u = WalkStep(s, above, below) /\ u.i = i + 1 /\ u.j = j /\ u.block = c
        <4>1. WalkStep(s, above, below) = Walk(i + 1, j, c)
          BY <1>1, <1>2, <1>4, <2>1, <2>8 DEF WalkStep
        <4> QED  BY <4>1 DEF Walk
      <3>2. \A l \in 1 .. q : l > j => Met(c.owner, above, below, i, l, eight)
        BY <1>1, <1>4, <2>8, LeftBehind DEF Met
      <3>3. \A k \in 1 .. p, l \in 1 .. q : k < i + 1 \/ l < j => Met(c.owner, above, below, k, l, eight)
        <4> SUFFICES ASSUME NEW k \in 1 .. p, NEW l \in 1 .. q, k < i + 1 \/ l < j
                     PROVE  Met(c.owner, above, below, k, l, eight)
          OBVIOUS
        <4>1. k < i \/ l < j \/ (k = i /\ l > j) \/ (k = i /\ l = j)
          OBVIOUS
        <4> QED  BY <2>6, <2>7, <3>2, <4>1
      <3>4. i + 1 \in 1 .. p + 1 /\ ((i + 1) + j = (n + 1) + 2 \/ i + 1 = p + 1 \/ j = q + 1)
        BY <1>4, <1>5
      <3> QED  BY <1>1, <1>2, <2>4, <2>5, <3>1, <3>3, <3>4 DEF WalkGood
    <2>9. CASE ~ StepA(above[i], below[j])
      <3>1. PICK u : u = WalkStep(s, above, below) /\ u.i = i /\ u.j = j + 1 /\ u.block = c
        <4>1. WalkStep(s, above, below) = Walk(i, j + 1, c)
          BY <1>1, <1>2, <1>4, <2>1, <2>9 DEF WalkStep
        <4> QED  BY <4>1 DEF Walk
      <3>2. \A k \in 1 .. p : k > i => Met(c.owner, above, below, k, j, eight)
        BY <1>1, <1>4, <2>9, LeftBehind DEF Met
      <3>3. \A k \in 1 .. p, l \in 1 .. q : k < i \/ l < j + 1 => Met(c.owner, above, below, k, l, eight)
        <4> SUFFICES ASSUME NEW k \in 1 .. p, NEW l \in 1 .. q, k < i \/ l < j + 1
                     PROVE  Met(c.owner, above, below, k, l, eight)
          OBVIOUS
        <4>1. k < i \/ l < j \/ (l = j /\ k > i) \/ (k = i /\ l = j)
          OBVIOUS
        <4> QED  BY <2>6, <2>7, <3>2, <4>1
      <3>4. j + 1 \in 1 .. q + 1 /\ (i + (j + 1) = (n + 1) + 2 \/ i = p + 1 \/ j + 1 = q + 1)
        BY <1>4, <1>5
      <3> QED  BY <1>1, <1>2, <2>4, <2>5, <3>1, <3>3, <3>4 DEF WalkGood
    <2> QED  BY <2>8, <2>9
  <1> QED  BY <1>3, <1>4

(* The blocks fused are a good block. *)
LEMMA FuseGood ==
    ASSUME NEW img, img.width \in Nat, img.height \in Nat, eight \in BOOLEAN,
           NEW a, NEW b, Good(a, img, eight), Good(b, img, eight), a.ymax + 1 = b.ymin,
           NEW n, n = cc_fuse_blocks(a, b)
    PROVE  Good(n, img, eight)
  <1>1. PICK above, below, f, R, S : /\ above = Last(a.rows) /\ below = Head(b.rows) /\ f = Fused(a, b)
                                     /\ R = DOMAIN a.owner /\ S = DOMAIN b.owner
    OBVIOUS
  <1>2. Sound(a, img, eight) /\ Sound(b, img, eight) /\ Separate(a.owner, eight) /\ Separate(b.owner, eight)
    BY DEF Good
  <1>3. Sound(f, img, eight)
    BY <1>1, <1>2, FusedSound
  <1>4. RowIs(above, R, a.ymax) /\ RowIs(below, S, b.ymin)
    BY <1>1, <1>2 DEF Sound, Framed
  <1>5. /\ a.ymin \in Nat /\ a.ymax \in Nat /\ b.ymin \in Nat /\ b.ymax \in Nat
        /\ R \subseteq Ranges(img) /\ S \subseteq Ranges(img)
        /\ \A r \in R : r.y \in a.ymin .. a.ymax
        /\ \A r \in S : r.y \in b.ymin .. b.ymax
    BY <1>1, <1>2 DEF Sound, Framed
  <1>6. R \cap S = {}
    BY <1>5
  <1>7. /\ DOMAIN f.owner = R \cup S
        /\ \A r \in R : f.owner[r] = a.owner[r]
        /\ \A r \in S : f.owner[r] = b.owner[r]
    BY <1>1, <1>6 DEF Fused, Block, Together
  <1>8. PICK p \in Nat, q \in Nat : p = Len(above) /\ q = Len(below)
    BY <1>4 DEF RowIs
  <1>9. /\ \A r \in R : r.y = a.ymax <=> \E i \in 1 .. p : above[i] = r
        /\ \A r \in S : r.y = b.ymin <=> \E j \in 1 .. q : below[j] = r
    <2>1. DOMAIN above = 1 .. p /\ DOMAIN below = 1 .. q
      BY <1>4, <1>8 DEF RowIs
    <2>2. ToSet(above) = {above[i] : i \in 1 .. p} /\ ToSet(below) = {below[j] : j \in 1 .. q}
      BY <2>1 DEF ToSet
    <2>3. ToSet(above) = {r \in R : r.y = a.ymax} /\ ToSet(below) = {r \in S : r.y = b.ymin}
      BY <1>4 DEF RowIs
    <2>4. \A r \in R : r.y = a.ymax <=> r \in {above[i] : i \in 1 .. p}
      BY <2>2, <2>3
    <2>5. \A r \in S : r.y = b.ymin <=> r \in {below[j] : j \in 1 .. q}
      BY <2>2, <2>3
    <2> QED  BY <2>4, <2>5
  <1>10. Facing(above, below, DOMAIN f.owner, img)
    <2>1. above \in Seq(R \cup S) /\ below \in Seq(R \cup S)
      BY <1>4 DEF RowIs
    <2>2. \A i \in 1 .. p, j \in 1 .. q : below[j].y = above[i].y + 1
      <3> SUFFICES ASSUME NEW i \in 1 .. p, NEW j \in 1 .. q PROVE below[j].y = above[i].y + 1
        OBVIOUS
      <3>1. above[i] \in R /\ below[j] \in S
        BY <1>4, <1>8 DEF RowIs
      <3>2. above[i].y = a.ymax /\ below[j].y = b.ymin
        BY <1>9, <3>1
      <3> QED  BY <3>2
    <2> QED  BY <1>4, <1>5, <1>7, <1>8, <2>1, <2>2 DEF Facing, RowIs
  <1>11. PICK N \in Nat : N = p + q
    OBVIOUS
  <1>12. PICK w : w = (CHOOSE v : Walks(v, above, below, f, N)) /\ Walks(w, above, below, f, N)
    BY WalkExists
  <1>13. n = w[N].block
    BY <1>1, <1>8, <1>11, <1>12 DEF cc_fuse_blocks, Walks
  <1> DEFINE E == {k \in Nat : k <= N => WalkGood(w[k], k, f, above, below, img, eight)}
  <1>14. 0 \in E
    <2>1. 0 \in 0 .. N
      OBVIOUS
    <2>2. w[0] = Walk(1, 1, f)
      BY <1>12, <2>1 DEF Walks
    <2>3. PICK u : u = w[0] /\ u.i = 1 /\ u.j = 1 /\ u.block = f
      BY <2>2 DEF Walk
    <2>4. Coarser(f, f)
      BY DEF Coarser
    <2>5. WalkGood(u, 0, f, above, below, img, eight)
      BY <1>3, <1>8, <2>3, <2>4 DEF WalkGood
    <2> QED  BY <2>3, <2>5
  <1>15. ASSUME NEW k \in Nat, k \in E PROVE k + 1 \in E
    <2> SUFFICES ASSUME k + 1 <= N PROVE WalkGood(w[k + 1], k + 1, f, above, below, img, eight)
      OBVIOUS
    <2>1. k + 1 \in 0 .. N /\ k + 1 # 0 /\ (k + 1) - 1 = k
      OBVIOUS
    <2>2. w[k + 1] = WalkStep(w[k], above, below)
      BY <1>12, <2>1 DEF Walks
    <2>3. WalkGood(w[k], k, f, above, below, img, eight)
      BY <1>15
    <2> QED  BY <1>10, <2>2, <2>3, WalkKeeps
  <1>16. N \in E
    <2> HIDE DEF E
    <2> QED  BY <1>14, <1>15, SetInduction
  <1>17. PICK u : u = w[N] /\ WalkGood(u, N, f, above, below, img, eight) /\ u.block = n
    BY <1>13, <1>16
  <1>18. Sound(n, img, eight) /\ Coarser(n, f)
    BY <1>17 DEF WalkGood
  <1>19. \A i \in 1 .. p, j \in 1 .. q : Met(n.owner, above, below, i, j, eight)
    <2> SUFFICES ASSUME NEW i \in 1 .. p, NEW j \in 1 .. q PROVE Met(n.owner, above, below, i, j, eight)
      OBVIOUS
    <2>1. u.i = p + 1 \/ u.j = q + 1
      <3>1. /\ u.i \in 1 .. p + 1 /\ u.j \in 1 .. q + 1
            /\ u.i + u.j = N + 2 \/ u.i = p + 1 \/ u.j = q + 1
        BY <1>8, <1>17 DEF WalkGood
      <3> QED  BY <1>11, <3>1
    <2>2. i < u.i \/ j < u.j
      BY <2>1
    <2> QED  BY <1>8, <1>17, <2>2 DEF WalkGood
  <1>20. Separate(n.owner, eight)
    <2>1. DOMAIN n.owner = R \cup S
      BY <1>7, <1>18 DEF Coarser
    <2>2. ASSUME NEW r \in R, NEW s \in S, Touch(r, s, eight) PROVE n.owner[r] = n.owner[s]
      <3>1. r.y - s.y \in -1 .. 1 /\ (s.y = r.y + 1 => LinkedBy(eight, r, s))
        BY <1>5, <2>2, TouchRows
      <3>2. r.y = a.ymax /\ s.y = b.ymin /\ s.y = r.y + 1
        BY <1>5, <3>1
      <3>3. PICK i \in 1 .. p : above[i] = r
        BY <1>9, <3>2
      <3>4. PICK j \in 1 .. q : below[j] = s
        BY <1>9, <3>2
      <3> QED  BY <1>19, <3>1, <3>2, <3>3, <3>4 DEF Met
    <2>3. ASSUME NEW r \in R \cup S, NEW s \in R \cup S, Touch(r, s, eight) PROVE n.owner[r] = n.owner[s]
      <3>1. CASE r \in R /\ s \in R
        <4>1. f.owner[r] = f.owner[s]
          BY <1>1, <1>2, <1>7, <2>3, <3>1 DEF Separate
        <4> QED  BY <1>7, <1>18, <4>1 DEF Coarser
      <3>2. CASE r \in S /\ s \in S
        <4>1. f.owner[r] = f.owner[s]
          BY <1>1, <1>2, <1>7, <2>3, <3>2 DEF Separate
        <4> QED  BY <1>7, <1>18, <4>1 DEF Coarser
      <3>3. CASE r \in R /\ s \in S
        BY <2>2, <2>3, <3>3
      <3>4. CASE r \in S /\ s \in R
        <4>1. Touch(s, r, eight)
          BY <1>5, <2>3, <3>4, TouchRows
        <4> QED  BY <2>2, <3>4, <4>1
      <3> QED  BY <3>1, <3>2, <3>3, <3>4
    <2> QED  BY <2>1, <2>3 DEF Separate
  <1> QED  BY <1>18, <1>20 DEF Good

(* The recursive function of cc_scan. *)
Scans(d, X, width, b, N) ==
    d = [n \in 0 .. N |-> IF n = 0 THEN Scan(FALSE, 0, 0, b) ELSE ScanStep(d[n - 1], n - 1, X, width)]

(* There is such a function. *)
LEMMA ScanExists ==
    ASSUME NEW X, NEW width, NEW b, NEW N \in Nat
    PROVE  \E d : Scans(d, X, width, b, N)
  <1> DEFINE E == {n \in Nat : \E d : Scans(d, X, width, b, n)}
  <1>1. 0 \in E
    <2>1. PICK d : d = [n \in 0 .. 0 |-> Scan(FALSE, 0, 0, b)]
      OBVIOUS
    <2>2. \A n \in 0 .. 0 : n = 0
      OBVIOUS
    <2>3. Scans(d, X, width, b, 0)
      BY <2>1, <2>2 DEF Scans
    <2> QED  BY <2>3
  <1>2. ASSUME NEW k \in Nat, k \in E PROVE k + 1 \in E
    <2>1. PICK d : Scans(d, X, width, b, k)
      BY <1>2
    <2>2. PICK c : c = [n \in 0 .. k + 1 |-> IF n <= k THEN d[n] ELSE ScanStep(d[k], k, X, width)]
      OBVIOUS
    <2>3. \A n \in 0 .. k : c[n] = d[n] /\ d[n] = IF n = 0 THEN Scan(FALSE, 0, 0, b)
                                                  ELSE ScanStep(d[n - 1], n - 1, X, width)
      <3>1. \A n \in 0 .. k : c[n] = d[n]
        BY <2>2
      <3>2. \A n \in 0 .. k : d[n] = IF n = 0 THEN Scan(FALSE, 0, 0, b) ELSE ScanStep(d[n - 1], n - 1, X, width)
        BY <2>1 DEF Scans
      <3> QED  BY <3>1, <3>2
    <2>4. ASSUME NEW n \in 0 .. k + 1
          PROVE  c[n] = IF n = 0 THEN Scan(FALSE, 0, 0, b) ELSE ScanStep(c[n - 1], n - 1, X, width)
      <3>1. CASE n = 0
        <4>1. 0 \in 0 .. k
          OBVIOUS
        <4> QED  BY <2>3, <3>1, <4>1
      <3>2. CASE n \in 1 .. k
        <4>1. n \in 0 .. k /\ n - 1 \in 0 .. k /\ n # 0
          BY <3>2
        <4>2. c[n] = ScanStep(d[n - 1], n - 1, X, width) /\ c[n - 1] = d[n - 1]
          BY <2>3, <4>1
        <4> QED  BY <4>1, <4>2
      <3>3. CASE n = k + 1
        <4>1. ~ (n <= k) /\ n - 1 = k /\ n # 0 /\ k \in 0 .. k
          BY <3>3
        <4>2. c[n] = ScanStep(d[k], k, X, width) /\ c[k] = d[k]
          BY <2>2, <2>3, <4>1
        <4> QED  BY <4>1, <4>2
      <3>4. n = 0 \/ n \in 1 .. k \/ n = k + 1
        OBVIOUS
      <3> QED  BY <3>1, <3>2, <3>3, <3>4
    <2>5. c = [n \in 0 .. k + 1 |-> c[n]]
      BY <2>2
    <2>6. Scans(c, X, width, b, k + 1)
      BY <2>4, <2>5 DEF Scans
    <2> QED  BY <2>6
  <1>3. \A n \in Nat : n \in E
    <2> HIDE DEF E
    <2> QED  BY <1>1, <1>2, SetInduction
  <1> QED  BY <1>3

(* The block of row y, all of X below m scanned: every range is a component of
   its own, and ends before m - 1. *)
RowGood(b, m, y, X, img) ==
    /\ b.ymin = y /\ b.ymax = y
    /\ DOMAIN b.owner \subseteq {r \in Ranges(img) : r.y = y /\ r.xmax + 1 < m}
    /\ \A r \in DOMAIN b.owner, x \in Nat : x \in r.xmin .. r.xmax => x \in X
    /\ \A x \in X : x < m => \E r \in DOMAIN b.owner : x \in r.xmin .. r.xmax
    /\ \E row : b.rows = << row >> /\ RowIs(row, DOMAIN b.owner, y)
    /\ \A r \in DOMAIN b.owner : b.owner[r] = r
    /\ DOMAIN b.cc = DOMAIN b.owner
    /\ Lists(b.list, DOMAIN b.cc)
    /\ \A c \in DOMAIN b.cc : b.cc[c] = cc_new(y, c.xmin, c.xmax)

(* The block at the beginning of a scan (cc_new_block). *)
LEMMA NewBlockGood ==
    ASSUME NEW img, NEW y \in Nat, NEW X \in SUBSET Nat, NEW b, b = cc_new_block(y)
    PROVE  RowGood(b, 0, y, X, img)
  <1>1. PICK nil : nil = << >>
    OBVIOUS
  <1>2. DOMAIN nil = {} /\ Len(nil) = 0
    BY <1>1
  <1>3. b.ymin = y /\ b.ymax = y /\ b.rows = << nil >> /\ b.owner = nil /\ b.cc = nil /\ b.list = nil
    BY <1>1 DEF cc_new_block, Block, cc_new_row
  <1>4. ToSet(nil) = {}
    BY <1>2 DEF ToSet
  <1>5. nil \in Seq({})
    BY <1>1
  <1>6. Lists(nil, {}) /\ RowIs(nil, {}, y)
    BY <1>2, <1>4, <1>5 DEF Lists, RowIs
  <1>7. \E row : b.rows = << row >> /\ RowIs(row, DOMAIN b.owner, y)
    BY <1>2, <1>3, <1>6
  <1>8. Lists(b.list, DOMAIN b.cc) /\ DOMAIN b.cc = {} /\ DOMAIN b.owner = {}
    BY <1>2, <1>3, <1>6
  <1>9. \A x \in X : ~ (x < 0)
    OBVIOUS
  <1> QED  BY <1>3, <1>7, <1>8, <1>9 DEF RowGood

(* The block with one range more (cc_extend_block). *)
LEMMA ExtendGood ==
    ASSUME NEW img, img.width \in Nat, img.height \in Nat, NEW y \in 0 .. img.height - 1, NEW X \in SUBSET Nat,
           NEW b, NEW u \in Nat, NEW v \in Nat, u <= v, v < img.width, \A x \in u .. v : x \in X,
           RowGood(b, u, y, X, img), v + 1 \notin X,
           NEW n, n = cc_extend_block(b, u, v)
    PROVE  RowGood(n, v + 2, y, X, img)
  <1>1. PICK range, R : range = cc_new_range(y, u, v) /\ R = DOMAIN b.owner
    OBVIOUS
  <1>2. range.y = y /\ range.xmin = u /\ range.xmax = v /\ range \in Ranges(img)
    BY <1>1 DEF cc_new_range, Ranges
  <1>3. PICK row : b.rows = << row >> /\ RowIs(row, R, y)
    BY <1>1 DEF RowGood
  <1>4. /\ n.ymin = y /\ n.ymax = y /\ n.rows = << Append(row, range) >>
        /\ n.owner = With(b.owner, range, range)
        /\ n.cc = With(b.cc, range, cc_new(y, u, v))
        /\ n.list = Append(b.list, range)
    <2>1. b.rows[1] = row /\ b.ymin = y /\ b.ymax = y
      BY <1>3 DEF RowGood
    <2>2. n = Block(b.ymin, b.ymax, << Append(b.rows[1], range) >>, With(b.owner, range, range),
                    With(b.cc, range, cc_new(b.ymin, u, v)), Append(b.list, range))
      BY <1>1, <2>1 DEF cc_extend_block
    <2> QED  BY <2>1, <2>2 DEF Block
  <1>5. \A r \in R : r \in Ranges(img) /\ r.y = y /\ r.xmax + 1 < u
    BY <1>1 DEF RowGood
  <1>6. \A r \in R : r.xmin \in Int /\ r.xmax \in Int
    BY <1>5 DEF Ranges
  <1>7. range \notin R
    BY <1>2, <1>5, <1>6
  <1>8. /\ DOMAIN n.owner = R \cup {range}
        /\ \A r \in R : n.owner[r] = b.owner[r]
        /\ n.owner[range] = range
    BY <1>1, <1>4, <1>7 DEF With
  <1>9. /\ DOMAIN n.cc = R \cup {range}
        /\ \A c \in R : n.cc[c] = b.cc[c]
        /\ n.cc[range] = cc_new(y, u, v)
    BY <1>1, <1>4, <1>7 DEF With, RowGood
  <1>10. DOMAIN n.owner \subseteq {r \in Ranges(img) : r.y = y /\ r.xmax + 1 < v + 2}
    BY <1>2, <1>5, <1>6, <1>8
  <1>11. \A r \in DOMAIN n.owner, x \in Nat : x \in r.xmin .. r.xmax => x \in X
    BY <1>1, <1>2, <1>8 DEF RowGood
  <1>12. \A x \in X : x < v + 2 => \E r \in DOMAIN n.owner : x \in r.xmin .. r.xmax
    <2> SUFFICES ASSUME NEW x \in X, x < v + 2 PROVE \E r \in DOMAIN n.owner : x \in r.xmin .. r.xmax
      OBVIOUS
    <2>1. CASE x < u
      BY <1>1, <1>8, <2>1 DEF RowGood
    <2>2. CASE x >= u
      <3>1. x # v + 1
        OBVIOUS
      <3>2. x \in u .. v
        BY <2>2, <3>1
      <3> QED  BY <1>2, <1>8, <3>2
    <2>3. x \in Nat
      OBVIOUS
    <2> QED  BY <2>1, <2>2, <2>3
  <1>13. RowIs(Append(row, range), R \cup {range}, y)
    <2>1. row \in Seq(R) /\ ToSet(row) = {r \in R : r.y = y}
      BY <1>3 DEF RowIs
    <2>2. row \in Seq(R \cup {range})
      BY <2>1
    <2>9. PICK t : t = Append(row, range)
      OBVIOUS
    <2>3. PICK l \in Nat : l = Len(row) /\ t = Append(row, range)
      BY <2>1, <2>9
    <2>4. /\ t \in Seq(R \cup {range}) /\ Len(t) = l + 1 /\ DOMAIN t = 1 .. l + 1
          /\ \A i \in 1 .. l : t[i] = row[i]
          /\ t[l + 1] = range
      BY <2>2, <2>3
    <2>5. DOMAIN row = 1 .. l
      BY <2>1, <2>3
    <2>6. ToSet(t) = ToSet(row) \cup {range}
      <3>1. \A i \in 1 .. l + 1 : i \in 1 .. l \/ i = l + 1
        OBVIOUS
      <3>2. \A i \in 1 .. l : i \in 1 .. l + 1
        OBVIOUS
      <3>3. l + 1 \in 1 .. l + 1
        OBVIOUS
      <3> QED  BY <2>4, <2>5, <3>1, <3>2, <3>3 DEF ToSet
    <2>7. ToSet(t) = {r \in R \cup {range} : r.y = y}
      BY <1>2, <2>1, <2>6
    <2>8. \A i, j \in 1 .. l + 1 : i < j => Gap(t[i], t[j])
      <3> SUFFICES ASSUME NEW i \in 1 .. l + 1, NEW j \in 1 .. l + 1, i < j PROVE Gap(t[i], t[j])
        OBVIOUS
      <3>1. i \in 1 .. l
        OBVIOUS
      <3>2. CASE j \in 1 .. l
        BY <1>3, <2>3, <2>4, <3>1, <3>2 DEF RowIs
      <3>3. CASE j = l + 1
        <4>1. row[i] \in R /\ t[i] = row[i] /\ t[j] = range
          BY <2>1, <2>3, <2>4, <3>1, <3>3
        <4> QED  BY <1>2, <1>5, <4>1 DEF Gap
      <3> QED  BY <3>2, <3>3
    <2> QED  BY <2>3, <2>4, <2>7, <2>8 DEF RowIs
  <1>14. Lists(n.list, R \cup {range})
    <2>1. Lists(b.list, R)
      BY <1>1 DEF RowGood
    <2> QED  BY <1>4, <1>7, <2>1, ListsAppended
  <1>15. \A c \in R \cup {range} : n.cc[c] = cc_new(y, c.xmin, c.xmax)
    BY <1>1, <1>2, <1>9 DEF RowGood
  <1>16. \A r \in R \cup {range} : n.owner[r] = r
    BY <1>1, <1>8 DEF RowGood
  <1>17. \E t : n.rows = << t >> /\ RowIs(t, DOMAIN n.owner, y)
    BY <1>4, <1>8, <1>13
  <1> QED  BY <1>4, <1>8, <1>9, <1>10, <1>11, <1>12, <1>14, <1>15, <1>16, <1>17 DEF RowGood

(* After the values below n of the row. *)
ScanGood(s, n, y, X, img) ==
    /\ s.incomponent \in BOOLEAN
    /\ s.incomponent => /\ s.start \in Nat /\ s.start <= s.end /\ s.end = n - 1
                        /\ \A x \in s.start .. s.end : x \in X
    /\ RowGood(s.block, IF s.incomponent THEN s.start ELSE n, y, X, img)

(* A position that is not set needs no range. *)
LEMMA RowGoodLater ==
    ASSUME NEW img, NEW y, NEW X \in SUBSET Nat, NEW b, NEW n \in Nat, n \notin X, RowGood(b, n, y, X, img),
           img.width \in Nat
    PROVE  RowGood(b, n + 1, y, X, img)
  <1>1. \A r \in Ranges(img) : r.xmax \in Int
    BY DEF Ranges
  <1>2. DOMAIN b.owner \subseteq {r \in Ranges(img) : r.y = y /\ r.xmax + 1 < n + 1}
    BY <1>1 DEF RowGood
  <1>3. \A x \in X : x < n + 1 => x < n
    OBVIOUS
  <1>4. \A x \in X : x < n + 1 => \E r \in DOMAIN b.owner : x \in r.xmin .. r.xmax
    BY <1>3 DEF RowGood
  <1> QED  BY <1>2, <1>4 DEF RowGood

(* Each value of the row keeps that. *)
LEMMA ScanKeeps ==
    ASSUME NEW img, img.width \in Nat, img.height \in Nat, NEW y \in 0 .. img.height - 1,
           NEW X \in SUBSET (0 .. img.width - 1), NEW n \in 0 .. img.width, NEW s, ScanGood(s, n, y, X, img)
    PROVE  ScanGood(ScanStep(s, n, X, img.width), n + 1, y, X, img)
  <1>0. PICK w \in Nat : w = img.width
    OBVIOUS
  <1>1. PICK t : w = img.width /\ t = ScanStep(s, n, X, w)
    BY <1>0
  <1>2. X \in SUBSET Nat
    OBVIOUS
  <1>3. CASE n \in X
    <2>1. n < w
      BY <1>1, <1>3
    <2>2. t = Scan(TRUE, IF s.incomponent THEN s.start ELSE n, n, s.block)
      BY <1>1, <1>3, <2>1 DEF ScanStep
    <2>3. CASE s.incomponent
      <3>1. t.incomponent = TRUE /\ t.start = s.start /\ t.end = n /\ t.block = s.block
        BY <2>2, <2>3 DEF Scan
      <3>2. /\ s.start \in Nat /\ s.start <= n - 1
            /\ \A x \in s.start .. n - 1 : x \in X
            /\ RowGood(s.block, s.start, y, X, img)
        BY <2>3 DEF ScanGood
      <3>3. \A x \in s.start .. n : x \in X
        <4>1. \A x \in s.start .. n : x \in s.start .. n - 1 \/ x = n
          BY <3>2
        <4> QED  BY <1>3, <3>2, <4>1
      <3>4. s.start <= n /\ n = (n + 1) - 1
        BY <3>2
      <3> QED  BY <1>1, <3>1, <3>2, <3>3, <3>4 DEF ScanGood
    <2>4. CASE ~ s.incomponent
      <3>1. t.incomponent = TRUE /\ t.start = n /\ t.end = n /\ t.block = s.block
        BY <2>2, <2>4 DEF Scan
      <3>2. RowGood(s.block, n, y, X, img)
        BY <2>4 DEF ScanGood
      <3>3. (\A x \in n .. n : x \in X) /\ n = (n + 1) - 1 /\ n <= n /\ n \in Nat
        BY <1>3
      <3> QED  BY <1>1, <3>1, <3>2, <3>3 DEF ScanGood
    <2> QED  BY <2>3, <2>4
  <1>4. CASE n \notin X
    <2>1. CASE s.incomponent
      <3>1. PICK u \in Nat, v \in Nat : u = s.start /\ v = s.end /\ u <= v /\ v = n - 1
        BY <2>1 DEF ScanGood
      <3>2. t = Scan(FALSE, u, v, cc_extend_block(s.block, u, v))
        BY <1>1, <1>4, <2>1, <3>1 DEF ScanStep
      <3>3. PICK b, c : b = s.block /\ c = cc_extend_block(b, u, v)
        OBVIOUS
      <3>4. t.incomponent = FALSE /\ t.block = c
        BY <3>2, <3>3 DEF Scan
      <3>5. RowGood(b, u, y, X, img) /\ \A x \in u .. v : x \in X
        BY <2>1, <3>1, <3>3 DEF ScanGood
      <3>6. v < img.width /\ v + 1 \notin X /\ n + 1 = v + 2
        BY <1>4, <3>1
      <3>7. RowGood(c, v + 2, y, X, img)
        BY <1>2, <3>1, <3>3, <3>5, <3>6, ExtendGood
      <3> QED  BY <1>1, <3>4, <3>6, <3>7 DEF ScanGood
    <2>2. CASE ~ s.incomponent
      <3>1. t = s
        BY <1>1, <1>4, <2>2 DEF ScanStep
      <3>2. RowGood(s.block, n, y, X, img) /\ s.incomponent = FALSE
        BY <2>2 DEF ScanGood
      <3>3. RowGood(s.block, n + 1, y, X, img)
        BY <1>2, <1>4, <3>2, RowGoodLater
      <3> QED  BY <1>1, <3>1, <3>2, <3>3 DEF ScanGood
    <2>3. s.incomponent \in BOOLEAN
      BY DEF ScanGood
    <2> QED  BY <2>1, <2>2, <2>3
  <1> QED  BY <1>3, <1>4

(* At the end of the row all of it is scanned: the last range too. *)
LEMMA ScanRowGood ==
    ASSUME NEW img, img.width \in Nat, img.height \in Nat, NEW y \in 0 .. img.height - 1,
           NEW X \in SUBSET (0 .. img.width - 1), NEW n, n = cc_scan(X, img.width, cc_new_block(y))
    PROVE  \E m \in Nat : m >= img.width /\ RowGood(n, m, y, X, img)
  <1>0. PICK w \in Nat : w = img.width
    OBVIOUS
  <1>1. PICK b, N : w = img.width /\ b = cc_new_block(y) /\ N = w + 1
    BY <1>0
  <1>2. PICK d : d = (CHOOSE c : Scans(c, X, w, b, N)) /\ Scans(d, X, w, b, N)
    BY <1>1, ScanExists
  <1>3. n = d[N].block
    BY <1>1, <1>2 DEF cc_scan, Scans
  <1> DEFINE E == {k \in Nat : k <= N => ScanGood(d[k], k, y, X, img)}
  <1>4. 0 \in E
    <2>1. 0 \in 0 .. N
      BY <1>1
    <2>2. d[0] = Scan(FALSE, 0, 0, b)
      BY <1>2, <2>1 DEF Scans
    <2>3. PICK s : s = d[0] /\ s.incomponent = FALSE /\ s.block = b
      BY <2>2 DEF Scan
    <2>4. RowGood(b, 0, y, X, img)
      <3>1. y \in Nat /\ X \in SUBSET Nat
        OBVIOUS
      <3> QED  BY <1>1, <3>1, NewBlockGood
    <2>5. ScanGood(s, 0, y, X, img)
      BY <2>3, <2>4 DEF ScanGood
    <2> QED  BY <2>3, <2>5
  <1>5. ASSUME NEW k \in Nat, k \in E PROVE k + 1 \in E
    <2> SUFFICES ASSUME k + 1 <= N PROVE ScanGood(d[k + 1], k + 1, y, X, img)
      OBVIOUS
    <2>1. k + 1 \in 0 .. N /\ k + 1 # 0 /\ (k + 1) - 1 = k /\ k \in 0 .. img.width
      BY <1>1
    <2>2. d[k + 1] = ScanStep(d[k], k, X, w)
      BY <1>2, <2>1 DEF Scans
    <2>3. PICK s : s = d[k]
      OBVIOUS
    <2>4. ScanGood(s, k, y, X, img)
      BY <1>1, <1>5, <2>1, <2>3
    <2> QED  BY <1>1, <2>1, <2>2, <2>3, <2>4, ScanKeeps
  <1>6. \A k \in Nat : k \in E
    <2> HIDE DEF E
    <2> QED  BY <1>4, <1>5, SetInduction
  <1>7. PICK s : s = d[N] /\ ScanGood(s, N, y, X, img) /\ s.block = n
    BY <1>1, <1>3, <1>6
  <1>8. s.incomponent = FALSE
    <2> SUFFICES ASSUME s.incomponent PROVE FALSE
      BY <1>7 DEF ScanGood
    <2>1. s.end = w /\ s.start \in Nat /\ s.start <= s.end /\ \A x \in s.start .. s.end : x \in X
      BY <1>1, <1>7 DEF ScanGood
    <2>2. w \in X
      BY <2>1
    <2> QED  BY <1>1, <2>2
  <1>9. RowGood(n, N, y, X, img)
    BY <1>7, <1>8 DEF ScanGood
  <1> QED  BY <1>1, <1>9

(* A block of a row that was scanned is a good block. *)
LEMMA ScanBlockGood ==
    ASSUME NEW img, img.width \in Nat, img.height \in Nat, NEW e \in BOOLEAN, NEW y \in 0 .. img.height - 1,
           NEW X, X = {x \in 0 .. img.width - 1 : << x, y >> \in img.set},
           NEW n, n = cc_scan(X, img.width, cc_new_block(y))
    PROVE  Good(n, img, e)
  <1>1. X \in SUBSET (0 .. img.width - 1) /\ X \in SUBSET Nat
    OBVIOUS
  <1>2. PICK m \in Nat : m >= img.width /\ RowGood(n, m, y, X, img)
    BY <1>1, ScanRowGood
  <1>3. PICK R : R = DOMAIN n.owner
    OBVIOUS
  <1>4. /\ n.ymin = y /\ n.ymax = y
        /\ R \subseteq Ranges(img) /\ \A r \in R : r.y = y
        /\ \A r \in R, x \in Nat : x \in r.xmin .. r.xmax => x \in X
        /\ \A x \in X : \E r \in R : x \in r.xmin .. r.xmax
        /\ \A r \in R : n.owner[r] = r
        /\ DOMAIN n.cc = R
        /\ Lists(n.list, R)
        /\ \A c \in R : n.cc[c] = cc_new(y, c.xmin, c.xmax)
    <2>1. \A x \in X : x < m
      BY <1>1, <1>2
    <2> QED  BY <1>2, <1>3, <2>1 DEF RowGood
  <1>5. PICK row : n.rows = << row >> /\ RowIs(row, R, y)
    BY <1>2, <1>3 DEF RowGood
  <1>6. \A r \in R : /\ r.xmin \in Nat /\ r.xmax \in Nat /\ r.xmin <= r.xmax /\ r.xmax < img.width
                     /\ r = cc_new_range(y, r.xmin, r.xmax)
    BY <1>4 DEF Ranges, cc_new_range
  <1>7. AllApart(R)
    <2> SUFFICES ASSUME NEW r \in R, NEW s \in R, r # s PROVE Gap(r, s) \/ Gap(s, r)
      BY DEF AllApart
    <2>1. PICK l \in Nat : l = Len(row) /\ DOMAIN row = 1 .. l
      BY <1>5 DEF RowIs
    <2>2. ToSet(row) = R
      BY <1>4, <1>5 DEF RowIs
    <2>3. PICK i \in 1 .. l : row[i] = r
      BY <2>1, <2>2 DEF ToSet
    <2>4. PICK j \in 1 .. l : row[j] = s
      BY <2>1, <2>2 DEF ToSet
    <2>5. i < j \/ j < i
      BY <2>3, <2>4
    <2> QED  BY <1>5, <2>1, <2>3, <2>4, <2>5 DEF RowIs
  <1>8. Area(img, y, y) = X \X {y}
    BY DEF Area
  <1>9. Cover(R) = X \X {y}
    <2>1. ASSUME NEW r \in R PROVE Positions(r) \subseteq X \X {y}
      BY <1>4, <1>6 DEF Positions
    <2>2. ASSUME NEW x \in X PROVE << x, y >> \in Cover(R)
      <3>1. PICK r \in R : x \in r.xmin .. r.xmax
        BY <1>4
      <3>2. << x, y >> \in Positions(r)
        BY <1>4, <3>1 DEF Positions
      <3> QED  BY <3>2 DEF Cover
    <2> QED  BY <2>1, <2>2 DEF Cover
  <1>10. Framed(n, img)
    <2>1. n.rows \in Seq(Seq(Ranges(img))) /\ n.rows # << >> /\ Head(n.rows) = row /\ Last(n.rows) = row
      <3>1. row \in Seq(Ranges(img))
        BY <1>4, <1>5 DEF RowIs
      <3>2. PICK S, q : S = Seq(Ranges(img)) /\ q = << row >>
        OBVIOUS
      <3>3. q \in Seq(S) /\ Len(q) = 1 /\ q[1] = row
        BY <3>1, <3>2
      <3>4. q # << >>
        BY <3>2
      <3>5. Head(q) = row
        BY <3>2
      <3>6. Last(q) = row
        BY <3>3 DEF Last
      <3> QED  BY <1>5, <3>2, <3>3, <3>4, <3>5, <3>6
    <2>2. y \in Nat /\ y <= y /\ y < img.height /\ R \subseteq {r \in Ranges(img) : r.y \in y .. y}
      BY <1>4
    <2> QED  BY <1>3, <1>4, <1>5, <1>7, <1>8, <1>9, <2>1, <2>2 DEF Framed
  <1>11. PICK set : set = Area(img, n.ymin, n.ymax) /\ set = X \X {y}
    BY <1>4, <1>8
  <1>12. ASSUME NEW c \in R PROVE Component(n.cc[c], Of(n.owner, c), set, img, e)
    <2>1. Of(n.owner, c) = {c}
      BY <1>3, <1>4 DEF Of
    <2>2. Cover({c}) = Positions(c)
      BY DEF Cover
    <2>3. PICK a \in Nat, b \in Nat : a = c.xmin /\ b = c.xmax /\ a <= b /\ b < img.width
      BY <1>6
    <2>4. c.y = y /\ c = cc_new_range(y, a, b)
      BY <1>4, <1>6, <2>3
    <2>5. Positions(c) = Strip(a, b, y)
      BY <2>3, <2>4 DEF Positions, Strip
    <2>6. PICK C : C = n.cc[c] /\ C = cc_new(y, a, b)
      BY <1>4, <2>3
    <2>7. C.parts = << c >>
      <3>1. cc_new(y, a, b).parts = << cc_new_range(y, a, b) >>
        BY DEF cc_new
      <3> QED  BY <2>4, <2>6, <3>1
    <2>8. C.parts \in Seq(Ranges(img)) /\ ToSet(C.parts) = {c}
      <3>1. << c >> \in Seq(Ranges(img)) /\ DOMAIN << c >> = {1} /\ << c >>[1] = c
        BY <1>4
      <3>2. ToSet(<< c >>) = {c}
        BY <3>1 DEF ToSet
      <3> QED  BY <2>7, <3>1, <3>2
    <2>9. DataOf(C, Positions(c), img.width, img.height)
      <3>1. a \in 0 .. img.width - 1 /\ b \in a .. img.width - 1
        BY <2>3
      <3> QED  BY <2>5, <2>6, <3>1, NewData
    <2>10. Conn(Positions(c), set, e)
      <3>1. \A x \in a .. b : << x, y >> \in set
        BY <1>4, <1>11, <2>3
      <3>2. y \in Nat
        OBVIOUS
      <3>3. Conn(Strip(a, b, y), set, e)
        BY <3>1, <3>2, ConnStrip
      <3> QED  BY <2>5, <3>3
    <2> QED  BY <2>1, <2>2, <2>6, <2>8, <2>9, <2>10 DEF Component
  <1>13. Grouped(n, set, img, e)
    BY <1>3, <1>4, <1>12 DEF Grouped
  <1>14. Separate(n.owner, e)
    <2> SUFFICES ASSUME NEW r \in R, NEW s \in R, Touch(r, s, e) PROVE r = s
      BY <1>3 DEF Separate
    <2>1. r.y = s.y => ~ Gap(r, s) /\ ~ Gap(s, r)
      BY <1>4, TouchRows
    <2> QED  BY <1>4, <1>7, <2>1 DEF AllApart
  <1> QED  BY <1>10, <1>11, <1>13, <1>14 DEF Sound, Good

(* The recursive function of Reached. *)
Spread(set, S) == UNION {{q \in set : Near(o, q)} : o \in S}

Grows(g, set, p, N) == g = [n \in 0 .. N |-> IF n = 0 THEN {p} ELSE Spread(set, g[n - 1])]

(* There is such a function. *)
LEMMA GrowExists ==
    ASSUME NEW set, NEW p, NEW N \in Nat
    PROVE  \E g : Grows(g, set, p, N)
  <1> DEFINE E == {n \in Nat : \E g : Grows(g, set, p, n)}
  <1>1. 0 \in E
    <2>1. PICK g : g = [n \in 0 .. 0 |-> {p}]
      OBVIOUS
    <2>2. \A n \in 0 .. 0 : n = 0
      OBVIOUS
    <2>3. Grows(g, set, p, 0)
      BY <2>1, <2>2 DEF Grows
    <2> QED  BY <2>3
  <1>2. ASSUME NEW k \in Nat, k \in E PROVE k + 1 \in E
    <2>1. PICK g : Grows(g, set, p, k)
      BY <1>2
    <2>2. PICK h : h = [n \in 0 .. k + 1 |-> IF n <= k THEN g[n] ELSE Spread(set, g[k])]
      OBVIOUS
    <2>3. \A n \in 0 .. k : h[n] = g[n] /\ g[n] = IF n = 0 THEN {p} ELSE Spread(set, g[n - 1])
      <3>1. \A n \in 0 .. k : h[n] = g[n]
        BY <2>2
      <3>2. \A n \in 0 .. k : g[n] = IF n = 0 THEN {p} ELSE Spread(set, g[n - 1])
        BY <2>1 DEF Grows
      <3> QED  BY <3>1, <3>2
    <2>4. ASSUME NEW n \in 0 .. k + 1
          PROVE  h[n] = IF n = 0 THEN {p} ELSE Spread(set, h[n - 1])
      <3>1. CASE n = 0
        <4>1. 0 \in 0 .. k
          OBVIOUS
        <4> QED  BY <2>3, <3>1, <4>1
      <3>2. CASE n \in 1 .. k
        <4>1. n \in 0 .. k /\ n - 1 \in 0 .. k /\ n # 0
          BY <3>2
        <4>2. h[n] = Spread(set, g[n - 1]) /\ h[n - 1] = g[n - 1]
          BY <2>3, <4>1
        <4> QED  BY <4>1, <4>2
      <3>3. CASE n = k + 1
        <4>1. ~ (n <= k) /\ n - 1 = k /\ n # 0 /\ k \in 0 .. k
          BY <3>3
        <4>2. h[n] = Spread(set, g[k]) /\ h[k] = g[k]
          BY <2>2, <2>3, <4>1
        <4> QED  BY <4>1, <4>2
      <3>4. n = 0 \/ n \in 1 .. k \/ n = k + 1
        OBVIOUS
      <3> QED  BY <3>1, <3>2, <3>3, <3>4
    <2>5. h = [n \in 0 .. k + 1 |-> h[n]]
      BY <2>2
    <2>6. Grows(h, set, p, k + 1)
      BY <2>4, <2>5 DEF Grows
    <2> QED  BY <2>6
  <1>3. \A n \in Nat : n \in E
    <2> HIDE DEF E
    <2> QED  BY <1>1, <1>2, SetInduction
  <1> QED  BY <1>3

(* One step of growth. *)
LEMMA SpreadIs ==
    ASSUME NEW set \in SUBSET (Int \X Int), NEW S \in SUBSET set, eight \in BOOLEAN
    PROVE  /\ Spread(set, S) \in SUBSET set /\ S \subseteq Spread(set, S)
           /\ ClosedIn(S, set, eight) <=> Spread(set, S) = S
           /\ \A T \in SUBSET set : S \subseteq T /\ ClosedIn(T, set, eight) => Spread(set, S) \subseteq T
  <1>1. \A q : q \in Spread(set, S) <=> q \in set /\ \E o \in S : NearBy(eight, o, q)
    BY NearIs DEF Spread
  <1>2. ASSUME NEW o \in set PROVE NearBy(eight, o, o)
    <2>1. o \in Int \X Int /\ o[1] - o[1] \in -1 .. 1 /\ o[2] - o[2] \in -1 .. 1
      OBVIOUS
    <2> QED  BY <2>1, NearMeans
  <1>3. S \subseteq Spread(set, S)
    BY <1>1, <1>2
  <1>4. ClosedIn(S, set, eight) <=> Spread(set, S) \subseteq S
    BY <1>1 DEF ClosedIn
  <1> QED  BY <1>1, <1>3, <1>4 DEF ClosedIn

(* What is reached is the least closed part with the position: it is closed,
   since every step before adds a position, and there are no more than N. *)
LEMMA ReachedIs ==
    ASSUME NEW set \in SUBSET (Int \X Int), IsFiniteSet(set), NEW p \in set, eight \in BOOLEAN
    PROVE  /\ p \in Reached(set, p) /\ Reached(set, p) \subseteq set
           /\ ClosedIn(Reached(set, p), set, eight)
           /\ \A T \in SUBSET set : p \in T /\ ClosedIn(T, set, eight) => Reached(set, p) \subseteq T
  <1>1. PICK N \in Nat : N = Cardinality(set)
    BY FS_CardinalityType
  <1>2. PICK g : g = (CHOOSE h : Grows(h, set, p, N)) /\ Grows(g, set, p, N)
    BY GrowExists
  <1>3. Reached(set, p) = g[N]
    BY <1>1, <1>2 DEF Reached, Grows, Spread
  <1>4. g[0] = {p}
    <2>1. 0 \in 0 .. N
      OBVIOUS
    <2> QED  BY <1>2, <2>1 DEF Grows
  <1>5. \A k \in Nat : k + 1 <= N => g[k + 1] = Spread(set, g[k])
    <2> SUFFICES ASSUME NEW k \in Nat, k + 1 <= N PROVE g[k + 1] = Spread(set, g[k])
      OBVIOUS
    <2>1. k + 1 \in 0 .. N /\ k + 1 # 0 /\ (k + 1) - 1 = k
      OBVIOUS
    <2> QED  BY <1>2, <2>1 DEF Grows
  <1> DEFINE Ok(k) == /\ g[k] \in SUBSET set /\ p \in g[k]
                      /\ \A T \in SUBSET set : p \in T /\ ClosedIn(T, set, eight) => g[k] \subseteq T
                      /\ ClosedIn(g[k], set, eight) \/ Cardinality(g[k]) >= k + 1
             E == {k \in Nat : k <= N => Ok(k)}
  <1>6. 0 \in E
    <2>1. Cardinality({p}) = 1
      BY FS_Singleton
    <2> QED  BY <1>4, <2>1
  <1>7. ASSUME NEW k \in Nat, k \in E PROVE k + 1 \in E
    <2> SUFFICES ASSUME k + 1 <= N PROVE Ok(k + 1)
      OBVIOUS
    <2>1. Ok(k)
      BY <1>7
    <2>2. PICK S, U : S = g[k] /\ U = g[k + 1] /\ U = Spread(set, S)
      BY <1>5
    <2>3. S \in SUBSET set
      BY <2>1, <2>2
    <2>4. /\ U \in SUBSET set /\ S \subseteq U
          /\ ClosedIn(S, set, eight) <=> U = S
          /\ \A T \in SUBSET set : S \subseteq T /\ ClosedIn(T, set, eight) => U \subseteq T
      <3>1. /\ Spread(set, S) \in SUBSET set /\ S \subseteq Spread(set, S)
            /\ ClosedIn(S, set, eight) <=> Spread(set, S) = S
            /\ \A T \in SUBSET set : S \subseteq T /\ ClosedIn(T, set, eight) => Spread(set, S) \subseteq T
        BY <2>3, SpreadIs
      <3> QED  BY <2>2, <3>1
    <2>5. ClosedIn(U, set, eight) \/ Cardinality(U) >= (k + 1) + 1
      <3>1. CASE ClosedIn(S, set, eight)
        BY <2>4, <3>1
      <3>2. CASE ~ ClosedIn(S, set, eight)
        <4>1. S # U /\ IsFiniteSet(U)
          BY <2>4, <3>2, FS_Subset
        <4>2. IsFiniteSet(S) /\ Cardinality(S) \in Nat /\ Cardinality(U) \in Nat
          BY <2>3, <4>1, FS_Subset, FS_CardinalityType
        <4>3. Cardinality(S) < Cardinality(U)
          BY <2>4, <4>1, <4>2, FS_Subset
        <4>4. Cardinality(S) >= k + 1
          BY <2>1, <2>2, <3>2
        <4> QED  BY <4>2, <4>3, <4>4
      <3> QED  BY <3>1, <3>2
    <2> QED  BY <2>1, <2>2, <2>4, <2>5
  <1>8. Ok(N)
    <2>1. N \in E
      <3> HIDE DEF E
      <3> QED  BY <1>6, <1>7, SetInduction
    <2> HIDE DEF Ok
    <2> QED  BY <2>1
  <1>9. ClosedIn(g[N], set, eight)
    <2> SUFFICES ASSUME ~ ClosedIn(g[N], set, eight) PROVE FALSE
      OBVIOUS
    <2>1. PICK S : S = g[N] /\ S \in SUBSET set
      BY <1>8
    <2>2. Cardinality(S) <= N /\ Cardinality(S) \in Nat
      BY <1>1, <2>1, FS_Subset, FS_CardinalityType
    <2> QED  BY <1>8, <2>1, <2>2
  <1> QED  BY <1>3, <1>8, <1>9

(* A connected part that has all its neighbours is a class. *)
LEMMA ReachedClass ==
    ASSUME NEW set \in SUBSET (Int \X Int), IsFiniteSet(set), NEW S \in SUBSET set, NEW p \in S, eight \in BOOLEAN,
           Conn(S, set, eight), ClosedIn(S, set, eight)
    PROVE  Reached(set, p) = S
  <1>1. PICK T : T = Reached(set, p)
    OBVIOUS
  <1>2. p \in T /\ T \in SUBSET set /\ ClosedIn(T, set, eight) /\ T \subseteq S
    BY <1>1, ReachedIs
  <1>3. S \subseteq T
    BY <1>2 DEF Conn
  <1> QED  BY <1>1, <1>2, <1>3

(* The positions of an image are finitely many. *)
LEMMA AreaFinite ==
    ASSUME NEW img, img.width \in Nat, NEW lo \in Nat, NEW hi \in Nat
    PROVE  IsFiniteSet(Area(img, lo, hi)) /\ Area(img, lo, hi) \in SUBSET (Int \X Int)
  <1>1. PICK I, J : I = 0 .. img.width - 1 /\ J = lo .. hi
    OBVIOUS
  <1>2. IsFiniteSet(I) /\ IsFiniteSet(J)
    <2>1. 0 \in Int /\ img.width - 1 \in Int /\ lo \in Int /\ hi \in Int
      OBVIOUS
    <2> QED  BY <1>1, <2>1, FS_Interval
  <1>3. IsFiniteSet(I \X J)
    BY <1>2, FS_Product
  <1>4. Area(img, lo, hi) \in SUBSET (I \X J)
    BY <1>1 DEF Area
  <1>5. IsFiniteSet(Area(img, lo, hi))
    BY <1>3, <1>4, FS_Subset
  <1> QED  BY <1>1, <1>4, <1>5

(* What ComponentsExact says of a block. *)
BlockExact(b, set) ==
    /\ {Covered(b.cc[c]) : c \in ToSet(b.list)} = Classes(set)
    /\ Len(b.list) = Cardinality(Classes(set))
    /\ ToSet(b.list) = DOMAIN b.cc
    /\ \A c \in ToSet(b.list) : DataExact(b.cc[c])
    /\ \A r \in DOMAIN b.owner :
           b.owner[r] \in DOMAIN b.cc /\ r \in ToSet(b.cc[b.owner[r]].parts)

(* The components of a good block are the classes of its positions. *)
LEMMA GoodExact ==
    ASSUME bitmap.width \in Nat, bitmap.height \in Nat, eight \in BOOLEAN, NEW b, Good(b, bitmap, eight)
    PROVE  BlockExact(b, Area(bitmap, b.ymin, b.ymax))
  <1>1. PICK set, R, D : set = Area(bitmap, b.ymin, b.ymax) /\ R = DOMAIN b.owner /\ D = DOMAIN b.cc
    OBVIOUS
  <1>2. Framed(b, bitmap) /\ Grouped(b, set, bitmap, eight) /\ Separate(b.owner, eight)
    BY <1>1 DEF Good, Sound
  <1>3. IsFiniteSet(set) /\ set \in SUBSET (Int \X Int)
    BY <1>1, <1>2, AreaFinite DEF Framed
  <1>4. R \subseteq Ranges(bitmap) /\ AllApart(R) /\ Cover(R) = set
    BY <1>1, <1>2 DEF Framed
  <1>5. /\ \A r \in R : b.owner[r] \in D
        /\ Lists(b.list, D)
        /\ \A c \in D : Component(b.cc[c], Of(b.owner, c), set, bitmap, eight)
    BY <1>1, <1>2 DEF Grouped
  <1>6. PICK K : K = [c \in D |-> Cover(Of(b.owner, c))]
    OBVIOUS
  <1>7. ASSUME NEW c \in D
        PROVE  /\ Covered(b.cc[c]) = K[c] /\ DataExact(b.cc[c])
               /\ \A p \in K[c] : Reached(set, p) = K[c]
               /\ \E p \in set : p \in K[c]
    <2>1. PICK C, S : C = b.cc[c] /\ S = K[c] /\ S = Cover(Of(b.owner, c))
      BY <1>6
    <2>2. /\ ToSet(C.parts) = Of(b.owner, c)
          /\ DataOf(C, S, bitmap.width, bitmap.height) /\ Conn(S, set, eight)
      BY <1>5, <2>1 DEF Component
    <2>3. Covered(C) = S
      BY <2>1, <2>2 DEF Covered, Cover
    <2>4. DataExact(C)
      BY <2>2, <2>3 DEF DataExact, DataOf
    <2>5. S \in SUBSET set
      BY <1>1, <1>4, <2>1 DEF Cover, Of
    <2>6. ASSUME NEW p \in S, NEW q \in set, NearBy(eight, p, q) PROVE q \in S
      <3>1. PICK r \in R : b.owner[r] = c /\ p \in Positions(r)
        BY <1>1, <2>1 DEF Cover, Of
      <3>2. PICK s \in R : q \in Positions(s)
        BY <1>4 DEF Cover
      <3>3. Touch(r, s, eight)
        BY <2>6, <3>1, <3>2 DEF Touch
      <3>4. b.owner[s] = c
        BY <1>1, <1>2, <3>1, <3>3 DEF Separate
      <3> QED  BY <1>1, <2>1, <3>2, <3>4 DEF Cover, Of
    <2>7. ClosedIn(S, set, eight)
      BY <2>6 DEF ClosedIn
    <2>8. \A p \in S : Reached(set, p) = S
      BY <1>3, <2>2, <2>5, <2>7, ReachedClass
    <2>9. \E p \in S : TRUE
      BY <2>2 DEF DataOf
    <2> QED  BY <2>1, <2>3, <2>4, <2>5, <2>8, <2>9
  <1>8. \A p \in set : \E c \in D : p \in K[c]
    <2> SUFFICES ASSUME NEW p \in set PROVE \E c \in D : p \in K[c]
      OBVIOUS
    <2>1. PICK r \in R : p \in Positions(r)
      BY <1>4 DEF Cover
    <2>2. b.owner[r] \in D /\ p \in Cover(Of(b.owner, b.owner[r]))
      BY <1>1, <1>5, <2>1 DEF Cover, Of
    <2> QED  BY <1>6, <2>2
  <1>9. \A p \in set, c \in D : p \in K[c] => Reached(set, p) = K[c]
    BY <1>7
  <1>10. Classes(set) = {K[c] : c \in D}
    <2>1. ASSUME NEW c \in D PROVE K[c] \in Classes(set)
      <3>1. PICK p \in set : p \in K[c]
        BY <1>7
      <3> QED  BY <1>9, <3>1 DEF Classes
    <2>2. ASSUME NEW p \in set PROVE Reached(set, p) \in {K[c] : c \in D}
      BY <1>8, <1>9
    <2> QED  BY <2>1, <2>2 DEF Classes
  <1>11. \A c, d \in D : K[c] = K[d] => c = d
    <2> SUFFICES ASSUME NEW c \in D, NEW d \in D, K[c] = K[d], c # d PROVE FALSE
      OBVIOUS
    <2>1. PICK S, T : S = Of(b.owner, c) /\ T = Of(b.owner, d)
      OBVIOUS
    <2>2. S \in SUBSET R /\ T \in SUBSET R /\ S \cap T = {}
      BY <1>1, <2>1 DEF Of
    <2>3. AllApart(S \cup T)
      BY <1>4, <2>2 DEF AllApart
    <2>4. Cover(S) \cap Cover(T) = {}
      BY <1>4, <2>2, <2>3, CoversDisjoint
    <2>5. \E p \in set : p \in K[c]
      BY <1>7
    <2> QED  BY <1>6, <2>1, <2>4, <2>5
  <1>12. Len(b.list) = Cardinality(Classes(set))
    <2>1. PICK M : M = Classes(set)
      OBVIOUS
    <2>2. K \in [D -> M] /\ \A m \in M : \E c \in D : K[c] = m
      BY <1>6, <1>10, <2>1
    <2>3. PICK l : l = b.list
      OBVIOUS
    <2>4. Lists(l, D)
      BY <1>5, <2>3
    <2>5. Len(l) = Cardinality(M)
      BY <1>11, <2>2, <2>4, ListsLength
    <2> QED  BY <2>1, <2>3, <2>5
  <1>13. ToSet(b.list) = D
    BY <1>5 DEF Lists
  <1>14. {Covered(b.cc[c]) : c \in D} = Classes(set)
    BY <1>7, <1>10
  <1>15. \A r \in R : r \in ToSet(b.cc[b.owner[r]].parts)
    <2> SUFFICES ASSUME NEW r \in R PROVE r \in ToSet(b.cc[b.owner[r]].parts)
      OBVIOUS
    <2>1. PICK c \in D : c = b.owner[r]
      BY <1>5
    <2>2. ToSet(b.cc[c].parts) = Of(b.owner, c)
      BY <1>5 DEF Component
    <2> QED  BY <1>1, <2>1, <2>2 DEF Of
  <1> QED  BY <1>1, <1>5, <1>7, <1>12, <1>13, <1>14, <1>15 DEF BlockExact

-----------------------------------------------------------------------------
(* Every block there is is a good one; what was not scanned yet are rows. *)
ComponentsInvariant ==
    /\ bitmap \in Bitmaps /\ eight \in BOOLEAN
    /\ unscanned \subseteq 0 .. bitmap.height - 1
    /\ \A b \in blocks : Good(b, bitmap, eight)

(* Whatever the image and the neighbourhood, and in whatever order rows are
   scanned and blocks fused: the components of each block are the classes of
   the positions fetched for its rows, once each, with their data. *)
THEOREM ComponentsAreExact == ComponentsSpec => []ComponentsExact
  <1>1. InitComponents => ComponentsInvariant
    BY DEF InitComponents, ComponentsInvariant
  <1>2. ComponentsInvariant /\ [ComponentStep]_ccVars => ComponentsInvariant'
    <2> SUFFICES ASSUME ComponentsInvariant, [ComponentStep]_ccVars PROVE ComponentsInvariant'
      OBVIOUS
    <2>1. bitmap.width \in Nat /\ bitmap.height \in Nat /\ eight \in BOOLEAN
      BY BitmapsAssumption DEF ComponentsInvariant
    <2>2. CASE ScanRow
      <3>1. PICK y \in unscanned :
                /\ blocks' = blocks \cup {cc_scan(FetchedRow(y), bitmap.width, cc_new_block(y))}
                /\ unscanned' = unscanned \ {y}
        BY <2>2 DEF ScanRow
      <3>2. y \in 0 .. bitmap.height - 1
        BY DEF ComponentsInvariant
      <3>3. PICK X, n : X = FetchedRow(y) /\ n = cc_scan(X, bitmap.width, cc_new_block(y))
        OBVIOUS
      <3>4. X = {x \in 0 .. bitmap.width - 1 : << x, y >> \in bitmap.set}
        BY <3>3 DEF FetchedRow
      <3>5. Good(n, bitmap, eight)
        BY <2>1, <3>2, <3>3, <3>4, ScanBlockGood
      <3>6. bitmap' = bitmap /\ eight' = eight
        BY <2>2 DEF ScanRow
      <3> QED  BY <3>1, <3>3, <3>5, <3>6 DEF ComponentsInvariant
    <2>3. CASE FuseBlocks
      <3>1. PICK a \in blocks, b \in blocks : /\ a.ymax + 1 = b.ymin
                                              /\ blocks' = (blocks \ {a, b}) \cup {cc_fuse_blocks(a, b)}
        BY <2>3 DEF FuseBlocks
      <3>2. PICK n : n = cc_fuse_blocks(a, b)
        OBVIOUS
      <3>3. Good(a, bitmap, eight) /\ Good(b, bitmap, eight)
        BY DEF ComponentsInvariant
      <3>4. Good(n, bitmap, eight)
        BY <2>1, <3>1, <3>2, <3>3, FuseGood
      <3>5. bitmap' = bitmap /\ eight' = eight /\ unscanned' = unscanned
        BY <2>3 DEF FuseBlocks
      <3> QED  BY <3>1, <3>2, <3>4, <3>5 DEF ComponentsInvariant
    <2>4. CASE Convert
      BY <2>4 DEF Convert, ComponentsInvariant
    <2>5. CASE UNCHANGED ccVars
      BY <2>5 DEF ccVars, ComponentsInvariant
    <2> QED  BY <2>2, <2>3, <2>4, <2>5 DEF ComponentStep
  <1>3. ComponentsInvariant => ComponentsExact
    <2> SUFFICES ASSUME ComponentsInvariant,
                        NEW b \in blocks, NEW set, set = UNION {FetchedRow(y) \X {y} : y \in b.ymin .. b.ymax}
                 PROVE  BlockExact(b, set)
      BY DEF ComponentsExact, BlockExact
    <2>1. bitmap.width \in Nat /\ bitmap.height \in Nat /\ eight \in BOOLEAN
      BY BitmapsAssumption DEF ComponentsInvariant
    <2>2. set = Area(bitmap, b.ymin, b.ymax)
      <3>1. ASSUME NEW p \in set PROVE p \in Area(bitmap, b.ymin, b.ymax)
        <4>1. PICK y \in b.ymin .. b.ymax : p \in FetchedRow(y) \X {y}
          OBVIOUS
        <4>2. PICK x \in FetchedRow(y) : p = << x, y >>
          BY <4>1
        <4> QED  BY <4>2 DEF FetchedRow, Area
      <3>2. ASSUME NEW p \in Area(bitmap, b.ymin, b.ymax) PROVE p \in set
        <4>1. PICK x \in 0 .. bitmap.width - 1, y \in b.ymin .. b.ymax : p = << x, y >>
          BY DEF Area
        <4>2. x \in FetchedRow(y)
          BY <4>1 DEF FetchedRow, Area
        <4>3. p \in FetchedRow(y) \X {y}
          BY <4>1, <4>2
        <4> QED  BY <4>3
      <3> QED  BY <3>1, <3>2
    <2>3. Good(b, bitmap, eight)
      BY DEF ComponentsInvariant
    <2> QED  BY <2>1, <2>2, <2>3, GoodExact
  <1> QED  BY <1>1, <1>2, <1>3, PTL DEF ComponentsSpec

-----------------------------------------------------------------------------
(* Pixels.  A block has its cells by rows, columns and bands, as numbers below
   its size (Pos); a loop nest is a run of steps, which sets no cell twice.  So
   what a run leaves in a cell is the value of the one step that goes there
   (RunIs, AreaIs), and what an operator makes of a block is known when the
   values of its loop are (MeansServed).  From this each operator serves the
   part of a request inside of its image (Unary0Is to PointsIs), each with the
   condition on its place that Misplaced denies, the others without one.

   Runs are recursive functions of numbers: each exists by SetInduction, and
   what it does is shown by it. *)

(* Quotient and remainder. *)
Divided(i, k, m, b) == m \in Nat /\ k \in Nat /\ b \in Nat /\ b < m /\ i = k * m + b

LEMMA Remainder ==
    ASSUME NEW i, NEW k, NEW m, NEW b, Divided(i, k, m, b)
    PROVE  i % m = b /\ i \div m = k /\ i \div 1 = i
  <1>1. PICK q \in Nat, n \in Nat, c \in Nat : q = k /\ n = m /\ c = b
    BY DEF Divided
  <1>2. PICK j \in Nat : j = q * n + c
    OBVIOUS
  <1>3. j = i /\ c < n
    BY <1>1, <1>2 DEF Divided
  <1>4. j % n = c /\ j \div n = q
    BY <1>2, <1>3
  <1>5. j \div 1 = j
    OBVIOUS
  <1> QED  BY <1>1, <1>3, <1>4, <1>5

(* The number of a cell of a block, w cells wide and d deep. *)
Pos(w, d, x, y, z) == y * (w * d) + x * d + z

(* The number of cells of a block of w times h positions. *)
Size(w, h, d) == h * w * d

(* From its number each of its coordinates can be told. *)
LEMMA PosTells ==
    ASSUME NEW w \in Nat, NEW d \in Nat, NEW x \in 0 .. w - 1, NEW y \in Nat, NEW z \in 0 .. d - 1
    PROVE  /\ Pos(w, d, x, y, z) \in Nat
           /\ Pos(w, d, x, y, z) \div (w * d) = y
           /\ (Pos(w, d, x, y, z) \div d) % w = x
           /\ Pos(w, d, x, y, z) % d = z
  <1>1. w \in Nat \ {0} /\ d \in Nat \ {0}
    OBVIOUS
  <1>2. PICK p \in Nat, a \in Nat, b \in Nat : p = Pos(w, d, x, y, z) /\ a = y * w + x /\ b = x * d + z
    <2>1. x * d \in Nat /\ y * w \in Nat /\ y * (w * d) \in Nat
      OBVIOUS
    <2> QED  BY <2>1 DEF Pos
  <1>3. p = a * d + z
    BY <1>2 DEF Pos
  <1>4. p \div d = a /\ p % d = z
    BY <1>1, <1>3
  <1>5. a % w = x
    BY <1>1, <1>2
  <1>6. PICK m \in Nat : m = w * d /\ m # 0
    BY <1>1
  <1>7. b < m
    <2>1. x * d + d <= w * d
      <3>1. x + 1 <= w
        OBVIOUS
      <3>2. (x + 1) * d <= w * d
        BY <3>1
      <3> QED  BY <3>2
    <2> QED  BY <1>2, <1>6, <2>1
  <1>8. p = y * m + b
    BY <1>2, <1>6 DEF Pos
  <1>9. p \div m = y
    BY <1>6, <1>7, <1>8
  <1> QED  BY <1>2, <1>4, <1>5, <1>6, <1>9

(* Every cell of a position lies in the block. *)
LEMMA PosInside ==
    ASSUME NEW w \in Nat, NEW d \in Nat, NEW h \in Nat,
           NEW x \in 0 .. w - 1, NEW y \in 0 .. h - 1, NEW z \in 0 .. d - 1
    PROVE  Pos(w, d, x, y, z) \in 0 .. Size(w, h, d) - 1
  <1>1. PICK m \in Nat : m = w * d
    OBVIOUS
  <1>2. x * d + z < m
    <2>1. (x + 1) * d <= w * d
      <3>1. x + 1 <= w
        OBVIOUS
      <3> QED  BY <3>1
    <2> QED  BY <1>1, <2>1
  <1>3. (y + 1) * m <= h * m
    <2>1. y + 1 <= h
      OBVIOUS
    <2> QED  BY <2>1
  <1>4. h * w * d = h * m
    BY <1>1
  <1>5. x * d \in Nat /\ y * m \in Nat
    OBVIOUS
  <1> QED  BY <1>1, <1>2, <1>3, <1>4, <1>5 DEF Pos, Size

(* And every number below its size is that of one. *)
LEMMA PosOnto ==
    ASSUME NEW w \in Nat, NEW d \in Nat, NEW h \in Nat, NEW i \in 0 .. Size(w, h, d) - 1
    PROVE  /\ (i \div d) % w \in 0 .. w - 1
           /\ i \div (w * d) \in 0 .. h - 1
           /\ i % d \in 0 .. d - 1
           /\ i = Pos(w, d, (i \div d) % w, i \div (w * d), i % d)
  <1>1. w # 0 /\ d # 0 /\ i \in Nat /\ i < h * w * d
    BY DEF Size
  <1>2. PICK a \in Nat, z \in 0 .. d - 1 : a = i \div d /\ z = i % d /\ i = a * d + z
    BY <1>1
  <1>3. PICK y \in Nat, x \in 0 .. w - 1 : y = a \div w /\ x = a % w /\ a = y * w + x
    BY <1>1
  <1>4. i = Pos(w, d, x, y, z)
    <2>1. (y * w + x) * d = y * (w * d) + x * d
      OBVIOUS
    <2>2. a * d = (y * w + x) * d
      BY <1>3
    <2> QED  BY <1>2, <2>1, <2>2 DEF Pos
  <1>5. i \div (w * d) = y
    BY <1>4, PosTells
  <1>6. y < h
    <2> SUFFICES ASSUME y >= h PROVE FALSE
      OBVIOUS
    <2>1. y * (w * d) >= h * (w * d) /\ h * (w * d) = h * w * d
      OBVIOUS
    <2>2. x * d \in Nat
      OBVIOUS
    <2> QED  BY <1>1, <1>4, <2>1, <2>2 DEF Pos
  <1> QED  BY <1>2, <1>3, <1>4, <1>5, <1>6

(* No two of them are the same. *)
SameCell(w, d, x, y, z, u, v, t) ==
    /\ w \in Nat /\ d \in Nat /\ x \in 0 .. w - 1 /\ y \in Nat /\ z \in 0 .. d - 1
    /\ u \in 0 .. w - 1 /\ v \in Nat /\ t \in 0 .. d - 1
    /\ Pos(w, d, x, y, z) = Pos(w, d, u, v, t)

LEMMA PosDiffer ==
    ASSUME NEW w, NEW d, NEW x, NEW y, NEW z, NEW u, NEW v, NEW t, SameCell(w, d, x, y, z, u, v, t)
    PROVE  x = u /\ y = v /\ z = t
  <1>0. /\ w \in Nat /\ d \in Nat /\ x \in 0 .. w - 1 /\ y \in Nat /\ z \in 0 .. d - 1
        /\ u \in 0 .. w - 1 /\ v \in Nat /\ t \in 0 .. d - 1
        /\ Pos(w, d, x, y, z) = Pos(w, d, u, v, t)
    BY DEF SameCell
  <1>1. PICK p : p = Pos(w, d, x, y, z) /\ p = Pos(w, d, u, v, t)
    BY <1>0
  <1>2. p \div (w * d) = y /\ (p \div d) % w = x /\ p % d = z
    BY <1>0, <1>1, PosTells
  <1>3. p \div (w * d) = v /\ (p \div d) % w = u /\ p % d = t
    BY <1>0, <1>1, PosTells
  <1> QED  BY <1>2, <1>3

(* A block of n cells in use, of which none was missed. *)
Frame(b, loc, dom, n) ==
    /\ b.location = loc /\ b.domain = dom /\ b.used = n /\ b.bad = FALSE
    /\ \E c \in Nat : c >= n /\ DOMAIN b.pixel = 1 .. c

(* A step changes the cell it goes to. *)
LEMMA PutIs ==
    ASSUME NEW b, NEW loc, NEW dom, NEW n \in Nat, Frame(b, loc, dom, n), NEW p \in 0 .. n - 1, NEW v
    PROVE  /\ Frame(Put(b, p, v), loc, dom, n)
           /\ \A q \in 0 .. n - 1 : Cell(Put(b, p, v), q) = IF q = p THEN v ELSE Cell(b, q)
  <1>1. PICK c \in Nat : c >= n /\ DOMAIN b.pixel = 1 .. c
    BY DEF Frame
  <1>2. Inside(b, p)
    BY DEF Frame, Inside
  <1>3. PICK s : s = [b.pixel EXCEPT ![p + 1] = v]
    OBVIOUS
  <1>4. DOMAIN s = 1 .. c
    BY <1>1, <1>3
  <1>5. \A q \in 0 .. n - 1 : s[q + 1] = IF q = p THEN v ELSE b.pixel[q + 1]
    <2> SUFFICES ASSUME NEW q \in 0 .. n - 1 PROVE s[q + 1] = IF q = p THEN v ELSE b.pixel[q + 1]
      OBVIOUS
    <2>1. q + 1 \in 1 .. c /\ (q + 1 = p + 1 <=> q = p)
      BY <1>1
    <2> QED  BY <1>1, <1>3, <2>1
  <1>6. PICK r : r = Put(b, p, v)
    OBVIOUS
  <1>7. r.location = loc /\ r.domain = dom /\ r.used = n /\ r.pixel = s /\ r.bad = FALSE
    BY <1>2, <1>3, <1>6 DEF Frame, Put
  <1>8. Frame(r, loc, dom, n)
    BY <1>1, <1>4, <1>7 DEF Frame
  <1>9. ASSUME NEW q \in 0 .. n - 1 PROVE Cell(r, q) = IF q = p THEN v ELSE Cell(b, q)
    <2>1. Inside(r, q) /\ Inside(b, q)
      BY <1>7 DEF Frame, Inside
    <2>2. Cell(r, q) = s[q + 1] /\ Cell(b, q) = b.pixel[q + 1]
      BY <1>7, <2>1 DEF Cell
    <2> QED  BY <1>5, <2>2
  <1> QED  BY <1>6, <1>8, <1>9

(* What k steps have made of a block of n cells: what they have set has its value,
   all else is as before. *)
RunDone(r, dst, loc, dom, n, k, at, value) ==
    /\ Frame(r, loc, dom, n)
    /\ \A i \in 0 .. k - 1 : Cell(r, at[i]) = value[i]
    /\ \A q \in 0 .. n - 1 : (\A i \in 0 .. k - 1 : at[i] # q) => Cell(r, q) = Cell(dst, q)

(* So it is if each step has a position of its own. *)
LEMMA PutsAre ==
    ASSUME NEW loc, NEW dom, NEW n \in Nat, NEW k \in Nat, NEW f, NEW at, NEW value,
           Frame(f[0], loc, dom, n),
           \A i \in 0 .. k - 1 : at[i] \in 0 .. n - 1,
           \A i, j \in 0 .. k - 1 : at[i] = at[j] => i = j,
           \A i \in 0 .. k - 1 : f[i + 1] = Put(f[i], at[i], value[i])
    PROVE  \A m \in 0 .. k : RunDone(f[m], f[0], loc, dom, n, m, at, value)
  <1> DEFINE P(m) == /\ Frame(f[m], loc, dom, n)
                     /\ \A i \in 0 .. m - 1 : Cell(f[m], at[i]) = value[i]
                     /\ \A q \in 0 .. n - 1 : (\A i \in 0 .. m - 1 : at[i] # q) => Cell(f[m], q) = Cell(f[0], q)
             E == {m \in Nat : m <= k => P(m)}
  <1>1. 0 \in E
    OBVIOUS
  <1>2. ASSUME NEW m \in Nat, m \in E PROVE m + 1 \in E
    <2> SUFFICES ASSUME m + 1 <= k PROVE P(m + 1)
      OBVIOUS
    <2>1. P(m) /\ m \in 0 .. k - 1
      BY <1>2
    <2>2. PICK b, p, v : b = f[m] /\ p = at[m] /\ v = value[m]
      OBVIOUS
    <2>3. p \in 0 .. n - 1 /\ f[m + 1] = Put(b, p, v) /\ Frame(b, loc, dom, n)
      BY <2>1, <2>2
    <2>4. /\ Frame(f[m + 1], loc, dom, n)
          /\ \A q \in 0 .. n - 1 : Cell(f[m + 1], q) = IF q = p THEN v ELSE Cell(b, q)
      BY <2>3, PutIs
    <2>5. ASSUME NEW i \in 0 .. (m + 1) - 1 PROVE Cell(f[m + 1], at[i]) = value[i]
      <3>1. i \in 0 .. k - 1 /\ at[i] \in 0 .. n - 1
        BY <2>1
      <3>2. CASE i = m
        BY <2>2, <2>4, <3>1, <3>2
      <3>3. CASE i # m
        <4>1. i \in 0 .. m - 1 /\ at[i] # p
          BY <2>1, <2>2, <3>1, <3>3
        <4> QED  BY <2>1, <2>2, <2>4, <3>1, <4>1
      <3> QED  BY <3>2, <3>3
    <2>6. ASSUME NEW q \in 0 .. n - 1, \A i \in 0 .. (m + 1) - 1 : at[i] # q
          PROVE  Cell(f[m + 1], q) = Cell(f[0], q)
      <3>1. m \in 0 .. (m + 1) - 1 /\ \A i \in 0 .. m - 1 : i \in 0 .. (m + 1) - 1
        BY <2>1
      <3>2. q # p
        BY <2>2, <2>6, <3>1
      <3>3. Cell(b, q) = Cell(f[0], q)
        BY <2>1, <2>2, <2>6, <3>1
      <3> QED  BY <2>4, <3>2, <3>3
    <2> QED  BY <2>4, <2>5, <2>6
  <1>3. \A m \in Nat : m \in E
    <2> HIDE DEF E
    <2> QED  BY <1>1, <1>2, SetInduction
  <1> QED  BY <1>3 DEF RunDone

(* The recursive functions of the loops, as what they satisfy. *)
IsRun(f, dst, at, value, n) ==
    f = [k \in 0 .. n |-> IF k = 0 THEN dst ELSE Put(f[k - 1], at[k - 1], value[k - 1])]

(* There are such functions. *)
LEMMA RunExists ==
    ASSUME NEW dst, NEW at, NEW value, NEW n \in Nat
    PROVE  \E f : IsRun(f, dst, at, value, n)
  <1> DEFINE E == {m \in Nat : \E f : IsRun(f, dst, at, value, m)}
  <1>1. 0 \in E
    <2>1. PICK f : f = [k \in 0 .. 0 |-> dst]
      OBVIOUS
    <2>2. \A k \in 0 .. 0 : k = 0
      OBVIOUS
    <2>3. IsRun(f, dst, at, value, 0)
      BY <2>1, <2>2 DEF IsRun
    <2> QED  BY <2>3
  <1>2. ASSUME NEW m \in Nat, m \in E PROVE m + 1 \in E
    <2>1. PICK f : IsRun(f, dst, at, value, m)
      BY <1>2
    <2>2. PICK last : last = Put(f[m], at[m], value[m])
      OBVIOUS
    <2>3. PICK g : g = [k \in 0 .. m + 1 |-> IF k <= m THEN f[k] ELSE last]
      OBVIOUS
    <2>4. \A k \in 0 .. m : g[k] = f[k]
      BY <2>3
    <2>5. \A k \in 0 .. m : f[k] = IF k = 0 THEN dst ELSE Put(f[k - 1], at[k - 1], value[k - 1])
      BY <2>1 DEF IsRun
    <2>6. ASSUME NEW k \in 0 .. m + 1
          PROVE  g[k] = IF k = 0 THEN dst ELSE Put(g[k - 1], at[k - 1], value[k - 1])
      <3>1. CASE k = 0
        <4>1. 0 \in 0 .. m
          OBVIOUS
        <4>2. g[0] = f[0] /\ f[0] = dst
          BY <2>4, <2>5, <4>1
        <4> QED  BY <3>1, <4>2
      <3>2. CASE k \in 1 .. m
        <4>1. k \in 0 .. m /\ k - 1 \in 0 .. m /\ k # 0
          BY <3>2
        <4>2. g[k] = f[k] /\ g[k - 1] = f[k - 1]
          BY <2>4, <4>1
        <4>3. f[k] = Put(f[k - 1], at[k - 1], value[k - 1])
          BY <2>5, <4>1
        <4> QED  BY <4>1, <4>2, <4>3
      <3>3. CASE k = m + 1
        <4>1. k \in 0 .. m + 1 /\ ~ (k <= m) /\ k - 1 = m /\ k # 0 /\ m \in 0 .. m
          BY <3>3
        <4>2. g[k] = last /\ g[m] = f[m]
          BY <2>3, <2>4, <4>1
        <4> QED  BY <2>2, <3>3, <4>1, <4>2
      <3> QED  BY <3>1, <3>2, <3>3
    <2>7. g = [k \in 0 .. m + 1 |-> g[k]]
      BY <2>3
    <2>8. g = [k \in 0 .. m + 1 |-> IF k = 0 THEN dst ELSE Put(g[k - 1], at[k - 1], value[k - 1])]
      BY <2>6, <2>7
    <2>9. IsRun(g, dst, at, value, m + 1)
      BY <2>8 DEF IsRun
    <2> QED  BY <2>9
  <1>3. \A m \in Nat : m \in E
    <2> HIDE DEF E
    <2> QED  BY <1>1, <1>2, SetInduction
  <1> QED  BY <1>3

(* The same of the loop that reads what it writes. *)
IsAcc(f, dst, at, op, from, arg, n) ==
    f = [k \in 0 .. n |-> IF k = 0 THEN dst
                          ELSE Put(f[k - 1], at[k - 1], << op, Cell(f[k - 1], from[k - 1]), arg[k - 1] >>)]

(* There is such a function too. *)
LEMMA AccExists ==
    ASSUME NEW dst, NEW at, NEW op, NEW from, NEW arg, NEW n \in Nat
    PROVE  \E f : IsAcc(f, dst, at, op, from, arg, n)
  <1> DEFINE E == {m \in Nat : \E f : IsAcc(f, dst, at, op, from, arg, m)}
  <1>1. 0 \in E
    <2>1. PICK f : f = [k \in 0 .. 0 |-> dst]
      OBVIOUS
    <2>2. \A k \in 0 .. 0 : k = 0
      OBVIOUS
    <2>3. IsAcc(f, dst, at, op, from, arg, 0)
      BY <2>1, <2>2 DEF IsAcc
    <2> QED  BY <2>3
  <1>2. ASSUME NEW m \in Nat, m \in E PROVE m + 1 \in E
    <2>1. PICK f : IsAcc(f, dst, at, op, from, arg, m)
      BY <1>2
    <2>2. PICK last : last = Put(f[m], at[m], << op, Cell(f[m], from[m]), arg[m] >>)
      OBVIOUS
    <2>3. PICK g : g = [k \in 0 .. m + 1 |-> IF k <= m THEN f[k] ELSE last]
      OBVIOUS
    <2>4. \A k \in 0 .. m : g[k] = f[k]
      BY <2>3
    <2>5. \A k \in 0 .. m : f[k] = IF k = 0 THEN dst
                ELSE Put(f[k - 1], at[k - 1], << op, Cell(f[k - 1], from[k - 1]), arg[k - 1] >>)
      BY <2>1 DEF IsAcc
    <2>6. ASSUME NEW k \in 0 .. m + 1
          PROVE  g[k] = IF k = 0 THEN dst
                      ELSE Put(g[k - 1], at[k - 1], << op, Cell(g[k - 1], from[k - 1]), arg[k - 1] >>)
      <3>1. CASE k = 0
        <4>1. 0 \in 0 .. m
          OBVIOUS
        <4>2. g[0] = f[0] /\ f[0] = dst
          BY <2>4, <2>5, <4>1
        <4> QED  BY <3>1, <4>2
      <3>2. CASE k \in 1 .. m
        <4>1. k \in 0 .. m /\ k - 1 \in 0 .. m /\ k # 0
          BY <3>2
        <4>2. g[k] = f[k] /\ g[k - 1] = f[k - 1]
          BY <2>4, <4>1
        <4>3. f[k] = Put(f[k - 1], at[k - 1], << op, Cell(f[k - 1], from[k - 1]), arg[k - 1] >>)
          BY <2>5, <4>1
        <4> QED  BY <4>1, <4>2, <4>3
      <3>3. CASE k = m + 1
        <4>1. k \in 0 .. m + 1 /\ ~ (k <= m) /\ k - 1 = m /\ k # 0 /\ m \in 0 .. m
          BY <3>3
        <4>2. g[k] = last /\ g[m] = f[m]
          BY <2>3, <2>4, <4>1
        <4> QED  BY <2>2, <3>3, <4>1, <4>2
      <3> QED  BY <3>1, <3>2, <3>3
    <2>7. g = [k \in 0 .. m + 1 |-> g[k]]
      BY <2>3
    <2>8. g = [k \in 0 .. m + 1 |-> IF k = 0 THEN dst
                ELSE Put(g[k - 1], at[k - 1], << op, Cell(g[k - 1], from[k - 1]), arg[k - 1] >>)]
      BY <2>6, <2>7
    <2>9. IsAcc(g, dst, at, op, from, arg, m + 1)
      BY <2>8 DEF IsAcc
    <2> QED  BY <2>9
  <1>3. \A m \in Nat : m \in E
    <2> HIDE DEF E
    <2> QED  BY <1>1, <1>2, SetInduction
  <1> QED  BY <1>3

(* So a run that goes to no cell twice sets the cells it goes to. *)
LEMMA RunIs ==
    ASSUME NEW loc, NEW dom, NEW n \in Nat, NEW k \in Nat, NEW dst, NEW at, NEW value,
           Frame(dst, loc, dom, n),
           \A i \in 0 .. k - 1 : at[i] \in 0 .. n - 1,
           \A i, j \in 0 .. k - 1 : at[i] = at[j] => i = j
    PROVE  RunDone(Run(dst, k, at, value), dst, loc, dom, n, k, at, value)
  <1>1. PICK f : f = (CHOOSE g : IsRun(g, dst, at, value, k)) /\ IsRun(f, dst, at, value, k)
    BY RunExists
  <1>2. Run(dst, k, at, value) = f[k]
    BY <1>1 DEF Run, IsRun
  <1>3. \A m \in 0 .. k : f[m] = IF m = 0 THEN dst ELSE Put(f[m - 1], at[m - 1], value[m - 1])
    BY <1>1 DEF IsRun
  <1>4. f[0] = dst
    <2>1. 0 \in 0 .. k
      OBVIOUS
    <2> QED  BY <1>3, <2>1
  <1>5. ASSUME NEW i \in 0 .. k - 1 PROVE f[i + 1] = Put(f[i], at[i], value[i])
    <2>1. i + 1 \in 0 .. k /\ i + 1 # 0 /\ (i + 1) - 1 = i
      OBVIOUS
    <2> QED  BY <1>3, <2>1
  <1>6. k \in 0 .. k
    OBVIOUS
  <1>7. Frame(f[0], loc, dom, n)
    BY <1>4
  <1>8. \A m \in 0 .. k : RunDone(f[m], f[0], loc, dom, n, m, at, value)
    BY <1>5, <1>7, PutsAre
  <1> QED  BY <1>2, <1>4, <1>6, <1>8

(* The same of the loop that reads what is at the position first. *)
LEMMA AccIs ==
    ASSUME NEW loc, NEW dom, NEW n \in Nat, NEW k \in Nat, NEW dst, NEW at, NEW op, NEW from, NEW arg, NEW f,
           NEW value, value = [i \in 0 .. k - 1 |-> << op, Cell(dst, at[i]), arg[i] >>],
           Frame(dst, loc, dom, n),
           \A i \in 0 .. k - 1 : at[i] \in 0 .. n - 1,
           \A i \in 0 .. k - 1 : from[i] = at[i],
           \A i, j \in 0 .. k - 1 : at[i] = at[j] => i = j,
           IsAcc(f, dst, at, op, from, arg, k)
    PROVE  RunDone(f[k], dst, loc, dom, n, k, at, value)
  <1>1. PICK set : set = [i \in 0 .. k - 1 |-> << op, Cell(f[i], at[i]), arg[i] >>]
    OBVIOUS
  <1>3. \A m \in 0 .. k : f[m] = IF m = 0 THEN dst
                                 ELSE Put(f[m - 1], at[m - 1], << op, Cell(f[m - 1], from[m - 1]), arg[m - 1] >>)
    BY DEF IsAcc
  <1>4. f[0] = dst
    <2>1. 0 \in 0 .. k
      OBVIOUS
    <2> QED  BY <1>3, <2>1
  <1>5. ASSUME NEW i \in 0 .. k - 1 PROVE f[i + 1] = Put(f[i], at[i], set[i])
    <2>1. i + 1 \in 0 .. k /\ i + 1 # 0 /\ (i + 1) - 1 = i
      OBVIOUS
    <2>2. f[i + 1] = Put(f[i], at[i], << op, Cell(f[i], from[i]), arg[i] >>)
      BY <1>3, <2>1
    <2>3. from[i] = at[i] /\ set[i] = << op, Cell(f[i], at[i]), arg[i] >>
      BY <1>1
    <2> QED  BY <2>2, <2>3
  <1>7. Frame(f[0], loc, dom, n)
    BY <1>4
  <1>8. \A m \in 0 .. k : RunDone(f[m], f[0], loc, dom, n, m, at, set)
    BY <1>5, <1>7, PutsAre
  <1>9. ASSUME NEW i \in 0 .. k - 1 PROVE set[i] = value[i]
    <2>1. i \in 0 .. k /\ \A j \in 0 .. i - 1 : j \in 0 .. k - 1 /\ j # i
      OBVIOUS
    <2>2. \A j \in 0 .. i - 1 : at[j] # at[i]
      BY <2>1
    <2>3. Cell(f[i], at[i]) = Cell(dst, at[i])
      BY <1>4, <1>8, <2>1, <2>2 DEF RunDone
    <2> QED  BY <1>1, <2>3
  <1>10. k \in 0 .. k
    OBVIOUS
  <1> QED  BY <1>4, <1>8, <1>9, <1>10 DEF RunDone

(* An area of a block of w times h positions. *)
Within(a, w, h) ==
    /\ a.x \in Nat /\ a.y \in Nat /\ a.width \in Nat /\ a.height \in Nat
    /\ a.x + a.width <= w /\ a.y + a.height <= h

(* The positions of an area. *)
InArea(a, x, y) == a.x <= x /\ x < a.x + a.width /\ a.y <= y /\ y < a.y + a.height

(* Bands first to first + k - 1 of it, and the steps of a loop over them. *)
Hit(a, first, k, x, y, z) == InArea(a, x, y) /\ first <= z /\ z < first + k

(* How many steps the loop has, the number of the one that is for a cell, and
   the cell that a step is for. *)
Count(a, k) == Size(a.width, a.height, k)

StepNo(a, first, k, x, y, z) == Pos(a.width, k, x - a.x, y - a.y, z - first)

StepAt(i, a, first, k, x, y, z) ==
    /\ x = a.x + ((i \div k) % a.width) /\ y = a.y + (i \div (a.width * k)) /\ z = first + (i % k)

(* The positions that the steps go to. *)
GoesOver(at, a, first, k, w, d) ==
    \A i \in 0 .. Count(a, k) - 1 :
        at[i] = Pos(w, d, a.x + ((i \div k) % a.width), a.y + (i \div (a.width * k)), first + (i % k))

(* A block, an area in it and bands that it has. *)
InBlock(a, first, k, w, h, d) ==
    /\ w \in Nat /\ h \in Nat /\ d \in Nat /\ first \in Nat /\ k \in Nat
    /\ Within(a, w, h) /\ first + k <= d

(* Where one of them goes. *)
LEMMA GoesTo ==
    ASSUME NEW w, NEW d, NEW a, NEW first, NEW k, NEW at, GoesOver(at, a, first, k, w, d),
           NEW i \in 0 .. Count(a, k) - 1, NEW x, NEW y, NEW z, StepAt(i, a, first, k, x, y, z)
    PROVE  at[i] = Pos(w, d, x, y, z)
  BY DEF GoesOver, StepAt

(* Each step is at a position of the area. *)
LEMMA StepIs ==
    ASSUME NEW w, NEW h, NEW d, NEW a, NEW first, NEW k, InBlock(a, first, k, w, h, d), NEW i \in 0 .. Count(a, k) - 1
    PROVE  \E x \in 0 .. w - 1, y \in 0 .. h - 1, z \in 0 .. d - 1 :
               StepAt(i, a, first, k, x, y, z) /\ Hit(a, first, k, x, y, z) /\ i = StepNo(a, first, k, x, y, z)
  <1>1. PICK aw \in Nat, ah \in Nat, ax \in Nat, ay \in Nat :
            /\ a.width = aw /\ a.height = ah /\ a.x = ax /\ a.y = ay /\ ax + aw <= w /\ ay + ah <= h
            /\ w \in Nat /\ h \in Nat /\ d \in Nat /\ first \in Nat /\ k \in Nat /\ first + k <= d
    BY DEF Within, InBlock
  <1>2. i \in 0 .. Size(aw, ah, k) - 1
    BY <1>1 DEF Count
  <1>3. PICK u, v, t : u = (i \div k) % aw /\ v = i \div (aw * k) /\ t = i % k
    OBVIOUS
  <1>4. u \in 0 .. aw - 1 /\ v \in 0 .. ah - 1 /\ t \in 0 .. k - 1 /\ i = Pos(aw, k, u, v, t)
    <2>1. k \in Nat
      BY <1>1
    <2>2. /\ (i \div k) % aw \in 0 .. aw - 1 /\ i \div (aw * k) \in 0 .. ah - 1 /\ i % k \in 0 .. k - 1
          /\ i = Pos(aw, k, (i \div k) % aw, i \div (aw * k), i % k)
      BY <1>2, <2>1, PosOnto
    <2> QED  BY <1>3, <2>2
  <1>5. PICK x \in 0 .. w - 1, y \in 0 .. h - 1, z \in 0 .. d - 1 : x = ax + u /\ y = ay + v /\ z = first + t
    <2>1. ax + u \in 0 .. w - 1 /\ ay + v \in 0 .. h - 1 /\ first + t \in 0 .. d - 1
      BY <1>1, <1>4
    <2> QED  BY <2>1
  <1>6. x - ax = u /\ y - ay = v /\ z - first = t
    BY <1>1, <1>4, <1>5
  <1>7. Hit(a, first, k, x, y, z)
    BY <1>1, <1>4, <1>5 DEF Hit, InArea
  <1>8. i = StepNo(a, first, k, x, y, z)
    BY <1>1, <1>4, <1>6 DEF StepNo
  <1>9. StepAt(i, a, first, k, x, y, z)
    BY <1>1, <1>3, <1>5 DEF StepAt
  <1> QED  BY <1>7, <1>8, <1>9

(* And each position of the area has its step. *)
LEMMA StepTo ==
    ASSUME NEW w, NEW h, NEW d, NEW a, NEW first, NEW k, InBlock(a, first, k, w, h, d),
           NEW x \in 0 .. w - 1, NEW y \in 0 .. h - 1, NEW z \in 0 .. d - 1, Hit(a, first, k, x, y, z),
           NEW i, i = StepNo(a, first, k, x, y, z)
    PROVE  /\ i \in 0 .. Count(a, k) - 1
           /\ StepAt(i, a, first, k, x, y, z)
           /\ (i \div k) % a.width = x - a.x /\ i \div (a.width * k) = y - a.y /\ i % k = z - first
           /\ x - a.x \in 0 .. a.width - 1 /\ y - a.y \in 0 .. a.height - 1 /\ z - first \in 0 .. k - 1
  <1>1. PICK aw \in Nat, ah \in Nat, ax \in Nat, ay \in Nat :
            /\ a.width = aw /\ a.height = ah /\ a.x = ax /\ a.y = ay /\ ax + aw <= w /\ ay + ah <= h
            /\ w \in Nat /\ h \in Nat /\ d \in Nat /\ first \in Nat /\ k \in Nat /\ first + k <= d
    BY DEF Within, InBlock
  <1>2. PICK u \in 0 .. aw - 1, v \in 0 .. ah - 1, t \in 0 .. k - 1 : u = x - ax /\ v = y - ay /\ t = z - first
    <2>1. x - ax \in 0 .. aw - 1 /\ y - ay \in 0 .. ah - 1 /\ z - first \in 0 .. k - 1
      BY <1>1 DEF Hit, InArea
    <2> QED  BY <2>1
  <1>3. i = Pos(aw, k, u, v, t)
    BY <1>1, <1>2 DEF StepNo
  <1>4. i \in 0 .. Count(a, k) - 1
    <2>1. k \in Nat
      BY <1>1
    <2>2. Pos(aw, k, u, v, t) \in 0 .. Size(aw, ah, k) - 1
      BY <2>1, PosInside
    <2> QED  BY <1>1, <1>3, <2>2 DEF Count
  <1>5. i \div (aw * k) = v /\ (i \div k) % aw = u /\ i % k = t
    <2>1. v \in Nat
      OBVIOUS
    <2> QED  BY <1>1, <1>3, <2>1, PosTells
  <1>6. x = ax + u /\ y = ay + v /\ z = first + t
    BY <1>1, <1>2
  <1>7. StepAt(i, a, first, k, x, y, z)
    BY <1>1, <1>5, <1>6 DEF StepAt
  <1> QED  BY <1>1, <1>2, <1>4, <1>5, <1>7

(* The steps go to cells of the block, each to one of its own. *)
LEMMA AreaSteps ==
    ASSUME NEW w, NEW h, NEW d, NEW a, NEW first, NEW k, InBlock(a, first, k, w, h, d),
           NEW at, GoesOver(at, a, first, k, w, d)
    PROVE  /\ \A i \in 0 .. Count(a, k) - 1 : at[i] \in 0 .. Size(w, h, d) - 1
           /\ \A i, j \in 0 .. Count(a, k) - 1 : at[i] = at[j] => i = j
  <1>0. w \in Nat /\ h \in Nat /\ d \in Nat
    BY DEF InBlock
  <1>1. ASSUME NEW i \in 0 .. Count(a, k) - 1 PROVE at[i] \in 0 .. Size(w, h, d) - 1
    <2>1. PICK x \in 0 .. w - 1, y \in 0 .. h - 1, z \in 0 .. d - 1 : StepAt(i, a, first, k, x, y, z)
      BY StepIs
    <2>2. at[i] = Pos(w, d, x, y, z)
      BY <2>1, GoesTo
    <2> QED  BY <1>0, <2>2, PosInside
  <1>2. ASSUME NEW i \in 0 .. Count(a, k) - 1, NEW j \in 0 .. Count(a, k) - 1, at[i] = at[j]
        PROVE  i = j
    <2>1. PICK x \in 0 .. w - 1, y \in 0 .. h - 1, z \in 0 .. d - 1 :
              StepAt(i, a, first, k, x, y, z) /\ i = StepNo(a, first, k, x, y, z)
      BY StepIs
    <2>2. PICK u \in 0 .. w - 1, v \in 0 .. h - 1, t \in 0 .. d - 1 :
              StepAt(j, a, first, k, u, v, t) /\ j = StepNo(a, first, k, u, v, t)
      BY StepIs
    <2>3. at[i] = Pos(w, d, x, y, z) /\ at[j] = Pos(w, d, u, v, t)
      BY <2>1, <2>2, GoesTo
    <2>4. Pos(w, d, x, y, z) = Pos(w, d, u, v, t)
      BY <1>2, <2>3
    <2>5. y \in Nat /\ v \in Nat
      OBVIOUS
    <2>6. x = u /\ y = v /\ z = t
      <3>1. SameCell(w, d, x, y, z, u, v, t)
        BY <1>0, <2>4, <2>5 DEF SameCell
      <3> QED  BY <3>1, PosDiffer
    <2> QED  BY <2>1, <2>2, <2>6
  <1> QED  BY <1>1, <1>2

(* What a loop over an area makes of a block. *)
AreaDone(r, dst, a, first, k, w, h, d, value) ==
    \A x \in 0 .. w - 1, y \in 0 .. h - 1, z \in 0 .. d - 1 :
        Cell(r, Pos(w, d, x, y, z)) =
            IF Hit(a, first, k, x, y, z) THEN value[StepNo(a, first, k, x, y, z)]
            ELSE Cell(dst, Pos(w, d, x, y, z))

(* So a run over an area sets its cells, each to the value for it. *)
LEMMA AreaIs ==
    ASSUME NEW w, NEW h, NEW d, NEW a, NEW first, NEW k, InBlock(a, first, k, w, h, d),
           NEW at, GoesOver(at, a, first, k, w, d), NEW value, NEW dst, NEW loc, NEW dom,
           NEW r, RunDone(r, dst, loc, dom, Size(w, h, d), Count(a, k), at, value)
    PROVE  AreaDone(r, dst, a, first, k, w, h, d, value)
  <1>0. w \in Nat /\ h \in Nat /\ d \in Nat
    BY DEF InBlock
  <1> SUFFICES ASSUME NEW x \in 0 .. w - 1, NEW y \in 0 .. h - 1, NEW z \in 0 .. d - 1
               PROVE  Cell(r, Pos(w, d, x, y, z)) =
                          IF Hit(a, first, k, x, y, z) THEN value[StepNo(a, first, k, x, y, z)]
                          ELSE Cell(dst, Pos(w, d, x, y, z))
    BY DEF AreaDone
  <1>1. CASE Hit(a, first, k, x, y, z)
    <2>1. PICK i : i = StepNo(a, first, k, x, y, z)
      OBVIOUS
    <2>2. i \in 0 .. Count(a, k) - 1 /\ StepAt(i, a, first, k, x, y, z)
      BY <1>1, <2>1, StepTo
    <2>3. at[i] = Pos(w, d, x, y, z)
      BY <2>2, GoesTo
    <2>4. Cell(r, at[i]) = value[i]
      BY <2>2 DEF RunDone
    <2> QED  BY <1>1, <2>1, <2>3, <2>4
  <1>2. CASE ~ Hit(a, first, k, x, y, z)
    <2>1. ASSUME NEW i \in 0 .. Count(a, k) - 1 PROVE at[i] # Pos(w, d, x, y, z)
      <3>1. PICK u \in 0 .. w - 1, v \in 0 .. h - 1, t \in 0 .. d - 1 :
                StepAt(i, a, first, k, u, v, t) /\ Hit(a, first, k, u, v, t)
        BY StepIs
      <3>2. at[i] = Pos(w, d, u, v, t)
        BY <3>1, GoesTo
      <3>3. v \in Nat /\ y \in Nat
        OBVIOUS
      <3>4. ~ (u = x /\ v = y /\ t = z)
        BY <1>2, <3>1
      <3>5. Pos(w, d, u, v, t) # Pos(w, d, x, y, z)
        <4>1. ~ SameCell(w, d, u, v, t, x, y, z)
          BY <3>4, PosDiffer
        <4> QED  BY <1>0, <3>3, <4>1 DEF SameCell
      <3> QED  BY <3>2, <3>5
    <2>2. Pos(w, d, x, y, z) \in 0 .. Size(w, h, d) - 1
      BY <1>0, PosInside
    <2> QED  BY <1>2, <2>1, <2>2 DEF RunDone
  <1> QED  BY <1>1, <1>2

(* The block of a request, of w times h positions of d bands. *)
Dims(w, h, d) == [width |-> w, height |-> h, depth |-> d]

(* A block in good order, of w times h positions and d bands. *)
BlockOf(b, loc, w, h, d) == Frame(b, loc, Dims(w, h, d), Size(w, h, d))

(* What loops over areas come down to. *)
OverAt(dst, a, first, k) ==
    [i \in 0 .. a.height * a.width * k - 1 |->
        aktive_blit_index(dst, a.x + ((i \div k) % a.width), a.y + (i \div (a.width * k)), first + (i % k))]

(* The same with columns and bands in one axis. *)
FoldedAt(dst, a, k) ==
    [i \in 0 .. a.height * (a.width * k) * 1 - 1 |->
        (a.y + (i \div (a.width * k * 1))) * pitch(dst) + a.x + ((i \div 1) % (a.width * k))]

(* The index of the code is the position. *)
LEMMA IndexIs ==
    ASSUME NEW w, NEW h, NEW d, NEW loc, NEW b, BlockOf(b, loc, w, h, d), NEW x, NEW y, NEW z
    PROVE  aktive_blit_index(b, x, y, z) = Pos(w, d, x, y, z) /\ pitch(b) = w * d /\ b.domain.depth = d /\ b.domain.width = w
  BY DEF BlockOf, Frame, Dims, aktive_blit_index, pitch, Pos

(* The loop with three axes goes over the area. *)
LEMMA OverIs ==
    ASSUME NEW w, NEW h, NEW d, NEW a, NEW first, NEW k, InBlock(a, first, k, w, h, d),
           NEW loc, NEW dst, BlockOf(dst, loc, w, h, d), NEW value, NEW at, at = OverAt(dst, a, first, k),
           NEW r, r = Run(dst, a.height * a.width * k, at, value)
    PROVE  BlockOf(r, loc, w, h, d) /\ AreaDone(r, dst, a, first, k, w, h, d, value)
  <1>1. Count(a, k) = a.height * a.width * k
    BY DEF Count, Size
  <1>2. GoesOver(at, a, first, k, w, d)
    <2> SUFFICES ASSUME NEW i \in 0 .. Count(a, k) - 1
                 PROVE  at[i] = Pos(w, d, a.x + ((i \div k) % a.width), a.y + (i \div (a.width * k)), first + (i % k))
      BY DEF GoesOver
    <2>1. at[i] = aktive_blit_index(dst, a.x + ((i \div k) % a.width), a.y + (i \div (a.width * k)), first + (i % k))
      BY <1>1 DEF OverAt
    <2> QED  BY <2>1, IndexIs
  <1>3. Size(w, h, d) \in Nat /\ Count(a, k) \in Nat
    BY DEF InBlock, Within, Size, Count
  <1>4. /\ \A i \in 0 .. Count(a, k) - 1 : at[i] \in 0 .. Size(w, h, d) - 1
        /\ \A i, j \in 0 .. Count(a, k) - 1 : at[i] = at[j] => i = j
    BY <1>2, AreaSteps
  <1>5. RunDone(r, dst, loc, Dims(w, h, d), Size(w, h, d), Count(a, k), at, value)
    BY <1>1, <1>3, <1>4, RunIs DEF BlockOf
  <1>6. AreaDone(r, dst, a, first, k, w, h, d, value)
    BY <1>2, <1>5, AreaIs
  <1> QED  BY <1>5, <1>6 DEF BlockOf, RunDone

(* The step of a loop in which columns and bands are one axis. *)
FoldedStep(w, d, aw, ax, row, i) == row * (w * d) + ax + ((i \div 1) % (aw * d))

(* And where the loop with three axes goes at that step. *)
PlainStep(w, d, aw, ax, row, i) == Pos(w, d, ax + ((i \div d) % aw), row, 0 + (i % d))

(* When a loop with two axes goes where one with three does. *)
OneAxis(w, d, aw, ax, row, i) ==
    /\ w \in Nat /\ d \in Nat /\ aw \in Nat /\ ax \in Nat /\ row \in Nat /\ i \in Nat
    /\ d = 1 \/ ax = 0
    /\ aw # 0 /\ d # 0

(* Columns and bands as one axis: the same steps, if there is but one band or
   the area begins on the left. *)
LEMMA FoldedSteps ==
    ASSUME NEW w, NEW d, NEW aw, NEW ax, NEW row, NEW i, OneAxis(w, d, aw, ax, row, i)
    PROVE  FoldedStep(w, d, aw, ax, row, i) = PlainStep(w, d, aw, ax, row, i)
  <1>0. /\ w \in Nat /\ d \in Nat /\ aw \in Nat /\ ax \in Nat /\ row \in Nat /\ i \in Nat
        /\ aw # 0 /\ d # 0
    BY DEF OneAxis
  <1>1. PICK a \in Nat, z \in 0 .. d - 1 : a = i \div d /\ z = i % d /\ i = a * d + z
    <2>1. d \in Nat /\ d # 0 /\ i \in Nat
      BY <1>0
    <2> QED  BY <2>1
  <1>2. PICK y \in Nat, x \in 0 .. aw - 1 : y = a \div aw /\ x = a % aw /\ a = y * aw + x
    <2>1. aw \in Nat /\ aw # 0
      BY <1>0
    <2> QED  BY <2>1
  <1>3. PICK m \in Nat, b \in Nat : m = aw * d /\ b = x * d + z /\ m # 0
    <2>1. aw \in Nat /\ aw # 0 /\ d \in Nat /\ d # 0
      BY <1>0
    <2>2. x \in Nat /\ z \in Nat
      BY <2>1
    <2>3. aw * d \in Nat /\ x * d + z \in Nat /\ aw * d # 0
      BY <2>1, <2>2
    <2> QED  BY <2>3
  <1>4. i = y * m + b
    <2>1. (y * aw + x) * d = y * (aw * d) + x * d
      BY <1>0
    <2>2. a * d = (y * aw + x) * d
      BY <1>2
    <2> QED  BY <1>0, <1>1, <1>3, <2>1, <2>2
  <1>5. b < m
    <2>1. (x + 1) * d <= aw * d
      <3>1. x + 1 <= aw
        BY <1>0
      <3> QED  BY <1>0, <3>1
    <2>2. (x + 1) * d = x * d + d
      BY <1>0
    <2> QED  BY <1>0, <1>3, <2>1, <2>2
  <1>6. i % m = b /\ i \div 1 = i
    <2>1. Divided(i, y, m, b)
      BY <1>4, <1>5 DEF Divided
    <2> QED  BY <2>1, Remainder
  <1>7. ax * d = ax
    BY <1>0 DEF OneAxis
  <1>8. (ax + x) * d = ax + x * d
    BY <1>0, <1>7
  <1>9. FoldedStep(w, d, aw, ax, row, i) = row * (w * d) + ax + (x * d + z)
    BY <1>3, <1>6 DEF FoldedStep
  <1>10. PlainStep(w, d, aw, ax, row, i) = row * (w * d) + (ax + x) * d + (0 + z)
    BY <1>1, <1>2 DEF PlainStep, Pos
  <1>11. PICK u \in Nat, v \in Nat, q \in Nat : u = row * (w * d) /\ v = x * d /\ q = z
    <2>1. w \in Nat /\ d \in Nat /\ row \in Nat /\ x \in Nat /\ z \in Nat
      BY <1>0
    <2>2. w * d \in Nat /\ x * d \in Nat
      BY <2>1
    <2>3. row * (w * d) \in Nat
      BY <2>1, <2>2
    <2> QED  BY <2>1, <2>2, <2>3
  <1> QED  BY <1>0, <1>8, <1>9, <1>10, <1>11

(* So it goes over the same cells. *)
LEMMA FoldedIs ==
    ASSUME NEW w, NEW h, NEW d, NEW a, InBlock(a, 0, d, w, h, d), d = 1 \/ a.x = 0,
           NEW loc, NEW dst, BlockOf(dst, loc, w, h, d), NEW value, NEW at, at = FoldedAt(dst, a, d),
           NEW r, r = Run(dst, a.height * (a.width * d) * 1, at, value)
    PROVE  BlockOf(r, loc, w, h, d) /\ AreaDone(r, dst, a, 0, d, w, h, d, value)
  <1>0. /\ w \in Nat /\ h \in Nat /\ d \in Nat /\ a.width \in Nat /\ a.height \in Nat
        /\ a.x \in Nat /\ a.y \in Nat
    BY DEF InBlock, Within
  <1>1. Count(a, d) = a.height * (a.width * d) * 1
    <2>1. PICK aw \in Nat, ah \in Nat : aw = a.width /\ ah = a.height
      BY <1>0
    <2>2. ah * aw * d = ah * (aw * d) * 1
      BY <1>0
    <2> QED  BY <2>1, <2>2 DEF Count, Size
  <1>2. GoesOver(at, a, 0, d, w, d)
    <2> SUFFICES ASSUME NEW i \in 0 .. Count(a, d) - 1
                 PROVE  at[i] = Pos(w, d, a.x + ((i \div d) % a.width), a.y + (i \div (a.width * d)), 0 + (i % d))
      BY DEF GoesOver
    <2>1. at[i] = (a.y + (i \div (a.width * d * 1))) * pitch(dst) + a.x + ((i \div 1) % (a.width * d))
      BY <1>1 DEF FoldedAt
    <2>2. PICK aw \in Nat, ax \in Nat, ay \in Nat, ah \in Nat : aw = a.width /\ ax = a.x /\ ay = a.y /\ ah = a.height
      BY <1>0
    <2>3. aw # 0 /\ d # 0
      <3>1. i \in 0 .. ah * aw * d - 1
        BY <2>2 DEF Count, Size
      <3> QED  BY <1>0, <3>1
    <2>4. aw * d * 1 = aw * d /\ aw * d \in Nat \ {0}
      BY <1>0, <2>3
    <2>5. i \in Nat
      OBVIOUS
    <2>6. PICK row \in Nat : row = ay + (i \div (aw * d))
      <3>1. PICK m \in Nat \ {0} : m = aw * d
        BY <2>4
      <3>2. i \div m \in Nat
        BY <2>5, <3>1
      <3> QED  BY <3>1, <3>2
    <2>7. pitch(dst) = w * d
      BY IndexIs
    <2>8. FoldedStep(w, d, aw, ax, row, i) = PlainStep(w, d, aw, ax, row, i)
      <3>1. OneAxis(w, d, aw, ax, row, i)
        BY <1>0, <2>2, <2>3, <2>5 DEF OneAxis
      <3> QED  BY <3>1, FoldedSteps
    <2> QED  BY <2>1, <2>2, <2>4, <2>6, <2>7, <2>8 DEF FoldedStep, PlainStep
  <1>3. Size(w, h, d) \in Nat /\ Count(a, d) \in Nat
    BY <1>0 DEF Size, Count
  <1>4. /\ \A i \in 0 .. Count(a, d) - 1 : at[i] \in 0 .. Size(w, h, d) - 1
        /\ \A i, j \in 0 .. Count(a, d) - 1 : at[i] = at[j] => i = j
    BY <1>2, AreaSteps
  <1>5. RunDone(r, dst, loc, Dims(w, h, d), Size(w, h, d), Count(a, d), at, value)
    BY <1>1, <1>3, <1>4, RunIs DEF BlockOf
  <1>6. AreaDone(r, dst, a, 0, d, w, h, d, value)
    BY <1>2, <1>5, AreaIs
  <1> QED  BY <1>5, <1>6 DEF BlockOf, RunDone

(* A block after aktive_blit_setup. *)
SetUp(r, loc, w, h, d, c) ==
    /\ r.location = loc /\ r.domain = Dims(w, h, d) /\ r.bad = FALSE /\ r.used = w * h * d
    /\ r.pixel = Resize([j \in 1 .. c |-> Unset], w * h * d)

(* A block that is set up has its cells, all of them zero. *)
LEMMA ResizeIs ==
    ASSUME NEW w \in Nat, NEW h \in Nat, NEW d \in Nat, NEW c \in Nat, NEW loc,
           NEW r, SetUp(r, loc, w, h, d, c)
    PROVE  /\ BlockOf(r, loc, w, h, d)
           /\ \A q \in 0 .. Size(w, h, d) - 1 : Cell(r, q) = Zero
  <1>1. PICK n \in Nat : n = Size(w, h, d) /\ n = w * h * d
    <2>1. PICK m \in Nat : m = h * w /\ m = w * h
      OBVIOUS
    <2>2. m * d \in Nat
      OBVIOUS
    <2> QED  BY <2>1, <2>2 DEF Size
  <1>2. PICK s : s = [j \in 1 .. c |-> Unset]
    OBVIOUS
  <1>3. r.location = loc /\ r.domain = Dims(w, h, d) /\ r.bad = FALSE /\ r.used = n /\ r.pixel = Resize(s, n)
    BY <1>1, <1>2 DEF SetUp
  <1>4. PICK m \in Nat : m = Maximum(c, n) /\ n <= m
    BY DEF Maximum
  <1>5. Len(s) = c
    <2>1. s \in Seq({Unset})
      BY <1>2
    <2> QED  BY <1>2, <2>1
  <1>6. r.pixel = [j \in 1 .. m |-> IF j <= n THEN Zero ELSE s[j]]
    BY <1>3, <1>4, <1>5 DEF Resize
  <1>7. BlockOf(r, loc, w, h, d)
    BY <1>1, <1>3, <1>4, <1>6 DEF BlockOf, Frame
  <1>8. ASSUME NEW q \in 0 .. n - 1 PROVE Cell(r, q) = Zero
    <2>1. q + 1 \in 1 .. m /\ q + 1 <= n /\ Inside(r, q)
      BY <1>1, <1>3, <1>4 DEF Inside
    <2> QED  BY <1>6, <2>1 DEF Cell
  <1> QED  BY <1>1, <1>7, <1>8

(* A block set up is zero everywhere, whatever its memory held before. *)
LEMMA SetupIs ==
    ASSUME NEW w \in Nat, NEW h \in Nat, NEW d \in Nat, NEW req, req.width = w, req.height = h,
           NEW c \in Nat, NEW b,
           \/ b = [aktive_block(d) EXCEPT !.pixel = [k \in 1 .. c |-> Unset]]
           \/ b = aktive_block(d) /\ c = 0,
           NEW r, r = aktive_blit_setup(b, req)
    PROVE  /\ BlockOf(r, aktive_point(req.x, req.y), w, h, d)
           /\ \A q \in 0 .. Size(w, h, d) - 1 : Cell(r, q) = Zero
  <1>1. PICK n \in Nat : n = w * h * d
    <2>1. PICK m \in Nat : m = w * h
      OBVIOUS
    <2>2. m * d \in Nat
      OBVIOUS
    <2> QED  BY <2>1, <2>2
  <1>2. PICK loc, s : loc = aktive_point(req.x, req.y) /\ s = [k \in 1 .. c |-> Unset]
    OBVIOUS
  <1>3. r.location = loc /\ r.domain = Dims(w, h, d) /\ r.bad = FALSE /\ r.used = n /\ r.pixel = Resize(s, n)
    <2>1. CASE b = [aktive_block(d) EXCEPT !.pixel = [k \in 1 .. c |-> Unset]]
      <3>1. b.domain.depth = d /\ b.bad = FALSE /\ b.pixel = s
        BY <1>2, <2>1 DEF aktive_block
      <3> QED  BY <1>1, <1>2, <2>1, <3>1 DEF aktive_blit_setup, aktive_block, Dims
    <2>2. CASE b = aktive_block(d) /\ c = 0
      <3>1. s = << >>
        BY <1>2, <2>2
      <3>2. b.domain.depth = d /\ b.bad = FALSE /\ b.pixel = s
        BY <2>2, <3>1 DEF aktive_block
      <3> QED  BY <1>1, <1>2, <2>2, <3>2 DEF aktive_blit_setup, aktive_block, Dims
    <2> QED  BY <2>1, <2>2
  <1>4. SetUp(r, loc, w, h, d, c)
    BY <1>1, <1>2, <1>3 DEF SetUp
  <1> QED  BY <1>2, <1>4, ResizeIs

(* An area of the image. *)
InImage(area) ==
    /\ area.x \in Int /\ area.y \in Int /\ area.width \in Nat /\ area.height \in Nat
    /\ domain.x \in Int /\ domain.y \in Int /\ domain.width \in Nat /\ domain.height \in Nat
    /\ domain.x <= area.x /\ area.x + area.width <= domain.x + domain.width
    /\ domain.y <= area.y /\ area.y + area.height <= domain.y + domain.height

(* The cells that an input answers with there. *)
LEMMA FetchedCell ==
    ASSUME NEW aw \in Nat, NEW ah \in Nat, NEW d \in Nat, NEW area, area.width = aw, area.height = ah,
           InImage(area),
           NEW col \in 0 .. aw - 1, NEW row \in 0 .. ah - 1, NEW z \in 0 .. d - 1,
           NEW i, NEW src, src = Fetched(i, d, area)
    PROVE  /\ Cell(src, aktive_blit_index(src, col, row, z)) = Input(i, area.x + col, area.y + row, z)
           /\ pitch(src) = aw * d
           /\ aktive_blit_index(src, col, row, z) = row * (aw * d) + col * d + z
  <1>1. PICK p : p = Pos(aw, d, col, row, z)
    OBVIOUS
  <1>2. p \in 0 .. Size(aw, ah, d) - 1
    BY <1>1, PosInside
  <1>3. p \div (aw * d) = row /\ p % d = z
    <2>1. row \in Nat
      OBVIOUS
    <2> QED  BY <1>1, <2>1, PosTells
  <1>4. PICK m \in Nat, b \in Nat : m = aw * d /\ b = col * d + z /\ d # 0
    OBVIOUS
  <1>5. b < m
    <2>1. (col + 1) * d <= aw * d
      <3>1. col + 1 <= aw
        OBVIOUS
      <3> QED  BY <3>1
    <2>2. (col + 1) * d = col * d + d
      OBVIOUS
    <2> QED  BY <1>4, <2>1, <2>2
  <1>6. p = row * m + b
    BY <1>1, <1>4 DEF Pos
  <1>7. p % m = b /\ b \div d = col
    <2>1. Divided(p, row, m, b)
      BY <1>5, <1>6 DEF Divided
    <2>2. p % m = b
      BY <2>1, Remainder
    <2>3. Divided(b, col, d, z)
      BY <1>4 DEF Divided
    <2>4. b \div d = col
      BY <2>3, Remainder
    <2> QED  BY <2>2, <2>4
  <1>8. src.domain.width = aw /\ src.domain.depth = d /\ src.used = ah * m
        /\ src.pixel = [k \in 1 .. ah * m |->
                          Answered(i, aktive_point(area.x + ((k - 1) % m) \div d, area.y + (k - 1) \div m), (k - 1) % d)]
    <2>1. /\ src.domain.width = area.width /\ src.domain.depth = d /\ src.used = area.height * (area.width * d)
          /\ src.pixel = [k \in 1 .. area.height * (area.width * d) |->
                          Answered(i, aktive_point(area.x + ((k - 1) % (area.width * d)) \div d,
                                                 area.y + (k - 1) \div (area.width * d)), (k - 1) % d)]
      BY DEF Fetched, aktive_block
    <2> QED  BY <1>4, <2>1
  <1>9. pitch(src) = aw * d /\ aktive_blit_index(src, col, row, z) = p
    BY <1>1, <1>8 DEF pitch, aktive_blit_index, Pos
  <1>10. p + 1 \in 1 .. ah * m /\ (p + 1) - 1 = p /\ Inside(src, p)
    <2>1. ah * aw * d = ah * m
      BY <1>4
    <2>2. PICK n \in Nat : n = ah * m
      BY <1>4
    <2>3. p \in 0 .. n - 1
      BY <1>2, <2>1, <2>2 DEF Size
    <2>4. src.used = n
      BY <1>8, <2>2
    <2>5. p + 1 \in 1 .. n /\ (p + 1) - 1 = p
      BY <2>3
    <2> QED  BY <2>2, <2>3, <2>4, <2>5 DEF Inside
  <1>11. Cell(src, p) = Answered(i, aktive_point(area.x + (p % m) \div d, area.y + p \div m), p % d)
    BY <1>8, <1>10 DEF Cell
  <1>12. PICK q : q = aktive_point(area.x + col, area.y + row)
    OBVIOUS
  <1>13. Answered(i, q, z) = Input(i, area.x + col, area.y + row, z)
    <2>1. q.x = area.x + col /\ q.y = area.y + row
      BY <1>12 DEF aktive_point
    <2>2. aktive_rectangle_contains(domain, q)
      BY <2>1 DEF InImage, aktive_rectangle_contains, Xmax, Ymax
    <2> QED  BY <2>1, <2>2 DEF Answered
  <1>14. Cell(src, p) = Answered(i, q, z)
    BY <1>3, <1>4, <1>7, <1>11, <1>12
  <1> QED  BY <1>1, <1>9, <1>13, <1>14 DEF Pos

LEMMA FetchedDepth ==
    ASSUME NEW i, NEW d, NEW area
    PROVE  Fetched(i, d, area).domain.depth = d
  BY DEF Fetched, aktive_block

(* The pixels of an area are put where they belong in a block of a request,
   everything else is left. *)
Served(r, b, area, dst, w, h, d) ==
    \A x \in 0 .. w - 1, y \in 0 .. h - 1, z \in 0 .. d - 1 :
        Cell(r, Pos(w, d, x, y, z)) =
            IF InArea(dst, x, y) THEN Promised(aktive_point(area.x + (x - dst.x), area.y + (y - dst.y)), z)
            ELSE Cell(b, Pos(w, d, x, y, z))

(* The part to be put and its place are of one size. *)
Fit(area, dst) == area.width = dst.width /\ area.height = dst.height

(* The row, column and band of a step. *)
StepOf(i, a, k, row, col, z) == row = i \div (a.width * k) /\ col = (i \div k) % a.width /\ z = i % k

(* The values of a loop are the pixels of the area. *)
Means(value, area, dst, d) ==
    \A i \in 0 .. Count(dst, d) - 1, row \in 0 .. dst.height - 1, col \in 0 .. dst.width - 1, z \in 0 .. d - 1 :
        StepOf(i, dst, d, row, col, z) => value[i] = Promised(aktive_point(area.x + col, area.y + row), z)

(* If they are, the loop serves the request. *)
LEMMA MeansServed ==
    ASSUME NEW w, NEW h, NEW d, NEW dst, InBlock(dst, 0, d, w, h, d), NEW b, NEW r, NEW value, NEW area,
           AreaDone(r, b, dst, 0, d, w, h, d, value), Means(value, area, dst, d)
    PROVE  Served(r, b, area, dst, w, h, d)
  <1> SUFFICES ASSUME NEW x \in 0 .. w - 1, NEW y \in 0 .. h - 1, NEW z \in 0 .. d - 1
               PROVE  Cell(r, Pos(w, d, x, y, z)) =
            IF InArea(dst, x, y) THEN Promised(aktive_point(area.x + (x - dst.x), area.y + (y - dst.y)), z)
            ELSE Cell(b, Pos(w, d, x, y, z))
    BY DEF Served
  <1>0. d \in Nat
    BY DEF InBlock
  <1>1. Hit(dst, 0, d, x, y, z) <=> InArea(dst, x, y)
    BY <1>0 DEF Hit
  <1>2. PICK i : i = StepNo(dst, 0, d, x, y, z)
    OBVIOUS
  <1>3. Cell(r, Pos(w, d, x, y, z)) = IF Hit(dst, 0, d, x, y, z) THEN value[i] ELSE Cell(b, Pos(w, d, x, y, z))
    BY <1>2 DEF AreaDone
  <1>4. CASE Hit(dst, 0, d, x, y, z)
    <2>1. /\ i \in 0 .. Count(dst, d) - 1
          /\ (i \div d) % dst.width = x - dst.x /\ i \div (dst.width * d) = y - dst.y /\ i % d = z - 0
          /\ x - dst.x \in 0 .. dst.width - 1 /\ y - dst.y \in 0 .. dst.height - 1 /\ z - 0 \in 0 .. d - 1
      BY <1>2, <1>4, StepTo
    <2>2. PICK row \in 0 .. dst.height - 1, col \in 0 .. dst.width - 1 : row = y - dst.y /\ col = x - dst.x
      BY <2>1
    <2>3. i % d = z
      BY <1>0, <2>1
    <2>4. StepOf(i, dst, d, row, col, z)
      BY <2>1, <2>2, <2>3 DEF StepOf
    <2>5. value[i] = Promised(aktive_point(area.x + col, area.y + row), z)
      BY <2>1, <2>4 DEF Means
    <2> QED  BY <1>1, <1>3, <1>4, <2>2, <2>5
  <1> QED  BY <1>1, <1>3, <1>4

(* Loops over an area, with three axes or with two. *)
LEMMA OverServes ==
    ASSUME NEW w, NEW h, NEW d, NEW dst, InBlock(dst, 0, d, w, h, d), NEW loc, NEW b, BlockOf(b, loc, w, h, d),
           NEW area, NEW value, Means(value, area, dst, d),
           NEW r, r = Run(b, dst.height * dst.width * d, OverAt(b, dst, 0, d), value)
    PROVE  BlockOf(r, loc, w, h, d) /\ Served(r, b, area, dst, w, h, d)
  <1>1. BlockOf(r, loc, w, h, d) /\ AreaDone(r, b, dst, 0, d, w, h, d, value)
    BY OverIs
  <1> QED  BY <1>1, MeansServed

LEMMA FoldedServes ==
    ASSUME NEW w, NEW h, NEW d, NEW dst, InBlock(dst, 0, d, w, h, d), d = 1 \/ dst.x = 0,
           NEW loc, NEW b, BlockOf(b, loc, w, h, d),
           NEW area, NEW value, Means(value, area, dst, d),
           NEW r, r = Run(b, dst.height * (dst.width * d) * 1, FoldedAt(b, dst, d), value)
    PROVE  BlockOf(r, loc, w, h, d) /\ Served(r, b, area, dst, w, h, d)
  <1>1. BlockOf(r, loc, w, h, d) /\ AreaDone(r, b, dst, 0, d, w, h, d, value)
    BY FoldedIs
  <1> QED  BY <1>1, MeansServed

(* The row and column of a step of the latter. *)
LEMMA FoldedNo ==
    ASSUME NEW aw \in Nat, NEW ah \in Nat, NEW d \in Nat, NEW dst, dst.width = aw, dst.height = ah,
           NEW i \in 0 .. Count(dst, d) - 1, NEW row, NEW col, NEW z, StepOf(i, dst, d, row, col, z)
    PROVE  /\ i \in 0 .. ah * (aw * d) * 1 - 1
           /\ i \div (aw * d * 1) = row /\ (i \div 1) % (aw * d) = col * d + z
           /\ i \in 0 .. ah * aw * d - 1
  <1>1. i \in 0 .. Size(aw, ah, d) - 1
    BY DEF Count
  <1>2. row = i \div (aw * d) /\ col = (i \div d) % aw /\ z = i % d
    BY DEF StepOf
  <1>3. /\ col \in 0 .. aw - 1 /\ row \in 0 .. ah - 1 /\ z \in 0 .. d - 1
        /\ i = Pos(aw, d, col, row, z)
    BY <1>1, <1>2, PosOnto
  <1>4. PICK x \in 0 .. aw - 1, y \in 0 .. ah - 1, t \in 0 .. d - 1 : x = col /\ y = row /\ t = z
    BY <1>3
  <1>5. PICK m \in Nat, b \in Nat : m = aw * d /\ b = x * d + t /\ d # 0
    OBVIOUS
  <1>6. b < m
    <2>1. (x + 1) * d <= aw * d
      <3>1. x + 1 <= aw
        OBVIOUS
      <3> QED  BY <3>1
    <2>2. (x + 1) * d = x * d + d
      OBVIOUS
    <2> QED  BY <1>5, <2>1, <2>2
  <1>7. i = y * m + b
    BY <1>3, <1>4, <1>5 DEF Pos
  <1>8. i % m = b /\ i \div 1 = i
    <2>1. Divided(i, y, m, b)
      BY <1>6, <1>7 DEF Divided
    <2> QED  BY <2>1, Remainder
  <1>9. aw * d * 1 = aw * d /\ ah * (aw * d) * 1 = ah * aw * d
    OBVIOUS
  <1> QED  BY <1>1, <1>2, <1>4, <1>5, <1>8, <1>9 DEF Size

(* A request for an area of the image, to be served into part of a block. *)
Serving(b, area, dst, w, h, d, loc) ==
    /\ operation.depth = d
    /\ InBlock(dst, 0, d, w, h, d)
    /\ Fit(area, dst) /\ InImage(area)
    /\ BlockOf(b, loc, w, h, d)

(* What this says of the numbers. *)
LEMMA ServingIs ==
    ASSUME NEW b, NEW area, NEW dst, NEW w, NEW h, NEW d, NEW loc, Serving(b, area, dst, w, h, d, loc)
    PROVE  /\ operation.depth = d /\ d \in Nat /\ dst.width \in Nat /\ dst.height \in Nat
           /\ area.width = dst.width /\ area.height = dst.height /\ InImage(area)
           /\ b.domain.depth = d
  BY DEF Serving, InBlock, Within, Fit, BlockOf, Frame, Dims

(* A step of a loop over a part of w times h positions, and the source it reads;
   and the cell that a step of a loop with two axes reads. *)
Reading(i, src, dst, area, n, w, h, d, row, col, z) ==
    /\ w \in Nat /\ h \in Nat /\ d \in Nat /\ dst.width = w /\ dst.height = h
    /\ area.width = w /\ area.height = h /\ InImage(area) /\ src = Fetched(n, d, area)
    /\ i \in 0 .. Count(dst, d) - 1 /\ row \in 0 .. h - 1 /\ col \in 0 .. w - 1 /\ z \in 0 .. d - 1
    /\ StepOf(i, dst, d, row, col, z)

ReadBy(src, w, d, i) == Cell(src, (i \div (w * d * 1)) * pitch(src) + ((i \div 1) % (w * d)))

(* They are those of the part. *)
LEMMA FoldedSource ==
    ASSUME NEW i, NEW src, NEW dst, NEW area, NEW n, NEW aw, NEW ah, NEW d, NEW row, NEW col, NEW z,
           Reading(i, src, dst, area, n, aw, ah, d, row, col, z)
    PROVE  ReadBy(src, aw, d, i) = Input(n, area.x + col, area.y + row, z)
  <1>0. /\ aw \in Nat /\ ah \in Nat /\ d \in Nat /\ dst.width = aw /\ dst.height = ah
        /\ area.width = aw /\ area.height = ah /\ InImage(area) /\ src = Fetched(n, d, area)
        /\ i \in 0 .. Count(dst, d) - 1 /\ row \in 0 .. ah - 1 /\ col \in 0 .. aw - 1 /\ z \in 0 .. d - 1
        /\ StepOf(i, dst, d, row, col, z)
    BY DEF Reading
  <1>1. i \div (aw * d * 1) = row /\ (i \div 1) % (aw * d) = col * d + z
    BY <1>0, FoldedNo
  <1>2. /\ Cell(src, aktive_blit_index(src, col, row, z)) = Input(n, area.x + col, area.y + row, z)
        /\ pitch(src) = aw * d /\ aktive_blit_index(src, col, row, z) = row * (aw * d) + col * d + z
    BY <1>0, FetchedCell
  <1>3. row * (aw * d) + (col * d + z) = row * (aw * d) + col * d + z
    BY <1>0
  <1>4. row * pitch(src) + (col * d + z) = aktive_blit_index(src, col, row, z)
    BY <1>2, <1>3
  <1> QED  BY <1>1, <1>2, <1>4 DEF ReadBy

(* The functions of each cell: columns and bands are one axis. *)
LEMMA Unary0Is ==
    ASSUME NEW b, NEW area, NEW dst, NEW w, NEW h, NEW d, NEW loc, Serving(b, area, dst, w, h, d, loc),
           operation.name = "unary0",
           d = 1 \/ dst.x = 0, NEW first, NEW r, r = Pixels(b, area, dst, first)
    PROVE  BlockOf(r, loc, w, h, d) /\ Served(r, b, area, dst, w, h, d)
  <1>0. PICK aw \in Nat, ah \in Nat :
            /\ dst.width = aw /\ dst.height = ah /\ area.width = aw /\ area.height = ah
            /\ operation.depth = d /\ d \in Nat /\ b.domain.depth = d /\ InImage(area)
    BY ServingIs
  <1>1. PICK src : src = Fetched(0, d, area)
    OBVIOUS
  <1>2. PICK value : value = [i \in 0 .. ah * (aw * d) * 1 - 1 |->
            << "op1", ReadBy(src, aw, d, i) >>]
    OBVIOUS
  <1>3. r = Run(b, ah * (aw * d) * 1, FoldedAt(b, dst, d), value)
    <2>1. r = aktive_blit_unary0(b, dst, "op1", src)
      BY <1>0, <1>1 DEF Pixels, unary
    <2> QED  BY <1>0, <1>2, <2>1 DEF aktive_blit_unary0, ReadBy, Folded, Nest, Steps, FoldedAt
  <1>4. Means(value, area, dst, d)
    <2> SUFFICES ASSUME NEW i \in 0 .. Count(dst, d) - 1,
                        NEW row \in 0 .. ah - 1, NEW col \in 0 .. aw - 1, NEW z \in 0 .. d - 1,
                        StepOf(i, dst, d, row, col, z)
                 PROVE  value[i] = Promised(aktive_point(area.x + col, area.y + row), z)
      BY <1>0 DEF Means
    <2>0. i \in 0 .. ah * (aw * d) * 1 - 1
      BY <1>0, FoldedNo
    <2>1. ReadBy(src, aw, d, i) = Input(0, area.x + col, area.y + row, z)
      <3>1. Reading(i, src, dst, area, 0, aw, ah, d, row, col, z)
        BY <1>0, <1>1 DEF Reading
      <3> QED  BY <3>1, FoldedSource
    <2>2. value[i] = << "op1", Input(0, area.x + col, area.y + row, z) >>
      BY <1>2, <2>0, <2>1
    <2> QED  BY <2>2 DEF Promised, op1, aktive_point
  <1> QED  BY <1>0, <1>3, <1>4, FoldedServes DEF Serving

(* Functions of one and of two parameters. *)
LEMMA Unary1Is ==
    ASSUME NEW b, NEW area, NEW dst, NEW w, NEW h, NEW d, NEW loc, Serving(b, area, dst, w, h, d, loc),
           operation.name = "unary1",
           d = 1 \/ dst.x = 0, NEW first, NEW r, r = Pixels(b, area, dst, first)
    PROVE  BlockOf(r, loc, w, h, d) /\ Served(r, b, area, dst, w, h, d)
  <1>0. PICK aw \in Nat, ah \in Nat :
            /\ dst.width = aw /\ dst.height = ah /\ area.width = aw /\ area.height = ah
            /\ operation.depth = d /\ d \in Nat /\ b.domain.depth = d /\ InImage(area)
    BY ServingIs
  <1>1. PICK src : src = Fetched(0, d, area)
    OBVIOUS
  <1>2. PICK value : value = [i \in 0 .. ah * (aw * d) * 1 - 1 |->
            << "op1a", ReadBy(src, aw, d, i), 1 >>]
    OBVIOUS
  <1>3. r = Run(b, ah * (aw * d) * 1, FoldedAt(b, dst, d), value)
    <2>1. r = aktive_blit_unary1(b, dst, "op1a", 1, src)
      BY <1>0, <1>1 DEF Pixels, unary
    <2> QED  BY <1>0, <1>2, <2>1 DEF aktive_blit_unary1, ReadBy, Folded, Nest, Steps, FoldedAt
  <1>4. Means(value, area, dst, d)
    <2> SUFFICES ASSUME NEW i \in 0 .. Count(dst, d) - 1,
                        NEW row \in 0 .. ah - 1, NEW col \in 0 .. aw - 1, NEW z \in 0 .. d - 1,
                        StepOf(i, dst, d, row, col, z)
                 PROVE  value[i] = Promised(aktive_point(area.x + col, area.y + row), z)
      BY <1>0 DEF Means
    <2>0. i \in 0 .. ah * (aw * d) * 1 - 1
      BY <1>0, FoldedNo
    <2>1. ReadBy(src, aw, d, i) = Input(0, area.x + col, area.y + row, z)
      <3>1. Reading(i, src, dst, area, 0, aw, ah, d, row, col, z)
        BY <1>0, <1>1 DEF Reading
      <3> QED  BY <3>1, FoldedSource
    <2>2. value[i] = << "op1a", Input(0, area.x + col, area.y + row, z), 1 >>
      BY <1>2, <2>0, <2>1
    <2> QED  BY <2>2 DEF Promised, op1a, aktive_point
  <1> QED  BY <1>0, <1>3, <1>4, FoldedServes DEF Serving

LEMMA Unary2Is ==
    ASSUME NEW b, NEW area, NEW dst, NEW w, NEW h, NEW d, NEW loc, Serving(b, area, dst, w, h, d, loc),
           operation.name = "unary2",
           d = 1 \/ dst.x = 0, NEW first, NEW r, r = Pixels(b, area, dst, first)
    PROVE  BlockOf(r, loc, w, h, d) /\ Served(r, b, area, dst, w, h, d)
  <1>0. PICK aw \in Nat, ah \in Nat :
            /\ dst.width = aw /\ dst.height = ah /\ area.width = aw /\ area.height = ah
            /\ operation.depth = d /\ d \in Nat /\ b.domain.depth = d /\ InImage(area)
    BY ServingIs
  <1>1. PICK src : src = Fetched(0, d, area)
    OBVIOUS
  <1>2. PICK value : value = [i \in 0 .. ah * (aw * d) * 1 - 1 |->
            << "op1ac", ReadBy(src, aw, d, i), 1, 2 >>]
    OBVIOUS
  <1>3. r = Run(b, ah * (aw * d) * 1, FoldedAt(b, dst, d), value)
    <2>1. r = aktive_blit_unary2(b, dst, "op1ac", 1, 2, src)
      BY <1>0, <1>1 DEF Pixels, unary
    <2> QED  BY <1>0, <1>2, <2>1 DEF aktive_blit_unary2, ReadBy, Folded, Nest, Steps, FoldedAt
  <1>4. Means(value, area, dst, d)
    <2> SUFFICES ASSUME NEW i \in 0 .. Count(dst, d) - 1,
                        NEW row \in 0 .. ah - 1, NEW col \in 0 .. aw - 1, NEW z \in 0 .. d - 1,
                        StepOf(i, dst, d, row, col, z)
                 PROVE  value[i] = Promised(aktive_point(area.x + col, area.y + row), z)
      BY <1>0 DEF Means
    <2>0. i \in 0 .. ah * (aw * d) * 1 - 1
      BY <1>0, FoldedNo
    <2>1. ReadBy(src, aw, d, i) = Input(0, area.x + col, area.y + row, z)
      <3>1. Reading(i, src, dst, area, 0, aw, ah, d, row, col, z)
        BY <1>0, <1>1 DEF Reading
      <3> QED  BY <3>1, FoldedSource
    <2>2. value[i] = << "op1ac", Input(0, area.x + col, area.y + row, z), 1, 2 >>
      BY <1>2, <2>0, <2>1
    <2> QED  BY <2>2 DEF Promised, op1ac, aktive_point
  <1> QED  BY <1>0, <1>3, <1>4, FoldedServes DEF Serving

(* The constant image. *)
LEMMA FillIs ==
    ASSUME NEW b, NEW area, NEW dst, NEW w, NEW h, NEW d, NEW loc, Serving(b, area, dst, w, h, d, loc),
           operation.name = "fill",
           d = 1 \/ dst.x = 0, NEW first, NEW r, r = Pixels(b, area, dst, first)
    PROVE  BlockOf(r, loc, w, h, d) /\ Served(r, b, area, dst, w, h, d)
  <1>0. PICK aw \in Nat, ah \in Nat :
            /\ dst.width = aw /\ dst.height = ah /\ area.width = aw /\ area.height = ah
            /\ operation.depth = d /\ d \in Nat /\ b.domain.depth = d /\ InImage(area)
    BY ServingIs
  <1>1. PICK value : value = [i \in 0 .. ah * (aw * d) * 1 - 1 |->
            constant]
    OBVIOUS
  <1>2. r = Run(b, ah * (aw * d) * 1, FoldedAt(b, dst, d), value)
    <2>1. r = aktive_blit_fill(b, dst, constant)
      BY <1>0 DEF Pixels, generated
    <2> QED  BY <1>0, <1>1, <2>1 DEF aktive_blit_fill, Folded, Nest, Steps, FoldedAt
  <1>3. Means(value, area, dst, d)
    <2> SUFFICES ASSUME NEW i \in 0 .. Count(dst, d) - 1,
                        NEW row \in 0 .. ah - 1, NEW col \in 0 .. aw - 1, NEW z \in 0 .. d - 1,
                        StepOf(i, dst, d, row, col, z)
                 PROVE  value[i] = Promised(aktive_point(area.x + col, area.y + row), z)
      BY <1>0 DEF Means
    <2>1. i \in 0 .. ah * (aw * d) * 1 - 1
      BY <1>0, FoldedNo
    <2> QED  BY <1>1, <2>1 DEF Promised
  <1> QED  BY <1>0, <1>2, <1>3, FoldedServes DEF Serving

(* Those with three axes. *)
LEMMA UnarygzIs ==
    ASSUME NEW b, NEW area, NEW dst, NEW w, NEW h, NEW d, NEW loc, Serving(b, area, dst, w, h, d, loc),
           operation.name = "unarygz", NEW first, NEW r, r = Pixels(b, area, dst, first)
    PROVE  BlockOf(r, loc, w, h, d) /\ Served(r, b, area, dst, w, h, d)
  <1>0. PICK aw \in Nat, ah \in Nat :
            /\ dst.width = aw /\ dst.height = ah /\ area.width = aw /\ area.height = ah
            /\ operation.depth = d /\ d \in Nat /\ b.domain.depth = d /\ InImage(area)
    BY ServingIs
  <1>1. PICK src : src = Fetched(0, d, area)
    OBVIOUS
  <1>2. PICK value : value = [i \in 0 .. ah * aw * d - 1 |->
            << "opz", Cell(src, aktive_blit_index(src, (i \div d) % aw, i \div (aw * d), i % d)), 1, i % d >>]
    OBVIOUS
  <1>3. r = Run(b, ah * aw * d, OverAt(b, dst, 0, d), value)
    <2>1. r = aktive_blit_unarygz(b, dst, "opz", 1, src)
      BY <1>0, <1>1 DEF Pixels, lookup
    <2> QED  BY <1>0, <1>2, <2>1 DEF aktive_blit_unarygz, Over, Nest, Steps, OverAt
  <1>4. Means(value, area, dst, d)
    <2> SUFFICES ASSUME NEW i \in 0 .. Count(dst, d) - 1,
                        NEW row \in 0 .. ah - 1, NEW col \in 0 .. aw - 1, NEW z \in 0 .. d - 1,
                        StepOf(i, dst, d, row, col, z)
                 PROVE  value[i] = Promised(aktive_point(area.x + col, area.y + row), z)
      BY <1>0 DEF Means
    <2>1. i \in 0 .. ah * aw * d - 1
      BY <1>0, FoldedNo
    <2>2. value[i] = << "opz", Cell(src, aktive_blit_index(src, col, row, z)), 1, z >>
      BY <1>0, <1>2, <2>1 DEF StepOf
    <2>3. Cell(src, aktive_blit_index(src, col, row, z)) = Input(0, area.x + col, area.y + row, z)
      BY <1>0, <1>1, FetchedCell
    <2> QED  BY <2>2, <2>3 DEF Promised, opz, aktive_point
  <1> QED  BY <1>0, <1>3, <1>4, OverServes DEF Serving

(* Functions of two images: all axes of their own, if their bands differ, or
   columns and bands in one.  The first keeps the request. *)
LEMMA BinaryIs ==
    ASSUME NEW b, NEW area, NEW dst, NEW w, NEW h, NEW d, NEW loc, Serving(b, area, dst, w, h, d, loc),
           operation.name = "binary", After(0, area) = area,
           d = 1 \/ dst.x = 0, NEW first, NEW r, r = Pixels(b, area, dst, first)
    PROVE  BlockOf(r, loc, w, h, d) /\ Served(r, b, area, dst, w, h, d)
  <1>0. PICK aw \in Nat, ah \in Nat :
            /\ dst.width = aw /\ dst.height = ah /\ area.width = aw /\ area.height = ah
            /\ operation.depth = d /\ d \in Nat /\ b.domain.depth = d /\ InImage(area)
    BY ServingIs
  <1>1. PICK src, two : src = Fetched(0, d, area) /\ two = Fetched(1, d, area)
    OBVIOUS
  <1>2. PICK value : value = [i \in 0 .. ah * (aw * d) * 1 - 1 |->
            << "op2", ReadBy(src, aw, d, i), ReadBy(two, aw, d, i) >>]
    OBVIOUS
  <1>3. r = Run(b, ah * (aw * d) * 1, FoldedAt(b, dst, d), value)
    <2>1. r = binary(b, area, dst)
      BY DEF Pixels
    <2>2. src.domain.depth = d /\ two.domain.depth = d
      BY <1>1, FetchedDepth
    <2>3. r = binary_folded(b, dst, "op2", src, two)
      BY <1>0, <1>1, <2>1, <2>2 DEF binary
    <2> QED  BY <1>0, <1>2, <2>3 DEF binary_folded, ReadBy, Folded, Nest, Steps, FoldedAt
  <1>4. Means(value, area, dst, d)
    <2> SUFFICES ASSUME NEW i \in 0 .. Count(dst, d) - 1,
                        NEW row \in 0 .. ah - 1, NEW col \in 0 .. aw - 1, NEW z \in 0 .. d - 1,
                        StepOf(i, dst, d, row, col, z)
                 PROVE  value[i] = Promised(aktive_point(area.x + col, area.y + row), z)
      BY <1>0 DEF Means
    <2>0. i \in 0 .. ah * (aw * d) * 1 - 1
      BY <1>0, FoldedNo
    <2>1. /\ ReadBy(src, aw, d, i) = Input(0, area.x + col, area.y + row, z)
          /\ ReadBy(two, aw, d, i) = Input(1, area.x + col, area.y + row, z)
      <3>1. /\ Reading(i, src, dst, area, 0, aw, ah, d, row, col, z)
            /\ Reading(i, two, dst, area, 1, aw, ah, d, row, col, z)
        BY <1>0, <1>1 DEF Reading
      <3> QED  BY <3>1, FoldedSource
    <2>2. value[i] = << "op2", Input(0, area.x + col, area.y + row, z), Input(1, area.x + col, area.y + row, z) >>
      BY <1>2, <2>0, <2>1
    <2> QED  BY <2>2 DEF Promised, op2, aktive_point
  <1> QED  BY <1>0, <1>3, <1>4, FoldedServes DEF Serving

LEMMA BinaryDeeperIs ==
    ASSUME NEW b, NEW area, NEW dst, NEW w, NEW h, NEW d, NEW loc, Serving(b, area, dst, w, h, d, loc),
           operation.name = "binary_deeper", After(0, area) = area, NEW first, NEW r, r = Pixels(b, area, dst, first)
    PROVE  BlockOf(r, loc, w, h, d) /\ Served(r, b, area, dst, w, h, d)
  <1>0. PICK aw \in Nat, ah \in Nat :
            /\ dst.width = aw /\ dst.height = ah /\ area.width = aw /\ area.height = ah
            /\ operation.depth = d /\ d \in Nat /\ b.domain.depth = d /\ InImage(area)
    BY ServingIs
  <1>1. PICK src, two : src = Fetched(0, d, area) /\ two = Fetched(1, d + 1, area)
    OBVIOUS
  <1>2. PICK value : value = [i \in 0 .. ah * aw * d - 1 |->
            << "op2", Cell(src, aktive_blit_index(src, (i \div d) % aw, i \div (aw * d), i % d)),
              Cell(two, aktive_blit_index(two, (i \div d) % aw, i \div (aw * d), i % d)) >>]
    OBVIOUS
  <1>3. r = Run(b, ah * aw * d, OverAt(b, dst, 0, d), value)
    <2>1. r = binary(b, area, dst)
      BY DEF Pixels
    <2>2. two.domain.depth # b.domain.depth
      BY <1>0, <1>1, FetchedDepth
    <2>3. r = aktive_blit_binary(b, dst, "op2", src, two)
      BY <1>0, <1>1, <2>1, <2>2 DEF binary
    <2> QED  BY <1>0, <1>2, <2>3 DEF aktive_blit_binary, Over, Nest, Steps, OverAt
  <1>4. Means(value, area, dst, d)
    <2> SUFFICES ASSUME NEW i \in 0 .. Count(dst, d) - 1,
                        NEW row \in 0 .. ah - 1, NEW col \in 0 .. aw - 1, NEW z \in 0 .. d - 1,
                        StepOf(i, dst, d, row, col, z)
                 PROVE  value[i] = Promised(aktive_point(area.x + col, area.y + row), z)
      BY <1>0 DEF Means
    <2>1. i \in 0 .. ah * aw * d - 1
      BY <1>0, FoldedNo
    <2>2. value[i] = << "op2", Cell(src, aktive_blit_index(src, col, row, z)), Cell(two, aktive_blit_index(two, col, row, z)) >>
      BY <1>0, <1>2, <2>1 DEF StepOf
    <2>3. /\ Cell(src, aktive_blit_index(src, col, row, z)) = Input(0, area.x + col, area.y + row, z)
          /\ Cell(two, aktive_blit_index(two, col, row, z)) = Input(1, area.x + col, area.y + row, z)
      BY <1>0, <1>1, FetchedCell
    <2> QED  BY <2>2, <2>3 DEF Promised, op2, aktive_point
  <1> QED  BY <1>0, <1>3, <1>4, OverServes DEF Serving

(* The image of constant bands. *)
LEMMA FillBandsIs ==
    ASSUME NEW b, NEW area, NEW dst, NEW w, NEW h, NEW d, NEW loc, Serving(b, area, dst, w, h, d, loc),
           operation.name = "fill_bands", NEW first, NEW r, r = Pixels(b, area, dst, first)
    PROVE  BlockOf(r, loc, w, h, d) /\ Served(r, b, area, dst, w, h, d)
  <1>0. PICK aw \in Nat, ah \in Nat :
            /\ dst.width = aw /\ dst.height = ah /\ area.width = aw /\ area.height = ah
            /\ operation.depth = d /\ d \in Nat /\ b.domain.depth = d /\ InImage(area)
    BY ServingIs
  <1>1. PICK value : value = [i \in 0 .. ah * aw * d - 1 |->
            Vector(d)[(i % d) + 1]]
    OBVIOUS
  <1>2. r = Run(b, ah * aw * d, OverAt(b, dst, 0, d), value)
    <2>1. r = aktive_blit_fill_bands(b, dst, Vector(d))
      BY <1>0 DEF Pixels, generated
    <2> QED  BY <1>0, <1>1, <2>1 DEF aktive_blit_fill_bands, Over, Nest, Steps, OverAt
  <1>3. Means(value, area, dst, d)
    <2> SUFFICES ASSUME NEW i \in 0 .. Count(dst, d) - 1,
                        NEW row \in 0 .. ah - 1, NEW col \in 0 .. aw - 1, NEW z \in 0 .. d - 1,
                        StepOf(i, dst, d, row, col, z)
                 PROVE  value[i] = Promised(aktive_point(area.x + col, area.y + row), z)
      BY <1>0 DEF Means
    <2>1. i \in 0 .. ah * aw * d - 1
      BY <1>0, FoldedNo
    <2>2. value[i] = Vector(d)[z + 1]
      BY <1>0, <1>1, <2>1 DEF StepOf
    <2> QED  BY <1>0, <2>2 DEF Promised
  <1> QED  BY <1>0, <1>2, <1>3, OverServes DEF Serving

(* Complex images: functions of one, of two, and those to one band. *)
LEMMA CunaryIs ==
    ASSUME NEW b, NEW area, NEW dst, NEW w, NEW h, NEW d, NEW loc, Serving(b, area, dst, w, h, d, loc),
           operation.name = "cunary",
           d = 2, NEW first, NEW r, r = Pixels(b, area, dst, first)
    PROVE  BlockOf(r, loc, w, h, d) /\ Served(r, b, area, dst, w, h, d)
  <1>0. PICK aw \in Nat, ah \in Nat :
            /\ dst.width = aw /\ dst.height = ah /\ area.width = aw /\ area.height = ah
            /\ operation.depth = d /\ d \in Nat /\ b.domain.depth = d /\ InImage(area)
    BY ServingIs
  <1>1. PICK src : src = Fetched(0, 2, area)
    OBVIOUS
  <1>2. PICK value : value = [i \in 0 .. ah * aw * d - 1 |->
            Part(i % d, << "op1", Complex(src, (i \div d) % aw, i \div (aw * d)) >>)]
    OBVIOUS
  <1>3. r = Run(b, ah * aw * d, OverAt(b, dst, 0, d), value)
    <2>1. r = aktive_blit_cunary(b, dst, "op1", src)
      BY <1>0, <1>1 DEF Pixels, cunary
    <2> QED  BY <1>0, <1>2, <2>1 DEF aktive_blit_cunary, Over, Nest, Steps, OverAt
  <1>4. Means(value, area, dst, d)
    <2> SUFFICES ASSUME NEW i \in 0 .. Count(dst, d) - 1,
                        NEW row \in 0 .. ah - 1, NEW col \in 0 .. aw - 1, NEW z \in 0 .. d - 1,
                        StepOf(i, dst, d, row, col, z)
                 PROVE  value[i] = Promised(aktive_point(area.x + col, area.y + row), z)
      BY <1>0 DEF Means
    <2>1. i \in 0 .. ah * aw * d - 1
      BY <1>0, FoldedNo
    <2>2. value[i] = Part(z, << "op1", Complex(src, col, row) >>)
      BY <1>0, <1>2, <2>1 DEF StepOf
    <2>3. /\ Cell(src, aktive_blit_index(src, col, row, 0)) = Input(0, area.x + col, area.y + row, 0)
          /\ Cell(src, aktive_blit_index(src, col, row, 1)) = Input(0, area.x + col, area.y + row, 1)
      BY <1>0, <1>1, FetchedCell
    <2> QED  BY <2>2, <2>3 DEF Promised, op1, Complex, aktive_point
  <1> QED  BY <1>0, <1>3, <1>4, OverServes DEF Serving

LEMMA CbinaryIs ==
    ASSUME NEW b, NEW area, NEW dst, NEW w, NEW h, NEW d, NEW loc, Serving(b, area, dst, w, h, d, loc),
           operation.name = "cbinary", After(0, area) = area, After(1, area) = area,
           d = 2, NEW first \in {0, 1}, NEW r, r = Pixels(b, area, dst, first)
    PROVE  BlockOf(r, loc, w, h, d) /\ Served(r, b, area, dst, w, h, d)
  <1>0. PICK aw \in Nat, ah \in Nat :
            /\ dst.width = aw /\ dst.height = ah /\ area.width = aw /\ area.height = ah
            /\ operation.depth = d /\ d \in Nat /\ b.domain.depth = d /\ InImage(area)
    BY ServingIs
  <1>1. PICK src, two : src = Fetched(0, 2, area) /\ two = Fetched(1, 2, area)
    OBVIOUS
  <1>2. PICK value : value = [i \in 0 .. ah * aw * d - 1 |->
            Part(i % d, << "op2", Complex(src, (i \div d) % aw, i \div (aw * d)), Complex(two, (i \div d) % aw, i \div (aw * d)) >>)]
    OBVIOUS
  <1>3. r = Run(b, ah * aw * d, OverAt(b, dst, 0, d), value)
    <2>1. r = aktive_blit_cbinary(b, dst, "op2", src, two)
      <3>1. \A i \in {0, 1} : (IF i = first THEN area ELSE After(first, area)) = area
        OBVIOUS
      <3>2. r = cbinary(b, area, dst, first)
        BY DEF Pixels
      <3> QED  BY <1>1, <3>1, <3>2 DEF cbinary
    <2> QED  BY <1>0, <1>2, <2>1 DEF aktive_blit_cbinary, Over, Nest, Steps, OverAt
  <1>4. Means(value, area, dst, d)
    <2> SUFFICES ASSUME NEW i \in 0 .. Count(dst, d) - 1,
                        NEW row \in 0 .. ah - 1, NEW col \in 0 .. aw - 1, NEW z \in 0 .. d - 1,
                        StepOf(i, dst, d, row, col, z)
                 PROVE  value[i] = Promised(aktive_point(area.x + col, area.y + row), z)
      BY <1>0 DEF Means
    <2>1. i \in 0 .. ah * aw * d - 1
      BY <1>0, FoldedNo
    <2>2. value[i] = Part(z, << "op2", Complex(src, col, row), Complex(two, col, row) >>)
      BY <1>0, <1>2, <2>1 DEF StepOf
    <2>3. /\ Cell(src, aktive_blit_index(src, col, row, 0)) = Input(0, area.x + col, area.y + row, 0)
          /\ Cell(src, aktive_blit_index(src, col, row, 1)) = Input(0, area.x + col, area.y + row, 1)
          /\ Cell(two, aktive_blit_index(two, col, row, 0)) = Input(1, area.x + col, area.y + row, 0)
          /\ Cell(two, aktive_blit_index(two, col, row, 1)) = Input(1, area.x + col, area.y + row, 1)
      BY <1>0, <1>1, FetchedCell
    <2> QED  BY <2>2, <2>3 DEF Promised, op2, Complex, aktive_point
  <1> QED  BY <1>0, <1>3, <1>4, OverServes DEF Serving

LEMMA CreduceIs ==
    ASSUME NEW b, NEW area, NEW dst, NEW w, NEW h, NEW d, NEW loc, Serving(b, area, dst, w, h, d, loc),
           operation.name = "creduce",
           d = 1, NEW first, NEW r, r = Pixels(b, area, dst, first)
    PROVE  BlockOf(r, loc, w, h, d) /\ Served(r, b, area, dst, w, h, d)
  <1>0. PICK aw \in Nat, ah \in Nat :
            /\ dst.width = aw /\ dst.height = ah /\ area.width = aw /\ area.height = ah
            /\ operation.depth = d /\ d \in Nat /\ b.domain.depth = d /\ InImage(area)
    BY ServingIs
  <1>1. PICK src : src = Fetched(0, 2, area)
    OBVIOUS
  <1>2. PICK value : value = [i \in 0 .. ah * aw * d - 1 |->
            << "op1", Complex(src, (i \div d) % aw, i \div (aw * d)) >>]
    OBVIOUS
  <1>3. r = Run(b, ah * aw * d, OverAt(b, dst, 0, d), value)
    <2>1. r = aktive_blit_creduce(b, dst, "op1", src)
      BY <1>0, <1>1 DEF Pixels, creduce
    <2> QED  BY <1>0, <1>2, <2>1 DEF aktive_blit_creduce, Over, Nest, Steps, OverAt
  <1>4. Means(value, area, dst, d)
    <2> SUFFICES ASSUME NEW i \in 0 .. Count(dst, d) - 1,
                        NEW row \in 0 .. ah - 1, NEW col \in 0 .. aw - 1, NEW z \in 0 .. d - 1,
                        StepOf(i, dst, d, row, col, z)
                 PROVE  value[i] = Promised(aktive_point(area.x + col, area.y + row), z)
      BY <1>0 DEF Means
    <2>1. i \in 0 .. ah * aw * d - 1
      BY <1>0, FoldedNo
    <2>2. value[i] = << "op1", Complex(src, col, row) >>
      BY <1>0, <1>2, <2>1 DEF StepOf
    <2>3. /\ Cell(src, aktive_blit_index(src, col, row, 0)) = Input(0, area.x + col, area.y + row, 0)
          /\ Cell(src, aktive_blit_index(src, col, row, 1)) = Input(0, area.x + col, area.y + row, 1)
      BY <1>0, <1>1, FetchedCell
    <2> QED  BY <2>2, <2>3 DEF Promised, op1, Complex, aktive_point
  <1> QED  BY <1>0, <1>3, <1>4, OverServes DEF Serving

(* The step at a position of the area. *)
LEMMA StepThere ==
    ASSUME NEW w, NEW h, NEW d, NEW a, NEW first, NEW k, InBlock(a, first, k, w, h, d),
           NEW x \in 0 .. w - 1, NEW y \in 0 .. h - 1, NEW z \in 0 .. d - 1, Hit(a, first, k, x, y, z)
    PROVE  \E i \in 0 .. Count(a, k) - 1, row \in 0 .. a.height - 1, col \in 0 .. a.width - 1, t \in 0 .. k - 1 :
               /\ row = y - a.y /\ col = x - a.x /\ t = z - first
               /\ StepOf(i, a, k, row, col, t)
               /\ i = StepNo(a, first, k, x, y, z)
  <1>1. PICK i : i = StepNo(a, first, k, x, y, z)
    OBVIOUS
  <1>2. /\ i \in 0 .. Count(a, k) - 1
        /\ (i \div k) % a.width = x - a.x /\ i \div (a.width * k) = y - a.y /\ i % k = z - first
        /\ x - a.x \in 0 .. a.width - 1 /\ y - a.y \in 0 .. a.height - 1 /\ z - first \in 0 .. k - 1
    BY <1>1, StepTo
  <1>3. PICK row \in 0 .. a.height - 1, col \in 0 .. a.width - 1, t \in 0 .. k - 1 :
            row = y - a.y /\ col = x - a.x /\ t = z - first
    BY <1>2
  <1>4. StepOf(i, a, k, row, col, t)
    BY <1>2, <1>3 DEF StepOf
  <1> QED  BY <1>1, <1>2, <1>3, <1>4

(* The selection of bands, of a request that lies inside of the image. *)
LEMMA BandsIs ==
    ASSUME NEW b, NEW area, NEW dst, NEW w, NEW h, NEW d, NEW loc, Serving(b, area, dst, w, h, d, loc),
           operation.name = "bands", dst.width = w, dst.height = h, NEW first, NEW r, r = Pixels(b, area, dst, first)
    PROVE  BlockOf(r, loc, w, h, d) /\ Served(r, b, area, dst, w, h, d)
  <1>0. PICK aw \in Nat, ah \in Nat :
            /\ dst.width = aw /\ dst.height = ah /\ area.width = aw /\ area.height = ah
            /\ operation.depth = d /\ d \in Nat /\ b.domain.depth = d /\ InImage(area)
    BY ServingIs
  <1>1. PICK src, all : src = Fetched(0, d + 1, area) /\ all = aktive_rectangle(dst.x, dst.y, w, h)
    OBVIOUS
  <1>2. PICK value : value = [i \in 0 .. ah * aw * d - 1 |->
            Cell(src, aktive_blit_index(src, (i \div d) % aw, i \div (aw * d), 1 + (i % d)))]
    OBVIOUS
  <1>3. r = Run(b, ah * aw * d, OverAt(b, dst, 0, d), value)
    <2>1. r = aktive_blit_copy0_bands(b, dst, src, 1, d)
      BY <1>0, <1>1 DEF Pixels, select_bands
    <2>2. b.domain.width = aw /\ b.domain.height = ah
      BY <1>0 DEF Serving, BlockOf, Frame, Dims
    <2>3. all.x = dst.x /\ all.y = dst.y /\ all.width = aw /\ all.height = ah
      BY <1>0, <1>1 DEF aktive_rectangle
    <2>4. r = Over(b, all, 0, d, LAMBDA row, col, z : Cell(src, aktive_blit_index(src, col, row, 1 + z)))
      BY <1>0, <1>1, <2>1, <2>2 DEF aktive_blit_copy0_bands
    <2> QED  BY <1>0, <1>2, <2>3, <2>4 DEF Over, Nest, Steps, OverAt
  <1>4. Means(value, area, dst, d)
    <2> SUFFICES ASSUME NEW i \in 0 .. Count(dst, d) - 1,
                        NEW row \in 0 .. ah - 1, NEW col \in 0 .. aw - 1, NEW z \in 0 .. d - 1,
                        StepOf(i, dst, d, row, col, z)
                 PROVE  value[i] = Promised(aktive_point(area.x + col, area.y + row), z)
      BY <1>0 DEF Means
    <2>1. i \in 0 .. ah * aw * d - 1
      BY <1>0, FoldedNo
    <2>2. value[i] = Cell(src, aktive_blit_index(src, col, row, 1 + z))
      BY <1>0, <1>2, <2>1 DEF StepOf
    <2>3. PICK t \in 0 .. (d + 1) - 1 : t = 1 + z /\ t = z + 1
      BY <1>0
    <2>4. Cell(src, aktive_blit_index(src, col, row, t)) = Input(0, area.x + col, area.y + row, t)
      BY <1>0, <1>1, FetchedCell
    <2> QED  BY <2>2, <2>3, <2>4 DEF Promised, aktive_point
  <1> QED  BY <1>0, <1>3, <1>4, OverServes DEF Serving

(* One band after the other: the copy of an input of one band into one of two. *)
LEMMA BandIs ==
    ASSUME NEW b, NEW area, NEW dst, NEW w, NEW h, NEW d, NEW loc, Serving(b, area, dst, w, h, d, loc),
           NEW first \in 0 .. d - 1, NEW n, NEW src, src = Fetched(n, 1, area),
           NEW r, r = aktive_blit_copy0_bands_to(b, dst, src, first)
    PROVE  /\ BlockOf(r, loc, w, h, d)
           /\ \A x \in 0 .. w - 1, y \in 0 .. h - 1, z \in 0 .. d - 1 :
                  Cell(r, Pos(w, d, x, y, z)) =
                      IF InArea(dst, x, y) /\ z = first
                      THEN Input(n, area.x + (x - dst.x), area.y + (y - dst.y), 0)
                      ELSE Cell(b, Pos(w, d, x, y, z))
  <1>0. PICK aw \in Nat, ah \in Nat :
            /\ dst.width = aw /\ dst.height = ah /\ area.width = aw /\ area.height = ah
            /\ operation.depth = d /\ d \in Nat /\ b.domain.depth = d /\ InImage(area)
    BY ServingIs
  <1>1. PICK value : value = [i \in 0 .. ah * aw * 1 - 1 |->
            Cell(src, aktive_blit_index(src, (i \div 1) % aw, i \div (aw * 1), i % 1))]
    OBVIOUS
  <1>2. r = Run(b, ah * aw * 1, OverAt(b, dst, first, 1), value)
    <2>1. src.domain.depth = 1
      BY FetchedDepth
    <2> QED  BY <1>0, <1>1, <2>1 DEF aktive_blit_copy0_bands_to, Over, Nest, Steps, OverAt
  <1>3. InBlock(dst, first, 1, w, h, d) /\ BlockOf(b, loc, w, h, d)
    BY <1>0 DEF Serving, InBlock
  <1>4. BlockOf(r, loc, w, h, d) /\ AreaDone(r, b, dst, first, 1, w, h, d, value)
    BY <1>0, <1>2, <1>3, OverIs
  <1>5. ASSUME NEW x \in 0 .. w - 1, NEW y \in 0 .. h - 1, NEW z \in 0 .. d - 1
        PROVE  Cell(r, Pos(w, d, x, y, z)) =
                      IF InArea(dst, x, y) /\ z = first
                      THEN Input(n, area.x + (x - dst.x), area.y + (y - dst.y), 0)
                      ELSE Cell(b, Pos(w, d, x, y, z))
    <2>1. Hit(dst, first, 1, x, y, z) <=> InArea(dst, x, y) /\ z = first
      BY <1>0 DEF Hit
    <2>2. CASE Hit(dst, first, 1, x, y, z)
      <3>1. PICK i \in 0 .. Count(dst, 1) - 1, row \in 0 .. ah - 1, col \in 0 .. aw - 1, t \in 0 .. 1 - 1 :
                /\ row = y - dst.y /\ col = x - dst.x
                /\ StepOf(i, dst, 1, row, col, t)
                /\ i = StepNo(dst, first, 1, x, y, z)
        BY <1>0, <1>3, <2>2, StepThere
      <3>2. i \in 0 .. ah * aw * 1 - 1
        BY <1>0, <3>1, FoldedNo
      <3>3. value[i] = Cell(src, aktive_blit_index(src, col, row, t))
        BY <1>0, <1>1, <3>1, <3>2 DEF StepOf
      <3>4. Cell(src, aktive_blit_index(src, col, row, t)) = Input(n, area.x + col, area.y + row, t)
        BY <1>0, FetchedCell
      <3>5. t = 0
        OBVIOUS
      <3> QED  BY <1>4, <2>1, <2>2, <3>1, <3>3, <3>4, <3>5 DEF AreaDone
    <2> QED  BY <1>4, <2>1, <2>2 DEF AreaDone
  <1> QED  BY <1>4, <1>5

(* The montage of bands: one input after the other. *)
LEMMA ZmontageIs ==
    ASSUME NEW b, NEW area, NEW dst, NEW w, NEW h, NEW d, NEW loc, Serving(b, area, dst, w, h, d, loc),
           operation.name = "zmontage", d = 2, NEW first, NEW r, r = Pixels(b, area, dst, first)
    PROVE  BlockOf(r, loc, w, h, d) /\ Served(r, b, area, dst, w, h, d)
  <1>1. PICK src, two, one : /\ src = Fetched(0, 1, area) /\ two = Fetched(1, 1, area)
                             /\ one = aktive_blit_copy0_bands_to(b, dst, src, 0)
    OBVIOUS
  <1>2. r = aktive_blit_copy0_bands_to(one, dst, two, 1)
    BY <1>1 DEF Pixels, zmontage
  <1>3. /\ BlockOf(one, loc, w, h, d)
        /\ \A x \in 0 .. w - 1, y \in 0 .. h - 1, z \in 0 .. d - 1 :
               Cell(one, Pos(w, d, x, y, z)) =
                   IF InArea(dst, x, y) /\ z = 0
                   THEN Input(0, area.x + (x - dst.x), area.y + (y - dst.y), 0)
                   ELSE Cell(b, Pos(w, d, x, y, z))
    <2>1. 0 \in 0 .. d - 1
      OBVIOUS
    <2> QED  BY <1>1, <2>1, BandIs
  <1>4. Serving(one, area, dst, w, h, d, loc)
    BY <1>3 DEF Serving
  <1>5. /\ BlockOf(r, loc, w, h, d)
        /\ \A x \in 0 .. w - 1, y \in 0 .. h - 1, z \in 0 .. d - 1 :
               Cell(r, Pos(w, d, x, y, z)) =
                   IF InArea(dst, x, y) /\ z = 1
                   THEN Input(1, area.x + (x - dst.x), area.y + (y - dst.y), 0)
                   ELSE Cell(one, Pos(w, d, x, y, z))
    <2>1. 1 \in 0 .. d - 1
      OBVIOUS
    <2> QED  BY <1>1, <1>2, <1>4, <2>1, BandIs
  <1>6. \A z \in 0 .. d - 1 : z = 0 \/ z = 1
    OBVIOUS
  <1>7. \A p, z : Promised(p, z) = Input(z, p.x, p.y, 0)
    BY DEF Promised
  <1> QED  BY <1>3, <1>5, <1>6, <1>7 DEF Served, aktive_point

(* The copy of an input. *)
LEMMA Copy0Is ==
    ASSUME NEW b, NEW area, NEW dst, NEW w, NEW h, NEW d, NEW loc, Serving(b, area, dst, w, h, d, loc),
           NEW n, NEW src, src = Fetched(n, d, area), NEW r, r = aktive_blit_copy0(b, dst, src)
    PROVE  /\ BlockOf(r, loc, w, h, d)
           /\ \A x \in 0 .. w - 1, y \in 0 .. h - 1, z \in 0 .. d - 1 :
                  Cell(r, Pos(w, d, x, y, z)) =
                      IF InArea(dst, x, y) THEN Input(n, area.x + (x - dst.x), area.y + (y - dst.y), z)
                      ELSE Cell(b, Pos(w, d, x, y, z))
  <1>0. PICK aw \in Nat, ah \in Nat :
            /\ dst.width = aw /\ dst.height = ah /\ area.width = aw /\ area.height = ah
            /\ operation.depth = d /\ d \in Nat /\ b.domain.depth = d /\ InImage(area)
    BY ServingIs
  <1>1. PICK value : value = [i \in 0 .. ah * aw * d - 1 |->
            Cell(src, aktive_blit_index(src, (i \div d) % aw, i \div (aw * d), i % d))]
    OBVIOUS
  <1>2. r = Run(b, ah * aw * d, OverAt(b, dst, 0, d), value)
    BY <1>0, <1>1 DEF aktive_blit_copy0, Over, Nest, Steps, OverAt
  <1>3. InBlock(dst, 0, d, w, h, d) /\ BlockOf(b, loc, w, h, d)
    BY DEF Serving
  <1>4. BlockOf(r, loc, w, h, d) /\ AreaDone(r, b, dst, 0, d, w, h, d, value)
    BY <1>0, <1>2, <1>3, OverIs
  <1>5. ASSUME NEW x \in 0 .. w - 1, NEW y \in 0 .. h - 1, NEW z \in 0 .. d - 1
        PROVE  Cell(r, Pos(w, d, x, y, z)) =
                      IF InArea(dst, x, y) THEN Input(n, area.x + (x - dst.x), area.y + (y - dst.y), z)
                      ELSE Cell(b, Pos(w, d, x, y, z))
    <2>1. Hit(dst, 0, d, x, y, z) <=> InArea(dst, x, y)
      BY <1>0 DEF Hit
    <2>2. CASE Hit(dst, 0, d, x, y, z)
      <3>1. PICK i \in 0 .. Count(dst, d) - 1, row \in 0 .. ah - 1, col \in 0 .. aw - 1, t \in 0 .. d - 1 :
                /\ row = y - dst.y /\ col = x - dst.x /\ t = z - 0
                /\ StepOf(i, dst, d, row, col, t)
                /\ i = StepNo(dst, 0, d, x, y, z)
        BY <1>0, <1>3, <2>2, StepThere
      <3>2. i \in 0 .. ah * aw * d - 1
        <4>1. aw \in Nat /\ ah \in Nat /\ d \in Nat /\ dst.width = aw /\ dst.height = ah
          BY <1>0, Zenon
        <4>2. i \in 0 .. Count(dst, d) - 1 /\ StepOf(i, dst, d, row, col, t)
          BY <3>1, Zenon
        <4> QED  BY <4>1, <4>2, FoldedNo, Zenon
      <3>3. value[i] = Cell(src, aktive_blit_index(src, col, row, t))
        BY <1>0, <1>1, <3>1, <3>2 DEF StepOf
      <3>4. Cell(src, aktive_blit_index(src, col, row, t)) = Input(n, area.x + col, area.y + row, t)
        <4>1. d \in Nat /\ area.width = aw /\ area.height = ah /\ InImage(area)
          BY <1>0
        <4> QED  BY ONLY aw \in Nat, ah \in Nat, row \in 0 .. ah - 1, col \in 0 .. aw - 1, t \in 0 .. d - 1,
                         src = Fetched(n, d, area), <4>1, FetchedCell
      <3>5. t = z
        BY <1>0, <3>1
      <3> QED  BY <1>4, <2>1, <2>2, <3>1, <3>3, <3>4, <3>5 DEF AreaDone
    <2> QED  BY <1>4, <2>1, <2>2 DEF AreaDone
  <1> QED  BY <1>4, <1>5

(* The identity, and the part of an input in a montage of one band. *)
LEMMA IdentityIs ==
    ASSUME NEW b, NEW area, NEW dst, NEW w, NEW h, NEW d, NEW loc, Serving(b, area, dst, w, h, d, loc),
           \/ operation.name = "identity"
           \/ operation.name = "montage" /\ d = 1,
           NEW first, NEW r, r = Pixels(b, area, dst, first)
    PROVE  BlockOf(r, loc, w, h, d) /\ Served(r, b, area, dst, w, h, d)
  <1>1. PICK src : src = Fetched(0, d, area)
    OBVIOUS
  <1>2. r = aktive_blit_copy0(b, dst, src)
    BY <1>1, ServingIs DEF Pixels, identity, montage
  <1>3. /\ BlockOf(r, loc, w, h, d)
        /\ \A x \in 0 .. w - 1, y \in 0 .. h - 1, z \in 0 .. d - 1 :
               Cell(r, Pos(w, d, x, y, z)) =
                   IF InArea(dst, x, y) THEN Input(0, area.x + (x - dst.x), area.y + (y - dst.y), z)
                   ELSE Cell(b, Pos(w, d, x, y, z))
    BY <1>1, <1>2, Copy0Is
  <1>4. \A p : \A z \in 0 .. d - 1 : Promised(p, z) = Input(0, p.x, p.y, z)
    BY DEF Promised
  <1> QED  BY <1>3, <1>4 DEF Served, aktive_point

(* The accumulation, in an area at the beginning of the block. *)
LEMMA AccServes ==
    ASSUME NEW b, NEW area, NEW dst, NEW w, NEW h, NEW d, NEW loc, Serving(b, area, dst, w, h, d, loc),
           dst.x = 0, dst.y = 0,
           NEW op, NEW n, NEW src, src = Fetched(n, d, area), NEW r, r = aktive_blit_binary_acc(b, dst, op, src)
    PROVE  /\ BlockOf(r, loc, w, h, d)
           /\ \A x \in 0 .. w - 1, y \in 0 .. h - 1, z \in 0 .. d - 1 :
                  Cell(r, Pos(w, d, x, y, z)) =
                      IF InArea(dst, x, y)
                      THEN << op, Cell(b, Pos(w, d, x, y, z)),
                              Input(n, area.x + (x - dst.x), area.y + (y - dst.y), z) >>
                      ELSE Cell(b, Pos(w, d, x, y, z))
  <1>0. PICK aw \in Nat, ah \in Nat :
            /\ dst.width = aw /\ dst.height = ah /\ area.width = aw /\ area.height = ah
            /\ operation.depth = d /\ d \in Nat /\ b.domain.depth = d /\ InImage(area)
    BY ServingIs
  <1>0a. PICK k \in Nat : k = ah * aw * d
    <2>1. ah * aw \in Nat
      OBVIOUS
    <2>2. ah * aw * d \in Nat
      BY <1>0, <2>1
    <2> QED  BY <2>2
  <1>1. PICK at, from, arg :
            /\ at = [i \in 0 .. ah * aw * d - 1 |->
                        aktive_blit_index(b, dst.x + ((i \div d) % aw), dst.y + (i \div (aw * d)), i % d)]
            /\ from = [i \in 0 .. ah * aw * d - 1 |->
                        aktive_blit_index(b, (i \div d) % aw, i \div (aw * d), i % d)]
            /\ arg = [i \in 0 .. ah * aw * d - 1 |->
                        Cell(src, aktive_blit_index(src, (i \div d) % aw, i \div (aw * d), i % d))]
    OBVIOUS
  <1>2. PICK f : f = (CHOOSE g : IsAcc(g, b, at, op, from, arg, k)) /\ IsAcc(f, b, at, op, from, arg, k)
    BY AccExists
  <1>3. r = f[k]
    BY <1>0, <1>0a, <1>1, <1>2 DEF aktive_blit_binary_acc, Steps, IsAcc
  <1>4. InBlock(dst, 0, d, w, h, d) /\ BlockOf(b, loc, w, h, d) /\ Count(dst, d) = k
    BY <1>0, <1>0a DEF Serving, Count, Size
  <1>5. ASSUME NEW i \in 0 .. k - 1
        PROVE  /\ at[i] = Pos(w, d, dst.x + ((i \div d) % aw), dst.y + (i \div (aw * d)), 0 + (i % d))
               /\ from[i] = at[i]
    <2>1. PICK u \in 0 .. aw - 1, v \in 0 .. ah - 1, t \in 0 .. d - 1 :
              u = (i \div d) % aw /\ v = i \div (aw * d) /\ t = i % d
      <3>1. i \in 0 .. Size(aw, ah, d) - 1
        BY <1>0a DEF Size
      <3>2. (i \div d) % aw \in 0 .. aw - 1 /\ i \div (aw * d) \in 0 .. ah - 1 /\ i % d \in 0 .. d - 1
        BY <1>0, <3>1, PosOnto
      <3> QED  BY <3>2
    <2>2. 0 + u = u /\ 0 + v = v /\ 0 + t = t
      BY <1>0
    <2>3. i \in 0 .. ah * aw * d - 1
      BY <1>0a
    <2>4. at[i] = aktive_blit_index(b, dst.x + u, dst.y + v, t) /\ from[i] = aktive_blit_index(b, u, v, t)
      BY <1>1, <2>1, <2>3
    <2>5. /\ aktive_blit_index(b, dst.x + u, dst.y + v, t) = Pos(w, d, dst.x + u, dst.y + v, t)
      BY <1>4, IndexIs
    <2> QED  BY <2>1, <2>2, <2>4, <2>5
  <1>6. GoesOver(at, dst, 0, d, w, d)
    BY <1>0, <1>4, <1>5 DEF GoesOver
  <1>7. PICK value : value = [i \in 0 .. k - 1 |-> << op, Cell(b, at[i]), arg[i] >>]
    OBVIOUS
  <1>8. /\ \A i \in 0 .. k - 1 : at[i] \in 0 .. Size(w, h, d) - 1
        /\ \A i, j \in 0 .. k - 1 : at[i] = at[j] => i = j
    BY <1>4, <1>6, AreaSteps
  <1>9. RunDone(r, b, loc, Dims(w, h, d), Size(w, h, d), k, at, value)
    <2>1. Frame(b, loc, Dims(w, h, d), Size(w, h, d)) /\ Size(w, h, d) \in Nat
      BY <1>4 DEF BlockOf, InBlock, Size
    <2>2. \A i \in 0 .. k - 1 : from[i] = at[i]
      BY <1>5
    <2> QED  BY <1>2, <1>3, <1>7, <1>8, <2>1, <2>2, AccIs
  <1>10. AreaDone(r, b, dst, 0, d, w, h, d, value)
    BY <1>4, <1>6, <1>9, AreaIs
  <1>11. BlockOf(r, loc, w, h, d)
    BY <1>9 DEF BlockOf, RunDone
  <1>12. ASSUME NEW x \in 0 .. w - 1, NEW y \in 0 .. h - 1, NEW z \in 0 .. d - 1
         PROVE  Cell(r, Pos(w, d, x, y, z)) =
                      IF InArea(dst, x, y)
                      THEN << op, Cell(b, Pos(w, d, x, y, z)),
                              Input(n, area.x + (x - dst.x), area.y + (y - dst.y), z) >>
                      ELSE Cell(b, Pos(w, d, x, y, z))
    <2>1. Hit(dst, 0, d, x, y, z) <=> InArea(dst, x, y)
      BY <1>0 DEF Hit
    <2>2. CASE Hit(dst, 0, d, x, y, z)
      <3>1. PICK i \in 0 .. Count(dst, d) - 1, row \in 0 .. ah - 1, col \in 0 .. aw - 1, t \in 0 .. d - 1 :
                /\ row = y - dst.y /\ col = x - dst.x /\ t = z - 0
                /\ StepOf(i, dst, d, row, col, t)
                /\ i = StepNo(dst, 0, d, x, y, z)
        BY <1>0, <1>4, <2>2, StepThere
      <3>2. t = z
        BY <1>0, <3>1
      <3>3. arg[i] = Cell(src, aktive_blit_index(src, col, row, t))
        <4>1. i \in 0 .. ah * aw * d - 1
          BY <1>0a, <1>4
        <4> QED  BY <1>0, <1>1, <3>1, <4>1 DEF StepOf
      <3>4. Cell(src, aktive_blit_index(src, col, row, t)) = Input(n, area.x + col, area.y + row, t)
        <4>1. d \in Nat /\ area.width = aw /\ area.height = ah /\ InImage(area)
          BY <1>0
        <4> QED  BY ONLY aw \in Nat, ah \in Nat, row \in 0 .. ah - 1, col \in 0 .. aw - 1, t \in 0 .. d - 1,
                         src = Fetched(n, d, area), <4>1, FetchedCell
      <3>5. at[i] = Pos(w, d, x, y, z)
        <4>1. StepAt(i, dst, 0, d, x, y, z)
          BY <1>4, <2>2, <3>1, StepTo
        <4> QED  BY <1>6, <4>1, GoesTo
      <3>6. value[i] = << op, Cell(b, Pos(w, d, x, y, z)), Input(n, area.x + col, area.y + row, z) >>
        BY <1>4, <1>7, <3>2, <3>3, <3>4, <3>5
      <3> QED  BY <1>10, <2>1, <2>2, <3>1, <3>6 DEF AreaDone
    <2> QED  BY <1>10, <2>1, <2>2 DEF AreaDone
  <1> QED  BY <1>11, <1>12

(* The accumulation of three images, at the beginning of the block. *)
LEMMA NaryIs ==
    ASSUME NEW b, NEW area, NEW dst, NEW w, NEW h, NEW d, NEW loc, Serving(b, area, dst, w, h, d, loc),
           operation.name = "nary", After(0, area) = area, After(1, area) = area, dst.x = 0, dst.y = 0, NEW first, NEW r, r = Pixels(b, area, dst, first)
    PROVE  BlockOf(r, loc, w, h, d) /\ Served(r, b, area, dst, w, h, d)
  <1>1. PICK one, two : /\ one = aktive_blit_copy0(b, dst, Fetched(0, d, area))
                        /\ two = aktive_blit_binary_acc(one, dst, "op2", Fetched(1, d, area))
    OBVIOUS
  <1>2. r = aktive_blit_binary_acc(two, dst, "op2", Fetched(2, d, area))
    BY <1>1, ServingIs DEF Pixels, nary
  <1>3. /\ BlockOf(one, loc, w, h, d)
        /\ \A x \in 0 .. w - 1, y \in 0 .. h - 1, z \in 0 .. d - 1 :
               Cell(one, Pos(w, d, x, y, z)) =
                   IF InArea(dst, x, y) THEN Input(0, area.x + (x - dst.x), area.y + (y - dst.y), z)
                   ELSE Cell(b, Pos(w, d, x, y, z))
    BY <1>1, Copy0Is
  <1>4. Serving(one, area, dst, w, h, d, loc)
    BY <1>3 DEF Serving
  <1>5. /\ BlockOf(two, loc, w, h, d)
        /\ \A x \in 0 .. w - 1, y \in 0 .. h - 1, z \in 0 .. d - 1 :
               Cell(two, Pos(w, d, x, y, z)) =
                   IF InArea(dst, x, y)
                   THEN << "op2", Cell(one, Pos(w, d, x, y, z)),
                           Input(1, area.x + (x - dst.x), area.y + (y - dst.y), z) >>
                   ELSE Cell(one, Pos(w, d, x, y, z))
    BY <1>1, <1>4, AccServes
  <1>6. Serving(two, area, dst, w, h, d, loc)
    BY <1>5 DEF Serving
  <1>7. /\ BlockOf(r, loc, w, h, d)
        /\ \A x \in 0 .. w - 1, y \in 0 .. h - 1, z \in 0 .. d - 1 :
               Cell(r, Pos(w, d, x, y, z)) =
                   IF InArea(dst, x, y)
                   THEN << "op2", Cell(two, Pos(w, d, x, y, z)),
                           Input(2, area.x + (x - dst.x), area.y + (y - dst.y), z) >>
                   ELSE Cell(two, Pos(w, d, x, y, z))
    BY <1>2, <1>6, AccServes
  <1>8. \A p, z : Promised(p, z) = << "op2", << "op2", Input(0, p.x, p.y, z), Input(1, p.x, p.y, z) >>,
                                      Input(2, p.x, p.y, z) >>
    BY DEF Promised, op2
  <1> QED  BY <1>3, <1>5, <1>7, <1>8 DEF Served, aktive_point

(* What the loops over rows of an image of one band go to. *)
RowsAt(dst, a) ==
    [i \in 0 .. a.height * a.width * 1 - 1 |->
        (a.y + (i \div (a.width * 1))) * dst.domain.width + a.x + ((i \div 1) % a.width)]

(* These are the cells of the area. *)
LEMMA RowsAre ==
    ASSUME NEW w, NEW h, NEW a, InBlock(a, 0, 1, w, h, 1), NEW loc, NEW b, BlockOf(b, loc, w, h, 1)
    PROVE  RowsAt(b, a) = OverAt(b, a, 0, 1)
  <1>0. PICK aw \in Nat, ah \in Nat, ax \in Nat, ay \in Nat :
            a.width = aw /\ a.height = ah /\ a.x = ax /\ a.y = ay
    BY DEF InBlock, Within
  <1>1. w \in Nat /\ h \in Nat /\ b.domain.width = w
    BY DEF InBlock, BlockOf, Frame, Dims
  <1>2. ASSUME NEW i \in 0 .. ah * aw * 1 - 1
        PROVE  (ay + (i \div (aw * 1))) * w + ax + ((i \div 1) % aw)
                   = aktive_blit_index(b, ax + ((i \div 1) % aw), ay + (i \div (aw * 1)), 0 + (i % 1))
    <2>1. i \in 0 .. Size(aw, ah, 1) - 1
      BY DEF Size
    <2>2. PICK col \in 0 .. aw - 1, row \in 0 .. ah - 1, z \in 0 .. 1 - 1 :
              col = (i \div 1) % aw /\ row = i \div (aw * 1) /\ z = i % 1
      <3>1. (i \div 1) % aw \in 0 .. aw - 1 /\ i \div (aw * 1) \in 0 .. ah - 1 /\ i % 1 \in 0 .. 1 - 1
        <4>1. 1 \in Nat
          OBVIOUS
        <4> QED  BY <2>1, <4>1, PosOnto
      <3> QED  BY <3>1
    <2>3. aktive_blit_index(b, ax + col, ay + row, 0 + z) = Pos(w, 1, ax + col, ay + row, 0 + z)
      BY IndexIs
    <2>4. Pos(w, 1, ax + col, ay + row, 0 + z) = (ay + row) * w + ax + col
      <3>1. PICK p \in Nat : p = (ay + row) * w
        BY <1>1
      <3>2. w * 1 = w /\ (ax + col) * 1 = ax + col /\ 0 + z = 0
        BY <1>1
      <3> QED  BY <3>1, <3>2 DEF Pos
    <2> QED  BY <2>2, <2>3, <2>4
  <1> QED  BY <1>0, <1>1, <1>2 DEF RowsAt, OverAt

(* The images of equal rows and of equal columns. *)
LEMMA FillRowsIs ==
    ASSUME NEW b, NEW area, NEW dst, NEW w, NEW h, NEW d, NEW loc, Serving(b, area, dst, w, h, d, loc),
           operation.name = "fill_rows", d = 1,
           domain.x \in Int, area.x \in Int, domain.width \in Nat,
           domain.x <= area.x, area.x + area.width <= domain.x + domain.width,
           NEW first, NEW r, r = Pixels(b, area, dst, first)
    PROVE  BlockOf(r, loc, w, h, d) /\ Served(r, b, area, dst, w, h, d)
  <1>0. PICK aw \in Nat, ah \in Nat :
            /\ dst.width = aw /\ dst.height = ah /\ area.width = aw /\ area.height = ah
            /\ operation.depth = d /\ d \in Nat /\ b.domain.depth = d /\ InImage(area)
    BY ServingIs
  <1>1. PICK n, from, v :
            n \in Nat /\ from \in Nat /\ n = domain.width /\ from = area.x - domain.x /\ v = Vector(n)
    OBVIOUS
  <1>2. PICK value : value = [i \in 0 .. ah * aw * 1 - 1 |->
            IF from + ((i \div 1) % aw) \in 0 .. Len(v) - 1 THEN v[from + ((i \div 1) % aw) + 1] ELSE Beyond]
    OBVIOUS
  <1>3. InBlock(dst, 0, 1, w, h, 1) /\ BlockOf(b, loc, w, h, 1)
    BY DEF Serving
  <1>4. r = Run(b, ah * aw * 1, OverAt(b, dst, 0, 1), value)
    <2>1. r = aktive_blit_fill_rows(b, dst, from, v)
      BY <1>1 DEF Pixels, generated, Moved, aktive_rectangle
    <2>2. r = Run(b, ah * aw * 1, RowsAt(b, dst), value)
      BY <1>0, <1>2, <2>1 DEF aktive_blit_fill_rows, Nest, Steps, RowsAt
    <2> QED  BY <1>0, <1>3, <2>2, RowsAre
  <1>5. Means(value, area, dst, 1)
    <2> SUFFICES ASSUME NEW i \in 0 .. Count(dst, 1) - 1,
                        NEW row \in 0 .. ah - 1, NEW col \in 0 .. aw - 1, NEW z \in 0 .. 1 - 1,
                        StepOf(i, dst, 1, row, col, z)
                 PROVE  value[i] = Promised(aktive_point(area.x + col, area.y + row), z)
      BY <1>0 DEF Means
    <2>1. i \in 0 .. ah * aw * 1 - 1
      BY <1>0, FoldedNo
    <2>2. value[i] = IF from + col \in 0 .. Len(v) - 1 THEN v[from + col + 1] ELSE Beyond
      BY <1>0, <1>2, <2>1 DEF StepOf
    <2>3. Len(v) = n
      <3>1. n \in Nat
        BY <1>1
      <3>2. Vector(n) \in Seq({<< "value", k >> : k \in 1 .. n}) /\ DOMAIN Vector(n) = 1 .. n
        BY <3>1 DEF Vector
      <3> QED  BY <1>1, <3>2
    <2>4. from + col \in 0 .. n - 1
      BY <1>0, <1>1
    <2>5. from + col + 1 = (area.x + col) - domain.x + 1
      BY <1>1
    <2> QED  BY <1>1, <2>2, <2>3, <2>4, <2>5 DEF Promised, aktive_point
  <1> QED  BY <1>3, <1>4, <1>5, <1>0, OverServes

LEMMA FillColumnsIs ==
    ASSUME NEW b, NEW area, NEW dst, NEW w, NEW h, NEW d, NEW loc, Serving(b, area, dst, w, h, d, loc),
           operation.name = "fill_columns", d = 1,
           domain.y \in Int, area.y \in Int, domain.height \in Nat,
           domain.y <= area.y, area.y + area.height <= domain.y + domain.height,
           NEW first, NEW r, r = Pixels(b, area, dst, first)
    PROVE  BlockOf(r, loc, w, h, d) /\ Served(r, b, area, dst, w, h, d)
  <1>0. PICK aw \in Nat, ah \in Nat :
            /\ dst.width = aw /\ dst.height = ah /\ area.width = aw /\ area.height = ah
            /\ operation.depth = d /\ d \in Nat /\ b.domain.depth = d /\ InImage(area)
    BY ServingIs
  <1>1. PICK n, from, v :
            n \in Nat /\ from \in Nat /\ n = domain.height /\ from = area.y - domain.y /\ v = Vector(n)
    OBVIOUS
  <1>2. PICK value : value = [i \in 0 .. ah * aw * 1 - 1 |->
            IF from + (i \div (aw * 1)) \in 0 .. Len(v) - 1 THEN v[from + (i \div (aw * 1)) + 1] ELSE Beyond]
    OBVIOUS
  <1>3. InBlock(dst, 0, 1, w, h, 1) /\ BlockOf(b, loc, w, h, 1)
    BY DEF Serving
  <1>4. r = Run(b, ah * aw * 1, OverAt(b, dst, 0, 1), value)
    <2>1. r = aktive_blit_fill_columns(b, dst, from, v)
      BY <1>1 DEF Pixels, generated, Moved, aktive_rectangle
    <2>2. r = Run(b, ah * aw * 1, RowsAt(b, dst), value)
      BY <1>0, <1>2, <2>1 DEF aktive_blit_fill_columns, Nest, Steps, RowsAt
    <2> QED  BY <1>0, <1>3, <2>2, RowsAre
  <1>5. Means(value, area, dst, 1)
    <2> SUFFICES ASSUME NEW i \in 0 .. Count(dst, 1) - 1,
                        NEW row \in 0 .. ah - 1, NEW col \in 0 .. aw - 1, NEW z \in 0 .. 1 - 1,
                        StepOf(i, dst, 1, row, col, z)
                 PROVE  value[i] = Promised(aktive_point(area.x + col, area.y + row), z)
      BY <1>0 DEF Means
    <2>1. i \in 0 .. ah * aw * 1 - 1
      BY <1>0, FoldedNo
    <2>2. value[i] = IF from + row \in 0 .. Len(v) - 1 THEN v[from + row + 1] ELSE Beyond
      BY <1>0, <1>2, <2>1 DEF StepOf
    <2>3. Len(v) = n
      <3>1. n \in Nat
        BY <1>1
      <3>2. Vector(n) \in Seq({<< "value", k >> : k \in 1 .. n}) /\ DOMAIN Vector(n) = 1 .. n
        BY <3>1 DEF Vector
      <3> QED  BY <1>1, <3>2
    <2>4. from + row \in 0 .. n - 1
      BY <1>0, <1>1
    <2>5. from + row + 1 = (area.y + row) - domain.y + 1
      BY <1>1
    <2> QED  BY <1>1, <2>2, <2>3, <2>4, <2>5 DEF Promised, aktive_point
  <1> QED  BY <1>3, <1>4, <1>5, <1>0, OverServes

(* The memory that the cache of an image is put into, row by row. *)
MemoryRow(b, dom, d, n) ==
    aktive_pixels(b, aktive_point(dom.x, dom.y), Fetched(0, d, aktive_rectangle(dom.x, dom.y + n, dom.width, 1)))

(* The recursive function of aktive_op_ocache. *)
IsMemory(f, dom, d, n) ==
    f = [k \in 0 .. n |-> IF k = 0 THEN aktive_blit_setup(aktive_block(d), dom)
                ELSE MemoryRow(f[k - 1], dom, d, k - 1)]

(* There is such a function. *)
LEMMA MemoryExists ==
    ASSUME NEW dom, NEW d, NEW n \in Nat
    PROVE  \E f : IsMemory(f, dom, d, n)
  <1> DEFINE E == {m \in Nat : \E f : IsMemory(f, dom, d, m)}
  <1>1. 0 \in E
    <2>1. PICK f : f = [k \in 0 .. 0 |-> aktive_blit_setup(aktive_block(d), dom)]
      OBVIOUS
    <2>2. \A k \in 0 .. 0 : k = 0
      OBVIOUS
    <2>3. IsMemory(f, dom, d, 0)
      BY <2>1, <2>2 DEF IsMemory
    <2> QED  BY <2>3
  <1>2. ASSUME NEW m \in Nat, m \in E PROVE m + 1 \in E
    <2>1. PICK f : IsMemory(f, dom, d, m)
      BY <1>2
    <2>2. PICK last : last = MemoryRow(f[m], dom, d, m)
      OBVIOUS
    <2>3. PICK g : g = [k \in 0 .. m + 1 |-> IF k <= m THEN f[k] ELSE last]
      OBVIOUS
    <2>4. \A k \in 0 .. m : g[k] = f[k]
      BY <2>3
    <2>5. \A k \in 0 .. m : f[k] = IF k = 0 THEN aktive_blit_setup(aktive_block(d), dom)
                ELSE MemoryRow(f[k - 1], dom, d, k - 1)
      BY <2>1 DEF IsMemory
    <2>6. ASSUME NEW k \in 0 .. m + 1
          PROVE  g[k] = IF k = 0 THEN aktive_blit_setup(aktive_block(d), dom)
                      ELSE MemoryRow(g[k - 1], dom, d, k - 1)
      <3>1. CASE k = 0
        <4>1. 0 \in 0 .. m
          OBVIOUS
        <4>2. g[0] = f[0] /\ f[0] = aktive_blit_setup(aktive_block(d), dom)
          BY <2>4, <2>5, <4>1
        <4> QED  BY <3>1, <4>2
      <3>2. CASE k \in 1 .. m
        <4>1. k \in 0 .. m /\ k - 1 \in 0 .. m /\ k # 0
          BY <3>2
        <4>2. g[k] = f[k] /\ g[k - 1] = f[k - 1]
          BY <2>4, <4>1
        <4>3. f[k] = MemoryRow(f[k - 1], dom, d, k - 1)
          BY <2>5, <4>1
        <4> QED  BY <4>1, <4>2, <4>3
      <3>3. CASE k = m + 1
        <4>1. k \in 0 .. m + 1 /\ ~ (k <= m) /\ k - 1 = m /\ k # 0 /\ m \in 0 .. m
          BY <3>3
        <4>2. g[k] = last /\ g[m] = f[m]
          BY <2>3, <2>4, <4>1
        <4> QED  BY <2>2, <3>3, <4>1, <4>2
      <3> QED  BY <3>1, <3>2, <3>3
    <2>7. g = [k \in 0 .. m + 1 |-> g[k]]
      BY <2>3
    <2>8. g = [k \in 0 .. m + 1 |-> IF k = 0 THEN aktive_blit_setup(aktive_block(d), dom)
                ELSE MemoryRow(g[k - 1], dom, d, k - 1)]
      BY <2>6, <2>7
    <2>9. IsMemory(g, dom, d, m + 1)
      BY <2>8 DEF IsMemory
    <2> QED  BY <2>9
  <1>3. \A m \in Nat : m \in E
    <2> HIDE DEF E
    <2> QED  BY <1>1, <1>2, SetInduction
  <1> QED  BY <1>3

(* A memory of the size of dom, one of its rows, and that row put there. *)
RowFits(b, dom, loc, w, h, d, n) ==
    /\ w \in Nat /\ h \in Nat /\ d \in Nat /\ operation.depth = d /\ n \in 0 .. h - 1
    /\ dom.x \in Int /\ dom.y \in Int /\ dom.width = w /\ BlockOf(b, loc, w, h, d)
    /\ domain.x = dom.x /\ domain.y = dom.y /\ domain.width = w /\ domain.height = h

RowPut(r, b, dom, w, h, d, n) ==
    \A x \in 0 .. w - 1, y \in 0 .. h - 1, z \in 0 .. d - 1 :
        Cell(r, Pos(w, d, x, y, z)) =
            IF y = n THEN Input(0, dom.x + x, dom.y + y, z) ELSE Cell(b, Pos(w, d, x, y, z))

(* A row goes to its place and touches no other. *)
LEMMA MemoryRowIs ==
    ASSUME NEW b, NEW dom, NEW loc, NEW w, NEW h, NEW d, NEW n, RowFits(b, dom, loc, w, h, d, n),
           NEW r, r = MemoryRow(b, dom, d, n)
    PROVE  BlockOf(r, loc, w, h, d) /\ RowPut(r, b, dom, w, h, d, n)
  <1>0. /\ w \in Nat /\ h \in Nat /\ d \in Nat /\ operation.depth = d /\ n \in 0 .. h - 1
        /\ dom.x \in Int /\ dom.y \in Int /\ dom.width = w /\ BlockOf(b, loc, w, h, d)
        /\ domain.x = dom.x /\ domain.y = dom.y /\ domain.width = w /\ domain.height = h
    BY DEF RowFits
  <1>1. PICK area, dst, src : /\ area = aktive_rectangle(dom.x, dom.y + n, w, 1)
                              /\ dst = aktive_rectangle(0, n, w, 1)
                              /\ src = Fetched(0, d, area)
    OBVIOUS
  <1>2. area.x = dom.x /\ area.y = dom.y + n /\ area.width = w /\ area.height = 1
    BY <1>0, <1>1 DEF aktive_rectangle
  <1>3. dst.x = 0 /\ dst.y = n /\ dst.width = w /\ dst.height = 1
    BY <1>1 DEF aktive_rectangle
  <1>4. r = aktive_blit_copy0(b, dst, src)
    <2>1. src.location.x = dom.x /\ src.location.y = dom.y + n /\ src.domain.width = w /\ src.domain.height = 1
      BY <1>1, <1>2 DEF Fetched, aktive_block, aktive_point
    <2>2. dom.x - dom.x = 0 /\ (dom.y + n) - dom.y = n
      BY <1>0
    <2> QED  BY <1>0, <1>1, <2>1, <2>2 DEF MemoryRow, aktive_pixels, aktive_point
  <1>5. Serving(b, area, dst, w, h, d, loc)
    <2>1. InImage(area)
      BY <1>0, <1>2 DEF InImage
    <2> QED  BY <1>0, <1>2, <1>3, <2>1 DEF Serving, InBlock, Within, Fit
  <1>6. /\ BlockOf(r, loc, w, h, d)
        /\ \A x \in 0 .. w - 1, y \in 0 .. h - 1, z \in 0 .. d - 1 :
               Cell(r, Pos(w, d, x, y, z)) =
                   IF InArea(dst, x, y) THEN Input(0, area.x + (x - dst.x), area.y + (y - dst.y), z)
                   ELSE Cell(b, Pos(w, d, x, y, z))
    BY <1>0, <1>1, <1>4, <1>5, Copy0Is
  <1>7. ASSUME NEW x \in 0 .. w - 1, NEW y \in 0 .. h - 1
        PROVE  /\ InArea(dst, x, y) <=> y = n
               /\ y = n => area.x + (x - dst.x) = dom.x + x /\ area.y + (y - dst.y) = dom.y + y
    BY <1>0, <1>2, <1>3 DEF InArea
  <1> QED  BY <1>6, <1>7 DEF RowPut

(* So the memory holds the image. *)
LEMMA MemoryIs ==
    ASSUME NEW w \in Nat, NEW h \in Nat, NEW d \in Nat, operation.depth = d,
           domain.x \in Int, domain.y \in Int, domain.width = w, domain.height = h,
           NEW r, r = aktive_op_ocache(d)
    PROVE  /\ \E loc : BlockOf(r, loc, w, h, d)
           /\ \A x \in 0 .. w - 1, y \in 0 .. h - 1, z \in 0 .. d - 1 :
                  Cell(r, Pos(w, d, x, y, z)) = Input(0, domain.x + x, domain.y + y, z)
  <1>1. PICK f : f = (CHOOSE g : IsMemory(g, domain, d, h)) /\ IsMemory(f, domain, d, h)
    BY MemoryExists
  <1>2. r = f[h]
    BY <1>1 DEF aktive_op_ocache, IsMemory, MemoryRow
  <1>3. \A m \in 0 .. h : f[m] = IF m = 0 THEN aktive_blit_setup(aktive_block(d), domain)
                                 ELSE MemoryRow(f[m - 1], domain, d, m - 1)
    BY <1>1 DEF IsMemory
  <1>4. PICK loc : loc = aktive_point(domain.x, domain.y)
    OBVIOUS
  <1> DEFINE P(m) == /\ BlockOf(f[m], loc, w, h, d)
                     /\ \A x \in 0 .. w - 1, y \in 0 .. h - 1, z \in 0 .. d - 1 :
                            y < m => Cell(f[m], Pos(w, d, x, y, z)) = Input(0, domain.x + x, domain.y + y, z)
             E == {m \in Nat : m <= h => P(m)}
  <1>5. 0 \in E
    <2>1. f[0] = aktive_blit_setup(aktive_block(d), domain)
      BY <1>3
    <2>2. BlockOf(f[0], loc, w, h, d)
      <3>1. PICK dom, b0, r0 : dom = domain /\ b0 = aktive_block(d) /\ r0 = f[0]
        OBVIOUS
      <3>2. 0 \in Nat /\ dom.width = w /\ dom.height = h /\ r0 = aktive_blit_setup(b0, dom)
        BY <2>1, <3>1
      <3>3. BlockOf(r0, aktive_point(dom.x, dom.y), w, h, d)
        BY <3>1, <3>2, SetupIs
      <3> QED  BY <1>4, <3>1, <3>3
    <2> QED  BY <2>2
  <1>6. ASSUME NEW m \in Nat, m \in E PROVE m + 1 \in E
    <2> SUFFICES ASSUME m + 1 <= h PROVE P(m + 1)
      OBVIOUS
    <2>1. m \in 0 .. h - 1 /\ P(m)
      BY <1>6
    <2>2. f[m + 1] = MemoryRow(f[m], domain, d, m)
      <3>1. m + 1 \in 0 .. h /\ m + 1 # 0 /\ (m + 1) - 1 = m
        OBVIOUS
      <3> QED  BY <1>3, <3>1
    <2>3. /\ BlockOf(f[m + 1], loc, w, h, d)
          /\ \A x \in 0 .. w - 1, y \in 0 .. h - 1, z \in 0 .. d - 1 :
                 Cell(f[m + 1], Pos(w, d, x, y, z)) =
                     IF y = m THEN Input(0, domain.x + x, domain.y + y, z) ELSE Cell(f[m], Pos(w, d, x, y, z))
      <3>1. PICK dom, b0, r0 : dom = domain /\ b0 = f[m] /\ r0 = f[m + 1]
        OBVIOUS
      <3>2. /\ dom.x \in Int /\ dom.y \in Int /\ dom.width = w
            /\ BlockOf(b0, loc, w, h, d) /\ r0 = MemoryRow(b0, dom, d, m)
        BY <2>1, <2>2, <3>1
      <3>3. BlockOf(r0, loc, w, h, d) /\ RowPut(r0, b0, dom, w, h, d, m)
        <4>1. RowFits(b0, dom, loc, w, h, d, m)
          BY <2>1, <3>1, <3>2 DEF RowFits
        <4> QED  BY <3>2, <4>1, MemoryRowIs
      <3> QED  BY <3>1, <3>3 DEF RowPut
    <2>4. ASSUME NEW x \in 0 .. w - 1, NEW y \in 0 .. h - 1, NEW z \in 0 .. d - 1, y < m + 1
          PROVE  Cell(f[m + 1], Pos(w, d, x, y, z)) = Input(0, domain.x + x, domain.y + y, z)
      <3>1. y = m \/ y < m
        BY <2>4
      <3> QED  BY <2>1, <2>3, <3>1
    <2> QED  BY <2>3, <2>4
  <1>7. \A m \in Nat : m \in E
    <2> HIDE DEF E
    <2> QED  BY <1>5, <1>6, SetInduction
  <1>8. P(h)
    BY <1>7
  <1>9. \A y \in 0 .. h - 1 : y < h
    OBVIOUS
  <1> QED  BY <1>2, <1>8, <1>9

(* Where a step of a loop with two axes reads the memory. *)
Foldable(w, d, x, y, col, z) ==
    w \in Nat /\ d \in Nat /\ x \in Nat /\ y \in Nat /\ col \in Nat /\ z \in Nat /\ (d = 1 \/ x = 0)

(* The cell that the loop reads, and the one it should. *)
ReadAt(w, d, x, y, col, z) == y * (w * d) + x + (col * d + z)

PlainRead(w, d, x, y, col, z) == Pos(w, d, x + col, y, z)

(* They are the same then. *)
LEMMA FoldedRead ==
    ASSUME NEW w, NEW d, NEW x, NEW y, NEW col, NEW z, Foldable(w, d, x, y, col, z)
    PROVE  ReadAt(w, d, x, y, col, z) = PlainRead(w, d, x, y, col, z)
  <1>1. PICK m \in Nat, n \in Nat, e \in Nat, a \in Nat, c \in Nat :
            m = w * d /\ n = y * m /\ e = d /\ a = x /\ c = col /\ (e = 1 \/ a = 0)
    <2>1. w * d \in Nat
      BY DEF Foldable
    <2>2. y * (w * d) \in Nat
      BY <2>1 DEF Foldable
    <2> QED  BY <2>1, <2>2 DEF Foldable
  <1>2. a + c * e = (a + c) * e
    <2>1. a * e = a
      BY <1>1
    <2>2. (a + c) * e = a * e + c * e
      OBVIOUS
    <2> QED  BY <2>1, <2>2
  <1>3. c * e \in Nat /\ z \in Nat
    BY DEF Foldable
  <1> QED  BY <1>1, <1>2, <1>3 DEF Pos, ReadAt, PlainRead

(* So what is read of the cache is what was put there. *)
LEMMA CacheIs ==
    ASSUME NEW b, NEW area, NEW dst, NEW w, NEW h, NEW d, NEW loc, Serving(b, area, dst, w, h, d, loc),
           operation.name = "cache", domain.x = 0, domain.y = 0, domain.width \in Nat, domain.height \in Nat,
           Within(area, domain.width, domain.height), d = 1 \/ (dst.x = 0 /\ area.x = 0),
           NEW first, NEW r, r = Pixels(b, area, dst, first)
    PROVE  BlockOf(r, loc, w, h, d) /\ Served(r, b, area, dst, w, h, d)
  <1>0. PICK aw \in Nat, ah \in Nat :
            /\ dst.width = aw /\ dst.height = ah /\ area.width = aw /\ area.height = ah
            /\ operation.depth = d /\ d \in Nat /\ b.domain.depth = d /\ InImage(area)
    BY ServingIs
  <1>1. PICK u, v, ax, ay, src :
            /\ u \in Nat /\ v \in Nat /\ ax \in Nat /\ ay \in Nat
            /\ u = domain.width /\ v = domain.height /\ ax = area.x /\ ay = area.y
            /\ ax + aw <= u /\ ay + ah <= v
            /\ src = aktive_op_ocache(d)
    BY <1>0 DEF Within
  <1>2. /\ pitch(src) = u * d
        /\ \A x \in 0 .. u - 1, y \in 0 .. v - 1, z \in 0 .. d - 1 :
               Cell(src, Pos(u, d, x, y, z)) = Input(0, x, y, z)
    <2>1. /\ \E l : BlockOf(src, l, u, v, d)
          /\ \A x \in 0 .. u - 1, y \in 0 .. v - 1, z \in 0 .. d - 1 :
                 Cell(src, Pos(u, d, x, y, z)) = Input(0, domain.x + x, domain.y + y, z)
      BY <1>0, <1>1, MemoryIs
    <2>2. pitch(src) = u * d
      BY <2>1 DEF BlockOf, Frame, Dims, pitch
    <2>3. \A x \in 0 .. u - 1, y \in 0 .. v - 1 : domain.x + x = x /\ domain.y + y = y
      OBVIOUS
    <2> QED  BY <2>1, <2>2, <2>3
  <1>3. PICK value : value = [i \in 0 .. ah * (aw * d) * 1 - 1 |->
            Cell(src, (ay + (i \div (aw * d * 1))) * pitch(src) + ax + ((i \div 1) % (aw * d)))]
    OBVIOUS
  <1>4. r = Run(b, ah * (aw * d) * 1, FoldedAt(b, dst, d), value)
    <2>1. r = aktive_blit_copy(b, dst, src, aktive_point(ax, ay))
      BY <1>0, <1>1 DEF Pixels, cached
    <2>2. aktive_point(ax, ay).x = ax /\ aktive_point(ax, ay).y = ay
      BY DEF aktive_point
    <2> QED  BY <1>0, <1>3, <2>1, <2>2 DEF aktive_blit_copy, Folded, Nest, Steps, FoldedAt
  <1>5. Means(value, area, dst, d)
    <2> SUFFICES ASSUME NEW i \in 0 .. Count(dst, d) - 1,
                        NEW row \in 0 .. ah - 1, NEW col \in 0 .. aw - 1, NEW z \in 0 .. d - 1,
                        StepOf(i, dst, d, row, col, z)
                 PROVE  value[i] = Promised(aktive_point(area.x + col, area.y + row), z)
      BY <1>0 DEF Means
    <2>1. /\ i \in 0 .. ah * (aw * d) * 1 - 1
          /\ i \div (aw * d * 1) = row /\ (i \div 1) % (aw * d) = col * d + z
      <3>1. d \in Nat /\ dst.width = aw /\ dst.height = ah
        BY <1>0
      <3> QED  BY <3>1, FoldedNo
    <2>2. value[i] = Cell(src, ReadAt(u, d, ax, ay + row, col, z))
      BY <1>2, <1>3, <2>1 DEF ReadAt
    <2>3. ReadAt(u, d, ax, ay + row, col, z) = Pos(u, d, ax + col, ay + row, z)
      <3>1. Foldable(u, d, ax, ay + row, col, z)
        BY <1>0, <1>1 DEF Foldable
      <3>2. ReadAt(u, d, ax, ay + row, col, z) = PlainRead(u, d, ax, ay + row, col, z)
        BY <3>1, FoldedRead
      <3> QED  BY <3>2 DEF PlainRead
    <2>4. ax + col \in 0 .. u - 1 /\ ay + row \in 0 .. v - 1
      BY <1>1
    <2>5. value[i] = Input(0, ax + col, ay + row, z)
      BY <1>2, <2>2, <2>3, <2>4
    <2> QED  BY <1>1, <2>5 DEF Promised, aktive_point
  <1>6. d = 1 \/ dst.x = 0
    OBVIOUS
  <1> QED  BY <1>0, <1>4, <1>5, <1>6, FoldedServes DEF Serving

(* The memory of a matrix of u times v values. *)
LEMMA MatrixCell ==
    ASSUME NEW u \in Nat, NEW v \in Nat, domain.width = u, domain.height = v,
           NEW src, src = matrix_setup,
           NEW x \in 0 .. u - 1, NEW y \in 0 .. v - 1
    PROVE  /\ pitch(src) = u
           /\ Cell(src, Pos(u, 1, x, y, 0)) = MatrixValue(y * u + x + 1)
  <1>1. PICK p, n : p = Pos(u, 1, x, y, 0) /\ n = u * v /\ n \in Nat
    OBVIOUS
  <1>2. p \in 0 .. Size(u, v, 1) - 1
    <2>1. 0 \in 0 .. 1 - 1
      OBVIOUS
    <2> QED  BY <1>1, <2>1, PosInside
  <1>3. v * u * 1 = n /\ u * v * 1 = n
    BY <1>1
  <1>4. p \in 0 .. n - 1
    BY <1>2, <1>3 DEF Size
  <1>5. /\ src.domain.width = u /\ src.domain.depth = 1 /\ src.used = n
        /\ src.pixel = [k \in 1 .. n |-> MatrixValue(k)]
    BY <1>1, <1>3 DEF matrix_setup, aktive_blit_setup, aktive_block
  <1>6. Cell(src, p) = MatrixValue(p + 1)
    <2>1. p + 1 \in 1 .. n
      BY <1>1, <1>4
    <2> QED  BY <1>4, <1>5, <2>1 DEF Cell, Inside
  <1>7. p = y * u + x
    <2>1. u * 1 = u /\ x * 1 = x
      OBVIOUS
    <2>2. p = y * u + x + 0
      BY <1>1, <2>1 DEF Pos
    <2> QED  BY <2>2
  <1>8. pitch(src) = u
    BY <1>5 DEF pitch
  <1> QED  BY <1>1, <1>6, <1>7, <1>8

(* The matrix is read at the place of the area in it. *)
LEMMA MatrixIs ==
    ASSUME NEW b, NEW area, NEW dst, NEW w, NEW h, NEW d, NEW loc, Serving(b, area, dst, w, h, d, loc),
           operation.name = "matrix", d = 1, NEW first, NEW r, r = Pixels(b, area, dst, first)
    PROVE  BlockOf(r, loc, w, h, d) /\ Served(r, b, area, dst, w, h, d)
  <1>0. PICK aw \in Nat, ah \in Nat :
            /\ dst.width = aw /\ dst.height = ah /\ area.width = aw /\ area.height = ah
            /\ operation.depth = d /\ d \in Nat /\ b.domain.depth = d /\ InImage(area)
    BY ServingIs
  <1>1. PICK u, v, ax, ay, src :
            /\ u \in Nat /\ v \in Nat /\ ax \in Nat /\ ay \in Nat
            /\ u = domain.width /\ v = domain.height /\ ax = area.x - domain.x /\ ay = area.y - domain.y
            /\ ax + aw <= u /\ ay + ah <= v
            /\ src = matrix_setup
    BY <1>0 DEF InImage
  <1>2. PICK value : value = [i \in 0 .. ah * (aw * d) * 1 - 1 |->
            Cell(src, (ay + (i \div (aw * d * 1))) * pitch(src) + ax + ((i \div 1) % (aw * d)))]
    OBVIOUS
  <1>3. r = Run(b, ah * (aw * d) * 1, FoldedAt(b, dst, d), value)
    <2>1. Moved("matrix", area).x = ax /\ Moved("matrix", area).y = ay
      BY <1>1 DEF Moved, aktive_rectangle
    <2>2. r = generated(b, area, dst)
      BY DEF Pixels
    <2>3. r = aktive_blit_copy(b, dst, src, aktive_point(ax, ay))
      BY <1>1, <2>1, <2>2 DEF generated
    <2>4. aktive_point(ax, ay).x = ax /\ aktive_point(ax, ay).y = ay
      BY DEF aktive_point
    <2> QED  BY <1>0, <1>2, <2>3, <2>4 DEF aktive_blit_copy, Folded, Nest, Steps, FoldedAt
  <1>4. Means(value, area, dst, d)
    <2> SUFFICES ASSUME NEW i \in 0 .. Count(dst, d) - 1,
                        NEW row \in 0 .. ah - 1, NEW col \in 0 .. aw - 1, NEW z \in 0 .. d - 1,
                        StepOf(i, dst, d, row, col, z)
                 PROVE  value[i] = Promised(aktive_point(area.x + col, area.y + row), z)
      BY <1>0 DEF Means
    <2>1. /\ i \in 0 .. ah * (aw * d) * 1 - 1
          /\ i \div (aw * d * 1) = row /\ (i \div 1) % (aw * d) = col * d + z
      <3>1. d \in Nat /\ dst.width = aw /\ dst.height = ah
        BY <1>0
      <3> QED  BY <3>1, FoldedNo
    <2>2. PICK x \in 0 .. u - 1, y \in 0 .. v - 1 : x = ax + col /\ y = ay + row
      <3>1. u \in Nat /\ v \in Nat /\ ax \in Nat /\ ay \in Nat /\ ax + aw <= u /\ ay + ah <= v
        BY <1>1
      <3>2. ax + col \in 0 .. u - 1
        BY <3>1
      <3>3. ay + row \in 0 .. v - 1
        BY <3>1
      <3> QED  BY <3>2, <3>3
    <2>3. pitch(src) = u /\ Cell(src, Pos(u, 1, x, y, 0)) = MatrixValue(y * u + x + 1)
      BY <1>1, MatrixCell
    <2>4. value[i] = Cell(src, y * u + ax + (col * d + z))
      BY <1>2, <2>1, <2>2, <2>3
    <2>5. y * u + ax + (col * d + z) = Pos(u, 1, x, y, 0)
      <3>1. Foldable(u, 1, ax, y, col, 0)
        BY <1>1 DEF Foldable
      <3>2. ReadAt(u, 1, ax, y, col, 0) = PlainRead(u, 1, ax, y, col, 0)
        BY <3>1, FoldedRead
      <3>3. z = 0 /\ u * 1 = u
        BY <1>1
      <3> QED  BY <2>2, <3>2, <3>3 DEF ReadAt, PlainRead
    <2>6. PICK p : p = aktive_point(area.x + col, area.y + row)
      OBVIOUS
    <2>7. p.x - domain.x = x /\ p.y - domain.y = y
      BY <1>0, <1>1, <2>2, <2>6 DEF aktive_point, InImage
    <2>8. Promised(p, z) = MatrixValue(y * u + x + 1)
      <3>1. Promised(p, z) = MatrixValue((p.y - domain.y) * domain.width + p.x - domain.x + 1)
        BY DEF Promised
      <3>2. p.x \in Int /\ p.y \in Int /\ domain.x \in Int
        BY <1>0, <2>6 DEF aktive_point, InImage
      <3>3. PICK m \in Int : m = y * u
        BY <1>1
      <3>4. (p.y - domain.y) * domain.width = m
        BY <1>1, <2>7, <3>3
      <3>5. m + p.x - domain.x + 1 = m + x + 1
        BY <2>7, <3>2
      <3> QED  BY <3>1, <3>3, <3>4, <3>5
    <2> QED  BY <2>3, <2>4, <2>5, <2>6, <2>8
  <1> QED  BY <1>0, <1>3, <1>4, FoldedServes DEF Serving

(* Areas that are cleared. *)
LEMMA ClearIs ==
    ASSUME NEW w, NEW h, NEW d, NEW area, InBlock(area, 0, d, w, h, d), NEW loc, NEW b, BlockOf(b, loc, w, h, d),
           NEW r, r = aktive_blit_clear(b, area)
    PROVE  /\ BlockOf(r, loc, w, h, d)
           /\ \A x \in 0 .. w - 1, y \in 0 .. h - 1, z \in 0 .. d - 1 :
                  Cell(r, Pos(w, d, x, y, z)) = IF InArea(area, x, y) THEN Zero ELSE Cell(b, Pos(w, d, x, y, z))
  <1>0. PICK aw \in Nat, ah \in Nat : area.width = aw /\ area.height = ah /\ d \in Nat /\ b.domain.depth = d
    BY DEF InBlock, Within, BlockOf, Frame, Dims
  <1>1. PICK value : value = [i \in 0 .. ah * aw * d - 1 |-> Zero]
    OBVIOUS
  <1>2. r = Run(b, ah * aw * d, OverAt(b, area, 0, d), value)
    BY <1>0, <1>1 DEF aktive_blit_clear, Over, Nest, Steps, OverAt
  <1>3. BlockOf(r, loc, w, h, d) /\ AreaDone(r, b, area, 0, d, w, h, d, value)
    BY <1>0, <1>2, OverIs
  <1>4. ASSUME NEW x \in 0 .. w - 1, NEW y \in 0 .. h - 1, NEW z \in 0 .. d - 1
        PROVE  Cell(r, Pos(w, d, x, y, z)) = IF InArea(area, x, y) THEN Zero ELSE Cell(b, Pos(w, d, x, y, z))
    <2>1. Hit(area, 0, d, x, y, z) <=> InArea(area, x, y)
      BY <1>0 DEF Hit
    <2>2. CASE Hit(area, 0, d, x, y, z)
      <3>1. StepNo(area, 0, d, x, y, z) \in 0 .. Count(area, d) - 1
        BY <2>2, StepTo
      <3>2. StepNo(area, 0, d, x, y, z) \in 0 .. ah * aw * d - 1
        BY <1>0, <3>1 DEF Count, Size
      <3>3. value[StepNo(area, 0, d, x, y, z)] = Zero
        BY <1>1, <3>2
      <3> QED  BY <1>3, <2>1, <2>2, <3>3 DEF AreaDone
    <2> QED  BY <1>3, <2>1, <2>2 DEF AreaDone
  <1> QED  BY <1>3, <1>4

(* All of a block is cleared. *)
LEMMA ClearAllIs ==
    ASSUME NEW w \in Nat, NEW h \in Nat, NEW d \in Nat, NEW loc, NEW b, BlockOf(b, loc, w, h, d),
           NEW r, r = aktive_blit_clear_all(b)
    PROVE  /\ BlockOf(r, loc, w, h, d)
           /\ \A x \in 0 .. w - 1, y \in 0 .. h - 1, z \in 0 .. d - 1 : Cell(r, Pos(w, d, x, y, z)) = Zero
  <1>1. PICK n \in Nat : n = Size(w, h, d)
    <2>1. PICK m \in Nat : m = h * w
      OBVIOUS
    <2>2. m * d \in Nat
      OBVIOUS
    <2> QED  BY <2>1, <2>2 DEF Size
  <1>2. PICK at, value : /\ at = [i \in 0 .. 1 * n * 1 - 1 |-> 0 + ((i \div 1) % n) * 1]
                         /\ value = [i \in 0 .. 1 * n * 1 - 1 |-> Zero]
    OBVIOUS
  <1>3. r = Run(b, 1 * n * 1, at, value)
    <2>1. b.used = n
      BY <1>1 DEF BlockOf, Frame
    <2> QED  BY <1>2, <2>1 DEF aktive_blit_clear_all, aktive_blit_dclear, aktive_blit_dset1, aktive_blit_dset, Nest, Steps
  <1>4. ASSUME NEW i \in 0 .. n - 1 PROVE at[i] = i /\ value[i] = Zero
    <2>1. (i \div 1) % n = i
      OBVIOUS
    <2> QED  BY <1>2, <2>1
  <1>5. RunDone(r, b, loc, Dims(w, h, d), n, n, at, value)
    <2>1. Frame(b, loc, Dims(w, h, d), n)
      BY <1>1 DEF BlockOf
    <2>2. /\ \A i \in 0 .. n - 1 : at[i] \in 0 .. n - 1
          /\ \A i, j \in 0 .. n - 1 : at[i] = at[j] => i = j
      BY <1>4
    <2>3. r = Run(b, n, at, value)
      BY <1>3
    <2> QED  BY <2>1, <2>2, <2>3, RunIs
  <1>6. \A q \in 0 .. n - 1 : Cell(r, q) = Zero
    BY <1>4, <1>5 DEF RunDone
  <1>7. ASSUME NEW x \in 0 .. w - 1, NEW y \in 0 .. h - 1, NEW z \in 0 .. d - 1
        PROVE  Cell(r, Pos(w, d, x, y, z)) = Zero
    <2>1. Pos(w, d, x, y, z) \in 0 .. n - 1
      BY <1>1, PosInside
    <2> QED  BY <1>6, <2>1
  <1> QED  BY <1>1, <1>5, <1>7 DEF BlockOf, RunDone

(* A block with a point put into it. *)
PointPut(r, b, area, p, w, h) ==
    \A x \in 0 .. w - 1, y \in 0 .. h - 1 :
        Cell(r, Pos(w, 1, x, y, 0)) =
            IF x < area.width /\ y < area.height /\ p.x = area.x + x /\ p.y = area.y + y
            THEN constant ELSE Cell(b, Pos(w, 1, x, y, 0))

Planar(area, w, h) ==
    /\ area.x \in Int /\ area.y \in Int /\ area.width \in Nat /\ area.height \in Nat
    /\ area.width <= w /\ area.height <= h

(* A point of a sparse image. *)
LEMMA SetPointIs ==
    ASSUME NEW w \in Nat, NEW h \in Nat, NEW loc, NEW b, BlockOf(b, loc, w, h, 1),
           NEW area, Planar(area, w, h),
           NEW p, p.x \in Int, p.y \in Int, NEW r, r = SetPoint(b, area, p)
    PROVE  BlockOf(r, loc, w, h, 1) /\ PointPut(r, b, area, p, w, h)
  <1>0. /\ area.x \in Int /\ area.y \in Int /\ area.width \in Nat /\ area.height \in Nat
        /\ area.width <= w /\ area.height <= h
    BY DEF Planar
  <1>1. CASE ~ aktive_rectangle_contains(area, p)
    <2>1. r = b
      BY <1>1 DEF SetPoint
    <2>2. ASSUME NEW x \in 0 .. w - 1, NEW y \in 0 .. h - 1
          PROVE  ~ (x < area.width /\ y < area.height /\ p.x = area.x + x /\ p.y = area.y + y)
      BY <1>0, <1>1 DEF aktive_rectangle_contains, Xmax, Ymax
    <2> QED  BY <2>1, <2>2 DEF PointPut
  <1>2. CASE aktive_rectangle_contains(area, p)
    <2>1. PICK u \in 0 .. w - 1, v \in 0 .. h - 1 :
              /\ u = p.x - area.x /\ v = p.y - area.y /\ u < area.width /\ v < area.height
              /\ p.x = area.x + u /\ p.y = area.y + v
      <3>1. /\ p.x - area.x \in 0 .. w - 1 /\ p.y - area.y \in 0 .. h - 1
            /\ p.x - area.x < area.width /\ p.y - area.y < area.height
            /\ p.x = area.x + (p.x - area.x) /\ p.y = area.y + (p.y - area.y)
        BY <1>0, <1>2 DEF aktive_rectangle_contains, Xmax, Ymax
      <3> QED  BY <1>0, <3>1
    <2>0. PICK n \in Nat : n = Size(w, h, 1)
      BY DEF Size
    <2>2. PICK pos \in 0 .. n - 1 : pos = Pos(w, 1, u, v, 0)
      <3>1. 1 \in Nat /\ 0 \in 0 .. 1 - 1 /\ v \in Nat
        OBVIOUS
      <3>2. Pos(w, 1, u, v, 0) \in 0 .. Size(w, h, 1) - 1
        BY <3>1, PosInside
      <3> QED  BY <2>0, <3>2
    <2>3. PICK at, value : /\ at = [i \in 0 .. 1 * 1 * 1 - 1 |-> pos + ((i \div 1) % 1) * 1]
                           /\ value = [i \in 0 .. 1 * 1 * 1 - 1 |-> constant]
      OBVIOUS
    <2>4. r = Run(b, 1 * 1 * 1, at, value)
      <3>1. r = aktive_blit_set(b, aktive_point(u, v), constant)
        BY <1>2, <2>1 DEF SetPoint
      <3>2. aktive_point(u, v).x = u /\ aktive_point(u, v).y = v /\ b.domain.width = w
        BY DEF aktive_point, BlockOf, Frame, Dims
      <3>3. v * w + u = pos
        BY <2>2 DEF Pos
      <3>4. r = aktive_blit_dset1(b, pos, 1, constant)
        BY <3>1, <3>2, <3>3 DEF aktive_blit_set
      <3> QED  BY <2>3, <3>4 DEF aktive_blit_dset1, aktive_blit_dset, Nest, Steps
    <2>5. at[0] = pos /\ value[0] = constant
      BY <2>3
    <2>6. RunDone(r, b, loc, Dims(w, h, 1), n, 1, at, value)
      <3>1. Frame(b, loc, Dims(w, h, 1), n)
        BY <2>0 DEF BlockOf
      <3>2. \A i \in 0 .. 1 - 1 : i = 0
        OBVIOUS
      <3>3. r = Run(b, 1, at, value)
        BY <2>4
      <3>4. /\ \A i \in 0 .. 1 - 1 : at[i] \in 0 .. n - 1
            /\ \A i, j \in 0 .. 1 - 1 : at[i] = at[j] => i = j
        BY <2>5, <3>2
      <3>5. 1 \in Nat
        OBVIOUS
      <3> QED  BY <3>1, <3>3, <3>4, <3>5, RunIs
    <2>7. \A q \in 0 .. n - 1 : Cell(r, q) = IF q = pos THEN constant ELSE Cell(b, q)
      <3>1. \A i \in 0 .. 1 - 1 : i = 0
        OBVIOUS
      <3>2. 0 \in 0 .. 1 - 1
        OBVIOUS
      <3> QED  BY <2>5, <2>6, <3>1, <3>2 DEF RunDone
    <2>8. ASSUME NEW x \in 0 .. w - 1, NEW y \in 0 .. h - 1
          PROVE  Cell(r, Pos(w, 1, x, y, 0)) =
                     IF x < area.width /\ y < area.height /\ p.x = area.x + x /\ p.y = area.y + y
                     THEN constant ELSE Cell(b, Pos(w, 1, x, y, 0))
      <3>1. 1 \in Nat /\ 0 \in 0 .. 1 - 1 /\ y \in Nat /\ v \in Nat
        OBVIOUS
      <3>2. Pos(w, 1, x, y, 0) \in 0 .. n - 1
        BY <2>0, <2>2, <3>1, PosInside
      <3>3. ASSUME Pos(w, 1, x, y, 0) = pos PROVE x = u /\ y = v
        <4>1. Pos(w, 1, x, y, 0) = Pos(w, 1, u, v, 0)
          BY <2>2, <3>3
        <4>2. SameCell(w, 1, x, y, 0, u, v, 0)
          BY <3>1, <4>1 DEF SameCell
        <4> QED  BY <4>2, PosDiffer
      <3>4. x = u /\ y = v <=> x < area.width /\ y < area.height /\ p.x = area.x + x /\ p.y = area.y + y
        BY <1>0, <2>1
      <3>5. Pos(w, 1, x, y, 0) = pos <=> x = u /\ y = v
        BY <2>2, <3>3
      <3> QED  BY <2>7, <3>2, <3>4, <3>5
    <2>9. BlockOf(r, loc, w, h, 1)
      BY <2>0, <2>6 DEF BlockOf, RunDone
    <2> QED  BY <2>8, <2>9 DEF PointPut
  <1> QED  BY <1>1, <1>2

(* The recursive function of SetPoints. *)
IsPoints(f, b, area, coords, n) ==
    f = [k \in 0 .. n |-> IF k = 0 THEN b ELSE SetPoint(f[k - 1], area, coords[k])]

(* There is such a function. *)
LEMMA PointsExist ==
    ASSUME NEW b, NEW area, NEW coords, NEW n \in Nat
    PROVE  \E f : IsPoints(f, b, area, coords, n)
  <1> DEFINE E == {m \in Nat : \E f : IsPoints(f, b, area, coords, m)}
  <1>1. 0 \in E
    <2>1. PICK f : f = [k \in 0 .. 0 |-> b]
      OBVIOUS
    <2>2. \A k \in 0 .. 0 : k = 0
      OBVIOUS
    <2>3. IsPoints(f, b, area, coords, 0)
      BY <2>1, <2>2 DEF IsPoints
    <2> QED  BY <2>3
  <1>2. ASSUME NEW m \in Nat, m \in E PROVE m + 1 \in E
    <2>1. PICK f : IsPoints(f, b, area, coords, m)
      BY <1>2
    <2>2. PICK last : last = SetPoint(f[m], area, coords[(m + 1)])
      OBVIOUS
    <2>3. PICK g : g = [k \in 0 .. m + 1 |-> IF k <= m THEN f[k] ELSE last]
      OBVIOUS
    <2>4. \A k \in 0 .. m : g[k] = f[k]
      BY <2>3
    <2>5. \A k \in 0 .. m : f[k] = IF k = 0 THEN b ELSE SetPoint(f[k - 1], area, coords[k])
      BY <2>1 DEF IsPoints
    <2>6. ASSUME NEW k \in 0 .. m + 1
          PROVE  g[k] = IF k = 0 THEN b ELSE SetPoint(g[k - 1], area, coords[k])
      <3>1. CASE k = 0
        <4>1. 0 \in 0 .. m
          OBVIOUS
        <4>2. g[0] = f[0] /\ f[0] = b
          BY <2>4, <2>5, <4>1
        <4> QED  BY <3>1, <4>2
      <3>2. CASE k \in 1 .. m
        <4>1. k \in 0 .. m /\ k - 1 \in 0 .. m /\ k # 0
          BY <3>2
        <4>2. g[k] = f[k] /\ g[k - 1] = f[k - 1]
          BY <2>4, <4>1
        <4>3. f[k] = SetPoint(f[k - 1], area, coords[k])
          BY <2>5, <4>1
        <4> QED  BY <4>1, <4>2, <4>3
      <3>3. CASE k = m + 1
        <4>1. k \in 0 .. m + 1 /\ ~ (k <= m) /\ k - 1 = m /\ k # 0 /\ m \in 0 .. m
          BY <3>3
        <4>2. g[k] = last /\ g[m] = f[m]
          BY <2>3, <2>4, <4>1
        <4> QED  BY <2>2, <3>3, <4>1, <4>2
      <3> QED  BY <3>1, <3>2, <3>3
    <2>7. g = [k \in 0 .. m + 1 |-> g[k]]
      BY <2>3
    <2>8. g = [k \in 0 .. m + 1 |-> IF k = 0 THEN b ELSE SetPoint(g[k - 1], area, coords[k])]
      BY <2>6, <2>7
    <2>9. IsPoints(g, b, area, coords, m + 1)
      BY <2>8 DEF IsPoints
    <2> QED  BY <2>9
  <1>3. \A m \in Nat : m \in E
    <2> HIDE DEF E
    <2> QED  BY <1>1, <1>2, SetInduction
  <1> QED  BY <1>3

(* n whole points; and what becomes of a block when they are put into it. *)
PointList(coords, n) ==
    n \in Nat /\ n = Len(coords) /\ \A k \in 1 .. n : coords[k].x \in Int /\ coords[k].y \in Int

PointsPut(r, b, area, coords, n, w, h) ==
    \A x \in 0 .. w - 1, y \in 0 .. h - 1 :
        Cell(r, Pos(w, 1, x, y, 0)) =
            IF /\ x < area.width /\ y < area.height
               /\ \E k \in 1 .. n : coords[k].x = area.x + x /\ coords[k].y = area.y + y
            THEN constant ELSE Cell(b, Pos(w, 1, x, y, 0))

(* So each of them is set that the request has, and nothing else. *)
LEMMA PointsAre ==
    ASSUME NEW w \in Nat, NEW h \in Nat, NEW loc, NEW b, BlockOf(b, loc, w, h, 1),
           NEW area, Planar(area, w, h), NEW coords, NEW n, PointList(coords, n),
           NEW r, r = SetPoints(b, area, coords)
    PROVE  BlockOf(r, loc, w, h, 1) /\ PointsPut(r, b, area, coords, n, w, h)
  <1>0. /\ area.x \in Int /\ area.y \in Int /\ area.width \in Nat /\ area.height \in Nat
        /\ area.width <= w /\ area.height <= h
        /\ n \in Nat /\ n = Len(coords) /\ \A k \in 1 .. n : coords[k].x \in Int /\ coords[k].y \in Int
    BY DEF Planar, PointList
  <1>1. PICK f : f = (CHOOSE g : IsPoints(g, b, area, coords, n)) /\ IsPoints(f, b, area, coords, n)
    BY <1>0, PointsExist
  <1>2. r = f[n]
    BY <1>0, <1>1 DEF SetPoints, IsPoints
  <1>3. \A m \in 0 .. n : f[m] = IF m = 0 THEN b ELSE SetPoint(f[m - 1], area, coords[m])
    BY <1>1 DEF IsPoints
  <1> DEFINE P(m) == /\ BlockOf(f[m], loc, w, h, 1)
                     /\ \A x \in 0 .. w - 1, y \in 0 .. h - 1 :
                            Cell(f[m], Pos(w, 1, x, y, 0)) =
                                IF /\ x < area.width /\ y < area.height
                                   /\ \E k \in 1 .. m : coords[k].x = area.x + x /\ coords[k].y = area.y + y
                                THEN constant ELSE Cell(b, Pos(w, 1, x, y, 0))
             E == {m \in Nat : m <= n => P(m)}
  <1>4. 0 \in E
    <2>1. f[0] = b /\ 1 .. 0 = {}
      BY <1>0, <1>3
    <2> QED  BY <2>1
  <1>5. ASSUME NEW m \in Nat, m \in E PROVE m + 1 \in E
    <2> SUFFICES ASSUME m + 1 <= n PROVE P(m + 1)
      OBVIOUS
    <2>0. n \in Nat
      BY <1>0
    <2>1. PICK c, p, s : c = f[m] /\ p = coords[m + 1] /\ s = f[m + 1]
      OBVIOUS
    <2>2. s = SetPoint(c, area, p) /\ p.x \in Int /\ p.y \in Int /\ BlockOf(c, loc, w, h, 1)
      <3>1. m + 1 \in 0 .. n /\ m + 1 \in 1 .. n /\ m + 1 # 0 /\ (m + 1) - 1 = m
        BY <2>0
      <3> QED  BY <1>0, <1>3, <1>5, <2>1, <3>1
    <2>3. BlockOf(s, loc, w, h, 1) /\ PointPut(s, c, area, p, w, h)
      BY <2>2, SetPointIs
    <2>4. ASSUME NEW x \in 0 .. w - 1, NEW y \in 0 .. h - 1
          PROVE  Cell(s, Pos(w, 1, x, y, 0)) =
                     IF /\ x < area.width /\ y < area.height
                        /\ \E k \in 1 .. m + 1 : coords[k].x = area.x + x /\ coords[k].y = area.y + y
                     THEN constant ELSE Cell(b, Pos(w, 1, x, y, 0))
      <3>1. Cell(c, Pos(w, 1, x, y, 0)) =
                IF /\ x < area.width /\ y < area.height
                   /\ \E k \in 1 .. m : coords[k].x = area.x + x /\ coords[k].y = area.y + y
                THEN constant ELSE Cell(b, Pos(w, 1, x, y, 0))
        <4>1. m <= n
          BY <2>0
        <4> QED  BY <1>5, <2>1, <4>1
      <3>2. (\E k \in 1 .. m + 1 : coords[k].x = area.x + x /\ coords[k].y = area.y + y)
                <=> \/ p.x = area.x + x /\ p.y = area.y + y
                    \/ \E k \in 1 .. m : coords[k].x = area.x + x /\ coords[k].y = area.y + y
        <4>1. \A k \in 1 .. m + 1 : k = m + 1 \/ k \in 1 .. m
          OBVIOUS
        <4>2. m + 1 \in 1 .. m + 1 /\ \A k \in 1 .. m : k \in 1 .. m + 1
          OBVIOUS
        <4> QED  BY <2>1, <4>1, <4>2
      <3> QED  BY <2>3, <3>1, <3>2 DEF PointPut
    <2> QED  BY <2>1, <2>3, <2>4
  <1>6. \A m \in Nat : m \in E
    <2> HIDE DEF E
    <2> QED  BY <1>4, <1>5, SetInduction
  <1>7. P(n)
    BY <1>0, <1>6
  <1> QED  BY <1>2, <1>7 DEF PointsPut

(* The sparse image, at the beginning of the block. *)
LEMMA PointsIs ==
    ASSUME NEW b, NEW area, NEW dst, NEW w, NEW h, NEW d, NEW loc, Serving(b, area, dst, w, h, d, loc),
           operation.name = "points", d = 1, dst.x = 0, dst.y = 0, area.x \in Int, area.y \in Int,
           domain.x \in Int, domain.y \in Int, domain.height \in Nat,
           NEW first, NEW r, r = Pixels(b, area, dst, first)
    PROVE  BlockOf(r, loc, w, h, d) /\ Served(r, b, area, dst, w, h, d)
  <1>0. PICK aw \in Nat, ah \in Nat :
            /\ dst.width = aw /\ dst.height = ah /\ area.width = aw /\ area.height = ah
            /\ operation.depth = d /\ d \in Nat /\ b.domain.depth = d /\ InImage(area)
    BY ServingIs
  <1>1. w \in Nat /\ h \in Nat /\ aw <= w /\ ah <= h /\ InBlock(dst, 0, 1, w, h, 1) /\ BlockOf(b, loc, w, h, 1)
    BY <1>0 DEF Serving, InBlock, Within
  <1>2. PICK c, coords, n : c = aktive_blit_clear(b, dst) /\ coords = Coords /\ n = domain.height /\ n \in Nat
    OBVIOUS
  <1>3. r = SetPoints(c, area, coords)
    BY <1>2 DEF Pixels, points
  <1>4. /\ BlockOf(c, loc, w, h, 1)
        /\ \A x \in 0 .. w - 1, y \in 0 .. h - 1, z \in 0 .. 1 - 1 :
               Cell(c, Pos(w, 1, x, y, z)) = IF InArea(dst, x, y) THEN Zero ELSE Cell(b, Pos(w, 1, x, y, z))
    BY <1>1, <1>2, ClearIs
  <1>5. /\ coords = [k \in 1 .. n |-> aktive_point(domain.x + k - 1, domain.y + n - k)]
        /\ Len(coords) = n
    <2>1. coords = [k \in 1 .. n |-> aktive_point(domain.x + k - 1, domain.y + n - k)]
      BY <1>2 DEF Coords
    <2>2. PICK S : S = {aktive_point(domain.x + k - 1, domain.y + n - k) : k \in 1 .. n}
      OBVIOUS
    <2>3. coords \in [1 .. n -> S]
      BY <2>1, <2>2
    <2>4. n \in Nat
      BY <1>2
    <2>5. Len(coords) = n
      BY <2>3, <2>4
    <2> QED  BY <2>1, <2>5
  <1>6. \A k \in 1 .. n : coords[k].x \in Int /\ coords[k].y \in Int /\ coords[k] = aktive_point(coords[k].x, coords[k].y)
    BY <1>5 DEF aktive_point
  <1>7. /\ BlockOf(r, loc, w, h, 1)
        /\ \A x \in 0 .. w - 1, y \in 0 .. h - 1 :
               Cell(r, Pos(w, 1, x, y, 0)) =
                   IF /\ x < aw /\ y < ah
                      /\ \E k \in 1 .. n : coords[k].x = area.x + x /\ coords[k].y = area.y + y
                   THEN constant ELSE Cell(c, Pos(w, 1, x, y, 0))
    <2>1. Planar(area, w, h) /\ PointList(coords, n)
      BY <1>0, <1>1, <1>2, <1>5, <1>6 DEF Planar, PointList
    <2>2. BlockOf(r, loc, w, h, 1) /\ PointsPut(r, c, area, coords, n, w, h)
      BY <1>1, <1>3, <1>4, <2>1, PointsAre
    <2> QED  BY <1>0, <2>2 DEF PointsPut
  <1>8. ASSUME NEW x \in 0 .. w - 1, NEW y \in 0 .. h - 1, NEW z \in 0 .. d - 1
        PROVE  Cell(r, Pos(w, d, x, y, z)) =
                   IF InArea(dst, x, y) THEN Promised(aktive_point(area.x + (x - dst.x), area.y + (y - dst.y)), z)
                   ELSE Cell(b, Pos(w, d, x, y, z))
    <2>1. z = 0 /\ x - dst.x = x /\ y - dst.y = y
      OBVIOUS
    <2>2. InArea(dst, x, y) <=> x < aw /\ y < ah
      BY <1>0 DEF InArea
    <2>3. Promised(aktive_point(area.x + x, area.y + y), z) =
              IF \E k \in 1 .. n : coords[k] = aktive_point(area.x + x, area.y + y) THEN constant ELSE Zero
      BY <1>2, <1>5 DEF Promised
    <2>4. \A k \in 1 .. n : coords[k] = aktive_point(area.x + x, area.y + y)
                              <=> coords[k].x = area.x + x /\ coords[k].y = area.y + y
      BY <1>6 DEF aktive_point
    <2>5. Cell(c, Pos(w, 1, x, y, 0)) = IF InArea(dst, x, y) THEN Zero ELSE Cell(b, Pos(w, 1, x, y, 0))
      BY <1>4, <2>1
    <2> QED  BY <1>7, <2>1, <2>2, <2>3, <2>4, <2>5
  <1> QED  BY <1>7, <1>8 DEF Served

(* The part of a request inside of the image, and its place in the block. *)
Placed(area, dst) ==
    /\ area.x \in Int /\ area.y \in Int /\ Fit(area, dst) /\ Within(dst, wanted.width, wanted.height)
    /\ area = aktive_rectangle(area.x, area.y, area.width, area.height)
    /\ area.x = wanted.x + dst.x /\ area.y = wanted.y + dst.y
    /\ domain.x <= area.x /\ area.x + area.width <= domain.x + domain.width
    /\ domain.y <= area.y /\ area.y + area.height <= domain.y + domain.height
    /\ Left(domain, wanted) <= 0 => dst.x = 0
    /\ Top(domain, wanted) <= 0 => dst.y = 0
    /\ aktive_rectangle_is_subset(wanted, domain) => dst.width = wanted.width /\ dst.height = wanted.height

(* It is so placed, and its positions are those of the image. *)
LEMMA PlacedIs ==
    ASSUME domain \in Rectangles, wanted \in Rectangles, ~ Apart(domain, wanted),
           NEW area, area = aktive_rectangle_intersect(domain, wanted), NEW dst, dst = Destination(area, wanted)
    PROVE  /\ Placed(area, dst)
           /\ \A x \in 0 .. wanted.width - 1, y \in 0 .. wanted.height - 1 :
                  InArea(dst, x, y)
                      <=> aktive_rectangle_contains(domain, aktive_point(wanted.x + x, wanted.y + y))
  <1>0. /\ domain.x \in Int /\ domain.y \in Int /\ domain.width \in Nat /\ domain.height \in Nat
        /\ wanted.x \in Int /\ wanted.y \in Int /\ wanted.width \in Nat /\ wanted.height \in Nat
    BY DEF Rectangles
  <1>1. PICK nx, ny, mx, my :
            /\ nx = Maximum(wanted.x, domain.x) /\ mx = Minimum(Xmax(wanted), Xmax(domain))
            /\ ny = Maximum(wanted.y, domain.y) /\ my = Minimum(Ymax(wanted), Ymax(domain))
    OBVIOUS
  <1>2. area.x = nx /\ area.y = ny /\ area.width = mx - nx /\ area.height = my - ny
    BY <1>1 DEF aktive_rectangle_intersect, aktive_rectangle
  <1>3. dst.x = nx + (- wanted.x) /\ dst.y = ny + (- wanted.y) /\ dst.width = mx - nx /\ dst.height = my - ny
    BY <1>2 DEF Destination, aktive_rectangle_move, aktive_rectangle
  <1>4. /\ nx \in Int /\ mx \in Int /\ wanted.x <= nx /\ domain.x <= nx /\ nx <= mx
        /\ mx <= wanted.x + wanted.width /\ mx <= domain.x + domain.width
        /\ nx = wanted.x \/ nx = domain.x
        /\ mx = wanted.x + wanted.width \/ mx = domain.x + domain.width
    BY <1>0, <1>1 DEF Maximum, Minimum, Xmax, Ymax, Apart
  <1>5. /\ ny \in Int /\ my \in Int /\ wanted.y <= ny /\ domain.y <= ny /\ ny <= my
        /\ my <= wanted.y + wanted.height /\ my <= domain.y + domain.height
        /\ ny = wanted.y \/ ny = domain.y
        /\ my = wanted.y + wanted.height \/ my = domain.y + domain.height
    BY <1>0, <1>1 DEF Maximum, Minimum, Xmax, Ymax, Apart
  <1>6. Fit(area, dst) /\ Within(dst, wanted.width, wanted.height)
    BY <1>0, <1>2, <1>3, <1>4, <1>5 DEF Fit, Within
  <1>7. /\ Left(domain, wanted) <= 0 => dst.x = 0
        /\ Top(domain, wanted) <= 0 => dst.y = 0
    BY <1>0, <1>3, <1>4, <1>5 DEF Left, Top
  <1>8. aktive_rectangle_is_subset(wanted, domain) => dst.width = wanted.width /\ dst.height = wanted.height
    <2> SUFFICES ASSUME aktive_rectangle_is_subset(wanted, domain)
                 PROVE  dst.width = wanted.width /\ dst.height = wanted.height
      OBVIOUS
    <2>1. /\ wanted.x >= domain.x /\ wanted.x + wanted.width <= domain.x + domain.width
          /\ wanted.y >= domain.y /\ wanted.y + wanted.height <= domain.y + domain.height
      BY DEF aktive_rectangle_is_subset, Xmax, Ymax
    <2>2. nx = wanted.x /\ mx = wanted.x + wanted.width
      BY <1>0, <1>4, <2>1
    <2>3. ny = wanted.y /\ my = wanted.y + wanted.height
      BY <1>0, <1>5, <2>1
    <2> QED  BY <1>0, <1>3, <2>2, <2>3
  <1>8a. area = aktive_rectangle(area.x, area.y, area.width, area.height)
    <2>1. area = aktive_rectangle(nx, ny, mx - nx, my - ny)
      BY <1>1 DEF aktive_rectangle_intersect
    <2> QED  BY <1>2, <2>1
  <1>9. Placed(area, dst)
    BY <1>0, <1>2, <1>3, <1>4, <1>5, <1>6, <1>7, <1>8, <1>8a DEF Placed
  <1>10. ASSUME NEW x \in 0 .. wanted.width - 1, NEW y \in 0 .. wanted.height - 1
         PROVE  InArea(dst, x, y)
                    <=> aktive_rectangle_contains(domain, aktive_point(wanted.x + x, wanted.y + y))
    <2>1. aktive_rectangle_contains(domain, aktive_point(wanted.x + x, wanted.y + y))
              <=> /\ domain.x <= wanted.x + x /\ wanted.x + x < domain.x + domain.width
                  /\ domain.y <= wanted.y + y /\ wanted.y + y < domain.y + domain.height
      BY <1>0 DEF aktive_rectangle_contains, aktive_point, Xmax, Ymax
    <2>2. domain.x <= wanted.x + x /\ wanted.x + x < domain.x + domain.width
              <=> dst.x <= x /\ x < dst.x + dst.width
      BY <1>0, <1>3, <1>4
    <2>3. domain.y <= wanted.y + y /\ wanted.y + y < domain.y + domain.height
              <=> dst.y <= y /\ y < dst.y + dst.height
      BY <1>0, <1>3, <1>5
    <2> QED  BY <2>1, <2>2, <2>3 DEF InArea
  <1> QED  BY <1>9, <1>10

(* An input that does not move requests leaves the area as it is. *)
LEMMA AfterKeeps ==
    ASSUME NEW area, area = aktive_rectangle(area.x, area.y, area.width, area.height),
           area.x \in Int, area.y \in Int, domain.x \in Int, domain.y \in Int, NEW i, ~ Moves(i)
    PROVE  After(i, area) = area
  <1>1. /\ inputs[i] \in {"row", "matrix"} => domain.x = 0
        /\ inputs[i] \in {"column", "matrix"} => domain.y = 0
    BY DEF Moves
  <1>2. area.x - 0 = area.x /\ area.y - 0 = area.y
    OBVIOUS
  <1>3. Moved(inputs[i], area) = aktive_rectangle(area.x, area.y, area.width, area.height)
    BY <1>1, <1>2 DEF Moved
  <1> QED  BY <1>3 DEF After

(* Whatever the operator, unless it can go wrong there. *)
LEMMA PixelsServed ==
    ASSUME domain \in Rectangles, wanted \in Rectangles, operation \in Operations,
           ~ Apart(domain, wanted), ~ Misplaced,
           NEW area, NEW dst, Placed(area, dst), NEW loc, NEW w, NEW h, NEW d, NEW b,
           w = wanted.width, h = wanted.height, d = operation.depth, BlockOf(b, loc, w, h, d),
           NEW first \in {0, 1}, NEW r, r = Pixels(b, area, dst, first)
    PROVE  BlockOf(r, loc, w, h, d) /\ Served(r, b, area, dst, w, h, d)
  <1>0. /\ domain.x \in Int /\ domain.y \in Int /\ domain.width \in Nat /\ domain.height \in Nat
        /\ wanted.x \in Int /\ wanted.y \in Int /\ wanted.width \in Nat /\ wanted.height \in Nat
    BY DEF Rectangles
  <1>1. Fit(area, dst) /\ Within(dst, w, h) /\ area.x \in Int /\ area.y \in Int
    BY DEF Placed
  <1>2. d \in {1, 2} /\ d \in Nat
    BY DEF Operations
  <1>3. Serving(b, area, dst, w, h, d, loc)
    <2>1. InBlock(dst, 0, d, w, h, d)
      BY <1>0, <1>1, <1>2 DEF InBlock
    <2>2. InImage(area)
      BY <1>0, <1>1 DEF Placed, InImage, Fit, Within
    <2> QED  BY <1>1, <2>1, <2>2 DEF Serving
  <1>3a. \A i : ~ Moves(i) => After(i, area) = area
    <2>1. area = aktive_rectangle(area.x, area.y, area.width, area.height)
      BY DEF Placed
    <2> QED  BY <1>0, <1>1, <2>1, AfterKeeps
  <1>4. Left(domain, wanted) \in Int /\ Top(domain, wanted) \in Int
    BY <1>0 DEF Left, Top
  <1>5. CASE operation.name \in {"unary0", "unary1", "unary2", "fill"}
    <2>1. d = 1 \/ dst.x = 0
      BY <1>2, <1>4, <1>5 DEF Misplaced, Placed
    <2> QED  BY <1>3, <1>5, <2>1, Unary0Is, Unary1Is, Unary2Is, FillIs
  <1>6. CASE operation.name = "cache"
    <2>1. domain.x = 0 /\ domain.y = 0 /\ (d > 1 => wanted.x = domain.x)
      BY <1>6 DEF Misplaced
    <2>2. Within(area, domain.width, domain.height)
      BY <1>0, <1>1, <2>1 DEF Placed, Within, Fit
    <2>3. d = 1 \/ (dst.x = 0 /\ area.x = 0)
      <3>1. CASE d > 1
        <4>1. Left(domain, wanted) <= 0
          BY <1>0, <2>1, <3>1 DEF Left
        <4>2. dst.x = 0
          BY <4>1 DEF Placed
        <4>3. area.x = wanted.x + dst.x
          BY DEF Placed
        <4> QED  BY <2>1, <3>1, <4>2, <4>3
      <3> QED  BY <1>2, <3>1
    <2> QED  BY <1>0, <1>3, <1>6, <2>1, <2>2, <2>3, CacheIs
  <1>7. CASE operation.name \in {"nary", "points"}
    <2>1. dst.x = 0 /\ dst.y = 0
      BY <1>4, <1>7 DEF Misplaced, Placed
    <2>2. CASE operation.name = "nary"
      <3>1. ~ Moves(0) /\ ~ Moves(1)
        BY <2>2 DEF Misplaced
      <3> QED  BY <1>3, <1>3a, <2>1, <2>2, <3>1, NaryIs
    <2>3. CASE operation.name = "points"
      <3>1. d = 1
        BY <2>3 DEF Operations
      <3> QED  BY <1>0, <1>1, <1>3, <2>1, <2>3, <3>1, PointsIs
    <2> QED  BY <1>7, <2>2, <2>3
  <1>8. CASE operation.name = "bands"
    <2>1. dst.width = w /\ dst.height = h
      BY <1>8 DEF Misplaced, Placed
    <2> QED  BY <1>3, <1>8, <2>1, BandsIs
  <1>9. CASE operation.name \in {"identity", "montage"}
    <2>1. operation.name = "montage" => d = 1
      BY <1>2, <1>9 DEF Misplaced
    <2> QED  BY <1>3, <1>9, <2>1, IdentityIs
  <1>10. CASE operation.name \in {"fill_rows", "fill_columns", "matrix", "creduce"}
    <2>1. d = 1
      BY <1>10 DEF Operations
    <2>2. /\ domain.x <= area.x /\ area.x + area.width <= domain.x + domain.width
          /\ domain.y <= area.y /\ area.y + area.height <= domain.y + domain.height
      BY DEF Placed
    <2>3. CASE operation.name = "fill_rows"
      BY <1>0, <1>1, <1>3, <2>1, <2>2, <2>3, FillRowsIs
    <2>4. CASE operation.name = "fill_columns"
      BY <1>0, <1>1, <1>3, <2>1, <2>2, <2>4, FillColumnsIs
    <2>5. CASE operation.name = "creduce"
      BY <1>3, <2>1, <2>5, CreduceIs
    <2>6. CASE operation.name = "matrix"
      BY <1>3, <2>1, <2>6, MatrixIs
    <2> QED  BY <1>10, <2>3, <2>4, <2>5, <2>6
  <1>11. CASE operation.name \in {"cunary", "cbinary", "zmontage"}
    <2>1. d = 2
      BY <1>11 DEF Operations
    <2>2. CASE operation.name = "cbinary"
      <3>1. ~ Moves(0) /\ ~ Moves(1)
        BY <2>2 DEF Misplaced
      <3> QED  BY <1>3, <1>3a, <2>1, <2>2, <3>1, CbinaryIs
    <2>3. CASE operation.name = "cunary"
      BY <1>3, <2>1, <2>3, CunaryIs
    <2>4. CASE operation.name = "zmontage"
      BY <1>3, <2>1, <2>4, ZmontageIs
    <2> QED  BY <1>11, <2>2, <2>3, <2>4
  <1>12. CASE operation.name \in {"unarygz", "fill_bands"}
    BY <1>3, <1>12, UnarygzIs, FillBandsIs
  <1>13. CASE operation.name \in {"binary", "binary_deeper"}
    <2>1. After(0, area) = area
      <3>1. ~ Moves(0)
        BY <1>13 DEF Misplaced
      <3> QED  BY <1>3a, <3>1
    <2>2. CASE operation.name = "binary"
      <3>1. d = 1 \/ dst.x = 0
        BY <1>2, <1>4, <2>2 DEF Misplaced, Placed
      <3> QED  BY <1>3, <2>1, <2>2, <3>1, BinaryIs
    <2>3. CASE operation.name = "binary_deeper"
      BY <1>3, <2>1, <2>3, BinaryDeeperIs
    <2> QED  BY <1>13, <2>2, <2>3
  <1> QED  BY <1>5, <1>6, <1>7, <1>8, <1>9, <1>10, <1>11, <1>12, <1>13 DEF Operations

(* A block in which every position of the request is zero. *)
Cleared(b, loc, w, h, d) ==
    /\ BlockOf(b, loc, w, h, d)
    /\ \A x \in 0 .. w - 1, y \in 0 .. h - 1, z \in 0 .. d - 1 : Cell(b, Pos(w, d, x, y, z)) = Zero

(* To clear a part of it changes nothing. *)
LEMMA ClearedKeeps ==
    ASSUME NEW w, NEW h, NEW d, NEW area, InBlock(area, 0, d, w, h, d), NEW loc, NEW b, Cleared(b, loc, w, h, d),
           NEW r, r = aktive_blit_clear(b, area)
    PROVE  Cleared(r, loc, w, h, d)
  <1>1. BlockOf(b, loc, w, h, d)
    BY DEF Cleared
  <1>2. /\ BlockOf(r, loc, w, h, d)
        /\ \A x \in 0 .. w - 1, y \in 0 .. h - 1, z \in 0 .. d - 1 :
               Cell(r, Pos(w, d, x, y, z)) = IF InArea(area, x, y) THEN Zero ELSE Cell(b, Pos(w, d, x, y, z))
    BY <1>1, ClearIs
  <1> QED  BY <1>2 DEF Cleared

(* Nor does to clear all of it. *)
LEMMA ClearedAll ==
    ASSUME NEW w, NEW h, NEW d, w \in Nat, h \in Nat, d \in Nat, NEW loc, NEW b, Cleared(b, loc, w, h, d),
           NEW r, r = aktive_blit_clear_all(b)
    PROVE  Cleared(r, loc, w, h, d)
  <1>1. BlockOf(b, loc, w, h, d)
    BY DEF Cleared
  <1>2. /\ BlockOf(r, loc, w, h, d)
        /\ \A x \in 0 .. w - 1, y \in 0 .. h - 1, z \in 0 .. d - 1 : Cell(r, Pos(w, d, x, y, z)) = Zero
    BY <1>1, ClearAllIs
  <1> QED  BY <1>2 DEF Cleared

(* The block at setup, as requests before left it. *)
LEMMA ClearedAtSetup ==
    ASSUME NEW w, NEW h, NEW d, w \in Nat, h \in Nat, d \in Nat, NEW req, req.width = w, req.height = h,
           NEW c, c \in Nat, NEW b, b = [aktive_block(d) EXCEPT !.pixel = [k \in 1 .. c |-> Unset]],
           NEW r, r = aktive_blit_setup(b, req)
    PROVE  Cleared(r, aktive_point(req.x, req.y), w, h, d)
  <1>1. /\ BlockOf(r, aktive_point(req.x, req.y), w, h, d)
        /\ \A q \in 0 .. Size(w, h, d) - 1 : Cell(r, q) = Zero
    BY SetupIs
  <1>2. \A x \in 0 .. w - 1, y \in 0 .. h - 1, z \in 0 .. d - 1 : Pos(w, d, x, y, z) \in 0 .. Size(w, h, d) - 1
    BY PosInside
  <1> QED  BY <1>1, <1>2 DEF Cleared

(* A zone, or the part inside, as an area of the block. *)
LEMMA PieceInBlock ==
    ASSUME NEW q \in Rectangles, NEW r \in Rectangles, ~ Apart(q, r), NEW z \in Pieces(q, r), NEW d \in Nat
    PROVE  InBlock(z, 0, d, r.width, r.height, d)
  <1>1. r.width \in Nat /\ r.height \in Nat
    BY DEF Rectangles
  <1>2. aktive_rectangle_is_subset(z, aktive_rectangle(0, 0, r.width, r.height))
    BY WithinBlock
  <1>3. z.x \in Int /\ z.y \in Int /\ z.width \in Nat /\ z.height \in Nat
    <2>1. CASE Top(q, r) > 0 /\ z = ZoneA(q, r)
      BY <1>1, <2>1, Borders DEF ZoneA, aktive_rectangle
    <2>2. CASE Bottom(q, r) > 0 /\ z = ZoneB(q, r)
      BY <1>1, <2>2, Borders DEF ZoneB, aktive_rectangle
    <2>3. CASE Left(q, r) > 0 /\ z = ZoneC(q, r)
      BY <1>1, <2>3, Borders DEF ZoneC, TP, HADJ, Maximum, Minimum, aktive_rectangle
    <2>4. CASE Right(q, r) > 0 /\ z = ZoneD(q, r)
      BY <1>1, <2>4, Borders DEF ZoneD, TP, HADJ, Maximum, Minimum, aktive_rectangle
    <2>5. CASE z = Core(q, r)
      <3> DEFINE x1 == Maximum(Left(q, r), 0)
                 x2 == Minimum(Left(q, r) + q.width, r.width)
                 y1 == Maximum(Top(q, r), 0)
                 y2 == Minimum(Top(q, r) + q.height, r.height)
      <3>1. z = aktive_rectangle(x1, y1, x2 - x1, y2 - y1)
        BY <2>5, CoreIs
      <3>2. x1 \in Int /\ x2 - x1 \in Nat
        BY Borders DEF Maximum, Minimum
      <3>3. y1 \in Int /\ y2 - y1 \in Nat
        BY Borders DEF Maximum, Minimum
      <3> HIDE DEF x1, x2, y1, y2
      <3> QED  BY <3>1, <3>2, <3>3 DEF aktive_rectangle
    <2> QED  BY <2>1, <2>2, <2>3, <2>4, <2>5, PieceIs
  <1>4. Within(z, r.width, r.height)
    BY <1>1, <1>2, <1>3 DEF Within, aktive_rectangle_is_subset, aktive_rectangle, Xmax, Ymax
  <1> QED  BY <1>1, <1>4 DEF InBlock

(* What an operator promises does not change with the block. *)
LEMMA PromisedStays ==
    ASSUME UNCHANGED << operation, domain >>, NEW p, NEW z
    PROVE  Promised(p, z)' = Promised(p, z)
  BY DEF Promised, Coords, MatrixValue

(* What is served into such a block is exact. *)
LEMMA ServedExact ==
    ASSUME domain \in Rectangles, wanted \in Rectangles, UNCHANGED << operation, domain, wanted >>,
           NEW area, NEW dst, Placed(area, dst),
           \A x \in 0 .. wanted.width - 1, y \in 0 .. wanted.height - 1 :
               InArea(dst, x, y)
                   <=> aktive_rectangle_contains(domain, aktive_point(wanted.x + x, wanted.y + y)),
           NEW w, NEW h, NEW d, w = wanted.width, h = wanted.height, d = operation.depth,
           NEW loc, loc = aktive_point(wanted.x, wanted.y), NEW b, Cleared(b, loc, w, h, d),
           NEW n, n = block', BlockOf(n, loc, w, h, d), Served(n, b, area, dst, w, h, d)
    PROVE  Exact'
  <1>1. ~ n.bad /\ n.location = loc
    BY DEF BlockOf, Frame
  <1>2. ASSUME NEW x \in 0 .. w - 1, NEW y \in 0 .. h - 1, NEW z \in 0 .. d - 1,
               NEW p, p = aktive_point(wanted.x + x, wanted.y + y)
        PROVE  Cell(n, aktive_blit_index(n, x, y, z))
                   = IF aktive_rectangle_contains(domain, p) THEN Promised(p, z)' ELSE Zero
    <2>1. aktive_blit_index(n, x, y, z) = Pos(w, d, x, y, z)
      BY IndexIs
    <2>2. Cell(n, Pos(w, d, x, y, z)) =
              IF InArea(dst, x, y) THEN Promised(aktive_point(area.x + (x - dst.x), area.y + (y - dst.y)), z)
              ELSE Cell(b, Pos(w, d, x, y, z))
      BY DEF Served
    <2>3. area.x + (x - dst.x) = wanted.x + x /\ area.y + (y - dst.y) = wanted.y + y
      <3>1. /\ wanted.x \in Int /\ wanted.y \in Int /\ dst.x \in Int /\ dst.y \in Int
            /\ area.x = wanted.x + dst.x /\ area.y = wanted.y + dst.y
        BY DEF Placed, Within, Rectangles
      <3> QED  BY <3>1
    <2>4. Cell(b, Pos(w, d, x, y, z)) = Zero
      BY DEF Cleared
    <2> QED  BY <1>2, <2>1, <2>2, <2>3, <2>4, PromisedStays
  <1> QED  BY <1>1, <1>2 DEF Exact

(* And one that is apart from the image is exact when it is cleared. *)
LEMMA ClearedExact ==
    ASSUME domain \in Rectangles, wanted \in Rectangles, UNCHANGED << operation, domain, wanted >>,
           Apart(domain, wanted), NEW w, NEW h, NEW d, w = wanted.width, h = wanted.height, d = operation.depth,
           NEW loc, loc = aktive_point(wanted.x, wanted.y), NEW n, n = block', Cleared(n, loc, w, h, d)
    PROVE  Exact'
  <1>1. BlockOf(n, loc, w, h, d) /\ ~ n.bad /\ n.location = loc
    BY DEF Cleared, BlockOf, Frame
  <1>2. ASSUME NEW x \in 0 .. w - 1, NEW y \in 0 .. h - 1, NEW z \in 0 .. d - 1,
               NEW p, p = aktive_point(wanted.x + x, wanted.y + y)
        PROVE  /\ Cell(n, aktive_blit_index(n, x, y, z)) = Zero
               /\ ~ aktive_rectangle_contains(domain, p)
    <2>1. aktive_blit_index(n, x, y, z) = Pos(w, d, x, y, z)
      BY <1>1, IndexIs
    <2>2. ~ aktive_rectangle_contains(domain, p)
      BY <1>2 DEF Rectangles, aktive_rectangle_contains, aktive_point, Apart, Xmax, Ymax
    <2>3. Cell(n, Pos(w, d, x, y, z)) = Zero
      BY DEF Cleared
    <2> QED  BY <2>1, <2>2, <2>3
  <1> QED  BY <1>1, <1>2 DEF Exact

-----------------------------------------------------------------------------
(* The block is as it should be before the operator is asked: of the request,
   and zero everywhere, whichever of its zones were cleared. *)
BlockInv ==
    /\ operation \in Operations
    /\ stage = "setup" =>
           \E c \in Nat : block = [aktive_block(operation.depth) EXCEPT !.pixel = [k \in 1 .. c |-> Unset]]
    /\ stage \in {"split", "zones", "fetch"} =>
           Cleared(block, aktive_point(wanted.x, wanted.y), wanted.width, wanted.height, operation.depth)
    /\ stage = "zones" => zones \subseteq Pieces(domain, wanted)
    /\ stage \in {"zones", "fetch"} => ~ Apart(domain, wanted)
    /\ FetchExact

(* Each step of a fetch keeps that. *)
LEMMA BlockStep ==
    ASSUME SplitInv, BlockInv, [FetchStep]_fetchVars
    PROVE  BlockInv'
  <1> DEFINE w == wanted.width
             h == wanted.height
             d == operation.depth
             loc == aktive_point(wanted.x, wanted.y)
  <1>0. /\ domain \in Rectangles /\ wanted \in Rectangles /\ operation \in Operations
        /\ w \in Nat /\ h \in Nat /\ d \in Nat
        /\ stage # "done" => request = wanted
    BY DEF SplitInv, BlockInv, Rectangles, Operations
  <1>1. CASE SetupBlock
    <2>1. PICK c \in Nat : block = [aktive_block(d) EXCEPT !.pixel = [k \in 1 .. c |-> Unset]]
      BY <1>1 DEF SetupBlock, BlockInv
    <2>2. Cleared(block', loc, w, h, d)
      <3>1. block' = aktive_blit_setup(block, wanted)
        BY <1>0, <1>1 DEF SetupBlock
      <3> QED  BY <1>0, <2>1, <3>1, ClearedAtSetup
    <2> QED  BY <1>0, <1>1, <2>2 DEF SetupBlock, BlockInv, FetchExact
  <1>2. CASE Split
    <2>1. Cleared(block, loc, w, h, d) /\ request = wanted
      BY <1>0, <1>2 DEF Split, BlockInv
    <2>2. UNCHANGED << operation, domain, wanted >>
      BY <1>2 DEF Split
    <2>3. CASE /\ aktive_rectangle_is_subset(request, domain)
               /\ stage' = "fetch"
               /\ UNCHANGED block
      <3>1. ~ Apart(domain, wanted)
        BY <1>0, <2>1, <2>3 DEF aktive_rectangle_is_subset, Apart, Rectangles, Xmax, Ymax
      <3> QED  BY <1>0, <2>1, <2>2, <2>3, <3>1 DEF BlockInv, FetchExact
    <2>4. CASE /\ aktive_rectangle_is_empty(aktive_rectangle_intersect(domain, request))
               /\ block' = aktive_blit_clear_all(block)
               /\ stage' = "done"
      <3>1. Apart(domain, wanted)
        BY <1>0, <2>1, <2>4, MeetsNotEmpty
      <3>2. Cleared(block', loc, w, h, d)
        BY <1>0, <2>1, <2>4, ClearedAll
      <3>3. Exact'
        BY <1>0, <2>2, <3>1, <3>2, ClearedExact
      <3> QED  BY <1>0, <2>2, <2>4, <3>3 DEF BlockInv, FetchExact
    <2>5. CASE /\ ~ aktive_rectangle_is_empty(aktive_rectangle_intersect(domain, request))
               /\ stage' = "zones"
               /\ UNCHANGED block
      <3>1. ~ Apart(domain, wanted)
        BY <1>0, <2>1, <2>5, MeetsNotEmpty
      <3>2. zones' \subseteq Pieces(domain, wanted)
        BY <1>2, <2>1 DEF Split, Pieces
      <3> QED  BY <1>0, <2>1, <2>2, <2>5, <3>1, <3>2 DEF BlockInv, FetchExact
    <2> QED  BY <1>2, <2>3, <2>4, <2>5 DEF Split
  <1>3. CASE ClearZone
    <2>1. PICK z \in zones : block' = aktive_blit_clear(block, z) /\ zones' = zones \ {z}
      BY <1>3 DEF ClearZone
    <2>2. /\ ~ Apart(domain, wanted) /\ z \in Pieces(domain, wanted) /\ zones \subseteq Pieces(domain, wanted)
          /\ Cleared(block, loc, w, h, d)
      BY <1>3, <2>1 DEF ClearZone, BlockInv
    <2>3. InBlock(z, 0, d, w, h, d)
      BY <1>0, <2>2, PieceInBlock
    <2>4. Cleared(block', loc, w, h, d)
      BY <2>1, <2>2, <2>3, ClearedKeeps
    <2>5. UNCHANGED << operation, domain, wanted >> /\ stage' \in {"fetch", "zones"}
      BY <1>3 DEF ClearZone
    <2> QED  BY <1>0, <2>1, <2>2, <2>4, <2>5 DEF BlockInv, FetchExact
  <1>4. CASE Fetch
    <2>1. Cleared(block, loc, w, h, d) /\ ~ Apart(domain, wanted) /\ request = wanted
      BY <1>0, <1>4 DEF Fetch, BlockInv
    <2>2. UNCHANGED << operation, inputs, domain, wanted >> /\ stage' = "done"
      BY <1>4 DEF Fetch
    <2>3. PICK area, dst, first :
              /\ area = aktive_rectangle_intersect(domain, wanted) /\ dst = Destination(area, wanted)
              /\ first \in {0, 1} /\ block' = Pixels(block, area, dst, first)
      BY <1>4, <2>1 DEF Fetch
    <2>4. ASSUME ~ Misplaced PROVE Exact'
      <3>1. /\ Placed(area, dst)
            /\ \A x \in 0 .. w - 1, y \in 0 .. h - 1 :
                   InArea(dst, x, y)
                       <=> aktive_rectangle_contains(domain, aktive_point(wanted.x + x, wanted.y + y))
        BY <1>0, <2>1, <2>3, PlacedIs
      <3>2. BlockOf(block, loc, w, h, d)
        BY <2>1 DEF Cleared
      <3>3. BlockOf(block', loc, w, h, d) /\ Served(block', block, area, dst, w, h, d)
        BY <1>0, <2>1, <2>3, <2>4, <3>1, <3>2, PixelsServed
      <3> QED  BY <1>0, <2>1, <2>2, <3>1, <3>3, ServedExact
    <2>5. Misplaced' <=> Misplaced
      BY <2>2 DEF Misplaced, Moves
    <2> QED  BY <1>0, <2>2, <2>4, <2>5 DEF BlockInv, FetchExact
  <1>5. CASE UNCHANGED fetchVars
    <2>1. UNCHANGED << operation, inputs, domain, wanted, block, zones, stage >>
      BY <1>5 DEF fetchVars
    <2>2. Misplaced' <=> Misplaced
      BY <2>1 DEF Misplaced, Moves
    <2>3. Exact => Exact'
      BY <2>1, PromisedStays DEF Exact
    <2>4. FetchExact'
      BY <2>1, <2>2, <2>3 DEF BlockInv, FetchExact
    <2> QED  BY <2>1, <2>4 DEF BlockInv
  <1> QED  BY <1>1, <1>2, <1>3, <1>4, <1>5 DEF FetchStep

(* The pixels of every operator, unless it is one that can go wrong there, are
   what it promises, whatever the image, the request and the block before
   (aktive_region_fetch_area_core, the loops of runtime/blit.c, and the pixel
   functions under etc/). *)
THEOREM FetchIsExact == FetchSpec => []FetchExact
  <1>1. InitFetch => BlockInv
    BY CapacitiesAssumption DEF InitFetch, BlockInv, FetchExact
  <1>2. SplitInv /\ BlockInv /\ [FetchStep]_fetchVars => BlockInv'
    BY BlockStep
  <1>3. BlockInv => FetchExact
    BY DEF BlockInv
  <1> QED  BY <1>1, <1>2, <1>3, Inductive, PTL DEF FetchSpec

-----------------------------------------------------------------------------
(* The bytes of a number, and what is left of it after each. *)
IsRest(f, v, q, n) == f = [i \in 1 .. n |-> IF i = 1 THEN v ELSE f[i - 1] \div q]

(* What is left is found. *)
LEMMA RestExists ==
    ASSUME NEW v \in Int, NEW q \in Nat \ {0}, NEW n \in Nat \ {0}
    PROVE  \E f : IsRest(f, v, q, n)
  <1> DEFINE E == {m \in Nat : \E f : IsRest(f, v, q, m + 1)}
  <1>1. 0 \in E
    <2>1. PICK f : f = [i \in 1 .. 1 |-> v]
      OBVIOUS
    <2>2. \A i \in 1 .. 1 : i = 1
      OBVIOUS
    <2>3. IsRest(f, v, q, 0 + 1)
      BY <2>1, <2>2 DEF IsRest
    <2> QED  BY <2>3
  <1>2. ASSUME NEW m \in Nat, m \in E PROVE m + 1 \in E
    <2>1. PICK f : IsRest(f, v, q, m + 1)
      BY <1>2
    <2>2. PICK last : last = f[m + 1] \div q
      OBVIOUS
    <2>3. PICK g : g = [i \in 1 .. m + 2 |-> IF i <= m + 1 THEN f[i] ELSE last]
      OBVIOUS
    <2>4. \A i \in 1 .. m + 1 : g[i] = f[i]
      BY <2>3
    <2>5. \A i \in 1 .. m + 1 : f[i] = IF i = 1 THEN v ELSE f[i - 1] \div q
      BY <2>1 DEF IsRest
    <2>6. ASSUME NEW i \in 1 .. m + 2
          PROVE  g[i] = IF i = 1 THEN v ELSE g[i - 1] \div q
      <3>1. CASE i = 1
        <4>1. 1 \in 1 .. m + 1
          OBVIOUS
        <4>2. g[1] = f[1] /\ f[1] = v
          BY <2>4, <2>5, <4>1
        <4> QED  BY <3>1, <4>2
      <3>2. CASE i \in 2 .. m + 1
        <4>1. i \in 1 .. m + 1 /\ i - 1 \in 1 .. m + 1 /\ i # 1
          BY <3>2
        <4>2. g[i] = f[i] /\ g[i - 1] = f[i - 1] /\ f[i] = f[i - 1] \div q
          BY <2>4, <2>5, <4>1
        <4> QED  BY <4>1, <4>2
      <3>3. CASE i = m + 2
        <4>1. ~ (i <= m + 1) /\ i - 1 = m + 1 /\ i # 1 /\ m + 1 \in 1 .. m + 1
          BY <3>3
        <4>2. g[i] = last /\ g[m + 1] = f[m + 1]
          BY <2>3, <2>4, <4>1
        <4> QED  BY <2>2, <4>1, <4>2
      <3> QED  BY <3>1, <3>2, <3>3
    <2>7. g = [i \in 1 .. m + 2 |-> g[i]]
      BY <2>3
    <2>8. g = [i \in 1 .. m + 2 |-> IF i = 1 THEN v ELSE g[i - 1] \div q]
      BY <2>6, <2>7
    <2>9. IsRest(g, v, q, (m + 1) + 1)
      BY <2>8 DEF IsRest
    <2> QED  BY <2>9
  <1>3. \A m \in Nat : m \in E
    <2> HIDE DEF E
    <2> QED  BY <1>1, <1>2, SetInduction
  <1>4. n - 1 \in Nat /\ (n - 1) + 1 = n
    OBVIOUS
  <1>5. n - 1 \in E
    BY <1>3, <1>4
  <1> QED  BY <1>4, <1>5

(* They are integers. *)
LEMMA RestIs ==
    ASSUME NEW v \in Int, NEW q \in Nat \ {0}, NEW n \in Nat \ {0}, NEW f, IsRest(f, v, q, n)
    PROVE  /\ f[1] = v
           /\ \A i \in 2 .. n : f[i] = f[i - 1] \div q
           /\ \A i \in 1 .. n : f[i] \in Int
  <1>1. \A i \in 1 .. n : f[i] = IF i = 1 THEN v ELSE f[i - 1] \div q
    BY DEF IsRest
  <1>2. 1 \in 1 .. n
    OBVIOUS
  <1>3. f[1] = v
    BY <1>1, <1>2
  <1>4. \A i \in 2 .. n : f[i] = f[i - 1] \div q
    BY <1>1
  <1> DEFINE E == {m \in Nat : m + 1 <= n => f[m + 1] \in Int}
  <1>5. 0 \in E
    BY <1>3
  <1>6. ASSUME NEW m \in Nat, m \in E PROVE m + 1 \in E
    <2> SUFFICES ASSUME m + 2 <= n PROVE f[m + 2] \in Int
      OBVIOUS
    <2>1. m + 2 \in 2 .. n /\ (m + 2) - 1 = m + 1 /\ f[m + 1] \in Int
      BY <1>6
    <2>2. f[m + 2] = f[m + 1] \div q
      BY <1>4, <2>1
    <2> QED  BY <2>1, <2>2
  <1>7. \A m \in Nat : m \in E
    <2> HIDE DEF E
    <2> QED  BY <1>5, <1>6, SetInduction
  <1>8. ASSUME NEW i \in 1 .. n PROVE f[i] \in Int
    <2>1. i - 1 \in Nat /\ (i - 1) + 1 = i
      OBVIOUS
    <2>2. i - 1 \in E
      BY <1>7, <2>1
    <2> QED  BY <2>1, <2>2
  <1> QED  BY <1>3, <1>4, <1>8

(* The bytes of a number are its remainders. *)
LEMMA LittleEndianIs ==
    ASSUME NEW v \in Int, NEW n \in Nat \ {0}
    PROVE  \E f : IsRest(f, v, 256, n) /\ LittleEndian(v, n) = [i \in 1 .. n |-> f[i] % 256]
  <1>1. PICK f : f = (CHOOSE g : IsRest(g, v, 256, n)) /\ IsRest(f, v, 256, n)
    BY RestExists
  <1>2. LittleEndian(v, n) = [i \in 1 .. n |-> (CHOOSE g : IsRest(g, v, 256, n))[i] % 256]
    BY DEF LittleEndian, IsRest
  <1> QED  BY <1>1, <1>2

(* The sums of the bytes from each place on, without and with a sign. *)
UnsignedFrom(bytes, n, s, i) == IF i > n THEN 0 ELSE bytes[i] + 256 * s[i + 1]
SignedFrom(bytes, n, s, i) ==
    IF i = n THEN IF bytes[n] < 128 THEN bytes[n] ELSE bytes[n] - 256 ELSE bytes[i] + 256 * s[i + 1]

UnsignedSum(bytes, n, s) == s = [i \in 1 .. n + 1 |-> UnsignedFrom(bytes, n, s, i)]
SignedSum(bytes, n, s)   == s = [i \in 1 .. n |-> SignedFrom(bytes, n, s, i)]

(* A function is these sums when each of its values is. *)
LEMMA SumsAre ==
    ASSUME NEW bytes, NEW n, NEW s
    PROVE  /\ UnsignedSum(bytes, n, s) => \A i \in 1 .. n + 1 : s[i] = UnsignedFrom(bytes, n, s, i)
           /\ SignedSum(bytes, n, s) => \A i \in 1 .. n : s[i] = SignedFrom(bytes, n, s, i)
           /\ /\ s = [i \in 1 .. n + 1 |-> s[i]]
              /\ \A i \in 1 .. n + 1 : s[i] = UnsignedFrom(bytes, n, s, i)
              => UnsignedSum(bytes, n, s)
           /\ /\ s = [i \in 1 .. n |-> s[i]]
              /\ \A i \in 1 .. n : s[i] = SignedFrom(bytes, n, s, i)
              => SignedSum(bytes, n, s)
  <1>1. PICK g : g = [i \in 1 .. n + 1 |-> UnsignedFrom(bytes, n, s, i)]
    OBVIOUS
  <1>2. PICK h : h = [i \in 1 .. n |-> SignedFrom(bytes, n, s, i)]
    OBVIOUS
  <1>3. (UnsignedSum(bytes, n, s) <=> s = g) /\ (SignedSum(bytes, n, s) <=> s = h)
    BY <1>1, <1>2, Zenon DEF UnsignedSum, SignedSum
  <1>4. /\ \A i \in 1 .. n + 1 : g[i] = UnsignedFrom(bytes, n, s, i)
        /\ \A i \in 1 .. n : h[i] = SignedFrom(bytes, n, s, i)
    BY <1>1, <1>2, Zenon
  <1>5. g = [i \in 1 .. n + 1 |-> g[i]] /\ h = [i \in 1 .. n |-> h[i]]
    BY <1>1, <1>2
  <1>6. ASSUME s = g PROVE \A i \in 1 .. n + 1 : s[i] = UnsignedFrom(bytes, n, s, i)
    <2>1. \A i \in 1 .. n + 1 : s[i] = g[i]
      BY <1>6, Zenon
    <2> QED  BY <1>4, <2>1, Zenon
  <1>7. ASSUME s = h PROVE \A i \in 1 .. n : s[i] = SignedFrom(bytes, n, s, i)
    <2>1. \A i \in 1 .. n : s[i] = h[i]
      BY <1>7, Zenon
    <2> QED  BY <1>4, <2>1, Zenon
  <1>8. ASSUME \A i \in 1 .. n + 1 : s[i] = UnsignedFrom(bytes, n, s, i)
        PROVE  \A i \in 1 .. n + 1 : s[i] = g[i]
    BY <1>4, <1>8, Zenon
  <1>9. ASSUME \A i \in 1 .. n : s[i] = SignedFrom(bytes, n, s, i)
        PROVE  \A i \in 1 .. n : s[i] = h[i]
    BY <1>4, <1>9, Zenon
  <1>10. ASSUME s = [i \in 1 .. n + 1 |-> s[i]], \A i \in 1 .. n + 1 : s[i] = g[i] PROVE s = g
    BY <1>5, <1>10, Zenon
  <1>11. ASSUME s = [i \in 1 .. n |-> s[i]], \A i \in 1 .. n : s[i] = h[i] PROVE s = h
    BY <1>5, <1>11, Zenon
  <1> QED  BY <1>3, <1>6, <1>7, <1>8, <1>9, <1>10, <1>11, Zenon

(* The bytes without sign give the number back if nothing is left. *)
LEMMA UnsignedIs ==
    ASSUME NEW n \in Nat \ {0}, NEW f, NEW v \in Int, IsRest(f, v, 256, n), f[n] \in 0 .. 255,
           NEW bytes, bytes = [i \in 1 .. n |-> f[i] % 256]
    PROVE  Unsigned(bytes) = v
  <1>1. /\ f[1] = v
        /\ \A i \in 2 .. n : f[i] = f[i - 1] \div 256
        /\ \A i \in 1 .. n : f[i] \in Int
    BY RestIs
  <1>2. Len(bytes) = n
    OBVIOUS
  <1>3. \A i \in 1 .. n : f[i] = bytes[i] + 256 * (IF i + 1 > n THEN 0 ELSE f[i + 1])
    <2> TAKE i \in 1 .. n
    <2>1. f[i] \in Int /\ bytes[i] = f[i] % 256
      BY <1>1
    <2>2. CASE i = n
      <3>1. f[i] \in 0 .. 255 /\ i + 1 > n
        BY <2>2
      <3>0. \A x \in 0 .. 255 : x % 256 = x
        OBVIOUS
      <3>2. bytes[i] = f[i]
        BY <2>1, <3>0, <3>1
      <3> QED  BY <2>1, <3>1, <3>2
    <2>3. CASE i < n
      <3>1. i + 1 \in 2 .. n /\ (i + 1) - 1 = i
        BY <2>3
      <3>2. f[i + 1] = f[i] \div 256
        BY <1>1, <3>1
      <3> QED  BY <2>1, <2>3, <3>2
    <2> QED  BY <2>2, <2>3
  <1>4. \E s : UnsignedSum(bytes, n, s)
    <2>1. PICK s : s = [i \in 1 .. n + 1 |-> IF i > n THEN 0 ELSE f[i]]
      OBVIOUS
    <2>2. ASSUME NEW i \in 1 .. n + 1 PROVE s[i] = UnsignedFrom(bytes, n, s, i)
      <3>1. CASE i > n
        BY <2>1, <3>1 DEF UnsignedFrom
      <3>2. CASE ~ (i > n)
        <4>1. i \in 1 .. n /\ i + 1 \in 1 .. n + 1
          BY <3>2
        <4>2. s[i] = f[i] /\ s[i + 1] = IF i + 1 > n THEN 0 ELSE f[i + 1]
          BY <2>1, <3>2, <4>1
        <4>3. f[i] = bytes[i] + 256 * (IF i + 1 > n THEN 0 ELSE f[i + 1])
          BY <1>3, <4>1
        <4> QED  BY <3>2, <4>2, <4>3 DEF UnsignedFrom
      <3> QED  BY <3>1, <3>2
    <2>3. s = [i \in 1 .. n + 1 |-> s[i]]
      BY <2>1
    <2>4. UnsignedSum(bytes, n, s)
      BY <2>2, <2>3, SumsAre, Zenon
    <2> QED  BY <2>4, Zenon
  <1>5. PICK s : s = (CHOOSE t : UnsignedSum(bytes, Len(bytes), t)) /\ UnsignedSum(bytes, n, s)
    <2>1. \E t : UnsignedSum(bytes, Len(bytes), t)
      BY <1>2, <1>4, Zenon
    <2>2. PICK s : s = (CHOOSE t : UnsignedSum(bytes, Len(bytes), t)) /\ UnsignedSum(bytes, Len(bytes), s)
      BY <2>1, Zenon
    <2> QED  BY <1>2, <2>2, Zenon
  <1>6. Unsigned(bytes) = s[1]
    <2>1. Unsigned(bytes) = (CHOOSE t : UnsignedSum(bytes, Len(bytes), t))[1]
      BY Zenon DEF Unsigned, UnsignedSum, UnsignedFrom
    <2> QED  BY <1>5, <2>1, Zenon
  <1> DEFINE E == {m \in Nat : m < n => s[n - m] = f[n - m]}
  <1>7. \A i \in 1 .. n + 1 : s[i] = UnsignedFrom(bytes, n, s, i)
    <2>1. UnsignedSum(bytes, n, s)
      BY <1>5, Zenon
    <2> QED  BY <2>1, SumsAre
  <1>8. 0 \in E
    <2>1. n \in 1 .. n /\ n \in 1 .. n + 1 /\ n + 1 \in 1 .. n + 1 /\ n + 1 > n /\ ~ (n > n) /\ n - 0 = n
      OBVIOUS
    <2>2. s[n + 1] = 0 /\ s[n] = bytes[n] + 256 * s[n + 1]
      <3>1. s[n + 1] = UnsignedFrom(bytes, n, s, n + 1) /\ s[n] = UnsignedFrom(bytes, n, s, n)
        BY <1>7, <2>1, Zenon
      <3> QED  BY <2>1, <3>1, Zenon DEF UnsignedFrom
    <2>3. f[n] = bytes[n] + 256 * 0
      BY <1>3, <2>1
    <2> QED  BY <2>1, <2>2, <2>3
  <1>9. ASSUME NEW m \in Nat, m \in E PROVE m + 1 \in E
    <2> SUFFICES ASSUME m + 1 < n PROVE s[n - (m + 1)] = f[n - (m + 1)]
      OBVIOUS
    <2>1. PICK i : i = n - (m + 1)
      OBVIOUS
    <2>2. i \in 1 .. n /\ i + 1 = n - m /\ i \in 1 .. n + 1 /\ ~ (i > n) /\ ~ (i + 1 > n) /\ m < n
      BY <2>1
    <2>3. s[i + 1] = f[i + 1]
      BY <1>9, <2>2
    <2>4. s[i] = bytes[i] + 256 * s[i + 1]
      <3>1. s[i] = UnsignedFrom(bytes, n, s, i)
        BY <1>7, <2>2, Zenon
      <3> QED  BY <2>2, <3>1, Zenon DEF UnsignedFrom
    <2>5. f[i] = bytes[i] + 256 * f[i + 1]
      BY <1>3, <2>2
    <2> QED  BY <2>1, <2>3, <2>4, <2>5
  <1>10. \A m \in Nat : m \in E
    <2> HIDE DEF E
    <2> QED  BY <1>8, <1>9, SetInduction
  <1>11. n - 1 \in Nat /\ n - 1 < n /\ n - (n - 1) = 1
    OBVIOUS
  <1>12. n - 1 \in E
    BY <1>10, <1>11
  <1>13. s[1] = f[1]
    BY <1>11, <1>12
  <1> QED  BY <1>1, <1>6, <1>13

(* Nor does a sign get lost, if what is left is the sign. *)
LEMMA SignedIs ==
    ASSUME NEW n \in Nat \ {0}, NEW f, NEW v \in Int, IsRest(f, v, 256, n), f[n] \in -128 .. 127,
           NEW bytes, bytes = [i \in 1 .. n |-> f[i] % 256]
    PROVE  Signed(bytes) = v
  <1>1. /\ f[1] = v
        /\ \A i \in 2 .. n : f[i] = f[i - 1] \div 256
        /\ \A i \in 1 .. n : f[i] \in Int
    BY RestIs
  <1>2. Len(bytes) = n
    OBVIOUS
  <1>3. \A i \in 1 .. n - 1 : f[i] = bytes[i] + 256 * f[i + 1]
    <2> TAKE i \in 1 .. n - 1
    <2>1. i \in 1 .. n /\ i + 1 \in 2 .. n /\ (i + 1) - 1 = i
      OBVIOUS
    <2>2. f[i] \in Int /\ bytes[i] = f[i] % 256 /\ f[i + 1] = f[i] \div 256
      BY <1>1, <2>1
    <2> QED  BY <2>2
  <1>31. (IF bytes[n] < 128 THEN bytes[n] ELSE bytes[n] - 256) = f[n]
    <2>1. \A x \in -128 .. 127 : (IF x % 256 < 128 THEN x % 256 ELSE (x % 256) - 256) = x
      OBVIOUS
    <2>2. n \in 1 .. n
      OBVIOUS
    <2>3. bytes[n] = f[n] % 256
      BY <2>2
    <2>4. PICK x \in -128 .. 127 : x = f[n]
      OBVIOUS
    <2>5. (IF x % 256 < 128 THEN x % 256 ELSE (x % 256) - 256) = x
      BY <2>1
    <2> QED  BY <2>3, <2>4, <2>5
  <1>4. \E s : SignedSum(bytes, n, s)
    <2>1. PICK s : s = [i \in 1 .. n |-> f[i]]
      OBVIOUS
    <2>2. ASSUME NEW i \in 1 .. n PROVE s[i] = SignedFrom(bytes, n, s, i)
      <3>1. CASE i = n
        <4>1. s[i] = f[n]
          BY <2>1, <3>1
        <4> QED  BY <1>31, <3>1, <4>1 DEF SignedFrom
      <3>2. CASE i # n
        <4>1. i \in 1 .. n - 1 /\ i + 1 \in 1 .. n
          BY <3>2
        <4>2. s[i] = f[i] /\ s[i + 1] = f[i + 1]
          BY <2>1, <4>1
        <4>3. f[i] = bytes[i] + 256 * f[i + 1]
          BY <1>3, <4>1
        <4> QED  BY <3>2, <4>2, <4>3 DEF SignedFrom
      <3> QED  BY <3>1, <3>2
    <2>3. s = [i \in 1 .. n |-> s[i]]
      BY <2>1
    <2>4. SignedSum(bytes, n, s)
      BY <2>2, <2>3, SumsAre, Zenon
    <2> QED  BY <2>4, Zenon
  <1>5. PICK s : s = (CHOOSE t : SignedSum(bytes, Len(bytes), t)) /\ SignedSum(bytes, n, s)
    <2>1. \E t : SignedSum(bytes, Len(bytes), t)
      BY <1>2, <1>4, Zenon
    <2>2. PICK s : s = (CHOOSE t : SignedSum(bytes, Len(bytes), t)) /\ SignedSum(bytes, Len(bytes), s)
      BY <2>1, Zenon
    <2> QED  BY <1>2, <2>2, Zenon
  <1>7. Signed(bytes) = s[1]
    <2>1. Signed(bytes) = (CHOOSE t : SignedSum(bytes, Len(bytes), t))[1]
      BY Zenon DEF Signed, SignedSum, SignedFrom
    <2> QED  BY <1>5, <2>1, Zenon
  <1>8. \A i \in 1 .. n : s[i] = SignedFrom(bytes, n, s, i)
    <2>1. SignedSum(bytes, n, s)
      BY <1>5, Zenon
    <2> QED  BY <2>1, SumsAre
  <1> DEFINE E == {m \in Nat : m < n => s[n - m] = f[n - m]}
  <1>9. 0 \in E
    <2>1. n \in 1 .. n /\ n - 0 = n
      OBVIOUS
    <2>2. s[n] = f[n]
      <3>1. s[n] = SignedFrom(bytes, n, s, n)
        BY <1>8, <2>1, Zenon
      <3> QED  BY <1>31, <3>1 DEF SignedFrom
    <2> QED  BY <2>1, <2>2
  <1>10. ASSUME NEW m \in Nat, m \in E PROVE m + 1 \in E
    <2> SUFFICES ASSUME m + 1 < n PROVE s[n - (m + 1)] = f[n - (m + 1)]
      OBVIOUS
    <2>1. PICK i : i = n - (m + 1)
      OBVIOUS
    <2>2. i \in 1 .. n /\ i \in 1 .. n - 1 /\ i + 1 = n - m /\ i # n /\ m < n
      BY <2>1
    <2>3. s[i + 1] = f[i + 1]
      BY <1>10, <2>2
    <2>4. s[i] = bytes[i] + 256 * s[i + 1]
      <3>1. s[i] = SignedFrom(bytes, n, s, i)
        BY <1>8, <2>2, Zenon
      <3> QED  BY <2>2, <3>1, Zenon DEF SignedFrom
    <2>5. f[i] = bytes[i] + 256 * f[i + 1]
      BY <1>3, <2>2
    <2> QED  BY <2>1, <2>3, <2>4, <2>5
  <1>11. \A m \in Nat : m \in E
    <2> HIDE DEF E
    <2> QED  BY <1>9, <1>10, SetInduction
  <1>12. n - 1 \in Nat /\ n - 1 < n /\ n - (n - 1) = 1
    OBVIOUS
  <1>13. n - 1 \in E
    BY <1>11, <1>12
  <1>14. s[1] = f[1]
    BY <1>12, <1>13
  <1> QED  BY <1>1, <1>7, <1>14

(* A sequence turned around twice is what it was. *)
LEMMA ReverseIs ==
    ASSUME NEW S, NEW s \in Seq(S)
    PROVE  /\ Reverse(s) \in Seq(S) /\ Len(Reverse(s)) = Len(s)
           /\ Reverse(Reverse(s)) = s
  <1>1. Len(s) \in Nat /\ s = [i \in 1 .. Len(s) |-> s[i]] /\ \A i \in 1 .. Len(s) : s[i] \in S
    BY LenProperties
  <1>2. PICK n : n = Len(s)
    OBVIOUS
  <1>3. PICK r : r = Reverse(s)
    OBVIOUS
  <1>4. r = [i \in 1 .. n |-> s[(n - i) + 1]]
    BY <1>2, <1>3 DEF Reverse
  <1>5. n \in Nat /\ Len(r) = n
    BY <1>1, <1>2, <1>4
  <1>6. \A i \in 1 .. n : r[i] \in S
    <2> TAKE i \in 1 .. n
    <2>1. (n - i) + 1 \in 1 .. n
      BY <1>5
    <2> QED  BY <1>1, <1>2, <1>4, <2>1
  <1>7. r \in Seq(S)
    <2>1. r \in [1 .. n -> S]
      BY <1>4, <1>6
    <2> QED  BY <1>5, <2>1
  <1>8. Reverse(r) = [i \in 1 .. n |-> r[(n - i) + 1]]
    BY <1>5 DEF Reverse
  <1>9. \A i \in 1 .. n : r[(n - i) + 1] = s[i]
    <2> TAKE i \in 1 .. n
    <2>1. PICK j : j = (n - i) + 1
      OBVIOUS
    <2>2. j \in 1 .. n /\ (n - j) + 1 = i
      BY <1>5, <2>1
    <2>3. r[j] = s[(n - j) + 1]
      BY <1>4, <2>2
    <2> QED  BY <2>1, <2>2, <2>3
  <1>10. Reverse(r) = [i \in 1 .. n |-> s[i]]
    BY <1>8, <1>9
  <1> QED  BY <1>1, <1>2, <1>3, <1>5, <1>7, <1>10

(* The bytes are as many as asked for. *)
LEMMA EndiansAre ==
    ASSUME NEW v \in Int, NEW n \in Nat \ {0}
    PROVE  /\ LittleEndian(v, n) \in Seq(Int) /\ Len(LittleEndian(v, n)) = n
           /\ BigEndian(v, n) \in Seq(Int) /\ Len(BigEndian(v, n)) = n
           /\ Reverse(BigEndian(v, n)) = LittleEndian(v, n)
  <1>1. PICK f : IsRest(f, v, 256, n) /\ LittleEndian(v, n) = [i \in 1 .. n |-> f[i] % 256]
    BY LittleEndianIs
  <1>2. \A i \in 1 .. n : f[i] \in Int
    BY <1>1, RestIs
  <1>3. \A i \in 1 .. n : f[i] % 256 \in Int
    BY <1>2
  <1>4. LittleEndian(v, n) \in Seq(Int) /\ Len(LittleEndian(v, n)) = n
    BY <1>1, <1>3
  <1> QED  BY <1>4, ReverseIs DEF BigEndian

(* What is left of a number when its last byte is taken. *)
Down(x) == x \div 256

(* Two bytes taken are the half of four. *)
LEMMA DownIs == \A x \in Int : Down(x) \in Int /\ Down(Down(x)) = High(x)
  <1> SUFFICES ASSUME NEW x \in Int PROVE Down(x) \in Int /\ Down(Down(x)) = High(x)
    OBVIOUS
  <1>1. x \div 256 \in Int
    OBVIOUS
  <1>2. (x \div 256) \div 256 = x \div 65536
    BY SMTT(30)
  <1> QED  BY <1>1, <1>2, SMTT(30) DEF Down, High

(* What is left of a number when its last byte comes. *)
LEMMA TopIs ==
    ASSUME NEW v \in Int, NEW f
    PROVE  /\ IsRest(f, v, 256, 1) => f[1] = v
           /\ IsRest(f, v, 256, 2) => f[2] = v \div 256
           /\ IsRest(f, v, 256, 4) => f[4] = High(v) \div 256
           /\ IsRest(f, v, 256, 8) => f[8] = High(High(High(v))) \div 256
  <1>1. ASSUME NEW n \in Nat \ {0}, IsRest(f, v, 256, n)
        PROVE  f[1] = v /\ \A i \in 2 .. n : f[i] = Down(f[i - 1])
    <2>1. f[1] = v /\ \A i \in 2 .. n : f[i] = f[i - 1] \div 256
      BY <1>1, RestIs
    <2> QED  BY <2>1, Zenon DEF Down
  <1>2. ASSUME IsRest(f, v, 256, 1) PROVE f[1] = v
    BY <1>1, <1>2
  <1>3. ASSUME IsRest(f, v, 256, 2) PROVE f[2] = Down(v)
    <2>1. f[1] = v /\ \A i \in 2 .. 2 : f[i] = Down(f[i - 1])
      BY <1>1, <1>3
    <2> QED  BY <2>1
  <1>4. ASSUME IsRest(f, v, 256, 4) PROVE f[4] = Down(High(v))
    <2>1. f[1] = v /\ \A i \in 2 .. 4 : f[i] = Down(f[i - 1])
      BY <1>1, <1>4
    <2>2. f[2] = Down(v) /\ f[3] = Down(f[2]) /\ f[4] = Down(f[3])
      BY <2>1
    <2>3. f[3] = High(v)
      BY <2>2, DownIs
    <2> QED  BY <2>2, <2>3
  <1>5. ASSUME IsRest(f, v, 256, 8) PROVE f[8] = Down(High(High(High(v))))
    <2>1. f[1] = v /\ \A i \in 2 .. 8 : f[i] = Down(f[i - 1])
      BY <1>1, <1>5
    <2>2. /\ f[2] = Down(v) /\ f[3] = Down(f[2]) /\ f[4] = Down(f[3])
          /\ f[5] = Down(f[4]) /\ f[6] = Down(f[5]) /\ f[7] = Down(f[6])
      BY <2>1
    <2>3. f[8] = Down(f[7])
      BY <2>1
    <2>4. f[3] \in Int /\ f[3] = High(v)
      BY <2>2, DownIs
    <2>5. f[5] \in Int /\ f[5] = High(f[3])
      BY <2>2, <2>4, DownIs
    <2>6. f[7] = High(f[5])
      BY <2>2, <2>5, DownIs
    <2> QED  BY <2>3, <2>4, <2>5, <2>6
  <1> QED  BY <1>2, <1>3, <1>4, <1>5, Zenon DEF Down

(* Whatever the width and the order of the bytes, the number comes back. *)
LEMMA BytesBack ==
    ASSUME NEW v \in Int, NEW n \in {1, 2, 4, 8}, NEW top \in Int,
           n = 1 => top = v, n = 2 => top = v \div 256, n = 4 => top = High(v) \div 256,
           n = 8 => top = High(High(High(v))) \div 256
    PROVE  /\ top \in 0 .. 255 => Unsigned(LittleEndian(v, n)) = v /\ UnsignedBE(BigEndian(v, n)) = v
           /\ top \in -128 .. 127 => Signed(LittleEndian(v, n)) = v /\ SignedBE(BigEndian(v, n)) = v
  <1>0. n \in Nat \ {0}
    OBVIOUS
  <1>1. PICK f : IsRest(f, v, 256, n) /\ LittleEndian(v, n) = [i \in 1 .. n |-> f[i] % 256]
    BY <1>0, LittleEndianIs
  <1>2. f[n] = top
    BY <1>1, TopIs
  <1>3. ASSUME top \in 0 .. 255 PROVE Unsigned(LittleEndian(v, n)) = v
    <2>1. PICK bytes : bytes = LittleEndian(v, n)
      OBVIOUS
    <2>2. f[n] \in 0 .. 255 /\ bytes = [i \in 1 .. n |-> f[i] % 256] /\ IsRest(f, v, 256, n)
      BY <1>1, <1>2, <1>3, <2>1
    <2>3. Unsigned(bytes) = v
      BY <1>0, <2>2, UnsignedIs
    <2> QED  BY <2>1, <2>3
  <1>4. ASSUME top \in -128 .. 127 PROVE Signed(LittleEndian(v, n)) = v
    <2>1. PICK bytes : bytes = LittleEndian(v, n)
      OBVIOUS
    <2>2. f[n] \in -128 .. 127 /\ bytes = [i \in 1 .. n |-> f[i] % 256] /\ IsRest(f, v, 256, n)
      BY <1>1, <1>2, <1>4, <2>1
    <2>3. Signed(bytes) = v
      BY <1>0, <2>2, SignedIs
    <2> QED  BY <2>1, <2>3
  <1>5. Reverse(BigEndian(v, n)) = LittleEndian(v, n)
    BY <1>0, EndiansAre
  <1> QED  BY <1>3, <1>4, <1>5 DEF UnsignedBE, SignedBE

(* A number of one byte. *)
LEMMA ByteIs == ASSUME NEW v \in Int PROVE << v % 256 >> = LittleEndian(v, 1)
  <1>1. PICK f : IsRest(f, v, 256, 1) /\ LittleEndian(v, 1) = [i \in 1 .. 1 |-> f[i] % 256]
    <2>1. 1 \in Nat \ {0}
      OBVIOUS
    <2> QED  BY <2>1, LittleEndianIs
  <1>2. f[1] = v
    BY <1>1, TopIs
  <1>3. \A i \in 1 .. 1 : f[i] % 256 = v % 256
    BY <1>2
  <1>4. [i \in 1 .. 1 |-> f[i] % 256] = << v % 256 >>
    BY <1>3
  <1> QED  BY <1>1, <1>4

(* Bytes written at a position are there, and those before it stay. *)
Overwritten(old, new, pos, r) ==
    /\ r \in Seq(Int)
    /\ Len(r) = IF pos + Len(new) > Len(old) THEN pos + Len(new) ELSE Len(old)
    /\ \A i \in 1 .. pos : r[i] = old[i]
    /\ \A i \in 1 .. Len(new) : r[pos + i] = new[i]

LEMMA OverwriteIs ==
    ASSUME NEW old \in Seq(Int), NEW new \in Seq(Int), NEW pos \in 0 .. Len(old), NEW gap \in Int,
           NEW r, r = Overwrite(old, new, pos, gap)
    PROVE  Overwritten(old, new, pos, r)
  <1>1. /\ Len(old) \in Nat /\ \A i \in 1 .. Len(old) : old[i] \in Int
        /\ Len(new) \in Nat /\ \A i \in 1 .. Len(new) : new[i] \in Int
    BY LenProperties
  <1>2. PICK n : n = IF pos + Len(new) > Len(old) THEN pos + Len(new) ELSE Len(old)
    OBVIOUS
  <1>3. n \in Nat
    BY <1>1, <1>2
  <1>4. r = [i \in 1 .. n |-> IF i \in pos + 1 .. pos + Len(new) THEN new[i - pos]
                              ELSE IF i <= Len(old) THEN old[i] ELSE gap]
    BY <1>2 DEF Overwrite
  <1>5. \A i \in 1 .. n : r[i] \in Int
    <2> TAKE i \in 1 .. n
    <2>1. CASE i \in pos + 1 .. pos + Len(new)
      <3>1. i - pos \in 1 .. Len(new)
        BY <1>1, <2>1
      <3>2. r[i] = new[i - pos]
        BY <1>4, <2>1
      <3> QED  BY <1>1, <3>1, <3>2
    <2>2. CASE i \notin pos + 1 .. pos + Len(new) /\ i <= Len(old)
      <3>1. i \in 1 .. Len(old) /\ r[i] = old[i]
        BY <1>1, <1>4, <2>2
      <3> QED  BY <1>1, <3>1
    <2>3. CASE i \notin pos + 1 .. pos + Len(new) /\ ~ (i <= Len(old))
      BY <1>4, <2>3
    <2> QED  BY <2>1, <2>2, <2>3
  <1>6. r \in [1 .. n -> Int]
    BY <1>4, <1>5
  <1>7. r \in Seq(Int) /\ Len(r) = n
    BY <1>3, <1>6
  <1>8. ASSUME NEW i \in 1 .. pos PROVE r[i] = old[i]
    <2>1. i \in 1 .. n /\ i \notin pos + 1 .. pos + Len(new) /\ i <= Len(old)
      BY <1>1, <1>2
    <2> QED  BY <1>4, <2>1
  <1>9. ASSUME NEW i \in 1 .. Len(new) PROVE r[pos + i] = new[i]
    <2>1. pos + i \in 1 .. n /\ pos + i \in pos + 1 .. pos + Len(new) /\ (pos + i) - pos = i
      BY <1>1, <1>2
    <2> QED  BY <1>4, <2>1
  <1> QED  BY <1>2, <1>7, <1>8, <1>9 DEF Overwritten

(* A buffer that grows keeps what it has. *)
LEMMA GrowIs ==
    ASSUME NEW bytes \in Seq(Int), NEW size \in Nat, size >= Len(bytes), NEW r, r = Grow(bytes, size)
    PROVE  r \in Seq(Int) /\ Len(r) = size /\ \A i \in 1 .. Len(bytes) : r[i] = bytes[i]
  <1>1. Len(bytes) \in Nat /\ \A i \in 1 .. Len(bytes) : bytes[i] \in Int
    BY LenProperties
  <1>2. r = [i \in 1 .. size |-> IF i <= Len(bytes) THEN bytes[i] ELSE -1]
    BY DEF Grow, Undefined
  <1>3. \A i \in 1 .. size : r[i] \in Int
    <2> TAKE i \in 1 .. size
    <2>1. CASE i <= Len(bytes)
      <3>1. i \in 1 .. Len(bytes) /\ r[i] = bytes[i]
        BY <1>1, <1>2, <2>1
      <3> QED  BY <1>1, <3>1
    <2>2. CASE ~ (i <= Len(bytes))
      BY <1>2, <2>2
    <2> QED  BY <2>1, <2>2
  <1>4. r \in [1 .. size -> Int]
    BY <1>2, <1>3
  <1>5. \A i \in 1 .. Len(bytes) : r[i] = bytes[i]
    BY <1>1, <1>2
  <1> QED  BY <1>4, <1>5

(* A writer at the end of what it holds, which is s. *)
Holds(w, s) ==
    /\ w \in [kind : {"channel", "bytearray"}, bytes : Seq(Int), pos : Nat, used : Nat, out : Seq(Int)]
    /\ s \in Seq(Int)
    /\ w.pos = Len(s) /\ w.used = Len(s) /\ Len(s) <= Len(w.bytes)
    /\ w.kind = "channel" => Len(w.bytes) = Len(s)
    /\ \A i \in 1 .. Len(s) : w.bytes[i] = s[i]

(* What has s at its beginning and buf behind it begins with both. *)
LEMMA Behind ==
    ASSUME NEW s \in Seq(Int), NEW buf \in Seq(Int), NEW r,
           \A i \in 1 .. Len(s) : r[i] = s[i], \A i \in 1 .. Len(buf) : r[Len(s) + i] = buf[i]
    PROVE  /\ s \o buf \in Seq(Int) /\ Len(s \o buf) = Len(s) + Len(buf)
           /\ \A i \in 1 .. Len(s \o buf) : r[i] = (s \o buf)[i]
  <1>1. Len(s) \in Nat /\ Len(buf) \in Nat
    BY LenProperties
  <1>2. /\ s \o buf \in Seq(Int) /\ Len(s \o buf) = Len(s) + Len(buf)
        /\ \A i \in 1 .. Len(s) + Len(buf) : (s \o buf)[i] = IF i <= Len(s) THEN s[i] ELSE buf[i - Len(s)]
    BY ConcatProperties
  <1>3. ASSUME NEW i \in 1 .. Len(s) + Len(buf) PROVE r[i] = (s \o buf)[i]
    <2>1. CASE i <= Len(s)
      <3>1. i \in 1 .. Len(s)
        BY <1>1, <2>1
      <3> QED  BY <1>2, <2>1, <3>1
    <2>2. CASE ~ (i <= Len(s))
      <3>1. i - Len(s) \in 1 .. Len(buf) /\ Len(s) + (i - Len(s)) = i
        BY <1>1, <2>2
      <3>2. r[Len(s) + (i - Len(s))] = buf[i - Len(s)]
        BY <3>1
      <3> QED  BY <1>2, <2>2, <3>1, <3>2
    <2> QED  BY <2>1, <2>2
  <1> QED  BY <1>2, <1>3

(* A writer with other bytes and another place. *)
LEMMA WriterChanged ==
    ASSUME NEW w \in [kind : {"channel", "bytearray"}, bytes : Seq(Int), pos : Nat, used : Nat, out : Seq(Int)],
           NEW bytes \in Seq(Int), NEW pos \in Nat, NEW used \in Nat,
           NEW r, r = [w EXCEPT !.bytes = bytes, !.pos = pos, !.used = used]
    PROVE  /\ r \in [kind : {"channel", "bytearray"}, bytes : Seq(Int), pos : Nat, used : Nat, out : Seq(Int)]
           /\ r.bytes = bytes /\ r.pos = pos /\ r.used = used /\ r.kind = w.kind
  <1>1. PICK S : S = Seq(Int)
    OBVIOUS
  <1>2. w \in [kind : {"channel", "bytearray"}, bytes : S, pos : Nat, used : Nat, out : S] /\ bytes \in S
    BY <1>1, Zenon
  <1>3. /\ r \in [kind : {"channel", "bytearray"}, bytes : S, pos : Nat, used : Nat, out : S]
        /\ r.bytes = bytes /\ r.pos = pos /\ r.used = used /\ r.kind = w.kind
    BY <1>2
  <1> QED  BY <1>1, <1>3, Zenon

(* Bytes written here come behind what the writer holds. *)
LEMMA WriteHolds ==
    ASSUME NEW w, NEW s, Holds(w, s), NEW buf \in Seq(Int), buf # << >>
    PROVE  Holds(aktive_write_here(w, buf), s \o buf)
  <1>1. /\ w \in [kind : {"channel", "bytearray"}, bytes : Seq(Int), pos : Nat, used : Nat, out : Seq(Int)]
        /\ s \in Seq(Int)
        /\ w.pos = Len(s) /\ w.used = Len(s) /\ Len(s) <= Len(w.bytes)
        /\ w.kind = "channel" => Len(w.bytes) = Len(s)
        /\ \A i \in 1 .. Len(s) : w.bytes[i] = s[i]
    BY DEF Holds
  <1>2. Len(s) \in Nat /\ Len(w.bytes) \in Nat /\ Len(buf) \in Nat /\ w.bytes \in Seq(Int)
    BY <1>1, LenProperties
  <1>3. PICK r : r = aktive_write_here(w, buf)
    OBVIOUS
  <1>4. PICK end : end = Len(s) + Len(buf)
    OBVIOUS
  <1>5. end \in Nat /\ end >= Len(s)
    BY <1>2, <1>4
  <1>6. CASE w.kind = "channel"
    <2>1. PICK bytes : bytes = Overwrite(w.bytes, buf, Len(s), 0)
      OBVIOUS
    <2>2. r = [w EXCEPT !.bytes = bytes, !.pos = end, !.used = Len(bytes)]
      BY <1>1, <1>3, <1>4, <1>6, <2>1
      DEF aktive_write_here, Write, aktive_writer_to_channel, AKTIVE_WRITE_HERE, AKTIVE_WRITE_END, AKTIVE_WRITE_DONE
    <2>3. Len(s) \in 0 .. Len(w.bytes)
      BY <1>1, <1>2
    <2>4. /\ bytes \in Seq(Int)
          /\ Len(bytes) = IF Len(s) + Len(buf) > Len(w.bytes) THEN Len(s) + Len(buf) ELSE Len(w.bytes)
          /\ \A i \in 1 .. Len(s) : bytes[i] = w.bytes[i]
          /\ \A i \in 1 .. Len(buf) : bytes[Len(s) + i] = buf[i]
      <3>1. PICK old, pos : old = w.bytes /\ pos = Len(s)
        OBVIOUS
      <3>2. old \in Seq(Int) /\ pos \in 0 .. Len(old) /\ 0 \in Int /\ bytes = Overwrite(old, buf, pos, 0)
        BY <1>2, <2>1, <2>3, <3>1
      <3>3. Overwritten(old, buf, pos, bytes)
        BY <3>2, OverwriteIs
      <3> QED  BY <3>1, <3>3 DEF Overwritten
    <2>5. Len(bytes) = end
      BY <1>1, <1>2, <1>4, <1>6, <2>4
    <2>6. \A i \in 1 .. Len(s) : bytes[i] = s[i]
      BY <1>1, <2>4
    <2>7. /\ s \o buf \in Seq(Int) /\ Len(s \o buf) = Len(s) + Len(buf)
          /\ \A i \in 1 .. Len(s \o buf) : bytes[i] = (s \o buf)[i]
      BY <1>1, <2>4, <2>6, Behind
    <2>8. /\ r \in [kind : {"channel", "bytearray"}, bytes : Seq(Int), pos : Nat, used : Nat, out : Seq(Int)]
          /\ r.bytes = bytes /\ r.pos = end /\ r.used = end /\ r.kind = w.kind
      BY <1>1, <1>5, <2>2, <2>4, <2>5, WriterChanged, Zenon
    <2>9. Holds(r, s \o buf)
      <3>1. PICK cat : cat = s \o buf
        OBVIOUS
      <3>2. cat \in Seq(Int) /\ Len(cat) = end /\ \A i \in 1 .. Len(cat) : bytes[i] = cat[i]
        BY <1>4, <2>7, <3>1, Zenon
      <3>3. Holds(r, cat)
        BY <1>5, <2>5, <2>8, <3>2 DEF Holds
      <3> QED  BY <3>1, <3>3, Zenon
    <2> QED  BY <1>3, <2>9
  <1>7. CASE w.kind # "channel"
    <2>1. PICK room : room = IF end > Len(w.bytes) THEN Grow(w.bytes, 2 * end) ELSE w.bytes
      OBVIOUS
    <2>2. PICK bytes : bytes = Overwrite(room, buf, Len(s), -1)
      OBVIOUS
    <2>3. r = [w EXCEPT !.bytes = bytes, !.pos = end, !.used = Used(w.used, end)]
      BY <1>1, <1>3, <1>4, <1>7, <2>1, <2>2
      DEF aktive_write_here, Write, aktive_writer_to_bytearray, AKTIVE_WRITE_HERE, AKTIVE_WRITE_END,
          AKTIVE_WRITE_DONE, Undefined
    <2>4. /\ room \in Seq(Int) /\ Len(room) \in Nat /\ Len(room) >= end
          /\ \A i \in 1 .. Len(s) : room[i] = w.bytes[i]
      <3>1. CASE end > Len(w.bytes)
        <4>0. PICK size : size = 2 * end
          OBVIOUS
        <4>1. size \in Nat /\ size >= Len(w.bytes) /\ room = Grow(w.bytes, size) /\ size >= end
          <5>1. room = Grow(w.bytes, size)
            BY <2>1, <3>1, <4>0, Zenon
          <5>2. size \in Nat /\ size >= end /\ size >= Len(w.bytes)
            BY <1>2, <1>5, <3>1, <4>0
          <5> QED  BY <5>1, <5>2, Zenon
        <4>2. room \in Seq(Int) /\ Len(room) = size /\ \A i \in 1 .. Len(w.bytes) : room[i] = w.bytes[i]
          BY <1>2, <4>1, GrowIs
        <4>3. \A i \in 1 .. Len(s) : i \in 1 .. Len(w.bytes)
          BY <1>1, <1>2
        <4>4. \A i \in 1 .. Len(s) : room[i] = w.bytes[i]
          BY <4>2, <4>3, Zenon
        <4>5. room \in Seq(Int) /\ Len(room) \in Nat /\ Len(room) >= end
          BY <4>1, <4>2, Zenon
        <4> QED  BY <4>4, <4>5, Zenon
      <3>2. CASE ~ (end > Len(w.bytes))
        BY <1>2, <1>5, <2>1, <3>2
      <3> QED  BY <3>1, <3>2
    <2>5. Len(s) \in 0 .. Len(room)
      BY <1>2, <1>5, <2>4
    <2>6. /\ bytes \in Seq(Int)
          /\ Len(bytes) = IF Len(s) + Len(buf) > Len(room) THEN Len(s) + Len(buf) ELSE Len(room)
          /\ \A i \in 1 .. Len(s) : bytes[i] = room[i]
          /\ \A i \in 1 .. Len(buf) : bytes[Len(s) + i] = buf[i]
      <3>1. PICK pos, gap : pos = Len(s) /\ gap = -1
        OBVIOUS
      <3>2. room \in Seq(Int) /\ pos \in 0 .. Len(room) /\ gap \in Int /\ bytes = Overwrite(room, buf, pos, gap)
        BY <2>2, <2>4, <2>5, <3>1
      <3>3. Overwritten(room, buf, pos, bytes)
        BY <3>2, OverwriteIs
      <3> QED  BY <3>1, <3>3 DEF Overwritten
    <2>7. Len(bytes) >= end
      BY <1>2, <1>4, <2>4, <2>6
    <2>8. \A i \in 1 .. Len(s) : bytes[i] = s[i]
      BY <1>1, <2>4, <2>6
    <2>9. /\ s \o buf \in Seq(Int) /\ Len(s \o buf) = Len(s) + Len(buf)
          /\ \A i \in 1 .. Len(s \o buf) : bytes[i] = (s \o buf)[i]
      BY <1>1, <2>6, <2>8, Behind
    <2>10. Used(w.used, end) = end
      BY <1>1, <1>2, <1>5 DEF Used
    <2>11. /\ r \in [kind : {"channel", "bytearray"}, bytes : Seq(Int), pos : Nat, used : Nat, out : Seq(Int)]
           /\ r.bytes = bytes /\ r.pos = end /\ r.used = end /\ r.kind = w.kind
      <3>1. r = [w EXCEPT !.bytes = bytes, !.pos = end, !.used = end]
        BY <2>3, <2>10, Zenon
      <3> QED  BY <1>1, <1>5, <2>6, <3>1, WriterChanged, Zenon
    <2>12. Holds(r, s \o buf)
      <3>1. PICK cat : cat = s \o buf
        OBVIOUS
      <3>2. cat \in Seq(Int) /\ Len(cat) = end /\ \A i \in 1 .. Len(cat) : bytes[i] = cat[i]
        BY <1>4, <2>9, <3>1, Zenon
      <3>3. Holds(r, cat)
        BY <1>5, <1>7, <2>7, <2>11, <3>2 DEF Holds
      <3> QED  BY <3>1, <3>3, Zenon
    <2> QED  BY <1>3, <2>12
  <1> QED  BY <1>6, <1>7

(* What is handed out is what the writer holds. *)
LEMMA DoneHolds ==
    ASSUME NEW w, NEW s, Holds(w, s)
    PROVE  aktive_write_done(w).out = s
  <1>1. /\ w \in [kind : {"channel", "bytearray"}, bytes : Seq(Int), pos : Nat, used : Nat, out : Seq(Int)]
        /\ s \in Seq(Int)
        /\ w.pos = Len(s) /\ w.used = Len(s) /\ Len(s) <= Len(w.bytes)
        /\ w.kind = "channel" => Len(w.bytes) = Len(s)
        /\ \A i \in 1 .. Len(s) : w.bytes[i] = s[i]
    BY DEF Holds
  <1>2. Len(s) \in Nat /\ Len(w.bytes) \in Nat /\ w.bytes \in Seq(Int)
    BY <1>1, LenProperties
  <1>3. CASE w.kind = "channel"
    <2>1. aktive_write_done(w).out = w.bytes
      BY <1>1, <1>3 DEF aktive_write_done, Write, aktive_writer_to_channel, AKTIVE_WRITE_DONE
    <2>2. w.bytes = s
      <3>1. PICK b : b = w.bytes
        OBVIOUS
      <3>2. b \in Seq(Int) /\ Len(b) = Len(s) /\ \A i \in 1 .. Len(s) : b[i] = s[i]
        BY <1>1, <1>2, <1>3, <3>1
      <3>3. b = s
        BY <1>1, <3>2, SeqEqual
      <3> QED  BY <3>1, <3>3
    <2> QED  BY <2>1, <2>2
  <1>4. CASE w.kind # "channel"
    <2>1. aktive_write_done(w).out = SubSeq(w.bytes, 1, Len(s))
      BY <1>1, <1>4 DEF aktive_write_done, Write, aktive_writer_to_bytearray, AKTIVE_WRITE_DONE
    <2>2. PICK b, c : b = w.bytes /\ c = SubSeq(b, 1, Len(s))
      OBVIOUS
    <2>3. \A i \in 1 .. Len(s) : b[i] = s[i] /\ b[i] \in Int
      BY <1>1, <2>2, LenProperties
    <2>4. 1 \in Int /\ Len(s) \in Int
      BY <1>2
    <2>5. /\ c \in Seq(Int) /\ Len(c) = IF 1 <= Len(s) THEN (Len(s) - 1) + 1 ELSE 0
          /\ \A i \in 1 .. (Len(s) - 1) + 1 : c[i] = b[(1 + i) - 1]
      BY <2>2, <2>3, <2>4, SubSeqProperties
    <2>6. Len(c) = Len(s)
      BY <1>2, <2>5
    <2>7. \A i \in 1 .. Len(s) : c[i] = s[i]
      <3> TAKE i \in 1 .. Len(s)
      <3>1. i \in 1 .. (Len(s) - 1) + 1 /\ (1 + i) - 1 = i
        BY <1>2
      <3> QED  BY <2>3, <2>5, <3>1
    <2>8. c = s
      BY <1>1, <2>5, <2>6, <2>7, SeqEqual
    <2> QED  BY <2>1, <2>2, <2>8
  <1> QED  BY <1>3, <1>4

(* The kinds that have the highest byte first. *)
BigKinds == {"uint16be", "int16be", "uint32be", "int32be", "uint64be", "int64be", "float64be"}

(* What a number is written as. *)
Encoded(kind, v) ==
    IF kind = "text" THEN Decimal(v) \o << 32 >>
    ELSE IF kind \in BigKinds THEN BigEndian(v, Width(kind)) ELSE LittleEndian(v, Width(kind))

(* There are four widths. *)
LEMMA WidthIs == ASSUME NEW kind PROVE Width(kind) \in {1, 2, 4, 8} /\ Width(kind) \in Nat \ {0}
  BY DEF Width

(* The kinds that are not text are written as such. *)
LEMMA EncodedIs ==
    ASSUME NEW v \in Int, NEW w, NEW kind \in Kinds \ {"text"}
    PROVE  /\ WriteOne(w, kind, v) = aktive_write_here(w, Encoded(kind, v))
           /\ Encoded(kind, v) \in Seq(Int) /\ Encoded(kind, v) # << >>
           /\ Len(Encoded(kind, v)) = Width(kind)
  <1>1. /\ Encoded(kind, v) \in Seq(Int) /\ Encoded(kind, v) # << >>
        /\ Len(Encoded(kind, v)) = Width(kind)
    <2>1. PICK n : n = Width(kind) /\ n \in Nat \ {0}
      BY WidthIs
    <2>2. /\ LittleEndian(v, n) \in Seq(Int) /\ Len(LittleEndian(v, n)) = n
          /\ BigEndian(v, n) \in Seq(Int) /\ Len(BigEndian(v, n)) = n
      BY <2>1, EndiansAre
    <2>3. Encoded(kind, v) = BigEndian(v, n) \/ Encoded(kind, v) = LittleEndian(v, n)
      BY <2>1 DEF Encoded
    <2> QED  BY <2>1, <2>2, <2>3
  <1>2. CASE kind \in {"uint64be", "int64be", "float64be"}
    <2>1. Encoded(kind, v) = BigEndian(v, 8)
      BY <1>2 DEF Encoded, Width, BigKinds
    <2>2. WriteOne(w, kind, v) = aktive_write_here(w, BigEndian(v, 8))
      BY <1>2 DEF WriteOne, aktive_write_here_uint64be, aktive_write_here_int64be, aktive_write_here_float64be
    <2> QED  BY <1>1, <2>1, <2>2
  <1>3. CASE kind \in {"uint32be", "int32be"}
    <2>1. Encoded(kind, v) = BigEndian(v, 4)
      BY <1>3 DEF Encoded, Width, BigKinds
    <2>2. WriteOne(w, kind, v) = aktive_write_here(w, BigEndian(v, 4))
      BY <1>3 DEF WriteOne, aktive_write_here_uint32be, aktive_write_here_int32be
    <2> QED  BY <1>1, <2>1, <2>2
  <1>4. CASE kind \in {"uint16be", "int16be"}
    <2>1. Encoded(kind, v) = BigEndian(v, 2)
      BY <1>4 DEF Encoded, Width, BigKinds
    <2>2. WriteOne(w, kind, v) = aktive_write_here(w, BigEndian(v, 2))
      BY <1>4 DEF WriteOne, aktive_write_here_uint16be, aktive_write_here_int16be
    <2> QED  BY <1>1, <2>1, <2>2
  <1>5. CASE kind \in {"uint64le", "int64le", "float64le"}
    <2>1. Encoded(kind, v) = LittleEndian(v, 8)
      BY <1>5 DEF Encoded, Width, BigKinds
    <2>2. WriteOne(w, kind, v) = aktive_write_here(w, LittleEndian(v, 8))
      BY <1>5 DEF WriteOne, aktive_write_here_uint64le, aktive_write_here_int64le, aktive_write_here_float64le
    <2> QED  BY <1>1, <2>1, <2>2
  <1>6. CASE kind \in {"uint32le", "int32le"}
    <2>1. Encoded(kind, v) = LittleEndian(v, 4)
      BY <1>6 DEF Encoded, Width, BigKinds
    <2>2. WriteOne(w, kind, v) = aktive_write_here(w, LittleEndian(v, 4))
      BY <1>6 DEF WriteOne, aktive_write_here_uint32le, aktive_write_here_int32le
    <2> QED  BY <1>1, <2>1, <2>2
  <1>7. CASE kind \in {"uint16le", "int16le"}
    <2>1. Encoded(kind, v) = LittleEndian(v, 2)
      BY <1>7 DEF Encoded, Width, BigKinds
    <2>2. WriteOne(w, kind, v) = aktive_write_here(w, LittleEndian(v, 2))
      BY <1>7 DEF WriteOne, aktive_write_here_uint16le, aktive_write_here_int16le
    <2> QED  BY <1>1, <2>1, <2>2
  <1>8. CASE kind \in {"uint8", "int8"}
    <2>1. Encoded(kind, v) = LittleEndian(v, 1)
      BY <1>8 DEF Encoded, Width, BigKinds
    <2>2. WriteOne(w, kind, v) = aktive_write_here(w, LittleEndian(v, 1))
      BY <1>8, ByteIs DEF WriteOne, aktive_write_here_uint8, aktive_write_here_int8
    <2> QED  BY <1>1, <2>1, <2>2
  <1> QED  BY <1>2, <1>3, <1>4, <1>5, <1>6, <1>7, <1>8 DEF Kinds

(* A source at certain bytes. *)
Sources == [bytes : Seq(Int), pos : Nat]

BytesAt(r, buf) == /\ r.pos + Len(buf) <= Len(r.bytes)
              /\ \A i \in 1 .. Len(buf) : r.bytes[r.pos + i] = buf[i]

Ahead(r, n) == [r EXCEPT !.pos = r.pos + n]

Yields(found, v, r) == found = [ok |-> TRUE, v |-> v, r |-> r]

(* They are read, from a channel as from memory. *)
LEMMA StringIs ==
    ASSUME NEW r \in Sources, NEW buf \in Seq(Int), BytesAt(r, buf), NEW n, n = Len(buf)
    PROVE  /\ Yields(aktive_read_string(r, n), buf, Ahead(r, n))
           /\ Yields(aktive_get_string(r, n), buf, Ahead(r, n))
  <1>1. PICK b, pos : b = r.bytes /\ pos = r.pos
    OBVIOUS
  <1>2. /\ b \in Seq(Int) /\ pos \in Nat /\ n \in Nat /\ Len(b) \in Nat
        /\ \A i \in 1 .. Len(b) : b[i] \in Int
    BY <1>1, LenProperties DEF Sources
  <1>3. pos + n <= Len(b) /\ \A i \in 1 .. n : b[pos + i] = buf[i]
    BY <1>1 DEF BytesAt
  <1>4. PICK found : found = SubSeq(b, pos + 1, pos + n)
    OBVIOUS
  <1>5. found = buf
    <2>1. pos + 1 \in Int /\ pos + n \in Int /\ \A i \in pos + 1 .. pos + n : b[i] \in Int
      BY <1>2, <1>3
    <2>2. /\ found \in Seq(Int) /\ Len(found) = IF pos + 1 <= pos + n THEN ((pos + n) - (pos + 1)) + 1 ELSE 0
          /\ \A i \in 1 .. ((pos + n) - (pos + 1)) + 1 : found[i] = b[((pos + 1) + i) - 1]
      BY <1>4, <2>1, SubSeqProperties
    <2>3. Len(found) = Len(buf)
      BY <1>2, <2>2
    <2>4. \A i \in 1 .. Len(found) : found[i] = buf[i]
      <3> TAKE i \in 1 .. Len(found)
      <3>1. i \in 1 .. n /\ i \in 1 .. ((pos + n) - (pos + 1)) + 1 /\ ((pos + 1) + i) - 1 = pos + i
        BY <1>2, <2>3
      <3> QED  BY <1>3, <2>2, <3>1
    <2> QED  BY <2>2, <2>3, <2>4, SeqEqual
  <1>6. Tcl_Read(r, n) = buf
    <2>1. (IF pos + n > Len(b) THEN Len(b) ELSE pos + n) = pos + n
      BY <1>2, <1>3
    <2> QED  BY <1>1, <1>4, <1>5, <2>1 DEF Tcl_Read
  <1>7. ~ (n < n) /\ ~ (pos + n > Len(b))
    BY <1>2, <1>3
  <1>8. Yields(aktive_read_string(r, n), buf, Ahead(r, n))
    BY <1>1, <1>6, <1>7 DEF aktive_read_string, Ahead, Yields
  <1>9. Yields(aktive_get_string(r, n), buf, Ahead(r, n))
    BY <1>1, <1>4, <1>5, <1>7 DEF aktive_get_string, Ahead, Yields
  <1> QED  BY <1>8, <1>9

(* And what is read is decoded. *)
WithValue(found, x) == IF found.ok THEN [found EXCEPT !.v = x] ELSE found

LEMMA DecodedIs ==
    ASSUME NEW found, NEW buf, NEW r, Yields(found, buf, r), NEW x
    PROVE  Yields(WithValue(found, x), x, r) /\ found.v = buf
  BY DEF Yields, WithValue

(* So its bytes give it back. *)
LEMMA ValueBack ==
    ASSUME NEW v \in Int, NEW kind \in Kinds \ {"text"}, InRange(kind, v), NEW buf, buf = Encoded(kind, v)
    PROVE  /\ kind \in PlainKinds /\ kind \in BigKinds => UnsignedBE(buf) = v
           /\ kind \in PlainKinds /\ kind \notin BigKinds => Unsigned(buf) = v
           /\ kind \notin PlainKinds /\ kind \in BigKinds => SignedBE(buf) = v
           /\ kind \notin PlainKinds /\ kind \notin BigKinds => Signed(buf) = v
  <1>1. PICK n : n = Width(kind) /\ n \in {1, 2, 4, 8}
    BY WidthIs
  <1>2. PICK top : top = Lead(n, v)
    OBVIOUS
  <1>3. /\ n = 1 => top = v
        /\ n = 2 => top = v \div 256
        /\ n = 4 => top = High(v) \div 256
        /\ n = 8 => top = High(High(High(v))) \div 256
    BY <1>2 DEF Lead
  <1>4. top \in IF kind \in PlainKinds THEN 0 .. 255 ELSE -128 .. 127
    BY <1>1, <1>2 DEF InRange
  <1>5. top \in Int
    BY <1>4
  <1>6. /\ top \in 0 .. 255 => Unsigned(LittleEndian(v, n)) = v /\ UnsignedBE(BigEndian(v, n)) = v
        /\ top \in -128 .. 127 => Signed(LittleEndian(v, n)) = v /\ SignedBE(BigEndian(v, n)) = v
    BY <1>1, <1>3, <1>5, BytesBack
  <1>7. buf = IF kind \in BigKinds THEN BigEndian(v, n) ELSE LittleEndian(v, n)
    BY <1>1 DEF Encoded
  <1> QED  BY <1>4, <1>6, <1>7

(* So a number of any kind but text comes back. *)
LEMMA DecodedBack ==
    ASSUME NEW v \in Int, NEW kind \in Kinds \ {"text"}, InRange(kind, v), NEW r \in Sources,
           BytesAt(r, Encoded(kind, v)), NEW next, next = Ahead(r, Len(Encoded(kind, v)))
    PROVE  /\ Yields(ReadOne(kind, r)[1], v, next)
           /\ Yields(ReadOne(kind, r)[2], v, next)
  <1>1. PICK buf, n : buf = Encoded(kind, v) /\ n = Width(kind)
    OBVIOUS
  <1>2. buf \in Seq(Int) /\ Len(buf) = n
    BY <1>1, EncodedIs
  <1>3. PICK s, t : s = aktive_read_string(r, n) /\ t = aktive_get_string(r, n)
    OBVIOUS
  <1>4. Yields(s, buf, next) /\ Yields(t, buf, next)
    BY <1>1, <1>2, <1>3, StringIs
  <1>5. /\ kind \in PlainKinds /\ kind \in BigKinds => UnsignedBE(buf) = v
        /\ kind \in PlainKinds /\ kind \notin BigKinds => Unsigned(buf) = v
        /\ kind \notin PlainKinds /\ kind \in BigKinds => SignedBE(buf) = v
        /\ kind \notin PlainKinds /\ kind \notin BigKinds => Signed(buf) = v
    BY <1>1, ValueBack
  <1>51. s.v = buf /\ t.v = buf
    BY <1>4, DecodedIs
  <1>52. Yields(WithValue(s, v), v, next) /\ Yields(WithValue(t, v), v, next)
    BY <1>4, DecodedIs
  <1>6. CASE kind \in {"uint16be", "uint32be"}
    <2>1. kind \in PlainKinds /\ kind \in BigKinds
      BY <1>6 DEF PlainKinds, BigKinds
    <2>2. ReadOne(kind, r) = << WithValue(s, UnsignedBE(s.v)), WithValue(t, UnsignedBE(t.v)) >>
      BY <1>1, <1>3, <1>6
      DEF Width, Decoded, ReadOne, WithValue, aktive_read_uint16be, aktive_get_uint16be, aktive_read_uint32be,
          aktive_get_uint32be
    <2>3. UnsignedBE(s.v) = v /\ UnsignedBE(t.v) = v
      BY <1>5, <1>51, <2>1, Zenon
    <2>4. ReadOne(kind, r) = << WithValue(s, v), WithValue(t, v) >>
      BY <2>2, <2>3, Zenon
    <2> QED  BY <1>52, <2>4
  <1>7. CASE kind \in {"uint8", "uint16le", "uint32le"}
    <2>1. kind \in PlainKinds /\ kind \notin BigKinds
      BY <1>7 DEF PlainKinds, BigKinds
    <2>2. ReadOne(kind, r) = << WithValue(s, Unsigned(s.v)), WithValue(t, Unsigned(t.v)) >>
      BY <1>1, <1>3, <1>7
      DEF Width, Decoded, ReadOne, WithValue, aktive_read_uint8, aktive_get_uint8, aktive_read_uint16le, aktive_get_uint16le,
          aktive_read_uint32le, aktive_get_uint32le
    <2>3. Unsigned(s.v) = v /\ Unsigned(t.v) = v
      BY <1>5, <1>51, <2>1, Zenon
    <2>4. ReadOne(kind, r) = << WithValue(s, v), WithValue(t, v) >>
      BY <2>2, <2>3, Zenon
    <2> QED  BY <1>52, <2>4
  <1>8. CASE kind \in {"uint64be", "int16be", "int32be", "int64be", "float64be"}
    <2>1. kind \notin PlainKinds /\ kind \in BigKinds
      BY <1>8 DEF PlainKinds, BigKinds
    <2>2. ReadOne(kind, r) = << WithValue(s, SignedBE(s.v)), WithValue(t, SignedBE(t.v)) >>
      BY <1>1, <1>3, <1>8
      DEF Width, Decoded, ReadOne, WithValue, aktive_read_uint64be, aktive_get_uint64be, aktive_read_int16be, aktive_get_int16be,
          aktive_read_int32be, aktive_get_int32be, aktive_read_int64be, aktive_get_int64be,
          aktive_read_float64be, aktive_get_float64be
    <2>3. SignedBE(s.v) = v /\ SignedBE(t.v) = v
      BY <1>5, <1>51, <2>1, Zenon
    <2>4. ReadOne(kind, r) = << WithValue(s, v), WithValue(t, v) >>
      BY <2>2, <2>3, Zenon
    <2> QED  BY <1>52, <2>4
  <1>9. CASE kind \in {"int8", "uint64le", "int16le", "int32le", "int64le", "float64le"}
    <2>1. kind \notin PlainKinds /\ kind \notin BigKinds
      BY <1>9 DEF PlainKinds, BigKinds
    <2>2. ReadOne(kind, r) = << WithValue(s, Signed(s.v)), WithValue(t, Signed(t.v)) >>
      BY <1>1, <1>3, <1>9
      DEF Width, Decoded, ReadOne, WithValue, aktive_read_int8, aktive_get_int8, aktive_read_uint64le, aktive_get_uint64le,
          aktive_read_int16le, aktive_get_int16le, aktive_read_int32le, aktive_get_int32le,
          aktive_read_int64le, aktive_get_int64le, aktive_read_float64le, aktive_get_float64le
    <2>3. Signed(s.v) = v /\ Signed(t.v) = v
      BY <1>5, <1>51, <2>1, Zenon
    <2>4. ReadOne(kind, r) = << WithValue(s, v), WithValue(t, v) >>
      BY <2>2, <2>3, Zenon
    <2> QED  BY <1>52, <2>4
  <1> QED  BY <1>6, <1>7, <1>8, <1>9 DEF Kinds

(* The digits of a number that fits, of which there are up to ten. *)
Digits(f, count) == [i \in 1 .. count |-> 48 + (f[i] % 10)]

IsDecimal(f, count, v) ==
    /\ count \in 1 .. 10 /\ f[1] = v
    /\ \A i \in 1 .. count : f[i] \in Nat
    /\ \A i \in 1 .. count - 1 : f[i] = 10 * f[i + 1] + (f[i] % 10)
    /\ f[count] \in 0 .. 9

(* A number that fits is written with its digits, the last of which is found. *)
LEMMA DecimalIs ==
    ASSUME NEW v \in Int, InRange("text", v)
    PROVE  \E f, count : IsDecimal(f, count, v) /\ Decimal(v) = Reverse(Digits(f, count))
  <1> DEFINE f == CHOOSE g : IsRest(g, v, 10, 10)
  <1>1. IsRest(f, v, 10, 10)
    <2>1. 10 \in Nat \ {0}
      OBVIOUS
    <2>2. \E g : IsRest(g, v, 10, 10)
      BY <2>1, RestExists
    <2> QED  BY <2>2
  <1> HIDE DEF f
  <1>2. f[1] = v /\ (\A i \in 2 .. 10 : f[i] = f[i - 1] \div 10) /\ (\A i \in 1 .. 10 : f[i] \in Int)
    <2>1. 10 \in Nat \ {0}
      OBVIOUS
    <2> QED  BY <1>1, <2>1, RestIs
  <1>3. v \in Int /\ 0 <= v /\ v <= 2147483647
    BY SMT DEF InRange, High
  <1>5. f[2] \in Int /\ 0 <= f[2] /\ f[2] <= 214748364
    <2>1. f[2] = f[1] \div 10
      BY <1>2
    <2>2. f[1] \in Int /\ 0 <= f[1] /\ f[1] <= 2147483647
      BY SMT, <1>2, <1>3
    <2> QED  BY SMT, <2>1, <2>2
  <1>6. f[3] \in Int /\ 0 <= f[3] /\ f[3] <= 21474836
    <2>1. f[3] = f[2] \div 10
      BY <1>2
    <2>2. f[2] \in Int /\ 0 <= f[2] /\ f[2] <= 214748364
      BY SMT, <1>5
    <2> QED  BY SMT, <2>1, <2>2
  <1>7. f[4] \in Int /\ 0 <= f[4] /\ f[4] <= 2147483
    <2>1. f[4] = f[3] \div 10
      BY <1>2
    <2>2. f[3] \in Int /\ 0 <= f[3] /\ f[3] <= 21474836
      BY SMT, <1>6
    <2> QED  BY SMT, <2>1, <2>2
  <1>8. f[5] \in Int /\ 0 <= f[5] /\ f[5] <= 214748
    <2>1. f[5] = f[4] \div 10
      BY <1>2
    <2>2. f[4] \in Int /\ 0 <= f[4] /\ f[4] <= 2147483
      BY SMT, <1>7
    <2> QED  BY SMT, <2>1, <2>2
  <1>9. f[6] \in Int /\ 0 <= f[6] /\ f[6] <= 21474
    <2>1. f[6] = f[5] \div 10
      BY <1>2
    <2>2. f[5] \in Int /\ 0 <= f[5] /\ f[5] <= 214748
      BY SMT, <1>8
    <2> QED  BY SMT, <2>1, <2>2
  <1>10. f[7] \in Int /\ 0 <= f[7] /\ f[7] <= 2147
    <2>1. f[7] = f[6] \div 10
      BY <1>2
    <2>2. f[6] \in Int /\ 0 <= f[6] /\ f[6] <= 21474
      BY SMT, <1>9
    <2> QED  BY SMT, <2>1, <2>2
  <1>11. f[8] \in Int /\ 0 <= f[8] /\ f[8] <= 214
    <2>1. f[8] = f[7] \div 10
      BY <1>2
    <2>2. f[7] \in Int /\ 0 <= f[7] /\ f[7] <= 2147
      BY SMT, <1>10
    <2> QED  BY SMT, <2>1, <2>2
  <1>12. f[9] \in Int /\ 0 <= f[9] /\ f[9] <= 21
    <2>1. f[9] = f[8] \div 10
      BY <1>2
    <2>2. f[8] \in Int /\ 0 <= f[8] /\ f[8] <= 214
      BY SMT, <1>11
    <2> QED  BY SMT, <2>1, <2>2
  <1>13. f[10] \in 0 .. 2
    <2>1. f[10] = f[9] \div 10
      BY <1>2
    <2>2. f[9] \in Int /\ 0 <= f[9] /\ f[9] <= 21
      BY SMT, <1>12
    <2> QED  BY SMT, <2>1, <2>2
  <1>14. \A i \in 1 .. 10 : f[i] \in Nat
    <2> TAKE i \in 1 .. 10
    <2>1. i = 1 \/ i = 2 \/ i = 3 \/ i = 4 \/ i = 5 \/ i = 6 \/ i = 7 \/ i = 8 \/ i = 9 \/ i = 10
      OBVIOUS
    <2>2. f[1] \in Nat /\ f[2] \in Nat /\ f[3] \in Nat /\ f[4] \in Nat /\ f[5] \in Nat
      BY SMT, <1>2, <1>3, <1>5, <1>6, <1>7, <1>8
    <2>3. f[6] \in Nat /\ f[7] \in Nat /\ f[8] \in Nat /\ f[9] \in Nat /\ f[10] \in Nat
      BY SMT, <1>9, <1>10, <1>11, <1>12, <1>13
    <2> QED  BY <2>1, <2>2, <2>3
  <1> DEFINE HighDigit(n) == f[n] # 0 /\ (n = 10 \/ f[n + 1] = 0)
             count == IF v = 0 THEN 1 ELSE CHOOSE n \in 1 .. 10 : HighDigit(n)
  <1>15. v # 0 => \E n \in 1 .. 10 : HighDigit(n)
    <2> SUFFICES ASSUME v # 0, \A n \in 1 .. 10 : ~ HighDigit(n) PROVE FALSE
      OBVIOUS
    <2> DEFINE E == {m \in Nat : m < 10 => f[m + 1] # 0}
    <2>1. 0 \in E
      BY <1>2
    <2>2. ASSUME NEW m \in Nat, m \in E PROVE m + 1 \in E
      <3> SUFFICES ASSUME m + 1 < 10 PROVE f[(m + 1) + 1] # 0
        OBVIOUS
      <3>1. PICK n : n = m + 1
        OBVIOUS
      <3>2. n \in 1 .. 10 /\ n # 10 /\ f[n] # 0
        BY <2>2, <3>1
      <3>3. ~ HighDigit(n)
        BY <3>2
      <3> QED  BY <3>1, <3>2, <3>3
    <2>3. \A m \in Nat : m \in E
      <3> HIDE DEF E
      <3> QED  BY <2>1, <2>2, SetInduction
    <2>4. 9 \in E
      BY <2>3
    <2>5. f[10] # 0
      BY <2>4
    <2>6. HighDigit(10)
      BY <2>5
    <2> QED  BY <2>6
  <1>16. count \in 1 .. 10 /\ (v # 0 => HighDigit(count))
    <2> HIDE DEF HighDigit
    <2> QED  BY <1>15
  <1>17. Decimal(v) = Reverse(Digits(f, count))
    BY DEF f, Decimal, IsRest, Digits
  <1> HIDE DEF count
  <1>18. f[count] \in 0 .. 9
    <2>1. CASE v = 0
      <3>1. count = 1
        BY <2>1 DEF count
      <3> QED  BY <1>2, <2>1, <3>1
    <2>2. CASE v # 0 /\ count = 10
      BY <1>13, <2>2
    <2>3. CASE v # 0 /\ count # 10
      <3>1. count + 1 \in 2 .. 10 /\ (count + 1) - 1 = count /\ f[count + 1] = 0
        BY <1>16, <2>3
      <3>2. f[count] \div 10 = 0
        BY <1>2, <3>1
      <3>3. f[count] \in Nat
        BY <1>14, <1>16
      <3> QED  BY <3>2, <3>3
    <2> QED  BY <2>1, <2>2, <2>3
  <1>19. \A i \in 1 .. count - 1 : f[i] = 10 * f[i + 1] + (f[i] % 10)
    <2> TAKE i \in 1 .. count - 1
    <2>1. i \in 1 .. 10 /\ i + 1 \in 2 .. 10 /\ (i + 1) - 1 = i
      BY <1>16
    <2>2. f[i] \in Nat /\ f[i + 1] = f[i] \div 10
      BY <1>2, <1>14, <2>1
    <2> QED  BY <2>2
  <1>20. IsDecimal(f, count, v)
    <2>1. \A i \in 1 .. count : i \in 1 .. 10
      BY <1>16
    <2>2. \A i \in 1 .. count : f[i] \in Nat
      BY <1>14, <2>1
    <2> QED  BY <1>2, <1>16, <1>18, <1>19, <2>2 DEF IsDecimal
  <1> QED  BY <1>17, <1>20

(* They are written from the highest to the lowest. *)
IsText(f, count, d) ==
    /\ d \in Seq(Int) /\ Len(d) = count
    /\ \A k \in 1 .. count : d[k] = 48 + (f[(count - k) + 1] % 10) /\ d[k] \in 48 .. 57

LEMMA DigitsAre ==
    ASSUME NEW f, NEW count, NEW v, IsDecimal(f, count, v), NEW d, d = Reverse(Digits(f, count))
    PROVE  IsText(f, count, d)
  <1>1. count \in 1 .. 10 /\ \A i \in 1 .. count : f[i] \in Nat
    BY DEF IsDecimal
  <1>2. PICK s : s = Digits(f, count)
    OBVIOUS
  <1>3. s = [i \in 1 .. count |-> 48 + (f[i] % 10)]
    BY <1>2 DEF Digits
  <1>4. \A i \in 1 .. count : s[i] = 48 + (f[i] % 10) /\ s[i] \in 48 .. 57
    BY <1>1, <1>3
  <1>5. s \in [1 .. count -> Int]
    BY <1>3, <1>4
  <1>6. s \in Seq(Int) /\ Len(s) = count
    BY <1>1, <1>5
  <1>7. d \in Seq(Int) /\ Len(d) = count
    BY <1>2, <1>6, ReverseIs
  <1>8. d = [i \in 1 .. count |-> s[(count - i) + 1]]
    BY <1>2, <1>6 DEF Reverse
  <1>9. ASSUME NEW k \in 1 .. count PROVE d[k] = 48 + (f[(count - k) + 1] % 10) /\ d[k] \in 48 .. 57
    <2>1. PICK j : j = (count - k) + 1
      OBVIOUS
    <2>2. j \in 1 .. count
      BY <1>1, <2>1
    <2>3. d[k] = s[j]
      BY <1>8, <2>1
    <2> QED  BY <1>4, <2>1, <2>2, <2>3
  <1> QED  BY <1>7, <1>9, Zenon DEF IsText

(* Three sequences joined in either order. *)
LEMMA ThreeJoined ==
    ASSUME NEW s \in Seq(Int), NEW d \in Seq(Int), NEW e \in Seq(Int)
    PROVE  (s \o d) \o e = s \o (d \o e)
  BY ConcatAssociative, SMTT(60)

(* A text is written as its digits, and a space behind them. *)
LEMMA TextWritten ==
    ASSUME NEW v \in Int, InRange("text", v), NEW w, NEW s, Holds(w, s)
    PROVE  /\ Encoded("text", v) \in Seq(Int)
           /\ Holds(WriteOne(w, "text", v), s \o Encoded("text", v))
  <1>1. PICK f, count : IsDecimal(f, count, v) /\ Decimal(v) = Reverse(Digits(f, count))
    BY DecimalIs
  <1>2. PICK d : d = Decimal(v)
    OBVIOUS
  <1>3. d \in Seq(Int) /\ Len(d) = count /\ count # 0
    <2>1. count # 0
      BY <1>1 DEF IsDecimal
    <2>2. IsDecimal(f, count, v) /\ d = Reverse(Digits(f, count))
      BY <1>1, <1>2, Zenon
    <2>3. d \in Seq(Int) /\ Len(d) = count
      BY <2>2, DigitsAre DEF IsText
    <2> QED  BY <2>1, <2>3, Zenon
  <1>4. d # << >> /\ << 32 >> # << >> /\ << 32 >> \in Seq(Int) /\ 32 % 256 = 32
    BY <1>3
  <1>5. PICK x : x = aktive_write_here(w, d)
    OBVIOUS
  <1>6. Holds(x, s \o d)
    BY <1>3, <1>4, <1>5, WriteHolds
  <1>7. Holds(aktive_write_here(x, << 32 >>), (s \o d) \o << 32 >>)
    BY <1>4, <1>6, WriteHolds
  <1>8. WriteOne(w, "text", v) = aktive_write_here(x, << 32 >>)
    BY <1>2, <1>4, <1>5 DEF WriteOne, aktive_write_here_uint8, aktive_write_here_uint_text
  <1>9. Encoded("text", v) = d \o << 32 >>
    BY <1>2 DEF Encoded
  <1>10. s \in Seq(Int)
    BY DEF Holds
  <1>11. (s \o d) \o << 32 >> = s \o (d \o << 32 >>)
    <2>1. PICK e : e = << 32 >>
      OBVIOUS
    <2>2. s \in Seq(Int) /\ d \in Seq(Int) /\ e \in Seq(Int)
      BY <1>3, <1>4, <1>10, <2>1, Zenon
    <2>3. (s \o d) \o e = s \o (d \o e)
      BY <2>2, ThreeJoined, Zenon
    <2> QED  BY <2>1, <2>3, Zenon
  <1>12. d \o << 32 >> \in Seq(Int)
    BY <1>3, <1>4, ConcatProperties
  <1> QED  BY <1>7, <1>8, <1>9, <1>11, <1>12

(* A number of any kind comes behind what was written. *)
LEMMA WrittenBehind ==
    ASSUME NEW v \in Int, NEW kind \in Kinds, InRange(kind, v), NEW w, NEW s, Holds(w, s)
    PROVE  /\ Encoded(kind, v) \in Seq(Int)
           /\ Holds(WriteOne(w, kind, v), s \o Encoded(kind, v))
  <1>1. CASE kind = "text"
    BY <1>1, TextWritten
  <1>2. CASE kind # "text"
    <2>1. /\ WriteOne(w, kind, v) = aktive_write_here(w, Encoded(kind, v))
          /\ Encoded(kind, v) \in Seq(Int) /\ Encoded(kind, v) # << >>
      BY <1>2, EncodedIs
    <2> QED  BY <2>1, WriteHolds
  <1> QED  BY <1>1, <1>2

(* The automaton that reads texts, at a digit and at the space behind them. *)
Automaton(state, v, r) == [mode |-> state, skip |-> FALSE, v |-> v, r |-> r]

(* Of the table of the automaton three entries are met. *)
LEMMA TableIs ==
    /\ StopSharp["leader"]["digit"] = "digits" /\ StopSharp["digits"]["digit"] = "digits"
    /\ StopSharp["digits"]["space"] = "accept"
  <1>1. SkipTrails.leader = [space |-> "leader", digit |-> "digits", other |-> "reject", eof |-> "reject"]
    BY DEF SkipTrails
  <1>2. SkipTrails.digits = [space |-> "trails", digit |-> "digits", other |-> "reject", eof |-> "accept"]
    BY DEF SkipTrails
  <1>3. DOMAIN SkipTrails = {"leader", "digits", "trails"}
    BY DEF SkipTrails
  <1>4. StopSharp["leader"] = SkipTrails.leader /\ StopSharp["digits"] = [SkipTrails.digits EXCEPT !.space = "accept"]
    BY <1>3 DEF StopSharp
  <1> QED  BY <1>1, <1>2, <1>4

(* A source moved to where it is stays as it is. *)
LEMMA SamePlace == ASSUME NEW r \in Sources, NEW x, x = r.pos PROVE [r EXCEPT !.pos = x] = r
  BY DEF Sources

(* A source that goes ahead keeps its bytes. *)
LEMMA AheadIs ==
    ASSUME NEW r \in Sources, NEW n \in Nat
    PROVE  /\ Ahead(r, n) \in Sources /\ Ahead(r, n).bytes = r.bytes /\ Ahead(r, n).pos = r.pos + n
           /\ Ahead(Ahead(r, n), 1) = Ahead(r, n + 1)
           /\ Ahead(r, 0) = r
  <1>1. PICK a : a = Ahead(r, n)
    OBVIOUS
  <1>2. a = [r EXCEPT !.pos = r.pos + n] /\ r \in Sources
    BY <1>1 DEF Ahead
  <1>3. a \in Sources /\ a.bytes = r.bytes /\ a.pos = r.pos + n
    BY <1>2 DEF Sources
  <1>4. Ahead(a, 1) = [a EXCEPT !.pos = a.pos + 1]
    BY DEF Ahead
  <1>5. [a EXCEPT !.pos = a.pos + 1] = [r EXCEPT !.pos = r.pos + (n + 1)]
    <2>1. a.pos + 1 = r.pos + (n + 1)
      BY <1>3 DEF Sources
    <2> QED  BY <1>2, <2>1 DEF Sources
  <1>6. Ahead(r, 0) = r
    <2>1. r.pos + 0 = r.pos
      BY DEF Sources
    <2> QED  BY <2>1, SamePlace DEF Ahead
  <1>7. Ahead(r, n + 1) = [r EXCEPT !.pos = r.pos + (n + 1)]
    BY DEF Ahead
  <1> QED  BY <1>1, <1>3, <1>4, <1>5, <1>6, <1>7

Changed(s, b, y, r) == [s EXCEPT !.mode = b, !.v = y, !.r = r]

(* A state with all of its parts replaced. *)
LEMMA ChangedIs ==
    ASSUME NEW a, NEW x, NEW r, NEW b, NEW y
    PROVE  Changed(Automaton(a, x, r), b, y, r) = Automaton(b, y, r)
  <1>1. PICK s, f : s = Automaton(a, x, r) /\ f = FALSE
    OBVIOUS
  <1>2. s = [mode |-> a, skip |-> f, v |-> x, r |-> r]
    BY <1>1 DEF Automaton
  <1>3. PICK t : t = [s EXCEPT !.mode = b]
    OBVIOUS
  <1>4. t = [mode |-> b, skip |-> f, v |-> x, r |-> r]
    BY <1>2, <1>3
  <1>5. PICK u : u = [t EXCEPT !.v = y]
    OBVIOUS
  <1>6. u = [mode |-> b, skip |-> f, v |-> y, r |-> r]
    BY <1>4, <1>5
  <1>7. [u EXCEPT !.r = r] = u
    BY <1>6
  <1>8. [s EXCEPT !.mode = b, !.v = y, !.r = r] = [[[s EXCEPT !.mode = b] EXCEPT !.v = y] EXCEPT !.r = r]
    OBVIOUS
  <1>9. Changed(s, b, y, r) = u
    BY <1>3, <1>5, <1>7, <1>8 DEF Changed
  <1> QED  BY <1>1, <1>6, <1>9 DEF Automaton

(* A digit is added to the number. *)
LEMMA DigitMoves ==
    ASSUME NEW state \in {"leader", "digits"}, NEW c \in 48 .. 57, NEW x \in Nat, NEW r \in Sources
    PROVE  Advance(StopSharp, Automaton(state, x, r), << c >>) = Automaton("digits", (10 * x + c) - 48, r)
  <1>1. PICK s : s = Automaton(state, x, r)
    OBVIOUS
  <1>2. s = [mode |-> state, skip |-> FALSE, v |-> x, r |-> r]
    BY <1>1 DEF Automaton
  <1>3. Class(c) = "digit"
    BY DEF Class, IsSpace, IsDigit
  <1>4. StopSharp[state]["digit"] = "digits"
    BY TableIs
  <1>5. PICK ch : ch = << c >>
    OBVIOUS
  <1>6. ch # << >> /\ ch[1] = c
    BY <1>5
  <1>7. (IF ch = << >> THEN StopSharp[s.mode].eof ELSE StopSharp[s.mode][Class(ch[1])]) = "digits"
    BY <1>2, <1>3, <1>4, <1>6
  <1>8. Advance(StopSharp, s, ch)
        = [s EXCEPT !.mode = "digits", !.v = 10 * s.v + ch[1] - 48, !.r.pos = s.r.pos]
    BY <1>7 DEF Advance
  <1>9. s.v = x /\ s.r = r
    BY <1>2
  <1>10. [s.r EXCEPT !.pos = s.r.pos] = r
    BY <1>9, SamePlace
  <1>11. PICK y : y = 10 * s.v + ch[1] - 48
    OBVIOUS
  <1>12. Changed(s, "digits", y, r) = Automaton("digits", y, r)
    BY <1>1, ChangedIs
  <1>13. Advance(StopSharp, s, ch) = Changed(s, "digits", y, r)
    BY <1>8, <1>10, <1>11 DEF Changed
  <1>14. y = (10 * x + c) - 48
    BY <1>6, <1>9, <1>11
  <1> QED  BY <1>1, <1>5, <1>12, <1>13, <1>14

(* The space ends it. *)
LEMMA SpaceEnds ==
    ASSUME NEW x \in Nat, NEW r \in Sources
    PROVE  Advance(StopSharp, Automaton("digits", x, r), << 32 >>) = Automaton("accept", x, r)
  <1>1. PICK s : s = Automaton("digits", x, r)
    OBVIOUS
  <1>2. s = [mode |-> "digits", skip |-> FALSE, v |-> x, r |-> r]
    BY <1>1 DEF Automaton
  <1>3. Class(32) = "space"
    BY DEF Class, IsSpace
  <1>4. StopSharp["digits"]["space"] = "accept"
    BY TableIs
  <1>5. PICK ch : ch = << 32 >>
    OBVIOUS
  <1>6. ch # << >> /\ ch[1] = 32
    BY <1>5
  <1>7. (IF ch = << >> THEN StopSharp[s.mode].eof ELSE StopSharp[s.mode][Class(ch[1])]) = "accept"
    BY <1>2, <1>3, <1>4, <1>6
  <1>8. Advance(StopSharp, s, ch)
        = [s EXCEPT !.mode = "accept", !.v = s.v, !.r.pos = s.r.pos]
    BY <1>7 DEF Advance
  <1>9. s.v = x /\ s.r = r
    BY <1>2
  <1>10. [s.r EXCEPT !.pos = s.r.pos] = r
    BY <1>9, SamePlace
  <1>11. PICK y : y = s.v
    OBVIOUS
  <1>12. Changed(s, "accept", y, r) = Automaton("accept", y, r)
    BY <1>1, ChangedIs
  <1>13. Advance(StopSharp, s, ch) = Changed(s, "accept", y, r)
    BY <1>8, <1>10, <1>11 DEF Changed
  <1>14. y = x
    BY <1>6, <1>9, <1>11
  <1> QED  BY <1>1, <1>5, <1>12, <1>13, <1>14

Sourced(s, r) == [s EXCEPT !.r = r]

(* A state with its source replaced. *)
LEMMA SourcedIs ==
    ASSUME NEW a, NEW x, NEW r, NEW q PROVE Sourced(Automaton(a, x, r), q) = Automaton(a, x, q)
  <1>1. PICK s, f : s = Automaton(a, x, r) /\ f = FALSE
    OBVIOUS
  <1>2. s = [mode |-> a, skip |-> f, v |-> x, r |-> r]
    BY <1>1 DEF Automaton
  <1>3. PICK t : t = [s EXCEPT !.r = q]
    OBVIOUS
  <1>4. t = [mode |-> a, skip |-> f, v |-> x, r |-> q]
    BY <1>2, <1>3
  <1>5. t = Sourced(s, q)
    BY <1>3 DEF Sourced
  <1> QED  BY <1>1, <1>4, <1>5 DEF Automaton

(* A step of the automaton, on a file or in memory, and a pass of it. *)
Letter(file, r) == IF file THEN aktive_read_string(r, 1) ELSE aktive_get_string(r, 1)

Stepped(file, s) ==
    IF s.mode \in Ends THEN s
    ELSE Advance(StopSharp, Sourced(s, Letter(file, s.r).r), Letter(file, s.r).v)

IsPass(file, g, r) ==
    g = [k \in 0 .. Len(r.bytes) - r.pos + 1 |->
            IF k = 0 THEN Automaton("leader", 0, r) ELSE Stepped(file, g[k - 1])]

(* The digits of a text come one after the other. *)
LEMMA LetterIs ==
    ASSUME NEW r \in Sources, NEW buf \in Seq(Int), BytesAt(r, buf), NEW k \in Nat, k < Len(buf),
           NEW file \in BOOLEAN
    PROVE  Yields(Letter(file, Ahead(r, k)), << buf[k + 1] >>, Ahead(r, k + 1))
  <1>1. PICK a, c : a = Ahead(r, k) /\ c = << buf[k + 1] >>
    OBVIOUS
  <1>2. a \in Sources /\ a.bytes = r.bytes /\ a.pos = r.pos + k /\ Ahead(a, 1) = Ahead(r, k + 1)
    BY <1>1, AheadIs
  <1>3. c \in Seq(Int) /\ Len(c) = 1 /\ c[1] = buf[k + 1]
    BY <1>1
  <1>4. r.pos \in Nat /\ Len(buf) \in Nat /\ Len(r.bytes) \in Nat
    BY LenProperties DEF Sources
  <1>5. BytesAt(a, c)
    <2>1. a.pos + Len(c) <= Len(a.bytes)
      BY <1>2, <1>3, <1>4 DEF BytesAt
    <2>2. a.bytes[a.pos + 1] = c[1]
      <3>1. k + 1 \in 1 .. Len(buf) /\ (r.pos + k) + 1 = r.pos + (k + 1)
        BY <1>4
      <3> QED  BY <1>2, <1>3, <3>1 DEF BytesAt
    <2> QED  BY <1>3, <2>1, <2>2 DEF BytesAt
  <1>6. /\ Yields(aktive_read_string(a, 1), c, Ahead(a, 1))
        /\ Yields(aktive_get_string(a, 1), c, Ahead(a, 1))
    BY <1>2, <1>3, <1>5, StringIs
  <1> QED  BY <1>1, <1>2, <1>6 DEF Letter

(* Where the pass is after k steps. *)
StateAt(f, count, v, r, k) ==
    IF k = 0 THEN Automaton("leader", 0, r)
    ELSE IF k <= count THEN Automaton("digits", f[(count - k) + 1], Ahead(r, k))
    ELSE Automaton("accept", v, Ahead(r, count + 1))

(* The parts of a state. *)
LEMMA ReadingIs ==
    ASSUME NEW a, NEW x, NEW r, NEW s, s = Automaton(a, x, r)
    PROVE  s.mode = a /\ s.v = x /\ s.r = r
  BY DEF Automaton

(* A step reads a character and moves the automaton. *)
LEMMA SteppedIs ==
    ASSUME NEW a, a \notin Ends, NEW x, NEW r, NEW file, NEW c, NEW q, Yields(Letter(file, r), << c >>, q)
    PROVE  Stepped(file, Automaton(a, x, r)) = Advance(StopSharp, Automaton(a, x, q), << c >>)
  <1>1. PICK s : s = Automaton(a, x, r)
    OBVIOUS
  <1>2. s.mode = a /\ s.r = r
    BY <1>1, ReadingIs
  <1>3. Letter(file, s.r).v = << c >> /\ Letter(file, s.r).r = q
    BY <1>2 DEF Yields
  <1>4. Sourced(s, q) = Automaton(a, x, q)
    BY <1>1, SourcedIs
  <1> QED  BY <1>1, <1>2, <1>3, <1>4 DEF Stepped

(* A step leads from each of these states to the next. *)
LEMMA StateNext ==
    ASSUME NEW v \in Int, NEW f, NEW count, IsDecimal(f, count, v), Decimal(v) = Reverse(Digits(f, count)),
           NEW r \in Sources, BytesAt(r, Encoded("text", v)), NEW file \in BOOLEAN, NEW k \in Nat
    PROVE  Stepped(file, StateAt(f, count, v, r, k)) = StateAt(f, count, v, r, k + 1)
  <1>1. PICK d : d = Decimal(v)
    OBVIOUS
  <1>2. /\ d \in Seq(Int) /\ Len(d) = count
        /\ \A j \in 1 .. count : d[j] = 48 + (f[(count - j) + 1] % 10) /\ d[j] \in 48 .. 57
    <2>1. IsDecimal(f, count, v) /\ d = Reverse(Digits(f, count))
      BY <1>1, Zenon
    <2>2. IsText(f, count, d)
      BY <2>1, DigitsAre
    <2> QED  BY <2>2, Zenon DEF IsText
  <1>3. /\ count \in 1 .. 10 /\ f[1] = v /\ \A i \in 1 .. count : f[i] \in Nat
        /\ \A i \in 1 .. count - 1 : f[i] = 10 * f[i + 1] + (f[i] % 10)
        /\ f[count] \in 0 .. 9
    BY DEF IsDecimal
  <1>4. PICK buf : buf = Encoded("text", v)
    OBVIOUS
  <1>5. buf = d \o << 32 >>
    BY <1>1, <1>4 DEF Encoded
  <1>6. /\ buf \in Seq(Int) /\ Len(buf) = count + 1
        /\ \A j \in 1 .. count : buf[j] = d[j]
        /\ buf[count + 1] = 32
    <2>1. PICK e : e = << 32 >>
      OBVIOUS
    <2>2. e \in Seq(Int) /\ Len(e) = 1 /\ e[1] = 32 /\ 1 \in 1 .. Len(e)
      BY <2>1
    <2>3. buf = d \o e
      BY <1>5, <2>1
    <2>4. /\ buf \in Seq(Int) /\ Len(buf) = Len(d) + Len(e)
          /\ \A i \in 1 .. Len(buf) : buf[i] = IF i <= Len(d) THEN d[i] ELSE e[i - Len(d)]
      <3>1. /\ d \o e \in Seq(Int) /\ Len(d \o e) = Len(d) + Len(e)
            /\ \A i \in 1 .. Len(d) + Len(e) : (d \o e)[i] = IF i <= Len(d) THEN d[i] ELSE e[i - Len(d)]
        BY <1>2, <2>2, ConcatProperties, ZenonT(30)
      <3> QED  BY <2>3, <3>1
    <2>5. \A j \in 1 .. count : buf[j] = d[j]
      BY <1>2, <1>3, <2>2, <2>4
    <2>6. buf[count + 1] = 32
      <3>1. count + 1 \in 1 .. Len(buf) /\ ~ (count + 1 <= Len(d)) /\ (count + 1) - Len(d) = 1
        BY <1>2, <1>3, <2>2, <2>4
      <3> QED  BY <2>2, <2>4, <3>1
    <2> QED  BY <1>2, <2>2, <2>4, <2>5, <2>6
  <1>7. BytesAt(r, buf)
    BY <1>4
  <1>8. PICK s, t : s = StateAt(f, count, v, r, k) /\ t = StateAt(f, count, v, r, k + 1)
    OBVIOUS
  <1>9. CASE k < count
    <2>1. PICK c, j : j = k + 1 /\ c = buf[j]
      OBVIOUS
    <2>2. j \in 1 .. count /\ c = d[j] /\ c = 48 + (f[(count - j) + 1] % 10) /\ c \in 48 .. 57
      BY <1>2, <1>3, <1>6, <1>9, <2>1
    <2>3. PICK state, x, a : /\ state = (IF k = 0 THEN "leader" ELSE "digits")
                             /\ x = (IF k = 0 THEN 0 ELSE f[(count - k) + 1])
                             /\ a = Ahead(r, k)
      OBVIOUS
    <2>4. s = Automaton(state, x, a)
      <3>1. CASE k = 0
        BY <1>8, <2>3, <3>1, AheadIs DEF StateAt
      <3>2. CASE k # 0
        BY <1>3, <1>8, <1>9, <2>3, <3>2 DEF StateAt
      <3> QED  BY <3>1, <3>2
    <2>5. state \in {"leader", "digits"} /\ state \notin Ends
      BY <2>3 DEF Ends
    <2>6. PICK q : q = Ahead(r, j) /\ q \in Sources
      BY <2>1, AheadIs
    <2>7. Yields(Letter(file, a), << c >>, q)
      <3>1. k < Len(buf)
        BY <1>3, <1>6, <1>9
      <3> QED  BY <1>6, <1>7, <2>1, <2>3, <2>6, <3>1, LetterIs
    <2>8. Stepped(file, s) = Advance(StopSharp, Automaton(state, x, q), << c >>)
      BY <2>4, <2>5, <2>7, SteppedIs
    <2>9. x \in Nat /\ (10 * x + c) - 48 = f[(count - j) + 1]
      <3>1. PICK i : i = (count - j) + 1
        OBVIOUS
      <3>2. i \in 1 .. count /\ f[i] \in Nat
        BY <1>3, <2>2, <3>1
      <3>3. CASE k = 0
        <4>1. i = count /\ x = 0
          BY <1>3, <2>1, <2>3, <3>1, <3>3
        <4>2. f[i] \in 0 .. 9
          BY <1>3, <4>1
        <4> QED  BY <2>2, <3>1, <4>1, <4>2
      <3>4. CASE k # 0
        <4>1. i \in 1 .. count - 1 /\ (count - k) + 1 = i + 1 /\ i + 1 \in 1 .. count
          BY <1>3, <1>9, <2>1, <3>1, <3>4
        <4>2. x = f[i + 1] /\ x \in Nat
          BY <1>3, <2>3, <3>4, <4>1
        <4>3. f[i] = 10 * x + (f[i] % 10)
          BY <1>3, <4>1, <4>2
        <4>4. c = 48 + (f[i] % 10)
          BY <2>2, <3>1
        <4>5. f[i] % 10 \in Int
          BY <3>2
        <4>6. (10 * x + c) - 48 = f[i]
          BY <3>2, <4>2, <4>3, <4>4, <4>5
        <4> QED  BY <3>1, <4>2, <4>6
      <3> QED  BY <3>3, <3>4
    <2>10. Stepped(file, s) = Automaton("digits", f[(count - j) + 1], q)
      <3>1. Advance(StopSharp, Automaton(state, x, q), << c >>) = Automaton("digits", (10 * x + c) - 48, q)
        <4>1. state \in {"leader", "digits"} /\ c \in 48 .. 57
          BY <2>2, <2>5
        <4>2. x \in Nat /\ q \in Sources
          BY <2>6, <2>9, Zenon
        <4> QED  BY <4>1, <4>2, DigitMoves, Zenon
      <3> QED  BY <2>8, <2>9, <3>1
    <2>11. t = Automaton("digits", f[(count - j) + 1], q)
      <3>1. j # 0 /\ j <= count
        BY <1>9, <1>3, <2>1
      <3> QED  BY <1>8, <2>1, <2>6, <3>1 DEF StateAt
    <2> QED  BY <1>8, <2>10, <2>11
  <1>10. CASE k = count
    <2>1. PICK a, q : a = Ahead(r, k) /\ q = Ahead(r, k + 1) /\ q \in Sources
      BY AheadIs
    <2>2. s = Automaton("digits", v, a)
      <3>1. k # 0 /\ k <= count /\ (count - k) + 1 = 1
        BY <1>3, <1>10
      <3> QED  BY <1>3, <1>8, <2>1, <3>1 DEF StateAt
    <2>3. Yields(Letter(file, a), << 32 >>, q)
      <3>1. k < Len(buf) /\ buf[k + 1] = 32
        BY <1>3, <1>6, <1>10
      <3>2. Yields(Letter(file, Ahead(r, k)), << buf[k + 1] >>, Ahead(r, k + 1))
        BY <1>6, <1>7, <3>1, LetterIs
      <3> QED  BY <2>1, <3>1, <3>2
    <2>4. Stepped(file, s) = Advance(StopSharp, Automaton("digits", v, q), << 32 >>)
      <3>1. "digits" \notin Ends
        BY DEF Ends
      <3> QED  BY <2>2, <2>3, <3>1, SteppedIs
    <2>5. v \in Nat
      BY <1>3
    <2>6. Stepped(file, s) = Automaton("accept", v, q)
      BY <2>1, <2>4, <2>5, SpaceEnds
    <2>7. t = Automaton("accept", v, q)
      <3>1. k + 1 # 0 /\ ~ (k + 1 <= count)
        BY <1>3, <1>10
      <3> QED  BY <1>8, <1>10, <2>1, <3>1 DEF StateAt
    <2> QED  BY <1>8, <2>6, <2>7
  <1>11. CASE k > count
    <2>1. k # 0 /\ ~ (k <= count) /\ k + 1 # 0 /\ ~ (k + 1 <= count)
      BY <1>3, <1>11
    <2>2. s = Automaton("accept", v, Ahead(r, count + 1)) /\ t = s
      BY <1>8, <2>1 DEF StateAt
    <2>3. s.mode \in Ends
      <3>1. s.mode = "accept"
        BY <2>2, ReadingIs
      <3> QED  BY <3>1 DEF Ends
    <2> QED  BY <1>8, <2>2, <2>3 DEF Stepped
  <1> QED  BY <1>3, <1>9, <1>10, <1>11

(* The pass as the two readers make it. *)
IsReadPass(g, r) ==
    g = [k \in 0 .. Len(r.bytes) - r.pos + 1 |->
            IF k = 0 THEN Automaton("leader", 0, r)
            ELSE IF g[k - 1].mode \in Ends THEN g[k - 1]
            ELSE Advance(StopSharp, Sourced(g[k - 1], aktive_read_string(g[k - 1].r, 1).r),
                         aktive_read_string(g[k - 1].r, 1).v)]

IsGetPass(g, r) ==
    g = [k \in 0 .. Len(r.bytes) - r.pos + 1 |->
            IF k = 0 THEN Automaton("leader", 0, r)
            ELSE IF g[k - 1].mode \in Ends THEN g[k - 1]
            ELSE Advance(StopSharp, Sourced(g[k - 1], aktive_get_string(g[k - 1].r, 1).r),
                         aktive_get_string(g[k - 1].r, 1).v)]

(* What a text is read as is where the pass ends. *)
LEMMA ReadNumberIs ==
    ASSUME NEW r
    PROVE  \E g : /\ g = CHOOSE h : IsReadPass(h, r)
                  /\ aktive_read_uint_strsharp(r)
                     = [ok |-> g[Len(r.bytes) - r.pos + 1].mode # "reject",
                        v |-> g[Len(r.bytes) - r.pos + 1].v, r |-> g[Len(r.bytes) - r.pos + 1].r]
  BY DEF aktive_read_uint_strsharp, Number, Step, IsReadPass, Automaton, Sourced

(* The same in memory. *)
LEMMA GetNumberIs ==
    ASSUME NEW r
    PROVE  \E g : /\ g = CHOOSE h : IsGetPass(h, r)
                  /\ aktive_get_uint_strsharp(r)
                     = [ok |-> g[Len(r.bytes) - r.pos + 1].mode # "reject",
                        v |-> g[Len(r.bytes) - r.pos + 1].v, r |-> g[Len(r.bytes) - r.pos + 1].r]
  BY DEF aktive_get_uint_strsharp, Number, Step, IsGetPass, Automaton, Sourced

(* Both are the same pass, on a file and in memory. *)
LEMMA PassesAre ==
    ASSUME NEW g, NEW r PROVE (IsReadPass(g, r) <=> IsPass(TRUE, g, r)) /\ (IsGetPass(g, r) <=> IsPass(FALSE, g, r))
  BY DEF IsReadPass, IsGetPass, IsPass, Stepped, Letter

(* These states make a pass. *)
LEMMA PassExists ==
    ASSUME NEW v \in Int, NEW f, NEW count, IsDecimal(f, count, v), Decimal(v) = Reverse(Digits(f, count)),
           NEW r \in Sources, BytesAt(r, Encoded("text", v)), NEW file \in BOOLEAN
    PROVE  \E g : IsPass(file, g, r)
  <1>1. PICK max : max = Len(r.bytes) - r.pos + 1
    OBVIOUS
  <1>2. max \in Int
    BY <1>1, LenProperties DEF Sources
  <1>3. PICK g : g = [k \in 0 .. max |-> StateAt(f, count, v, r, k)]
    OBVIOUS
  <1>4. ASSUME NEW k \in 0 .. max
        PROVE  g[k] = IF k = 0 THEN Automaton("leader", 0, r) ELSE Stepped(file, g[k - 1])
    <2>1. g[k] = StateAt(f, count, v, r, k)
      BY <1>3
    <2>2. CASE k = 0
      BY <2>1, <2>2 DEF StateAt
    <2>3. CASE k # 0
      <3>1. PICK j : j = k - 1
        OBVIOUS
      <3>2. j \in 0 .. max /\ j \in Nat /\ j + 1 = k
        BY <1>2, <2>3, <3>1
      <3>3. g[j] = StateAt(f, count, v, r, j)
        BY <1>3, <3>2
      <3>4. Stepped(file, StateAt(f, count, v, r, j)) = StateAt(f, count, v, r, j + 1)
        BY <3>2, StateNext
      <3> QED  BY <2>1, <2>3, <3>1, <3>2, <3>3, <3>4
    <2> QED  BY <2>2, <2>3
  <1>5. g = [k \in 0 .. max |-> IF k = 0 THEN Automaton("leader", 0, r) ELSE Stepped(file, g[k - 1])]
    BY <1>3, <1>4
  <1> QED  BY <1>1, <1>5 DEF IsPass

(* And there is no other. *)
LEMMA PassIs ==
    ASSUME NEW v \in Int, NEW f, NEW count, IsDecimal(f, count, v), Decimal(v) = Reverse(Digits(f, count)),
           NEW r \in Sources, BytesAt(r, Encoded("text", v)), NEW file \in BOOLEAN, NEW g, IsPass(file, g, r),
           NEW n \in Nat, n <= Len(r.bytes) - r.pos + 1
    PROVE  g[n] = StateAt(f, count, v, r, n)
  <1>1. PICK max : max = Len(r.bytes) - r.pos + 1
    OBVIOUS
  <1>2. max \in Int
    BY <1>1, LenProperties DEF Sources
  <1>3. g = [k \in 0 .. max |-> IF k = 0 THEN Automaton("leader", 0, r) ELSE Stepped(file, g[k - 1])]
    BY <1>1 DEF IsPass
  <1> DEFINE E == {k \in Nat : k <= max => g[k] = StateAt(f, count, v, r, k)}
  <1>4. 0 \in E
    <2> SUFFICES ASSUME 0 <= max PROVE g[0] = StateAt(f, count, v, r, 0)
      OBVIOUS
    <2>1. 0 \in 0 .. max
      BY <1>2
    <2>2. g[0] = Automaton("leader", 0, r)
      BY <1>3, <2>1
    <2> QED  BY <2>2 DEF StateAt
  <1>5. ASSUME NEW k \in Nat, k \in E PROVE k + 1 \in E
    <2> SUFFICES ASSUME k + 1 <= max PROVE g[k + 1] = StateAt(f, count, v, r, k + 1)
      OBVIOUS
    <2>1. PICK j : j = k + 1
      OBVIOUS
    <2>2. j \in 0 .. max /\ j # 0 /\ j - 1 = k /\ k <= max
      BY <1>2, <2>1
    <2>3. g[k] = StateAt(f, count, v, r, k)
      BY <1>5, <2>2
    <2>4. g[j] = Stepped(file, g[k])
      BY <1>3, <2>2
    <2>5. Stepped(file, StateAt(f, count, v, r, k)) = StateAt(f, count, v, r, k + 1)
      BY StateNext
    <2> QED  BY <2>1, <2>3, <2>4, <2>5
  <1>6. \A k \in Nat : k \in E
    <2> HIDE DEF E
    <2> QED  BY <1>4, <1>5, SetInduction
  <1> QED  BY <1>1, <1>6

(* So the text of a number comes back. *)
LEMMA TextBack ==
    ASSUME NEW v \in Int, InRange("text", v), NEW r \in Sources, BytesAt(r, Encoded("text", v)),
           NEW next, next = Ahead(r, Len(Encoded("text", v)))
    PROVE  /\ Yields(aktive_read_uint_strsharp(r), v, next)
           /\ Yields(aktive_get_uint_strsharp(r), v, next)
  <1>1. PICK f, count : IsDecimal(f, count, v) /\ Decimal(v) = Reverse(Digits(f, count))
    BY DecimalIs
  <1>2. PICK d : d = Decimal(v)
    OBVIOUS
  <1>3. d \in Seq(Int) /\ Len(d) = count /\ count \in 1 .. 10
    <2>1. count \in 1 .. 10
      BY <1>1 DEF IsDecimal
    <2>2. IsDecimal(f, count, v) /\ d = Reverse(Digits(f, count))
      BY <1>1, <1>2, Zenon
    <2>3. d \in Seq(Int) /\ Len(d) = count
      BY <2>2, DigitsAre DEF IsText
    <2> QED  BY <2>1, <2>3, Zenon
  <1>4. Len(Encoded("text", v)) = count + 1
    <2>1. PICK e : e = << 32 >>
      OBVIOUS
    <2>2. e \in Seq(Int) /\ Len(e) = 1
      BY <2>1
    <2>3. Len(d \o e) = Len(d) + Len(e)
      BY <1>3, <2>2, ConcatProperties, ZenonT(30)
    <2>4. Encoded("text", v) = d \o e
      BY <1>2, <2>1 DEF Encoded
    <2> QED  BY <1>3, <2>2, <2>3, <2>4
  <1>5. PICK max : max = Len(r.bytes) - r.pos + 1
    OBVIOUS
  <1>6. max \in Nat /\ max > count /\ max <= Len(r.bytes) - r.pos + 1
    <2>1. r.pos \in Nat /\ Len(r.bytes) \in Nat
      BY LenProperties DEF Sources
    <2>2. r.pos + (count + 1) <= Len(r.bytes)
      BY <1>4 DEF BytesAt
    <2>3. PICK p, l : p = r.pos /\ l = Len(r.bytes)
      OBVIOUS
    <2>4. p \in Nat /\ l \in Nat /\ p + (count + 1) <= l /\ count \in 1 .. 10 /\ max = l - p + 1
      BY <1>3, <1>5, <2>1, <2>2, <2>3, Zenon
    <2>5. max \in Nat /\ max > count /\ max <= l - p + 1
      BY <2>4
    <2> QED  BY <2>3, <2>5, Zenon
  <1>7. StateAt(f, count, v, r, max) = Automaton("accept", v, next)
    <2>1. max # 0 /\ ~ (max <= count)
      BY <1>3, <1>6
    <2> QED  BY <1>4, <2>1 DEF StateAt
  <1>8. PICK end : end = Automaton("accept", v, next) /\ end.mode = "accept" /\ end.v = v /\ end.r = next
    BY ReadingIs
  <1>9. Yields(aktive_read_uint_strsharp(r), v, next)
    <2>1. PICK g : /\ g = CHOOSE h : IsReadPass(h, r)
                   /\ aktive_read_uint_strsharp(r) = [ok |-> g[max].mode # "reject", v |-> g[max].v, r |-> g[max].r]
      BY <1>5, ReadNumberIs
    <2>2. \E h : IsReadPass(h, r)
      <3>1. \E h : IsPass(TRUE, h, r)
        BY <1>1, PassExists
      <3> QED  BY <3>1, PassesAre
    <2>3. IsReadPass(g, r)
      BY <2>1, <2>2
    <2>4. PICK file \in BOOLEAN : IsPass(file, g, r)
      BY <2>3, PassesAre
    <2>5. g[max] = StateAt(f, count, v, r, max)
      BY <1>1, <1>6, <2>4, PassIs
    <2>6. g[max] = end
      BY <1>7, <1>8, <2>5
    <2> QED  BY <1>8, <2>1, <2>6 DEF Yields
  <1>10. Yields(aktive_get_uint_strsharp(r), v, next)
    <2>1. PICK g : /\ g = CHOOSE h : IsGetPass(h, r)
                   /\ aktive_get_uint_strsharp(r) = [ok |-> g[max].mode # "reject", v |-> g[max].v, r |-> g[max].r]
      BY <1>5, GetNumberIs
    <2>2. \E h : IsGetPass(h, r)
      <3>1. \E h : IsPass(FALSE, h, r)
        BY <1>1, PassExists
      <3> QED  BY <3>1, PassesAre
    <2>3. IsGetPass(g, r)
      BY <2>1, <2>2
    <2>4. PICK file \in BOOLEAN : IsPass(file, g, r)
      BY <2>3, PassesAre
    <2>5. g[max] = StateAt(f, count, v, r, max)
      BY <1>1, <1>6, <2>4, PassIs
    <2>6. g[max] = end
      BY <1>7, <1>8, <2>5
    <2> QED  BY <1>8, <2>1, <2>6 DEF Yields
  <1> QED  BY <1>9, <1>10

(* And a number of any kind. *)
LEMMA NumberBack ==
    ASSUME NEW v \in Int, NEW kind \in Kinds, InRange(kind, v), NEW r \in Sources,
           BytesAt(r, Encoded(kind, v)), NEW next, next = Ahead(r, Len(Encoded(kind, v)))
    PROVE  /\ Yields(ReadOne(kind, r)[1], v, next)
           /\ Yields(ReadOne(kind, r)[2], v, next)
  <1>1. CASE kind = "text"
    <2>1. ReadOne(kind, r) = << aktive_read_uint_strsharp(r), aktive_get_uint_strsharp(r) >>
      BY <1>1 DEF ReadOne
    <2>2. /\ Yields(aktive_read_uint_strsharp(r), v, next)
          /\ Yields(aktive_get_uint_strsharp(r), v, next)
      BY <1>1, TextBack
    <2> QED  BY <2>1, <2>2
  <1>2. CASE kind # "text"
    BY <1>2, DecodedBack
  <1> QED  BY <1>1, <1>2

(* How the numbers of a list lie in bytes: ends[k] is where the k-th ends. *)
Code(list, k) == Encoded(list[k].kind, list[k].v)

Fits(list) == /\ list \in Seq([kind : Kinds, v : Numbers])
              /\ \A k \in 1 .. Len(list) : InRange(list[k].kind, list[k].v)

Layout(list, s, ends) ==
    /\ s \in Seq(Int)
    /\ ends \in [0 .. Len(list) -> Nat]
    /\ ends[0] = 0 /\ ends[Len(list)] = Len(s)
    /\ \A k \in 0 .. Len(list) : ends[k] <= Len(s)
    /\ \A k \in 1 .. Len(list) :
           /\ ends[k] = ends[k - 1] + Len(Code(list, k))
           /\ \A i \in 1 .. Len(Code(list, k)) : s[ends[k - 1] + i] = Code(list, k)[i]

(* What a number is written as are bytes. *)
LEMMA EncodedSeq ==
    ASSUME NEW v \in Int, NEW kind \in Kinds, InRange(kind, v) PROVE Encoded(kind, v) \in Seq(Int)
  <1>1. CASE kind = "text"
    <2>1. PICK f, count : IsDecimal(f, count, v) /\ Decimal(v) = Reverse(Digits(f, count))
      BY <1>1, DecimalIs
    <2>2. PICK d, e : d = Decimal(v) /\ e = << 32 >>
      OBVIOUS
    <2>3. d \in Seq(Int) /\ e \in Seq(Int)
      <3>1. IsDecimal(f, count, v) /\ d = Reverse(Digits(f, count))
        BY <2>1, <2>2, Zenon
      <3>2. IsText(f, count, d)
        BY <3>1, DigitsAre
      <3>3. d \in Seq(Int)
        BY <3>2, Zenon DEF IsText
      <3> QED  BY <2>2, <3>3
    <2>4. d \o e \in Seq(Int)
      BY <2>3, ConcatProperties, ZenonT(30)
    <2> QED  BY <1>1, <2>2, <2>4 DEF Encoded
  <1>2. CASE kind # "text"
    BY <1>2, EncodedIs
  <1> QED  BY <1>1, <1>2

(* Two sequences, one behind the other. *)
LEMMA JoinedIs ==
    ASSUME NEW a \in Seq(Int), NEW b \in Seq(Int), NEW t, t = a \o b
    PROVE  /\ Len(a) \in Nat /\ Len(b) \in Nat
           /\ t \in Seq(Int) /\ Len(t) = Len(a) + Len(b)
           /\ \A i \in 1 .. Len(a) + Len(b) : t[i] = IF i <= Len(a) THEN a[i] ELSE b[i - Len(a)]
  BY LenProperties, ConcatProperties, ZenonT(30)

(* A number written behind the others lies there. *)
LEMMA LayoutAppended ==
    ASSUME NEW list, Fits(list), NEW s, NEW ends, Layout(list, s, ends),
           NEW kind \in Kinds, NEW v \in Numbers, NEW code, code = Encoded(kind, v), code \in Seq(Int),
           NEW longer, longer = Append(list, [kind |-> kind, v |-> v])
    PROVE  \E e : Layout(longer, s \o code, e)
  <1>1. PICK n : n = Len(list)
    OBVIOUS
  <1>2. /\ n \in Nat /\ Len(longer) = n + 1
        /\ \A k \in 1 .. n : longer[k] = list[k]
        /\ longer[n + 1] = [kind |-> kind, v |-> v]
    BY <1>1 DEF Fits
  <1>3. /\ s \in Seq(Int)
        /\ ends \in [0 .. n -> Nat]
        /\ ends[0] = 0 /\ ends[n] = Len(s)
        /\ \A k \in 0 .. n : ends[k] <= Len(s)
        /\ \A k \in 1 .. n : /\ ends[k] = ends[k - 1] + Len(Code(list, k))
                             /\ \A i \in 1 .. Len(Code(list, k)) : s[ends[k - 1] + i] = Code(list, k)[i]
    BY <1>1 DEF Layout
  <1>4. PICK t : t = s \o code
    OBVIOUS
  <1>5. /\ Len(s) \in Nat /\ Len(code) \in Nat
        /\ t \in Seq(Int) /\ Len(t) = Len(s) + Len(code)
        /\ \A i \in 1 .. Len(s) + Len(code) : t[i] = IF i <= Len(s) THEN s[i] ELSE code[i - Len(s)]
    <2>1. PICK c : c = code /\ c \in Seq(Int)
      OBVIOUS
    <2>2. t = s \o c
      BY <1>4, <2>1
    <2>3. /\ Len(s) \in Nat /\ Len(c) \in Nat
          /\ t \in Seq(Int) /\ Len(t) = Len(s) + Len(c)
          /\ \A i \in 1 .. Len(s) + Len(c) : t[i] = IF i <= Len(s) THEN s[i] ELSE c[i - Len(s)]
      BY <1>3, <2>1, <2>2, JoinedIs
    <2> QED  BY <2>1, <2>3
  <1>6. PICK e : e = [k \in 0 .. n + 1 |-> IF k <= n THEN ends[k] ELSE Len(t)]
    OBVIOUS
  <1>7. /\ \A k \in 0 .. n : e[k] = ends[k] /\ ends[k] \in Nat
        /\ e[n + 1] = Len(t)
    BY <1>2, <1>3, <1>6
  <1>8. e \in [0 .. n + 1 -> Nat] /\ \A k \in 0 .. n + 1 : e[k] <= Len(t)
    <2>1. \A k \in 0 .. n + 1 : e[k] \in Nat /\ e[k] <= Len(t)
      <3> TAKE k \in 0 .. n + 1
      <3>1. CASE k = n + 1
        BY <1>5, <1>7, <3>1
      <3>2. CASE k # n + 1
        <4>1. k \in 0 .. n
          BY <1>2, <3>2
        <4> QED  BY <1>3, <1>5, <1>7, <4>1
      <3> QED  BY <3>1, <3>2
    <2> QED  BY <1>6, <2>1
  <1>9. e[0] = 0
    BY <1>2, <1>3, <1>7
  <1>10. Code(longer, n + 1) = code /\ \A k \in 1 .. n : Code(longer, k) = Code(list, k)
    BY <1>2 DEF Code
  <1>11. ASSUME NEW k \in 1 .. n + 1
         PROVE  /\ e[k] = e[k - 1] + Len(Code(longer, k))
                /\ \A i \in 1 .. Len(Code(longer, k)) : t[e[k - 1] + i] = Code(longer, k)[i]
    <2>1. CASE k = n + 1
      <3>1. k - 1 = n /\ n \in 0 .. n
        BY <1>2, <2>1
      <3>2. e[k - 1] = Len(s) /\ e[k] = Len(s) + Len(code) /\ Code(longer, k) = code
        BY <1>3, <1>5, <1>7, <1>10, <2>1, <3>1
      <3>3. ASSUME NEW i \in 1 .. Len(code) PROVE t[Len(s) + i] = code[i]
        <4>1. PICK j : j = Len(s) + i
          OBVIOUS
        <4>2. j \in 1 .. Len(s) + Len(code) /\ ~ (j <= Len(s)) /\ j - Len(s) = i
          BY <1>5, <4>1
        <4> QED  BY <1>5, <4>1, <4>2
      <3> QED  BY <3>2, <3>3
    <2>2. CASE k # n + 1
      <3>1. PICK c, m : c = Code(list, k) /\ m = k - 1
        OBVIOUS
      <3>2. k \in 1 .. n /\ k \in 0 .. n /\ m \in 0 .. n
        BY <1>2, <2>2, <3>1
      <3>3. e[k] = ends[k] /\ e[m] = ends[m] /\ Code(longer, k) = c
        BY <1>7, <1>10, <3>1, <3>2
      <3>4. ends[k] = ends[m] + Len(c) /\ \A i \in 1 .. Len(c) : s[ends[m] + i] = c[i]
        BY <1>3, <3>1, <3>2
      <3>5. ends[m] \in Nat /\ ends[k] \in Nat /\ ends[k] <= Len(s)
        BY <1>3, <3>2
      <3>6. c \in Seq(Int)
        <4>1. list[k] \in [kind : Kinds, v : Numbers] /\ InRange(list[k].kind, list[k].v)
          <5>1. k \in 1 .. Len(list)
            BY <1>1, <3>2
          <5>2. list \in Seq([kind : Kinds, v : Numbers])
            BY DEF Fits
          <5>3. list[k] \in [kind : Kinds, v : Numbers]
            BY <5>1, <5>2, ElementOfSeq
          <5>4. InRange(list[k].kind, list[k].v)
            BY <5>1 DEF Fits
          <5> QED  BY <5>3, <5>4
        <4>2. PICK kd, x : kd = list[k].kind /\ x = list[k].v
          OBVIOUS
        <4>3. kd \in Kinds /\ x \in Numbers /\ InRange(kd, x)
          BY <4>1, <4>2
        <4>4. x \in Int
          BY <4>3, NumbersAssumption
        <4>5. Encoded(kd, x) \in Seq(Int)
          BY <4>3, <4>4, EncodedSeq
        <4> QED  BY <3>1, <4>2, <4>5 DEF Code
      <3>7. Len(c) \in Nat
        BY <3>6, LenProperties
      <3>8. ASSUME NEW i \in 1 .. Len(c) PROVE t[ends[m] + i] = c[i]
        <4>1. PICK j : j = ends[m] + i
          OBVIOUS
        <4>2. j \in 1 .. Len(s) + Len(code) /\ j <= Len(s)
          <5>1. PICK x, y, l, z, q : x = ends[m] /\ y = ends[k] /\ l = Len(c) /\ z = Len(s) /\ q = Len(code)
            OBVIOUS
          <5>2. /\ x \in Nat /\ y \in Nat /\ l \in Nat /\ z \in Nat /\ q \in Nat
                /\ y <= z /\ y = x + l /\ i \in 1 .. l /\ j = x + i
            BY <1>5, <3>4, <3>5, <3>7, <4>1, <5>1
          <5>3. j \in 1 .. z + q /\ j <= z
            BY <5>2
          <5> QED  BY <5>1, <5>3
        <4>3. t[j] = s[j]
          BY <1>5, <4>2
        <4> QED  BY <3>4, <4>1, <4>3
      <3> QED  BY <3>1, <3>3, <3>4, <3>8
    <2> QED  BY <2>1, <2>2
  <1>12. Layout(longer, t, e)
    <2>1. PICK l : l = Len(longer)
      OBVIOUS
    <2>2. l = n + 1
      BY <1>2, <2>1, Zenon
    <2>3. e \in [0 .. l -> Nat] /\ \A k \in 0 .. l : e[k] <= Len(t)
      BY <1>8, <2>2, Zenon
    <2>4. e[l] = Len(t)
      BY <1>7, <2>2, Zenon
    <2>5. t \in Seq(Int)
      BY <1>5, Zenon
    <2>6. \A k \in 1 .. l :
              /\ e[k] = e[k - 1] + Len(Code(longer, k))
              /\ \A i \in 1 .. Len(Code(longer, k)) : t[e[k - 1] + i] = Code(longer, k)[i]
      BY <1>11, <2>2, Zenon
    <2> QED  BY <1>9, <2>1, <2>3, <2>4, <2>5, <2>6, Zenon DEF Layout
  <1> QED  BY <1>4, <1>12

(* As long as numbers are written, the writer holds them one behind the other;
   when they are read, the reader is behind those it has got. *)
WrittenPart == got = << >> /\ \E s, ends : Holds(stream, s) /\ Layout(items, s, ends)

ReadPart ==
    /\ input \in Sources
    /\ \E S : got \in Seq(S)
    /\ Len(got) <= Len(items)
    /\ \E ends : Layout(items, input.bytes, ends) /\ input.pos = ends[Len(got)]
    /\ \A k \in 1 .. Len(got) : /\ got[k][1] = got[k][2]
                                /\ got[k][1].ok /\ got[k][1].v = items[k].v

StreamInv == /\ Fits(items)
             /\ mode = "write" => WrittenPart
             /\ mode = "read" => ReadPart
             /\ mode \notin {"write", "read"} => items = << >>

(* A new writer holds nothing. *)
LEMMA StartHolds ==
    ASSUME NEW w \in {aktive_write_channel, aktive_write_bytearray}, NEW s, s = << >>
    PROVE  Holds(w, s)
  <1>1. s \in Seq(Int) /\ Len(s) = 0
    OBVIOUS
  <1>2. PICK kind \in {"channel", "bytearray"} :
            w = [kind |-> kind, bytes |-> s, pos |-> 0, used |-> 0, out |-> s]
    BY DEF aktive_write_channel, aktive_write_bytearray
  <1>3. w \in [kind : {"channel", "bytearray"}, bytes : Seq(Int), pos : Nat, used : Nat, out : Seq(Int)]
    BY <1>1, <1>2
  <1>4. w.bytes = s /\ w.pos = 0 /\ w.used = 0
    BY <1>2
  <1> QED  BY <1>1, <1>3, <1>4 DEF Holds

(* The invariant holds at first, and every step keeps it. *)
LEMMA StreamInit == InitStream => StreamInv
  <1> SUFFICES ASSUME InitStream PROVE StreamInv
    OBVIOUS
  <1>1. items = << >>
    BY DEF InitStream
  <1>2. Fits(items)
    BY <1>1 DEF Fits
  <1>3. CASE mode = "write"
    <2>1. stream \in {aktive_write_channel, aktive_write_bytearray} /\ got = << >>
      BY <1>3 DEF InitStream, TextModes
    <2>2. PICK s, ends : s = << >> /\ ends = [k \in 0 .. 0 |-> 0]
      OBVIOUS
    <2>3. s \in Seq(Int) /\ Len(s) = 0
      BY <2>2
    <2>4. Holds(stream, s)
      BY <2>1, <2>2, StartHolds
    <2>5. Layout(items, s, ends)
      BY <1>1, <2>2, <2>3 DEF Layout
    <2>6. WrittenPart
      BY <2>1, <2>4, <2>5 DEF WrittenPart
    <2> QED  BY <1>2, <1>3, <2>6 DEF StreamInv
  <1>4. CASE mode # "write"
    <2>1. mode # "read"
      BY <1>4 DEF InitStream, TextModes
    <2> QED  BY <1>1, <1>2, <1>4, <2>1 DEF StreamInv
  <1> QED  BY <1>3, <1>4

LEMMA WriteNumberStep == StreamInv /\ WriteNumber => StreamInv'
  <1> SUFFICES ASSUME StreamInv, WriteNumber PROVE StreamInv'
    OBVIOUS
  <1>1. PICK kind \in Kinds, v \in Numbers :
            /\ InRange(kind, v)
            /\ items' = Append(items, [kind |-> kind, v |-> v])
            /\ stream' = WriteOne(stream, kind, v)
    BY DEF WriteNumber
  <1>2. mode = "write" /\ mode' = mode /\ got' = got /\ v \in Int /\ Fits(items)
    BY <1>1, NumbersAssumption DEF WriteNumber, StreamInv
  <1>3. PICK s, ends : Holds(stream, s) /\ Layout(items, s, ends)
    BY <1>2 DEF StreamInv, WrittenPart
  <1>4. PICK code : code = Encoded(kind, v)
    OBVIOUS
  <1>5. code \in Seq(Int) /\ Holds(stream', s \o code)
    BY <1>1, <1>2, <1>3, <1>4, WrittenBehind
  <1>6. \E e : Layout(items', s \o code, e)
    BY <1>1, <1>2, <1>3, <1>4, <1>5, LayoutAppended
  <1>7. WrittenPart'
    <2>1. got = << >>
      BY <1>2 DEF StreamInv, WrittenPart
    <2> QED  BY <1>2, <1>5, <1>6, <2>1 DEF WrittenPart
  <1>8. Fits(items')
    <2>1. PICK list, longer, item : /\ list = items /\ longer = items' /\ item = [kind |-> kind, v |-> v]
      OBVIOUS
    <2>2. /\ list \in Seq([kind : Kinds, v : Numbers])
          /\ \A k \in 1 .. Len(list) : InRange(list[k].kind, list[k].v)
      BY <1>2, <2>1 DEF Fits
    <2>3. item \in [kind : Kinds, v : Numbers] /\ item.kind = kind /\ item.v = v /\ longer = Append(list, item)
      BY <1>1, <2>1
    <2>4. /\ longer \in Seq([kind : Kinds, v : Numbers]) /\ Len(longer) = Len(list) + 1
          /\ longer[Len(list) + 1] = item /\ \A k \in 1 .. Len(list) : longer[k] = list[k]
      BY <2>2, <2>3
    <2>5. \A k \in 1 .. Len(longer) : InRange(longer[k].kind, longer[k].v)
      <3> TAKE k \in 1 .. Len(longer)
      <3>1. CASE k = Len(list) + 1
        BY <1>1, <2>3, <2>4, <3>1
      <3>2. CASE k # Len(list) + 1
        <4>1. k \in 1 .. Len(list)
          BY <2>2, <2>4, <3>2, LenProperties
        <4> QED  BY <2>2, <2>4, <4>1
      <3> QED  BY <3>1, <3>2
    <2>6. Fits(longer)
      BY <2>4, <2>5 DEF Fits
    <2> QED  BY <2>1, <2>6
  <1> QED  BY <1>2, <1>7, <1>8 DEF StreamInv

LEMMA CloseStreamStep == StreamInv /\ CloseStream => StreamInv'
  <1> SUFFICES ASSUME StreamInv, CloseStream PROVE StreamInv'
    OBVIOUS
  <1>1. /\ mode = "write" /\ mode' = "read" /\ items' = items /\ got' = got
        /\ input' = Source(aktive_write_done(stream).out)
    BY DEF CloseStream
  <1>2. PICK s, ends : Holds(stream, s) /\ Layout(items, s, ends) /\ got = << >>
    BY <1>1 DEF StreamInv, WrittenPart
  <1>3. input' = Source(s)
    BY <1>1, <1>2, DoneHolds
  <1>4. s \in Seq(Int) /\ ends[0] = 0 /\ Fits(items)
    BY <1>2 DEF Layout, StreamInv
  <1>5. input' \in Sources /\ input'.bytes = s /\ input'.pos = 0
    BY <1>3, <1>4 DEF Source, Sources
  <1>6. got' \in Seq({}) /\ Len(got') = 0
    BY <1>1, <1>2
  <1>7. Len(items) \in Nat
    BY <1>4, LenProperties DEF Fits
  <1>8. ReadPart'
    <2>1. Len(got') <= Len(items')
      BY <1>1, <1>6, <1>7
    <2>2. Layout(items', input'.bytes, ends) /\ input'.pos = ends[Len(got')]
      BY <1>1, <1>2, <1>4, <1>5, <1>6
    <2>3. \A k \in 1 .. Len(got') : FALSE
      BY <1>6
    <2> QED  BY <1>5, <1>6, <2>1, <2>2, <2>3 DEF ReadPart
  <1> QED  BY <1>1, <1>4, <1>8 DEF StreamInv

LEMMA ReadNumberStep == StreamInv /\ ReadNumber => StreamInv'
  <1> SUFFICES ASSUME StreamInv, ReadNumber PROVE StreamInv'
    OBVIOUS
  <1>1. PICK n, j : n = Len(got) /\ j = n + 1
    OBVIOUS
  <1>2. PICK kind, v, both : /\ kind = items[j].kind /\ v = items[j].v /\ both = ReadOne(kind, input)
    OBVIOUS
  <1>3. /\ mode = "read" /\ n < Len(items)
        /\ got' = Append(got, both)
        /\ input' = both[1].r
        /\ mode' = mode
        /\ items' = items
    BY <1>1, <1>2 DEF ReadNumber, ReadBoth
  <1>4. /\ input \in Sources
        /\ \E S : got \in Seq(S)
        /\ \E ends : Layout(items, input.bytes, ends) /\ input.pos = ends[n]
        /\ \A k \in 1 .. n : got[k][1] = got[k][2] /\ got[k][1].ok /\ got[k][1].v = items[k].v
    BY <1>1, <1>3 DEF StreamInv, ReadPart
  <1>5. PICK S : got \in Seq(S)
    BY <1>4
  <1>6. PICK ends : Layout(items, input.bytes, ends) /\ input.pos = ends[n]
    BY <1>4
  <1>7. Fits(items)
    BY DEF StreamInv
  <1>8. n \in Nat /\ Len(items) \in Nat
    <2>1. n \in Nat
      BY <1>1, <1>5, LenProperties
    <2>2. Len(items) \in Nat
      BY <1>7, LenProperties DEF Fits
    <2> QED  BY <2>1, <2>2
  <1>9. j \in 1 .. Len(items) /\ j - 1 = n /\ n \in 0 .. Len(items) /\ j \in 0 .. Len(items)
    BY <1>1, <1>3, <1>8
  <1>10. kind \in Kinds /\ v \in Int /\ InRange(kind, v)
    <2>1. items \in Seq([kind : Kinds, v : Numbers]) /\ InRange(items[j].kind, items[j].v)
      BY <1>7, <1>9 DEF Fits
    <2>2. items[j] \in [kind : Kinds, v : Numbers]
      BY <1>9, <2>1, ElementOfSeq
    <2>3. kind \in Kinds /\ v \in Numbers
      BY <1>2, <2>2
    <2> QED  BY <1>2, <2>1, <2>3, NumbersAssumption
  <1>11. PICK code : code = Encoded(kind, v)
    OBVIOUS
  <1>12. code \in Seq(Int) /\ code = Code(items, j)
    BY <1>2, <1>10, <1>11, EncodedSeq DEF Code
  <1>13. /\ ends[n] \in Nat /\ ends[j] \in Nat /\ ends[j] <= Len(input.bytes)
         /\ ends[j] = ends[n] + Len(code)
         /\ \A i \in 1 .. Len(code) : input.bytes[ends[n] + i] = code[i]
    BY <1>6, <1>9, <1>12 DEF Layout
  <1>14. BytesAt(input, code)
    BY <1>6, <1>13 DEF BytesAt
  <1>15. PICK next : next = Ahead(input, Len(code))
    OBVIOUS
  <1>16. Yields(both[1], v, next) /\ Yields(both[2], v, next)
    BY <1>2, <1>4, <1>10, <1>11, <1>14, <1>15, NumberBack
  <1>17. both[1] = both[2] /\ both[1].ok /\ both[1].v = v /\ both[1].r = next
    BY <1>16 DEF Yields
  <1>18. next \in Sources /\ next.bytes = input.bytes /\ next.pos = ends[j]
    <2>1. Len(code) \in Nat
      BY <1>12, LenProperties
    <2>2. next \in Sources /\ next.bytes = input.bytes /\ next.pos = input.pos + Len(code)
      BY <1>4, <1>15, <2>1, AheadIs
    <2> QED  BY <1>6, <1>13, <2>2
  <1>19. PICK more : more = got'
    OBVIOUS
  <1>20. /\ more \in Seq(S \cup {both}) /\ Len(more) = j
         /\ more[j] = both /\ \A k \in 1 .. n : more[k] = got[k]
    <2>1. got \in Seq(S \cup {both})
      BY <1>5, SeqMonotonic
    <2> QED  BY <1>1, <1>3, <1>19, <2>1
  <1>21. \A k \in 1 .. j : more[k][1] = more[k][2] /\ more[k][1].ok /\ more[k][1].v = items[k].v
    <2> TAKE k \in 1 .. j
    <2>1. CASE k = j
      BY <1>2, <1>17, <1>20, <2>1
    <2>2. CASE k # j
      <3>1. k \in 1 .. n
        BY <1>1, <1>8, <2>2
      <3> QED  BY <1>4, <1>20, <3>1
    <2> QED  BY <2>1, <2>2
  <1>22. ReadPart'
    <2>1. input' \in Sources /\ input'.bytes = input.bytes /\ input'.pos = ends[Len(got')]
      BY <1>3, <1>17, <1>18, <1>19, <1>20
    <2>2. Len(got') <= Len(items')
      BY <1>3, <1>9, <1>19, <1>20
    <2>3. Layout(items', input'.bytes, ends)
      BY <1>3, <1>6, <2>1
    <2>4. \A k \in 1 .. Len(got') : got'[k][1] = got'[k][2] /\ got'[k][1].ok /\ got'[k][1].v = items'[k].v
      BY <1>3, <1>19, <1>20, <1>21
    <2>5. \E X : got' \in Seq(X)
      BY <1>19, <1>20
    <2> QED  BY <2>1, <2>2, <2>3, <2>4, <2>5 DEF ReadPart
  <1>23. mode' = "read"
    BY <1>3
  <1> QED  BY <1>3, <1>7, <1>22, <1>23 DEF StreamInv

LEMMA ReadTextStep == StreamInv /\ ReadText => StreamInv'
  <1> SUFFICES ASSUME StreamInv, ReadText PROVE StreamInv'
    OBVIOUS
  <1>1. mode \in TextModes /\ mode' = mode /\ items' = items
    BY DEF ReadText, ReadBoth
  <1>2. mode \notin {"write", "read"} /\ mode' \notin {"write", "read"}
    BY <1>1 DEF TextModes
  <1> QED  BY <1>1, <1>2 DEF StreamInv

LEMMA StreamStutter == StreamInv /\ UNCHANGED streamVars => StreamInv'
  BY DEF StreamInv, WrittenPart, ReadPart, streamVars

(* Numbers of any kind, written in any order to a file or a string, come back
   as they were, from either reader (runtime/writer.c and reader.c). *)
THEOREM NumbersAreBack == StreamSpec => []NumbersComeBack
  <1>1. InitStream => StreamInv
    BY StreamInit
  <1>2. StreamInv /\ [StreamStep]_streamVars => StreamInv'
    BY WriteNumberStep, CloseStreamStep, ReadNumberStep, ReadTextStep, StreamStutter DEF StreamStep
  <1>3. StreamInv => NumbersComeBack
    <2> SUFFICES ASSUME StreamInv, items # << >> PROVE NumbersComeBack
      BY DEF NumbersComeBack
    <2>1. CASE mode = "write"
      <3>1. got = << >> /\ Len(got) = 0
        BY <2>1 DEF StreamInv, WrittenPart
      <3>2. \A k \in 1 .. Len(got) : FALSE
        BY <3>1
      <3> QED  BY <3>2 DEF NumbersComeBack, Alike
    <2>2. CASE mode = "read"
      BY <2>2 DEF StreamInv, ReadPart, NumbersComeBack, Alike
    <2> QED  BY <2>1, <2>2 DEF StreamInv
  <1> QED  BY <1>1, <1>2, <1>3, PTL DEF StreamSpec
=============================================================================
