------------------------------ MODULE Rectangle ------------------------------
(***************************************************************************)
(* runtime/rectangle.c: rectangles of whole positions, and the split of a  *)
(* request into the part inside of a domain and the zones outside of it;   *)
(* then rectangles of fractional positions, which include their borders.   *)
(* What a function makes of its destination is the value of the operator.  *)
(***************************************************************************)
EXTENDS Integers

Minimum(a, b) == IF a < b THEN a ELSE b
Maximum(a, b) == IF a > b THEN a ELSE b

aktive_point(x, y) == [x |-> x, y |-> y]

aktive_rectangle(x, y, width, height) ==
    [x |-> x, y |-> y, width |-> width, height |-> height]

Xmax(r) == r.x + r.width
Ymax(r) == r.y + r.height

aktive_rectangle_is_equal(a, b) ==
    a.x = b.x /\ a.y = b.y /\ a.width = b.width /\ a.height = b.height

aktive_rectangle_is_dim_eq(a, b) == a.width = b.width /\ a.height = b.height

aktive_rectangle_is_subset(a, b) ==
    a.x >= b.x /\ Xmax(a) <= Xmax(b) /\ a.y >= b.y /\ Ymax(a) <= Ymax(b)

aktive_rectangle_is_empty(r) == r.width = 0 \/ r.height = 0

aktive_rectangle_contains(r, p) ==
    ~ (p.x < r.x \/ p.y < r.y \/ p.x >= Xmax(r) \/ p.y >= Ymax(r))

aktive_rectangle_move(r, dx, dy) == aktive_rectangle(r.x + dx, r.y + dy, r.width, r.height)

aktive_rectangle_add(r, delta) == aktive_rectangle_move(r, delta.x, delta.y)

aktive_rectangle_grow(r, left, right, top, bottom) ==
    aktive_rectangle(r.x - left, r.y - top, r.width + left + right, r.height + top + bottom)

aktive_rectangle_union(a, b) ==
    LET nx == Minimum(b.x, a.x)
        ny == Minimum(b.y, a.y)
    IN  aktive_rectangle(nx, ny, Maximum(Xmax(b), Xmax(a)) - nx, Maximum(Ymax(b), Ymax(a)) - ny)

Apart(a, b) == Xmax(a) <= b.x \/ Xmax(b) <= a.x \/ Ymax(a) <= b.y \/ Ymax(b) <= a.y

aktive_rectangle_intersect(a, b) ==
    LET nx == Maximum(b.x, a.x)
        ny == Maximum(b.y, a.y)
    IN  IF Apart(a, b) THEN aktive_rectangle(0, 0, 0, 0)
        ELSE aktive_rectangle(nx, ny, Minimum(Xmax(b), Xmax(a)) - nx,
                              Minimum(Ymax(b), Ymax(a)) - ny)

-----------------------------------------------------------------------------
(* The zones of a request outside of a domain, as positions in the block of
   the request: a stripe above (A) and one below (B), and what is left (C) and
   right (D) of the domain between them. *)
Top(domain, request)    == domain.y - request.y
Bottom(domain, request) == request.height - domain.height - Top(domain, request)
Left(domain, request)   == domain.x - request.x
Right(domain, request)  == request.width - domain.width - Left(domain, request)

(* A faulty form of HADJ, which forgets that the domain may go on below. *)
HADJTop(domain, request) == Minimum(Top(domain, request), 0)

(* Left and right do not have the height of the domain if that goes on above
   or below the request. *)
HADJ(domain, request) == Minimum(Top(domain, request), 0) + Minimum(Bottom(domain, request), 0)

TP(domain, request) == Maximum(Top(domain, request), 0)

ZoneA(domain, request) == aktive_rectangle(0, 0, request.width, Top(domain, request))

ZoneB(domain, request) ==
    aktive_rectangle(0, Top(domain, request) + domain.height, request.width, Bottom(domain, request))

ZoneC(domain, request) ==
    aktive_rectangle(0, TP(domain, request), Left(domain, request),
                     domain.height + HADJ(domain, request))

ZoneD(domain, request) ==
    aktive_rectangle(Left(domain, request) + domain.width, TP(domain, request),
                     Right(domain, request), domain.height + HADJ(domain, request))

(* The zones that exist, in a set: their order is immaterial.  There are none
   if the request is outside altogether. *)
aktive_rectangle_outzones(domain, request) ==
    IF aktive_rectangle_is_empty(aktive_rectangle_intersect(domain, request)) THEN {}
    ELSE (IF Top(domain, request) > 0 THEN {ZoneA(domain, request)} ELSE {})
         \cup (IF Bottom(domain, request) > 0 THEN {ZoneB(domain, request)} ELSE {})
         \cup (IF Left(domain, request) > 0 THEN {ZoneC(domain, request)} ELSE {})
         \cup (IF Right(domain, request) > 0 THEN {ZoneD(domain, request)} ELSE {})

-----------------------------------------------------------------------------
(* runtime/point.c and range.c: the smallest rectangle around a set of points,
   or of horizontal ranges of a row y from xmin to xmax. *)
Least(S)    == CHOOSE m \in S : \A n \in S : m <= n
Greatest(S) == CHOOSE m \in S : \A n \in S : m >= n

Around(xmins, xmaxs, ys) ==
    aktive_rectangle(Least(xmins), Least(ys), Greatest(xmaxs) - Least(xmins) + 1,
                     Greatest(ys) - Least(ys) + 1)

aktive_point_is_equal(a, b) == a.x = b.x /\ a.y = b.y

aktive_point_union(v) ==
    IF v = {} THEN aktive_rectangle(0, 0, 0, 0)
    ELSE Around({p.x : p \in v}, {p.x : p \in v}, {p.y : p \in v})

aktive_range_union(v) ==
    IF v = {} THEN aktive_rectangle(0, 0, 0, 0)
    ELSE Around({r.xmin : r \in v}, {r.xmax : r \in v}, {r.y : r \in v})

-----------------------------------------------------------------------------
(* Fractional rectangles, from their lowest to their highest positions. *)
aktive_frectangle(xlo, ylo, xhi, yhi) == [xlo |-> xlo, ylo |-> ylo, xhi |-> xhi, yhi |-> yhi]

aktive_frectangle_is_equal(a, b) ==
    a.xlo = b.xlo /\ a.ylo = b.ylo /\ a.xhi = b.xhi /\ a.yhi = b.yhi

aktive_frectangle_is_dim_eq(a, b) ==
    a.xhi - a.xlo = b.xhi - b.xlo /\ a.yhi - a.ylo = b.yhi - b.ylo

aktive_frectangle_is_subset(a, b) ==
    a.xlo >= b.xlo /\ a.ylo >= b.ylo /\ a.xhi <= b.xhi /\ a.yhi <= b.yhi

aktive_frectangle_is_empty(r) == r.xlo > r.xhi \/ r.ylo > r.yhi

aktive_frectangle_contains(r, p) ==
    ~ (p.x < r.xlo \/ p.y < r.ylo \/ p.x > r.xhi \/ p.y > r.yhi)

aktive_frectangle_move(r, dx, dy) ==
    aktive_frectangle(r.xlo + dx, r.ylo + dy, r.xhi + dx, r.yhi + dy)

aktive_frectangle_add(r, delta) == aktive_frectangle_move(r, delta.x, delta.y)

aktive_frectangle_grow(r, left, right, top, bottom) ==
    aktive_frectangle(r.xlo - left, r.ylo - top, r.xhi + right, r.yhi + bottom)

aktive_frectangle_union(a, b) ==
    aktive_frectangle(Minimum(b.xlo, a.xlo), Minimum(b.ylo, a.ylo),
                      Maximum(b.xhi, a.xhi), Maximum(b.yhi, a.yhi))

aktive_frectangle_intersect(a, b) ==
    IF a.xhi < b.xlo \/ b.xhi < a.xlo \/ a.yhi < b.ylo \/ b.yhi < a.ylo
    THEN aktive_frectangle(0, 0, -1, -1)
    ELSE aktive_frectangle(Maximum(b.xlo, a.xlo), Maximum(b.ylo, a.ylo),
                           Minimum(b.xhi, a.xhi), Minimum(b.yhi, a.yhi))

(* Points of fractional position, of runtime/point.c. *)
aktive_fpoint_is_equal(a, b) == a.x = b.x /\ a.y = b.y

aktive_fpoint_union(v) ==
    IF v = {} THEN aktive_frectangle(0, 0, -1, -1)
    ELSE aktive_frectangle(Least({p.x : p \in v}), Least({p.y : p \in v}),
                           Greatest({p.x : p \in v}), Greatest({p.y : p \in v}))
=============================================================================
