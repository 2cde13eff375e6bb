----------------------------- MODULE MCPixelFetch -----------------------------
(* An image at 0, 0 and one elsewhere; requests inside, across each border and
   corner, around the whole image, and aside of it; a first input of each kind,
   and a second that moves its request too. *)
EXTENDS PixelFetch

R(x, y, w, h) == aktive_rectangle(x, y, w, h)

TestDomains  == {R(0, 0, 3, 2), R(-2, 1, 2, 2)}
TestRequests == [x : {-2, -1, 1}, y : {-1, 0, 1}, width : {1, 2, 5}, height : {1, 3}]
                \cup {R(4, 0, 1, 1), R(0, 0, 3, 2)}
Only(i, kind) == [j \in 0 .. 2 |-> IF j = i THEN kind ELSE "keep"]
TestInputs   == {Only(0, kind) : kind \in Rewriters} \cup {Only(1, "matrix")}
=============================================================================
