----------------------------- MODULE Li24Curve -----------------------------
(***************************************************************************)
(* The curve seen through discrete logarithms: the point d (0 is the point *)
(* at infinity) has an x-coordinate and a y-parity.  As on secp256k1, d    *)
(* and Q-d share their x-coordinate and differ in parity.  The field is    *)
(* larger than the group: an x-coordinate is an integer that may be Q or   *)
(* more, by XOffset, as the coordinates of secp256k1 lie in [0, p) with     *)
(* p > n.                                                                  *)
(***************************************************************************)
EXTENDS Li24Math

CONSTANT XOffset   \* how far the x-coordinates are shifted up (0: all < Q)

ASSUME XOffset \in Nat

\* CurvePoint::x(): the x-coordinate of the point d.
XCoord(d) == IF d = 0 THEN 0
             ELSE (IF d <= Q \div 2 THEN d ELSE Q - d) + XOffset

\* CurvePoint::y().IsOdd().
YOdd(d) == d > Q \div 2

=============================================================================
