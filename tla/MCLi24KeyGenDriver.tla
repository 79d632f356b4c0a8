------------------------- MODULE MCLi24KeyGenDriver -------------------------
(* Instantiation of Li24KeyGenDriver for TLC. *)
EXTENDS Li24KeyGenDriver, TLC

CONSTANTS p1, p2, p3

\* The test's indexes 1..n (here permuted), and an array CheckIndexArr
\* rejects.
MCIndex3 == (p1 :> 3) @@ (p2 :> 1) @@ (p3 :> 2)
MCIndexClash == (p1 :> 1) @@ (p2 :> 1) @@ (p3 :> 2)
MCIndexArrs == {MCIndex3, MCIndexClash}

=============================================================================
