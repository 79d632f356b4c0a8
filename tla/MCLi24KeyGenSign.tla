-------------------------- MODULE MCLi24KeyGenSign --------------------------
(* Instantiation of Li24KeyGenSign for TLC: three parties, threshold 3.  *)
EXTENDS Li24KeyGenSign, TLC

CONSTANTS p1, p2, p3

MCIndex3 == (p1 :> 3) @@ (p2 :> 1) @@ (p3 :> 2)

=============================================================================
