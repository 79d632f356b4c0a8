---------------------------- MODULE MCLi24KeyGen ----------------------------
(* Instantiation of Li24KeyGen for TLC. *)
EXTENDS Li24KeyGen, TLC

CONSTANTS p1, p2, p3, p4

MCIndex3 == (p1 :> 3) @@ (p2 :> 1) @@ (p3 :> 2)
MCIndex4 == (p1 :> 3) @@ (p2 :> 1) @@ (p3 :> 4) @@ (p4 :> 2)
\* Two parties given the same index.
MCIndexClash == (p1 :> 1) @@ (p2 :> 1) @@ (p3 :> 2)

\* A correct index array, and one that CheckIndexArr rejects.
MCIndexArrs3 == {MCIndex3, MCIndexClash}
MCIndexArrs4 == {MCIndex4}

=============================================================================
