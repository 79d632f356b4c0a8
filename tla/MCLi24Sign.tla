----------------------------- MODULE MCLi24Sign -----------------------------
(* Instantiation of Li24Sign for TLC: three or four parties over the      *)
(* group of order 7.                                                       *)
EXTENDS Li24Sign, TLC

CONSTANTS p1, p2, p3, p4

\* Share indices, deliberately not in the order of the party names so that
\* the sort of Round0 matters.
MCIndex3 == (p1 :> 3) @@ (p2 :> 1) @@ (p3 :> 2)
MCIndex4 == (p1 :> 3) @@ (p2 :> 1) @@ (p3 :> 5) @@ (p4 :> 2)

\* The combined key-generation polynomial f(z) = 4 + 2z + 5z^2 (+ 3z^3).
MCPoly3 == <<4, 2, 5>>
MCPoly4 == <<4, 2, 5, 3>>

\* The seed shared by a pair, the same at both ends (key_gen Round1).
MCSeed == [pq \in Parties \X Parties |->
             (Index[pq[1]] * Index[pq[2]] + 2 * (Index[pq[1]] + Index[pq[2]])) % HashMod]

=============================================================================
