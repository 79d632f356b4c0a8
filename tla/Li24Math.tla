------------------------------ MODULE Li24Math ------------------------------
(***************************************************************************)
(* Scalar arithmetic of the group of prime order Q that Li24KeyGen and     *)
(* Li24Sign share: the calls the protocol makes into the BN, Polynomial    *)
(* and VSS libraries, on scalars and on points given by their discrete     *)
(* logarithms.                                                             *)
(***************************************************************************)
EXTENDS Integers, Sequences, FiniteSets, Folds

CONSTANT Q   \* the curve order curv->n, a small prime

RECURSIVE Pow(_, _)
Pow(a, e) == IF e = 0 THEN 1 ELSE a * Pow(a, e - 1)

\* Sum of f over S (a fold, so equal values are all counted).
SumOver(S, f(_)) == MapThenFoldSet(+, 0, f, LAMBDA s : CHOOSE e \in s : TRUE, S)

ProdModQ(S, f(_)) ==
    MapThenFoldSet(LAMBDA a, b : (a * b) % Q, 1, f, LAMBDA s : CHOOSE e \in s : TRUE, S)

\* BN::InvM(n); the inverse of 0 does not exist and is taken as 0.
InvM(a) == IF a % Q = 0 THEN 0 ELSE CHOOSE b \in 1..Q-1 : (a * b) % Q = 1

\* The polynomial with coefficients cs (cs[1] the constant term) at z:
\* the share point MakeSharesWithCommitsAndCoes gives index z, and the
\* discrete log of the Feldman combination VerifyShare compares with it.
EvalPoly(cs, z) == SumOver(1..Len(cs), LAMBDA i : cs[i] * Pow(z, i - 1)) % Q

\* Polynomial::GetLArray at 0 over the index set {idx[q] : q \in S}: the
\* Lagrange weight of p.
LagrangeAt0(S, idx, p) ==
    ProdModQ(S \ {p}, LAMBDA q : ((0 - idx[q]) * InvM(idx[p] - idx[q])) % Q)

=============================================================================
