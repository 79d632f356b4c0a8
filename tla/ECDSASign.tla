----------------------------- MODULE ECDSASign -----------------------------
(***************************************************************************)
(* What a threshold signing session promises, stated without parties'     *)
(* shares, masks or messages: the session fixes one nonce K, and every     *)
(* party either gives up or outputs the standard ECDSA signature of the    *)
(* digest M under the secret X with nonce K, normalised to low s, with the *)
(* recovery id of the nonce point.  Li24Sign implements this module.      *)
(***************************************************************************)
EXTENDS Li24Curve

CONSTANTS
    Parties,   \* the parties of the session
    M          \* the message digest

VARIABLES
    X,         \* the key the session signs with (the discrete log of the
               \* public key); no step changes it
    nonce,     \* the session nonce K, NoNonce until it is fixed
    out        \* out[p]: the outcome at party p

vars == <<X, nonce, out>>

NoNonce == -1

Undecided == [st |-> "none", r |-> 0, s |-> 0, v |-> 0]
Aborted   == [st |-> "failed", r |-> 0, s |-> 0, v |-> 0]

\* The textbook ECDSA signature with nonce K: r = x(g * K) mod n,
\* s = K^-1 (M + r X) mod n, replaced by n - s when above n/2, and the
\* recovery id (y odd) + 2 (x >= n), whose parity bit follows the flip.
SigOf(K) ==
    LET xR == XCoord(K)
        rr == xR % Q
        s0 == (InvM(K) * (M + rr * X)) % Q
        id == (IF YOdd(K) THEN 1 ELSE 0) + (IF xR >= Q THEN 2 ELSE 0)
        high == s0 > Q \div 2
    IN  [st |-> "done", r |-> rr,
         s |-> IF high THEN Q - s0 ELSE s0,
         v |-> IF high THEN 2 * (id \div 2) + (1 - (id % 2)) ELSE id]

\* A nonce that yields a signature at all: R is not infinity, r # 0, s # 0.
Signable(K) == K # 0 /\ SigOf(K).r # 0 /\ SigOf(K).s # 0

Init ==
    /\ X \in 0..Q-1
    /\ nonce = NoNonce
    /\ out = [p \in Parties |-> Undecided]

\* The session's nonce becomes fixed.
Commit ==
    /\ nonce = NoNonce
    /\ nonce' \in 0..Q-1
    /\ UNCHANGED <<X, out>>

\* A party outputs the signature of the session nonce.
Sign(p) ==
    /\ nonce # NoNonce /\ Signable(nonce)
    /\ out[p] = Undecided
    /\ out' = [out EXCEPT ![p] = SigOf(nonce)]
    /\ UNCHANGED <<X, nonce>>

\* A party gives the session up.
Abort(p) ==
    /\ out[p] = Undecided
    /\ out' = [out EXCEPT ![p] = Aborted]
    /\ UNCHANGED <<X, nonce>>

Next == Commit \/ \E p \in Parties : Sign(p) \/ Abort(p)

\* Every party eventually decides.
Spec == /\ Init /\ [][Next]_vars
        /\ WF_vars(Commit)
        /\ \A p \in Parties : WF_vars(Sign(p) \/ Abort(p))

=============================================================================
