----------------------------- MODULE DistKeyGen -----------------------------
(***************************************************************************)
(* What a distributed key generation promises, without shares, commitments *)
(* or messages: the run settles on at most one group secret, and every     *)
(* party either fails or finishes holding the public key of that secret,   *)
(* which is never the point at infinity.  Li24KeyGen implements this       *)
(* module when every party is honest.                                      *)
(***************************************************************************)
EXTENDS Integers

CONSTANTS
    Parties,   \* the parties of the run
    Q          \* the group order

VARIABLES
    key,       \* the group secret, NoKey until the dealers have committed
    out        \* out[p]: the outcome at p, with the public key it stored

vars == <<key, out>>

NoKey == -1

Undecided == [st |-> "none", pk |-> 0]
Failed    == [st |-> "failed", pk |-> 0]

Init ==
    /\ key = NoKey
    /\ out = [p \in Parties |-> Undecided]

\* The dealers' contributions fix the group secret.
Commit ==
    /\ key = NoKey
    /\ key' \in 0..Q-1
    /\ UNCHANGED out

\* A party finishes with the public key of the group secret.
Finish(p) ==
    /\ key # NoKey /\ key # 0
    /\ out[p] = Undecided
    /\ out' = [out EXCEPT ![p] = [st |-> "done", pk |-> key]]
    /\ UNCHANGED key

\* A party gives the run up.
Fail(p) ==
    /\ out[p] = Undecided
    /\ out' = [out EXCEPT ![p] = Failed]
    /\ UNCHANGED key

Next == Commit \/ \E p \in Parties : Finish(p) \/ Fail(p)

\* Every party eventually decides.
Spec == Init /\ [][Next]_vars /\ \A p \in Parties : WF_vars(Finish(p) \/ Fail(p))

=============================================================================
