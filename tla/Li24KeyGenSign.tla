--------------------------- MODULE Li24KeyGenSign ---------------------------
(***************************************************************************)
(* Key generation followed by a signing session on the key it produced:   *)
(* each party's application saves its SignKey at the end of its           *)
(* key_gen::Round1 and hands it to sign::Context::CreateContext.  The     *)
(* signing session starts from the shares x_, the public key X_ and the   *)
(* PRG seeds that Li24KeyGen computed, not from constants, so the         *)
(* assumptions Li24Sign makes of its SignKey (shares of one polynomial,   *)
(* the same seed at both ends of a pair) are those key generation         *)
(* establishes.  All parties are honest and all of them sign.  Every      *)
(* party loads its own key: a refused key fails that party's context      *)
(* only, while the others load theirs and start the session.              *)
(***************************************************************************)
EXTENDS Li24Curve

CONSTANTS
    Parties, Threshold, Index,
    UVals, CoeVals, SeedVals,       \* key generation's random choices
    M, KVals, PhiVals,              \* signing's digest and random choices
    HashMod, HashMul, HashAdd

VARIABLES
    kgPhase, kgU, coe, seedL, x, X, seedR, chan, rcvd,     \* Li24KeyGen
    loaded,  \* loaded[p]: "none" before CreateContext, then "ok", or
             \* "refused" when it returns false
    share, pubKey, phase, prg, kRaw, phiRaw, k, phi, w,     \* Li24Sign
    R, r, u, v, delta, sig, chan0, chan1, rcvd1, rcvd2

KG == INSTANCE Li24KeyGen
        WITH IndexArrs <- {Index}, phase <- kgPhase, u <- kgU,
             Equivocators <- {}, Tamperers <- {}, MaxRedeliveries <- 0

SG == INSTANCE Li24Sign
        WITH Poly <- [i \in 1..Threshold |-> 0],
             Seed <- [pq \in Parties \X Parties |-> 0]

kgVars == <<kgPhase, kgU, coe, seedL, x, X, seedR, chan, rcvd>>
sgVars == <<share, pubKey, phase, prg, kRaw, phiRaw, k, phi, w,
            R, r, u, v, delta, sig, chan0, chan1, rcvd1, rcvd2>>
vars == <<kgVars, loaded, sgVars>>

Init == KG!Init /\ loaded = [p \in Parties |-> "none"] /\ SG!Init

\* A step of key generation.
KeyGenStep == KG!Next /\ UNCHANGED <<loaded, sgVars>>

\* Party p finished key generation and CreateContext loads its SignKey:
\* its session starts with its generated share, public key and seeds.
\* Its other session variables still hold SG!SessionInit's values.
StartSign(p) ==
    /\ kgPhase[p] = "done" /\ loaded[p] = "none"
    /\ KG!LoadsAsSignKey(p)
    /\ loaded' = [loaded EXCEPT ![p] = "ok"]
    /\ share' = [share EXCEPT ![p] = x[p]]
    /\ pubKey' = [pubKey EXCEPT ![p] = X[p]]
    /\ prg' = [prg EXCEPT ![p] = SG!PrgInit(seedR)[p]]
    /\ UNCHANGED <<kgVars, phase, kRaw, phiRaw, k, phi, w, R, r, u, v, delta,
                   sig, chan0, chan1, rcvd1, rcvd2>>

\* sign_key_.FromBase64 fails (LocalParty::FromProtoObject refuses x_ = 0)
\* and CreateContext returns false: p has no signing context.
LoadFail(p) ==
    /\ kgPhase[p] = "done" /\ loaded[p] = "none"
    /\ ~KG!LoadsAsSignKey(p)
    /\ loaded' = [loaded EXCEPT ![p] = "refused"]
    /\ UNCHANGED <<kgVars, sgVars>>

\* A step of p's signing context.
SignStep(p) ==
    /\ loaded[p] = "ok"
    /\ \/ SG!Round0(p)
       \/ \E m \in chan0 : SG!Receive1(p, m)
       \/ SG!Round1(p)
       \/ \E m \in chan1 : SG!Receive2(p, m) \/ SG!RejectZero(p, m)
       \/ SG!Round2(p)
       \/ SG!Round2Fail(p)
    /\ UNCHANGED <<kgVars, loaded>>

Next == KeyGenStep \/ \E p \in Parties : StartSign(p) \/ LoadFail(p) \/ SignStep(p)

\* The drivers run every enabled step of either protocol, and each
\* party's application loads its key once its key generation is over.
Spec == Init /\ [][Next]_vars /\ WF_vars(KeyGenStep)
        /\ \A p \in Parties : /\ WF_vars(StartSign(p)) /\ WF_vars(LoadFail(p))
                              /\ WF_vars(SignStep(p))

-----------------------------------------------------------------------------

\* Masks cancel on generated keys: once every signer has run Round0, the
\* masked w_ sum to the secret behind the X_ key generation stored, and
\* the masked k_ and phi_ to their raw sums.  This needs the PRG seeds of
\* key_gen::Round1 to pair up across every two parties and the shares x_
\* to interpolate to X_ at the signers' Lagrange weights.
GeneratedKeyMasksCancel == SG!MaskCancellation

\* A party has settled: its key generation failed, its SignKey was
\* refused, or its signing context finished or failed.
Settled(p) ==
    kgPhase[p] = "failed" \/ loaded[p] = "refused" \/ phase[p] \in {"done", "failed"}

\* The whole run ends at every party unless some party's SignKey is
\* refused: a refusal fails only that party's CreateContext, and its peers
\* then wait at IsCurRoundFinished for its Round0 messages with no
\* timeout in the protocol (spec sections 5 and 7).  Nothing else leaves
\* a party waiting: not a zero delta_ or v_ (the parse refuses it and the
\* instance ends), not the hand-over from key generation to signing.
SessionEnds ==
    <>(\/ \A p \in Parties : Settled(p)
       \/ \E q \in Parties : loaded[q] = "refused")

\* A signing session on a generated key fails only through a degenerate
\* value: key generation's X_ is the key every party's Round2 verifies
\* the jointly computed signature against.
GeneratedKeySigns == (\A p \in Parties : loaded[p] = "ok") => SG!NoSpuriousFailure

=============================================================================
