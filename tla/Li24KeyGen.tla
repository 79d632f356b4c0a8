----------------------------- MODULE Li24KeyGen -----------------------------
(***************************************************************************)
(* The Li24 distributed key generation (src/.../Li24/key_gen/): each party *)
(* runs Round0 (sample, share, commit, send) and Round1 (verify, combine)  *)
(* of its key_gen::Context.  Points are discrete logarithms mod Q as in    *)
(* Li24Sign: a Feldman commitment g * c is c itself, and VerifyShare       *)
(* checks the share against the committed polynomial.                     *)
(*                                                                         *)
(* Some parties may be faulty: an Equivocator sends each peer a broadcast  *)
(* and a share of a polynomial of its own choosing for that peer; a        *)
(* Tamperer sends shares that may not match its broadcast.  Faulty parties *)
(* stop after Round0.                                                      *)
(***************************************************************************)
EXTENDS Li24Math

CONSTANTS
    Parties,      \* all parties (n_parties)
    Threshold,    \* threshold t: polynomials of degree t-1
    IndexArrs,    \* the index arrays [Parties -> Int] CreateContext may be given
    UVals,        \* values RandomBNLt(n) may return for u_
    CoeVals,      \* values RandomBNLt(n) may return for a coefficient
    SeedVals,     \* values RandomBN(255) may return for a seed half
    Equivocators, \* faulty parties that send different broadcasts
    Tamperers,    \* faulty parties that send shares off their commitments
    MaxRedeliveries  \* how often the network may hand a parsed Round0
                     \* message to Round1::ParseMsg again

Faulty == Equivocators \cup Tamperers
Honest == Parties \ Faulty

ASSUME /\ MaxRedeliveries \in Nat
       /\ Threshold \in Nat /\ Threshold > 2 /\ Threshold <= Cardinality(Parties)
       /\ Faulty \subseteq Parties

VARIABLES
    Index,   \* the party index array all contexts were created with
    phase,   \* "r0", "r1", "done", "failed" ("byz" for a faulty party)
    u,       \* ctx->local_party_.u_
    coe,     \* u_ followed by rand_polynomial_coe_arr_: as discrete logs, vs_
    seedL,   \* seedL[p][q]: sign_key.local_party_.seed_ slot of remote q
    x,       \* sign_key.local_party_.x_
    X,       \* sign_key.X_
    seedR,   \* seedR[p][q]: sign_key.remote_parties_[q].seed_, the PRG seed
    chan,    \* Round0 messages in flight: [from, to, vs, xij, eij]
    rcvd     \* round1_.bc_message_arr_ / p2p_message_arr_ parsed so far

vars == <<Index, phase, u, coe, seedL, x, X, seedR, chan, rcvd>>

-----------------------------------------------------------------------------

\* A CheckIndexArr that only rejects indices that are zero mod n.
CheckIndexArrNonZeroOnly == \A p \in Parties : Index[p] % Q # 0

\* CheckIndexArr: indices pairwise distinct and non-zero mod n.
CheckIndexArr ==
    /\ \A p \in Parties : Index[p] % Q # 0
    /\ \A p, q \in Parties : p # q => Index[p] % Q # Index[q] % Q

\* A VerifyShare that accepts every share.
VerifyShareSkip(vs, idx, share) == TRUE

\* A VerifyShare that evaluates every commitment in vs_.
VerifyShareAllCommits(vs, idx, share) == EvalPoly(vs, idx) = share % Q

\* vsss::VerifyShare(vs_, threshold_, index, share): g * share = sum of
\* vs[k] * index^k over the first threshold_ commitments.
VerifyShare(vs, idx, share) == EvalPoly(SubSeq(vs, 1, Threshold), idx) = share % Q

\* The commitment vector of MakeSharesWithCommitsAndCoes: u then the
\* coefficients (as discrete logarithms).
Commits(u0, cs) == <<u0>> \o cs

Coes == [1..Threshold-1 -> CoeVals]

\* Round0::ComputeVerify and MakeMessage of an honest party.
Round0(p) ==
    /\ p \in Honest
    /\ phase[p] = "r0"
    /\ CheckIndexArr
    /\ \E u0 \in UVals, cs \in Coes, sd \in [Parties \ {p} -> SeedVals] :
         LET vs == Commits(u0, [i \in 1..Threshold-1 |-> cs[i]])
         IN  /\ u' = [u EXCEPT ![p] = u0]
             /\ coe' = [coe EXCEPT ![p] = vs]
             /\ seedL' = [seedL EXCEPT ![p] = [q \in Parties |->
                                                IF q = p THEN 0 ELSE sd[q]]]
             /\ x' = [x EXCEPT ![p] = EvalPoly(vs, Index[p])]
             /\ chan' = chan \cup
                  {[from |-> p, to |-> q, vs |-> vs,
                    xij |-> EvalPoly(vs, Index[q]), eij |-> sd[q]] :
                   q \in Parties \ {p}}
    /\ phase' = [phase EXCEPT ![p] = "r1"]
    /\ UNCHANGED <<Index, X, seedR, rcvd>>

\* "Failed in CheckIndexArr!": the indices collide or one is zero mod n.
Round0Fail(p) ==
    /\ p \in Honest
    /\ phase[p] = "r0"
    /\ ~CheckIndexArr
    /\ phase' = [phase EXCEPT ![p] = "failed"]
    /\ UNCHANGED <<Index, u, coe, seedL, x, X, seedR, chan, rcvd>>

\* A faulty party's Round0: to every peer its own polynomial (equivocator)
\* or a share that may be off the commitments (tamperer).
FaultyRound0(p) ==
    /\ p \in Faulty
    /\ phase[p] = "r0"
    /\ \E us \in [Parties \ {p} -> IF p \in Equivocators THEN UVals ELSE {CHOOSE v \in UVals : TRUE}],
          off \in [Parties \ {p} -> IF p \in Tamperers THEN {0, 1} ELSE {0}],
          cs \in Coes :
         chan' = chan \cup
           {LET vs == Commits(us[q], [i \in 1..Threshold-1 |-> cs[i]])
            IN  [from |-> p, to |-> q, vs |-> vs,
                 xij |-> (EvalPoly(vs, Index[q]) + off[q]) % Q,
                 eij |-> CHOOSE e \in SeedVals : TRUE] :
            q \in Parties \ {p}}
    /\ phase' = [phase EXCEPT ![p] = "byz"]
    /\ UNCHANGED <<Index, u, coe, seedL, x, X, seedR, rcvd>>

-----------------------------------------------------------------------------

\* PushMessage for round 0 output: Round1::ParseMsg stores the broadcast
\* and the p2p message at the sender's position.
Receive(p, m) ==
    /\ phase[p] = "r1"
    /\ m \in chan /\ m.to = p
    /\ chan' = chan \ {m}
    /\ rcvd' = [rcvd EXCEPT ![p] = @ \cup {m}]
    /\ UNCHANGED <<Index, phase, u, coe, seedL, x, X, seedR>>

\* The network hands an already parsed Round0 message to the engine again
\* while the round is open: Round1::ParseMsg re-parses it into the same
\* slot, where Round0BCMessage::FromProtoObject appends the commitments to
\* vs_ without clearing it; the p2p slot's x_ij_ and e_ij_ are overwritten
\* with the same values.
Redeliver(p, m) ==
    /\ phase[p] = "r1"
    /\ m \in rcvd[p]
    /\ Len(m.vs) < (1 + MaxRedeliveries) * Threshold
    /\ rcvd' = [rcvd EXCEPT ![p] = (@ \ {m})
                    \cup {[m EXCEPT !.vs = @ \o SubSeq(@, 1, Threshold)]}]
    /\ UNCHANGED <<Index, phase, u, coe, seedL, x, X, seedR, chan>>

\* A round that also waits for a message from the party itself.
Round1ReadySelf(p) ==
    /\ phase[p] = "r1"
    /\ {m.from : m \in rcvd[p]} = Parties

\* The round is complete once every remote party's message is in.
Round1Ready(p) ==
    /\ phase[p] = "r1"
    /\ {m.from : m \in rcvd[p]} = Parties \ {p}

\* remote_parties_[i].seed_ = e_ij + local seed_[i]: a seed that forgets
\* the remote half.
CombinedSeedOwnOnly(p, q) == seedL[p][q]

\* The PRG seed p keeps for q: q's e_ij to p plus p's own half for q.
CombinedSeed(p, q) == seedL[p][q] + (CHOOSE m \in rcvd[p] : m.from = q).eij

\* The seeds of every remote party, as lines 79-82 set them.
Seeds(p) == [q \in Parties |-> IF q = p THEN 0 ELSE CombinedSeed(p, q)]

\* The share sum of lines 101-103 without the reduction mod n.
ShareSumNoMod(p) == x[p] + SumOver(rcvd[p], LAMBDA m : m.xij)

\* x_ = (x_ + x_ij) % n over every sender.
ShareSum(p) == (x[p] + SumOver(rcvd[p], LAMBDA m : m.xij)) % Q

\* Round1::ReceiveVerify for every sender: all shares match.
SharesVerify(p) == \A m \in rcvd[p] : VerifyShare(m.vs, Index[p], m.xij)

\* A public key that leaves out the party's own vs_[0].
PubKeyRemoteOnly(p) == SumOver(rcvd[p], LAMBDA m : m.vs[1]) % Q

\* pub = y + sum of every sender's vs_[0].
PubKey(p) == (coe[p][1] + SumOver(rcvd[p], LAMBDA m : m.vs[1])) % Q

\* "Failed to verify VsssSecp256k1::VerifyShare!"
Round1VerifyFail(p) ==
    /\ Round1Ready(p)
    /\ ~SharesVerify(p)
    /\ phase' = [phase EXCEPT ![p] = "failed"]
    /\ UNCHANGED <<Index, u, coe, seedL, x, X, seedR, chan, rcvd>>

\* "Invalid public key!": the sum of the constant commitments is infinity.
Round1InfinityFail(p) ==
    /\ Round1Ready(p)
    /\ SharesVerify(p)
    /\ PubKey(p) = 0
    /\ seedR' = [seedR EXCEPT ![p] = Seeds(p)]
    /\ phase' = [phase EXCEPT ![p] = "failed"]
    /\ UNCHANGED <<Index, u, coe, seedL, x, X, chan, rcvd>>

\* Round1::ComputeVerify: combine seeds, public key and share; init PRGs.
Round1(p) ==
    /\ Round1Ready(p)
    /\ SharesVerify(p)
    /\ PubKey(p) # 0
    /\ seedR' = [seedR EXCEPT ![p] = Seeds(p)]
    /\ X' = [X EXCEPT ![p] = PubKey(p)]
    /\ x' = [x EXCEPT ![p] = ShareSum(p)]
    /\ phase' = [phase EXCEPT ![p] = "done"]
    /\ UNCHANGED <<Index, u, coe, seedL, chan, rcvd>>

-----------------------------------------------------------------------------

\* key_gen::Context::CreateContext: n_parties == remotes + 1, t <= n, t > 2
\* (the ASSUME); nothing sampled yet.
Init ==
    /\ Index \in IndexArrs
    /\ phase = [p \in Parties |-> "r0"]
    /\ u = [p \in Parties |-> 0]
    /\ coe = [p \in Parties |-> <<0>>]
    /\ seedL = [p \in Parties |-> [q \in Parties |-> 0]]
    /\ x = [p \in Parties |-> 0]
    /\ X = [p \in Parties |-> 0]
    /\ seedR = [p \in Parties |-> [q \in Parties |-> 0]]
    /\ chan = {}
    /\ rcvd = [p \in Parties |-> {}]

Next ==
    \E p \in Parties :
        \/ Round0(p)
        \/ Round0Fail(p)
        \/ FaultyRound0(p)
        \/ \E m \in chan : Receive(p, m)
        \/ \E m \in rcvd[p] : Redeliver(p, m)
        \/ Round1VerifyFail(p)
        \/ Round1InfinityFail(p)
        \/ Round1(p)

\* Each party's driver keeps pushing the messages it has and popping the
\* round once complete: the honest parties' steps are weakly fair.
Fairness ==
    \A p \in Honest :
        /\ WF_vars(Round0(p)) /\ WF_vars(Round0Fail(p))
        /\ WF_vars(\E m \in chan : Receive(p, m))
        /\ WF_vars(Round1VerifyFail(p)) /\ WF_vars(Round1InfinityFail(p))
        /\ WF_vars(Round1(p))

Spec == Init /\ [][Next]_vars /\ Fairness

-----------------------------------------------------------------------------
(* Properties *)

TypeOK ==
    /\ Index \in IndexArrs
    /\ phase \in [Parties -> {"r0", "r1", "done", "failed", "byz"}]
    /\ u \in [Parties -> 0..Q-1]
    /\ \A p \in Parties : coe[p] \in Seq(0..Q-1)
    /\ seedL \in [Parties -> [Parties -> Nat]]
    /\ seedR \in [Parties -> [Parties -> Nat]]
    /\ x \in [Parties -> 0..Q-1] /\ X \in [Parties -> 0..Q-1]
    /\ \A m \in chan \cup UNION {rcvd[p] : p \in Parties} :
         /\ m.from # m.to
         /\ Len(m.vs) % Threshold = 0
         /\ Len(m.vs) <= (1 + MaxRedeliveries) * Threshold
         /\ m.xij \in 0..Q-1 /\ m.eij \in SeedVals

Done == {p \in Honest : phase[p] = "done"}

\* Share consistency (spec section 8): for every Threshold of the honest
\* parties that finished, the Lagrange combination of their shares x_ at 0
\* is the discrete log of the public key X_ every one of them stored: the
\* shares sum the verified share points of all dealers and X_ sums their
\* constant commitments.
ShareConsistency ==
    \A S \in SUBSET Done :
        Cardinality(S) = Threshold =>
            \A p \in S :
                SumOver(S, LAMBDA q : LagrangeAt0(S, Index, q) * x[q]) % Q = X[p]

\* Key agreement: honest parties that finish store the same public key.
KeyAgreement == \A p, q \in Done : X[p] = X[q]

\* Seed agreement: two honest parties that finish hold the same PRG seed
\* for each other, so that their PRGs draw the same masks in signing.
SeedAgreement == \A p, q \in Done : p # q => seedR[p][q] = seedR[q][p]

\* LocalParty::FromProtoObject on the SignKey that Round1 leaves, as the
\* signing context parses it: index_ # 0, x_ # 0, and g_x_ = g * x_ not
\* infinity (g_x_ is set to g * x_ at the end of Round1).
LoadsAsSignKey(p) == Index[p] # 0 /\ x[p] # 0

\* Every key generation that finishes leaves a SignKey that
\* sign::Context::CreateContext can load: the saved share passes the
\* checks of LocalParty::FromProtoObject.
KeyLoadable == \A p \in Done : LoadsAsSignKey(p)

\* Re-delivery is harmless (the hazard of Round0BCMessage::FromProtoObject
\* appending to vs_): when every dealer is honest, a party fails only on an
\* index array CheckIndexArr rejects or on a public key at infinity, never
\* in Round1::ReceiveVerify, however often its Round0 messages were parsed.
NoSpuriousShareRejection ==
    Faulty = {} =>
        \A p \in Parties :
            phase[p] = "failed" => ~CheckIndexArr \/ PubKey(p) = 0

-----------------------------------------------------------------------------
(* Refinement of DistKeyGen, for runs without faulty parties *)

\* The group secret: the sum of every dealer's u_, once all have sampled
\* (Round0 runs only on an index array CheckIndexArr accepts).
GroupSecret ==
    IF CheckIndexArr /\ \A p \in Parties : phase[p] # "r0"
      THEN SumOver(Parties, LAMBDA p : u[p]) % Q
      ELSE -1

\* What each party has decided, with the X_ it stored once done.
Decided ==
    [p \in Parties |->
        [st |-> IF phase[p] \in {"done", "failed"} THEN phase[p] ELSE "none",
         pk |-> IF phase[p] = "done" THEN X[p] ELSE 0]]

AbstractKG == INSTANCE DistKeyGen WITH key <- GroupSecret, out <- Decided

\* Honest key generation implements DistKeyGen: the parties settle on one
\* secret (the sum of all u_), every party that finishes stores the public
\* key of that secret (Round1 sums every dealer's vs_[0]), none finishes on
\* the point at infinity, and every party decides.
ImplementsDistKeyGen == AbstractKG!Spec

\* Every honest party's key generation ends, finished or failed.
Termination == <>(\A p \in Honest : phase[p] \in {"done", "failed"})


=============================================================================
