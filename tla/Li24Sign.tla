------------------------------ MODULE Li24Sign ------------------------------
(***************************************************************************)
(* The Li24 threshold signing protocol (src/.../Li24/sign/), one session  *)
(* among the parties of a trimmed SignKey, each party running the three   *)
(* rounds of its sign::Context under the round engine.                    *)
(*                                                                         *)
(* Abstraction of the curve: the group has prime order Q and a point is   *)
(* represented by its discrete logarithm in 0..Q-1 (0 is the point at     *)
(* infinity), so g * k is k, point addition is + mod Q, and the public    *)
(* key X_ is the secret.  The x-coordinate and y-parity of a point        *)
(* are XCoord and YOdd, with XCoord(d) = XCoord(Q-d) and opposite parity, *)
(* as on a real curve.  SHA-256 in PRG::rand is the deterministic map     *)
(* Hash on 0..HashMod-1.                                                   *)
(***************************************************************************)
EXTENDS Li24Curve

CONSTANTS
    Parties,     \* the parties of the session (sign_key.n_parties_ of them)
    Threshold,   \* sign_key.threshold_
    Index,       \* [Parties -> 1..Q-1], the share index of each party
    Poly,        \* a key-generation polynomial: Poly[1] is the secret
    M,           \* the message digest m_
    KVals,       \* the values RandomBNLt(n) may return for k_
    PhiVals,     \* the values RandomBNLt(n) may return for phi_
    Seed,        \* [Parties \X Parties -> 0..HashMod-1], symmetric PRG seeds
    HashMod, HashMul, HashAdd   \* the abstract one-way map of PRG::rand

ASSUME /\ Threshold \in Nat /\ Threshold > 2
       /\ Cardinality(Parties) >= Threshold
       /\ \A p, q \in Parties : p # q => Index[p] # Index[q]
       /\ \A p, q \in Parties : Seed[p, q] = Seed[q, p]

VARIABLES
    share,   \* sign_key_.local_party_.x_ of each party, as parsed
    pubKey,  \* sign_key_.X_ of each party
    phase,   \* the engine's current round of each party's context
    prg,     \* prg[p][q]: num of sign_key_.remote_parties_[q].prg at p
    kRaw,    \* ghost: the k_ sampled before masking
    phiRaw,  \* ghost: the phi_ sampled before masking
    k, phi, w,   \* local_party_.k_, phi_, w_ after masking
    R, r,    \* ctx->R_ and ctx->r_ (Round1)
    u, v, delta, \* local_party_.u_, v_, delta_ (Round1)
    sig,     \* (r_, s_, v_) once Round2 succeeded
    chan0,   \* Round0 messages in flight: Gk broadcast with the p2p triple
    chan1,   \* Round1 messages in flight: (delta, v) broadcast
    rcvd1,   \* round1_.p2p_message_arr_/bc_message_arr_ parsed so far
    rcvd2    \* round2_.bc_message_arr_ parsed so far

vars == <<share, pubKey, phase, prg, kRaw, phiRaw, k, phi, w, R, r, u, v, delta, sig,
          chan0, chan1, rcvd1, rcvd2>>

NoSig == [r |-> 0, s |-> 0, v |-> 0]
Phases == {"r0", "r1", "r2", "done", "failed"}

-----------------------------------------------------------------------------
(* The SignKey and the curve *)

\* The public key of the session (the same X_ at every party).
XKey == pubKey[CHOOSE p \in Parties : TRUE]


\* Mutant: the digest not reduced to its 32 bytes.
HashNoMod(x) == x * HashMul + HashAdd

\* PRG::rand: num = SHA256(num) read back as a 256-bit number.
Hash(x) == (x * HashMul + HashAdd) % HashMod

\* num after i calls of PRG::rand.
RECURSIVE Iter(_, _)
Iter(x, i) == IF i = 0 THEN x ELSE Hash(Iter(x, i - 1))

-----------------------------------------------------------------------------
(* Round0 of signing (sign/round0.cpp) *)

\* Polynomial::GetLArray at 0 over the participants: the weight of p.
Lambda(p) == LagrangeAt0(Parties, Index, p)

\* Position of p's index in the sorted index array (local_party_index,
\* remote_party_indexes).
Rank(p) == Cardinality({q \in Parties : Index[q] < Index[p]})

\* +1 when the local rank is above the peer's, -1 otherwise.
MaskSign(p, q) == IF Rank(p) > Rank(q) THEN 1 ELSE -1

\* Mutant: the w_ loop adds the draw in both branches (copy-paste slip).
MaskWAlwaysAdd(p, i) ==
    SumOver(Parties \ {p}, LAMBDA q :
        (IF i = 3 THEN 1 ELSE MaskSign(p, q)) * Iter(prg[p][q], i))

\* The accumulated temp of the i-th draw loop (i = 1 for k, 2 for phi,
\* 3 for w): one prg.rand() per remote party.
Mask(p, i) == SumOver(Parties \ {p}, LAMBDA q : MaskSign(p, q) * Iter(prg[p][q], i))

\* Mutant: an odd threshold sends to ceil(n/2) peers instead of (n-1)/2.
ArcEndOddLong(t, n, L) ==
    IF t % 2 = 1 THEN (L + (n + 1) \div 2) % t
    ELSE IF L < t \div 2 THEN (L + t \div 2) % t ELSE (L + t \div 2 - 1) % t

\* Mutant: both halves of an even threshold send to t/2 peers.
ArcEndEvenSame(t, n, L) ==
    IF t % 2 = 1 THEN (L + (n - 1) \div 2) % t ELSE (L + t \div 2) % t

\* MakeMessage, for threshold t and n parties: the last rank of the arc
\* of peers that receive rank L's real triple.
ArcEnd(t, n, L) ==
    IF t % 2 = 1
      THEN (L + (n - 1) \div 2) % t
    ELSE IF L < t \div 2
      THEN (L + t \div 2) % t
      ELSE (L + t \div 2 - 1) % t

\* MakeP2PMessage(start, end): does rank L send its real triple to rank j?
InArcOf(t, n, L, j) ==
    LET start == (L + 1) % t
        end   == ArcEnd(t, n, L)
    IN  IF end < start THEN j <= end \/ j >= start
                       ELSE j <= end /\ j >= start

InArc(L, j) == InArcOf(Threshold, Cardinality(Parties), L, j)

Round0(p) ==
    /\ phase[p] = "r0"
    /\ \E k0 \in KVals, phi0 \in PhiVals :
         LET k1   == (k0 + Mask(p, 1)) % Q
             phi1 == (phi0 + Mask(p, 2)) % Q
             w1   == (((share[p] * Lambda(p)) % Q) + Mask(p, 3)) % Q
             Msg(q) == IF InArc(Rank(p), Rank(q))
                         THEN [from |-> p, to |-> q, Gk |-> k1,
                               k |-> k1, w |-> w1, phi |-> phi1]
                         ELSE [from |-> p, to |-> q, Gk |-> k1,
                               k |-> 0, w |-> 0, phi |-> 0]
         IN  /\ kRaw' = [kRaw EXCEPT ![p] = k0]
             /\ phiRaw' = [phiRaw EXCEPT ![p] = phi0]
             /\ k' = [k EXCEPT ![p] = k1]
             /\ phi' = [phi EXCEPT ![p] = phi1]
             /\ w' = [w EXCEPT ![p] = w1]
             /\ chan0' = chan0 \cup {Msg(q) : q \in Parties \ {p}}
    /\ prg' = [prg EXCEPT ![p] = [q \in Parties |->
                                   IF q = p THEN 0 ELSE Iter(prg[p][q], 3)]]
    /\ phase' = [phase EXCEPT ![p] = "r1"]
    /\ UNCHANGED <<share, pubKey, R, r, u, v, delta, sig, chan1, rcvd1, rcvd2>>

-----------------------------------------------------------------------------
(* Round1 of signing (sign/round1.cpp) *)

\* PushMessage for round 0 output: Round1::ParseMsg stores the p2p triple
\* and the Gk broadcast at the sender's position.  The driver hands a
\* party the messages of its current round only.
Receive1(p, m) ==
    /\ phase[p] = "r1"
    /\ m \in chan0 /\ m.to = p
    /\ chan0' = chan0 \ {m}
    /\ rcvd1' = [rcvd1 EXCEPT ![p] = @ \cup {m}]
    /\ UNCHANGED <<share, pubKey, phase, prg, kRaw, phiRaw, k, phi, w, R, r, u, v, delta, sig,
                   chan1, rcvd2>>

\* Round1::ComputeVerify and MakeMessage.
Round1(p) ==
    /\ phase[p] = "r1"
    /\ {m.from : m \in rcvd1[p]} = Parties \ {p}
    /\ LET GK == (k[p] + SumOver(rcvd1[p], LAMBDA m : m.Gk)) % Q
            r1 == XCoord(GK)
            u1 == w[p] * phi[p]
                  + SumOver(rcvd1[p], LAMBDA m : (w[p] * m.phi + phi[p] * m.w) % Q)
            v1 == k[p] * phi[p]
                  + SumOver(rcvd1[p], LAMBDA m : (k[p] * m.phi + phi[p] * m.k) % Q)
            d1 == (M * phi[p] + r1 * u1) % Q
        IN  /\ R' = [R EXCEPT ![p] = GK]
            /\ r' = [r EXCEPT ![p] = r1]
            /\ u' = [u EXCEPT ![p] = u1]
            /\ v' = [v EXCEPT ![p] = v1]
            /\ delta' = [delta EXCEPT ![p] = d1]
            /\ chan1' = chan1 \cup {[from |-> p, to |-> q, delta |-> d1, v |-> v1] :
                                     q \in Parties \ {p}}
    /\ phase' = [phase EXCEPT ![p] = "r2"]
    /\ UNCHANGED <<share, pubKey, prg, kRaw, phiRaw, k, phi, w, sig, chan0, rcvd1, rcvd2>>

-----------------------------------------------------------------------------
(* Round2 of signing (sign/round2.cpp) *)

\* Round2::ParseMsg: Round1BCMessage::FromProtoObject accepts the message
\* only when delta_ and v_ are both non-zero ...
Receive2(p, m) ==
    /\ phase[p] = "r2"
    /\ m \in chan1 /\ m.to = p
    /\ m.delta # 0 /\ m.v # 0
    /\ chan1' = chan1 \ {m}
    /\ rcvd2' = [rcvd2 EXCEPT ![p] = @ \cup {m}]
    /\ UNCHANGED <<share, pubKey, phase, prg, kRaw, phiRaw, k, phi, w, R, r, u, v, delta, sig,
                   chan0, rcvd1>>

\* Mutant: the parse error is swallowed and the message dropped.
RejectZeroDrop(p, m) ==
    /\ phase[p] = "r2"
    /\ m \in chan1 /\ m.to = p
    /\ m.delta = 0 \/ m.v = 0
    /\ chan1' = chan1 \ {m}
    /\ UNCHANGED <<share, pubKey, phase, prg, kRaw, phiRaw, k, phi, w, R, r, u, v, delta, sig,
                   chan0, rcvd1, rcvd2>>

\* ... and otherwise pushes an error: the instance is abandoned.
RejectZero(p, m) ==
    /\ phase[p] = "r2"
    /\ m \in chan1 /\ m.to = p
    /\ m.delta = 0 \/ m.v = 0
    /\ chan1' = chan1 \ {m}
    /\ phase' = [phase EXCEPT ![p] = "failed"]
    /\ UNCHANGED <<share, pubKey, prg, kRaw, phiRaw, k, phi, w, R, r, u, v, delta, sig,
                   chan0, rcvd1, rcvd2>>

\* safeheron::curve::ecdsa::VerifyPublicKey: recover the nonce point from
\* (r, recovery bits), then the public key from (m, r, s), and compare.
VerifyPublicKey(pk, m, rr, ss, vv) ==
    /\ rr \in 1..Q-1 /\ ss \in 1..Q-1
    /\ \E d \in 1..Q-1 :
         /\ XCoord(d) + (IF vv >= 2 THEN Q ELSE 0) = rr
         /\ YOdd(d) = (vv % 2 = 1)
         /\ (InvM(rr) * (ss * d - m)) % Q = pk

\* Mutant: recovery_param kept when s is replaced by n - s.
KeepRecovery(rec) == rec

\* recovery_param ^= 1 when s is replaced by n - s.
FlipRecovery(rec) == IF rec % 2 = 1 THEN rec - 1 ELSE rec + 1

\* Mutant: the low-s normalisation left out.
IsHighNever(s0) == FALSE

\* s > half_n, with half_n = n / 2: s is replaced by n - s.
IsHigh(s0) == s0 > Q \div 2

\* Round2::ComputeVerify up to the verification: (r, s, recovery_param).
Signature(p) ==
    LET V   == (v[p] + SumOver(rcvd2[p], LAMBDA m : m.v)) % Q
        D   == (delta[p] + SumOver(rcvd2[p], LAMBDA m : m.delta)) % Q
        s0  == (D * InvM(V)) % Q
        rec == (IF YOdd(R[p]) THEN 1 ELSE 0) + (IF XCoord(R[p]) # r[p] THEN 2 ELSE 0)
        flip == IsHigh(s0)
    IN  [r |-> r[p],
         s |-> IF flip THEN Q - s0 ELSE s0,
         v |-> IF flip THEN FlipRecovery(rec) ELSE rec]

Round2Ready(p) ==
    /\ phase[p] = "r2"
    /\ {m.from : m \in rcvd2[p]} = Parties \ {p}

\* The signature verifies against X_: the session finishes.
Round2(p) ==
    /\ Round2Ready(p)
    /\ LET sg == Signature(p) IN
         /\ VerifyPublicKey(pubKey[p], M, sg.r, sg.s, sg.v)
         /\ sig' = [sig EXCEPT ![p] = sg]
    /\ phase' = [phase EXCEPT ![p] = "done"]
    /\ UNCHANGED <<share, pubKey, prg, kRaw, phiRaw, k, phi, w, R, r, u, v, delta,
                   chan0, chan1, rcvd1, rcvd2>>

\* "Failed to verify R,S,V with child public key!"
Round2Fail(p) ==
    /\ Round2Ready(p)
    /\ LET sg == Signature(p) IN ~VerifyPublicKey(pubKey[p], M, sg.r, sg.s, sg.v)
    /\ phase' = [phase EXCEPT ![p] = "failed"]
    /\ UNCHANGED <<share, pubKey, prg, kRaw, phiRaw, k, phi, w, R, r, u, v, delta, sig,
                   chan0, chan1, rcvd1, rcvd2>>

-----------------------------------------------------------------------------

\* Context::CreateContext: sign_key_.FromBase64 gives every party its
\* Shamir share of the secret Poly[1] and the public key.
KeyInit ==
    /\ share = [p \in Parties |-> EvalPoly(Poly, Index[p])]
    /\ pubKey = [p \in Parties |-> Poly[1] % Q]

\* The rounds bound by BindAllRounds, before any step; the PRG of every
\* remote party starts from its seed seed[p][q], as the parse of the
\* SignKey leaves it.
\* Each PRG starts at the seed_ the SignKey holds for that peer.
PrgInit(seed) == [p \in Parties |-> [q \in Parties |-> IF p = q THEN 0 ELSE seed[p][q]]]

SessionInit(seed) ==
    /\ phase = [p \in Parties |-> "r0"]
    /\ prg = PrgInit(seed)
    /\ kRaw = [p \in Parties |-> 0]
    /\ phiRaw = [p \in Parties |-> 0]
    /\ k = [p \in Parties |-> 0]
    /\ phi = [p \in Parties |-> 0]
    /\ w = [p \in Parties |-> 0]
    /\ R = [p \in Parties |-> 0]
    /\ r = [p \in Parties |-> 0]
    /\ u = [p \in Parties |-> 0]
    /\ v = [p \in Parties |-> 0]
    /\ delta = [p \in Parties |-> 0]
    /\ sig = [p \in Parties |-> NoSig]
    /\ chan0 = {}
    /\ chan1 = {}
    /\ rcvd1 = [p \in Parties |-> {}]
    /\ rcvd2 = [p \in Parties |-> {}]

Init == KeyInit /\ SessionInit([p \in Parties |-> [q \in Parties |-> Seed[p, q]]])

Next ==
    \E p \in Parties :
        \/ Round0(p)
        \/ \E m \in chan0 : Receive1(p, m)
        \/ Round1(p)
        \/ \E m \in chan1 : Receive2(p, m)
        \/ \E m \in chan1 : RejectZero(p, m)
        \/ Round2(p)
        \/ Round2Fail(p)

\* Every party's driver keeps pushing the messages it has and popping the
\* round once it is complete: each party's steps are weakly fair.
Fairness ==
    \A p \in Parties :
        /\ WF_vars(Round0(p)) /\ WF_vars(Round1(p))
        /\ WF_vars(Round2(p)) /\ WF_vars(Round2Fail(p))
        /\ WF_vars(\E m \in chan0 : Receive1(p, m))
        /\ WF_vars(\E m \in chan1 : Receive2(p, m) \/ RejectZero(p, m))

Spec == Init /\ [][Next]_vars /\ Fairness

-----------------------------------------------------------------------------
(* Properties *)

Scalars == 0..Q-1

TypeOK ==
    /\ share \in [Parties -> Scalars] /\ pubKey \in [Parties -> Scalars]
    /\ phase \in [Parties -> Phases]
    /\ prg \in [Parties -> [Parties -> 0..HashMod-1]]
    /\ kRaw \in [Parties -> Scalars] /\ phiRaw \in [Parties -> Scalars]
    /\ k \in [Parties -> Scalars] /\ phi \in [Parties -> Scalars]
    /\ w \in [Parties -> Scalars]
    /\ R \in [Parties -> Scalars] /\ r \in [Parties -> Nat]
    /\ u \in [Parties -> Nat] /\ v \in [Parties -> Nat]
    /\ delta \in [Parties -> Scalars]
    /\ sig \in [Parties -> [r : Nat, s : Scalars, v : 0..3]]
    /\ \A m \in chan0 \cup UNION {rcvd1[p] : p \in Parties} :
         m.from # m.to /\ {m.Gk, m.k, m.w, m.phi} \subseteq Scalars
    /\ \A m \in chan1 \cup UNION {rcvd2[p] : p \in Parties} :
         m.from # m.to /\ m.delta \in Scalars /\ m.v \in Nat

SumModQ(f) == SumOver(Parties, LAMBDA p : f[p]) % Q

\* Masking cancellation (spec section 8): once every party has run
\* Round0, the masked k_, phi_ and w_ that the parties hold sum to the
\* unmasked values they sampled, and the w_ to the secret key: the pairwise
\* PRG draws of Round0::ComputeVerify cancel, and the Lagrange weights
\* reconstruct x.
MaskCancellation ==
    (\A p \in Parties : phase[p] # "r0") =>
        /\ SumModQ(k) = SumModQ(kRaw)
        /\ SumModQ(phi) = SumModQ(phiRaw)
        /\ SumModQ(w) = XKey

\* The masked w_ a set C of parties holds after Round0, as (owner, value)
\* pairs: each member's own local_party_.w_, and the w_ of every real
\* Round0P2PMessage a member has parsed (the zero placeholders carry none).
HeldW(C) ==
    {<<p, w[p]>> : p \in C}
    \cup {<<m.from, m.w>> : m \in {m \in UNION {rcvd1[q] : q \in C} :
                                      InArc(Rank(m.from), Rank(m.to))}}

\* C holds a masked w_ of every participant and their sum is the key.
RecoversKey(C) ==
    /\ \A q \in C : phase[q] # "r0"
    /\ {h[1] : h \in HeldW(C)} = Parties
    /\ SumOver(Parties, LAMBDA p : (CHOOSE h \in HeldW(C) : h[1] = p)[2]) % Q = XKey

\* Threshold security (spec section 1: "no t-1 of whom can recover the
\* private key"): no coalition of fewer than Threshold parties can add up
\* masked w_ values it holds, its own and those Round0::MakeP2PMessage sent
\* it in the clear, to the secret key.
NoSubThresholdKeyRecovery ==
    \A C \in SUBSET Parties :
        Cardinality(C) < Threshold => ~RecoversKey(C)

\* Bilinear sums (spec sections 4.4 and 8): once every party has run
\* Round1, the u_ and v_ of all parties add up to (sum w)(sum phi) and
\* (sum k)(sum phi): Round1::ComputeVerify adds the cross terms of each
\* pair once, because Round0::MakeMessage sends the real triple in exactly
\* one direction of every pair and zeros in the other.
BilinearSums ==
    (\A p \in Parties : phase[p] \in {"r2", "done", "failed"}) =>
        /\ SumModQ(u) = (SumModQ(w) * SumModQ(phi)) % Q
        /\ SumModQ(v) = (SumModQ(k) * SumModQ(phi)) % Q

\* The events under which the code rejects an honest session: the nonce
\* point is infinity, the aggregate blinding is zero, s comes out zero, or
\* a party's (delta_, v_) broadcast is zero and Round1BCMessage refuses it.
Degenerate ==
    LET K == SumModQ(kRaw)
    IN  \/ K = 0
        \/ SumModQ(phiRaw) = 0
        \/ XCoord(K) % Q = 0
        \/ (M + XCoord(K) * XKey) % Q = 0
        \/ \E q \in Parties : phase[q] \in {"r2", "done", "failed"}
                              /\ (delta[q] = 0 \/ v[q] = 0)

\* No spurious failure: a party's session ends in failure only through a
\* degenerate event.  In particular the self-verification of Round2 never
\* rejects the signature that honest parties assemble from the masked
\* shares, the arc-reduced p2p triples, the recovery bits and the low-s
\* normalisation.
NoSpuriousFailure ==
    \A p \in Parties : phase[p] = "failed" => Degenerate

\* The refinement mapping to ECDSASign: the session nonce is the sum of
\* the k_ once every party has sampled it, and a party's outcome is the
\* (r_, s_, v_) it finished with, or the abandoned instance.
SessionNonce ==
    IF \A p \in Parties : phase[p] # "r0" THEN SumModQ(k) ELSE -1

Outcome ==
    [p \in Parties |->
        IF phase[p] = "done"
          THEN [st |-> "done", r |-> sig[p].r, s |-> sig[p].s, v |-> sig[p].v]
          ELSE [st |-> IF phase[p] = "failed" THEN "failed" ELSE "none",
                r |-> 0, s |-> 0, v |-> 0]]

Abstract == INSTANCE ECDSASign WITH nonce <- SessionNonce, out <- Outcome, X <- XKey

\* Refinement: the session as a whole behaves as ECDSASign.  Round0 of
\* the last party fixes the nonce K = sum of the k_; every party that
\* finishes Round2 holds exactly the low-s ECDSA signature of m_ under X_
\* with nonce K and its recovery id, all finished parties hold the same
\* one, and every party eventually finishes or fails.
ImplementsECDSASign == Abstract!Spec

\* Every party's session eventually ends, finished or failed: no party
\* waits forever for a message that no peer will send.
Termination == <>(\A p \in Parties : phase[p] \in {"done", "failed"})

=============================================================================
