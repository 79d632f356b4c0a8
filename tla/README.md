# TLA+ models of the Li24 threshold ECDSA library

This directory holds TLA+ models of the Li24 key generation and signing
protocols in
`src/Li24-c++/multi-party-sig-cpp/src/multi-party-sig/multi-party-ecdsa/Li24/`
(below, paths are relative to that directory). It also holds the TLC
configurations that check them. Every definition is translated from the C++
source. The exception is the round engine (`MPCContext`), which is not under
`src/`; it is modelled from `spec.md` section 4.2, and `PROJECT.json` marks
those definitions `spec_modelled`.

## 1. The system

| Part | Source | What it does |
|---|---|---|
| PRG | `prg/prg.cpp` | `init(seed)` stores a seed; each `rand()` replaces it by its SHA-256 hash and returns it. |
| Party / SignKey | `party.h`, `party_local.cpp` | Per party: `index_` and share `x_`, `X_`, and per remote party its index, `seed_` and `prg`. |
| Key generation | `key_gen/context.cpp`, `round0.cpp`, `round1.cpp` | Round0 samples `u_`, t-1 coefficients and one seed half per peer, checks the index array, and sends the commitments `vs_` (broadcast) and a share `x_ij` plus seed half `e_ij` (p2p). Round1 verifies every share against its sender's `vs_` and sets `X_` to the sum of the `vs_[0]`, which must not be infinity. It also sets `x_` to the share sum mod n, sets `seed_` = `e_ij` + own half, and initialises the PRGs. |
| Signing | `sign/context.cpp`, `round0.cpp`, `round1.cpp`, `round2.cpp`, `round1_bc_message.cpp` | Round0 computes w = x·λ, ranks the signers, masks k, φ, w with three PRG draws per peer (+ if own rank is higher, − if lower), broadcasts g·k, and sends the real (k, w, φ) triple only to an arc of ranks, with zeros to the rest. Round1 computes R = Σ g·k, r = R.x, u, v and δ = mφ + ru, and broadcasts (δ, v). A zero δ or v is rejected at parse time. Round2 computes s = Σδ · (Σv)⁻¹, then the recovery id and the low-s flip, and verifies the signature against `X_`. |
| Round engine | `MPCContext` (not in the repository) | Routes each message to the current round, decides when a round is complete, and runs ReceiveVerify, ComputeVerify and MakeMessage. Any failure ends the instance. |
| Codecs | `*_message.cpp` | Base64/protobuf. The only checks that change control are the zero checks of `Round1BCMessage`. |

The parties never share memory. They interact only through the messages of
each round, which a driver carries. The drivers in
`test/time/Li24/key_gen_mt_test.cpp` push a round's messages only after the
previous round has been popped. Key generation writes the `SignKey` that
signing later parses. The PRG seeds are the link between them: both ends of
a pair must draw the same masks.

What makes this code hard to test: messages arrive in any order; the pairwise
masks must cancel across parties; the arc rule must cover every unordered
pair exactly once; degenerate values (zero v, zero δ, infinite keys) lead to
failure paths; a faulty party can send different data to different peers.

## 2. Modules

| Module | Models | State |
|---|---|---|
| `Li24Math` | Arithmetic in a prime-order group: `EvalPoly` (shares), `LagrangeAt0` (`GetLArray`) and `InvM` | none |
| `Li24Curve` | The curve abstraction: `XCoord` (`GK.x()`, with an `XOffset` that lets x reach n) and `YOdd` | none |
| `DistKeyGen` | What key generation promises: one group secret, and each party either fails or stores its public key, never infinity | `key`, `out` |
| `ECDSASign` | What a signing session promises: one nonce, and each party either aborts or outputs the low-s ECDSA signature of M under X with that nonce | `X`, `nonce`, `out` |
| `Li24KeyGen` | Key generation Round0 and Round1 for every party, with faulty senders | `Index`, `phase`, `u`, `coe`, `seedL`, `x`, `X`, `seedR`, `chan`, `rcvd` |
| `Li24Sign` | Signing Rounds 0–2 for every party | `share`, `pubKey` (the loaded SignKey), `phase`, `prg`, `k`, `phi`, `w`, `R`, `r`, `u`, `v`, `delta`, `sig`, `chan0`, `chan1`, `rcvd1`, `rcvd2`, plus the ghosts `kRaw`, `phiRaw` |
| `Li24KeyGenSign` | Key generation, then loading of the SignKeys, then a signing session on them | both modules' variables (key generation's `phase` and `u` renamed `kgPhase`, `kgU`), plus `loaded` |
| `Li24KeyGenDriver` | The test driver `key_gen()` of `test/time/Li24/key_gen_mt_test.cpp`: one thread per party around its key generation context, with FIFO round queues | `Li24KeyGen`'s variables, plus `pc`, `outbox`, `queue`, `popped`, `saved` |
| `MCLi24KeyGen`, `MCLi24Sign`, `MCLi24KeyGenSign`, `MCLi24KeyGenDriver` | Model values and constant definitions for TLC | none |

**Abstraction.** secp256k1 is replaced by a cyclic group of small prime order
`Q`. A point is represented by its discrete logarithm: g·k is `k`, and
infinity is `0`. `XCoord(d)` gives d and Q−d the same x-coordinate, and
`YOdd` tells them apart. This keeps the control that depends on point values:
the infinity check, `R.x`, the recovery parity and verification.
`VerifyPublicKey` checks the signature equation (s⁻¹ applied to
m + r·d gives the key) for some nonce d that matches r and the recovery id.
SHA-256 in `PRG::rand` is a fixed map `Hash` on a small domain, and `Iter`
applies it repeatedly. Random choices (`RandomBNLt`, `RandomBN`) are
`\E` over small constant sets.

**Key generation** (`Li24KeyGen`). Each code step has an action:
- `Round0`: `ComputeVerify` and `MakeMessage`.
- `Round0Fail`: `CheckIndexArr` fails.
- `Receive`: `ParseMsg` into the current round.
- `Redeliver`: the network hands a parsed Round0 message to `ParseMsg`
  again while the round is open. `Round0BCMessage::FromProtoObject`
  appends the commitments to `vs_` without clearing it; the p2p fields are
  overwritten with the same values. `MaxRedeliveries` bounds it (0 in all
  runs but `keygen_dup`). `VerifyShare` is called with `threshold_` and
  reads the first `threshold_` commitments. The `vsss` library is not in the
  repository, so this is an assumption. The mutant that reads them all
  shows what depends on it.
- `Round1VerifyFail`: `VerifyShare` fails.
- `Round1InfinityFail`: the public key is infinity. The seeds are already
  written at that point, as in the code.
- `Round1`: the successful `ComputeVerify`.

A party in `Equivocators` sends every peer its own commitment vector with a
share that matches it. A party in `Tamperers` may send a share that is off
its commitments. Faulty parties stop after Round0. The index array is chosen
in `Init` from `IndexArrs`, so a single run can cover both a valid array and
one that `CheckIndexArr` rejects.

**Signing** (`Li24Sign`). The actions are:
- `Round0`: the whole of `ComputeVerify` and `MakeMessage`, including the
  Lagrange weight, ranks, masks, the arc rule (`ArcEnd`, `InArcOf`) and the
  advance of the PRGs.
- `Receive1`: parsing a Round0 message.
- `Round1`: the whole of Round1.
- `Receive2`: parsing a Round1 message.
- `RejectZero`: the parse-time rejection of a zero δ or v.
- `Round2`: `ComputeVerify` succeeds and emits `sig`.
- `Round2Fail`: verification fails.

On its own, `Li24Sign` starts from a fixed key (`KeyInit`): share(p) =
Poly(Index[p]) and the public key Poly(0), with symmetric seeds `Seed`. The
context re-parses the `SignKey`, so every session starts its PRGs at the
seed (`PrgInit`, as `prg.init(seed_)` in `key_gen/round1.cpp`).

**Refinement** (`Li24KeyGen` → `DistKeyGen`). With no faulty party, the
abstract `key` is the sum of all `u_` mod Q once every party has run
Round0 (before that, none). `out[p]` is "done" with the stored `X_`,
"failed", or "none". `ImplementsDistKeyGen` checks `AbstractKG!Spec`. With
an equivocator this refinement cannot hold: that is `keygen_equivocate`.

**Refinement** (`Li24Sign` → `ECDSASign`). The mapping sends the abstract
`nonce` to Σk mod Q once every party has run Round0, `out[p]` to the
signature in `sig[p]` (or "failed"/"none" from `phase[p]`), and `X` to the
stored public key. `ImplementsECDSASign` checks `Abstract!Spec`, including
its fairness: every party eventually decides.

**Composition** (`Li24KeyGenSign`). `KG` and `SG` instantiate the two
modules over disjoint variables. `KeyGenStep` is a step of key generation
(honest parties, one index array). Each party loads its own key once its
own key generation is done, as its application would. `StartSign(p)` is
`sign::Context::CreateContext` for p: `share[p]` := `x[p]`, `pubKey[p]` :=
`X[p]`, and p's PRGs start at `seedR[p]`. `LoadFail(p)` is the case where
p's `x_` = 0, which `LocalParty::FromProtoObject` refuses. Only p's
context fails; the others load their keys and start the session, and then
wait for p's Round0 messages with no timeout (spec sections 5 and 7).
`SignStep(p)` is a step of p's signing context. Key generation and signing
steps of different parties interleave.

**Driver** (`Li24KeyGenDriver`). Each party is a `std::async` thread whose
program counter `pc` follows `key_gen()`. `DriverRound0` is round 0
(`PushMessage()`, `IsCurRoundFinished`, `PopMessages`, i.e. `Li24KeyGen`'s
`Round0`, or `FaultyRound0` for a tamperer), and `DriverRound0Fail` its
`return false`. `Push` pushes one output message onto the destination's
round-0 queue (lines 95-99), in `out_des_arr` order. `Pop` is one iteration
of the loop of lines 69-78: it blocks until its queue is non-empty, then
hands the head to the context (`Receive`); the loop runs `PopsNeeded` =
n−1 times. `CheckRound` is `IsCurRoundFinished` (or `return false`).
`DriverRound1` and `DriverRound1Fail` are the round-1 `PopMessages`; success
stores the SignKey in `base64_arr_sepc` (`saved`). The queue class is not
in the repository; its `Pop` is modelled as a blocking FIFO pop, as the loop
uses it.

## 3. Runs

| Run | Config | Bounds | Checks | Result |
|---|---|---|---|---|
| `keygen` | `MCLi24KeyGen.cfg` | 3 parties, t=3, Q=5, u ∈ {1,2}, coefficient 2, seed halves {0,1}; index arrays {3,1,2} and {1,1,2} | `TypeOK`, `ShareConsistency`, `SeedAgreement`, `Termination`, `ImplementsDistKeyGen` | pass, 64.8k states |
| `keygen_dup` | `MCLi24KeyGen_dup.cfg` | as `keygen`, each parsed message may be parsed once more | `NoSpuriousShareRejection`, `ShareConsistency` | pass, 1.13M states |
| `keygen_tamper` | `MCLi24KeyGen_tamper.cfg` | 4 parties, t=3, p4 may send shares off its commitments | `ShareConsistency` | pass, 48.9k states |
| `keygen_equivocate` | `MCLi24KeyGen_equiv.cfg` | 4 parties, t=3, p4 equivocates | `KeyAgreement` | **violation** |
| `sign_t3` | `MCLi24Sign.cfg` | 3 signers, t=3, Q=7, k ∈ {2,5}, φ ∈ {1,3} | `TypeOK`, `MaskCancellation`, `NoSpuriousFailure`, `BilinearSums`, `Termination`, `ImplementsECDSASign` | pass, 17.7k states |
| `sign_t4` | `MCLi24Sign_t4.cfg` | 4 signers, t=4, k = 2, φ ∈ {1,3} | `NoSpuriousFailure` | pass, 242k states |
| `sign_n4_t3` | `MCLi24Sign_n4t3.cfg` | 4 signers with a t=3 key | `NoSpuriousFailure` | **violation** |
| `sign_collusion` | `MCLi24Sign_collude.cfg` | as `sign_t3` | `NoSubThresholdKeyRecovery` | **violation** |
| `sign_xoffset` | `MCLi24Sign_xoff.cfg` | as `sign_t3` with `XOffset` = 5, k ∈ {1,2}, M = 1 | `NoSpuriousFailure` | **violation** |
| `keygen_load` | `MCLi24KeyGen_load.cfg` | as `keygen` | `KeyLoadable` | **violation** |
| `keygen_driver` | `MCLi24KeyGenDriver.cfg` | 3 threads, t=3, Q=5, p3 tampers, u ∈ {1,2}, seed halves {0,1}; index arrays {3,1,2} and {1,1,2} | `TypeOK`, `DriverReportsContext`, `AllDriversReturn` | pass, 56.0k states |
| `keygen_sign` | `MCLi24KeyGenSign.cfg` | 3 parties, t=3, Q=7, u ∈ {1,2}, coefficient 2, seed halves {0,1}, k = 2, φ = 3 | `GeneratedKeyMasksCancel`, `GeneratedKeySigns`, `SessionEnds` | pass, 251k states |

What the properties say:
- `ShareConsistency`: for every Threshold-subset of the honest parties that
  finished, the Lagrange combination of their shares equals every member's
  `X_`.
- `SeedAgreement`: both ends of a pair hold the same PRG seed.
- `MaskCancellation`: once every party has passed Round0, the masked k, φ
  and w sum to the raw k sum, the raw φ sum and the key.
- `NoSpuriousFailure`: a session fails only when a degenerate value
  occurs. The degenerate cases are K = 0, Φ = 0, m + r·x = 0, or a zero δ
  or v seen by a party.
- `BilinearSums`: once every party has run Round1, Σu = Σw·Σφ and
  Σv = Σk·Σφ (mod Q). This holds only if the arc rule carries each pair's
  cross terms in exactly one direction. It runs at t = n = 3 only; the
  even branch and n > t are left to `NoSpuriousFailure` in `sign_t4` and
  `sign_n4_t3`.
- `Termination`: every session ends, finished or failed.
- `ImplementsECDSASign`: the session refines `ECDSASign`. Every party that
  finishes holds the textbook low-s signature, with its recovery id, of the
  one session nonce, and every party decides.
- `ImplementsDistKeyGen`: honest key generation refines `DistKeyGen`.
- `NoSpuriousShareRejection`: with honest dealers, a party fails only on a
  rejected index array or an infinite key, never in `VerifyShare`, however
  often a message is parsed again.
- `NoSubThresholdKeyRecovery`: no coalition of fewer than `Threshold`
  parties holds a masked `w_` of every signer whose sum is the key.
- `KeyLoadable`: every party that finished key generation holds a SignKey
  that `LocalParty::FromProtoObject` accepts (index ≠ 0, x_ ≠ 0).
- `GeneratedKeyMasksCancel`, `GeneratedKeySigns`: `MaskCancellation` and
  `NoSpuriousFailure` for a session on the key that key generation
  produced. These hold only if the generated seeds pair up and the
  generated `X_` is the key that the shares interpolate to.
- `DriverReportsContext`: an honest driver thread returns false only for a
  context whose protocol failed, and true only with a finished context
  whose SignKey it stored. Messages of several senders interleave in each
  queue; the pop loop's count must match what the round needs.
- `AllDriversReturn`: no honest thread blocks forever in `Pop`; every
  `res[i].get()` of the test returns.
- `SessionEnds`: unless some party's SignKey is refused, every party
  settles: its key generation fails, or its signing session finishes or
  fails. A refused key is the one case that leaves the other parties
  waiting, which is the design; nothing else does. In particular, a zero
  δ or v refused at parse does not, and neither does the hand-over from key
  generation to signing. Its mutant swallows the zero-value parse error.

The bounds are chosen so that the interesting cases happen.
- With Q=5 and u ∈ {1,2}, some sums of u are 0 mod 5, so the infinity
  failure occurs.
- With Q=7, zero δ, zero v and the low-s flip all occur, but not every
  session is degenerate.
- In the composition, Q=7 and u ∈ {1,2} make a zero share x_ occur, so
  both `StartSign` and `LoadFail` fire. φ is fixed at 3 there to keep
  the per-party interleavings within five minutes.
- t=3 and t=4 exercise the odd and even branches of the arc rule.
- With four parties and t=3, an honest majority is left when one party is
  faulty.

Among them, the passing runs fire every action and every disjunct of every
`Next` relation. Each property of a passing run is killed by a mutant. For
example: the mutant of `CheckIndexArr` that drops the distinctness check,
`VerifyShare` accepting everything, the seed that forgets the remote half,
the missing low-s flip of the recovery id, the odd-t arc one peer too long, the even-t arc with equal halves,
and a dropped zero rejection. `PROJECT.json` lists all of them.

**Fairness.** Every honest party's actions are weakly fair. The drivers
poll each context and pop its round as soon as it is complete. Nothing in the
code ever disables a step indefinitely once it is enabled. Deadlock checking
is off because a finished or failed session really stops. In the
composition, `KeyGenStep` is weakly fair, and so are each party's
`StartSign(p)`, `LoadFail(p)` and `SignStep(p)`: every party's application
and signing context keep running. In the driver, each thread's step is weakly
fair: `std::launch::async` runs every party on its own thread, which the
operating system keeps scheduling while it is not blocked. Each protocol is finite and acyclic, so weak
fairness of its whole next-state relation suffices for it to end; the
application loads its saved key once its key generation reports success.

## 4. Findings

1. **Fewer than t parties recover the key** (`sign/round0.cpp:56`).
   `Round0::MakeP2PMessage` sends the masked (k, w, φ) in the clear to the
   peers of its arc. The pairwise masks cancel in a sum over all signers,
   so parties that pool their own `w_` and those they received add up to
   the private key. With t=3, any two of the three signers hold all three
   `w_`: each has its own and its predecessor's. The spec (section 1)
   promises that no t−1 parties can recover the key (`sign_collusion`).
   The model shows the shares add up. It does not say how the transport
   protects p2p messages, which the code leaves to the caller.
2. **n_parties > threshold signing fails** (`sign/round0.cpp:191`).
   `sign::Context::CreateContext` accepts a key whose `n_parties_` equals the
   number of signers, even when that is more than `threshold_`. The arc of
   `MakeMessage` is computed mod `threshold_` over ranks 0..n−1, so some
   pairs exchange no real triple and every honest session fails its own
   verification. The tests only use n = t.
3. **r_ is not reduced mod n** (`sign/round1.cpp:71`). `r_ = GK.x()`. The
   spec says r = R.x mod n. When the x-coordinate is n or more (about
   2⁻¹²⁸ on secp256k1), the session signs with r ≥ n and fails its own
   verification where ECDSA would sign (`sign_xoffset`).
4. **A generated key may not load** (`party_local.cpp:61`). Key generation
   saves a share x_ = 0 mod n, and `FromProtoObject` refuses it, so that
   party can never sign (`keygen_load`). The spec promises a usable SignKey.
5. **No broadcast consistency in key generation** (`key_gen/round1.cpp:84`).
   A party that sends different commitment vectors (each with matching
   shares) to different peers makes the honest parties finish with different
   `X_`. The spec asks for an identical X everywhere and does not say the
   broadcast channel must be consistent.

## 5. Not modelled, and the plan

- **Not modelled:**
  - Key refresh and gg20: a header and a codec only, out of the spec's
    scope.
  - Serialisation, base64 and protobuf: pure I/O. What they do to control
    or state is modelled: the zero check of `Round1BCMessage` and the
    `vs_` append of `Round0BCMessage`.
  - The SHA-256 and BN internals. `PRG::rand` never calls `reset()`, so
    each output hashes the PRG object's whole history. It is still a
    deterministic function of the seed and the number of calls, which is
    all the masks need, and `Iter` is such a function.
  - The cmp and gg20 test drivers: their protocol code is not in the
    repository. The Li24 key generation driver is `Li24KeyGenDriver`; its
    file output and the loop over two curves are I/O. A thread that failed
    in round 0 alone would leave the others blocked in `Pop`; no modelled
    step does that, because `CheckIndexArr` sees the same array at every
    party, so all fail together (`AllDriversReturn`).
  - The `SignKey` parser (`SignKey::FromBase64`): not in the repository.
    `PrgInit` assumes it starts each PRG at the stored seed.
- **Caveat of the standalone signing runs:** the fixed `Poly` and `Index`
  of `MCLi24Sign` give one signer a zero share, a key that
  `LocalParty::FromProtoObject` would refuse. Signing never reads `x_`
  again in a way that checks it, so no signing property depends on it, and
  `keygen_sign` signs only with keys that load.
- **Left out for good reasons:**
  1. Out-of-round delivery and the engine's error stack: the engine
     (`MPCContext`) is not in the repository and the spec does not say what
     it does with a message for a round other than the current one, so any
     model of it would be invented.
  2. Several sessions over one `SignKey` (PRG reuse). Every session builds
     its context with `CreateContext`, which re-parses the `SignKey`, so
     both ends of a pair restart their PRG at the stored seed and draw the
     same masks every session (`PrgInit`): the masks stay in step.
     Repeating the masks is a question of confidentiality across sessions.
     TLC cannot state it over discrete logarithms beyond what
     `NoSubThresholdKeyRecovery` already shows within one session.
  3. A retried round on the same context (`sign/round0.cpp:89`,
     `key_gen/round0.cpp:24`): the vectors these `ComputeVerify` calls
     append to are never cleared. However, no code in the repository, and
     no step the spec allows, runs a round twice.
