--------------------------- MODULE Li24KeyGenDriver ---------------------------
(***************************************************************************)
(* The multi-threaded key generation driver key_gen() of                   *)
(* test/time/Li24/key_gen_mt_test.cpp around the key_gen::Context of       *)
(* Li24KeyGen.  Every party is a std::async thread that runs the two       *)
(* rounds of its context: in round 0 it pushes PushMessage(), checks       *)
(* IsCurRoundFinished and PopMessages, then pushes each output message to  *)
(* the round-0 queue of its destination; in round 1 it pops exactly        *)
(* n_parties - 1 messages from its own round-0 queue (a blocking Pop),     *)
(* pushes each into the context, checks IsCurRoundFinished, runs          *)
(* PopMessages and, once IsFinished, stores its SignKey.  Any failing call *)
(* returns false.  A Tamperer's thread runs the same loop around a context *)
(* that sends shares off its commitments (Li24KeyGen's FaultyRound0).      *)
(***************************************************************************)
EXTENDS Li24Math, Sequences, SequencesExt

CONSTANTS Parties, Threshold, IndexArrs, UVals, CoeVals, SeedVals, Tamperers

VARIABLES
    Index, phase, u, coe, seedL, x, X, seedR, chan, rcvd,  \* the contexts
    pc,      \* where each thread is in key_gen()
    outbox,  \* out_des_arr entries thread p has still to push
    queue,   \* queue[q]: map_id_message_queue.at(q).get(0), a FIFO
    popped,  \* k of the pop loop
    saved    \* the parties in base64_arr_sepc

ctxVars == <<Index, phase, u, coe, seedL, x, X, seedR, chan, rcvd>>
vars == <<ctxVars, pc, outbox, queue, popped, saved>>

KG == INSTANCE Li24KeyGen WITH Equivocators <- {}, MaxRedeliveries <- 0

Honest == Parties \ Tamperers

\* A pop loop that stops one message short.
PopsNeededShort == Cardinality(Parties) - 2

\* A pop loop that also waits for a message from the party itself.
PopsNeededAll == Cardinality(Parties)

\* The pop loop of lines 69-78 runs n_parties - 1 times.
PopsNeeded == Cardinality(Parties) - 1

-----------------------------------------------------------------------------

\* Round 0 (lines 62-67, 81-93): PushMessage(), IsCurRoundFinished and
\* PopMessages run Round0::ComputeVerify and MakeMessage.
DriverRound0(p) ==
    /\ pc[p] = "round0"
    /\ KG!Round0(p) \/ KG!FaultyRound0(p)
    /\ pc' = [pc EXCEPT ![p] = "push"]
    /\ outbox' = [outbox EXCEPT ![p] = SetToSeq(Parties \ {p})]
    /\ UNCHANGED <<queue, popped, saved>>

\* PopMessages fails in CheckIndexArr: print the error stack, return false.
DriverRound0Fail(p) ==
    /\ pc[p] = "round0"
    /\ KG!Round0Fail(p)
    /\ pc' = [pc EXCEPT ![p] = "false"]
    /\ UNCHANGED <<outbox, queue, popped, saved>>

\* A push loop that never advances j past the first destination.
PushNoTail(p) ==
    /\ pc[p] = "push"
    /\ outbox[p] # <<>>
    /\ LET q == Head(outbox[p])
       IN  queue' = [queue EXCEPT ![q] = Append(@, CHOOSE m \in chan : m.from = p /\ m.to = q)]
    /\ UNCHANGED <<ctxVars, outbox, pc, popped, saved>>

\* Lines 95-99: push the message for out_des_arr[j] onto that party's
\* round-0 queue.  After the last one the thread enters round 1, where a
\* Tamperer's context has nothing to receive.
Push(p) ==
    /\ pc[p] = "push"
    /\ outbox[p] # <<>>
    /\ LET q == Head(outbox[p])
       IN  queue' = [queue EXCEPT ![q] = Append(@, CHOOSE m \in chan : m.from = p /\ m.to = q)]
    /\ outbox' = [outbox EXCEPT ![p] = Tail(@)]
    /\ pc' = [pc EXCEPT ![p] = IF Tail(outbox[p]) # <<>> THEN "push"
                                ELSE IF p \in Tamperers THEN "byz" ELSE "pop"]
    /\ UNCHANGED <<ctxVars, popped, saved>>

\* Lines 69-78: in_queue.Pop(m) blocks until the queue holds a message,
\* then PushMessage hands it to Round1::ParseMsg.
Pop(p) ==
    /\ pc[p] = "pop"
    /\ popped[p] < PopsNeeded
    /\ queue[p] # <<>>
    /\ KG!Receive(p, Head(queue[p]))
    /\ queue' = [queue EXCEPT ![p] = Tail(@)]
    /\ popped' = [popped EXCEPT ![p] = @ + 1]
    /\ pc' = [pc EXCEPT ![p] = IF popped[p] + 1 < PopsNeeded THEN "pop" ELSE "check"]
    /\ UNCHANGED <<outbox, saved>>

\* Lines 81-85: IsCurRoundFinished, or return false.
CheckRound(p) ==
    /\ pc[p] = "check"
    /\ pc' = [pc EXCEPT ![p] = IF KG!Round1Ready(p) THEN "compute" ELSE "false"]
    /\ UNCHANGED <<ctxVars, outbox, queue, popped, saved>>

\* Lines 89-93 and 102-114: PopMessages runs Round1::ComputeVerify (no
\* output), IsFinished holds, and the SignKey goes into base64_arr_sepc.
DriverRound1(p) ==
    /\ pc[p] = "compute"
    /\ KG!Round1(p)
    /\ pc' = [pc EXCEPT ![p] = "true"]
    /\ saved' = saved \cup {p}
    /\ UNCHANGED <<outbox, queue, popped>>

\* PopMessages fails in ReceiveVerify or on a public key at infinity.
DriverRound1Fail(p) ==
    /\ pc[p] = "compute"
    /\ KG!Round1VerifyFail(p) \/ KG!Round1InfinityFail(p)
    /\ pc' = [pc EXCEPT ![p] = "false"]
    /\ UNCHANGED <<outbox, queue, popped, saved>>

\* Lines 138-152: the queues are created, then every thread is launched
\* with a context CreateContext accepts (t > 2).
Init ==
    /\ KG!Init
    /\ pc = [p \in Parties |-> "round0"]
    /\ outbox = [p \in Parties |-> <<>>]
    /\ queue = [p \in Parties |-> <<>>]
    /\ popped = [p \in Parties |-> 0]
    /\ saved = {}

ThreadStep(p) ==
    \/ DriverRound0(p) \/ DriverRound0Fail(p) \/ Push(p) \/ Pop(p)
    \/ CheckRound(p) \/ DriverRound1(p) \/ DriverRound1Fail(p)

Next == \E p \in Parties : ThreadStep(p)

\* std::launch::async gives every party a thread of its own, which the
\* operating system keeps scheduling while it is runnable.
Spec == Init /\ [][Next]_vars /\ \A p \in Parties : WF_vars(ThreadStep(p))

-----------------------------------------------------------------------------
(* Properties *)

TypeOK ==
    /\ pc \in [Parties -> {"round0", "push", "pop", "check", "compute",
                           "true", "false", "byz"}]
    /\ \A p \in Parties : Len(queue[p]) <= PopsNeeded /\ Len(outbox[p]) <= PopsNeeded
    /\ popped \in [Parties -> 0..PopsNeeded]
    /\ saved \subseteq Honest

\* What a thread returns matches its context: key_gen() returns false only
\* for a context whose protocol failed, never because the pop loop left
\* the round incomplete or a queue mixed up messages, and returns true
\* only with a finished context whose SignKey it stored.
DriverReportsContext ==
    \A p \in Honest :
        /\ pc[p] = "false" => phase[p] = "failed"
        /\ pc[p] = "true" => phase[p] = "done" /\ p \in saved

\* No honest thread blocks forever in in_queue.Pop: every one returns,
\* with a key or with an error, so every res[i].get() of the test returns.
AllDriversReturn == <>(\A p \in Honest : pc[p] \in {"true", "false"})

=============================================================================
