------------------------------ MODULE MCThreads ------------------------------
(***************************************************************************)
(* Small instances of what threads are given work with.                    *)
(*                                                                         *)
(* A thread of the fairness condition is a thread of each part: a part     *)
(* never changes, so that the fairness of their union is that of the one   *)
(* that runs.                                                              *)
(***************************************************************************)
EXTENDS Threads

CONSTANTS p1, p2, t3, k1, h1, h2

MCClients == {p1, p2}
MCWaiter == {p1, p2, t3}
MCConsumer == {k1}
MCHandler == {h1, h2}
MCPoolInit == {<<h1>>, <<h1, h2>>}
\* Two jobs of the first id and one of the second.
MCIdOf(j) == IF j = 3 THEN 2 ELSE 1

Consume == OfWorker(WorkerThread) \/ OfHandlers(H!ConsumerStep(k1))
Own == OfWorker(OwnerInCall) \/ OfHandlers(H!OwnerStep)
Client(p) ==
    \/ OfWorker(PushPost(p))
    \/ OfHandlers(H!CallerStep(p) \/ H!InsertFails(p))
    \/ OfRequests(R!Step(p))
Semaphore(t) == OfBsem(B!WaitStep(t) \/ B!PostStep(t))

MCSpec ==
    /\ PartsSpec
    /\ WF_allVars(Consume) /\ WF_allVars(Own)
    /\ \A p \in {p1, p2} : WF_allVars(Client(p))
    /\ \A t \in {p1, p2, t3} : SF_allVars(Semaphore(t))
=============================================================================
