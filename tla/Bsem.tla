-------------------------------- MODULE Bsem --------------------------------
(***************************************************************************)
(* threads/bsem.c: a binary semaphore made of a mutex, a condition         *)
(* variable and the value v.  Every pthread call that can block or be      *)
(* overtaken is a step of its own: a waiter can be overtaken between the   *)
(* signal that wakes it up and the moment it owns the mutex again.         *)
(***************************************************************************)
EXTENDS FiniteSets, Naturals

CONSTANT Thread      \* the threads that post to and wait on the semaphore

VARIABLES v,         \* bsem_p->v
          owner,     \* the holder of bsem_p->mutex, {} when nobody holds it
          sleeping,  \* the threads blocked in pthread_cond_wait on bsem_p->cond
          pc         \* where each thread is in its call

vars == <<v, owner, sleeping, pc>>

PC == {"idle",                              \* in no call
       "lockWait", "test", "cond", "take",  \* in bsem_wait
       "lockPost", "post",                  \* in bsem_post
       "lockAll", "postAll"}                \* in bsem_post_all

Init ==
    /\ v = 0                                \* bsem_init (bsem_p, 0)
    /\ owner = {}
    /\ sleeping = {}
    /\ pc = [t \in Thread |-> "idle"]

Goto(t, from, to) == pc[t] = from /\ pc' = [pc EXCEPT ![t] = to]
Lock(t)   == owner = {} /\ owner' = {t}
Unlock(t) == owner = {t} /\ owner' = {}

(***************************************************************************)
(* The three calls start: their first act is to ask for the mutex.         *)
(***************************************************************************)
Call(t) ==
    /\ \E first \in {"lockWait", "lockPost", "lockAll"} : Goto(t, "idle", first)
    /\ UNCHANGED <<v, owner, sleeping>>

(***************************************************************************)
(* bsem_wait                                                               *)
(***************************************************************************)
WaitLock(t) ==
    /\ Goto(t, "lockWait", "test")
    /\ Lock(t)
    /\ UNCHANGED <<v, sleeping>>

\* pthread_cond_wait: release the mutex and fall asleep in one step.
WaitSleep(t) ==
    /\ v # 1
    /\ Goto(t, "test", "cond")
    /\ Unlock(t)
    /\ sleeping' = sleeping \cup {t}
    /\ UNCHANGED v

\* A signalled waiter has the mutex again and goes back to the loop test.
WaitWake(t) ==
    /\ t \notin sleeping
    /\ Goto(t, "cond", "test")
    /\ Lock(t)
    /\ UNCHANGED <<v, sleeping>>

\* Fault: the waiter leaves the token behind.
WaitTakeKeeps(t) ==
    /\ v = 1
    /\ Goto(t, "test", "take")
    /\ UNCHANGED <<v, owner, sleeping>>

WaitTake(t) ==
    /\ v = 1
    /\ Goto(t, "test", "take")
    /\ v' = 0
    /\ UNCHANGED <<owner, sleeping>>

WaitUnlock(t) ==
    /\ Goto(t, "take", "idle")
    /\ Unlock(t)
    /\ UNCHANGED <<v, sleeping>>

(***************************************************************************)
(* bsem_post: v = 1 and at least one sleeper is woken up.                  *)
(***************************************************************************)
PostLock(t) ==
    /\ Goto(t, "lockPost", "post")
    /\ Lock(t)
    /\ UNCHANGED <<v, sleeping>>

Signal ==
    IF sleeping = {} THEN UNCHANGED sleeping
    ELSE \E s \in sleeping : sleeping' = sleeping \ {s}

\* Fault: the signal is left out.
SetOnly(t) ==
    /\ Goto(t, "post", "idle")
    /\ Unlock(t)
    /\ v' = 1
    /\ UNCHANGED sleeping

SetAndSignal(t) ==
    /\ Goto(t, "post", "idle")
    /\ Unlock(t)
    /\ v' = 1
    /\ Signal

(***************************************************************************)
(* bsem_post_all: v = 1 and every sleeper is woken up.                     *)
(***************************************************************************)
PostAllLock(t) ==
    /\ Goto(t, "lockAll", "postAll")
    /\ Lock(t)
    /\ UNCHANGED <<v, sleeping>>

SetAndBroadcast(t) ==
    /\ Goto(t, "postAll", "idle")
    /\ Unlock(t)
    /\ v' = 1
    /\ sleeping' = {}

\* bsem_reset makes a fresh mutex and condition variable: only legal when
\* nobody is inside a call (job_queue_clear).
Reset ==
    /\ \A t \in Thread : pc[t] = "idle"
    /\ v' = 0
    /\ UNCHANGED <<owner, sleeping, pc>>

WaitStep(t) ==
    WaitLock(t) \/ WaitSleep(t) \/ WaitWake(t) \/ WaitTake(t) \/ WaitUnlock(t)
PostStep(t) ==
    PostLock(t) \/ SetAndSignal(t) \/ PostAllLock(t) \/ SetAndBroadcast(t)

Next ==
    \/ \E t \in Thread : Call(t) \/ WaitStep(t) \/ PostStep(t)
    \/ Reset

(***************************************************************************)
(* The scheduler runs every thread that can run.  The mutex is not fair:   *)
(* a thread that asks for it repeatedly is served eventually (SF), which   *)
(* is what any real lock gives; nothing makes a thread call.               *)
(***************************************************************************)
Fairness == \A t \in Thread : SF_vars(WaitStep(t)) /\ SF_vars(PostStep(t))

SafeSpec == Init /\ [][Next]_vars
Spec == SafeSpec /\ Fairness

-----------------------------------------------------------------------------
\* The value is binary, and the mutex is held by exactly the thread that is
\* between a lock and an unlock of bsem.c: sleeping releases it.
TypeOK ==
    /\ v \in {0, 1}
    /\ owner \subseteq Thread /\ \A t, u \in owner : t = u
    /\ sleeping \subseteq {t \in Thread : pc[t] = "cond"}
    /\ pc \in [Thread -> PC]
    /\ \A t \in Thread : t \in owner <=> pc[t] \in {"test", "take", "post", "postAll"}

\* A waiter that will look at v without any further signal.
Awake(t) == pc[t] \in {"lockWait", "test"} \/ (pc[t] = "cond" /\ t \notin sleeping)

\* bsem_post must not be lost: while v is 1 and some waiter sleeps, another
\* waiter is already on its way to the loop test of bsem_wait and will take
\* the token (bsem_post only ever wakes one sleeper).
NoLostPost ==
    v = 1 /\ sleeping # {} => \E t \in Thread : Awake(t)

\* bsem.c implements the binary semaphore: the token is v, and a waiter has
\* consumed it as soon as it has put v back to 0.
BS == INSTANCE BinarySemaphore
        WITH token   <- v = 1,
             waiting <- {t \in Thread : pc[t] \in {"lockWait", "test", "cond"}}

ImplementsSafe == BS!AbsSafe
Implements == BS!AbsSpec
=============================================================================
