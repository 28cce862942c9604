--------------------------- MODULE BinarySemaphore ---------------------------
(***************************************************************************)
(* What a binary semaphore promises to the threads that share it: one      *)
(* token at most, every post makes sure that the token is there, and every *)
(* completed wait takes exactly one token.  The queues of cerver (jobs,    *)
(* handlers, workers, admins) sleep on a semaphore of this kind; Bsem      *)
(* shows that threads/bsem.c keeps the promise.                            *)
(***************************************************************************)
CONSTANTS Thread    \* the threads that share the semaphore

VARIABLES token,    \* TRUE iff a post has not been consumed yet
          waiting   \* the threads inside a wait

absVars == <<token, waiting>>

AbsInit == token = FALSE /\ waiting = {}

\* A wait starts: the caller is committed to consume a token.
BeginWait(t) ==
    /\ t \notin waiting
    /\ waiting' = waiting \cup {t}
    /\ UNCHANGED token

\* A wait completes: it consumes the token.
EndWait(t) ==
    /\ t \in waiting
    /\ token
    /\ token' = FALSE
    /\ waiting' = waiting \ {t}

\* A post: the token is there, whether or not it already was.
DoPost ==
    /\ token' = TRUE
    /\ UNCHANGED waiting

\* The semaphore is reset to 0 by its only user.
DoReset ==
    /\ waiting = {}
    /\ token' = FALSE
    /\ UNCHANGED waiting

AbsNext ==
    \/ \E t \in Thread : BeginWait(t) \/ EndWait(t)
    \/ DoPost
    \/ DoReset

AbsSafe == AbsInit /\ [][AbsNext]_absVars

\* While the token is there and somebody waits, some wait completes.
AbsSpec == AbsSafe /\ WF_absVars(\E t \in Thread : EndWait(t))
=============================================================================
