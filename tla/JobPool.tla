------------------------------- MODULE JobPool -------------------------------
(***************************************************************************)
(* What a pool of threads promises to its users (thpool.h): a job that was *)
(* accepted is executed once, jobs are started in the order in which they  *)
(* were accepted, a wait returns only when everything accepted before it   *)
(* has finished, and destroying the pool drops what has not been started.  *)
(***************************************************************************)
EXTENDS Sequences

CONSTANTS Job, Client

VARIABLES todo,      \* accepted jobs that have not been started, in order
          running,   \* the jobs being executed
          finished,  \* the jobs that have been executed
          owed,      \* per client: the jobs its wait must see finished
          inWait,    \* the clients inside a wait
          closed     \* the pool has been destroyed

poolVars == <<todo, running, finished, owed, inWait, closed>>

Todo == {todo[i] : i \in DOMAIN todo}

PoolInit ==
    /\ todo = <<>>
    /\ running = {}
    /\ finished = {}
    /\ owed = [c \in Client |-> {}]
    /\ inWait = {}
    /\ closed = FALSE

Submit(j) ==
    /\ ~closed
    /\ j \notin Todo \cup running \cup finished
    /\ todo' = Append(todo, j)
    /\ UNCHANGED <<running, finished, owed, inWait, closed>>

Start ==
    /\ todo # <<>>
    /\ todo' = Tail(todo)
    /\ running' = running \cup {Head(todo)}
    /\ UNCHANGED <<finished, owed, inWait, closed>>

Finish(j) ==
    /\ j \in running
    /\ running' = running \ {j}
    /\ finished' = finished \cup {j}
    /\ UNCHANGED <<todo, owed, inWait, closed>>

CallWait(c) ==
    /\ c \notin inWait
    /\ inWait' = inWait \cup {c}
    /\ owed' = [owed EXCEPT ![c] = Todo \cup running \cup finished]
    /\ UNCHANGED <<todo, running, finished, closed>>

ReturnWait(c) ==
    /\ c \in inWait
    /\ owed[c] \subseteq finished
    /\ inWait' = inWait \ {c}
    /\ owed' = [owed EXCEPT ![c] = {}]
    /\ UNCHANGED <<todo, running, finished, closed>>

Close ==
    /\ ~closed
    /\ running = {}
    /\ inWait = {}
    /\ closed' = TRUE
    /\ todo' = <<>>
    /\ UNCHANGED <<running, finished, owed, inWait>>

PoolNext ==
    \/ \E j \in Job : Submit(j) \/ Finish(j)
    \/ Start
    \/ \E c \in Client : CallWait(c) \/ ReturnWait(c)
    \/ Close

PoolSafe == PoolInit /\ [][PoolNext]_poolVars

\* The threads of the pool keep taking and finishing jobs.
PoolSpec ==
    /\ PoolSafe
    /\ WF_poolVars(Start)
    /\ \A j \in Job : WF_poolVars(Finish(j))
=============================================================================
