------------------------------ MODULE Lifecycle ------------------------------
(***************************************************************************)
(* The life of a cerver (cerver.c, and admin.c for its admins): one thread *)
(* of the application calls cerver_start () and polls in it, another calls *)
(* cerver_shutdown () or cerver_teardown (), and the detached threads that *)
(* were configured run until they read that the cerver does not.           *)
(*                                                                         *)
(* Of the structures there are those that the teardown frees under the     *)
(* threads: the array of the connections on hold with its connections, and *)
(* that of the clients with theirs.  A pointer that is freed is set to     *)
(* NULL a step later; poll () of NULL fails, and a poll that fails sets    *)
(* isRunning to false.  crashed says that a thread used what was freed, or *)
(* recursed for ever; nothing more happens then.                           *)
(* The handlers and the thpool have modules of their own: here they are a  *)
(* number of threads that are waited for.                                  *)
(***************************************************************************)
EXTENDS Integers, Sequences, SequencesExt, FiniteSets

CONSTANTS Configs,      \* what may be configured: kinds, the detached threads in the order of
                        \* cerver_start (), and the bound starts on how often the cerver is started
          MayFail       \* the threads whose creation may fail

\* The failures that cerver_start () does not notice (cerver.c:1753, admin.c:1399).
Tolerated == {"hold", "adminUpdate", "adminInterval"}
\* The threads that delete the arguments of the user.
Updates == {"update", "interval", "adminUpdate", "adminInterval"}

Kind == UNION {ToSet(c.kinds) : c \in Configs}
Start == UNION {1 .. c.starts : c \in Configs}

VARIABLES config,           \* one of Configs
          isRunning, sock,
          mem,              \* of the cerver and its two parts: "none", "there", "freed", "null"
          handlers,         \* num_handlers_alive and those of the admins
          pcS, next, errors, starts, \* the thread that starts
          pcT,              \* the one that ends
          thread,           \* of each kind and start: "none", "failed", "check", "work", "end",
                            \* "gone"
          deletes,          \* of each kind: how often its arguments were deleted
          pollFailed,       \* history: a failed poll has stopped the cerver
          crashed

starting == <<pcS, next, errors, starts>>
loops == <<thread, deletes, pollFailed, crashed>>
vars == <<config, isRunning, sock, mem, handlers, starting, pcT, loops>>

Kinds == config.kinds

Init ==
    /\ config \in Configs
    /\ isRunning = FALSE /\ sock = "none"
    /\ mem = [p \in {"cerver", "clients", "hold"} |-> IF p = "cerver" THEN "there" ELSE "none"]
    /\ handlers = 0
    /\ pcS = "idle" /\ next = 0 /\ errors = FALSE /\ starts = 0
    /\ pcT = "idle"
    /\ thread = [k \in Kind |-> [n \in Start |-> "none"]]
    /\ deletes = [k \in Kind |-> 0]
    /\ pollFailed = FALSE /\ crashed = FALSE

Crash ==
    /\ crashed' = TRUE
    /\ UNCHANGED <<config, isRunning, sock, mem, handlers, starting, pcT, thread, deletes, pollFailed>>

There == mem["cerver"] = "there"
SGoto(from, to) == pcS = from /\ pcS' = to
TGoto(from, to) == pcT = from /\ pcT' = to

-----------------------------------------------------------------------------
(* cerver_start ()                                                         *)

\* isRunning is read and set without a lock; it is left true when the start fails.
Begin ==
    /\ pcS \in {"idle", "returned"} /\ starts < config.starts
    /\ pcT \in {"idle", "stopped"} /\ ~ isRunning
    /\ isRunning' = TRUE /\ pcS' = "init" /\ starts' = starts + 1 /\ errors' = FALSE
    /\ UNCHANGED <<config, sock, mem, handlers, next, pcT, loops>>

\* cerver_one_time_init (): the socket may not be had.
InitFails ==
    /\ SGoto("init", "returned")
    /\ UNCHANGED <<config, isRunning, sock, mem, handlers, next, errors, starts, pcT, loops>>

OneTimeInit ==
    /\ SGoto("init", "handlers")
    /\ sock' = "open" /\ mem' = [mem EXCEPT !["clients"] = "there"]
    /\ UNCHANGED <<config, isRunning, handlers, next, errors, starts, pcT, loops>>

HandlersStart ==
    /\ SGoto("handlers", "threads") /\ handlers' = handlers + 1 /\ next' = 1
    /\ UNCHANGED <<config, isRunning, sock, mem, errors, starts, pcT, loops>>

\* cerver_auth_start () and admin_cerver_start () make their structures first.
Prepared(k) == IF k = "hold" THEN [mem EXCEPT !["hold"] = "there"] ELSE mem

StartThread ==
    /\ pcS = "threads" /\ next <= Len(Kinds)
    /\ mem' = Prepared(Kinds[next])
    /\ thread' = [thread EXCEPT ![Kinds[next]][starts] = "check"]
    /\ next' = next + 1
    /\ UNCHANGED <<config, isRunning, sock, handlers, pcS, errors, starts, pcT, deletes, pollFailed, crashed>>

\* Fault: an error is overwritten by the next start.
ThreadFailsForgotten ==
    /\ pcS = "threads" /\ next <= Len(Kinds) /\ Kinds[next] \in MayFail
    /\ mem' = Prepared(Kinds[next])
    /\ thread' = [thread EXCEPT ![Kinds[next]][starts] = "failed"]
    /\ errors' = (next = Len(Kinds))
    /\ next' = next + 1
    /\ UNCHANGED <<config, isRunning, sock, handlers, pcS, starts, pcT, deletes, pollFailed, crashed>>

ThreadFails ==
    /\ pcS = "threads" /\ next <= Len(Kinds) /\ Kinds[next] \in MayFail
    /\ mem' = Prepared(Kinds[next])
    /\ thread' = [thread EXCEPT ![Kinds[next]][starts] = "failed"]
    /\ errors' = (errors \/ Kinds[next] \notin Tolerated)
    /\ next' = next + 1
    /\ UNCHANGED <<config, isRunning, sock, handlers, pcS, starts, pcT, deletes, pollFailed, crashed>>

\* Nothing of what was started is stopped.
StartFails ==
    /\ SGoto("threads", "returned") /\ next > Len(Kinds) /\ errors
    /\ UNCHANGED <<config, isRunning, sock, mem, handlers, next, errors, starts, pcT, loops>>

\* cerver_start_tcp (): listen () closes the socket when it fails.
Listen ==
    /\ pcS = "threads" /\ next > Len(Kinds) /\ ~ errors
    /\ \/ pcS' = "check" /\ UNCHANGED sock
       \/ pcS' = "returned" /\ sock' = "closed"
    /\ UNCHANGED <<config, isRunning, mem, handlers, next, errors, starts, pcT, loops>>

-----------------------------------------------------------------------------
(* The loops: cerver_poll () in the thread that starts, and the detached    *)

\* poll () of an array that may have been freed, and what is done with what is
\* behind it.
PollOf(part) ==
    \/ mem[part] = "there" /\ UNCHANGED <<config, isRunning, pollFailed>>
    \/ mem[part] = "null" /\ isRunning' = FALSE /\ pollFailed' = (pollFailed \/ isRunning)

PollCheck ==
    /\ There /\ SGoto("check", IF isRunning THEN "poll" ELSE "returned")
    /\ UNCHANGED <<config, isRunning, sock, mem, handlers, next, errors, starts, pcT, loops>>

MainPoll ==
    /\ There /\ SGoto("poll", "check") /\ PollOf("clients")
    /\ UNCHANGED <<config, sock, mem, handlers, next, errors, starts, pcT, thread, deletes, crashed>>

MainUsesFreed ==
    /\ pcS \in {"check", "poll"}
    /\ ~ There \/ (pcS = "poll" /\ mem["clients"] = "freed")
    /\ Crash

Step(k, n, from, to) == thread[k][n] = from /\ thread' = [thread EXCEPT ![k][n] = to]

Check(k, n) ==
    /\ There /\ Step(k, n, "check", IF isRunning THEN "work" ELSE "end")
    /\ UNCHANGED <<config, isRunning, sock, mem, handlers, starting, pcT, deletes, pollFailed, crashed>>

\* on_hold_poll (); the others call the user or look at the time.
Work(k, n) ==
    /\ There /\ Step(k, n, "work", "check")
    /\ IF k = "hold" THEN PollOf("hold") ELSE UNCHANGED <<config, isRunning, pollFailed>>
    /\ UNCHANGED <<config, sock, mem, handlers, starting, pcT, deletes, crashed>>

\* Fault: the arguments are not deleted.
FinishKeepsArgs(k, n) ==
    /\ There /\ Step(k, n, "end", "gone")
    /\ UNCHANGED <<config, isRunning, sock, mem, handlers, starting, pcT, deletes, pollFailed, crashed>>

\* The arguments of the user are deleted by the thread that has used them.
Finish(k, n) ==
    /\ There /\ Step(k, n, "end", "gone")
    /\ deletes' = IF k \in Updates THEN [deletes EXCEPT ![k] = deletes[k] + 1] ELSE deletes
    /\ UNCHANGED <<config, isRunning, sock, mem, handlers, starting, pcT, pollFailed, crashed>>

\* The cerver was deleted, or the connections on hold are; cerver_inactive_check ()
\* calls itself for the child of every node, also where there is none.
ThreadUsesFreed(k, n) ==
    /\ thread[k][n] \in {"check", "work", "end"}
    /\ \/ ~ There
       \/ thread[k][n] = "work" /\ (k = "inactive" \/ (k = "hold" /\ mem["hold"] = "freed"))
       \/ thread[k][n] = "work" /\ k \in Updates /\ deletes[k] > 0
    /\ Crash

\* A handler reads isRunning when it is woken; that it is woken has a module of
\* its own.
HandlerEnds ==
    /\ handlers > 0 /\ There /\ ~ isRunning
    /\ handlers' = handlers - 1
    /\ UNCHANGED <<config, isRunning, sock, mem, starting, pcT, loops>>

-----------------------------------------------------------------------------
(* The end                                                                 *)

Quiet == pcS \in {"idle", "check", "poll", "returned"}

CloseSock == sock' = IF sock = "open" THEN "closed" ELSE sock

\* cerver_shutdown (), which a failed poll forestalls.
Stop == IF isRunning THEN isRunning' = FALSE /\ CloseSock ELSE UNCHANGED <<config, isRunning, sock>>

Shutdown ==
    /\ TGoto("idle", "stopped") /\ Quiet /\ starts > 0
    /\ Stop
    /\ UNCHANGED <<config, mem, handlers, starting, loops>>

\* cerver_teardown (): the event, and the data of the type.
Teardown ==
    /\ pcT \in {"idle", "stopped"} /\ pcT' = "hold" /\ Quiet
    /\ UNCHANGED <<config, isRunning, sock, mem, handlers, starting, loops>>

\* A structure is freed, and then its pointer cleared.
Free(part, from, to) ==
    /\ pcT = from
    /\ \/ mem[part] = "there" /\ mem' = [mem EXCEPT ![part] = "freed"] /\ UNCHANGED pcT
       \/ mem[part] = "freed" /\ mem' = [mem EXCEPT ![part] = "null"] /\ pcT' = to
       \/ mem[part] \in {"none", "null"} /\ UNCHANGED mem /\ pcT' = to
    /\ UNCHANGED <<config, isRunning, sock, handlers, starting, loops>>

DestroyOnHold == Free("hold", "hold", "clients")
DestroyClients == Free("clients", "clients", "shutdown")

TeardownStops ==
    /\ TGoto("shutdown", "handlers") /\ Stop
    /\ UNCHANGED <<config, mem, handlers, starting, loops>>

\* cerver_handlers_destroy (), thpool_destroy () and admin_cerver_end () wait; the
\* other threads nobody waits for.
TeardownWaits ==
    /\ TGoto("handlers", "delete") /\ handlers = 0
    /\ UNCHANGED <<config, isRunning, sock, mem, handlers, starting, loops>>

\* cerver_delete ()
Delete ==
    /\ TGoto("delete", "done") /\ mem' = [mem EXCEPT !["cerver"] = "freed"]
    /\ UNCHANGED <<config, isRunning, sock, handlers, starting, loops>>

-----------------------------------------------------------------------------
StartCall ==
    \/ OneTimeInit \/ InitFails \/ HandlersStart \/ StartThread \/ ThreadFails \/ StartFails \/ Listen
    \/ PollCheck \/ MainPoll \/ MainUsesFreed
ThreadStep(k, n) == Check(k, n) \/ Work(k, n) \/ Finish(k, n) \/ ThreadUsesFreed(k, n)
EndCall == DestroyOnHold \/ DestroyClients \/ TeardownStops \/ TeardownWaits \/ Delete

AliveStart == ~ crashed /\ StartCall
AliveThreads == ~ crashed /\ \E k \in Kind, n \in Start : ThreadStep(k, n)
AliveHandler == ~ crashed /\ HandlerEnds
AliveEnd == ~ crashed /\ EndCall

Next ==
    \/ AliveStart \/ AliveThreads \/ AliveHandler \/ AliveEnd
    \/ ~ crashed /\ (Begin \/ Shutdown \/ Teardown)

\* The threads in the calls and those that were created run; of the detached
\* ones it is enough that one that can go on does.
Spec ==
    /\ Init /\ [][Next]_vars
    /\ WF_vars(AliveStart) /\ WF_vars(AliveThreads) /\ WF_vars(AliveHandler) /\ WF_vars(AliveEnd)

-----------------------------------------------------------------------------
\* The cerver polls only when everything that was configured was started, except
\* for what it does not look at; when the teardown has returned no handler runs
\* and the socket is closed, unless a failed poll has stopped the cerver first;
\* and after one start the arguments of an update are deleted once.
LifecycleSound ==
    /\ pcS \in {"check", "poll"} => \A k \in Kind \ Tolerated : thread[k][starts] # "failed"
    /\ pcT = "done" /\ ~ crashed => handlers = 0 /\ (sock # "open" \/ pollFailed \/ starts > 1)
    /\ starts = 1 => \A k \in Kind : deletes[k] <= 1

\* A teardown returns; and once the cerver stays stopped, every thread that was
\* started ends and has deleted its arguments, as does cerver_start ().  Or the
\* process crashes.
LifecycleEnds ==
    /\ pcT = "hold" ~> pcT = "done" \/ crashed
    /\ (<>[] ~ isRunning) =>
           <>[] \/ crashed
                \/ /\ pcS \in {"idle", "returned"} /\ handlers = 0
                   /\ \A k \in Kind, n \in Start : thread[k][n] \in {"none", "failed", "gone"}
                   /\ \A k \in Kind \cap Updates :
                          deletes[k] = Cardinality({n \in Start : thread[k][n] = "gone"})
=============================================================================
