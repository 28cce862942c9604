------------------------------ MODULE Handlers ------------------------------
(***************************************************************************)
(* The packet handlers of a cerver (handler.c) from cerver_start () to     *)
(* cerver_teardown () (cerver.c): one thread and one queue for each app    *)
(* handler, the app error handler and the custom handler, and the main     *)
(* thread, which starts them, gives them packets, and tears them down,     *)
(* often from a signal handler that interrupts it anywhere.                *)
(*                                                                         *)
(* A queue has one producer and one consumer, and what is between an       *)
(* insertion and its post is under the lock of the queue: a push or a pull *)
(* is one step.  So is a critical section of handlers_lock, except for the *)
(* last one of a thread: the cerver may be freed inside it.                *)
(* The packets of a handler are numbered in their order.  Clients, thpool  *)
(* and sockets have modules of their own.                                  *)
(***************************************************************************)
EXTENDS Integers, Sequences, FiniteSets

CONSTANTS Handler,      \* every handler that may be registered
          Config,       \* the configurations of a cerver
          Unlucky,      \* the handlers whose thread may not be created
          Nobody,       \* the holder of a free lock
          NPackets      \* bound: the number of packets for each handler in a run

ConfigType == [multiple : BOOLEAN,             \* cerver->multiple_handlers
               app      : SUBSET Handler,      \* handlers or app_packet_handler
               other    : SUBSET Handler,      \* the app error and the custom one
               direct   : SUBSET Handler]      \* those with direct_handle

ASSUME HandlersAssumption ==
    /\ IsFiniteSet(Handler) /\ Nobody \notin Handler
    /\ Config \subseteq {c \in ConfigType : c.app \cap c.other = {}}
    /\ NPackets \in [Handler -> Nat]

Packet == UNION {1 .. NPackets[h] : h \in Handler}
NoPacket == 0

VARIABLES config,       \* set before the start
          isRunning,    \* cerver->isRunning
          alive,        \* cerver->num_handlers_alive
          working,      \* cerver->num_handlers_working
          lock,         \* the holder of cerver->handlers_lock across steps
          queue, token, \* the job queue of each handler and its semaphore
          pc,           \* where each handler thread is
          held,         \* the packet it has pulled and not handled
          handled,      \* history: the packets that have been handled
          pcM,          \* the main thread
          errors        \* what cerver_handlers_start () returns

counters == <<alive, working, lock>>
queues == <<queue, token>>
work == <<held, handled>>
vars == <<config, isRunning, counters, queues, pc, work, pcM, errors>>

\* The handlers that get their packets in a queue: of several app handlers all,
\* although those with direct_handle have no thread.
Queued == (config.app \cup config.other) \ (config.direct \ {h \in config.app : config.multiple})

Init ==
    /\ config \in Config
    /\ isRunning = TRUE
    /\ alive = 0 /\ working = 0 /\ lock = Nobody
    /\ queue = [h \in Handler |-> <<>>]
    /\ token = [h \in Handler |-> FALSE]
    /\ pc = [h \in Handler |-> "unborn"]
    /\ held = [h \in Handler |-> NoPacket]
    /\ handled = [h \in Handler |-> <<>>]
    /\ pcM = "startApps" /\ errors = FALSE

\* The packets a handler has been given, the handled ones first.
Track(h) == handled[h] \o (IF held[h] = NoPacket THEN <<>> ELSE <<held[h]>>) \o queue[h]

Goto(h, from, to) == /\ pc[h] = from /\ pc' = [pc EXCEPT ![h] = to]
                     /\ UNCHANGED <<config, isRunning, pcM, errors>>
Main(from, to) == /\ pcM = from /\ pcM' = to
                  /\ UNCHANGED <<config, work>>

\* bsem_post_all () on the queues of a set of handlers.
PostAll(H) == token' = [h \in Handler |-> token[h] \/ h \in H]

-----------------------------------------------------------------------------
(* Start                                                                   *)

\* handler_start () for an app handler; a failure is an error.
StartApp(h) ==
    /\ Main("startApps", "startApps")
    /\ h \in config.app \ config.direct /\ pc[h] = "unborn"
    /\ pc' = [pc EXCEPT ![h] = "born"]
    /\ UNCHANGED <<isRunning, counters, queues, errors>>

StartAppFails(h) ==
    /\ Main("startApps", "startApps")
    /\ h \in (config.app \ config.direct) \cap Unlucky /\ pc[h] = "unborn"
    /\ pc' = [pc EXCEPT ![h] = "failed"]
    /\ errors' = TRUE
    /\ UNCHANGED <<isRunning, counters, queues>>

Started(H) == \A h \in H \ config.direct : pc[h] # "unborn"

AppsStarted ==
    /\ Started(config.app)
    /\ Main("startApps", IF config.multiple /\ ~ errors THEN "spin" ELSE "startOthers")
    /\ UNCHANGED <<isRunning, counters, queues, pc, errors>>

\* Fault: the handlers are not waited for.
SpinNot ==
    /\ Main("spin", "startOthers")
    /\ UNCHANGED <<isRunning, counters, queues, pc, errors>>

\* With several app handlers their threads are waited for; n_handlers counts
\* those with direct_handle too.
SpinEnds ==
    /\ alive = Cardinality(config.app)
    /\ Main("spin", "startOthers")
    /\ UNCHANGED <<isRunning, counters, queues, pc, errors>>

\* The count is a plain unsigned int: an optimised build, which all but the
\* development one are, may read it once and loop for ever.
SpinHangs ==
    /\ alive # Cardinality(config.app)
    /\ Main("spin", "hung")
    /\ UNCHANGED <<isRunning, counters, queues, pc, errors>>

\* The app error and the custom handler: a failure is only logged.
StartOther(h) ==
    /\ Main("startOthers", "startOthers")
    /\ h \in config.other \ config.direct /\ pc[h] = "unborn"
    /\ \/ pc' = [pc EXCEPT ![h] = "born"]
       \/ h \in Unlucky /\ pc' = [pc EXCEPT ![h] = "failed"]
    /\ UNCHANGED <<isRunning, counters, queues, errors>>

StartReturns ==
    /\ Started(config.other)
    /\ Main("startOthers", IF errors THEN "returned" ELSE "serve")
    /\ UNCHANGED <<isRunning, counters, queues, pc, errors>>

-----------------------------------------------------------------------------
(* The main thread in cerver_poll ()                                       *)

\* Fault: a packet that finds the queue empty is not announced.
PushPostLater(h) ==
    /\ Main("serve", "serve")
    /\ h \in Queued /\ Len(Track(h)) < NPackets[h]
    /\ queue' = [queue EXCEPT ![h] = Append(@, Len(Track(h)) + 1)]
    /\ PostAll({g \in {h} : queue[g] # <<>>})
    /\ UNCHANGED <<isRunning, counters, pc, errors>>

\* The packet handlers of the three types end in job_queue_push ().
Push(h) ==
    /\ Main("serve", "serve")
    /\ h \in Queued /\ Len(Track(h)) < NPackets[h]
    /\ queue' = [queue EXCEPT ![h] = Append(@, Len(Track(h)) + 1)]
    /\ PostAll({h})
    /\ UNCHANGED <<isRunning, counters, pc, errors>>

\* A direct handler is called by the main thread.
HandleDirectly(h) ==
    /\ pcM = "serve"
    /\ h \in (config.app \cup config.other) \ Queued
    /\ Len(Track(h)) < NPackets[h]
    /\ handled' = [handled EXCEPT ![h] = Append(@, Len(Track(h)) + 1)]
    /\ UNCHANGED <<config, isRunning, counters, queues, pc, held, pcM, errors>>

\* poll () returns -1 and the loop ends.
PollFails ==
    /\ Main("serve", "returned")
    /\ isRunning' = FALSE
    /\ UNCHANGED <<counters, queues, pc, errors>>

-----------------------------------------------------------------------------
(* Teardown                                                                *)

Interruptible == {"startApps", "spin", "hung", "startOthers", "serve", "returned"}

Teardown ==
    /\ pcM \in Interruptible
    /\ Main(pcM, "teardown")
    /\ UNCHANGED <<isRunning, counters, queues, pc, errors>>

\* cerver_shutdown ()
Shutdown ==
    /\ Main("teardown", "stopApps")
    /\ isRunning' = FALSE
    /\ UNCHANGED <<counters, queues, pc, errors>>

\* cerver_multiple_app_handlers_destroy (): while any handler is alive, of
\* whatever kind, the app handlers are posted to.
PostApps ==
    /\ config.multiple /\ alive > 0
    /\ Main("stopApps", "stopApps")
    /\ PostAll(config.app)
    /\ UNCHANGED <<isRunning, counters, queue, pc, errors>>

AppsGone ==
    /\ config.multiple /\ alive = 0
    /\ Main("stopApps", "stopOthers")
    /\ UNCHANGED <<isRunning, counters, queues, pc, errors>>

\* The single app handler is posted to and not waited for.
StopApp ==
    /\ ~ config.multiple
    /\ Main("stopApps", "stopOthers")
    /\ PostAll(config.app \ config.direct)
    /\ UNCHANGED <<isRunning, counters, queue, pc, errors>>

StopOthers ==
    /\ Main("stopOthers", "stopAll")
    /\ PostAll(config.other \ config.direct)
    /\ UNCHANGED <<isRunning, counters, queue, pc, errors>>

\* cerver_handlers_destroy (): the others are polled.
StopAll ==
    /\ alive > 0
    /\ Main("stopAll", "stopAll")
    /\ PostAll(config.other \cup (IF config.multiple THEN {} ELSE config.app))
    /\ UNCHANGED <<isRunning, counters, queue, pc, errors>>

AllGone ==
    /\ alive = 0
    /\ Main("stopAll", "delete")
    /\ UNCHANGED <<isRunning, counters, queues, pc, errors>>

\* cerver_delete () frees the handlers, their queues and the lock.
Delete ==
    /\ Main("delete", "deleted")
    /\ UNCHANGED <<isRunning, counters, queues, pc, errors>>

-----------------------------------------------------------------------------
(* handler_do ()                                                           *)

\* While the cerver has not been freed.
Exists == pcM # "deleted"

\* Fault: the count is written back as it was read.
MarkAliveLost(h) ==
    /\ Exists /\ lock = Nobody
    /\ Goto(h, "born", "loop")
    /\ UNCHANGED <<counters, queues, work>>

MarkAlive(h) ==
    /\ Exists /\ lock = Nobody
    /\ Goto(h, "born", "loop")
    /\ alive' = alive + 1
    /\ UNCHANGED <<working, lock, queues, work>>

TestLoop(h) ==
    /\ Exists
    /\ Goto(h, "loop", IF isRunning THEN "wait" ELSE "leave")
    /\ UNCHANGED <<counters, queues, work>>

Wait(h) ==
    /\ Exists /\ token[h]
    /\ Goto(h, "wait", "awake")
    /\ token' = [token EXCEPT ![h] = FALSE]
    /\ UNCHANGED <<counters, queue, work>>

\* The flag is tested once more, and the thread counts itself as working.
TestAwake(h) ==
    /\ Exists
    /\ Goto(h, "awake", IF isRunning THEN "count" ELSE "loop")
    /\ UNCHANGED <<counters, queues, work>>

MarkWorking(h) ==
    /\ Exists /\ lock = Nobody
    /\ Goto(h, "count", "pull")
    /\ working' = working + 1
    /\ UNCHANGED <<alive, lock, queues, work>>

\* Fault: the job stays in the queue.
PullNotRemoved(h) ==
    /\ Exists /\ queue[h] # <<>>
    /\ Goto(h, "pull", "work")
    /\ held' = [held EXCEPT ![h] = Head(queue[h])]
    /\ PostAll(IF Len(queue[h]) > 1 THEN {h} ELSE {})
    /\ UNCHANGED <<counters, queue, handled>>

\* job_queue_pull () posts when it leaves jobs behind.  The code also allows
\* for an empty queue, which InOrder says is never found.
Pull(h) ==
    /\ Exists /\ queue[h] # <<>>
    /\ Goto(h, "pull", "work")
    /\ held' = [held EXCEPT ![h] = Head(queue[h])]
    /\ queue' = [queue EXCEPT ![h] = Tail(@)]
    /\ PostAll(IF Len(queue[h]) > 1 THEN {h} ELSE {})
    /\ UNCHANGED <<counters, handled>>

Handle(h) ==
    /\ Exists
    /\ Goto(h, "work", "worked")
    /\ handled' = [handled EXCEPT ![h] = Append(@, held[h])]
    /\ held' = [held EXCEPT ![h] = NoPacket]
    /\ UNCHANGED <<counters, queues>>

MarkIdle(h) ==
    /\ Exists /\ lock = Nobody
    /\ Goto(h, "worked", "loop")
    /\ working' = working - 1
    /\ UNCHANGED <<alive, lock, queues, work>>

\* The count is read without the lock, so that it counts before the unlock.
MarkDead(h) ==
    /\ Exists /\ lock = Nobody
    /\ Goto(h, "leave", "unlock")
    /\ alive' = alive - 1
    /\ lock' = h
    /\ UNCHANGED <<working, queues, work>>

LastUnlock(h) ==
    /\ Exists
    /\ Goto(h, "unlock", "gone")
    /\ lock' = Nobody
    /\ UNCHANGED <<alive, working, queues, work>>

\* A thread that was not counted, or not any more, when the cerver was freed.
UseFreed(h) ==
    /\ ~ Exists
    /\ pc[h] \in {"born", "loop", "leave", "unlock"}
    /\ Goto(h, pc[h], "crashed")
    /\ UNCHANGED <<counters, queues, work>>

-----------------------------------------------------------------------------
HandlerThread(h) ==
    \/ MarkAlive(h) \/ TestLoop(h) \/ Wait(h) \/ TestAwake(h) \/ MarkWorking(h)
    \/ Pull(h) \/ Handle(h) \/ MarkIdle(h) \/ MarkDead(h)
    \/ LastUnlock(h) \/ UseFreed(h)

Starting ==
    \/ \E h \in Handler : StartApp(h) \/ StartAppFails(h) \/ StartOther(h)
    \/ AppsStarted \/ SpinEnds \/ StartReturns

TearingDown ==
    \/ Shutdown \/ PostApps \/ AppsGone \/ StopApp
    \/ StopOthers \/ StopAll \/ AllGone \/ Delete

Next ==
    \/ \E h \in Handler : HandlerThread(h) \/ Push(h) \/ HandleDirectly(h)
    \/ Starting \/ TearingDown
    \/ SpinHangs \/ PollFails \/ Teardown

(***************************************************************************)
(* Threads go on when they can, and so do the start and the teardown once  *)
(* they have begun.  No packet has to come and nobody has to tear down.    *)
(***************************************************************************)
Fairness ==
    /\ \A h \in Handler : WF_vars(HandlerThread(h))
    /\ WF_vars(Starting)
    /\ WF_vars(TearingDown)

SafeSpec == Init /\ [][Next]_vars
Spec == SafeSpec /\ Fairness

-----------------------------------------------------------------------------
(***************************************************************************)
(* Properties                                                              *)
(***************************************************************************)
PC == {"unborn", "failed", "born", "loop", "wait", "awake", "count", "pull", "work",
       "worked", "leave", "unlock", "gone", "crashed"}

\* The types of the state; the counters are those of at most every handler.
TypeOK ==
    /\ config \in Config
    /\ isRunning \in BOOLEAN /\ errors \in BOOLEAN
    /\ alive \in 0 .. Cardinality(Handler) /\ working \in 0 .. Cardinality(Handler)
    /\ lock \in Handler \cup {Nobody}
    /\ queue \in [Handler -> Seq(Packet)] /\ token \in [Handler -> BOOLEAN]
    /\ pc \in [Handler -> PC]
    /\ held \in [Handler -> Packet \cup {NoPacket}]
    /\ handled \in [Handler -> Seq(Packet)]
    /\ pcM \in Interruptible \cup {"teardown", "stopApps", "stopOthers", "stopAll",
                                  "delete", "deleted"}

\* A handler gets the packets of its type once each and in the order in
\* which the cerver received them, by its own thread or directly, and a thread
\* that is woken up to work always finds one.
InOrder ==
    \A h \in Handler :
        /\ \A i \in DOMAIN Track(h) : Track(h)[i] = i
        /\ pc[h] \in {"count", "pull"} => queue[h] # <<>>

\* Packets are handled only while the cerver serves: with several app
\* handlers it does not begin before all of them are ready, and when the
\* teardown goes on to free the cerver no handler has a packet or will take
\* one, although the teardown reads a count that threads change.
Counted == {"loop", "wait", "awake", "count", "pull", "work", "worked", "leave"}
OnlyWhileServing ==
    /\ config.multiple /\ pcM = "serve" => \A h \in config.app : pc[h] \in Counted
    /\ pcM \in {"delete", "deleted"} =>
           \A h \in Handler : pc[h] \notin Counted \ {"loop", "leave"}

\* A packet in the queue of a handler that has a thread is handled unless
\* the cerver is stopped: no post is lost between a pull and a wait.
Served ==
    \A h \in Handler, k \in Packet :
        (\E i \in DOMAIN queue[h] : queue[h][i] = k) /\ pc[h] # "failed" ~>
            (\E i \in DOMAIN handled[h] : handled[h][i] = k) \/ ~ isRunning

\* The start comes to an end, with success or without.  With several app
\* handlers it does not if one of them is direct: it has no thread, and the
\* start waits for n_handlers threads; and the loop that waits may be one
\* that does not read the count again.
StartEnds ==
    pcM = "startApps" /\ ~ (config.multiple /\ config.app \cap config.direct # {})
        ~> pcM \notin {"startApps", "spin", "startOthers"}

\* The teardown comes to an end.  With several app handlers it need not if
\* the app error or the custom handler has a thread: the first loop counts
\* that thread and does not wake it up.
EndsAll == config.multiple => \A h \in config.other : pc[h] \in {"unborn", "failed"}
TeardownEnds == pcM = "teardown" /\ EndsAll ~> pcM = "deleted"

\* Packets are handled, and the start and the teardown of the handlers end.
CallsEnd == Served /\ StartEnds /\ TeardownEnds
=============================================================================
