------------------------------- MODULE Events --------------------------------
(***************************************************************************)
(* The four tables of actions an application registers: the events and the *)
(* errors of a cerver (events.c, errors.c) and those of a client           *)
(* (client.c).  A table holds one entry for a type; registering replaces   *)
(* it, a trigger runs its work with a new data structure, in a thread of   *)
(* its own or in the thread that triggers, and then drops it if it was     *)
(* registered so.  There is no lock: a change of the table is the test of  *)
(* the entry, its deletion, the reset and the entry that is put there,     *)
(* each a step of its own, and the work of a call may itself change it.    *)
(*                                                                         *)
(* One type of each table is modelled: types do not share anything.  A     *)
(* work does not trigger its own type, and one with a thread of its own    *)
(* leaves the table to the other threads.                                  *)
(***************************************************************************)
EXTENDS Naturals, FiniteSets

CONSTANTS Trigger,       \* the threads of the application and of the client
          Entry,         \* bound: the entries ever registered, 1 .. n
          Nil

Table == {"cerver_event", "cerver_error", "client_event", "client_error"}

VARIABLES table,         \* the table of this behaviour
          callers,       \* the threads that use it
          slot,          \* events[type]
          entry,         \* of each entry: create_thread and drop_after_trigger
          freed,         \* the entries whose structure and arguments were deleted
          twice,         \* those that were deleted again
          pc, event,     \* of each trigger: where it is, and the entry it read
          change, new,   \* of each thread: where it is in a change of the table,
                         \* and the entry it registers
          works,         \* the works that run: their entry and what they were given
          shared,        \* history: an entry was deleted while a trigger or a work
                         \* had it, or read after it was deleted
          overlap, own   \* history: two changes overlapped; a work made one

vars == <<table, callers, slot, entry, freed, twice, pc, event, change, new, works, shared, overlap, own>>

Used == {e \in Entry : entry[e] # Nil}

Init ==
    /\ table \in Table /\ callers \in SUBSET Trigger
    /\ slot = Nil /\ entry = [e \in Entry |-> Nil]
    /\ freed = {} /\ twice = {}
    /\ pc = [t \in Trigger |-> "idle"] /\ event = [t \in Trigger |-> Nil]
    /\ change = [t \in Trigger |-> "none"] /\ new = [t \in Trigger |-> Nil]
    /\ works = {} /\ shared = FALSE /\ overlap = FALSE /\ own = FALSE

\* The work of e as trigger t started it: its data hold the arguments of the
\* registration, but in client_error_trigger () the entry itself.
CerverEventData(e) == [entry |-> e, args |-> e]
CerverErrorData(e) == [entry |-> e, args |-> e]
ClientEventData(e) == [entry |-> e, args |-> e]
ClientErrorData(e) == [entry |-> e, args |-> Nil]
Data(e) == CASE table = "cerver_event" -> CerverEventData(e)
             [] table = "cerver_error" -> CerverErrorData(e)
             [] table = "client_event" -> ClientEventData(e)
             [] table = "client_error" -> ClientErrorData(e)

\* Who has the entry e.
HeldBy(e) ==
    \/ \E w \in works : w.entry = e
    \/ \E u \in Trigger : event[u] = e

-----------------------------------------------------------------------------
(* A change of the table                                                   *)

\* It may start while another thread is in one.
Begin(t) ==
    /\ change[t] = "none"
    /\ overlap' = (overlap \/ \E u \in Trigger \ {t} : change[u] # "none")

\* cerver_event_register () calls cerver_event_unregister () with the new entry
\* at hand.
Register(t) ==
    \E e \in Entry \ Used, thread, drop \in BOOLEAN :
        /\ pc[t] \in {"idle", "call"} /\ (e = 1 \/ e - 1 \in Used)
        /\ Begin(t)
        /\ entry' = [entry EXCEPT ![e] = [thread |-> thread, drop |-> drop]]
        /\ new' = [new EXCEPT ![t] = e]
        /\ change' = [change EXCEPT ![t] = "test"]
        /\ own' = (own \/ pc[t] = "call")
        /\ UNCHANGED <<table, callers, slot, freed, twice, pc, event, works, shared>>

Unregister(t) ==
    /\ pc[t] \in {"idle", "call"} /\ Begin(t)
    /\ change' = [change EXCEPT ![t] = "test"]
    /\ own' = (own \/ pc[t] = "call")
    /\ UNCHANGED <<table, callers, slot, entry, freed, twice, pc, event, new, works, shared>>

AfterUnregister(t) == IF new[t] = Nil THEN "none" ELSE "store"

\* Fault: the entry that is replaced is not cleared but forgotten.
TestForgotten(t) ==
    /\ change[t] = "test"
    /\ change' = [change EXCEPT ![t] = AfterUnregister(t)]
    /\ UNCHANGED <<table, callers, slot, entry, freed, twice, pc, event, new, works, shared, overlap, own>>

\* if (cerver->events[event_type])
Test(t) ==
    /\ change[t] = "test"
    /\ change' = [change EXCEPT ![t] = IF slot = Nil THEN AfterUnregister(t) ELSE "delete"]
    /\ UNCHANGED <<table, callers, slot, entry, freed, twice, pc, event, new, works, shared, overlap, own>>

\* cerver_event_delete () of what the table holds now: the arguments are
\* deleted with the entry.
Delete(t) ==
    /\ change[t] = "delete"
    /\ change' = [change EXCEPT ![t] = "clear"]
    /\ freed' = freed \cup ({slot} \ {Nil})
    /\ twice' = twice \cup ({slot} \cap freed)
    /\ shared' = (shared \/ (slot # Nil /\ HeldBy(slot)))
    /\ UNCHANGED <<table, callers, slot, entry, pc, event, new, works, overlap, own>>

Clear(t) ==
    /\ change[t] = "clear"
    /\ slot' = Nil
    /\ change' = [change EXCEPT ![t] = AfterUnregister(t)]
    /\ UNCHANGED <<table, callers, entry, freed, twice, pc, event, new, works, shared, overlap, own>>

Store(t) ==
    /\ change[t] = "store"
    /\ slot' = new[t]
    /\ new' = [new EXCEPT ![t] = Nil]
    /\ change' = [change EXCEPT ![t] = "none"]
    /\ UNCHANGED <<table, callers, entry, freed, twice, pc, event, works, shared, overlap, own>>

-----------------------------------------------------------------------------
(* A trigger                                                               *)

\* The trigger reads the entry, if there is one.
Read(t) ==
    /\ pc[t] = "idle" /\ change[t] = "none" /\ slot # Nil
    /\ pc' = [pc EXCEPT ![t] = "run"] /\ event' = [event EXCEPT ![t] = slot]
    /\ shared' = (shared \/ slot \in freed)
    /\ UNCHANGED <<table, callers, slot, entry, freed, twice, change, new, works, overlap, own>>

\* A thread of its own, or a call.
Run(t) ==
    /\ pc[t] = "run"
    /\ works' = works \cup {Data(event[t])}
    /\ pc' = [pc EXCEPT ![t] = IF entry[event[t]].thread THEN "drop" ELSE "call"]
    /\ UNCHANGED <<table, callers, slot, entry, freed, twice, event, change, new, shared, overlap, own>>

WorkReturns(t) ==
    /\ pc[t] = "call" /\ change[t] = "none"
    /\ works' = works \ {Data(event[t])}
    /\ pc' = [pc EXCEPT ![t] = "drop"]
    /\ UNCHANGED <<table, callers, slot, entry, freed, twice, event, change, new, shared, overlap, own>>

ThreadEnds ==
    \E w \in works :
        /\ entry[w.entry].thread
        /\ works' = works \ {w}
        /\ UNCHANGED <<table, callers, slot, entry, freed, twice, pc, event, change, new, shared, overlap, own>>

\* The drop goes by the type: it deletes what is in the table by then.
Drop(t) ==
    /\ pc[t] = "drop"
    /\ pc' = [pc EXCEPT ![t] = "idle"] /\ event' = [event EXCEPT ![t] = Nil]
    /\ \/ /\ entry[event[t]].drop /\ Begin(t)
          /\ change' = [change EXCEPT ![t] = "test"]
       \/ /\ ~ entry[event[t]].drop
          /\ UNCHANGED <<change, overlap>>
    /\ UNCHANGED <<table, callers, slot, entry, freed, twice, new, works, shared, own>>

Step(t) ==
    \/ Register(t) \/ Unregister(t) \/ Test(t) \/ Delete(t) \/ Clear(t) \/ Store(t)
    \/ Read(t) \/ Run(t) \/ WorkReturns(t) \/ Drop(t)

\* cerver_event_register (), cerver_event_unregister (), cerver_event_trigger ()
\* and those of the other tables.
CerverEvents(t) == table = "cerver_event" /\ Step(t)
CerverErrors(t) == table = "cerver_error" /\ Step(t)
ClientEvents(t) == table = "client_event" /\ Step(t)
ClientErrors(t) == table = "client_error" /\ Step(t)

\* What follows the use of an entry that was deleted, or its second deletion,
\* is not modelled.
Next ==
    /\ ~ shared /\ twice = {}
    /\ \/ \E t \in callers : CerverEvents(t) \/ CerverErrors(t) \/ ClientEvents(t) \/ ClientErrors(t)
       \/ ThreadEnds

Spec == Init /\ [][Next]_vars

-----------------------------------------------------------------------------
\* As long as no two changes overlap, the arguments of an entry are deleted
\* once, when it leaves the table, whatever triggers run meanwhile.  And while
\* there is one thread, no work changes the table and all run in that thread,
\* no work and no trigger has arguments that are deleted.  With a second
\* thread, with a work that registers or unregisters its own type, or with an
\* entry that is both dropped and run in a thread, they may be.
ArgumentsDeletedOnce ==
    /\ ~ overlap =>
         /\ twice = {}
         /\ Used = freed \cup (({slot} \cup {new[t] : t \in Trigger}) \ {Nil})
         /\ slot \in freed => \E t \in Trigger : change[t] = "clear"
    /\ (Cardinality(callers) = 1 /\ (\A e \in Used : ~ entry[e].thread) /\ ~ own) => ~ shared
=============================================================================
