----------------------------- MODULE Connecting -----------------------------
(***************************************************************************)
(* The side that connects: a client with its connections, and the tables   *)
(* of actions it registers, each on its own.  A behaviour is one of one    *)
(* part, and the other stays as it was made.                               *)
(***************************************************************************)
EXTENDS ClientSide

CONSTANTS Trigger, Entry, Nil      \* see Events

ASSUME ConnectingAssumption ==
    /\ App \notin Conn /\ Conn # {} /\ Queued \subseteq Conn
    /\ IsFiniteSet(Trigger)
    \* The null pointer is no entry.
    /\ Nil \notin Entry \cup [thread : BOOLEAN, drop : BOOLEAN]

VARIABLES part,
          table, callers, slot, entry, deleted, twice, epc, event, change, new, works, shared,
          overlap, own

E == INSTANCE Events WITH freed <- deleted, pc <- epc

clientVars == <<running, listed, state, active, updating, sock, freed, pc, target, op, spc, jobs, token,
                sent, hpc, hjobs, htoken, peer, inbox, early>>
eventVars == <<table, callers, slot, entry, deleted, twice, epc, event, change, new, works, shared,
               overlap, own>>
allVars == <<part, clientVars, eventVars>>

OfClient(A) == part = "client" /\ A /\ UNCHANGED <<part, eventVars>>
OfEvents(A) == part = "events" /\ A /\ UNCHANGED <<part, clientVars>>

PartsInit == part \in {"client", "events"} /\ Init /\ E!Init
PartsNext == OfClient(Next) \/ OfEvents(E!Next)
PartsSpec == PartsInit /\ [][PartsNext]_allVars

\* Events and errors: see Events.
ArgumentsDeletedOnce == E!ArgumentsDeletedOnce
=============================================================================
