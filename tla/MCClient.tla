------------------------------ MODULE MCClient -------------------------------
(* A client with two connections, one with a send queue, of which one is   *)
(* ever connected; and a table of actions that one or two threads use.     *)
EXTENDS Connecting

CONSTANTS c1, c2, w1, t1, t2,
          Parts          \* the parts that a behaviour may be of

MCEntry == 1 .. 2

\* A part that does not run has one of its initial states.
MCInit ==
    /\ PartsInit /\ part \in Parts
    /\ IF part = "events" THEN t1 \in callers ELSE table = "cerver_event" /\ callers = {}

\* Bound: the connections that the application tries in one behaviour.
OneConnected == Cardinality({c \in Conn : state[c] # "none"}) <= 1

MCSpec ==
    /\ MCInit /\ [][PartsNext]_allVars
    /\ WF_vars(OfClient(AppStep))
    /\ \A c \in Conn : WF_vars(OfClient(UpdateStep(c))) /\ WF_vars(OfClient(SendStep(c)))
    /\ \A w \in Worker : WF_vars(OfClient(HandlerStep(w)))
=============================================================================
