----------------------------- MODULE MCHandlers -----------------------------
(* Cervers with two app handlers or one, and with an app error handler or  *)
(* none, each of them direct or not; and cervers that are started.  A      *)
(* thread of the fairness condition is a thread of each part: a part       *)
(* never changes, so that the fairness of their union is that of the one   *)
(* that runs.                                                              *)
EXTENDS Serving, TLC

CONSTANTS a1, a2, e

MCConfig ==
    {c \in ConfigType :
        /\ c.app \in IF c.multiple THEN {{a1, a2}} ELSE {{}, {a1}}
        /\ c.other \in {{}, {e}}
        /\ c.direct \subseteq c.app \cup c.other}

\* The second app handler is one that gets nothing to do.
MCPackets == (a1 :> 2) @@ (a2 :> 0) @@ (e :> 1)

\* One start with three kinds of threads, and two of a cerver with connections on hold.
MCConfigs == {[kinds |-> <<"adminUpdate", "update", "inactive">>, starts |-> 1],
              [kinds |-> <<"hold", "update">>, starts |-> 2]}

\* The part that does not run has one initial state.
MCInit ==
    /\ PartsInit
    /\ part # "life" => lifeConfig = CHOOSE c \in MCConfigs : c.starts = 1
    /\ part # "handlers" => config = CHOOSE c \in MCConfig : c.app = {}

MCSpec ==
    /\ MCInit /\ [][PartsNext]_allVars
    /\ \A h \in Handler : WF_allVars(OfHandlers(HandlerThread(h)))
    /\ WF_allVars(OfHandlers(Starting) \/ OfLife(L!AliveStart))
    /\ WF_allVars(OfHandlers(TearingDown) \/ OfLife(L!AliveEnd))
    /\ WF_allVars(OfLife(L!AliveHandler)) /\ WF_allVars(OfLife(L!AliveThreads))
=============================================================================
