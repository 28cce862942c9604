------------------------------- MODULE Serving -------------------------------
(***************************************************************************)
(* A cerver that serves, seen in two ways, each on its own: its packet     *)
(* handlers, and its life with the detached threads.  A behaviour is one   *)
(* of one part, and the other stays as it was made.                        *)
(***************************************************************************)
EXTENDS Handlers, SequencesExt

CONSTANTS Configs, MayFail      \* see Lifecycle

\* cerver_start () starts each detached thread once.
ASSUME ServingAssumption ==
    \A c \in Configs : c.kinds \in Seq(STRING) /\ IsInjective(c.kinds) /\ c.starts \in Nat

VARIABLES part,
          lifeConfig, running, sock, memory, handlersAlive, pcS, turn, failed, starts, pcT, thread,
          deletes, pollFailed, crashed

L == INSTANCE Lifecycle WITH
         config <- lifeConfig, isRunning <- running, mem <- memory, handlers <- handlersAlive,
         next <- turn, errors <- failed

lifeVars == <<lifeConfig, running, sock, memory, handlersAlive, pcS, turn, failed, starts, pcT,
              thread, deletes, pollFailed, crashed>>
allVars == <<part, vars, lifeVars>>

OfHandlers(A) == part = "handlers" /\ A /\ UNCHANGED <<part, lifeVars>>
OfLife(A) == part = "life" /\ A /\ UNCHANGED <<part, vars>>

PartsInit == part \in {"handlers", "life"} /\ Init /\ L!Init
PartsNext == OfHandlers(Next) \/ OfLife(L!Next)
PartsSpec == PartsInit /\ [][PartsNext]_allVars

\* The packets are handled, and the calls end: see Handlers.
HandlersEnd == part = "handlers" => CallsEnd
\* Starting and stopping: see Lifecycle.
LifecycleSound == L!LifecycleSound
LifecycleEnds == L!LifecycleEnds
=============================================================================
