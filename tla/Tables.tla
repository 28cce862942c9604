------------------------------- MODULE Tables --------------------------------
(***************************************************************************)
(* The tables that say who is connected, each on its own: those of the     *)
(* connections on hold, of the clients with workers that accept, of the    *)
(* clients with sessions, of the admins and of the lobbies.  A behaviour   *)
(* is one of one part, and the others stay as they were made.              *)
(***************************************************************************)
EXTENDS OnHold

CONSTANTS P, Workers, NPlaces, Garbage, Asks,     \* see Registry
          NAdmin, NAdminPlaces, Id,               \* see Admins
          LobbyClient, Lobby, MaxPlayers, FdsBits, NMembers,   \* see Lobbies
          NClient, Types, Pool                    \* see Sessions

ASSUME TablesAssumption ==
    /\ P \notin Workers /\ NPlaces \in Nat \ {0}
    /\ NAdmin \in Nat /\ NAdminPlaces \in Nat /\ NClient \in Nat /\ 0 \notin Id
    /\ Garbage \subseteq Int /\ Asks \subseteq {"close", "disconnect"}

VARIABLES part,
          opened, other, memory, fdOf, id, nextId, slots, sockMap, clients, jobs, pc, conn, at, stray,
          adOpen, adPeer, adMem, adFd, owner, admem, ids, admins, adSlots, ready,
          current_connections, pcHold, connHold, adminH, seen, pcA, connA, adminA, adIdx, last, asked,
          pcU, to, sent, there, confused, stranded, adCrashed,
          clientMem, polled, lobbyMem, lobbyId, players, n_current_players, leader, players_fds,
          current_players_fds, max_players_fds, free_fds, threads, current_lobbys,
          current_active_lobbys, over, crashed,
          handler_type, seMem, sock, holder, sockets_pool, seClientMem, session_id, connections,
          seClients, seMap, sePolled, crossed, held, pooled, sePcH, seConnH, clientH, sePc,
          crClient, crConn, crSock, victim, onlyOne, after

R == INSTANCE Registry WITH
         NSlots <- NPlaces,
         open <- opened, peer <- other, mem <- memory, sockFd <- fdOf, idx <- at, rogue <- stray
A == INSTANCE Admins WITH
         NSlots <- NAdminPlaces,
         open <- adOpen, peer <- adPeer, mem <- adMem, sockFd <- adFd, slots <- adSlots,
         pcH <- pcHold, connH <- connHold, idx <- adIdx, at <- to, crashed <- adCrashed
G == INSTANCE Lobbies WITH Client <- LobbyClient, owner <- leader
S == INSTANCE Sessions WITH
         mem <- seMem, clientMem <- seClientMem, clients <- seClients, sockMap <- seMap,
         polled <- sePolled, pcH <- sePcH, connH <- seConnH, pc <- sePc

registryVars == <<opened, other, memory, fdOf, id, nextId, slots, sockMap, clients, jobs, pc, conn,
                  at, stray>>
adminVars == <<adOpen, adPeer, adMem, adFd, owner, admem, ids, admins, adSlots, ready,
               current_connections, pcHold, connHold, adminH, seen, pcA, connA, adminA, adIdx, last,
               asked, pcU, to, sent, there, confused, stranded, adCrashed>>
lobbyVars == <<clientMem, polled, lobbyMem, lobbyId, players, n_current_players, leader, players_fds,
               current_players_fds, max_players_fds, free_fds, threads, current_lobbys,
               current_active_lobbys, over, crashed>>
sessionVars == <<handler_type, seMem, sock, holder, sockets_pool, seClientMem, session_id,
                 connections, seClients, seMap, sePolled, crossed, held, pooled, sePcH, seConnH,
                 clientH, sePc, crClient, crConn, crSock, victim, onlyOne, after>>

allVars == <<part, vars, registryVars, adminVars, lobbyVars, sessionVars>>

OfHold(Act) ==
    part = "hold" /\ Act /\ UNCHANGED <<part, registryVars, adminVars, lobbyVars, sessionVars>>
OfRegistry(Act) ==
    part = "workers" /\ Act /\ UNCHANGED <<part, vars, adminVars, lobbyVars, sessionVars>>
OfAdmins(Act) ==
    part = "admins" /\ Act /\ UNCHANGED <<part, vars, registryVars, lobbyVars, sessionVars>>
OfLobbies(Act) ==
    part = "lobbies" /\ Act /\ UNCHANGED <<part, vars, registryVars, adminVars, sessionVars>>
OfSessions(Act) ==
    part = "sessions" /\ Act /\ UNCHANGED <<part, vars, registryVars, adminVars, lobbyVars>>

PartsInit ==
    /\ part \in {"hold", "workers", "admins", "lobbies", "sessions"}
    /\ Init /\ R!Init /\ A!Init /\ G!Init /\ S!Init
PartsNext ==
    \/ OfHold(Next) \/ OfRegistry(R!Next) \/ OfAdmins(A!Next) \/ OfLobbies(G!Next)
    \/ OfSessions(S!Next)
PartsSpec == PartsInit /\ [][PartsNext]_allVars

\* The admins: see Admins.
AdminsAgree == A!AdminsAgree
\* The lobbies and their players: see Lobbies.
LobbiesAgree == G!LobbiesAgree
\* The registry: see Registry.
MapIsOwned == R!MapIsOwned
\* The clients and their connections: see Sessions.
SessionsAgree == S!SessionsAgree
=============================================================================
