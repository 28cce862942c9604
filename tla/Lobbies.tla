------------------------------- MODULE Lobbies -------------------------------
(***************************************************************************)
(* The lobbies of a game cerver and their players (game/game.c,            *)
(* game/lobby.c, game/player.c).                                           *)
(*                                                                         *)
(* The poll thread of the cerver, without a thpool, handles the packets of *)
(* the clients that it polls; the methods of the library that the          *)
(* application calls, it calls from the handlers of that thread.  So each  *)
(* handler is one step, and only the threads of lobbies that were started  *)
(* run beside it.  A client has one connection and is named by it.         *)
(*                                                                         *)
(* The packets that the handlers see never name a lobby (handler.c:1262),  *)
(* so nothing takes a client that is gone out of its lobbies.  crashed     *)
(* says that memory was used that was freed, or the null pointer: nothing  *)
(* more happens then.  The players have no ids (player_new ()) and nothing *)
(* is logged, memory is never refused, and the descriptors in a poll array *)
(* are a set: nothing is received of them.  The array grows by realloc (), *)
(* which leaves its new places as it finds them: those that hold -1 are    *)
(* free, and of the others it is assumed that none holds the descriptor of *)
(* a client.                                                               *)
(***************************************************************************)
EXTENDS Integers, Sequences, SequencesExt, FiniteSets

CONSTANTS Client, Lobby,  \* Lobby is a set of numbers: the order in which they are made
          Id,             \* what the generator makes of the time: the same in one second
          MaxPlayers,     \* the max_players of the game types
          FdsBits,        \* the width of max_players_fds: 16
          NMembers        \* bound: the players of a lobby, and its count of them

VARIABLES clientMem, polled,   \* the memory of each client; the clients in the cerver's poll array
          lobbyMem, lobbyId,   \* of each lobby
          players, n_current_players, owner,
          players_fds, current_players_fds, max_players_fds,
          free_fds,        \* the places of players_fds that hold -1
          threads,         \* the threads in lobby_poll ()
          current_lobbys, current_active_lobbys,
          over, crashed

clients == <<clientMem, polled>>
members == <<players, n_current_players, owner>>
arrays == <<players_fds, current_players_fds, max_players_fds, free_fds>>
game == <<current_lobbys, current_active_lobbys>>
vars == <<clients, lobbyMem, lobbyId, members, arrays, threads, game, over, crashed>>

Init ==
    /\ clientMem = [c \in Client |-> "live"] /\ polled = Client
    /\ lobbyMem = [l \in Lobby |-> "unused"] /\ lobbyId = [l \in Lobby |-> 0]
    /\ players = [l \in Lobby |-> <<>>] /\ n_current_players = [l \in Lobby |-> 0]
    /\ owner = [l \in Lobby |-> {}]
    /\ players_fds = [l \in Lobby |-> {}] /\ current_players_fds = [l \in Lobby |-> 0]
    /\ max_players_fds = [l \in Lobby |-> 0] /\ free_fds = [l \in Lobby |-> 0]
    /\ threads = [l \in Lobby |-> 0]
    /\ current_lobbys = <<>> /\ current_active_lobbys = 0
    /\ over = FALSE /\ crashed = FALSE

Crash ==
    /\ crashed' = TRUE
    /\ UNCHANGED <<clients, lobbyMem, lobbyId, members, arrays, threads, game, over>>

\* The place of the first lobby of the list with this id, 0 if there is none.
PlaceOf(i) == SelectInSeq(current_lobbys, LAMBDA l : lobbyId[l] = i)

\* The search for a player compares the numbers in the clients, from the first
\* player on, so that it may read a client that is freed.
FirstOf(l, c) == SelectInSeq(players[l], LAMBDA d : d = c)
SearchReadsFreed(l, c) ==
    \E i \in DOMAIN players[l] :
        clientMem[players[l][i]] = "freed" /\ (FirstOf(l, c) = 0 \/ i <= FirstOf(l, c))

-----------------------------------------------------------------------------
(* The packets                                                             *)

Sends(c) == c \in polled /\ clientMem[c] = "live" /\ ~ over

\* lobby_create () and game_cerver_register_lobby (): a lobby whose id is in the
\* list does not get there.
CreateLobby(c, l) ==
    /\ Sends(c) /\ lobbyMem[l] = "unused" /\ \A m \in Lobby : m < l => lobbyMem[m] # "unused"
    /\ lobbyMem' = [lobbyMem EXCEPT ![l] = "live"]
    /\ \E i \in Id :
           /\ lobbyId' = [lobbyId EXCEPT ![l] = i]
           /\ IF PlaceOf(i) = 0
              THEN /\ current_lobbys' = Append(current_lobbys, l)
                   /\ current_active_lobbys' = current_active_lobbys + 1
              ELSE UNCHANGED game
    /\ players' = [players EXCEPT ![l] = <<c>>]
    /\ n_current_players' = [n_current_players EXCEPT ![l] = 1]
    /\ owner' = [owner EXCEPT ![l] = {c}]
    /\ \E m \in MaxPlayers :
           /\ max_players_fds' = [max_players_fds EXCEPT ![l] = m]
           /\ free_fds' = [free_fds EXCEPT ![l] = m]
    /\ UNCHANGED <<clients, players_fds, current_players_fds, threads, over, crashed>>

\* game_lobby_join_specific () with a lobby of the type that is asked for: no
\* limit is looked at, nor whether the client is there already.
JoinLobby(c, i) ==
    /\ Sends(c) /\ PlaceOf(i) # 0
    /\ LET l == current_lobbys[PlaceOf(i)] IN
       /\ Len(players[l]) < NMembers /\ n_current_players[l] < NMembers
       /\ IF SearchReadsFreed(l, c) THEN Crash
          ELSE /\ players' = [players EXCEPT ![l] = Append(players[l], c)]
               /\ n_current_players' = [n_current_players EXCEPT ![l] = n_current_players[l] + 1]
               /\ UNCHANGED <<clients, lobbyMem, lobbyId, owner, arrays, threads, game, over,
                              crashed>>

\* The sizes that the array may be given: each is twice the one before.
Sizes(l) == {max_players_fds[l] * 2 ^ k : k \in 0 .. FdsBits} \cap 1 .. 2 ^ FdsBits - 1

\* The clients of the set get a place in the array, and f places are left.
Polls(l, all, f) ==
    /\ players_fds' = [players_fds EXCEPT ![l] = players_fds[l] \cup all]
    /\ current_players_fds' = [current_players_fds EXCEPT ![l] = @ + Cardinality(all)]
    /\ free_fds' = [free_fds EXCEPT ![l] = f]

\* lobby_realloc_poll_fds (), for so many clients without a place: with one of
\* the sizes there are enough places that hold -1, or one client finds none with
\* any size.  Then the size is 0 in the end, and the array is freed; it counts
\* the clients that it had.
Grows(l, all, missing) ==
    /\ max_players_fds[l] # 0 /\ threads[l] = 0
    /\ \/ \E m \in Sizes(l) : \E f \in 0 .. (m \div 2) - 1 :
            /\ missing + f <= m - max_players_fds[l]
            /\ max_players_fds' = [max_players_fds EXCEPT ![l] = m]
            /\ Polls(l, all, f)
       \/ \E found \in 0 .. missing - 1 :
            /\ \E m \in Sizes(l) : found <= m - max_players_fds[l]
            /\ max_players_fds' = [max_players_fds EXCEPT ![l] = 0]
            /\ free_fds' = [free_fds EXCEPT ![l] = 0]
            /\ players_fds' = [players_fds EXCEPT ![l] = {}]
            /\ current_players_fds' = [current_players_fds EXCEPT ![l] = @ + free_fds[l] + found]

\* Fault: the players stay in the poll array of the cerver.
PollAllTwice(l) ==
    /\ Polls(l, ToSet(players[l]), free_fds[l])
    /\ UNCHANGED <<polled, max_players_fds, crashed>>

\* lobby_poll_register_all_players (): a client that is not in the poll array of
\* the cerver is dropped there, and used.  The array is not moved under a thread
\* that polls it; one of no size stays so, and takes nobody.
PollAll(l) ==
    LET all == ToSet(players[l])
        missing == Cardinality(all) - free_fds[l]
    IN  IF all \subseteq polled /\ Cardinality(all) = Len(players[l])
           /\ (missing > 0 /\ max_players_fds[l] # 0 => threads[l] = 0)
        THEN /\ polled' = polled \ all
             /\ crashed' = FALSE
             /\ \/ /\ missing <= 0
                   /\ Polls(l, all, free_fds[l] - Cardinality(all)) /\ UNCHANGED max_players_fds
                \/ missing > 0 /\ max_players_fds[l] = 0 /\ UNCHANGED arrays
                \/ missing > 0 /\ Grows(l, all, missing)
        ELSE crashed' = TRUE /\ UNCHANGED <<polled, arrays>>

\* game_lobby_start () and lobby_start (): any player may.  The array is moved
\* under a thread that polls it when the lobby was started before.
StartLobby(c, i) ==
    /\ Sends(c) /\ PlaceOf(i) # 0
    /\ LET l == current_lobbys[PlaceOf(i)] IN
       /\ threads[l] < 2
       /\ IF SearchReadsFreed(l, c) THEN Crash
          ELSE /\ FirstOf(l, c) # 0
               /\ PollAll(l)
               /\ threads' = [threads EXCEPT ![l] = threads[l] + 1]
               /\ UNCHANGED <<clientMem, lobbyMem, lobbyId, members, game, over>>

\* A client that the cerver polls is dropped; its players are not.
ClientLost(c) ==
    /\ Sends(c)
    /\ clientMem' = [clientMem EXCEPT ![c] = "freed"] /\ polled' = polled \ {c}
    /\ UNCHANGED <<lobbyMem, lobbyId, members, arrays, threads, game, over, crashed>>

-----------------------------------------------------------------------------
(* The methods for the application                                         *)

\* game_cerver_unregister_lobby (): the first lobby with the id is taken out, and
\* the head of the list if none has it.
Unregister(l) ==
    IF current_lobbys = <<>> THEN UNCHANGED game
    ELSE /\ current_lobbys' = RemoveAt(current_lobbys, IF PlaceOf(lobbyId[l]) = 0 THEN 1
                                                       ELSE PlaceOf(lobbyId[l]))
         /\ current_active_lobbys' = current_active_lobbys - 1

\* lobby_teardown (): the lobby is freed with the players that it has, which
\* nobody polls then.  Of its threads some see before that that it has stopped.
Destroy(l) ==
    /\ Unregister(l)
    /\ lobbyMem' = [lobbyMem EXCEPT ![l] = "freed"]
    /\ players' = [players EXCEPT ![l] = <<>>] /\ players_fds' = [players_fds EXCEPT ![l] = {}]
    /\ \E n \in 0 .. threads[l] : threads' = [threads EXCEPT ![l] = n]
    /\ UNCHANGED <<clients, lobbyId, n_current_players, owner, current_players_fds, max_players_fds,
                   free_fds, over, crashed>>

Teardown(l) == lobbyMem[l] = "live" /\ ~ over /\ Destroy(l)

\* player_unregister_from_lobby_poll ()
Unpoll(l, c) ==
    /\ players_fds' = [players_fds EXCEPT ![l] = players_fds[l] \ {c}]
    /\ IF c \in players_fds[l]
       THEN /\ current_players_fds' = [current_players_fds EXCEPT ![l] = @ - 1]
            /\ free_fds' = [free_fds EXCEPT ![l] = @ + 1]
       ELSE UNCHANGED <<current_players_fds, free_fds>>
    /\ UNCHANGED max_players_fds

\* A player is found and taken out, which dlist_remove () tells by returning him:
\* for player_unregister_from_lobby () it has failed, and the count stays.
TakeOut(l, c) ==
    /\ lobbyMem[l] = "live" /\ ~ over /\ FirstOf(l, c) # 0 /\ ~ SearchReadsFreed(l, c)
    /\ Unpoll(l, c)
    /\ players' = [players EXCEPT ![l] = RemoveAt(players[l], FirstOf(l, c))]

\* lobby_leave (): the ids of two players without one are the same, so that the
\* first that is left gets the lobby.
LeaveLobby(l, c) ==
    /\ TakeOut(l, c) /\ players'[l] # <<>>
    /\ owner' = [owner EXCEPT ![l] = {players'[l][1]}]
    /\ UNCHANGED <<clients, lobbyMem, lobbyId, n_current_players, threads, game, over, crashed>>

\* player_unregister_from_lobby () alone: the player remains the owner, and the
\* lobby stays though it may have none left.
UnregisterPlayer(l, c) ==
    /\ TakeOut(l, c)
    /\ UNCHANGED <<clients, lobbyMem, lobbyId, n_current_players, owner, threads, game, over,
                   crashed>>

\* The same for a player who is not in the lobby, taken out before or of another:
\* it counts as done, and the lobby that counts nobody is torn down.
UnregisterStranger(l, c) ==
    /\ lobbyMem[l] = "live" /\ ~ over /\ clientMem[c] = "live"
    /\ FirstOf(l, c) = 0 /\ ~ SearchReadsFreed(l, c)
    /\ \/ /\ n_current_players[l] > 1
          /\ n_current_players' = [n_current_players EXCEPT ![l] = @ - 1]
          /\ Unpoll(l, c)
          /\ UNCHANGED <<clients, lobbyMem, lobbyId, players, owner, threads, game, over, crashed>>
       \/ n_current_players[l] = 1 /\ Destroy(l)

\* The search reads a client that is freed; or the last player leaves, and the
\* first of the empty list is read.
LeaveCrashes(l, c) ==
    /\ lobbyMem[l] = "live" /\ ~ over
    /\ SearchReadsFreed(l, c) \/ (FirstOf(l, c) # 0 /\ Len(players[l]) = 1)
    /\ Crash

\* cerver_clean () and game_delete ()
End ==
    /\ ~ over /\ over' = TRUE
    /\ lobbyMem' = [l \in Lobby |-> IF l \in ToSet(current_lobbys) THEN "freed" ELSE lobbyMem[l]]
    /\ players' = [l \in Lobby |-> IF l \in ToSet(current_lobbys) THEN <<>> ELSE players[l]]
    /\ players_fds' = [l \in Lobby |-> IF l \in ToSet(current_lobbys) THEN {} ELSE players_fds[l]]
    /\ current_lobbys' = <<>> /\ current_active_lobbys' = 0
    /\ threads' \in {f \in [Lobby -> 0 .. 2] :
                       \A l \in Lobby : IF l \in ToSet(current_lobbys) THEN f[l] <= threads[l]
                                                                    ELSE f[l] = threads[l]}
    /\ UNCHANGED <<clients, lobbyId, n_current_players, owner, current_players_fds, max_players_fds,
                   free_fds, crashed>>

-----------------------------------------------------------------------------
(* lobby_poll (): after at most the timeout it reads again if the lobby     *)
(* runs                                                                    *)

PollUsesFreed(l) == threads[l] > 0 /\ lobbyMem[l] = "freed" /\ Crash

-----------------------------------------------------------------------------
Next ==
    /\ ~ crashed
    /\ \/ \E c \in Client :
           \/ \E l \in Lobby :
                  \/ CreateLobby(c, l) \/ LeaveLobby(l, c) \/ UnregisterPlayer(l, c)
                  \/ UnregisterStranger(l, c) \/ LeaveCrashes(l, c)
           \/ \E i \in Id : JoinLobby(c, i) \/ StartLobby(c, i)
           \/ ClientLost(c)
       \/ \E l \in Lobby : Teardown(l) \/ PollUsesFreed(l)
       \/ End

Spec == Init /\ [][Next]_vars

-----------------------------------------------------------------------------
\* Whatever is created, joined, started, left and torn down, and in whichever
\* order, until the program crashes: the list has live lobbies of different ids,
\* and their count; a lobby counts at least one player, and as many descriptors
\* as its array has while there is one; and nobody is polled by the cerver and a
\* lobby, or by two lobbies, which would both receive from the connection.
LobbiesAgree ==
    ~ crashed =>
        /\ current_active_lobbys = Len(current_lobbys)
        /\ \A l \in ToSet(current_lobbys) : lobbyMem[l] = "live"
        /\ Cardinality({lobbyId[l] : l \in ToSet(current_lobbys)}) = Len(current_lobbys)
        /\ \A l \in Lobby : lobbyMem[l] = "live" =>
               /\ n_current_players[l] > 0
               /\ max_players_fds[l] # 0 => current_players_fds[l] = Cardinality(players_fds[l])
               /\ players_fds[l] \cap polled = {}
               /\ \A m \in Lobby \ {l} : players_fds[l] \cap players_fds[m] = {}
=============================================================================
