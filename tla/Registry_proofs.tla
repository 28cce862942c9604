---------------------------- MODULE Registry_proofs ----------------------------
(***************************************************************************)
(* The registry of clients, for any number of connections, descriptors,    *)
(* places and workers of the thpool: the map sends a descriptor to its     *)
(* owner only.  Without workers, for clients that leave by closing their   *)
(* socket: no freed memory is used, and the four places that know a        *)
(* connection agree.                                                       *)
(***************************************************************************)
EXTENDS Registry, FiniteSetTheorems, WellFoundedInduction, TLAPS

(***************************************************************************)
(* The inductive invariant for any workers                                 *)
(***************************************************************************)
DropPlaces == {"dropUnmap", "dropUnpoll", "dropRemove", "dropFree"}
ReceivePlaces == {"receive", "leaveUnpoll", "leaveUnmap", "leaveClose"}
RoguePlaces == {"rogueUnpoll", "rogueUnmap", "rogueClose"}

\* Where a thread relies on its connection, which nobody else may free.
Holding == {"count", "map", "register"} \cup ReceivePlaces \cup DropPlaces
\* Where it has no connection, or one that it only looks at.
Quiet == {"poll", "walk", "idle", "accept", "insert", "activate", "dropped", "crashed"}
Places == Holding \cup Quiet \cup RoguePlaces \cup {"leaveRemove", "leaveFree"}

FdOf(t) == sockFd[conn[t]]
Polled == {f \in Fd : SlotOf(f) # {}}

\* A thread that drops a connection which it has not registered.
Unregistered(t) == pc[t] \in DropPlaces /\ (t # P \/ idx = 0)

Types == TypeOK /\ pc \in [Thread -> Places]

\* The poll thread alone walks, and only then it receives.
Roles ==
    /\ \A t \in Thread : pc[t] \in {"insert", "activate", "dropped", "leaveRemove", "leaveFree"} => conn[t] \in Conn
    /\ \A t \in Workers : pc[t] \notin {"poll", "walk", "leaveRemove", "leaveFree"} \cup ReceivePlaces \cup RoguePlaces
    /\ pc[P] \in ReceivePlaces => idx > 0
    /\ pc[P] \in {"accept", "count", "map", "register"} => idx = 0

\* The connection a thread relies on is live, owns its descriptor and is no
\* other thread's.
Held ==
    \A t \in Thread : pc[t] \in Holding =>
        /\ conn[t] \in Conn /\ mem[conn[t]] = "live"
        /\ FdOf(t) \in Fd /\ open[FdOf(t)] = conn[t]
Apart == \A t, u \in Thread : t # u /\ pc[t] \in Holding /\ pc[u] \in Holding => conn[t] # conn[u]

\* Which tables have the descriptor at each place of a thread.
Stage(t) ==
    /\ pc[t] \in {"count", "map", "leaveClose", "dropUnpoll", "dropRemove", "dropFree"} =>
         sockMap[FdOf(t)] = None
    /\ pc[t] = "register" => sockMap[FdOf(t)] = conn[t]
    /\ pc[t] \in {"count", "map", "register", "leaveUnmap", "leaveClose", "dropRemove", "dropFree"} =>
         FdOf(t) \notin Polled
    /\ Unregistered(t) => FdOf(t) \notin Polled
Stages == \A t \in Thread : Stage(t)

MapHasOwners ==
    \A f \in Fd : sockMap[f] # None =>
        open[f] = sockMap[f] /\ sockFd[sockMap[f]] = f /\ mem[sockMap[f]] = "live"

\* A polled descriptor is mapped but for one that is being dropped.
PolledHasClient ==
    \A f \in Polled : sockMap[f] # None \/ (pc[P] = "dropUnpoll" /\ FdOf(P) = f)
PolledOnce == \A i, j \in DOMAIN slots : slots[i] \in Fd /\ slots[i] = slots[j] => i = j

\* What the poll thread takes for a rogue is not a descriptor, and what it has
\* closed nobody revives.
Leftovers ==
    /\ pc[P] \in RoguePlaces => rogue \notin Fd
    /\ pc[P] \in {"leaveRemove", "leaveFree"} => mem[conn[P]] \in {"closed", "freed"}

IInv == Types /\ Roles /\ Held /\ Apart /\ Stages /\ MapHasOwners /\ PolledHasClient /\ PolledOnce /\ Leftovers

-----------------------------------------------------------------------------
(* Lemmas about the numbers and the poll array                             *)

\* The lowest number of a set that is not empty is one of it.
LEMMA LowestIsMember ==
  ASSUME NEW S, S \subseteq Nat, S # {}
  PROVE  LowestOf(S) \in S
<1> DEFINE Below == {ss \in Nat \X Nat : ss[1] < ss[2]}
<1>1. IsWellFoundedOn(Below, Nat)
  <2>1. OpToRel(<, Nat) = Below
    BY DEF OpToRel
  <2>2. QED
    BY <2>1, NatLessThanWellFounded
<1>2. PICK x \in S : \A y \in S : ~ (<<y, x>> \in Below)
  <2> HIDE DEF Below
  <2>1. QED
    BY <1>1, WFMin
<1>3. ASSUME NEW y \in S  PROVE x <= y
  <2>1. x \in Nat /\ y \in Nat
    OBVIOUS
  <2>2. ~ (y < x)
    BY <1>2, <2>1
  <2>3. QED
    BY <2>1, <2>2
<1>4. QED
  BY <1>3 DEF LowestOf

\* One slot of the array is written.
LEMMA SlotWritten ==
  ASSUME NEW S, NEW s \in Seq(S), NEW i \in DOMAIN s, NEW x \in S
  PROVE  /\ [s EXCEPT ![i] = x] \in Seq(S) /\ DOMAIN [s EXCEPT ![i] = x] = DOMAIN s
         /\ \A k \in DOMAIN s : [s EXCEPT ![i] = x][k] = IF k = i THEN x ELSE s[k]
OBVIOUS

\* The indexes of a descriptor in the array.
LEMMA SlotIndexes ==
  ASSUME Types, NEW f, SlotOf(f) # {}
  PROVE  LowestOf(SlotOf(f)) \in SlotOf(f) /\ SlotOf(f) \subseteq DOMAIN slots
<1>1. SlotOf(f) \subseteq DOMAIN slots /\ DOMAIN slots \subseteq Nat
  BY DEF SlotOf, Types, TypeOK
<1>2. QED
  BY <1>1, LowestIsMember

\* cerver_poll_unregister_sock_fd () empties one slot, which is the only one of
\* a descriptor.
LEMMA UnpollFrees ==
  ASSUME Types, PolledOnce, NEW f, Unpoll(f)
  PROVE  /\ slots' \in Seq(Fd \union {Free} \union Garbage) /\ PolledOnce'
         /\ Polled' = Polled \ {f}
<1>0. Free \notin Fd
  BY DEF Fd, Free
<1>1. CASE SlotOf(f) = {}
  <2>1. slots' = slots
    BY <1>1 DEF Unpoll
  <2>2. QED
    BY <1>1, <2>1 DEF Polled, SlotOf, PolledOnce, Types, TypeOK
<1>2. CASE SlotOf(f) # {}
  <2> DEFINE i == LowestOf(SlotOf(f))
  <2>1. slots' = [slots EXCEPT ![i] = Free]
    BY <1>2 DEF Unpoll
  <2>2. i \in DOMAIN slots /\ slots[i] = f
    BY <1>2, SlotIndexes DEF SlotOf
  <2> HIDE DEF i
  <2>3. slots' \in Seq(Fd \union {Free} \union Garbage) /\ DOMAIN slots' = DOMAIN slots
    BY <2>1, <2>2, SlotWritten DEF Types, TypeOK
  <2>4. \A k \in DOMAIN slots : slots'[k] = IF k = i THEN Free ELSE slots[k]
    BY <2>1, <2>2 DEF Types, TypeOK
  <2>5. PolledOnce'
    BY <1>0, <2>3, <2>4 DEF PolledOnce
  <2>6. ASSUME NEW g \in Fd, g # f  PROVE SlotOf(g)' = SlotOf(g)
    BY <1>0, <2>2, <2>3, <2>4, <2>6 DEF SlotOf
  <2>7. ASSUME f \in Fd  PROVE SlotOf(f)' = {}
    BY <1>0, <2>2, <2>3, <2>4, <2>7 DEF SlotOf, PolledOnce
  <2>8. Polled' = Polled \ {f}
    BY <2>6, <2>7 DEF Polled
  <2>9. QED
    BY <2>3, <2>5, <2>8
<1>3. QED
  BY <1>1, <1>2

\* A descriptor that is not in the array is put in a free slot.
LEMMA FreeSlotTaken ==
  ASSUME Types, PolledOnce, NEW f \in Fd, f \notin Polled,
         NEW i \in DOMAIN slots, slots[i] = Free, slots' = [slots EXCEPT ![i] = f]
  PROVE  /\ slots' \in Seq(Fd \union {Free} \union Garbage) /\ PolledOnce'
         /\ Polled' = Polled \cup {f}
<1>1. Free \notin Fd
  BY DEF Fd, Free
<1>2. slots' \in Seq(Fd \union {Free} \union Garbage) /\ DOMAIN slots' = DOMAIN slots
  BY SlotWritten DEF Types, TypeOK
<1>3. \A k \in DOMAIN slots : slots'[k] = IF k = i THEN f ELSE slots[k]
  BY SlotWritten DEF Types, TypeOK
<1>4. \A k \in DOMAIN slots : slots[k] # f
  BY DEF Polled, SlotOf
<1>5. PolledOnce'
  BY <1>2, <1>3, <1>4 DEF PolledOnce
<1>6. ASSUME NEW g \in Fd, g # f  PROVE SlotOf(g)' = SlotOf(g)
  BY <1>1, <1>2, <1>3, <1>6 DEF SlotOf
<1>7. SlotOf(f)' # {}
  BY <1>2, <1>3 DEF SlotOf
<1>8. Polled' = Polled \cup {f}
  BY <1>6, <1>7 DEF Polled
<1>9. QED
  BY <1>2, <1>5, <1>8

\* realloc () adds slots that hold no descriptor; one of them may be taken.
LEMMA GrowthAdds ==
  ASSUME Types, PolledOnce, Garbage \cap Fd = {}, NEW f \in Fd, f \notin Polled,
         NEW more \in Seq(Garbage), NEW taken \in SUBSET DOMAIN more,
         \A i, j \in taken : i = j,
         NEW added \in Seq(Garbage \cup {f}), DOMAIN added = DOMAIN more,
         \A i \in DOMAIN more : added[i] = IF i \in taken THEN f ELSE more[i],
         slots' = slots \o added
  PROVE  /\ slots' \in Seq(Fd \union {Free} \union Garbage) /\ PolledOnce'
         /\ Polled' = IF taken = {} THEN Polled ELSE Polled \cup {f}
<1>1. slots \in Seq(Fd \union {Free} \union Garbage) /\ added \in Seq(Fd \union {Free} \union Garbage)
  <2>1. \A i \in DOMAIN added : added[i] \in Fd \union {Free} \union Garbage
    OBVIOUS
  <2>2. QED
    BY DEF Types, TypeOK
<1>2. slots' \in Seq(Fd \union {Free} \union Garbage) /\ Len(slots') = Len(slots) + Len(added)
  BY <1>1
<1>3. \A k \in DOMAIN slots : k \in DOMAIN slots' /\ slots'[k] = slots[k]
  BY <1>1, <1>2
<1>4. \A k \in DOMAIN added : Len(slots) + k \in DOMAIN slots' /\ slots'[Len(slots) + k] = added[k]
  BY <1>1, <1>2
<1>5. \A k \in DOMAIN slots' : k \in DOMAIN slots \/ \E i \in DOMAIN added : k = Len(slots) + i
  <2> TAKE k \in DOMAIN slots'
  <2>1. CASE k <= Len(slots)
    BY <1>1, <1>2, <2>1
  <2>2. CASE k > Len(slots)
    <3>1. k - Len(slots) \in DOMAIN added /\ k = Len(slots) + (k - Len(slots))
      BY <1>1, <1>2, <2>2
    <3>2. QED
      BY <3>1
  <2>3. QED
    BY <1>1, <1>2, <2>1, <2>2
<1>6. \A k \in DOMAIN added : added[k] \in Fd => k \in taken /\ added[k] = f
  OBVIOUS
<1>7. \A k \in DOMAIN slots : slots[k] # f
  BY DEF Polled, SlotOf
<1>8. PolledOnce'
  BY <1>3, <1>4, <1>5, <1>6, <1>7 DEF PolledOnce
<1>9. ASSUME NEW g \in Fd, g # f  PROVE SlotOf(g)' = SlotOf(g)
  <2>1. ASSUME NEW k \in SlotOf(g)'  PROVE k \in SlotOf(g)
    BY <1>3, <1>4, <1>5, <1>6, <1>9 DEF SlotOf
  <2>2. ASSUME NEW k \in SlotOf(g)  PROVE k \in SlotOf(g)'
    BY <1>3 DEF SlotOf
  <2>3. QED
    BY <2>1, <2>2
<1>10. taken = {} <=> SlotOf(f)' = {}
  <2>1. ASSUME NEW k \in SlotOf(f)'  PROVE taken # {}
    BY <1>3, <1>4, <1>5, <1>6, <1>7 DEF SlotOf
  <2>2. ASSUME NEW k \in taken  PROVE Len(slots) + k \in SlotOf(f)'
    BY <1>4 DEF SlotOf
  <2>3. QED
    BY <2>1, <2>2
<1>11. Polled' = IF taken = {} THEN Polled ELSE Polled \cup {f}
  BY <1>9, <1>10 DEF Polled
<1>12. QED
  BY <1>2, <1>8, <1>11

-----------------------------------------------------------------------------
(* The steps                                                               *)

\* A thread that goes where it relies on no connection, and leaves the
\* connections and the tables of descriptors alone.
LEMMA QuietKeeps ==
  ASSUME IInv, NEW t \in Thread, NEW q \in Quiet,
         pc' = [pc EXCEPT ![t] = q], pc[t] # "dropUnpoll",
         conn' = conn \/ conn' = [conn EXCEPT ![t] = None],
         UNCHANGED <<open, mem, sockFd, slots, sockMap>>, t # P => UNCHANGED <<idx, rogue>>,
         t = P \/ q \notin {"poll", "walk"}, t = P /\ q = "accept" => idx' = 0,
         q \in {"insert", "activate", "dropped"} => conn'[t] \in Conn,
         TypeOK'
  PROVE  IInv'
<1> USE DEF IInv, FdOf
<1>1. Types' /\ \A u \in Thread : pc'[u] = IF u = t THEN q ELSE pc[u]
  BY DEF Types, Places
<1>2. \A u \in Thread : u # t => conn'[u] = conn[u]
  BY DEF Types, TypeOK
<1>3. P \in Thread
  BY DEF Thread
<1>4. Roles'
  <2>1. ASSUME NEW u \in Thread,
               pc'[u] \in {"insert", "activate", "dropped", "leaveRemove", "leaveFree"}
        PROVE  conn'[u] \in Conn
    BY <1>1, <1>2, <2>1 DEF Roles, Quiet
  <2>2. ASSUME NEW u \in Workers
        PROVE  pc'[u] \notin {"poll", "walk", "leaveRemove", "leaveFree"} \cup ReceivePlaces \cup RoguePlaces
    <3>1. u \in Thread /\ u # P
      BY RegistryAssumption DEF Thread
    <3>2. QED
      BY <1>1, <3>1 DEF Roles, Quiet, ReceivePlaces, RoguePlaces
  <2>3. (pc'[P] \in ReceivePlaces => idx' > 0) /\ (pc'[P] \in {"accept", "count", "map", "register"} => idx' = 0)
    BY <1>1, <1>3 DEF Roles, Quiet, ReceivePlaces
  <2>4. QED
    BY <2>1, <2>2, <2>3 DEF Roles
<1>5. Held'
  BY <1>1, <1>2 DEF Held, Holding, Quiet, ReceivePlaces, DropPlaces
<1>6. Apart'
  BY <1>1, <1>2 DEF Apart, Holding, Quiet, ReceivePlaces, DropPlaces
<1>7. Polled' = Polled /\ PolledOnce' /\ MapHasOwners'
  BY DEF Polled, SlotOf, PolledOnce, MapHasOwners
<1>8. Stages'
  BY <1>1, <1>2, <1>3, <1>7 DEF Stages, Stage, Unregistered, DropPlaces, Quiet
<1>9. PolledHasClient' /\ Leftovers'
  BY <1>1, <1>2, <1>3, <1>7 DEF PolledHasClient, Leftovers, Quiet, RoguePlaces
<1>10. QED
  BY <1>1, <1>4, <1>5, <1>6, <1>7, <1>8, <1>9

\* What a thread does between two of its operations on the tables.
LEMMA QuietSteps ==
  ASSUME IInv, NEW t \in Thread,
         \/ NothingToAccept(t) \/ Insert(t) \/ Activate(t) \/ UseFreed(t) \/ Dropped(t)
         \/ t = P /\ (RogueIsRead \/ ClosedIsRead)
         \/ t = P /\ (PollReturns \/ AcceptHere \/ AcceptInThpool \/ EndOfWalk \/ SkipSlot \/ Receive)
         \/ t \in Workers /\ StartAccept(t)
  PROVE  IInv'
<1> USE DEF Goto, Crash, kernel, objects, tables, walk, Quiet
<1>0. t \in Workers => t # P
  BY RegistryAssumption
<1>1. Roles /\ TypeOK /\ pc \in [Thread -> Places]
  BY DEF IInv, Types
<1>2. None \in Conn \cup {None} /\ \A s \in Thread : [conn EXCEPT ![s] = None] \in [Thread -> Conn \cup {None}]
  BY <1>1 DEF TypeOK
<1>3. CASE NothingToAccept(t)
  <2>1. TypeOK'
    BY <1>1, <1>2, <1>3 DEF NothingToAccept, Accepted, TypeOK
  <2>2. QED
    BY <1>3, <2>1, QuietKeeps DEF NothingToAccept, Accepted
<1>4. CASE Activate(t)
  <2>1. TypeOK'
    BY <1>1, <1>2, <1>4 DEF Activate, Accepted, TypeOK
  <2>2. QED
    BY <1>4, <2>1, QuietKeeps DEF Activate, Accepted
<1>5. CASE Insert(t)
  <2>1. conn[t] \in Conn
    BY <1>1, <1>5 DEF Insert, Roles
  <2>2. TypeOK'
    BY <1>1, <1>5, <2>1 DEF Insert, TypeOK
  <2>3. QED
    BY <1>5, <2>1, <2>2, QuietKeeps DEF Insert
<1>6. CASE UseFreed(t)
  <2>1. TypeOK'
    BY <1>1, <1>6 DEF UseFreed, TypeOK
  <2>2. QED
    BY <1>6, <2>1, QuietKeeps DEF UseFreed
<1>7. CASE Dropped(t)
  <2>1. TypeOK'
    <3>1. conn' \in [Thread -> Conn \cup {None}] /\ idx' \in Nat
      <4>1. conn' \in {conn, [conn EXCEPT ![t] = None]} /\ idx' \in {idx, idx + 1}
        BY <1>7 DEF Dropped
      <4>2. conn \in [Thread -> Conn \cup {None}] /\ idx \in Nat
        BY <1>1 DEF TypeOK
      <4>3. QED
        BY <1>2, <4>1, <4>2
    <3>2. QED
      BY <1>1, <1>7, <3>1 DEF Dropped, TypeOK
  <2>2. QED
    BY <1>7, <2>1, QuietKeeps DEF Dropped
<1>20. CASE t = P /\ (RogueIsRead \/ ClosedIsRead)
  <2>1. TypeOK'
    BY <1>1, <1>20 DEF RogueIsRead, ClosedIsRead, TypeOK
  <2>2. QED
    BY <1>20, <2>1, QuietKeeps DEF RogueIsRead, ClosedIsRead
<1>8. CASE t = P /\ (PollReturns \/ AcceptHere \/ AcceptInThpool)
  <2>1. TypeOK'
    <3>1. idx' \in Nat
      BY <1>1, <1>8 DEF PollReturns, AcceptHere, AcceptInThpool, TypeOK
    <3>2. jobs' = jobs \/ jobs' = TRUE
      BY <1>8 DEF PollReturns, AcceptHere, AcceptInThpool
    <3>3. jobs' \in BOOLEAN
      BY <1>1, <3>2 DEF TypeOK
    <3>4. UNCHANGED <<kernel, objects, tables, conn, rogue>>
      BY <1>8 DEF PollReturns, AcceptHere, AcceptInThpool
    <3>5. QED
      BY <1>1, <3>1, <3>3, <3>4 DEF TypeOK
  <2>2. QED
    BY <1>8, <2>1, QuietKeeps DEF PollReturns, AcceptHere, AcceptInThpool
<1>9. CASE t = P /\ (EndOfWalk \/ SkipSlot \/ Receive)
  <2>1. TypeOK'
    <3>1. /\ conn' \in {conn, [conn EXCEPT ![P] = None]} /\ idx' \in {idx, idx + 1}
          /\ UNCHANGED <<kernel, objects, tables, jobs, rogue>>
      BY <1>9 DEF EndOfWalk, SkipSlot, Receive
    <3>2. P \in Thread
      BY <1>9
    <3>3. QED
      BY <1>1, <1>2, <3>1, <3>2 DEF TypeOK
  <2>2. QED
    BY <1>9, <2>1, QuietKeeps DEF EndOfWalk, SkipSlot, Receive
<1>10. CASE t \in Workers /\ StartAccept(t)
  <2>1. TypeOK'
    BY <1>1, <1>10 DEF StartAccept, TypeOK
  <2>2. QED
    BY <1>0, <1>10, <2>1, QuietKeeps DEF StartAccept
<1>11. QED
  BY <1>3, <1>4, <1>5, <1>6, <1>7, <1>8, <1>9, <1>10, <1>20

\* The other end of a connection goes.
LEMMA PeerGoesKeeps ==
  ASSUME IInv, NEW c \in Conn, PeerGoes(c)
  PROVE  IInv'
<1> USE DEF PeerGoes, objects, tables, walk
<1>1. Types' /\ Roles' /\ Held' /\ Apart'
  BY DEF IInv, Types, TypeOK, Roles, Held, Apart, FdOf
<1>2. Polled' = Polled /\ PolledOnce' /\ MapHasOwners'
  BY DEF IInv, Polled, SlotOf, PolledOnce, MapHasOwners
<1>3. Stages' /\ PolledHasClient' /\ Leftovers'
  BY <1>2 DEF IInv, Stages, Stage, Unregistered, FdOf, PolledHasClient, Leftovers
<1>4. QED
  BY <1>1, <1>2, <1>3 DEF IInv

\* A thread goes on with the connection that it relies on, or with one that it
\* has closed, and leaves the connections and the tables of descriptors alone.
LEMMA SameTablesKeep ==
  ASSUME IInv, NEW t \in Thread, NEW q \in Holding \cup {"leaveFree"},
         pc' = [pc EXCEPT ![t] = q],
         pc[t] = "leaveRemove" <=> q = "leaveFree",
         pc[t] \in Holding \cup {"leaveRemove"},
         pc[t] # "dropUnpoll",
         UNCHANGED <<open, mem, sockFd, slots, sockMap, conn, idx, rogue>>,
         q \in ReceivePlaces => t = P /\ idx > 0,
         q \in {"count", "map", "register"} => pc[t] \in {"count", "map", "register"},
         pc[t] \in {"count", "map", "register"} \/ Unregistered(t) \/ q \notin DropPlaces
             \/ (t = P /\ idx > 0),
         Stages', TypeOK'
  PROVE  IInv'
<1> USE DEF IInv, FdOf
<1>1. Types' /\ \A u \in Thread : pc'[u] = IF u = t THEN q ELSE pc[u]
  BY DEF Types, Places
<1>2. P \in Thread /\ P \notin Workers
  BY RegistryAssumption DEF Thread
<1>3. Polled' = Polled /\ PolledOnce' /\ MapHasOwners'
  BY DEF Polled, SlotOf, PolledOnce, MapHasOwners
<1>4. Held' /\ Apart'
  BY <1>1 DEF Held, Apart, Holding, ReceivePlaces, DropPlaces
<1>5. Roles'
  BY <1>1, <1>2 DEF Roles, Holding, ReceivePlaces, RoguePlaces, DropPlaces, Thread
<1>6. PolledHasClient' /\ Leftovers'
  BY <1>1, <1>2, <1>3 DEF PolledHasClient, Leftovers, Holding, ReceivePlaces, RoguePlaces, DropPlaces
<1>7. QED
  BY <1>1, <1>3, <1>4, <1>5, <1>6

\* Counting a client, leaving and taking a client out of the tree.
LEMMA HeldSteps ==
  ASSUME IInv, NEW t \in Thread,
         CountClient(t) \/ DropClients(t) \/ (t = P /\ (Leave \/ Disconnect \/ LeaveClients))
  PROVE  IInv'
<1> USE DEF Goto, kernel, objects, tables, walk
<1>1. TypeOK /\ Roles /\ Stages /\ Types
  BY DEF IInv, Types
<1>2. \A c : TakeOut(c) => clients' \subseteq Conn
  BY <1>1 DEF TakeOut, TypeOK
<1>3. ASSUME NEW q \in Places, pc' = [pc EXCEPT ![t] = q]
      PROVE  \A u \in Thread : pc'[u] = IF u = t THEN q ELSE pc[u]
  BY <1>1, <1>3 DEF Types
<1>4. CASE CountClient(t)
  <2>1. conn[t] \in Conn
    BY <1>4 DEF CountClient, IInv, Held, Holding
  <2>2. TypeOK'
    BY <1>1, <1>4, <2>1 DEF CountClient, TypeOK
  <2>3. Polled' = Polled
    BY <1>4 DEF CountClient, Polled, SlotOf
  <2>4. Stages'
    BY <1>1, <1>3, <1>4, <2>3 DEF CountClient, Stages, Stage, Unregistered, FdOf, DropPlaces, Places, Holding
  <2>5. QED
    BY <1>4, <2>2, <2>4, SameTablesKeep DEF CountClient, Holding, ReceivePlaces, DropPlaces
<1>5. CASE DropClients(t)
  <2>1. TypeOK'
    BY <1>1, <1>2, <1>5 DEF DropClients, TypeOK
  <2>2. Polled' = Polled
    BY <1>5 DEF DropClients, Polled, SlotOf
  <2>3. Stages'
    BY <1>1, <1>3, <1>5, <2>2 DEF DropClients, Stages, Stage, Unregistered, FdOf, DropPlaces, Places, Holding
  <2>4. Unregistered(t) \/ (t = P /\ idx > 0)
    BY <1>1, <1>5 DEF DropClients, Unregistered, DropPlaces, TypeOK
  <2>5. QED
    BY <1>5, <2>1, <2>3, <2>4, SameTablesKeep DEF DropClients, Holding, ReceivePlaces, DropPlaces
<1>6. CASE t = P /\ Leave
  <2>1. TypeOK' /\ idx > 0
    BY <1>1, <1>6 DEF Leave, TypeOK, Roles, ReceivePlaces
  <2>2. Polled' = Polled
    BY <1>6 DEF Leave, Polled, SlotOf
  <2>3. Stages'
    BY <1>1, <1>3, <1>6, <2>2 DEF Leave, Stages, Stage, Unregistered, FdOf, DropPlaces, ReceivePlaces, Places, Holding
  <2>4. QED
    BY <1>6, <2>1, <2>3, SameTablesKeep DEF Leave, Holding, ReceivePlaces, DropPlaces
<1>7. CASE t = P /\ Disconnect
  <2>1. TypeOK' /\ idx > 0
    BY <1>1, <1>7 DEF Disconnect, TypeOK, Roles, ReceivePlaces
  <2>2. Polled' = Polled
    BY <1>7 DEF Disconnect, Polled, SlotOf
  <2>3. Stages'
    BY <1>1, <1>3, <1>7, <2>1, <2>2
       DEF Disconnect, Stages, Stage, Unregistered, FdOf, DropPlaces, ReceivePlaces, Places, Holding
  <2>4. QED
    BY <1>7, <2>1, <2>3, SameTablesKeep DEF Disconnect, Holding, ReceivePlaces, DropPlaces
<1>8. CASE t = P /\ LeaveClients
  <2>1. TypeOK'
    BY <1>1, <1>2, <1>8 DEF LeaveClients, TypeOK
  <2>2. Polled' = Polled
    BY <1>8 DEF LeaveClients, Polled, SlotOf
  <2>3. Stages'
    BY <1>1, <1>3, <1>8, <2>2 DEF LeaveClients, Stages, Stage, Unregistered, FdOf, DropPlaces, Places, Holding
  <2>4. QED
    BY <1>8, <2>1, <2>3, SameTablesKeep DEF LeaveClients, Holding, ReceivePlaces, DropPlaces
<1>9. QED
  BY <1>4, <1>5, <1>6, <1>7, <1>8

\* accept () gives a descriptor that no table has to a new connection.
LEMMA AcceptKeeps ==
  ASSUME IInv, NEW t \in Thread, Accept(t)
  PROVE  IInv'
<1> DEFINE c == LowestOf({d \in Conn : mem[d] = "unused"})
           f == LowestOf({g \in Fd : open[g] = None})
<1>1. c \in Conn /\ mem[c] = "unused" /\ f \in Fd /\ open[f] = None
  <2>1. {d \in Conn : mem[d] = "unused"} \subseteq Nat /\ {d \in Conn : mem[d] = "unused"} # {}
    BY DEF Accept, Conn
  <2>2. {g \in Fd : open[g] = None} \subseteq Nat /\ {g \in Fd : open[g] = None} # {}
    BY DEF Accept, Fd
  <2>3. c \in {d \in Conn : mem[d] = "unused"} /\ f \in {g \in Fd : open[g] = None}
    BY <2>1, <2>2, LowestIsMember
  <2>4. QED
    BY <2>3
<1>2. /\ open' = [open EXCEPT ![f] = c] /\ mem' = [mem EXCEPT ![c] = "live"]
      /\ sockFd' = [sockFd EXCEPT ![c] = f] /\ id' = [id EXCEPT ![c] = nextId]
      /\ conn' = [conn EXCEPT ![t] = c] /\ pc[t] = "accept" /\ pc' = [pc EXCEPT ![t] = "count"]
      /\ UNCHANGED <<peer, nextId, slots, sockMap, clients, jobs, idx, rogue>>
  BY DEF Accept, Goto, tables, walk
<1> HIDE DEF c, f
<1>3. c # None /\ None \notin Conn
  BY <1>1 DEF Conn, None
<1>4. sockMap[f] = None /\ f \notin Polled
  BY <1>1, <1>3 DEF IInv, Types, TypeOK, MapHasOwners, PolledHasClient, Held, Holding, DropPlaces, FdOf, Thread
<1>5. Types' /\ \A u \in Thread : pc'[u] = IF u = t THEN "count" ELSE pc[u]
  BY <1>1, <1>2 DEF IInv, Types, TypeOK, Places, Holding
<1>6. \A u \in Thread : conn'[u] = IF u = t THEN c ELSE conn[u]
  BY <1>2 DEF IInv, Types, TypeOK
<1>7. Roles'
  BY <1>1, <1>2, <1>5, <1>6 DEF IInv, Roles, ReceivePlaces, RoguePlaces
<1>8. Held'
  BY <1>1, <1>2, <1>3, <1>5, <1>6 DEF IInv, Types, TypeOK, Held, FdOf
<1>9. Apart'
  BY <1>1, <1>2, <1>5, <1>6 DEF IInv, Held, Apart
<1>10. Polled' = Polled /\ PolledOnce'
  BY <1>2 DEF IInv, Polled, SlotOf, PolledOnce
<1>11. MapHasOwners'
  BY <1>1, <1>2, <1>3, <1>4 DEF IInv, Types, TypeOK, MapHasOwners
<1>12. Stages'
  <2> SUFFICES ASSUME NEW u \in Thread  PROVE Stage(u)'
    BY DEF Stages
  <2>1. CASE u = t
    BY <1>1, <1>2, <1>4, <1>5, <1>6, <1>10, <2>1 DEF IInv, Types, TypeOK, Roles, Stage, Unregistered, FdOf, DropPlaces
  <2>2. CASE u # t
    <3>1. pc[u] \in Holding => FdOf(u)' = FdOf(u)
      BY <1>1, <1>2, <1>6, <2>2 DEF IInv, Held, FdOf, Types, TypeOK
    <3>2. QED
      BY <1>2, <1>5, <1>6, <1>10, <2>2, <3>1
         DEF IInv, Stages, Stage, Unregistered, Holding, DropPlaces, ReceivePlaces
  <2>3. QED
    BY <2>1, <2>2
<1>13. PolledHasClient' /\ Leftovers'
  BY <1>1, <1>2, <1>5, <1>6, <1>10 DEF IInv, Types, TypeOK, PolledHasClient, Leftovers, FdOf, Held, Holding, DropPlaces, Thread, RoguePlaces
<1>14. QED
  BY <1>5, <1>7, <1>8, <1>9, <1>10, <1>11, <1>12, <1>13 DEF IInv

\* Where everybody is after one thread has gone to another place.
LEMMA OthersStay ==
  ASSUME Types, NEW t \in Thread, NEW q \in Places, pc' = [pc EXCEPT ![t] = q]
  PROVE  /\ pc' \in [Thread -> Places]
         /\ \A u \in Thread : pc'[u] = IF u = t THEN q ELSE pc[u]
  BY DEF Types

\* htab_insert () finds that nobody has the descriptor.
LEMMA MapKeeps ==
  ASSUME IInv, NEW t \in Thread, Map(t)
  PROVE  IInv' /\ pc'[t] = "register"
<1> DEFINE f == sockFd[conn[t]]
           c == conn[t]
<1>1. /\ c \in Conn /\ mem[c] = "live" /\ f \in Fd /\ open[f] = c
      /\ sockMap[f] = None /\ f \notin Polled /\ pc[t] = "map"
  BY DEF IInv, Map, Goto, Held, Holding, Stages, Stage, FdOf
<1>2. /\ pc' = [pc EXCEPT ![t] = "register"] /\ sockMap' = [sockMap EXCEPT ![f] = c]
      /\ UNCHANGED <<open, peer, mem, sockFd, id, nextId, slots, clients, jobs, conn, idx, rogue>>
  BY <1>1 DEF Map, Goto, kernel, objects, walk
<1>3. \A u \in Thread : pc'[u] = IF u = t THEN "register" ELSE pc[u]
  BY <1>2, OthersStay DEF IInv, Places, Holding
<1>4. \A g \in Fd : sockMap'[g] = IF g = f THEN c ELSE sockMap[g]
  BY <1>1, <1>2 DEF IInv, Types, TypeOK
<1>5. Types'
  BY <1>1, <1>2 DEF IInv, Types, TypeOK, Places, Holding
<1>6. Roles' /\ Held' /\ Apart'
  <2>1. Roles'
    BY <1>1, <1>2, <1>3 DEF IInv, Roles, ReceivePlaces, RoguePlaces, Thread
  <2>2. Held' /\ Apart'
    BY <1>1, <1>2, <1>3 DEF IInv, Held, Apart, FdOf, Holding
  <2>3. QED
    BY <2>1, <2>2
<1>7. Polled' = Polled /\ PolledOnce'
  BY <1>2 DEF IInv, Polled, SlotOf, PolledOnce
<1>8. MapHasOwners'
  BY <1>1, <1>2, <1>4 DEF IInv, MapHasOwners
<1>9. ASSUME NEW u \in Thread  PROVE Stage(u)'
  <2>1. CASE u = t
    BY <1>1, <1>2, <1>3, <1>4, <1>7, <2>1 DEF Stage, Unregistered, FdOf, DropPlaces
  <2>2. CASE u # t
    <3>1. pc[u] \in Holding => FdOf(u) # f
      BY <1>1, <2>2 DEF IInv, Held, Apart, Holding
    <3>2. QED
      BY <1>2, <1>3, <1>4, <1>7, <2>2, <3>1
         DEF IInv, Held, Stages, Stage, Unregistered, FdOf, Holding, DropPlaces, ReceivePlaces
  <2>3. QED
    BY <2>1, <2>2
<1>10. c # None
  BY <1>1 DEF Conn, None
<1>11. PolledHasClient' /\ Leftovers'
  BY <1>1, <1>2, <1>3, <1>4, <1>7, <1>10
     DEF IInv, PolledHasClient, Leftovers, FdOf, RoguePlaces, Thread, Polled
<1>12. QED
  BY <1>3, <1>5, <1>6, <1>7, <1>8, <1>9, <1>11 DEF IInv, Stages

\* The array gets the descriptor, or has no place for it.
LEMMA PolledKeeps ==
  ASSUME IInv, NEW t \in Thread, pc[t] = "register", NEW q \in {"insert", "dropUnmap"},
         pc' = [pc EXCEPT ![t] = q],
         UNCHANGED <<open, peer, mem, sockFd, id, nextId, sockMap, clients, jobs, conn, idx, rogue>>,
         slots' \in Seq(Fd \union {Free} \union Garbage), PolledOnce',
         Polled' = IF q = "insert" THEN Polled \cup {FdOf(t)} ELSE Polled
  PROVE  IInv'
<1>1. /\ conn[t] \in Conn /\ FdOf(t) \in Fd /\ open[FdOf(t)] = conn[t] /\ sockMap[FdOf(t)] = conn[t]
      /\ FdOf(t) \notin Polled /\ conn[t] # None
  BY DEF IInv, Held, Holding, Stages, Stage, Conn, None
<1>2. \A u \in Thread : pc'[u] = IF u = t THEN q ELSE pc[u]
  BY OthersStay DEF IInv, Places, Holding, Quiet, DropPlaces
<1>3. Types'
  BY DEF IInv, Types, TypeOK, Places, Holding, Quiet, DropPlaces
<1>4. Roles'
  BY <1>1, <1>2 DEF IInv, Roles, ReceivePlaces, RoguePlaces
<1>5. Held' /\ Apart'
  BY <1>2 DEF IInv, Held, Apart, FdOf, Holding, DropPlaces, ReceivePlaces
<1>6. MapHasOwners'
  BY DEF IInv, MapHasOwners
<1>7. ASSUME NEW u \in Thread  PROVE Stage(u)'
  <2>1. CASE u = t
    BY <1>1, <1>2, <2>1 DEF Stage, Unregistered, FdOf, DropPlaces
  <2>2. CASE u # t
    <3>1. pc[u] \in Holding => FdOf(u) # FdOf(t)
      BY <1>1, <2>2 DEF IInv, Held, Apart, Holding
    <3>2. QED
      BY <1>1, <1>2, <2>2, <3>1
         DEF IInv, Stages, Stage, Unregistered, FdOf, Holding, DropPlaces, ReceivePlaces
  <2>3. QED
    BY <2>1, <2>2
<1>8. PolledHasClient' /\ Leftovers'
  BY <1>1, <1>2 DEF IInv, PolledHasClient, Leftovers, FdOf, RoguePlaces, Thread
<1>9. QED
  BY <1>3, <1>4, <1>5, <1>6, <1>7, <1>8 DEF IInv, Stages

\* cerver_poll_register_connection () takes a free slot, or makes new ones.
LEMMA RegisterPolls ==
  ASSUME IInv, Garbage \cap Fd = {}, NEW t \in Thread, Register(t) \/ GrowAndRegister(t)
  PROVE  /\ pc[t] = "register"
         /\ slots' \in Seq(Fd \union {Free} \union Garbage) /\ PolledOnce'
         /\ UNCHANGED <<open, peer, mem, sockFd, id, nextId, sockMap, clients, jobs, conn, idx, rogue>>
         /\ \E q \in {"insert", "dropUnmap"} :
              /\ pc' = [pc EXCEPT ![t] = q]
              /\ Polled' = IF q = "insert" THEN Polled \cup {FdOf(t)} ELSE Polled
<1>1. FdOf(t) \in Fd /\ FdOf(t) \notin Polled /\ Types /\ PolledOnce /\ pc[t] = "register"
  BY DEF IInv, Register, GrowAndRegister, Goto, Held, Holding, Stages, Stage
<1>2. CASE Register(t)
  <2> DEFINE i == LowestOf(SlotOf(Free))
  <2>1. i \in DOMAIN slots /\ slots[i] = Free
    BY <1>1, <1>2, SlotIndexes DEF Register, SlotOf
  <2>2. slots' = [slots EXCEPT ![i] = FdOf(t)]
    BY <1>2 DEF Register, FdOf
  <2> HIDE DEF i
  <2>3. /\ slots' \in Seq(Fd \union {Free} \union Garbage) /\ PolledOnce'
        /\ Polled' = Polled \cup {FdOf(t)}
    BY <1>1, <2>1, <2>2, FreeSlotTaken
  <2>4. QED
    BY <1>1, <1>2, <2>3 DEF Register, Goto, kernel, objects, walk
<1>3. CASE GrowAndRegister(t)
  <2>1. PICK new \in [1 .. Len(slots) + 1 -> Garbage] :
          LET found == {k \in DOMAIN new : new[k] = Free}
          IN  /\ slots' = slots \o (IF found = {} THEN new
                                    ELSE [new EXCEPT ![LowestOf(found)] = sockFd[conn[t]]])
              /\ Goto(t, "register", IF found = {} THEN "dropUnmap" ELSE "insert")
    BY <1>3 DEF GrowAndRegister
  <2> DEFINE found == {k \in DOMAIN new : new[k] = Free}
             i == LowestOf(found)
             taken == IF found = {} THEN {} ELSE {i}
             added == IF found = {} THEN new ELSE [new EXCEPT ![i] = FdOf(t)]
             q == IF found = {} THEN "dropUnmap" ELSE "insert"
  <2>2. slots' = slots \o added /\ pc' = [pc EXCEPT ![t] = q]
    BY <2>1 DEF Goto, FdOf
  <2>3. new \in Seq(Garbage) /\ DOMAIN new \subseteq Nat
    <3>1. Len(slots) + 1 \in Nat
      BY <1>1 DEF Types, TypeOK
    <3>2. QED
      BY <3>1
  <2>4. found # {} => i \in DOMAIN new
    <3>1. found \subseteq Nat /\ found \subseteq DOMAIN new
      BY <2>3
    <3>2. QED
      BY <3>1, LowestIsMember
  <2> HIDE DEF found, i
  <2>5. taken \in SUBSET DOMAIN new /\ \A k, l \in taken : k = l
    BY <2>4
  <2>6. /\ added \in Seq(Garbage \cup {FdOf(t)}) /\ DOMAIN added = DOMAIN new
        /\ \A k \in DOMAIN new : added[k] = IF k \in taken THEN FdOf(t) ELSE new[k]
    <3>1. CASE found = {}
      BY <2>3, <3>1
    <3>2. CASE found # {}
      <4>1. new \in Seq(Garbage \cup {FdOf(t)})
        BY <2>3
      <4>2. added = [new EXCEPT ![i] = FdOf(t)] /\ taken = {i}
        BY <3>2
      <4> HIDE DEF added, taken
      <4>3. QED
        BY <2>4, <3>2, <4>1, <4>2, SlotWritten
    <3>3. QED
      BY <3>1, <3>2
  <2>7. taken = {} <=> q = "dropUnmap"
    OBVIOUS
  <2>8. q \in {"insert", "dropUnmap"}
    OBVIOUS
  <2> HIDE DEF added, taken, q
  <2>9. /\ slots' \in Seq(Fd \union {Free} \union Garbage) /\ PolledOnce'
        /\ Polled' = IF taken = {} THEN Polled ELSE Polled \cup {FdOf(t)}
    BY <1>1, <2>2, <2>3, <2>5, <2>6, GrowthAdds, ZenonT(40)
  <2>10. UNCHANGED <<open, peer, mem, sockFd, id, nextId, sockMap, clients, jobs, conn, idx, rogue>>
    BY <1>3 DEF GrowAndRegister, kernel, objects, walk
  <2>11. QED
    BY <1>1, <2>2, <2>7, <2>8, <2>9, <2>10
<1>4. QED
  BY <1>2, <1>3

LEMMA RegisterKeeps ==
  ASSUME IInv, Garbage \cap Fd = {}, NEW t \in Thread, Register(t) \/ GrowAndRegister(t)
  PROVE  IInv'
BY RegisterPolls, PolledKeeps

\* The walk finds the client of a descriptor.
LEMMA LookupKeeps ==
  ASSUME IInv, Lookup
  PROVE  IInv' /\ pc'[P] = "receive"
<1> DEFINE f == slots[idx]
           c == sockMap[f]
<1>1. idx \in DOMAIN slots /\ f \in Fd /\ c # None /\ pc[P] = "walk"
  BY DEF Lookup, AtSlot, Mapped, Goto
<1>2. P \in Thread /\ P \notin Workers
  BY RegistryAssumption DEF Thread
<1>3. f \in Polled
  BY <1>1 DEF Polled, SlotOf
<1>4. c \in Conn /\ open[f] = c /\ sockFd[c] = f /\ mem[c] = "live"
  BY <1>1 DEF IInv, MapHasOwners, Types, TypeOK
<1>5. /\ pc' = [pc EXCEPT ![P] = "receive"] /\ conn' = [conn EXCEPT ![P] = c]
      /\ UNCHANGED <<open, peer, mem, sockFd, id, nextId, slots, sockMap, clients, jobs, idx, rogue>>
  BY <1>4 DEF Lookup, Goto, kernel, objects, tables, walk
<1> HIDE DEF c, f
<1>6. /\ \A u \in Thread : pc'[u] = IF u = P THEN "receive" ELSE pc[u]
      /\ \A u \in Thread : conn'[u] = IF u = P THEN c ELSE conn[u]
  BY <1>2, <1>5 DEF IInv, Types, TypeOK
<1>7. \A u \in Thread : u # P /\ pc[u] \in Holding => conn[u] # c
  <2> SUFFICES ASSUME NEW u \in Thread, u # P, pc[u] \in Holding, conn[u] = c  PROVE FALSE
    OBVIOUS
  <2>1. FdOf(u) = f /\ FdOf(u) \in Polled /\ sockMap[FdOf(u)] = c /\ u \in Workers
    BY <1>3, <1>4 DEF FdOf, Thread, c
  <2>2. pc[u] \in {"register", "dropUnmap"}
    BY <1>1, <2>1 DEF IInv, Roles, Stages, Stage, Holding, ReceivePlaces, DropPlaces, RoguePlaces
  <2>3. QED
    BY <2>1, <2>2 DEF IInv, Stages, Stage, Unregistered, DropPlaces
<1>8. Types'
  BY <1>2, <1>4, <1>5 DEF IInv, Types, TypeOK, Places, Holding, ReceivePlaces
<1>9. Roles'
  <2>1. idx > 0
    BY <1>1 DEF IInv, Types, TypeOK
  <2>2. QED
    BY <1>2, <1>5, <1>6, <2>1 DEF IInv, Roles, ReceivePlaces, RoguePlaces, Thread
<1>10. Held' /\ Apart'
  BY <1>1, <1>4, <1>5, <1>6, <1>7 DEF IInv, Held, Apart, FdOf
<1>11. Polled' = Polled /\ PolledOnce' /\ MapHasOwners'
  BY <1>5 DEF IInv, Polled, SlotOf, PolledOnce, MapHasOwners
<1>12. Stages'
  BY <1>2, <1>5, <1>6, <1>11 DEF IInv, Stages, Stage, Unregistered, FdOf, DropPlaces
<1>13. PolledHasClient' /\ Leftovers'
  BY <1>1, <1>2, <1>5, <1>6, <1>11 DEF IInv, PolledHasClient, Leftovers, FdOf, RoguePlaces
<1>14. QED
  BY <1>2, <1>6, <1>8, <1>9, <1>10, <1>11, <1>12, <1>13 DEF IInv

\* A fd without a client is a number that realloc () left, and is dropped from
\* the tables and closed in vain.
LEMMA RogueIsVain ==
  ASSUME IInv, Rogue \/ RoguePoll \/ RogueMap \/ RogueClose
  PROVE  /\ \E q \in RoguePlaces \cup {"walk"} :
               pc' = [pc EXCEPT ![P] = q] /\ (q # "walk" => rogue' \notin Fd)
         /\ pc[P] \in RoguePlaces \cup {"walk"}
         /\ rogue' \in Int /\ slots' \in Seq(Fd \union {Free} \union Garbage) /\ PolledOnce' /\ Polled' = Polled
         /\ UNCHANGED <<open, peer, mem, sockFd, id, nextId, sockMap, clients, jobs, conn>>
<1> USE DEF Goto, kernel, objects, tables, walk
<1>1. P \in Thread
  BY DEF Thread
<1>2. PICK q \in RoguePlaces \cup {"walk"} : pc' = [pc EXCEPT ![P] = q]
  BY DEF Rogue, RoguePoll, RogueMap, RogueClose, RoguePlaces
<1>3. \A u \in Thread : pc'[u] = IF u = P THEN q ELSE pc[u]
  BY <1>1, <1>2, OthersStay DEF IInv, Places, Quiet
<1>4. pc[P] \in RoguePlaces \cup {"walk"} /\ UNCHANGED <<peer, mem, sockFd, id, nextId, clients, jobs, conn>>
  BY DEF Rogue, RoguePoll, RogueMap, RogueClose, RoguePlaces
<1>5. rogue' \in Int /\ (q # "walk" => rogue' \notin Fd)
  <2>1. CASE Rogue
    <3>1. slots[idx] \notin Fd
      <4>1. slots[idx] \in Fd => slots[idx] \in Polled
        BY <2>1 DEF Rogue, AtSlot, Polled, SlotOf
      <4>2. QED
        BY <2>1, <4>1 DEF Rogue, Mapped, IInv, PolledHasClient
    <3>2. slots[idx] \in Int
      <4>1. slots \in Seq(Fd \union {Free} \union Garbage) /\ idx \in DOMAIN slots
        BY <2>1 DEF Rogue, AtSlot, IInv, Types, TypeOK
      <4>2. Fd \union {Free} \union Garbage \subseteq Int
        BY RegistryAssumption DEF Fd, Free
      <4>3. QED
        BY <4>1, <4>2
    <3>3. QED
      BY <2>1, <3>1, <3>2 DEF Rogue
  <2>2. CASE ~ Rogue
    BY <1>1, <1>2, <1>3, <2>2
       DEF RoguePoll, RogueMap, RogueClose, IInv, Leftovers, Types, TypeOK, RoguePlaces, Free
  <2>3. QED
    BY <2>1, <2>2
<1>6. slots' \in Seq(Fd \union {Free} \union Garbage) /\ PolledOnce' /\ Polled' = Polled
  <2>1. CASE RoguePoll
    <3>1. rogue \notin Polled
      BY <2>1 DEF RoguePoll, IInv, Leftovers, RoguePlaces, Polled
    <3>2. Polled \ {rogue} = Polled
      BY <3>1
    <3>3. Types /\ PolledOnce /\ Unpoll(rogue)
      BY <2>1 DEF RoguePoll, IInv
    <3>4. QED
      BY <3>2, <3>3, UnpollFrees
  <2>2. CASE ~ RoguePoll
    BY <2>2 DEF Rogue, RogueMap, RogueClose, IInv, Types, TypeOK, PolledOnce, Polled, SlotOf
  <2>3. QED
    BY <2>1, <2>2
<1>7. sockMap' = sockMap
  BY DEF Rogue, RoguePoll, RogueMap, RogueClose, Unmap, IInv, Leftovers, RoguePlaces, Types, TypeOK
<1>8. open' = open
  BY DEF Rogue, RoguePoll, RogueMap, RogueClose, Close, IInv, Leftovers, RoguePlaces, Types, TypeOK
<1>9. QED
  BY <1>2, <1>4, <1>5, <1>6, <1>7, <1>8

LEMMA RogueKeeps ==
  ASSUME IInv, Rogue \/ RoguePoll \/ RogueMap \/ RogueClose
  PROVE  IInv'
<1>1. P \in Thread /\ P \notin Workers
  BY RegistryAssumption DEF Thread
<1>2. PICK q \in RoguePlaces \cup {"walk"} :
        pc' = [pc EXCEPT ![P] = q] /\ (q # "walk" => rogue' \notin Fd)
  BY RogueIsVain
<1>3. \A u \in Thread : pc'[u] = IF u = P THEN q ELSE pc[u]
  BY <1>1, <1>2, OthersStay DEF IInv, Places, Quiet
<1>4. /\ pc[P] \in RoguePlaces \cup {"walk"}
      /\ rogue' \in Int /\ slots' \in Seq(Fd \union {Free} \union Garbage) /\ PolledOnce' /\ Polled' = Polled
      /\ UNCHANGED <<open, peer, mem, sockFd, id, nextId, sockMap, clients, jobs, conn>>
  BY RogueIsVain
<1>5. idx' \in Nat
  BY DEF Rogue, RoguePoll, RogueMap, RogueClose, Goto, walk, IInv, Types, TypeOK
<1>6. Types'
  BY <1>2, <1>4, <1>5 DEF IInv, Types, TypeOK, Places, Quiet
<1>7. Roles'
  BY <1>1, <1>3, <1>4 DEF IInv, Roles, ReceivePlaces, RoguePlaces, Thread
<1>8. Held' /\ Apart'
  BY <1>1, <1>3, <1>4 DEF IInv, Held, Apart, FdOf, Holding, ReceivePlaces, DropPlaces, RoguePlaces
<1>9. MapHasOwners'
  BY <1>4 DEF IInv, MapHasOwners
<1>10. Stages'
  BY <1>1, <1>3, <1>4 DEF IInv, Stages, Stage, Unregistered, FdOf, DropPlaces, RoguePlaces
<1>11. PolledHasClient' /\ Leftovers'
  BY <1>1, <1>2, <1>3, <1>4 DEF IInv, PolledHasClient, Leftovers, FdOf, RoguePlaces
<1>12. QED
  BY <1>4, <1>6, <1>7, <1>8, <1>9, <1>10, <1>11 DEF IInv

\* Taking a descriptor out of the array.
LEMMA UnpollKeeps ==
  ASSUME IInv, NEW t \in Thread, (t = P /\ LeavePoll) \/ DropPoll(t)
  PROVE  IInv'
<1> DEFINE q == IF pc[t] = "leaveUnpoll" THEN "leaveUnmap" ELSE "dropRemove"
<1>1. /\ pc[t] \in {"leaveUnpoll", "dropUnpoll"} /\ (pc[t] = "leaveUnpoll" => t = P)
      /\ pc' = [pc EXCEPT ![t] = q] /\ Unpoll(FdOf(t))
      /\ UNCHANGED <<open, peer, mem, sockFd, id, nextId, sockMap, clients, jobs, conn, idx, rogue>>
  BY DEF LeavePoll, DropPoll, Goto, FdOf, kernel, objects, walk
<1>2. FdOf(t) \in Fd /\ open[FdOf(t)] = conn[t]
  BY <1>1 DEF IInv, Held, Holding, DropPlaces, ReceivePlaces
<1>3. /\ q \in {"leaveUnmap", "dropRemove"}
      /\ \A u \in Thread : pc'[u] = IF u = t THEN q ELSE pc[u]
  BY <1>1, OthersStay DEF IInv, Places, Holding, DropPlaces, ReceivePlaces
<1>4. /\ slots' \in Seq(Fd \union {Free} \union Garbage) /\ PolledOnce' /\ Polled' = Polled \ {FdOf(t)}
  BY <1>1, UnpollFrees DEF IInv
<1>5. Types'
  BY <1>1, <1>3, <1>4 DEF IInv, Types, TypeOK, Places, Holding, DropPlaces, ReceivePlaces
<1>6. Roles'
  BY <1>1, <1>3 DEF IInv, Roles, ReceivePlaces, RoguePlaces, Thread
<1>7. Held' /\ Apart'
  BY <1>1, <1>3 DEF IInv, Held, Apart, FdOf, Holding, DropPlaces, ReceivePlaces
<1>8. MapHasOwners'
  BY <1>1 DEF IInv, MapHasOwners
<1>9. Stages'
  BY <1>1, <1>2, <1>3, <1>4 DEF IInv, Stages, Stage, Unregistered, FdOf, DropPlaces
<1>10. PolledHasClient' /\ Leftovers'
  BY <1>1, <1>2, <1>3, <1>4 DEF IInv, PolledHasClient, Leftovers, FdOf, RoguePlaces, Stages, Stage
<1>11. QED
  BY <1>4, <1>5, <1>6, <1>7, <1>8, <1>9, <1>10 DEF IInv

\* Taking a descriptor out of the map.
LEMMA UnmapKeeps ==
  ASSUME IInv, NEW t \in Thread, (t = P /\ LeaveMap) \/ DropMap(t)
  PROVE  IInv'
<1> DEFINE q == IF pc[t] = "leaveUnmap" THEN "leaveClose" ELSE "dropUnpoll"
<1>1. /\ pc[t] \in {"leaveUnmap", "dropUnmap"} /\ (pc[t] = "leaveUnmap" => t = P)
      /\ pc' = [pc EXCEPT ![t] = q] /\ Unmap(FdOf(t))
      /\ UNCHANGED <<open, peer, mem, sockFd, id, nextId, slots, clients, jobs, conn, idx, rogue>>
  BY DEF LeaveMap, DropMap, Goto, FdOf, kernel, objects, walk
<1>2. FdOf(t) \in Fd /\ open[FdOf(t)] = conn[t] /\ conn[t] # None
  BY <1>1 DEF IInv, Held, Holding, DropPlaces, ReceivePlaces, Conn, None
<1>3. /\ q \in {"leaveClose", "dropUnpoll"}
      /\ \A u \in Thread : pc'[u] = IF u = t THEN q ELSE pc[u]
  BY <1>1, OthersStay DEF IInv, Places, Holding, DropPlaces, ReceivePlaces
<1>4. \A g \in Fd : sockMap'[g] = IF g = FdOf(t) THEN None ELSE sockMap[g]
  BY <1>1 DEF Unmap
<1>5. Types'
  <2>1. sockMap' \in [Fd -> Conn \union {None}]
    BY <1>1 DEF Unmap, IInv, Types, TypeOK
  <2>2. QED
    BY <1>1, <1>3, <2>1 DEF IInv, Types, TypeOK, Places, Holding, DropPlaces, ReceivePlaces
<1>6. Roles'
  BY <1>1, <1>3 DEF IInv, Roles, ReceivePlaces, RoguePlaces, Thread
<1>7. Held' /\ Apart'
  BY <1>1, <1>3 DEF IInv, Held, Apart, FdOf, Holding, DropPlaces, ReceivePlaces
<1>8. MapHasOwners' /\ Polled' = Polled /\ PolledOnce'
  BY <1>1, <1>4 DEF IInv, MapHasOwners, Polled, SlotOf, PolledOnce
<1>9. ASSUME NEW u \in Thread  PROVE Stage(u)'
  <2>1. CASE u = t
    BY <1>1, <1>2, <1>3, <1>4, <1>8, <2>1 DEF IInv, Stages, Stage, Unregistered, FdOf, DropPlaces
  <2>2. CASE u # t
    <3>1. pc[u] \in Holding => FdOf(u) \in Fd /\ FdOf(u) # FdOf(t)
      BY <1>1, <1>2, <2>2 DEF IInv, Held, Apart, Holding, DropPlaces, ReceivePlaces
    <3>2. QED
      BY <1>1, <1>3, <1>4, <1>8, <2>2, <3>1
         DEF IInv, Stages, Stage, Unregistered, FdOf, Holding, DropPlaces, ReceivePlaces
  <2>3. QED
    BY <2>1, <2>2
<1>10. PolledHasClient' /\ Leftovers'
  <2>1. FdOf(t) \in Polled => t = P /\ pc'[P] = "dropUnpoll"
    BY <1>1, <1>3 DEF IInv, Stages, Stage, Unregistered, DropPlaces
  <2>2. pc[P] = "dropUnpoll" => pc'[P] = "dropUnpoll"
    BY <1>1, <1>3 DEF Thread
  <2>3. PolledHasClient'
    BY <1>1, <1>4, <1>8, <2>1, <2>2 DEF IInv, PolledHasClient, FdOf, Polled
  <2>4. Leftovers'
    BY <1>1, <1>3 DEF IInv, Leftovers, RoguePlaces, Thread
  <2>5. QED
    BY <2>3, <2>4
<1>11. QED
  BY <1>5, <1>6, <1>7, <1>8, <1>9, <1>10 DEF IInv, Stages

\* Closing and freeing a connection that no table knows.
LEMMA EndKeeps ==
  ASSUME IInv, NEW t \in Thread, (t = P /\ LeaveClose) \/ DropFree(t)
  PROVE  IInv'
<1> DEFINE q == IF pc[t] = "leaveClose" THEN "leaveRemove" ELSE "dropped"
           c == conn[t]
           f == FdOf(t)
           m == IF pc[t] = "leaveClose" THEN "closed" ELSE "freed"
<1>1. /\ pc[t] \in {"leaveClose", "dropFree"} /\ (pc[t] = "leaveClose" => t = P)
      /\ pc' = [pc EXCEPT ![t] = q] /\ mem' = [mem EXCEPT ![c] = m]
      /\ open' = Close(f) \/ open' = open
      /\ sockFd' = sockFd \/ sockFd' = [sockFd EXCEPT ![c] = Free]
      /\ UNCHANGED <<peer, id, nextId, slots, sockMap, clients, jobs, conn, idx, rogue>>
  BY DEF LeaveClose, DropFree, Goto, FdOf, tables, walk
<1>2. /\ c \in Conn /\ f \in Fd /\ open[f] = c /\ mem[c] = "live"
      /\ sockMap[f] = None /\ f \notin Polled
  BY <1>1 DEF IInv, Held, Holding, DropPlaces, ReceivePlaces, Stages, Stage
<1>3. q \in {"leaveRemove", "dropped"} /\ m \in {"closed", "freed"}
      /\ \A u \in Thread : pc'[u] = IF u = t THEN q ELSE pc[u]
  BY <1>1, OthersStay DEF IInv, Places, Quiet
<1> HIDE DEF q, m, c, f
<1>4. \A d \in Conn : d # c => mem'[d] = mem[d] /\ sockFd'[d] = sockFd[d]
  BY <1>1, <1>2 DEF IInv, Types, TypeOK
<1>5. \A g \in Fd : g # f => open'[g] = open[g]
  BY <1>1 DEF Close
<1>6. Types'
  <2>1. open' \in [Fd -> Conn \union {None}]
    <3>1. Close(f) \in [Fd -> Conn \union {None}]
      BY DEF Close, IInv, Types, TypeOK
    <3>2. QED
      BY <1>1, <3>1 DEF IInv, Types, TypeOK
  <2>2. sockFd' \in [Conn -> Fd \union {Free}]
    BY <1>1, <1>2 DEF IInv, Types, TypeOK
  <2>3. mem' \in [Conn -> {"unused", "live", "closed", "freed"}]
    BY <1>1, <1>2, <1>3 DEF IInv, Types, TypeOK
  <2>4. QED
    BY <1>1, <1>3, <2>1, <2>2, <2>3 DEF IInv, Types, TypeOK, Places, Quiet
<1>7. Roles'
  <2>1. ASSUME NEW u \in Thread,
               pc'[u] \in {"insert", "activate", "dropped", "leaveRemove", "leaveFree"}
        PROVE  conn'[u] \in Conn
    BY <1>1, <1>2, <1>3, <2>1 DEF IInv, Roles, c
  <2>2. ASSUME NEW u \in Workers
        PROVE  pc'[u] \notin {"poll", "walk", "leaveRemove", "leaveFree"} \cup ReceivePlaces \cup RoguePlaces
    <3>1. u \in Thread /\ u # P
      BY RegistryAssumption DEF Thread
    <3>2. u = t => q = "dropped"
      BY <1>1, <3>1 DEF q
    <3>3. QED
      BY <1>3, <3>1, <3>2 DEF IInv, Roles, ReceivePlaces, RoguePlaces
  <2>3. (pc'[P] \in ReceivePlaces => idx' > 0) /\ (pc'[P] \in {"accept", "count", "map", "register"} => idx' = 0)
    BY <1>1, <1>3 DEF IInv, Roles, ReceivePlaces, Thread
  <2>4. QED
    BY <2>1, <2>2, <2>3 DEF Roles
<1>8. \A u \in Thread : pc'[u] \in Holding => u # t /\ pc[u] \in Holding /\ conn[u] # c /\ FdOf(u) # f
  BY <1>1, <1>2, <1>3 DEF IInv, Held, Apart, Holding, DropPlaces, ReceivePlaces, c, f
<1>9. Held' /\ Apart'
  BY <1>1, <1>4, <1>5, <1>8 DEF IInv, Held, Apart, FdOf
<1>10. MapHasOwners'
  <2> SUFFICES ASSUME NEW g \in Fd, sockMap[g] # None
               PROVE  open'[g] = sockMap[g] /\ sockFd'[sockMap[g]] = g /\ mem'[sockMap[g]] = "live"
    BY <1>1 DEF MapHasOwners
  <2>1. open[g] = sockMap[g] /\ sockFd[sockMap[g]] = g /\ mem[sockMap[g]] = "live" /\ sockMap[g] \in Conn
    BY DEF IInv, MapHasOwners, Types, TypeOK
  <2>2. g # f /\ sockMap[g] # c
    BY <1>2, <2>1 DEF f, c, FdOf
  <2>3. QED
    BY <1>4, <1>5, <2>1, <2>2
<1>11. Polled' = Polled /\ PolledOnce'
  BY <1>1 DEF IInv, Polled, SlotOf, PolledOnce
<1>12. ASSUME NEW u \in Thread  PROVE Stage(u)'
  <2>1. CASE u = t
    BY <1>3, <2>1 DEF Stage, Unregistered, DropPlaces
  <2>2. CASE u # t
    <3>1. pc[u] \in Holding => sockFd'[conn'[u]] = FdOf(u)
      BY <1>1, <1>3, <1>4, <1>8, <2>2 DEF IInv, Held, FdOf
    <3>2. QED
      BY <1>1, <1>3, <1>11, <2>2, <3>1
         DEF IInv, Stages, Stage, Unregistered, FdOf, Holding, DropPlaces, ReceivePlaces
  <2>3. QED
    BY <2>1, <2>2
<1>13. PolledHasClient' /\ Leftovers'
  <2>1. pc[P] = "dropUnpoll" => t # P /\ sockFd'[conn'[P]] = FdOf(P)
    BY <1>1, <1>3, <1>4, <1>8 DEF IInv, Held, FdOf, Thread, Holding, DropPlaces
  <2>2. PolledHasClient'
    BY <1>1, <1>3, <1>11, <2>1 DEF IInv, PolledHasClient, FdOf, Thread
  <2>3. mem'[c] \in {"closed", "freed"}
    BY <1>1, <1>2, <1>3 DEF IInv, Types, TypeOK
  <2>4. Leftovers'
    BY <1>1, <1>3, <1>4, <2>3 DEF IInv, Leftovers, RoguePlaces, Thread, c, Roles
  <2>5. QED
    BY <2>2, <2>4
<1>14. QED
  BY <1>6, <1>7, <1>9, <1>10, <1>11, <1>12, <1>13 DEF IInv, Stages

\* client_delete () frees the memory of a connection that is closed.
LEMMA LeaveFreeKeeps ==
  ASSUME IInv, LeaveFree
  PROVE  IInv'
<1> DEFINE c == conn[P]
<1>1. P \in Thread /\ P \notin Workers
  BY RegistryAssumption DEF Thread
<1>2. c \in Conn /\ mem[c] # "live" /\ pc[P] = "leaveFree"
  BY <1>1 DEF LeaveFree, Goto, IInv, Roles, Leftovers
<1>3. /\ pc' = [pc EXCEPT ![P] = "walk"] /\ mem' = [mem EXCEPT ![c] = "freed"]
      /\ conn' = [conn EXCEPT ![P] = None] /\ idx' = idx + 1
      /\ UNCHANGED <<open, peer, sockFd, id, nextId, slots, sockMap, clients, jobs, rogue>>
  BY DEF LeaveFree, Goto, kernel, tables
<1>4. /\ \A u \in Thread : pc'[u] = IF u = P THEN "walk" ELSE pc[u]
      /\ \A u \in Thread : u # P => conn'[u] = conn[u]
  BY <1>1, <1>3 DEF IInv, Types, TypeOK
<1>5. \A d \in Conn : mem[d] = "live" => mem'[d] = "live"
  BY <1>2, <1>3 DEF IInv, Types, TypeOK
<1>6. Types'
  <2>1. conn' \in [Thread -> Conn \union {None}] /\ idx' \in Nat
    <3>1. conn \in [Thread -> Conn \union {None}] /\ None \in Conn \union {None}
      BY DEF IInv, Types, TypeOK
    <3>2. [conn EXCEPT ![P] = None] \in [Thread -> Conn \union {None}]
      BY <3>1
    <3>3. idx + 1 \in Nat
      BY DEF IInv, Types, TypeOK
    <3>4. QED
      BY <1>3, <3>2, <3>3
  <2>2. mem' \in [Conn -> {"unused", "live", "closed", "freed"}]
    BY <1>2, <1>3 DEF IInv, Types, TypeOK
  <2>3. QED
    BY <1>3, <2>1, <2>2 DEF IInv, Types, TypeOK, Places, Quiet
<1>7. Roles'
  BY <1>1, <1>3, <1>4 DEF IInv, Roles, ReceivePlaces, RoguePlaces, Thread
<1>8. Held' /\ Apart'
  BY <1>1, <1>3, <1>4, <1>5 DEF IInv, Held, Apart, FdOf, Holding, ReceivePlaces, DropPlaces
<1>9. Polled' = Polled /\ PolledOnce'
  BY <1>3 DEF IInv, Polled, SlotOf, PolledOnce
<1>10. MapHasOwners'
  BY <1>3, <1>5 DEF IInv, MapHasOwners, Types, TypeOK
<1>11. Stages'
  BY <1>1, <1>3, <1>4, <1>9 DEF IInv, Stages, Stage, Unregistered, FdOf, DropPlaces
<1>12. PolledHasClient' /\ Leftovers'
  BY <1>1, <1>2, <1>3, <1>4, <1>9 DEF IInv, PolledHasClient, Leftovers, FdOf, RoguePlaces
<1>13. QED
  BY <1>6, <1>7, <1>8, <1>9, <1>10, <1>11, <1>12 DEF IInv

LEMMA InitHolds ==
  ASSUME Init
  PROVE  IInv
<1> USE DEF Init
<1>1. \A t \in Thread : pc[t] \in {"poll", "idle"}
  OBVIOUS
<1>2. P \in Thread /\ (\A t \in Workers : t \in Thread /\ t # P) /\ Free \notin Fd
  BY RegistryAssumption DEF Thread, Free, Fd
<1>3. Types
  <2>1. [i \in 1 .. NSlots |-> Free] \in Seq(Fd \union {Free} \union Garbage)
    BY RegistryAssumption
  <2>2. jobs \in BOOLEAN
    OBVIOUS
  <2>3. QED
    BY <2>1, <2>2 DEF Types, TypeOK, Places, Quiet, None, Free
<1>4. Roles
  BY <1>1, <1>2 DEF Roles, ReceivePlaces, RoguePlaces
<1>5. Held /\ Apart /\ Stages /\ Leftovers
  BY <1>1, <1>2 DEF Held, Apart, Stages, Stage, Unregistered, Leftovers, Holding, ReceivePlaces, DropPlaces, RoguePlaces
<1>6. MapHasOwners
  BY DEF MapHasOwners
<1>7. Polled = {} /\ PolledOnce
  BY <1>2 DEF Polled, SlotOf, PolledOnce
<1>8. PolledHasClient
  BY <1>7 DEF PolledHasClient
<1>9. QED
  BY <1>3, <1>4, <1>5, <1>6, <1>7, <1>8 DEF IInv

LEMMA NextKeeps ==
  ASSUME IInv, Garbage \cap Fd = {}, [Next]_vars
  PROVE  IInv'
<1>1. P \in Thread
  BY DEF Thread
<1>2. CASE Walk
  BY <1>1, <1>2, QuietSteps, HeldSteps, LookupKeeps, RogueKeeps, UnpollKeeps, UnmapKeeps, EndKeeps, LeaveFreeKeeps
     DEF Walk, Leaving
<1>3. ASSUME NEW t \in Thread, Registration(t)  PROVE IInv'
  BY <1>3, QuietSteps, HeldSteps, AcceptKeeps, MapKeeps, RegisterKeeps DEF Registration
<1>4. ASSUME NEW t \in Thread, Dropping(t)  PROVE IInv'
  BY <1>4, QuietSteps, HeldSteps, UnpollKeeps, UnmapKeeps, EndKeeps DEF Dropping
<1>5. ASSUME NEW t \in Workers, StartAccept(t)  PROVE IInv'
  <2>1. t \in Thread
    BY DEF Thread
  <2>2. QED
    BY <1>5, <2>1, QuietSteps
<1>6. ASSUME NEW c \in Conn, PeerGoes(c)  PROVE IInv'
  BY <1>6, PeerGoesKeeps
<1>7. CASE UNCHANGED vars
  <2> USE <1>7 DEF vars, kernel, objects, tables, walk
  <2>1. Types' /\ Roles' /\ Held' /\ Apart'
    BY DEF IInv, Types, TypeOK, Roles, Held, Apart, FdOf
  <2>2. Polled' = Polled /\ PolledOnce' /\ MapHasOwners'
    BY DEF IInv, Polled, SlotOf, PolledOnce, MapHasOwners
  <2>3. Stages' /\ PolledHasClient' /\ Leftovers'
    BY <2>2 DEF IInv, Stages, Stage, Unregistered, FdOf, PolledHasClient, Leftovers
  <2>4. QED
    BY <2>1, <2>2, <2>3 DEF IInv
<1>8. QED
  BY <1>2, <1>3, <1>4, <1>5, <1>6, <1>7 DEF Next

\* Whatever the threads of the thpool do, at every step of registration,
\* removal and dropping: a connection that a thread is working on is live, has
\* its descriptor open and belongs to that thread alone; what the map knows is
\* open and live; and the array polls no descriptor twice.
THEOREM RegistryInvariant ==
  ASSUME Garbage \cap Fd = {}
  PROVE  Spec => []IInv
<1>1. Init => IInv
  BY InitHolds
<1>2. IInv /\ [Next]_vars => IInv'
  BY NextKeeps
<1>3. QED
  BY <1>1, <1>2, PTL DEF Spec

\* What is said of the map follows from the invariant.
LEMMA OwnedFollows == IInv => MapIsOwned
BY DEF IInv, MapIsOwned, MapHasOwners, PolledHasClient, Polled

\* The map from descriptors to clients (client_sock_fd_map) never sends a
\* descriptor to a client that does not own it, though the kernel gives the
\* number of a closed one to the next connection; and every polled descriptor
\* has a client when cerver_poll () walks the array.  Any number of workers may
\* register connections meanwhile.
THEOREM MapKnowsOwners ==
  ASSUME Garbage \cap Fd = {}
  PROVE  Spec => []MapIsOwned
<1>1. IInv => MapIsOwned
  BY OwnedFollows
<1>2. QED
  BY <1>1, RegistryInvariant, PTL

-----------------------------------------------------------------------------
(***************************************************************************)
(* One thread: no thpool, clients that leave without asking for it in a    *)
(* packet, and an array of descriptors that is large enough or whose new   *)
(* slots read as free                                                      *)
(***************************************************************************)
Sequential ==
    /\ Workers = {} /\ Asks = {}
    /\ Garbage \subseteq {Free} \/ (NSlots >= NFd /\ Garbage \cap Fd = {})

\* A connection that every table knows.
Settled(c) ==
    /\ sockFd[c] \in Fd /\ open[sockFd[c]] = c /\ sockMap[sockFd[c]] = c
    /\ sockFd[c] \in Polled /\ c \in clients

\* No connection is dropped, no descriptor is without client, and nothing freed
\* is used.
Calm == pc[P] \notin DropPlaces \cup RoguePlaces \cup {"dropped", "crashed"}

\* How far the tables are with the connection of the thread.
Mine ==
    /\ pc[P] \in {"poll", "walk", "accept"} \cup RoguePlaces => conn[P] = None
    /\ pc[P] = "insert" =>
         /\ mem[conn[P]] = "live" /\ FdOf(P) \in Fd /\ open[FdOf(P)] = conn[P]
         /\ sockMap[FdOf(P)] = conn[P] /\ FdOf(P) \in Polled
    /\ pc[P] = "activate" => mem[conn[P]] = "live"
    /\ pc[P] \in {"activate", "receive", "leaveUnpoll"} => Settled(conn[P])
    /\ pc[P] \in {"count", "map", "register", "insert", "leaveFree"} => conn[P] \notin clients

\* The others are where they should be.
Others == \A c \in Conn : mem[c] = "live" /\ c # conn[P] => Settled(c)

OpenIsLive == \A f \in Fd : open[f] # None => mem[open[f]] = "live" /\ sockFd[open[f]] = f

ListedIsLive == \A c \in clients : mem[c] = "live" \/ (c = conn[P] /\ pc[P] = "leaveRemove")

\* next_client_id gives every client an id of its own.
IdsDiffer ==
    /\ \A c, d \in Conn : mem[c] # "unused" /\ mem[d] # "unused" /\ id[c] = id[d] => c = d
    /\ \A c \in Conn : mem[c] # "unused" => id[c] < nextId \/ (pc[P] = "count" /\ c = conn[P])
    /\ pc[P] = "count" => id[conn[P]] = nextId

\* The array has not grown, or what it grows by is free.
Roomy == Garbage \subseteq {Free} \/ (Len(slots) = NSlots /\ \A i \in DOMAIN slots : slots[i] \in Fd \cup {Free})

SInv == Calm /\ Mine /\ Others /\ OpenIsLive /\ ListedIsLive /\ IdsDiffer /\ Roomy

-----------------------------------------------------------------------------
\* The array only gets free slots and descriptors while it does not grow.
LEMMA RoomStays ==
  ASSUME IInv, Roomy, NEW g, Unpoll(g) \/ UNCHANGED slots
  PROVE  Roomy'
<1>1. CASE UNCHANGED slots
  BY <1>1 DEF Roomy
<1>2. CASE Unpoll(g)
  <2>1. CASE SlotOf(g) = {}
    BY <1>2, <2>1 DEF Unpoll, Roomy
  <2>2. CASE SlotOf(g) # {}
    <3> DEFINE i == LowestOf(SlotOf(g))
    <3>1. i \in DOMAIN slots
      BY <2>2, SlotIndexes DEF IInv
    <3>2. slots' = [slots EXCEPT ![i] = Free]
      BY <1>2, <2>2 DEF Unpoll
    <3> HIDE DEF i
    <3>3. /\ DOMAIN slots' = DOMAIN slots /\ Len(slots') = Len(slots)
          /\ \A k \in DOMAIN slots : slots'[k] = IF k = i THEN Free ELSE slots[k]
      BY <3>1, <3>2 DEF IInv, Types, TypeOK
    <3>4. QED
      BY <3>3 DEF Roomy
  <2>3. QED
    BY <2>1, <2>2
<1>3. QED
  BY <1>1, <1>2

\* An array with a slot for every descriptor has one for the next.
LEMMA ThereIsRoom ==
  ASSUME IInv, Roomy, Sequential, NEW f \in Fd, f \notin Polled
  PROVE  Garbage \subseteq {Free} \/ SlotOf(Free) # {}
<1> SUFFICES ASSUME ~ (Garbage \subseteq {Free}), SlotOf(Free) = {}  PROVE FALSE
  OBVIOUS
<1>1. /\ NSlots >= NFd /\ NSlots \in Nat /\ NFd \in Nat
      /\ slots \in Seq(Fd \union {Free} \union Garbage) /\ Len(slots) = NSlots
      /\ \A i \in DOMAIN slots : slots[i] \in Fd \cup {Free}
  BY RegistryAssumption DEF Sequential, Roomy, IInv, Types, TypeOK
<1>2. \A i \in DOMAIN slots : slots[i] \in Fd \ {f}
  BY <1>1 DEF SlotOf, Polled
<1>3. slots \in [1 .. NSlots -> Fd \ {f}]
  BY <1>1, <1>2
<1>4. IsFiniteSet(1 .. NSlots) /\ Cardinality(1 .. NSlots) = NSlots
  BY <1>1, FS_Interval
<1>5. IsFiniteSet(Fd) /\ Cardinality(Fd) = NFd
  BY <1>1, FS_Interval DEF Fd
<1>6. IsFiniteSet(Fd \ {f}) /\ Cardinality(Fd \ {f}) = NFd - 1
  BY <1>5, FS_RemoveElement
<1>7. \E i, j \in 1 .. NSlots : i # j /\ slots[i] = slots[j]
  <2> DEFINE S == 1 .. NSlots
             T == Fd \ {f}
  <2>1. Cardinality(T) < Cardinality(S)
    BY <1>1, <1>4, <1>6
  <2>2. IsFiniteSet(S) /\ IsFiniteSet(T) /\ slots \in [S -> T]
    BY <1>3, <1>4, <1>6
  <2> HIDE DEF S, T
  <2>3. \E i, j \in S : i # j /\ slots[i] = slots[j]
    BY <2>1, <2>2, FS_PigeonHole
  <2>4. QED
    BY <2>3 DEF S
<1>8. QED
  BY <1>2, <1>3, <1>7 DEF IInv, PolledOnce

\* The thread gives up its connection, if it has one, and leaves it settled.
LEMMA WalkOn ==
  ASSUME IInv, SInv, NEW q \in {"poll", "walk", "accept"},
         pc' = [pc EXCEPT ![P] = q], conn'[P] = None,
         conn[P] = None \/ Settled(conn[P]), pc[P] \notin {"count", "leaveRemove"},
         UNCHANGED <<open, mem, sockFd, id, nextId, sockMap, clients>>, Polled' = Polled, Roomy'
  PROVE  SInv'
<1>1. pc'[P] = q /\ q \notin DropPlaces \cup RoguePlaces \cup {"dropped", "crashed", "insert", "activate", "receive",
        "leaveUnpoll", "count", "map", "register", "leaveFree", "leaveRemove"}
  BY OthersStay DEF IInv, Types, Places, Quiet, Thread, RoguePlaces, DropPlaces
<1>2. \A c : Settled(c)' <=> Settled(c)
  BY DEF Settled
<1>3. Calm' /\ Mine'
  BY <1>1 DEF Calm, Mine
<1>4. Others'
  <2> SUFFICES ASSUME NEW c \in Conn, mem[c] = "live"  PROVE Settled(c)
    BY <1>2 DEF Others
  <2>1. QED
    BY DEF SInv, Others, Conn, None
<1>5. OpenIsLive' /\ ListedIsLive'
  BY DEF SInv, OpenIsLive, ListedIsLive
<1>6. IdsDiffer'
  BY <1>1 DEF SInv, IdsDiffer
<1>7. QED
  BY <1>3, <1>4, <1>5, <1>6 DEF SInv

\* The steps of the walk that change no table.
LEMMA WalkSteps ==
  ASSUME IInv, SInv, Workers = {},
         \/ PollReturns \/ AcceptHere \/ AcceptInThpool \/ EndOfWalk \/ SkipSlot \/ Receive
         \/ NothingToAccept(P) \/ Activate(P)
  PROVE  SInv'
<1> USE DEF Goto, kernel, objects, tables, walk
<1>1. P \in Thread /\ Mine /\ Roomy
  BY DEF Thread, SInv
<1>2. CASE \/ PollReturns \/ AcceptHere \/ AcceptInThpool \/ EndOfWalk \/ SkipSlot \/ Receive
           \/ NothingToAccept(P) \/ Activate(P)
  <2>1. /\ \E q \in {"poll", "walk", "accept"} : pc' = [pc EXCEPT ![P] = q]
        /\ UNCHANGED <<open, mem, sockFd, id, nextId, sockMap, clients, slots>>
        /\ pc[P] \notin {"count", "leaveRemove"}
    BY <1>2 DEF PollReturns, AcceptHere, AcceptInThpool, EndOfWalk, SkipSlot, Receive,
                NothingToAccept, Activate, Accepted
  <2>2. conn' = conn \/ conn' = [conn EXCEPT ![P] = None]
    BY <1>2 DEF PollReturns, AcceptHere, AcceptInThpool, EndOfWalk, SkipSlot, Receive,
                NothingToAccept, Activate, Accepted
  <2>3. pc[P] \in {"receive", "activate"} => conn' = [conn EXCEPT ![P] = None]
    BY <1>2 DEF PollReturns, AcceptHere, AcceptInThpool, EndOfWalk, SkipSlot, Receive,
                NothingToAccept, Activate, Accepted
  <2>4. pc[P] \in {"poll", "walk", "accept", "receive", "activate"}
    BY <1>2 DEF PollReturns, AcceptHere, AcceptInThpool, EndOfWalk, SkipSlot, Receive,
                NothingToAccept, Activate, Accepted
  <2>5. conn'[P] = None /\ (conn[P] = None \/ Settled(conn[P]))
    BY <1>1, <2>2, <2>3, <2>4 DEF Mine, IInv, Types, TypeOK
  <2>6. Polled' = Polled /\ Roomy'
    BY <1>1, <2>1 DEF Polled, SlotOf, Roomy
  <2>7. QED
    BY <2>1, <2>5, <2>6, WalkOn
<1>3. QED
  BY <1>2

\* Every descriptor in the array has a client.
LEMMA NoRogues ==
  ASSUME IInv, SInv, Sequential
  PROVE  ~ (Rogue \/ RoguePoll \/ RogueMap \/ RogueClose \/ RogueIsRead)
<1>1. pc[P] \notin RoguePlaces
  BY DEF SInv, Calm
<1>2. ~ (RoguePoll \/ RogueMap \/ RogueClose \/ RogueIsRead)
  BY <1>1 DEF RoguePoll, RogueMap, RogueClose, RogueIsRead, Crash, Goto, RoguePlaces
<1>3. ASSUME Rogue  PROVE FALSE
  <2>1. idx \in DOMAIN slots /\ slots[idx] >= 0 /\ ~ Mapped(slots[idx]) /\ pc[P] = "walk"
    BY <1>3 DEF Rogue, AtSlot, Goto
  <2>2. slots[idx] \in Fd \cup {Free}
    <3>1. CASE Garbage \subseteq {Free}
      BY <2>1, <3>1 DEF IInv, Types, TypeOK
    <3>2. CASE ~ (Garbage \subseteq {Free})
      BY <2>1, <3>2 DEF SInv, Roomy
    <3>3. QED
      BY <3>1, <3>2
  <2>3. slots[idx] \in Polled
    BY <2>1, <2>2 DEF Polled, SlotOf, Free
  <2>4. QED
    BY <2>1, <2>2, <2>3 DEF Mapped, IInv, PolledHasClient, Free
<1>4. QED
  BY <1>2, <1>3

\* accept () gives the connection a new id, and no table knows it.
LEMMA AcceptSettles ==
  ASSUME IInv, SInv, Accept(P)
  PROVE  SInv'
<1> DEFINE c == LowestOf({d \in Conn : mem[d] = "unused"})
           f == LowestOf({g \in Fd : open[g] = None})
<1>1. c \in Conn /\ mem[c] = "unused" /\ f \in Fd /\ open[f] = None
  <2>1. {d \in Conn : mem[d] = "unused"} \subseteq Nat /\ {d \in Conn : mem[d] = "unused"} # {}
    BY DEF Accept, Conn
  <2>2. {g \in Fd : open[g] = None} \subseteq Nat /\ {g \in Fd : open[g] = None} # {}
    BY DEF Accept, Fd
  <2>3. c \in {d \in Conn : mem[d] = "unused"} /\ f \in {g \in Fd : open[g] = None}
    BY <2>1, <2>2, LowestIsMember
  <2>4. QED
    BY <2>3
<1>2. /\ open' = [open EXCEPT ![f] = c] /\ mem' = [mem EXCEPT ![c] = "live"]
      /\ sockFd' = [sockFd EXCEPT ![c] = f] /\ id' = [id EXCEPT ![c] = nextId]
      /\ conn' = [conn EXCEPT ![P] = c] /\ pc[P] = "accept" /\ pc' = [pc EXCEPT ![P] = "count"]
      /\ UNCHANGED <<nextId, slots, sockMap, clients>>
  BY DEF Accept, Goto, tables
<1> HIDE DEF c, f
<1>3. pc'[P] = "count" /\ conn'[P] = c /\ conn[P] = None /\ c # None /\ None \notin Conn
  <2>1. conn[P] = None
    BY <1>2 DEF SInv, Mine
  <2>2. QED
    BY <1>1, <1>2, <2>1 DEF IInv, Types, TypeOK, Thread, Conn, None
<1>4. /\ \A d \in Conn : d # c => mem'[d] = mem[d] /\ sockFd'[d] = sockFd[d] /\ id'[d] = id[d]
      /\ mem'[c] = "live" /\ sockFd'[c] = f /\ id'[c] = nextId
      /\ \A g \in Fd : open'[g] = IF g = f THEN c ELSE open[g]
  BY <1>1, <1>2 DEF IInv, Types, TypeOK
<1>5. c \notin clients /\ clients \subseteq Conn
  BY <1>1, <1>2 DEF SInv, ListedIsLive, IInv, Types, TypeOK
<1>6. Polled' = Polled
  BY <1>2 DEF Polled, SlotOf
<1>7. Calm' /\ Mine'
  BY <1>2, <1>3, <1>5 DEF Calm, Mine, DropPlaces, RoguePlaces
<1>8. Others'
  <2> SUFFICES ASSUME NEW d \in Conn, mem'[d] = "live", d # c  PROVE Settled(d)'
    BY <1>3 DEF Others
  <2>1. mem[d] = "live" /\ Settled(d)
    BY <1>3, <1>4 DEF SInv, Others
  <2>2. sockFd[d] # f
    BY <1>1, <1>3, <2>1 DEF Settled
  <2>3. QED
    BY <1>2, <1>4, <1>6, <2>1, <2>2 DEF Settled
<1>9. OpenIsLive'
  <2> SUFFICES ASSUME NEW g \in Fd, open'[g] # None
               PROVE  mem'[open'[g]] = "live" /\ sockFd'[open'[g]] = g
    BY DEF OpenIsLive
  <2>1. CASE g = f
    BY <1>4, <2>1
  <2>2. CASE g # f
    BY <1>1, <1>4, <2>2 DEF SInv, OpenIsLive, IInv, Types, TypeOK
  <2>3. QED
    BY <2>1, <2>2
<1>10. ListedIsLive'
  BY <1>2, <1>4, <1>5 DEF SInv, ListedIsLive
<1>11. IdsDiffer'
  <2>1. \A d \in Conn : d # c /\ mem'[d] # "unused" => id'[d] < nextId
    BY <1>2, <1>3, <1>4 DEF SInv, IdsDiffer
  <2>2. nextId \in Nat
    BY DEF IInv, Types, TypeOK
  <2>3. \A d, e \in Conn : mem'[d] # "unused" /\ mem'[e] # "unused" /\ id'[d] = id'[e] => d = e
    <3> SUFFICES ASSUME NEW d \in Conn, NEW e \in Conn,
                        mem'[d] # "unused", mem'[e] # "unused", id'[d] = id'[e], d # e
                 PROVE  FALSE
      OBVIOUS
    <3>1. CASE d = c \/ e = c
      BY <1>4, <2>1, <2>2, <3>1
    <3>2. CASE d # c /\ e # c
      BY <1>4, <3>2 DEF SInv, IdsDiffer
    <3>3. QED
      BY <3>1, <3>2
  <2>4. QED
    BY <1>2, <1>3, <1>4, <2>1, <2>3 DEF IdsDiffer
<1>12. Roomy'
  BY <1>2 DEF SInv, Roomy
<1>13. QED
  BY <1>7, <1>8, <1>9, <1>10, <1>11, <1>12 DEF SInv

\* The thread goes on with its connection, which alone may get other entries in
\* the tables; the memory and the descriptors stay.
LEMMA GoesOn ==
  ASSUME IInv, SInv, NEW q \in Places \ (DropPlaces \cup RoguePlaces),
         pc' = [pc EXCEPT ![P] = q], q \notin {"dropped", "crashed", "count", "leaveFree"},
         pc[P] \notin {"count", "leaveRemove"},
         conn[P] \in Conn, UNCHANGED <<open, mem, sockFd, id, nextId, conn>>,
         open[FdOf(P)] = conn[P], mem[conn[P]] = "live",
         \A f \in Fd \ {FdOf(P)} : sockMap'[f] = sockMap[f] /\ (f \in Polled' <=> f \in Polled),
         \A c \in Conn \ {conn[P]} : c \in clients' <=> c \in clients,
         clients' \subseteq Conn, Mine', Roomy'
  PROVE  SInv'
<1>1. pc'[P] = q
  BY DEF IInv, Types, Thread
<1>2. Calm'
  BY <1>1 DEF Calm, DropPlaces, RoguePlaces
<1>3. Others'
  <2> SUFFICES ASSUME NEW d \in Conn, mem[d] = "live", d # conn[P]  PROVE Settled(d)'
    BY DEF Others
  <2>1. Settled(d)
    BY DEF SInv, Others
  <2>2. sockFd[d] \in Fd \ {FdOf(P)}
    BY <2>1 DEF Settled
  <2>3. QED
    BY <2>1, <2>2 DEF Settled
<1>4. OpenIsLive'
  BY DEF SInv, OpenIsLive
<1>5. ListedIsLive'
  <2> SUFFICES ASSUME NEW c \in clients'  PROVE mem[c] = "live"
    BY DEF ListedIsLive
  <2>1. CASE c = conn[P]
    BY <2>1
  <2>2. CASE c # conn[P]
    BY <2>2 DEF SInv, ListedIsLive
  <2>3. QED
    BY <2>1, <2>2
<1>6. IdsDiffer'
  BY <1>1 DEF SInv, IdsDiffer
<1>7. QED
  BY <1>2, <1>3, <1>4, <1>5, <1>6 DEF SInv

\* next_client_id grows past the id of the client, so that the next one differs.
LEMMA CountSettles ==
  ASSUME IInv, SInv, CountClient(P)
  PROVE  SInv'
<1>1. /\ pc[P] = "count" /\ pc' = [pc EXCEPT ![P] = "map"] /\ nextId' = id[conn[P]] + 1
      /\ UNCHANGED <<open, mem, sockFd, id, slots, sockMap, clients, conn>>
  BY DEF CountClient, Goto, kernel, tables
<1>2. pc'[P] = "map" /\ Polled' = Polled
  BY <1>1 DEF IInv, Types, Thread, Polled, SlotOf
<1>3. id[conn[P]] = nextId /\ nextId \in Nat /\ id \in [Conn -> Nat]
  BY <1>1 DEF SInv, IdsDiffer, IInv, Types, TypeOK
<1>4. Calm' /\ Mine'
  BY <1>1, <1>2 DEF SInv, Calm, Mine, DropPlaces, RoguePlaces
<1>5. Others' /\ OpenIsLive' /\ Roomy'
  BY <1>1, <1>2 DEF SInv, Others, Settled, OpenIsLive, Roomy
<1>6. ListedIsLive'
  BY <1>1 DEF SInv, ListedIsLive
<1>7. IdsDiffer'
  BY <1>1, <1>2, <1>3 DEF SInv, IdsDiffer
<1>8. QED
  BY <1>4, <1>5, <1>6, <1>7 DEF SInv

\* The connection gets into the map, the array and the tree.
LEMMA RegistrationSettles ==
  ASSUME IInv, SInv, Sequential, Map(P) \/ Register(P) \/ GrowAndRegister(P) \/ Insert(P)
  PROVE  SInv'
<1>1. P \in Thread /\ Mine /\ Roomy
  BY DEF Thread, SInv
<1>2. CASE Map(P)
  <2>1. /\ pc[P] = "map" /\ pc' = [pc EXCEPT ![P] = "register"]
        /\ UNCHANGED <<open, mem, sockFd, id, nextId, slots, clients, conn>>
        /\ sockMap' = [sockMap EXCEPT ![FdOf(P)] = conn[P]]
    BY <1>1, <1>2 DEF Map, Goto, kernel, objects, FdOf, IInv, Stages, Stage
  <2>2. conn[P] \in Conn /\ FdOf(P) \in Fd /\ open[FdOf(P)] = conn[P] /\ mem[conn[P]] = "live"
    BY <1>1, <2>1 DEF IInv, Held, Holding
  <2>3. pc'[P] = "register" /\ Polled' = Polled
    BY <1>1, <2>1 DEF IInv, Types, Polled, SlotOf
  <2>4. Mine' /\ Roomy'
    BY <1>1, <2>1, <2>3 DEF Mine, Roomy, RoguePlaces
  <2>5. \A f \in Fd \ {FdOf(P)} : sockMap'[f] = sockMap[f]
    BY <2>1 DEF IInv, Types, TypeOK
  <2>6. clients' \subseteq Conn
    BY <2>1 DEF IInv, Types, TypeOK
  <2>7. QED
    BY <2>1, <2>2, <2>3, <2>4, <2>5, <2>6, GoesOn DEF Places, Holding, DropPlaces, RoguePlaces
<1>3. CASE Register(P) \/ GrowAndRegister(P)
  <2>1. /\ pc[P] = "register" /\ UNCHANGED <<open, mem, sockFd, id, nextId, sockMap, clients, conn>>
        /\ \E q \in {"insert", "dropUnmap"} :
             /\ pc' = [pc EXCEPT ![P] = q]
             /\ Polled' = IF q = "insert" THEN Polled \cup {FdOf(P)} ELSE Polled
    BY <1>1, <1>3, RegisterPolls DEF Sequential, Free, Fd
  <2>2. /\ conn[P] \in Conn /\ FdOf(P) \in Fd /\ open[FdOf(P)] = conn[P] /\ mem[conn[P]] = "live"
        /\ FdOf(P) \notin Polled /\ sockMap[FdOf(P)] = conn[P]
    BY <1>1, <2>1 DEF IInv, Held, Holding, Stages, Stage
  <2>3. pc' = [pc EXCEPT ![P] = "insert"]
    <3>1. CASE Register(P)
      BY <3>1 DEF Register, Goto
    <3>2. CASE GrowAndRegister(P)
      <4>1. Garbage \subseteq {Free}
        BY <1>1, <2>2, <3>2, ThereIsRoom DEF GrowAndRegister
      <4>2. PICK new \in [1 .. Len(slots) + 1 -> Garbage] :
              Goto(P, "register", IF {i \in DOMAIN new : new[i] = Free} = {} THEN "dropUnmap" ELSE "insert")
        BY <3>2 DEF GrowAndRegister
      <4>3. 1 \in DOMAIN new
        BY DEF IInv, Types, TypeOK
      <4>4. 1 \in {i \in DOMAIN new : new[i] = Free}
        BY <4>1, <4>3
      <4>5. QED
        BY <4>2, <4>4 DEF Goto
    <3>3. QED
      BY <1>3, <3>1, <3>2
  <2>4. pc'[P] = "insert"
    BY <1>1, <2>3 DEF IInv, Types
  <2>5. Polled' = Polled \cup {FdOf(P)}
    <3>1. PICK q \in {"insert", "dropUnmap"} :
            /\ pc' = [pc EXCEPT ![P] = q]
            /\ Polled' = IF q = "insert" THEN Polled \cup {FdOf(P)} ELSE Polled
      BY <2>1
    <3>2. q = "insert"
      BY <1>1, <2>4, <3>1 DEF IInv, Types
    <3>3. QED
      BY <3>1, <3>2
  <2>6. Mine'
    BY <1>1, <2>1, <2>2, <2>4, <2>5 DEF Mine, FdOf, RoguePlaces
  <2>7. Roomy'
    <3>1. CASE Garbage \subseteq {Free}
      BY <3>1 DEF Roomy
    <3>2. CASE ~ (Garbage \subseteq {Free})
      <4>1. Register(P) /\ SlotOf(Free) # {}
        BY <1>1, <1>3, <2>2, <3>2, ThereIsRoom DEF GrowAndRegister
      <4> DEFINE i == LowestOf(SlotOf(Free))
      <4>2. i \in DOMAIN slots
        BY <4>1, SlotIndexes DEF IInv
      <4>3. slots' = [slots EXCEPT ![i] = FdOf(P)]
        BY <4>1 DEF Register, FdOf
      <4> HIDE DEF i
      <4>4. /\ DOMAIN slots' = DOMAIN slots /\ Len(slots') = Len(slots)
            /\ \A k \in DOMAIN slots : slots'[k] = IF k = i THEN FdOf(P) ELSE slots[k]
        BY <4>2, <4>3 DEF IInv, Types, TypeOK
      <4>5. QED
        BY <1>1, <2>2, <4>4 DEF Roomy
    <3>3. QED
      BY <3>1, <3>2
  <2>8. clients' \subseteq Conn
    BY <2>1 DEF IInv, Types, TypeOK
  <2>9. QED
    BY <2>1, <2>2, <2>3, <2>5, <2>6, <2>7, <2>8, GoesOn DEF Places, Quiet, DropPlaces, RoguePlaces
<1>4. CASE Insert(P)
  <2>1. /\ pc[P] = "insert" /\ pc' = [pc EXCEPT ![P] = "activate"] /\ clients' = clients \union {conn[P]}
        /\ UNCHANGED <<open, mem, sockFd, id, nextId, slots, sockMap, conn>>
    BY <1>4 DEF Insert, Goto, kernel, objects
  <2>2. /\ FdOf(P) \in Fd /\ open[FdOf(P)] = conn[P] /\ mem[conn[P]] = "live"
        /\ sockMap[FdOf(P)] = conn[P] /\ FdOf(P) \in Polled
    BY <1>1, <2>1 DEF Mine
  <2>3. conn[P] \in Conn
    BY <1>1, <2>1 DEF IInv, Roles
  <2>4. pc'[P] = "activate" /\ Polled' = Polled
    BY <1>1, <2>1 DEF IInv, Types, Polled, SlotOf
  <2>5. Mine' /\ Roomy'
    BY <1>1, <2>1, <2>2, <2>4 DEF Mine, Settled, FdOf, Roomy, RoguePlaces
  <2>6. clients' \subseteq Conn
    BY <2>1, <2>3 DEF IInv, Types, TypeOK
  <2>7. QED
    BY <2>1, <2>2, <2>3, <2>4, <2>5, <2>6, GoesOn DEF Places, Quiet, DropPlaces, RoguePlaces
<1>5. QED
  BY <1>2, <1>3, <1>4

\* The walk finds a client that is settled.
LEMMA LookupSettles ==
  ASSUME IInv, SInv, Lookup
  PROVE  SInv'
<1>0. PICK c : c = sockMap[slots[idx]]
  OBVIOUS
<1>1. /\ pc[P] = "walk" /\ conn[P] = None /\ c # None /\ slots[idx] \in Fd
      /\ conn' = [conn EXCEPT ![P] = c]
      /\ UNCHANGED <<open, mem, sockFd, id, nextId, slots, sockMap, clients>>
  BY <1>0 DEF Lookup, Mapped, Goto, SInv, Mine, kernel, objects, tables
<1>2. c \in Conn /\ mem[c] = "live" /\ pc'[P] = "receive" /\ conn'[P] = c /\ c # conn[P]
  <2>1. c \in Conn /\ mem[c] = "live"
    BY <1>0, <1>1 DEF IInv, MapHasOwners, Types, TypeOK
  <2>2. conn'[P] = c
    BY <1>1 DEF IInv, Types, TypeOK, Thread
  <2>3. QED
    BY <1>1, <2>1, <2>2, LookupKeeps
<1>3. Polled' = Polled
  BY <1>1 DEF Polled, SlotOf
<1>4. \A d : Settled(d)' <=> Settled(d)
  BY <1>1, <1>3 DEF Settled
<1>5. \A d \in Conn : mem[d] = "live" => Settled(d)
  BY <1>1 DEF SInv, Others, Conn, None
<1>6. Calm' /\ Others' /\ Mine'
  <2>1. Settled(c)
    BY <1>2, <1>5
  <2>2. Calm' /\ Mine'
    BY <1>1, <1>2, <1>3, <2>1 DEF Calm, Mine, Settled, DropPlaces, RoguePlaces
  <2>3. ASSUME NEW d \in Conn, mem[d] = "live"  PROVE Settled(d)'
    BY <1>4, <1>5, <2>3
  <2>4. QED
    BY <1>1, <2>2, <2>3 DEF Others
<1>7. OpenIsLive' /\ ListedIsLive' /\ Roomy'
  BY <1>1, <1>2 DEF SInv, OpenIsLive, ListedIsLive, Roomy
<1>8. IdsDiffer'
  BY <1>1, <1>2 DEF SInv, IdsDiffer
<1>9. QED
  BY <1>6, <1>7, <1>8 DEF SInv

\* A client that leaves is taken out of the array and the map.
LEMMA LeavingSettles ==
  ASSUME IInv, SInv, Leave \/ LeavePoll \/ LeaveMap
  PROVE  SInv'
<1>1. P \in Thread /\ Mine /\ Roomy
  BY DEF Thread, SInv
<1>2. /\ pc[P] \in {"receive", "leaveUnpoll", "leaveUnmap"}
      /\ UNCHANGED <<open, mem, sockFd, id, nextId, clients, conn>>
  BY DEF Leave, LeavePoll, LeaveMap, Goto, kernel, objects, tables
<1>3. conn[P] \in Conn /\ FdOf(P) \in Fd /\ open[FdOf(P)] = conn[P] /\ mem[conn[P]] = "live"
  BY <1>1, <1>2 DEF IInv, Held, Holding, ReceivePlaces
<1>4. clients' \subseteq Conn
  BY <1>2 DEF IInv, Types, TypeOK
<1>5. CASE Leave
  <2>1. pc' = [pc EXCEPT ![P] = "leaveUnpoll"] /\ UNCHANGED <<slots, sockMap>>
    BY <1>5 DEF Leave, Goto, tables
  <2>2. pc'[P] = "leaveUnpoll" /\ Polled' = Polled
    BY <1>1, <2>1 DEF IInv, Types, Polled, SlotOf
  <2>3. pc[P] = "receive" /\ Settled(conn[P])
    BY <1>1, <1>5 DEF Mine, Leave, Goto
  <2>4. Mine' /\ Roomy'
    BY <1>1, <1>2, <2>1, <2>2, <2>3 DEF Mine, Settled, Roomy, RoguePlaces
  <2>5. QED
    BY <1>2, <1>3, <1>4, <2>1, <2>2, <2>4, GoesOn DEF Places, Holding, ReceivePlaces, DropPlaces, RoguePlaces
<1>6. CASE LeavePoll
  <2>1. pc' = [pc EXCEPT ![P] = "leaveUnmap"] /\ UNCHANGED sockMap /\ Unpoll(FdOf(P))
    BY <1>6 DEF LeavePoll, Goto, FdOf
  <2>2. pc'[P] = "leaveUnmap" /\ Polled' = Polled \ {FdOf(P)}
    BY <1>1, <2>1, UnpollFrees DEF IInv, Types
  <2>3. Roomy'
    BY <1>1, <2>1, RoomStays
  <2>4. Mine'
    BY <1>1, <1>2, <2>1, <2>2 DEF Mine, RoguePlaces
  <2>5. QED
    BY <1>2, <1>3, <1>4, <2>1, <2>2, <2>3, <2>4, GoesOn DEF Places, Holding, ReceivePlaces, DropPlaces, RoguePlaces
<1>7. CASE LeaveMap
  <2>1. pc' = [pc EXCEPT ![P] = "leaveClose"] /\ UNCHANGED slots /\ Unmap(FdOf(P))
    BY <1>7 DEF LeaveMap, Goto, FdOf
  <2>2. pc'[P] = "leaveClose" /\ Polled' = Polled
    BY <1>1, <2>1 DEF IInv, Types, Polled, SlotOf
  <2>3. Mine' /\ Roomy'
    BY <1>1, <1>2, <2>1, <2>2 DEF Mine, Roomy, RoguePlaces
  <2>4. \A f \in Fd \ {FdOf(P)} : sockMap'[f] = sockMap[f]
    BY <2>1 DEF Unmap
  <2>5. QED
    BY <1>2, <1>3, <1>4, <2>1, <2>2, <2>3, <2>4, GoesOn DEF Places, Holding, ReceivePlaces, DropPlaces, RoguePlaces
<1>8. QED
  BY <1>5, <1>6, <1>7

\* connection_drop () closes what no table knows but the tree.
LEMMA CloseSettles ==
  ASSUME IInv, SInv, LeaveClose
  PROVE  SInv'
<1>0. PICK c, f : c = conn[P] /\ f = FdOf(P)
  OBVIOUS
<1>1. /\ pc[P] = "leaveClose" /\ pc' = [pc EXCEPT ![P] = "leaveRemove"] /\ open' = Close(f)
      /\ sockFd' = [sockFd EXCEPT ![c] = Free] /\ mem' = [mem EXCEPT ![c] = "closed"]
      /\ UNCHANGED <<id, nextId, slots, sockMap, clients, conn>>
  BY <1>0 DEF LeaveClose, Goto, FdOf, tables
<1>2. c \in Conn /\ f \in Fd /\ open[f] = c /\ sockFd[c] = f /\ pc'[P] = "leaveRemove" /\ Polled' = Polled
  BY <1>0, <1>1 DEF IInv, Types, Held, Holding, ReceivePlaces, FdOf, Thread, Polled, SlotOf
<1>3. /\ \A d \in Conn : d # c => mem'[d] = mem[d] /\ sockFd'[d] = sockFd[d]
      /\ mem'[c] = "closed" /\ mem[c] = "live"
  BY <1>0, <1>1, <1>2 DEF IInv, Types, TypeOK, Held, Holding, ReceivePlaces, Thread
<1>4. \A g \in Fd : open'[g] = IF g = f THEN None ELSE open[g]
  BY <1>1 DEF Close
<1>5. Calm' /\ Mine'
  BY <1>2 DEF Calm, Mine, DropPlaces, RoguePlaces
<1>6. Others'
  <2> SUFFICES ASSUME NEW d \in Conn, mem'[d] = "live", d # c  PROVE Settled(d)'
    BY <1>0, <1>1 DEF Others
  <2>1. Settled(d)
    BY <1>0, <1>3 DEF SInv, Others
  <2>2. sockFd[d] # f
    BY <1>2, <2>1 DEF Settled
  <2>3. QED
    BY <1>1, <1>2, <1>3, <1>4, <2>1, <2>2 DEF Settled
<1>7. OpenIsLive'
  <2> SUFFICES ASSUME NEW g \in Fd, open'[g] # None
               PROVE  mem'[open'[g]] = "live" /\ sockFd'[open'[g]] = g
    BY DEF OpenIsLive
  <2>1. g # f /\ open'[g] = open[g]
    BY <1>4
  <2>2. open[g] \in Conn /\ mem[open[g]] = "live" /\ sockFd[open[g]] = g
    BY <2>1 DEF SInv, OpenIsLive, IInv, Types, TypeOK
  <2>3. open[g] # c
    BY <1>2, <2>1, <2>2
  <2>4. QED
    BY <1>3, <2>1, <2>2, <2>3
<1>8. ListedIsLive'
  <2> SUFFICES ASSUME NEW d \in clients, d # c  PROVE mem'[d] = "live"
    BY <1>0, <1>1, <1>2 DEF ListedIsLive
  <2>1. d \in Conn /\ mem[d] = "live"
    BY <1>0 DEF SInv, ListedIsLive, IInv, Types, TypeOK
  <2>2. QED
    BY <1>3, <2>1
<1>9. IdsDiffer' /\ Roomy'
  <2>1. \A d \in Conn : mem'[d] = "unused" <=> mem[d] = "unused"
    BY <1>3
  <2>2. Roomy'
    BY <1>1 DEF SInv, Roomy
  <2>3. IdsDiffer'
    BY <1>1, <1>2, <2>1 DEF SInv, IdsDiffer
  <2>4. QED
    BY <2>2, <2>3
<1>10. QED
  BY <1>5, <1>6, <1>7, <1>8, <1>9 DEF SInv

\* avl_remove_node () takes out the client that left and no other.
LEMMA RemoveSettles ==
  ASSUME IInv, SInv, LeaveClients
  PROVE  SInv'
<1>1. /\ pc[P] = "leaveRemove" /\ pc' = [pc EXCEPT ![P] = "leaveFree"] /\ TakeOut(conn[P])
      /\ UNCHANGED <<open, mem, sockFd, id, nextId, slots, sockMap, conn>>
  BY DEF LeaveClients, Goto, kernel, objects
<1>2. conn[P] \in Conn /\ mem[conn[P]] # "live" /\ mem[conn[P]] # "unused" /\ pc'[P] = "leaveFree" /\ Polled' = Polled
  BY <1>1 DEF IInv, Types, Roles, Leftovers, Thread, Polled, SlotOf
<1>3. \A d \in clients : d \in Conn /\ (id[d] = id[conn[P]] => d = conn[P])
  <2> SUFFICES ASSUME NEW d \in clients  PROVE d \in Conn /\ (id[d] = id[conn[P]] => d = conn[P])
    OBVIOUS
  <2>1. d \in Conn /\ mem[d] # "unused"
    BY <1>2 DEF SInv, ListedIsLive, IInv, Types, TypeOK
  <2>2. QED
    BY <1>2, <2>1 DEF SInv, IdsDiffer
<1>4. clients' = clients \ {conn[P]}
  <2>1. CASE {d \in clients : id[d] = id[conn[P]]} = {}
    <3>1. clients' = clients /\ conn[P] \notin clients
      BY <1>1, <2>1 DEF TakeOut
    <3>2. QED
      BY <3>1
  <2>2. CASE {d \in clients : id[d] = id[conn[P]]} # {}
    <3>1. PICK d \in {e \in clients : id[e] = id[conn[P]]} : clients' = clients \ {d}
      BY <1>1, <2>2 DEF TakeOut
    <3>2. QED
      BY <1>3, <3>1
  <2>3. QED
    BY <2>1, <2>2
<1>5. Calm' /\ Mine'
  BY <1>1, <1>2, <1>4 DEF Calm, Mine, DropPlaces, RoguePlaces
<1>6. Others'
  BY <1>1, <1>2, <1>4 DEF SInv, Others, Settled
<1>7. OpenIsLive' /\ Roomy'
  BY <1>1 DEF SInv, OpenIsLive, Roomy
<1>8. ListedIsLive'
  BY <1>1, <1>4 DEF SInv, ListedIsLive
<1>9. IdsDiffer'
  BY <1>1, <1>2 DEF SInv, IdsDiffer
<1>10. QED
  BY <1>5, <1>6, <1>7, <1>8, <1>9 DEF SInv

LEMMA FreeSettles ==
  ASSUME IInv, SInv, LeaveFree
  PROVE  SInv'
<1>0. PICK c : c = conn[P]
  OBVIOUS
<1>1. /\ pc[P] = "leaveFree" /\ pc' = [pc EXCEPT ![P] = "walk"] /\ mem' = [mem EXCEPT ![c] = "freed"]
      /\ conn' = [conn EXCEPT ![P] = None]
      /\ UNCHANGED <<open, sockFd, id, nextId, slots, sockMap, clients>>
  BY <1>0 DEF LeaveFree, Goto, kernel, tables
<1>2. /\ c \in Conn /\ mem[c] \in {"closed", "freed"} /\ c \notin clients
      /\ pc'[P] = "walk" /\ conn'[P] = None /\ Polled' = Polled
  BY <1>0, <1>1 DEF IInv, Types, TypeOK, Roles, Leftovers, Thread, Polled, SlotOf, SInv, Mine
<1>3. \A d \in Conn : d # c => mem'[d] = mem[d]
  BY <1>1, <1>2 DEF IInv, Types, TypeOK
<1>4. mem'[c] = "freed"
  BY <1>1, <1>2 DEF IInv, Types, TypeOK
<1>5. Calm' /\ Mine'
  BY <1>2 DEF Calm, Mine, DropPlaces, RoguePlaces
<1>6. Others'
  <2> SUFFICES ASSUME NEW d \in Conn, mem'[d] = "live"  PROVE Settled(d)'
    BY DEF Others
  <2>1. Settled(d)
    BY <1>0, <1>3, <1>4 DEF SInv, Others
  <2>2. QED
    BY <1>1, <1>2, <2>1 DEF Settled
<1>7. OpenIsLive'
  <2> SUFFICES ASSUME NEW g \in Fd, open[g] # None
               PROVE  mem'[open[g]] = "live" /\ sockFd[open[g]] = g
    BY <1>1 DEF OpenIsLive
  <2>1. open[g] \in Conn /\ mem[open[g]] = "live" /\ sockFd[open[g]] = g
    BY DEF SInv, OpenIsLive, IInv, Types, TypeOK
  <2>2. QED
    BY <1>2, <1>3, <2>1
<1>8. ListedIsLive'
  <2> SUFFICES ASSUME NEW d \in clients  PROVE mem'[d] = "live"
    BY <1>1 DEF ListedIsLive
  <2>1. d \in Conn /\ d # c /\ mem[d] = "live"
    BY <1>0, <1>1, <1>2 DEF SInv, ListedIsLive, IInv, Types, TypeOK
  <2>2. QED
    BY <1>3, <2>1
<1>9. IdsDiffer'
  <2>1. \A d \in Conn : mem'[d] = "unused" <=> mem[d] = "unused"
    BY <1>2, <1>3, <1>4
  <2>2. QED
    BY <1>1, <1>2, <2>1 DEF SInv, IdsDiffer
<1>10. Roomy'
  BY <1>1 DEF SInv, Roomy
<1>11. QED
  BY <1>5, <1>6, <1>7, <1>8, <1>9, <1>10 DEF SInv

LEMMA SInitHolds ==
  ASSUME Init, Sequential
  PROVE  SInv
<1> USE DEF Init
<1>1. pc[P] = "poll" /\ conn[P] = None
  BY DEF Thread
<1>2. Calm /\ Mine
  BY <1>1 DEF Calm, Mine, DropPlaces, RoguePlaces
<1>3. Others /\ OpenIsLive /\ ListedIsLive
  BY DEF Others, OpenIsLive, ListedIsLive
<1>4. IdsDiffer
  BY <1>1 DEF IdsDiffer
<1>5. Roomy
  BY RegistryAssumption DEF Roomy
<1>6. QED
  BY <1>2, <1>3, <1>4, <1>5 DEF SInv

LEMMA SNextKeeps ==
  ASSUME IInv, SInv, Sequential, [Next]_vars
  PROVE  SInv'
<1>1. Thread = {P} /\ Calm /\ Mine /\ Roomy
  BY DEF Thread, Sequential, SInv
<1>2. CASE Walk
  <2>1. ~ Disconnect /\ ~ ClosedIsRead
    BY DEF Disconnect, ClosedIsRead, Sequential
  <2>2. QED
    BY <1>2, <2>1, NoRogues, WalkSteps, LookupSettles, LeavingSettles, CloseSettles, RemoveSettles, FreeSettles
       DEF Walk, Leaving, Sequential
<1>3. ASSUME Registration(P)  PROVE SInv'
  <2>1. ~ UseFreed(P)
    BY <1>1 DEF UseFreed, Crash, Goto, Mine
  <2>2. QED
    BY <1>3, <2>1, WalkSteps, AcceptSettles, CountSettles, RegistrationSettles
       DEF Registration, Sequential
<1>4. ~ Dropping(P)
  BY <1>1 DEF Dropping, DropMap, DropPoll, DropClients, DropFree, Dropped, Crash, Goto, Calm, DropPlaces
<1>5. ASSUME NEW c \in Conn, PeerGoes(c)  PROVE SInv'
  <2> USE <1>5 DEF PeerGoes, objects, tables, walk
  <2>1. Polled' = Polled
    BY DEF Polled, SlotOf
  <2>2. Calm' /\ Mine' /\ Others'
    BY <2>1 DEF SInv, Calm, Mine, Others, Settled, FdOf
  <2>3. OpenIsLive' /\ ListedIsLive' /\ IdsDiffer' /\ Roomy'
    BY DEF SInv, OpenIsLive, ListedIsLive, IdsDiffer, Roomy
  <2>4. QED
    BY <2>2, <2>3 DEF SInv
<1>6. CASE UNCHANGED vars
  <2> USE <1>6 DEF vars, kernel, objects, tables, walk
  <2>1. Polled' = Polled
    BY DEF Polled, SlotOf
  <2>2. Calm' /\ Mine' /\ Others'
    BY <2>1 DEF SInv, Calm, Mine, Others, Settled, FdOf
  <2>3. OpenIsLive' /\ ListedIsLive' /\ IdsDiffer' /\ Roomy'
    BY DEF SInv, OpenIsLive, ListedIsLive, IdsDiffer, Roomy
  <2>4. QED
    BY <2>2, <2>3 DEF SInv
<1>7. QED
  BY <1>1, <1>2, <1>3, <1>4, <1>5, <1>6 DEF Next, Sequential

THEOREM SequentialInvariant ==
  ASSUME Sequential
  PROVE  Spec => [](IInv /\ SInv)
<1>0. Garbage \cap Fd = {}
  BY DEF Sequential, Free, Fd
<1>1. Init => IInv /\ SInv
  BY InitHolds, SInitHolds
<1>2. IInv /\ SInv /\ [Next]_vars => (IInv /\ SInv)'
  BY <1>0, NextKeeps, SNextKeeps
<1>3. QED
  BY <1>1, <1>2, PTL DEF Spec

\* When one thread registers, handles and removes, and no client asks in a
\* packet for the end of its connection, no step of cerver_poll () uses a
\* connection or a client that has been freed, whatever the number of
\* connections and descriptors and whenever the peers go.
THEOREM SequentialNeverCrashes ==
  ASSUME Sequential
  PROVE  Spec => []NeverCrashes
<1>1. SInv => NeverCrashes
  BY DEF SInv, Calm, NeverCrashes, Crashed, Thread, Sequential
<1>2. QED
  BY <1>1, SequentialInvariant, PTL

\* Between two walks the kernel, the poll array, the map and the tree agree on
\* who is connected, and what has been freed has no open descriptor at any time.
THEOREM SequentialAgree ==
  ASSUME Sequential
  PROVE  Spec => []Agree
<1>1. ASSUME IInv, SInv  PROVE Agree
  <2> USE <1>1
  <2>1. \A f \in Fd : open[f] # None => mem[open[f]] = "live"
    BY DEF SInv, OpenIsLive
  <2>2. ASSUME pc[P] = "poll", NEW c \in Conn, mem[c] = "live"  PROVE Settled(c)
    BY <2>2 DEF SInv, Mine, Others, Conn, None
  <2>3. ASSUME pc[P] = "poll", NEW f \in Fd
        PROVE  sockMap[f] = open[f] /\ Cardinality(SlotOf(f)) = IF open[f] = None THEN 0 ELSE 1
    <3>1. open[f] # None => sockMap[f] = open[f] /\ f \in Polled
      <4>1. ASSUME open[f] # None  PROVE Settled(open[f]) /\ sockFd[open[f]] = f
        BY <2>2, <2>3, <4>1 DEF SInv, OpenIsLive, IInv, Types, TypeOK
      <4>2. QED
        BY <4>1 DEF Settled
    <3>2. open[f] = None => sockMap[f] = None /\ f \notin Polled
      BY <2>3 DEF IInv, MapHasOwners, PolledHasClient
    <3>3. f \in Polled => Cardinality(SlotOf(f)) = 1
      <4>1. ASSUME NEW i \in SlotOf(f)  PROVE SlotOf(f) = {i}
        BY DEF SlotOf, IInv, PolledOnce
      <4>2. \A i : Cardinality({i}) = 1
        BY FS_Singleton
      <4>3. QED
        BY <4>1, <4>2 DEF Polled
    <3>4. f \notin Polled => Cardinality(SlotOf(f)) = 0
      BY FS_EmptySet DEF Polled
    <3>5. QED
      BY <3>1, <3>2, <3>3, <3>4
  <2>4. ASSUME pc[P] = "poll"  PROVE clients = {c \in Conn : mem[c] = "live"}
    <3>1. ASSUME NEW c \in clients  PROVE c \in Conn /\ mem[c] = "live"
      BY <2>4 DEF SInv, ListedIsLive, IInv, Types, TypeOK
    <3>2. ASSUME NEW c \in Conn, mem[c] = "live"  PROVE c \in clients
      BY <2>2, <2>4, <3>2 DEF Settled
    <3>3. QED
      BY <3>1, <3>2
  <2>5. ASSUME pc[P] = "poll"  PROVE clients = {open[f] : f \in Fd} \ {None}
    <3>1. ASSUME NEW c \in clients  PROVE c # None /\ \E f \in Fd : c = open[f]
      <4>1. c \in Conn /\ Settled(c)
        BY <2>2, <2>4, <2>5
      <4>2. QED
        BY <4>1 DEF Settled, Conn, None
    <3>2. ASSUME NEW f \in Fd, open[f] # None  PROVE open[f] \in clients
      BY <2>1, <2>4, <2>5, <3>2 DEF IInv, Types, TypeOK
    <3>3. QED
      BY <3>1, <3>2
  <2>6. QED
    BY <2>1, <2>3, <2>4, <2>5 DEF Agree
<1>2. QED
  BY <1>1, SequentialInvariant, PTL
=============================================================================
