--------------------------- MODULE OnHold_proofs ---------------------------
(***************************************************************************)
(* The connections on hold, for any number of connections, descriptors,    *)
(* places, tries and bad packets: the types of the state, that the map     *)
(* leads to live connections only, that a connection is on hold or in the  *)
(* main structures, and that one that has used up its limits is dropped.   *)
(* Then, over the sum of the tables, the registry of the clients, the      *)
(* lobbies and the admins, for any number of each.                         *)
(***************************************************************************)
EXTENDS Tables, WellFoundedInduction, FiniteSetTheorems, SequenceTheorems, TLAPS

RP == INSTANCE Registry_proofs WITH
          NSlots <- NPlaces,
          open <- opened, peer <- other, mem <- memory, sockFd <- fdOf, idx <- at, rogue <- stray

(***************************************************************************)
(* The inductive invariant                                                 *)
(***************************************************************************)
Unmapped(c) == \A f \in Fd : holdMap[f] # c

\* The connections that the two threads are busy with.
Busy ==
    /\ pcP \in {"poll", "holdPoll", "holdMap", "welcome", "reject", "crashed"}
    /\ pcH \in {"poll", "walk", "rogueClose", "receive", "handle", "handled", "unholdPoll",
                "unholdMap", "register", "announce", "dropPoll", "dropMap", "dropEnd", "crashed"}
    /\ idx # 0
    /\ pcP \in {"holdPoll", "holdMap", "welcome", "reject"} => connP \in Conn
    /\ pcH \notin {"poll", "walk", "rogueClose", "crashed"} => connH \in Conn

\* A live connection has a descriptor; one that was never made is nowhere.
Made ==
    /\ \A c \in Conn : mem[c] = "live" => sockFd[c] \in Fd
    /\ \A c \in Conn : mem[c] = "unused" => c \notin passed /\ c # connH
    /\ main \subseteq passed

\* The map leads from the descriptor of a connection, which is not in the
\* main structures.
Mapped ==
    \A f \in Fd : holdMap[f] # None =>
        /\ mem[holdMap[f]] = "live" /\ sockFd[holdMap[f]] = f /\ holdMap[f] \notin main

\* The connection that the poll thread is putting on hold is its own.
PollOwns ==
    pcP \in {"holdPoll", "holdMap", "reject"} =>
        mem[connP] = "live" /\ Unmapped(connP) /\ connP \notin passed /\ connP # connH

\* What the on hold thread may conclude about its connection: one that is not
\* in the array is not in the map either.
Held(c) == holdMap[sockFd[c]] = c /\ SlotOf(sockFd[c]) # {}
HoldKnows ==
    /\ pcH = "receive" => mem[connH] = "live" /\ Held(connH)
    /\ pcH \in {"handle", "handled", "unholdPoll", "dropPoll"} =>
         Unmapped(connH) \/ (mem[connH] = "live" /\ Held(connH))
    /\ pcH \in {"register", "announce", "dropEnd"} => Unmapped(connH)
    /\ pcH \in {"unholdPoll", "unholdMap", "register"} => connH \in passed

IInv == TypeOK /\ Busy /\ Made /\ Mapped /\ PollOwns /\ HoldKnows /\ LimitsHold

-----------------------------------------------------------------------------
(* Lemmas about the helpers                                                *)

\* The first index or number of a set that is not empty is one of it.
LEMMA LowestIsMember ==
  ASSUME NEW T, T \subseteq Nat, T # {}
  PROVE  LowestOf(T) \in T
<1> DEFINE Less == {ss \in Nat \X Nat : ss[1] < ss[2]}
<1>0. IsWellFoundedOn(Less, Nat)
  <2>1. OpToRel(<, Nat) = Less
    BY DEF OpToRel
  <2>2. QED
    BY <2>1, NatLessThanWellFounded
<1>1. PICK x \in T : \A y \in T : ~ (<<y, x>> \in Less)
  <2> HIDE DEF Less
  <2>1. QED
    BY <1>0, WFMin
<1>2. ASSUME NEW y \in T  PROVE x <= y
  <2>1. x \in Nat /\ y \in Nat
    OBVIOUS
  <2>2. CASE y < x
    <3>1. <<y, x>> \in Nat \X Nat /\ <<y, x>>[1] = y /\ <<y, x>>[2] = x
      BY <2>1
    <3>2. <<y, x>> \in Less
      BY <2>2, <3>1
    <3>3. QED
      BY <1>1, <3>2
  <2>3. QED
    BY <2>1, <2>2
<1>3. QED
  BY <1>2 DEF LowestOf

\* on_hold_get_free_idx () finds an index of the array.
LEMMA FreeIsUsed ==
  ASSUME TypeOK, NEW f \in Fd \cup {Free}, SlotOf(f) # {}
  PROVE  LowestOf(SlotOf(f)) \in SlotOf(f) /\ SlotOf(f) \subseteq 1 .. NHold
<1>1. SlotOf(f) \subseteq 1 .. NHold
  BY DEF SlotOf, TypeOK
<1>2. SlotOf(f) \subseteq Nat
  BY <1>1, OnHoldAssumption
<1>3. QED
  BY <1>1, <1>2, LowestIsMember

\* Taking a descriptor out of the array leaves an array of descriptors.
LEMMA FreeSlotType ==
  ASSUME TypeOK, NEW f
  PROVE  FreeSlot(f) \in [1 .. NHold -> Fd \cup {Free}]
BY DEF FreeSlot, TypeOK

\* accept () gives a free descriptor to a new connection.
LEMMA AcceptPicks ==
  ASSUME TypeOK, Accept
  PROVE  \E c \in Conn, f \in Fd :
            /\ mem[c] = "unused" /\ open[f] = None /\ open' = [open EXCEPT ![f] = c]
            /\ mem' = [mem EXCEPT ![c] = "live"]
            /\ sockFd' = [sockFd EXCEPT ![c] = f]
            /\ connP' = c
<1> DEFINE unused == {d \in Conn : mem[d] = "unused"}
           free == {g \in Fd : open[g] = None}
<1>1. unused \subseteq Nat /\ free \subseteq Nat
  BY OnHoldAssumption DEF Conn, Fd
<1>2. unused # {} /\ free # {}
  BY DEF Accept
<1>3. LowestOf(unused) \in unused /\ LowestOf(free) \in free
  <2> HIDE DEF unused, free
  <2>1. QED
    BY <1>1, <1>2, LowestIsMember
<1>4. QED
  BY <1>3 DEF Accept

\* Closing a descriptor keeps the types of the kernel.
LEMMA CloseType ==
  ASSUME TypeOK, NEW f, Close(f)
  PROVE  open' \in [Fd -> Conn \cup {None}] /\ peer' \in [Conn -> {"there", "gone"}]
<1>1. \A g \in Fd : (IF g = f THEN None ELSE open[g]) \in Conn \cup {None}
  BY DEF TypeOK
<1>2. \A c \in Conn : (IF c = open[f] THEN "gone" ELSE peer[c]) \in {"there", "gone"}
  BY DEF TypeOK
<1>3. QED
  BY <1>1, <1>2 DEF Close

\* connection_drop () keeps the types of the connections.
LEMMA DropType ==
  ASSUME TypeOK, NEW c \in Conn, Drop(c)
  PROVE  /\ open' \in [Fd -> Conn \cup {None}] /\ peer' \in [Conn -> {"there", "gone"}]
         /\ mem' \in [Conn -> {"unused", "live", "freed"}]
         /\ sockFd' \in [Conn -> Fd \cup {Free}]
         /\ tries' \in [Conn -> 0 .. MaxTries] /\ bad' \in [Conn -> 0 .. MaxBad]
<1>1. open' \in [Fd -> Conn \cup {None}] /\ peer' \in [Conn -> {"there", "gone"}]
  BY CloseType DEF Drop
<1>2. mem' \in [Conn -> {"unused", "live", "freed"}] /\ sockFd' \in [Conn -> Fd \cup {Free}]
  BY DEF Drop, TypeOK
<1>3. tries' \in [Conn -> 0 .. MaxTries] /\ bad' \in [Conn -> 0 .. MaxBad]
  <2>1. MaxTries \in 0 .. MaxTries /\ 0 \in 0 .. MaxBad
    BY OnHoldAssumption
  <2>2. QED
    BY <2>1 DEF Drop, TypeOK
<1>4. QED
  BY <1>1, <1>2, <1>3

\* The walk goes on at a later index.
LEMMA NextSlotType ==
  ASSUME TypeOK, NEW from, NextSlot(from)
  PROVE  /\ connH' = None /\ rogue' \in Fd \cup {Free}
         /\ idx' \in Nat /\ connP' \in Conn \cup {None}
BY DEF NextSlot, StepH, threadP, TypeOK

-----------------------------------------------------------------------------
(* Every action keeps the invariant                                        *)

\* The poll thread accepts: the connection is new, so that nothing leads to it.
LEMMA AcceptKeeps ==
  ASSUME IInv, Accept
  PROVE  IInv'
<1> USE DEF IInv
<1>0. PICK c \in Conn, f \in Fd :
        /\ mem[c] = "unused" /\ open[f] = None /\ open' = [open EXCEPT ![f] = c]
        /\ mem' = [mem EXCEPT ![c] = "live"]
        /\ sockFd' = [sockFd EXCEPT ![c] = f]
        /\ connP' = c
  BY AcceptPicks
<1>a. /\ pcP = "poll" /\ pcP' = "holdPoll"
      /\ UNCHANGED <<pcH, connH, idx, rogue, peer, tries, bad, passed, holdFds, holdMap, main>>
  BY DEF Accept, StepP, threadH
<1>1. TypeOK'
  BY <1>0, <1>a DEF TypeOK
<1>2. Busy'
  BY <1>0, <1>a DEF Busy
<1>3. Made'
  BY <1>0, <1>a DEF TypeOK, Made
<1>4. Mapped'
  BY <1>0, <1>a DEF TypeOK, Mapped, None, Conn
<1>5. PollOwns'
  BY <1>0, <1>a DEF TypeOK, Made, Mapped, PollOwns, Unmapped, None, Conn
<1>6. HoldKnows'
  <2>1. connH \in Conn => mem'[connH] = mem[connH] \/ mem[connH] = "unused"
    BY <1>0 DEF TypeOK
  <2>2. pcH \notin {"poll", "walk", "rogueClose", "crashed"} =>
            connH # c /\ sockFd'[connH] = sockFd[connH] /\ mem'[connH] = mem[connH]
    BY <1>0 DEF TypeOK, Busy, Made
  <2>3. QED
    BY <1>a, <2>2 DEF HoldKnows, Held, SlotOf, Unmapped
<1>7. LimitsHold'
  BY <1>0, <1>a DEF TypeOK, LimitsHold
<1>8. QED
  BY <1>1, <1>2, <1>3, <1>4, <1>5, <1>6, <1>7

\* on_hold_poll_register_connection () writes into a free slot, and no slot of
\* another connection is lost.
LEMMA HoldPollKeeps ==
  ASSUME IInv, HoldPoll
  PROVE  IInv'
<1> USE DEF IInv
<1>1. TypeOK'
  BY DEF HoldPoll, StepP, conns, threadH, TypeOK, Busy
<1>2. Busy'
  BY DEF HoldPoll, StepP, threadH, Busy
<1>3. Made'
  BY DEF HoldPoll, StepP, conns, threadH, Made
<1>4. Mapped'
  BY DEF HoldPoll, conns, Mapped
<1>5. PollOwns'
  BY DEF HoldPoll, StepP, conns, threadH, PollOwns, Unmapped
<1>6. HoldKnows'
  <2>1. UNCHANGED <<pcH, connH, mem, sockFd, holdMap, passed>>
    BY DEF HoldPoll, StepP, threadH, conns
  <2>2. \A f \in Fd : SlotOf(f) # {} => SlotOf(f)' # {}
    <3>1. CASE SlotOf(Free) = {}
      BY <3>1 DEF HoldPoll, SlotOf
    <3>2. CASE SlotOf(Free) # {}
      <4>1. LowestOf(SlotOf(Free)) \in SlotOf(Free)
        BY <3>2, FreeIsUsed
      <4>2. holdFds' = [holdFds EXCEPT ![LowestOf(SlotOf(Free))] = sockFd[connP]]
        BY <3>2 DEF HoldPoll
      <4>3. ASSUME NEW f \in Fd, NEW i \in SlotOf(f)  PROVE i \in SlotOf(f)'
        <5>1. f # Free
          BY DEF Free, Fd
        <5>2. i # LowestOf(SlotOf(Free)) /\ i \in 1 .. NHold /\ holdFds[i] = f
          BY <4>1, <5>1 DEF SlotOf, TypeOK
        <5>3. holdFds'[i] = f /\ i \in DOMAIN holdFds'
          BY <4>2, <5>2 DEF TypeOK
        <5>4. QED
          BY <5>3 DEF SlotOf
      <4>4. QED
        BY <4>3
    <3>3. QED
      BY <3>1, <3>2
  <2>3. mem[connH] = "live" /\ connH \in Conn => sockFd[connH] \in Fd
    BY DEF Made
  <2>4. QED
    BY <2>1, <2>2, <2>3 DEF HoldKnows, Held, Unmapped, Busy
<1>7. LimitsHold'
  BY DEF HoldPoll, StepP, conns, threadH, LimitsHold
<1>8. QED
  BY <1>1, <1>2, <1>3, <1>4, <1>5, <1>6, <1>7

\* on_hold_connection () maps a descriptor that is not in the map.
LEMMA HoldMapKeeps ==
  ASSUME IInv, HoldMap
  PROVE  IInv'
<1> USE DEF IInv
<1>a. connP \in Conn /\ mem[connP] = "live" /\ sockFd[connP] \in Fd
  BY DEF HoldMap, Busy, PollOwns, Made
<1>b. UNCHANGED <<pcH, connH, mem, sockFd, holdFds, main, passed, connP>>
  BY DEF HoldMap, StepP, threadH, conns
<1>c. \/ UNCHANGED holdMap
      \/ holdMap[sockFd[connP]] = None /\ holdMap' = [holdMap EXCEPT ![sockFd[connP]] = connP]
  BY DEF HoldMap
<1>1. TypeOK'
  BY OnHoldAssumption DEF HoldMap, StepP, conns, threadH, TypeOK, Busy, Conn, Fd, Free, None
<1>2. Busy'
  BY DEF HoldMap, StepP, threadH, Busy
<1>3. Made'
  BY DEF HoldMap, StepP, conns, threadH, Made
<1>4. Mapped'
  <2>1. connP \notin main
    BY DEF HoldMap, PollOwns, Made
  <2>2. QED
    BY <1>a, <1>b, <1>c, <2>1 DEF Mapped, TypeOK
<1>5. PollOwns'
  BY DEF HoldMap, StepP, conns, threadH, PollOwns, Unmapped
<1>6. HoldKnows'
  <2>1. connH # connP
    BY DEF HoldMap, PollOwns
  <2>2. Unmapped(connH) => Unmapped(connH)'
    BY <1>a, <1>b, <1>c, <2>1 DEF Unmapped, TypeOK
  <2>3. connH \in Conn /\ mem[connH] = "live" /\ Held(connH) => Held(connH)'
    <3>1. connH \in Conn => connH # None
      BY DEF Conn, None
    <3>2. connH \in Conn /\ mem[connH] = "live" => sockFd[connH] \in Fd
      BY DEF Made
    <3>3. QED
      BY <1>a, <1>b, <1>c, <3>1, <3>2 DEF Held, SlotOf, TypeOK
  <2>4. QED
    BY <1>b, <2>2, <2>3 DEF HoldKnows, Busy
<1>7. LimitsHold'
  BY DEF HoldMap, StepP, conns, threadH, LimitsHold
<1>8. QED
  BY <1>1, <1>2, <1>3, <1>4, <1>5, <1>6, <1>7

\* The new connection is told; nothing moves.
LEMMA WelcomeKeeps ==
  ASSUME IInv, Welcome
  PROVE  IInv'
<1> USE DEF IInv
<1>1. TypeOK'
  BY DEF Welcome, StepP, conns, threadH, TypeOK
<1>2. Busy'
  BY DEF Welcome, StepP, threadH, Busy
<1>3. Made'
  BY DEF Welcome, StepP, conns, threadH, Made
<1>4. Mapped'
  BY DEF Welcome, conns, Mapped
<1>5. PollOwns'
  BY DEF Welcome, StepP, PollOwns
<1>6. HoldKnows'
  BY DEF Welcome, StepP, conns, threadH, HoldKnows, Unmapped, Held, SlotOf
<1>7. LimitsHold'
  BY DEF Welcome, StepP, conns, threadH, LimitsHold
<1>8. QED
  BY <1>1, <1>2, <1>3, <1>4, <1>5, <1>6, <1>7

\* A connection that could not be put on hold is dropped by the poll thread.
LEMMA RejectKeeps ==
  ASSUME IInv, Reject
  PROVE  IInv'
<1> USE DEF IInv
<1>1. TypeOK'
  <2>1. connP \in Conn
    BY DEF Reject, StepP, Busy
  <2>2. QED
    BY <2>1, DropType DEF Reject, StepP, threadH, TypeOK
<1>2. Busy'
  BY DEF Reject, StepP, threadH, Busy
<1>3. Made'
  BY DEF Reject, StepP, Drop, threadH, TypeOK, Made
<1>4. Mapped'
  BY DEF Reject, StepP, Drop, Mapped, PollOwns, Unmapped
<1>5. PollOwns'
  BY DEF Reject, StepP, PollOwns
<1>6. HoldKnows'
  BY DEF Reject, StepP, Drop, threadH, PollOwns, HoldKnows, Unmapped, Held, SlotOf
<1>7. LimitsHold'
  BY DEF Reject, StepP, Drop, threadH, TypeOK, LimitsHold
<1>8. QED
  BY <1>1, <1>2, <1>3, <1>4, <1>5, <1>6, <1>7

\* A client of the main structures is dropped: it is not on hold.
LEMMA LeaveMainKeeps ==
  ASSUME IInv, NEW c \in Conn, LeaveMain(c)
  PROVE  IInv'
<1> USE DEF IInv
<1>1. TypeOK'
  BY DropType DEF LeaveMain, StepP, threadH, TypeOK
<1>2. Busy'
  BY DEF LeaveMain, StepP, threadH, Busy
<1>3. Made'
  BY DEF LeaveMain, StepP, Drop, threadH, TypeOK, Made
<1>4. Mapped'
  BY DEF LeaveMain, Drop, Mapped
<1>5. PollOwns'
  BY DEF LeaveMain, StepP, PollOwns
<1>6. HoldKnows'
  BY DEF LeaveMain, StepP, Drop, threadH, Made, Mapped, HoldKnows, Unmapped, Held, SlotOf, Conn,
     None
<1>7. LimitsHold'
  BY DEF LeaveMain, StepP, Drop, threadH, TypeOK, LimitsHold
<1>8. QED
  BY <1>1, <1>2, <1>3, <1>4, <1>5, <1>6, <1>7

\* The poll thread stops at freed memory.
LEMMA UseFreedMainKeeps ==
  ASSUME IInv, UseFreedMain
  PROVE  IInv'
<1> USE DEF IInv
<1>1. TypeOK'
  BY DEF UseFreedMain, StepP, conns, threadH, TypeOK
<1>2. Busy'
  BY DEF UseFreedMain, StepP, threadH, Busy
<1>3. Made'
  BY DEF UseFreedMain, StepP, conns, threadH, Made
<1>4. Mapped'
  BY DEF UseFreedMain, conns, Mapped
<1>5. PollOwns'
  BY DEF UseFreedMain, StepP, PollOwns
<1>6. HoldKnows'
  BY DEF UseFreedMain, StepP, conns, threadH, HoldKnows, Unmapped, Held, SlotOf
<1>7. LimitsHold'
  BY DEF UseFreedMain, StepP, conns, threadH, LimitsHold
<1>8. QED
  BY <1>1, <1>2, <1>3, <1>4, <1>5, <1>6, <1>7

\* The walk of the on hold thread begins.
LEMMA HPollReturnsKeeps ==
  ASSUME IInv, HPollReturns
  PROVE  IInv'
<1> USE DEF IInv
<1>1. TypeOK'
  BY DEF HPollReturns, StepH, conns, threadP, TypeOK
<1>2. Busy'
  BY DEF HPollReturns, StepH, threadP, Busy
<1>3. Made'
  BY DEF HPollReturns, conns, Made
<1>4. Mapped'
  BY DEF HPollReturns, conns, Mapped
<1>5. PollOwns'
  BY DEF HPollReturns, StepH, conns, threadP, PollOwns, Unmapped
<1>6. HoldKnows'
  BY DEF HPollReturns, StepH, HoldKnows
<1>7. LimitsHold'
  BY DEF HPollReturns, StepH, conns, LimitsHold
<1>8. QED
  BY <1>1, <1>2, <1>3, <1>4, <1>5, <1>6, <1>7

\* The walk ends.
LEMMA EndOfWalkKeeps ==
  ASSUME IInv, EndOfWalk
  PROVE  IInv'
<1> USE DEF IInv
<1>1. TypeOK'
  BY DEF EndOfWalk, StepH, conns, threadP, TypeOK
<1>2. Busy'
  BY DEF EndOfWalk, StepH, threadP, Busy
<1>3. Made'
  BY DEF EndOfWalk, conns, Made
<1>4. Mapped'
  BY DEF EndOfWalk, conns, Mapped
<1>5. PollOwns'
  BY DEF EndOfWalk, StepH, conns, threadP, PollOwns, Unmapped
<1>6. HoldKnows'
  BY DEF EndOfWalk, StepH, HoldKnows
<1>7. LimitsHold'
  BY DEF EndOfWalk, StepH, conns, LimitsHold
<1>8. QED
  BY <1>1, <1>2, <1>3, <1>4, <1>5, <1>6, <1>7

\* A free slot is passed over.
LEMMA SkipSlotKeeps ==
  ASSUME IInv, SkipSlot
  PROVE  IInv'
<1> USE DEF IInv
<1>1. TypeOK'
  BY DEF SkipSlot, StepH, NextSlot, conns, threadP, TypeOK
<1>2. Busy'
  BY DEF SkipSlot, StepH, NextSlot, threadP, TypeOK, Busy
<1>3. Made'
  BY DEF SkipSlot, NextSlot, conns, Made, Conn, None
<1>4. Mapped'
  BY DEF SkipSlot, conns, Mapped
<1>5. PollOwns'
  BY DEF SkipSlot, StepH, NextSlot, conns, threadP, Busy, PollOwns, Unmapped, Conn, None
<1>6. HoldKnows'
  BY DEF SkipSlot, StepH, NextSlot, HoldKnows
<1>7. LimitsHold'
  BY DEF SkipSlot, conns, LimitsHold
<1>8. QED
  BY <1>1, <1>2, <1>3, <1>4, <1>5, <1>6, <1>7

\* The connection that the map has for a polled descriptor lives and is polled.
LEMMA LookupKeeps ==
  ASSUME IInv, Lookup
  PROVE  IInv'
<1> USE DEF IInv
<1>a. holdFds[idx] \in Fd
  BY OnHoldAssumption DEF Lookup, TypeOK, Busy
<1>b. connH' \in Conn /\ connH' = holdMap[holdFds[idx]] /\ holdMap[holdFds[idx]] # None
  BY <1>a DEF Lookup, TypeOK
<1>c. UNCHANGED <<open, peer, mem, sockFd, tries, bad, passed, holdFds, holdMap, main, idx, rogue, pcP, connP>>
  BY DEF Lookup, StepH, conns, threadP
<1>1. TypeOK'
  BY <1>b, <1>c DEF TypeOK
<1>2. Busy'
  BY DEF Lookup, StepH, threadP, TypeOK, Busy
<1>3. Made'
  <2>1. mem[connH'] = "live"
    BY <1>a, <1>b DEF Mapped
  <2>2. QED
    BY <1>b, <1>c, <2>1 DEF Made
<1>4. Mapped'
  BY DEF Lookup, conns, Mapped
<1>5. PollOwns'
  BY DEF Lookup, StepH, conns, threadP, TypeOK, Busy, PollOwns, Unmapped, Conn
<1>6. HoldKnows'
  BY DEF Lookup, StepH, conns, threadP, TypeOK, Busy, Made, Mapped, HoldKnows, Unmapped, Held,
     SlotOf
<1>7. LimitsHold'
  BY DEF Lookup, conns, LimitsHold
<1>8. QED
  BY <1>1, <1>2, <1>3, <1>4, <1>5, <1>6, <1>7

\* A descriptor without connection is taken out of the array.
LEMMA RogueKeeps ==
  ASSUME IInv, Rogue
  PROVE  IInv'
<1> USE DEF IInv
<1>1. TypeOK'
  <2>1. holdFds[idx] \in Fd
    BY OnHoldAssumption DEF Rogue, TypeOK, Busy
  <2>2. QED
    BY <2>1, FreeSlotType DEF Rogue, StepH, conns, threadP, TypeOK
<1>2. Busy'
  BY DEF Rogue, StepH, threadP, Busy
<1>3. Made'
  BY DEF Rogue, conns, Made
<1>4. Mapped'
  BY DEF Rogue, conns, Mapped
<1>5. PollOwns'
  BY DEF Rogue, StepH, conns, threadP, PollOwns, Unmapped
<1>6. HoldKnows'
  BY DEF Rogue, StepH, HoldKnows
<1>7. LimitsHold'
  BY DEF Rogue, conns, LimitsHold
<1>8. QED
  BY <1>1, <1>2, <1>3, <1>4, <1>5, <1>6, <1>7

\* It is closed, whoever has it.
LEMMA RogueCloseKeeps ==
  ASSUME IInv, RogueClose
  PROVE  IInv'
<1> USE DEF IInv
<1>1. TypeOK'
  BY DEF RogueClose, StepH, NextSlot, Close, conns, threadP, TypeOK
<1>2. Busy'
  BY DEF RogueClose, StepH, NextSlot, threadP, TypeOK, Busy
<1>3. Made'
  BY DEF RogueClose, NextSlot, conns, Made, Conn, None
<1>4. Mapped'
  BY DEF RogueClose, conns, Mapped
<1>5. PollOwns'
  BY DEF RogueClose, StepH, NextSlot, conns, threadP, Busy, PollOwns, Unmapped, Conn, None
<1>6. HoldKnows'
  BY DEF RogueClose, StepH, NextSlot, HoldKnows
<1>7. LimitsHold'
  BY DEF RogueClose, conns, LimitsHold
<1>8. QED
  BY <1>1, <1>2, <1>3, <1>4, <1>5, <1>6, <1>7

\* Nothing has come for a connection.
LEMMA NothingReceivedKeeps ==
  ASSUME IInv, NothingReceived
  PROVE  IInv'
<1> USE DEF IInv
<1>1. TypeOK'
  BY NextSlotType DEF NothingReceived, NextSlot, StepH, conns, threadP, TypeOK
<1>2. Busy'
  BY DEF NothingReceived, StepH, NextSlot, threadP, TypeOK, Busy
<1>3. Made'
  BY DEF NothingReceived, NextSlot, conns, Made, Conn, None
<1>4. Mapped'
  BY DEF NothingReceived, conns, Mapped
<1>5. PollOwns'
  BY DEF NothingReceived, StepH, NextSlot, conns, threadP, Busy, PollOwns, Unmapped, Conn, None
<1>6. HoldKnows'
  BY DEF NothingReceived, StepH, NextSlot, HoldKnows
<1>7. LimitsHold'
  BY DEF NothingReceived, conns, LimitsHold
<1>8. QED
  BY <1>1, <1>2, <1>3, <1>4, <1>5, <1>6, <1>7

\* A packet has come for a connection on hold.
LEMMA ReceivedKeeps ==
  ASSUME IInv, Received
  PROVE  IInv'
<1> USE DEF IInv
<1>1. TypeOK'
  BY DEF Received, StepH, conns, threadP, TypeOK
<1>2. Busy'
  BY DEF Received, StepH, threadP, Busy
<1>3. Made'
  BY DEF Received, conns, Made
<1>4. Mapped'
  BY DEF Received, conns, Mapped
<1>5. PollOwns'
  BY DEF Received, StepH, conns, threadP, PollOwns, Unmapped
<1>6. HoldKnows'
  BY DEF Received, StepH, conns, HoldKnows, Held, SlotOf
<1>7. LimitsHold'
  BY DEF Received, conns, LimitsHold
<1>8. QED
  BY <1>1, <1>2, <1>3, <1>4, <1>5, <1>6, <1>7

\* recv () fails for a connection on hold.
LEMMA ReceiveFailsKeeps ==
  ASSUME IInv, ReceiveFails
  PROVE  IInv'
<1> USE DEF IInv
<1>1. TypeOK'
  BY DEF ReceiveFails, StepH, conns, threadP, TypeOK
<1>2. Busy'
  BY DEF ReceiveFails, StepH, threadP, Busy
<1>3. Made'
  BY DEF ReceiveFails, conns, Made
<1>4. Mapped'
  BY DEF ReceiveFails, conns, Mapped
<1>5. PollOwns'
  BY DEF ReceiveFails, StepH, conns, threadP, PollOwns, Unmapped
<1>6. HoldKnows'
  BY DEF ReceiveFails, StepH, conns, HoldKnows, Held, SlotOf
<1>7. LimitsHold'
  BY DEF ReceiveFails, conns, LimitsHold
<1>8. QED
  BY <1>1, <1>2, <1>3, <1>4, <1>5, <1>6, <1>7

\* The on hold thread stops at freed memory.
LEMMA UseFreedHeldKeeps ==
  ASSUME IInv, UseFreedHeld
  PROVE  IInv'
<1> USE DEF IInv
<1>1. TypeOK'
  BY DEF UseFreedHeld, StepH, conns, threadP, TypeOK
<1>2. Busy'
  BY DEF UseFreedHeld, StepH, threadP, Busy
<1>3. Made'
  BY DEF UseFreedHeld, conns, Made
<1>4. Mapped'
  BY DEF UseFreedHeld, conns, Mapped
<1>5. PollOwns'
  BY DEF UseFreedHeld, StepH, conns, threadP, PollOwns, Unmapped
<1>6. HoldKnows'
  BY DEF UseFreedHeld, StepH, HoldKnows
<1>7. LimitsHold'
  BY DEF UseFreedHeld, conns, LimitsHold
<1>8. QED
  BY <1>1, <1>2, <1>3, <1>4, <1>5, <1>6, <1>7

\* auth_failed (): a try is left as long as the connection is handled.
LEMMA WrongAuthKeeps ==
  ASSUME IInv, WrongAuth
  PROVE  IInv'
<1> USE DEF IInv
<1>1. TypeOK'
  <2>1. connH \in Conn /\ tries[connH] \in 0 .. MaxTries
    BY DEF WrongAuth, Busy, TypeOK
  <2>2. tries[connH] # 0
    BY <2>1 DEF WrongAuth, LimitsHold
  <2>3. tries[connH] - 1 \in 0 .. MaxTries
    BY <2>1, <2>2, OnHoldAssumption
  <2>4. tries' \in [Conn -> 0 .. MaxTries]
    BY <2>1, <2>3 DEF WrongAuth, TypeOK
  <2>5. QED
    BY <2>4 DEF WrongAuth, StepH, threadP, TypeOK
<1>2. Busy'
  BY DEF WrongAuth, StepH, threadP, Busy
<1>3. Made'
  BY DEF WrongAuth, Made
<1>4. Mapped'
  BY DEF WrongAuth, Mapped
<1>5. PollOwns'
  BY DEF WrongAuth, StepH, threadP, PollOwns, Unmapped
<1>6. HoldKnows'
  BY DEF WrongAuth, StepH, HoldKnows, Unmapped, Held, SlotOf
<1>7. LimitsHold'
  BY DEF WrongAuth, StepH, LimitsHold
<1>8. QED
  BY <1>1, <1>2, <1>3, <1>4, <1>5, <1>6, <1>7

\* A bad packet is counted below the maximum.
LEMMA BadPacketKeeps ==
  ASSUME IInv, BadPacket
  PROVE  IInv'
<1> USE DEF IInv
<1>1. TypeOK'
  <2>1. connH \in Conn /\ bad[connH] \in 0 .. MaxBad
    BY DEF BadPacket, Busy, TypeOK
  <2>2. ~ (bad[connH] >= MaxBad)
    BY <2>1 DEF BadPacket, LimitsHold
  <2>3. bad[connH] + 1 \in 0 .. MaxBad
    BY <2>1, <2>2, OnHoldAssumption
  <2>4. bad' \in [Conn -> 0 .. MaxBad]
    BY <2>1, <2>3 DEF BadPacket, TypeOK
  <2>5. QED
    BY <2>4 DEF BadPacket, StepH, threadP, TypeOK
<1>2. Busy'
  BY DEF BadPacket, StepH, threadP, Busy
<1>3. Made'
  BY DEF BadPacket, Made
<1>4. Mapped'
  BY DEF BadPacket, Mapped
<1>5. PollOwns'
  BY DEF BadPacket, StepH, threadP, PollOwns, Unmapped
<1>6. HoldKnows'
  BY DEF BadPacket, StepH, HoldKnows, Unmapped, Held, SlotOf
<1>7. LimitsHold'
  BY DEF BadPacket, StepH, LimitsHold
<1>8. QED
  BY <1>1, <1>2, <1>3, <1>4, <1>5, <1>6, <1>7

\* The auth succeeds: the connection is not the one the poll thread works on.
LEMMA GoodAuthKeeps ==
  ASSUME IInv, GoodAuth
  PROVE  IInv'
<1> USE DEF IInv
<1>1. TypeOK'
  BY DEF GoodAuth, StepH, threadP, TypeOK, Busy
<1>2. Busy'
  BY DEF GoodAuth, StepH, threadP, Busy
<1>3. Made'
  BY DEF GoodAuth, Made
<1>4. Mapped'
  BY DEF GoodAuth, Mapped
<1>5. PollOwns'
  BY DEF GoodAuth, StepH, threadP, PollOwns, Unmapped
<1>6. HoldKnows'
  BY DEF GoodAuth, StepH, HoldKnows, Unmapped, Held, SlotOf
<1>7. LimitsHold'
  BY DEF GoodAuth, LimitsHold
<1>8. QED
  BY <1>1, <1>2, <1>3, <1>4, <1>5, <1>6, <1>7

\* The next packet, or the next slot.
LEMMA HandledKeeps ==
  ASSUME IInv, Handled
  PROVE  IInv'
<1> USE DEF IInv
<1>1. TypeOK'
  <2>1. CASE NextSlot("handled")
    BY <2>1, NextSlotType DEF Handled, conns, TypeOK
  <2>2. CASE StepH("handled", "handle") /\ UNCHANGED <<connH, idx, rogue>>
    BY <2>2 DEF Handled, StepH, conns, threadP, TypeOK
  <2>3. QED
    BY <2>1, <2>2 DEF Handled
<1>2. Busy'
  BY DEF Handled, StepH, NextSlot, threadP, TypeOK, Busy
<1>3. Made'
  BY DEF Handled, NextSlot, conns, Made, Conn, None
<1>4. Mapped'
  BY DEF Handled, conns, Mapped
<1>5. PollOwns'
  BY DEF Handled, StepH, NextSlot, conns, threadP, Busy, PollOwns, Unmapped, Conn, None
<1>6. HoldKnows'
  BY DEF Handled, StepH, NextSlot, conns, HoldKnows, Unmapped, Held, SlotOf
<1>7. LimitsHold'
  BY DEF Handled, StepH, NextSlot, conns, LimitsHold
<1>8. QED
  BY <1>1, <1>2, <1>3, <1>4, <1>5, <1>6, <1>7

\* on_hold_connection_remove () takes the descriptor out of the array: when it was
\* not there, it is not in the map.
LEMMA UnholdPollKeeps ==
  ASSUME IInv, UnholdPoll
  PROVE  IInv'
<1> USE DEF IInv
<1>1. TypeOK'
  BY FreeSlotType DEF UnholdPoll, StepH, conns, threadP, TypeOK
<1>2. Busy'
  BY DEF UnholdPoll, StepH, threadP, Busy
<1>3. Made'
  BY DEF UnholdPoll, conns, Made
<1>4. Mapped'
  BY DEF UnholdPoll, conns, Mapped
<1>5. PollOwns'
  BY DEF UnholdPoll, StepH, conns, threadP, PollOwns, Unmapped
<1>6. HoldKnows'
  BY DEF UnholdPoll, StepH, conns, HoldKnows, Unmapped, Held
<1>7. LimitsHold'
  BY DEF UnholdPoll, conns, LimitsHold
<1>8. QED
  BY <1>1, <1>2, <1>3, <1>4, <1>5, <1>6, <1>7

\* After the map no descriptor leads to the connection.
LEMMA UnholdMapKeeps ==
  ASSUME IInv, UnholdMap
  PROVE  IInv'
<1> USE DEF IInv
<1>1. TypeOK'
  BY DEF UnholdMap, StepH, conns, threadP, TypeOK
<1>2. Busy'
  BY DEF UnholdMap, StepH, threadP, Busy
<1>3. Made'
  BY DEF UnholdMap, conns, Made
<1>4. Mapped'
  BY DEF UnholdMap, conns, Mapped
<1>5. PollOwns'
  BY DEF UnholdMap, StepH, conns, threadP, Busy, PollOwns, Unmapped, Conn, None
<1>6. HoldKnows'
  BY DEF UnholdMap, StepH, conns, TypeOK, Mapped, HoldKnows, Unmapped, Conn, None
<1>7. LimitsHold'
  BY DEF UnholdMap, conns, LimitsHold
<1>8. QED
  BY <1>1, <1>2, <1>3, <1>4, <1>5, <1>6, <1>7

\* client_register_to_cerver () gets a connection that is off hold.
LEMMA RegisterInMainKeeps ==
  ASSUME IInv, RegisterInMain
  PROVE  IInv'
<1> USE DEF IInv
<1>a. connH \in Conn /\ pcH = "register" /\ mem[connH] = "live"
  BY DEF RegisterInMain, StepH, Busy
<1>b. /\ UNCHANGED <<open, peer, mem, sockFd, tries, passed, holdFds, holdMap, connH, idx, rogue, pcP, connP>>
      /\ main' \in {main, main \cup {connH}}
      /\ pcH' \in {"crashed", "announce"}
      /\ bad' = [bad EXCEPT ![connH] = 0]
  BY DEF RegisterInMain, StepH, threadP
<1>1. TypeOK'
  <2>1. 0 \in 0 .. MaxBad
    BY OnHoldAssumption
  <2>2. QED
    BY <1>a, <1>b, <2>1 DEF TypeOK
<1>2. Busy'
  BY DEF RegisterInMain, StepH, threadP, Busy
<1>3. Made'
  <2>1. connH \in passed
    BY <1>a DEF HoldKnows
  <2>2. QED
    BY <1>b, <2>1 DEF Made
<1>4. Mapped'
  BY DEF RegisterInMain, Mapped, HoldKnows, Unmapped
<1>5. PollOwns'
  BY DEF RegisterInMain, StepH, threadP, PollOwns, Unmapped
<1>6. HoldKnows'
  BY DEF RegisterInMain, StepH, HoldKnows, Unmapped
<1>7. LimitsHold'
  <2>1. \A c \in Conn : bad'[c] = bad[c] \/ bad'[c] = 0
    BY <1>a, <1>b DEF TypeOK
  <2>2. \A c \in Conn : ~ (tries[c] = 0 \/ bad[c] >= MaxBad) \/ mem[c] = "freed"
    BY <1>a DEF LimitsHold
  <2>3. ~ (0 >= MaxBad)
    BY OnHoldAssumption
  <2>4. QED
    BY <1>b, <2>1, <2>2, <2>3 DEF LimitsHold
<1>8. QED
  BY <1>1, <1>2, <1>3, <1>4, <1>5, <1>6, <1>7

\* The success is told; nothing moves.
LEMMA AnnounceKeeps ==
  ASSUME IInv, Announce
  PROVE  IInv'
<1> USE DEF IInv
<1>1. TypeOK'
  BY DEF Announce, StepH, conns, threadP, TypeOK
<1>2. Busy'
  BY DEF Announce, StepH, threadP, Busy
<1>3. Made'
  BY DEF Announce, conns, Made
<1>4. Mapped'
  BY DEF Announce, conns, Mapped
<1>5. PollOwns'
  BY DEF Announce, StepH, conns, threadP, PollOwns, Unmapped
<1>6. HoldKnows'
  BY DEF Announce, StepH, HoldKnows, Unmapped
<1>7. LimitsHold'
  BY DEF Announce, conns, LimitsHold
<1>8. QED
  BY <1>1, <1>2, <1>3, <1>4, <1>5, <1>6, <1>7

\* on_hold_connection_drop () takes the descriptor out of the array.
LEMMA DropPollKeeps ==
  ASSUME IInv, DropPoll
  PROVE  IInv'
<1> USE DEF IInv
<1>1. TypeOK'
  BY FreeSlotType DEF DropPoll, StepH, conns, threadP, TypeOK
<1>2. Busy'
  BY DEF DropPoll, StepH, threadP, Busy
<1>3. Made'
  BY DEF DropPoll, conns, Made
<1>4. Mapped'
  BY DEF DropPoll, conns, Mapped
<1>5. PollOwns'
  BY DEF DropPoll, StepH, conns, threadP, PollOwns, Unmapped
<1>6. HoldKnows'
  BY DEF DropPoll, StepH, HoldKnows, Unmapped, Held
<1>7. LimitsHold'
  BY DEF DropPoll, StepH, conns, LimitsHold
<1>8. QED
  BY <1>1, <1>2, <1>3, <1>4, <1>5, <1>6, <1>7

\* It takes it out of the map.
LEMMA DropMapKeeps ==
  ASSUME IInv, DropMap
  PROVE  IInv'
<1> USE DEF IInv
<1>1. TypeOK'
  BY DEF DropMap, StepH, conns, threadP, TypeOK
<1>2. Busy'
  BY DEF DropMap, StepH, threadP, Busy
<1>3. Made'
  BY DEF DropMap, conns, Made
<1>4. Mapped'
  BY DEF DropMap, conns, Mapped
<1>5. PollOwns'
  BY DEF DropMap, StepH, conns, threadP, Busy, PollOwns, Unmapped, Conn, None
<1>6. HoldKnows'
  BY DEF DropMap, StepH, TypeOK, Busy, Mapped, HoldKnows, Unmapped, Conn, None
<1>7. LimitsHold'
  BY DEF DropMap, StepH, conns, LimitsHold
<1>8. QED
  BY <1>1, <1>2, <1>3, <1>4, <1>5, <1>6, <1>7

\* The connection is freed: nothing leads to it.
LEMMA DropEndKeeps ==
  ASSUME IInv, DropEnd
  PROVE  IInv'
<1> USE DEF IInv
<1>1. TypeOK'
  <2>1. connH \in Conn
    BY DEF DropEnd, NextSlot, StepH, Busy
  <2>2. connH' \in Conn \cup {None} /\ idx' \in Nat /\ rogue' \in Fd \cup {Free} /\ UNCHANGED threadP
    BY <2>1, NextSlotType DEF DropEnd, NextSlot, StepH, TypeOK
  <2>3. QED
    BY <2>1, <2>2, DropType DEF DropEnd, threadP, TypeOK
<1>2. Busy'
  BY DEF DropEnd, StepH, NextSlot, threadP, TypeOK, Busy
<1>3. Made'
  BY DEF DropEnd, NextSlot, Drop, TypeOK, Made, Conn, None
<1>4. Mapped'
  BY DEF DropEnd, Drop, Mapped, HoldKnows, Unmapped
<1>5. PollOwns'
  BY DEF DropEnd, StepH, NextSlot, Drop, threadP, Busy, PollOwns, Unmapped, Conn, None
<1>6. HoldKnows'
  BY DEF DropEnd, StepH, NextSlot, HoldKnows, Unmapped
<1>7. LimitsHold'
  BY DEF DropEnd, Drop, TypeOK, LimitsHold
<1>8. QED
  BY <1>1, <1>2, <1>3, <1>4, <1>5, <1>6, <1>7

-----------------------------------------------------------------------------
\* The other end of a connection is lost: nothing else changes.
LEMMA PeerGoesKeeps ==
  ASSUME IInv, NEW c \in Conn, PeerGoes(c)
  PROVE  IInv'
<1>1. UNCHANGED <<open, conns, holdFds, holdMap, main, threadP, threadH>>
  BY DEF PeerGoes
<1>2. TypeOK'
  BY <1>1 DEF IInv, TypeOK, PeerGoes, conns, threadP, threadH
<1>3. Busy' /\ Made' /\ Mapped'
  BY <1>1 DEF IInv, Busy, Made, Mapped, conns, threadP, threadH
<1>4. PollOwns' /\ HoldKnows' /\ LimitsHold'
  BY <1>1 DEF IInv, PollOwns, HoldKnows, LimitsHold, Unmapped, Held, SlotOf, conns, threadP, threadH
<1>5. QED
  BY <1>2, <1>3, <1>4 DEF IInv

\* The invariant is inductive: cerver_auth_start () establishes it and no
\* step of the two threads or of a peer breaks it.
THEOREM InvariantHolds == Spec => []IInv
<1>1. Init => IInv
  <2> SUFFICES ASSUME Init  PROVE IInv
    OBVIOUS
  <2>1. TypeOK
    BY OnHoldAssumption DEF Init, TypeOK
  <2>2. Busy /\ Made /\ Mapped
    BY DEF Init, Busy, Made, Mapped, Conn, None
  <2>3. PollOwns /\ HoldKnows
    BY DEF Init, PollOwns, HoldKnows
  <2>4. LimitsHold
    BY OnHoldAssumption DEF Init, LimitsHold
  <2>5. QED
    BY <2>1, <2>2, <2>3, <2>4 DEF IInv
<1>2. IInv /\ [Next]_vars => IInv'
  <2> SUFFICES ASSUME IInv, [Next]_vars  PROVE IInv'
    OBVIOUS
  <2>1. CASE PollThread
    BY <2>1, AcceptKeeps, HoldPollKeeps, HoldMapKeeps, WelcomeKeeps, RejectKeeps, LeaveMainKeeps,
       UseFreedMainKeeps DEF PollThread
  <2>2. CASE OnHoldThread
    <3>1. CASE HPollReturns \/ EndOfWalk \/ SkipSlot \/ Lookup \/ Rogue \/ RogueClose
      BY <3>1, HPollReturnsKeeps, EndOfWalkKeeps, SkipSlotKeeps, LookupKeeps, RogueKeeps, RogueCloseKeeps
    <3>2. CASE NothingReceived \/ Received \/ ReceiveFails \/ UseFreedHeld
      BY <3>2, NothingReceivedKeeps, ReceivedKeeps, ReceiveFailsKeeps, UseFreedHeldKeeps
    <3>3. CASE WrongAuth \/ BadPacket \/ GoodAuth \/ Handled
      BY <3>3, WrongAuthKeeps, BadPacketKeeps, GoodAuthKeeps, HandledKeeps
    <3>4. CASE UnholdPoll \/ UnholdMap \/ RegisterInMain \/ Announce
      BY <3>4, UnholdPollKeeps, UnholdMapKeeps, RegisterInMainKeeps, AnnounceKeeps
    <3>5. CASE DropPoll \/ DropMap \/ DropEnd
      BY <3>5, DropPollKeeps, DropMapKeeps, DropEndKeeps
    <3>6. QED
      BY <2>2, <3>1, <3>2, <3>3, <3>4, <3>5 DEF OnHoldThread
  <2>3. CASE \E c \in Conn : PeerGoes(c)
    BY <2>3, PeerGoesKeeps
  <2>4. CASE UNCHANGED vars
    <3>1. TypeOK' /\ Busy' /\ Made' /\ Mapped'
      BY <2>4 DEF vars, conns, threadP, threadH, IInv, TypeOK, Busy, Made, Mapped
    <3>2. PollOwns' /\ HoldKnows' /\ LimitsHold'
      BY <2>4 DEF vars, conns, threadP, threadH, IInv, PollOwns, HoldKnows, LimitsHold, Unmapped, Held,
         SlotOf
    <3>3. QED
      BY <3>1, <3>2 DEF IInv
  <2>5. QED
    BY <2>1, <2>2, <2>3, <2>4 DEF Next
<1>3. QED
  BY <1>1, <1>2, PTL DEF Spec

\* The types of the state of the connections on hold (auth.c).
THEOREM TypeCorrect == Spec => []TypeOK
<1>1. IInv => TypeOK
  BY DEF IInv
<1>2. QED
  BY <1>1, InvariantHolds, PTL

\* on_hold_connection_sock_fd_map leads the on hold thread to live connections
\* only, although two threads change it and both free connections.
THEOREM HoldMapCorrect == Spec => []HoldMapIsLive
<1>1. IInv => HoldMapIsLive
  BY DEF IInv, Mapped, HoldMapIsLive
<1>2. QED
  BY <1>1, InvariantHolds, PTL

\* A connection that auth_try () has registered in the main structures has
\* authenticated and is no longer on hold.
THEOREM OwnerCorrect == Spec => []OneOwner
<1>1. IInv => OneOwner
  <2> SUFFICES ASSUME IInv, NEW c \in main, NEW f \in Fd  PROVE c \in passed /\ holdMap[f] # c
    BY DEF OneOwner, IInv, Made
  <2>1. c \in passed /\ c \in Conn /\ c # None
    BY DEF IInv, Made, TypeOK, Conn, None
  <2>2. QED
    BY <2>1 DEF IInv, Mapped
<1>2. QED
  BY <1>1, InvariantHolds, PTL

\* auth_failed () and cerver_on_hold_handle_max_bad_packets () act on the
\* limits of a connection before anything else of it is handled.
THEOREM LimitsCorrect == Spec => []LimitsHold
<1>1. IInv => LimitsHold
  BY DEF IInv
<1>2. QED
  BY <1>1, InvariantHolds, PTL

-----------------------------------------------------------------------------
(* Each table on its own                                                   *)

\* A step is one of the connections on hold or leaves them.
LEMMA HoldBehaves == PartsSpec => Spec
<1>1. PartsInit => Init
  BY DEF PartsInit
<1>2. [PartsNext]_allVars => [Next]_vars
  BY DEF PartsNext, OfHold, OfRegistry, OfAdmins, OfLobbies, OfSessions, allVars
<1>3. QED
  BY <1>1, <1>2, PTL DEF PartsSpec, Spec

\* The registry that is checked is the one of Registry_proofs.
LEMMA SameRegistry ==
    /\ R!Init => RP!Init
    /\ [R!Next]_(R!vars) => [RP!Next]_(RP!vars)
    /\ RP!MapIsOwned <=> MapIsOwned
<1> USE DEF R!Conn, RP!Conn, R!Fd, RP!Fd, R!None, RP!None, R!Free, RP!Free, R!Thread, RP!Thread,
            R!kernel, RP!kernel, R!objects, RP!objects, R!tables, RP!tables, R!walk, RP!walk,
            R!vars, RP!vars, R!Init, RP!Init, R!Goto, RP!Goto, R!Crashed, RP!Crashed, R!Crash,
            RP!Crash, R!SlotOf, RP!SlotOf, R!LowestOf, RP!LowestOf, R!Unpoll, RP!Unpoll, R!Unmap,
            RP!Unmap, R!Close, RP!Close, R!TakeOut, RP!TakeOut, R!Accepted, RP!Accepted,
            R!NothingToAccept, RP!NothingToAccept, R!Accept, RP!Accept, R!CountClient,
            RP!CountClient, R!Map, RP!Map, R!Register, RP!Register, R!GrowAndRegister,
            RP!GrowAndRegister, R!Insert, RP!Insert, R!Activate, RP!Activate, R!UseFreed,
            RP!UseFreed, R!PollReturns, RP!PollReturns, R!AcceptHere, RP!AcceptHere,
            R!AcceptInThpool, RP!AcceptInThpool, R!StartAccept, RP!StartAccept, R!EndOfWalk,
            RP!EndOfWalk, R!AtSlot, RP!AtSlot, R!SkipSlot, RP!SkipSlot, R!Mapped, RP!Mapped,
            R!Lookup, RP!Lookup, R!Rogue, RP!Rogue, R!RoguePoll, RP!RoguePoll, R!RogueMap,
            RP!RogueMap, R!RogueClose, RP!RogueClose, R!RogueIsRead, RP!RogueIsRead, R!Receive, RP!Receive, R!Leave, RP!Leave,
            R!Disconnect, RP!Disconnect, R!LeavePoll, RP!LeavePoll, R!LeaveMap, RP!LeaveMap,
            R!LeaveClose, RP!LeaveClose, R!LeaveClients, RP!LeaveClients, R!LeaveFree,
            RP!LeaveFree, R!ClosedIsRead, RP!ClosedIsRead, R!DropMap, RP!DropMap, R!DropPoll, RP!DropPoll, R!DropClients,
            RP!DropClients, R!DropFree, RP!DropFree, R!Dropped, RP!Dropped, R!PeerGoes,
            RP!PeerGoes, R!Registration, RP!Registration, R!Dropping, RP!Dropping, R!Leaving,
            RP!Leaving, R!Walk, RP!Walk, R!Next, RP!Next, R!MapIsOwned, RP!MapIsOwned
<1>1. (R!Init => RP!Init) /\ (R!Next => RP!Next) /\ R!vars = RP!vars
  OBVIOUS
<1>2. UNCHANGED R!vars => UNCHANGED RP!vars
  OBVIOUS
<1>3. RP!MapIsOwned <=> MapIsOwned
  BY DEF MapIsOwned
<1>4. QED
  BY <1>1, <1>2, <1>3

\* A step is one of the registry or leaves it.
LEMMA RegistryBehaves == PartsSpec => R!Init /\ [][R!Next]_(R!vars)
<1>1. PartsInit => R!Init
  BY DEF PartsInit
<1>2. [PartsNext]_allVars => [R!Next]_(R!vars)
  <2>1. UNCHANGED registryVars => UNCHANGED R!vars
    BY DEF registryVars, R!vars, R!kernel, R!objects, R!tables, R!walk
  <2>2. QED
    BY <2>1 DEF PartsNext, OfHold, OfRegistry, OfAdmins, OfLobbies, OfSessions, allVars
<1>3. QED
  BY <1>1, <1>2, PTL DEF PartsSpec

\* The map from descriptors to clients never sends a descriptor to a client
\* that does not own it, and a polled descriptor has a client, with any number
\* of workers that accept (handler.c, client.c, connection.c).
THEOREM PartsMapIsOwned ==
  ASSUME Garbage \cap Fd = {}
  PROVE  PartsSpec => []MapIsOwned
<1>0. RP!RegistryAssumption
  BY OnHoldAssumption, TablesAssumption DEF RP!RegistryAssumption
<1>1. R!Init => RP!IInv
  BY <1>0, SameRegistry, RP!InitHolds
<1>2. RP!IInv /\ [R!Next]_(R!vars) => RP!IInv'
  BY <1>0, SameRegistry, RP!NextKeeps DEF Fd, RP!Fd
<1>3. RP!IInv => MapIsOwned
  BY <1>0, SameRegistry, RP!OwnedFollows
<1>4. QED
  BY <1>1, <1>2, <1>3, RegistryBehaves, PTL

\* Connections are on hold or in the main structures, and limits hold, when the
\* other tables are there as well.
THEOREM PartsHold == PartsSpec => [](HoldMapIsLive /\ OneOwner /\ LimitsHold)
BY HoldBehaves, HoldMapCorrect, OwnerCorrect, LimitsCorrect, PTL

-----------------------------------------------------------------------------
(***************************************************************************)
(* The lobbies (game/)                                                     *)
(***************************************************************************)
LobbyTypes ==
    /\ DOMAIN lobbyMem = Lobby /\ DOMAIN lobbyId = Lobby /\ DOMAIN players = Lobby
    /\ DOMAIN n_current_players = Lobby /\ DOMAIN players_fds = Lobby
    /\ DOMAIN current_players_fds = Lobby /\ DOMAIN max_players_fds = Lobby
    /\ current_lobbys \in Seq(Lobby)
    /\ \A l \in Lobby : players[l] \in Seq(LobbyClient) /\ IsFiniteSet(players_fds[l])

\* The list has live lobbies, whose ids are found at one place only.
ListAgrees ==
    /\ current_active_lobbys = Len(current_lobbys)
    /\ \A i \in 1 .. Len(current_lobbys) : lobbyMem[current_lobbys[i]] = "live"
    /\ \A i, k \in 1 .. Len(current_lobbys) :
           lobbyId[current_lobbys[i]] = lobbyId[current_lobbys[k]] => i = k

MembersAgree == \A l \in Lobby : lobbyMem[l] = "live" => n_current_players[l] \in Nat \ {0}

\* The cerver and the lobbies poll different clients, those that are torn down
\* included.
ArraysAgree ==
    /\ \A l \in Lobby :
           /\ lobbyMem[l] = "live" /\ max_players_fds[l] # 0 =>
                  current_players_fds[l] = Cardinality(players_fds[l])
           /\ lobbyMem[l] = "unused" => players_fds[l] = {} /\ current_players_fds[l] = 0
           /\ players_fds[l] \cap polled = {}
    /\ \A l, m \in Lobby : l # m => players_fds[l] \cap players_fds[m] = {}

LobbyInv == LobbyTypes /\ ListAgrees /\ MembersAgree /\ ArraysAgree

-----------------------------------------------------------------------------
(* Lemmas about the lists of the lobbies and their players                 *)

LEMMA LobbyCardinality == \A T : G!Cardinality(T) = Cardinality(T)
BY DEF G!Cardinality, Cardinality

\* A list without the element at one place.
LEMMA WithoutOne ==
  ASSUME NEW T, NEW s \in Seq(T), NEW i \in 1 .. Len(s)
  PROVE  /\ G!RemoveAt(s, i) \in Seq(T) /\ Len(G!RemoveAt(s, i)) = Len(s) - 1
         /\ \A k \in 1 .. Len(s) - 1 : G!RemoveAt(s, i)[k] = IF k < i THEN s[k] ELSE s[k + 1]
<1> DEFINE a == SubSeq(s, 1, i - 1)
           b == SubSeq(s, i + 1, Len(s))
           t == G!RemoveAt(s, i)
<1>1. a \in Seq(T) /\ Len(a) = i - 1 /\ \A k \in 1 .. i - 1 : a[k] = s[k]
  OBVIOUS
<1>2. b \in Seq(T) /\ Len(b) = Len(s) - i /\ \A k \in 1 .. Len(s) - i : b[k] = s[k + i]
  OBVIOUS
<1>3. t = a \o b
  BY DEF G!RemoveAt
<1>0. Len(s) \in Nat
  OBVIOUS
<1> HIDE DEF a, b, t
<1>4. /\ t \in Seq(T) /\ Len(t) = Len(a) + Len(b)
      /\ \A k \in 1 .. Len(a) + Len(b) : t[k] = IF k <= Len(a) THEN a[k] ELSE b[k - Len(a)]
  BY <1>1, <1>2, <1>3, ConcatProperties
<1>5. Len(t) = Len(s) - 1
  BY <1>0, <1>1, <1>2, <1>4
<1>6. ASSUME NEW k \in 1 .. Len(s) - 1
      PROVE  t[k] = IF k < i THEN s[k] ELSE s[k + 1]
  <2>1. CASE k < i
    BY <1>0, <1>1, <1>2, <1>4, <2>1
  <2>2. CASE k >= i
    <3>1. k - (i - 1) \in 1 .. Len(s) - i /\ (k - (i - 1)) + i = k + 1
      BY <1>0, <2>2
    <3>2. k \in 1 .. Len(a) + Len(b) /\ ~(k <= Len(a)) /\ Len(a) = i - 1
      BY <1>0, <1>1, <1>2, <2>2
    <3>3. t[k] = b[k - (i - 1)]
      BY <1>4, <3>2
    <3>4. QED
      BY <1>0, <1>2, <2>2, <3>1, <3>3
  <2>3. QED
    BY <2>1, <2>2
<1>7. QED
  BY <1>4, <1>5, <1>6 DEF t

\* The search for an id, and for a player, gives a place or tells that there is
\* none.
LEMMA SearchFinds ==
  ASSUME NEW T, NEW s \in Seq(T), NEW J, J \subseteq 1 .. Len(s), J # {}
  PROVE  G!Min(J) \in J
<1>1. J \subseteq Nat
  OBVIOUS
<1>2. LowestOf(J) \in J
  BY <1>1, LowestIsMember
<1>3. G!Min(J) = LowestOf(J)
  BY DEF G!Min, LowestOf
<1>4. QED
  BY <1>2, <1>3

LEMMA LobbyPlace ==
  ASSUME LobbyTypes, NEW i
  PROVE  \/ G!PlaceOf(i) = 0 /\ \A k \in 1 .. Len(current_lobbys) : lobbyId[current_lobbys[k]] # i
         \/ G!PlaceOf(i) \in 1 .. Len(current_lobbys) /\ lobbyId[current_lobbys[G!PlaceOf(i)]] = i
<1> DEFINE J == {k \in 1 .. Len(current_lobbys) : lobbyId[current_lobbys[k]] = i}
<1>1. G!PlaceOf(i) = IF J # {} THEN G!Min(J) ELSE 0
  BY DEF G!PlaceOf, G!SelectInSeq
<1>2. J # {} => G!Min(J) \in J
  <2>1. J \subseteq 1 .. Len(current_lobbys)
    OBVIOUS
  <2> HIDE DEF J
  <2>2. QED
    BY <2>1, SearchFinds DEF LobbyTypes
<1>3. QED
  BY <1>1, <1>2

LEMMA PlayerPlace ==
  ASSUME LobbyTypes, NEW l \in Lobby, NEW c
  PROVE  \/ G!FirstOf(l, c) = 0
         \/ G!FirstOf(l, c) \in 1 .. Len(players[l]) /\ players[l][G!FirstOf(l, c)] = c
<1> DEFINE J == {k \in 1 .. Len(players[l]) : players[l][k] = c}
<1>1. G!FirstOf(l, c) = IF J # {} THEN G!Min(J) ELSE 0
  BY DEF G!FirstOf, G!SelectInSeq
<1>2. J # {} => G!Min(J) \in J
  <2>1. J \subseteq 1 .. Len(players[l])
    OBVIOUS
  <2> HIDE DEF J
  <2>2. QED
    BY <2>1, SearchFinds DEF LobbyTypes
<1>3. QED
  BY <1>1, <1>2

LEMMA FinitePlayers ==
  ASSUME NEW T, NEW s \in Seq(T)
  PROVE  IsFiniteSet(G!ToSet(s))
<1>1. s \in Surjection(1 .. Len(s), G!ToSet(s))
  BY DEF G!ToSet, Surjection
<1>2. IsFiniteSet(1 .. Len(s))
  BY FS_Interval
<1>3. QED
  BY <1>1, <1>2, FS_Surjection

\* Ids that are found at one place only are as many as the places.
LEMMA AsManyIds ==
  ASSUME LobbyTypes, ListAgrees
  PROVE  Cardinality({lobbyId[l] : l \in G!ToSet(current_lobbys)}) = Len(current_lobbys)
<1> DEFINE Places == 1 .. Len(current_lobbys)
           Ids == {lobbyId[l] : l \in G!ToSet(current_lobbys)}
           f == [i \in Places |-> lobbyId[current_lobbys[i]]]
<1>1. Len(current_lobbys) \in Nat /\ DOMAIN current_lobbys = Places
  BY DEF LobbyTypes
<1>2. IsFiniteSet(Places) /\ Cardinality(Places) = Len(current_lobbys)
  <2> DEFINE n == Len(current_lobbys)
  <2>1. 1 \in Int /\ n \in Int /\ n >= 0
    BY <1>1
  <2> HIDE DEF n
  <2>2. IsFiniteSet(1 .. n) /\ Cardinality(1 .. n) = IF 1 > n THEN 0 ELSE n - 1 + 1
    BY <2>1, FS_Interval
  <2>3. (IF 1 > n THEN 0 ELSE n - 1 + 1) = n
    BY <2>1
  <2>4. QED
    BY <2>2, <2>3 DEF n
<1>3. f \in Surjection(Places, Ids)
  BY <1>1 DEF Surjection, G!ToSet
<1>4. f \in Injection(Places, Ids)
  BY <1>3 DEF Injection, Surjection, IsInjective, ListAgrees
<1> HIDE DEF Places, Ids, f
<1>5. Cardinality(Ids) = Cardinality(Places)
  BY <1>2, <1>3, <1>4, FS_Surjection
<1>6. QED
  BY <1>2, <1>5 DEF Ids

-----------------------------------------------------------------------------
(* The steps of the lobbies                                                *)

LEMMA LobbyInitHolds == G!Init => LobbyInv
<1> SUFFICES ASSUME G!Init  PROVE LobbyInv
  OBVIOUS
<1>1. /\ current_lobbys = <<>> /\ current_active_lobbys = 0
      /\ \A l \in Lobby : lobbyMem[l] = "unused"
      /\ \A l \in Lobby : players[l] = <<>> /\ players_fds[l] = {} /\ current_players_fds[l] = 0
  BY DEF G!Init
<1>2. LobbyTypes
  BY <1>1, FS_EmptySet DEF G!Init, LobbyTypes
<1>3. ListAgrees /\ MembersAgree /\ ArraysAgree
  BY <1>1 DEF ListAgrees, MembersAgree, ArraysAgree
<1>4. QED
  BY <1>2, <1>3 DEF LobbyInv

LEMMA CreateLobbyKeeps ==
  ASSUME LobbyInv, NEW c \in LobbyClient, NEW l \in Lobby, G!CreateLobby(c, l)
  PROVE  LobbyInv'
<1>0. PICK size \in MaxPlayers : max_players_fds' = [max_players_fds EXCEPT ![l] = size]
  BY DEF G!CreateLobby
<1>1. PICK i \in Id :
        /\ lobbyMem[l] = "unused" /\ lobbyMem' = [lobbyMem EXCEPT ![l] = "live"]
        /\ lobbyId' = [lobbyId EXCEPT ![l] = i]
        /\ IF G!PlaceOf(i) = 0
           THEN /\ current_lobbys' = Append(current_lobbys, l)
                /\ current_active_lobbys' = current_active_lobbys + 1
           ELSE current_lobbys' = current_lobbys /\ current_active_lobbys' = current_active_lobbys
        /\ players' = [players EXCEPT ![l] = <<c>>]
        /\ n_current_players' = [n_current_players EXCEPT ![l] = 1]
        /\ UNCHANGED <<polled, players_fds, current_players_fds>>
  BY DEF G!CreateLobby, G!game, G!clients
<1> USE DEF LobbyInv
<1>2. LobbyTypes'
  <2>1. current_lobbys' \in Seq(Lobby)
    <3>1. current_lobbys \in Seq(Lobby)
      BY DEF LobbyTypes
    <3>2. Append(current_lobbys, l) \in Seq(Lobby)
      BY <3>1, AppendProperties
    <3>3. QED
      BY <1>1, <3>1, <3>2
  <2>2. \A m \in Lobby : players'[m] \in Seq(LobbyClient)
    <3>1. <<c>> \in Seq(LobbyClient)
      OBVIOUS
    <3>2. QED
      BY <1>1, <3>1 DEF LobbyTypes
  <2>3. QED
    BY <1>0, <1>1, <2>1, <2>2 DEF LobbyTypes
<1>3. MembersAgree'
  BY <1>1 DEF MembersAgree, LobbyTypes
<1>4. ArraysAgree'
  BY <1>0, <1>1, FS_EmptySet DEF ArraysAgree, LobbyTypes
<1>5. Len(current_lobbys) \in Nat
  BY DEF LobbyTypes
<1>6. \A k \in 1 .. Len(current_lobbys) :
          /\ current_lobbys[k] \in Lobby /\ current_lobbys[k] # l
          /\ lobbyId'[current_lobbys[k]] = lobbyId[current_lobbys[k]]
          /\ lobbyMem'[current_lobbys[k]] = lobbyMem[current_lobbys[k]]
  <2>1. \A k \in 1 .. Len(current_lobbys) :
            current_lobbys[k] \in Lobby /\ lobbyMem[current_lobbys[k]] = "live"
    BY DEF LobbyTypes, ListAgrees
  <2>2. \A m \in Lobby \ {l} : lobbyId'[m] = lobbyId[m] /\ lobbyMem'[m] = lobbyMem[m]
    BY <1>1 DEF LobbyTypes
  <2>3. lobbyMem[l] = "unused"
    BY <1>1
  <2>4. QED
    BY <2>1, <2>2, <2>3
<1>7. ListAgrees'
  <2>1. CASE G!PlaceOf(i) = 0
    <3>1. \A k \in 1 .. Len(current_lobbys) : lobbyId[current_lobbys[k]] # i
      BY <2>1, LobbyPlace
    <3>2. /\ Len(current_lobbys') = Len(current_lobbys) + 1
          /\ \A k \in 1 .. Len(current_lobbys) + 1 :
                 current_lobbys'[k] = IF k = Len(current_lobbys) + 1 THEN l ELSE current_lobbys[k]
      <4>1. current_lobbys \in Seq(Lobby)
        BY DEF LobbyTypes
      <4>2. current_lobbys' = Append(current_lobbys, l)
        BY <1>1, <2>1
      <4>3. QED
        BY <1>5, <4>1, <4>2, AppendProperties
    <3>3. lobbyId'[l] = i /\ lobbyMem'[l] = "live"
      BY <1>1 DEF LobbyTypes
    <3>4. current_active_lobbys' = Len(current_lobbys')
      BY <1>1, <2>1, <3>2 DEF ListAgrees
    <3>5. \A k \in 1 .. Len(current_lobbys') : lobbyMem'[current_lobbys'[k]] = "live"
      BY <1>5, <1>6, <3>2, <3>3 DEF ListAgrees
    <3>6. ASSUME NEW k \in 1 .. Len(current_lobbys'), NEW n \in 1 .. Len(current_lobbys'),
                 lobbyId'[current_lobbys'[k]] = lobbyId'[current_lobbys'[n]]
          PROVE  k = n
      <4>1. CASE k = Len(current_lobbys) + 1
        BY <1>5, <1>6, <3>1, <3>2, <3>3, <3>6, <4>1
      <4>2. CASE n = Len(current_lobbys) + 1
        BY <1>5, <1>6, <3>1, <3>2, <3>3, <3>6, <4>2
      <4>3. CASE k # Len(current_lobbys) + 1 /\ n # Len(current_lobbys) + 1
        <5>1. /\ k \in 1 .. Len(current_lobbys) /\ n \in 1 .. Len(current_lobbys)
              /\ current_lobbys'[k] = current_lobbys[k] /\ current_lobbys'[n] = current_lobbys[n]
          BY <1>5, <3>2, <4>3
        <5>2. QED
          BY <1>6, <3>6, <5>1 DEF ListAgrees
      <4>4. QED
        BY <4>1, <4>2, <4>3
    <3>7. QED
      BY <3>4, <3>5, <3>6 DEF ListAgrees
  <2>2. CASE G!PlaceOf(i) # 0
    <3>1. current_lobbys' = current_lobbys /\ current_active_lobbys' = current_active_lobbys
      BY <1>1, <2>2
    <3>2. QED
      BY <1>6, <3>1 DEF ListAgrees
  <2>3. QED
    BY <2>1, <2>2
<1>8. QED
  BY <1>2, <1>3, <1>4, <1>7

\* What is not about the list of the lobbies leaves it alone.
LEMMA ListKept ==
  ASSUME ListAgrees, UNCHANGED <<current_lobbys, current_active_lobbys, lobbyMem, lobbyId>>
  PROVE  ListAgrees'
BY DEF ListAgrees

LEMMA CrashKeepsLobbies ==
  ASSUME LobbyInv, G!Crash
  PROVE  LobbyInv'
BY DEF LobbyInv, LobbyTypes, ListAgrees, MembersAgree, ArraysAgree, G!Crash, G!clients, G!members, G!arrays, G!game

LEMMA JoinLobbyKeeps ==
  ASSUME LobbyInv, NEW c \in LobbyClient, NEW i, G!JoinLobby(c, i)
  PROVE  LobbyInv'
<1> DEFINE l == current_lobbys[G!PlaceOf(i)]
<1>1. CASE G!Crash
  BY <1>1, CrashKeepsLobbies
<1>2. CASE /\ players' = [players EXCEPT ![l] = Append(players[l], c)]
           /\ n_current_players' = [n_current_players EXCEPT ![l] = n_current_players[l] + 1]
           /\ UNCHANGED <<polled, lobbyMem, lobbyId, players_fds, current_players_fds, max_players_fds,
                          current_lobbys, current_active_lobbys>>
  <2>1. l \in Lobby /\ lobbyMem[l] = "live"
    BY LobbyPlace DEF LobbyInv, LobbyTypes, ListAgrees, G!JoinLobby
  <2> HIDE DEF l
  <2>2. players[l] \in Seq(LobbyClient) /\ Append(players[l], c) \in Seq(LobbyClient)
        /\ Len(Append(players[l], c)) = Len(players[l]) + 1 /\ Append(players[l], c) # <<>>
    <3>1. players[l] \in Seq(LobbyClient)
      BY <2>1 DEF LobbyInv, LobbyTypes
    <3>2. Append(players[l], c) \in Seq(LobbyClient) /\ Len(Append(players[l], c)) = Len(players[l]) + 1
      BY <3>1, AppendProperties
    <3>3. Len(players[l]) \in Nat
      BY <3>1
    <3>4. Append(players[l], c) # <<>>
      BY <3>2, <3>3
    <3>5. QED
      BY <3>1, <3>2, <3>4
  <2>3. LobbyTypes'
    BY <1>2, <2>1, <2>2 DEF LobbyInv, LobbyTypes
  <2>4. MembersAgree'
    BY <1>2, <2>1, <2>2 DEF LobbyInv, LobbyTypes, MembersAgree
  <2>5. ArraysAgree'
    BY <1>2 DEF LobbyInv, ArraysAgree
  <2>6. QED
    BY <1>2, <2>3, <2>4, <2>5, ListKept DEF LobbyInv
<1>3. QED
  BY <1>1, <1>2 DEF G!JoinLobby, G!clients, G!arrays, G!game

\* A set of clients that nobody else polls gets places in the array of a lobby.
LEMMA PollsKeep ==
  ASSUME LobbyInv, NEW l \in Lobby, lobbyMem[l] = "live", NEW all, NEW f, G!Polls(l, all, f),
         IsFiniteSet(all), all \subseteq polled, polled' = polled \ all, DOMAIN max_players_fds' = Lobby,
         \A m \in Lobby \ {l} : max_players_fds'[m] = max_players_fds[m],
         max_players_fds'[l] # 0 => max_players_fds[l] # 0,
         UNCHANGED <<lobbyMem, lobbyId, players, n_current_players, current_lobbys, current_active_lobbys>>
  PROVE  LobbyInv'
<1> DEFINE fds == players_fds[l]
           n == current_players_fds[l] + Cardinality(all)
<1>1. /\ players_fds' = [players_fds EXCEPT ![l] = fds \cup all]
      /\ current_players_fds' = [current_players_fds EXCEPT ![l] = n]
  BY LobbyCardinality DEF G!Polls
<1>2. IsFiniteSet(fds) /\ fds \cap all = {}
  BY DEF LobbyInv, LobbyTypes, ArraysAgree
<1>3. max_players_fds'[l] # 0 => current_players_fds[l] = Cardinality(fds)
  BY DEF LobbyInv, ArraysAgree
<1> HIDE DEF fds
<1>4. IsFiniteSet(fds \cup all) /\ Cardinality(fds \cup all) = Cardinality(fds) + Cardinality(all)
  <2>1. /\ IsFiniteSet(fds \cup all)
        /\ Cardinality(fds \cup all) = Cardinality(fds) + Cardinality(all) - Cardinality(fds \cap all)
    BY <1>2, FS_Union
  <2>2. Cardinality(fds \cap all) = 0 /\ Cardinality(fds) \in Nat /\ Cardinality(all) \in Nat
    BY <1>2, FS_EmptySet, FS_CardinalityType
  <2>3. QED
    BY <2>1, <2>2
<1>5. max_players_fds'[l] # 0 => n = Cardinality(fds \cup all)
  BY <1>3, <1>4
<1> HIDE DEF n
<1>6. players_fds'[l] = fds \cup all /\ \A m \in Lobby \ {l} : players_fds'[m] = players_fds[m]
  BY <1>1 DEF LobbyInv, LobbyTypes
<1>7. LobbyTypes'
  BY <1>1, <1>4, <1>6 DEF LobbyInv, LobbyTypes
<1>8. \A m \in Lobby : players_fds[m] \cap all = {}
  BY DEF LobbyInv, ArraysAgree
<1>9. \A m \in Lobby : players_fds'[m] \cap polled' = {}
  BY <1>6 DEF LobbyInv, ArraysAgree, fds
<1>10. \A m, k \in Lobby : m # k => players_fds'[m] \cap players_fds'[k] = {}
  BY <1>6, <1>8 DEF LobbyInv, ArraysAgree, fds
<1>11. \A m \in Lobby :
           /\ lobbyMem'[m] = "live" /\ max_players_fds'[m] # 0 =>
                  current_players_fds'[m] = Cardinality(players_fds'[m])
           /\ lobbyMem'[m] = "unused" => players_fds'[m] = {} /\ current_players_fds'[m] = 0
  BY <1>1, <1>5, <1>6 DEF LobbyInv, LobbyTypes, ArraysAgree
<1>12. ListAgrees' /\ MembersAgree'
  BY ListKept DEF LobbyInv, MembersAgree
<1>13. QED
  BY <1>7, <1>9, <1>10, <1>11, <1>12 DEF LobbyInv, ArraysAgree

\* The array of a lobby is lost.
LEMMA LostKeeps ==
  ASSUME LobbyInv, NEW l \in Lobby, NEW n, polled' \subseteq polled, lobbyMem[l] # "unused",
         max_players_fds' = [max_players_fds EXCEPT ![l] = 0],
         players_fds' = [players_fds EXCEPT ![l] = {}],
         current_players_fds' = [current_players_fds EXCEPT ![l] = n],
         UNCHANGED <<lobbyMem, lobbyId, players, n_current_players, current_lobbys, current_active_lobbys>>
  PROVE  LobbyInv'
<1>1. LobbyTypes'
  BY FS_EmptySet DEF LobbyInv, LobbyTypes
<1>2. ArraysAgree'
  BY DEF LobbyInv, LobbyTypes, ArraysAgree
<1>3. QED
  BY <1>1, <1>2, ListKept DEF LobbyInv, MembersAgree

LEMMA PollAllKeeps ==
  ASSUME LobbyInv, NEW l \in Lobby, lobbyMem[l] = "live", G!PollAll(l),
         UNCHANGED <<lobbyMem, lobbyId, players, n_current_players, current_lobbys, current_active_lobbys>>
  PROVE  LobbyInv'
<1> DEFINE all == G!ToSet(players[l])
           missing == G!Cardinality(all) - free_fds[l]
<1>1. IsFiniteSet(all)
  BY FinitePlayers DEF LobbyInv, LobbyTypes
<1> HIDE DEF all
<1>2. CASE UNCHANGED <<polled, players_fds, current_players_fds, max_players_fds>>
  BY <1>2, ListKept DEF LobbyInv, LobbyTypes, MembersAgree, ArraysAgree
<1>3. CASE /\ all \subseteq polled /\ polled' = polled \ all
           /\ G!Polls(l, all, free_fds[l] - G!Cardinality(all)) /\ UNCHANGED max_players_fds
  BY <1>1, <1>3, PollsKeep DEF LobbyInv, LobbyTypes
<1>4. CASE polled' = polled \ all /\ UNCHANGED <<players_fds, current_players_fds, max_players_fds>>
  BY <1>4, ListKept DEF LobbyInv, LobbyTypes, MembersAgree, ArraysAgree
<1>5. CASE all \subseteq polled /\ polled' = polled \ all /\ G!Grows(l, all, missing)
  <2>1. CASE \E m \in G!Sizes(l) : \E f \in 0 .. (m \div 2) - 1 :
                 /\ max_players_fds' = [max_players_fds EXCEPT ![l] = m] /\ G!Polls(l, all, f)
    <3>1. PICK m, f : max_players_fds' = [max_players_fds EXCEPT ![l] = m] /\ G!Polls(l, all, f)
      BY <2>1
    <3>2. max_players_fds[l] # 0
      BY <1>5 DEF G!Grows
    <3>3. /\ DOMAIN max_players_fds' = Lobby
          /\ \A k \in Lobby \ {l} : max_players_fds'[k] = max_players_fds[k]
      BY <3>1 DEF LobbyInv, LobbyTypes
    <3>4. QED
      BY <1>1, <1>5, <3>1, <3>2, <3>3, PollsKeep
  <2>2. CASE \E n : /\ max_players_fds' = [max_players_fds EXCEPT ![l] = 0]
                    /\ players_fds' = [players_fds EXCEPT ![l] = {}]
                    /\ current_players_fds' = [current_players_fds EXCEPT ![l] = n]
    BY <1>5, <2>2, LostKeeps
  <2>3. QED
    BY <1>5, <2>1, <2>2 DEF G!Grows
<1>6. QED
  BY <1>2, <1>3, <1>4, <1>5 DEF G!PollAll, G!arrays, all

LEMMA StartLobbyKeeps ==
  ASSUME LobbyInv, NEW c, NEW i, G!StartLobby(c, i)
  PROVE  LobbyInv'
<1> DEFINE l == current_lobbys[G!PlaceOf(i)]
<1>1. CASE G!Crash
  BY <1>1, CrashKeepsLobbies
<1>2. CASE /\ G!PollAll(l)
           /\ UNCHANGED <<lobbyMem, lobbyId, players, n_current_players, current_lobbys,
                          current_active_lobbys>>
  <2>1. l \in Lobby /\ lobbyMem[l] = "live"
    BY LobbyPlace DEF LobbyInv, LobbyTypes, ListAgrees, G!StartLobby
  <2>2. QED
    BY <1>2, <2>1, PollAllKeeps
<1>3. QED
  BY <1>1, <1>2 DEF G!StartLobby, G!members, G!game

LEMMA ClientLostKeeps ==
  ASSUME LobbyInv, NEW c, G!ClientLost(c)
  PROVE  LobbyInv'
<1>1. /\ polled' = polled \ {c}
      /\ UNCHANGED <<lobbyMem, lobbyId, players, n_current_players, players_fds, current_players_fds,
                     max_players_fds, current_lobbys, current_active_lobbys>>
  BY DEF G!ClientLost, G!members, G!arrays, G!game
<1>2. ArraysAgree'
  BY <1>1 DEF LobbyInv, ArraysAgree
<1>3. QED
  BY <1>1, <1>2 DEF LobbyInv, LobbyTypes, ListAgrees, MembersAgree

LEMMA DestroyKeeps ==
  ASSUME LobbyInv, NEW l \in Lobby, lobbyMem[l] = "live", G!Destroy(l)
  PROVE  LobbyInv'
<1>1. /\ lobbyMem[l] = "live" /\ G!Unregister(l)
      /\ lobbyMem' = [lobbyMem EXCEPT ![l] = "freed"]
      /\ players' = [players EXCEPT ![l] = <<>>] /\ players_fds' = [players_fds EXCEPT ![l] = {}]
      /\ UNCHANGED <<polled, lobbyId, n_current_players, current_players_fds, max_players_fds>>
  BY DEF G!Destroy, G!clients
<1> USE DEF LobbyInv
<1>2. Len(current_lobbys) \in Nat
  BY DEF LobbyTypes
<1>3. CASE current_lobbys = <<>>
  <2>1. current_lobbys' = <<>> /\ current_active_lobbys' = current_active_lobbys
    BY <1>1, <1>3 DEF G!Unregister, G!game
  <2>2. LobbyTypes'
    BY <1>1, <2>1, FS_EmptySet DEF LobbyTypes
  <2>3. ListAgrees'
    BY <1>3, <2>1 DEF ListAgrees
  <2>4. MembersAgree' /\ ArraysAgree'
    BY <1>1 DEF LobbyTypes, MembersAgree, ArraysAgree
  <2>5. QED
    BY <2>2, <2>3, <2>4
<1>4. CASE current_lobbys # <<>>
  <2> DEFINE p == IF G!PlaceOf(lobbyId[l]) = 0 THEN 1 ELSE G!PlaceOf(lobbyId[l])
             s == G!RemoveAt(current_lobbys, p)
  <2>1. p \in 1 .. Len(current_lobbys)
    BY <1>2, <1>4, LobbyPlace DEF LobbyTypes
  <2>2. \A k \in 1 .. Len(current_lobbys) : current_lobbys[k] = l => k = p
    BY LobbyPlace DEF ListAgrees
  <2>3. current_lobbys' = s /\ current_active_lobbys' = current_active_lobbys - 1
    BY <1>1, <1>4 DEF G!Unregister
  <2> HIDE DEF p
  <2>4. /\ s \in Seq(Lobby) /\ Len(s) = Len(current_lobbys) - 1
        /\ \A k \in 1 .. Len(current_lobbys) - 1 :
               s[k] = IF k < p THEN current_lobbys[k] ELSE current_lobbys[k + 1]
    BY <2>1, WithoutOne DEF LobbyTypes
  <2> HIDE DEF s
  <2>5. LobbyTypes'
    BY <1>1, <2>3, <2>4, FS_EmptySet DEF LobbyTypes
  <2> DEFINE Old(k) == IF k < p THEN k ELSE k + 1
  <2>6. \A k \in 1 .. Len(s) : Old(k) \in 1 .. Len(current_lobbys) /\ Old(k) # p /\ s[k] = current_lobbys[Old(k)]
    BY <1>2, <2>1, <2>4
  <2>7. \A k, n \in 1 .. Len(s) : Old(k) = Old(n) => k = n
    BY <1>2, <2>1, <2>4
  <2> HIDE DEF Old
  <2>8. \A k \in 1 .. Len(s) : s[k] # l /\ s[k] \in Lobby /\ lobbyMem'[s[k]] = "live"
    BY <1>1, <2>2, <2>6 DEF LobbyTypes, ListAgrees
  <2>9. \A k, n \in 1 .. Len(s) : lobbyId[s[k]] = lobbyId[s[n]] => k = n
    BY <2>6, <2>7 DEF ListAgrees
  <2>10. ListAgrees'
    BY <1>1, <1>2, <2>3, <2>4, <2>8, <2>9 DEF ListAgrees
  <2>11. MembersAgree' /\ ArraysAgree'
    BY <1>1 DEF LobbyTypes, MembersAgree, ArraysAgree
  <2>12. QED
    BY <2>5, <2>10, <2>11
<1>5. QED
  BY <1>3, <1>4

LEMMA UnpollKeeps ==
  ASSUME LobbyInv, NEW l \in Lobby, NEW c, G!Unpoll(l, c), lobbyMem[l] = "live",
         UNCHANGED <<polled, lobbyMem>>
  PROVE  /\ ArraysAgree' /\ UNCHANGED max_players_fds
         /\ DOMAIN players_fds' = Lobby /\ DOMAIN current_players_fds' = Lobby
         /\ \A m \in Lobby : IsFiniteSet(players_fds'[m])
<1> DEFINE fds == players_fds[l] \ {c}
<1> USE DEF LobbyInv
<1>1. /\ players_fds' = [players_fds EXCEPT ![l] = fds]
      /\ UNCHANGED max_players_fds
      /\ DOMAIN current_players_fds' = Lobby
      /\ \A m \in Lobby : current_players_fds'[m] =
             IF m = l /\ c \in players_fds[l] THEN current_players_fds[m] - 1 ELSE current_players_fds[m]
  BY DEF G!Unpoll, LobbyTypes
<1>2. IsFiniteSet(fds)
      /\ Cardinality(fds) = IF c \in players_fds[l] THEN Cardinality(players_fds[l]) - 1
                                                    ELSE Cardinality(players_fds[l])
  BY FS_RemoveElement DEF LobbyTypes
<1>3. /\ max_players_fds[l] # 0 => current_players_fds[l] = Cardinality(players_fds[l])
      /\ fds \subseteq players_fds[l]
  BY DEF ArraysAgree
<1> HIDE DEF fds
<1>4. \A m \in Lobby : players_fds'[m] \subseteq players_fds[m]
  BY <1>1, <1>3 DEF LobbyTypes
<1>5. \A m \in Lobby :
           /\ lobbyMem'[m] = "live" /\ max_players_fds'[m] # 0 =>
                  current_players_fds'[m] = Cardinality(players_fds'[m])
           /\ lobbyMem'[m] = "unused" => players_fds'[m] = {} /\ current_players_fds'[m] = 0
  BY <1>1, <1>2, <1>3 DEF LobbyTypes, ArraysAgree
<1>6. ArraysAgree'
  BY <1>4, <1>5 DEF ArraysAgree
<1>7. QED
  BY <1>1, <1>2, <1>6 DEF LobbyTypes

LEMMA TakeOutKeeps ==
  ASSUME LobbyInv, NEW l \in Lobby, NEW c, G!TakeOut(l, c),
         UNCHANGED <<polled, lobbyMem, lobbyId, n_current_players, current_lobbys, current_active_lobbys>>
  PROVE  LobbyInv'
<1> DEFINE s == G!RemoveAt(players[l], G!FirstOf(l, c))
<1> USE DEF LobbyInv
<1>1. /\ players[l] \in Seq(LobbyClient) /\ lobbyMem[l] = "live" /\ G!Unpoll(l, c)
      /\ G!FirstOf(l, c) \in 1 .. Len(players[l]) /\ players' = [players EXCEPT ![l] = s]
  BY PlayerPlace DEF G!TakeOut, LobbyTypes
<1>2. s \in Seq(LobbyClient)
  BY <1>1, WithoutOne
<1> HIDE DEF s
<1>3. LobbyTypes' /\ ArraysAgree'
  BY <1>1, <1>2, UnpollKeeps DEF LobbyTypes
<1>4. QED
  BY <1>3, ListKept DEF MembersAgree

LEMMA UnregisterStrangerKeeps ==
  ASSUME LobbyInv, NEW l \in Lobby, NEW c, G!UnregisterStranger(l, c)
  PROVE  LobbyInv'
<1>1. CASE G!Destroy(l)
  BY <1>1, DestroyKeeps DEF G!UnregisterStranger
<1>2. CASE /\ n_current_players[l] > 1 /\ G!Unpoll(l, c)
           /\ n_current_players' = [n_current_players EXCEPT ![l] = n_current_players[l] - 1]
           /\ UNCHANGED <<polled, lobbyMem, lobbyId, players, current_lobbys, current_active_lobbys>>
  <2>1. lobbyMem[l] = "live"
    BY DEF G!UnregisterStranger
  <2>2. MembersAgree'
    BY <1>2, <2>1 DEF LobbyInv, LobbyTypes, MembersAgree
  <2>3. LobbyTypes' /\ ArraysAgree'
    BY <1>2, <2>1, UnpollKeeps DEF LobbyInv, LobbyTypes
  <2>4. QED
    BY <1>2, <2>2, <2>3, ListKept DEF LobbyInv
<1>3. QED
  BY <1>1, <1>2 DEF G!UnregisterStranger, G!clients, G!game

LEMMA EndKeepsLobbies ==
  ASSUME LobbyInv, G!End
  PROVE  LobbyInv'
<1> DEFINE all == G!ToSet(current_lobbys)
<1>1. /\ lobbyMem' = [l \in Lobby |-> IF l \in all THEN "freed" ELSE lobbyMem[l]]
      /\ players' = [l \in Lobby |-> IF l \in all THEN <<>> ELSE players[l]]
      /\ players_fds' = [l \in Lobby |-> IF l \in all THEN {} ELSE players_fds[l]]
      /\ current_lobbys' = <<>> /\ current_active_lobbys' = 0
      /\ UNCHANGED <<polled, lobbyId, n_current_players, current_players_fds, max_players_fds>>
  BY DEF G!End, G!clients
<1> HIDE DEF all
<1>2. LobbyTypes'
  BY <1>1, FS_EmptySet DEF LobbyInv, LobbyTypes
<1>3. ListAgrees'
  BY <1>1 DEF ListAgrees
<1>4. MembersAgree' /\ ArraysAgree'
  BY <1>1 DEF LobbyInv, MembersAgree, ArraysAgree
<1>5. QED
  BY <1>2, <1>3, <1>4 DEF LobbyInv

LEMMA LobbiesKeep == LobbyInv /\ [G!Next]_(G!vars) => LobbyInv'
<1> SUFFICES ASSUME LobbyInv, [G!Next]_(G!vars)
             PROVE  LobbyInv'
  OBVIOUS
<1>1. CASE UNCHANGED <<polled, lobbyMem, lobbyId, players, n_current_players, players_fds,
                       current_players_fds, max_players_fds, current_lobbys, current_active_lobbys>>
  BY <1>1 DEF LobbyInv, LobbyTypes, ListAgrees, MembersAgree, ArraysAgree
<1>2. ASSUME NEW c \in LobbyClient, NEW l \in Lobby,
             \/ G!CreateLobby(c, l) \/ G!LeaveLobby(l, c) \/ G!UnregisterPlayer(l, c)
             \/ G!UnregisterStranger(l, c) \/ G!LeaveCrashes(l, c)
      PROVE  LobbyInv'
  BY <1>2, CreateLobbyKeeps, TakeOutKeeps, UnregisterStrangerKeeps, CrashKeepsLobbies
  DEF G!LeaveLobby, G!UnregisterPlayer, G!LeaveCrashes, G!clients, G!game
<1>3. ASSUME NEW c \in LobbyClient, NEW i \in Id, G!JoinLobby(c, i) \/ G!StartLobby(c, i)
      PROVE  LobbyInv'
  BY <1>3, JoinLobbyKeeps, StartLobbyKeeps
<1>4. ASSUME NEW l \in Lobby, G!Teardown(l) \/ G!PollUsesFreed(l)
      PROVE  LobbyInv'
  BY <1>4, DestroyKeeps, CrashKeepsLobbies DEF G!Teardown, G!PollUsesFreed
<1>5. CASE UNCHANGED G!vars
  BY <1>1, <1>5 DEF G!vars, G!clients, G!members, G!arrays, G!game
<1>6. QED
  BY <1>2, <1>3, <1>4, <1>5, ClientLostKeeps, EndKeepsLobbies DEF G!Next

LEMMA LobbyInvImplies == LobbyInv => LobbiesAgree
<1> SUFFICES ASSUME LobbyInv  PROVE LobbiesAgree
  OBVIOUS
<1>1. \A l \in G!ToSet(current_lobbys) : lobbyMem[l] = "live"
  BY DEF LobbyInv, LobbyTypes, ListAgrees, G!ToSet
<1>2. G!Cardinality({lobbyId[l] : l \in G!ToSet(current_lobbys)}) = Len(current_lobbys)
  BY AsManyIds, LobbyCardinality DEF LobbyInv
<1>3. \A l \in Lobby : G!Cardinality(players_fds[l]) = Cardinality(players_fds[l])
  BY LobbyCardinality
<1>4. QED
  BY <1>1, <1>2, <1>3 DEF LobbyInv, ListAgrees, MembersAgree, ArraysAgree, LobbiesAgree, G!LobbiesAgree

\* A step is one of the lobbies or leaves them.
LEMMA LobbiesBehave == PartsSpec => G!Spec
<1>1. PartsInit => G!Init
  BY DEF PartsInit
<1>2. [PartsNext]_allVars => [G!Next]_(G!vars)
  <2>1. UNCHANGED lobbyVars => UNCHANGED G!vars
    BY DEF lobbyVars, G!vars, G!clients, G!members, G!arrays, G!game
  <2>2. QED
    BY <2>1 DEF PartsNext, OfHold, OfRegistry, OfAdmins, OfLobbies, OfSessions, allVars
<1>3. QED
  BY <1>1, <1>2, PTL DEF PartsSpec, G!Spec

\* Lobbies, their players and the poll arrays agree (game/game.c, game/lobby.c,
\* game/player.c), for any number of clients and lobbies, whatever ids, sizes of
\* arrays and limits they have.
THEOREM PartsLobbiesAgree == PartsSpec => []LobbiesAgree
BY LobbyInitHolds, LobbiesKeep, LobbyInvImplies, LobbiesBehave, PTL DEF G!Spec

-----------------------------------------------------------------------------
(***************************************************************************)
(* The admins (admin.c)                                                    *)
(***************************************************************************)
AdminTypes ==
    /\ DOMAIN adOpen = A!Fd /\ DOMAIN adMem = A!Conn /\ DOMAIN adFd = A!Conn /\ DOMAIN owner = A!Conn
    /\ DOMAIN admem = A!Admin /\ DOMAIN adSlots = A!Slot /\ admins \in Seq(A!Admin)
    /\ \A c \in A!Conn : adFd[c] \in A!Fd \cup {A!Free} /\ owner[c] \in A!Admin \cup {A!None}
    /\ \A i \in A!Slot : adSlots[i] \in A!Fd \cup {A!Free}
    /\ \A a \in A!Admin : admem[a] \in {"unused", "live", "freed"}
    /\ adminA \in A!Admin \cup {A!None}

AdminCount == current_connections = Cardinality({i \in A!Slot : adSlots[i] # A!Free})

\* A connection has an owner while it lives, and a descriptor.
Owned ==
    /\ \A c \in A!Conn : adMem[c] = "live" <=> owner[c] # A!None
    /\ \A c \in A!Conn : adMem[c] \in {"hold", "live"} => adFd[c] \in A!Fd

\* An admin is in the list once, and one that a broadcast has not reached comes
\* after the one that it has reached.
Reached ==
    /\ \A i, k \in 1 .. Len(admins) : admins[i] = admins[k] => i = k
    /\ \A i, k \in 1 .. Len(admins) :
           admins[i] \in there \ sent => to # A!None /\ (admins[k] = to => k <= i)
    /\ pcU = "done" => to = A!None

\* The admin that the on hold thread has made, and has not inserted yet, is
\* its own.
Making == pcHold \in {"poll", "end", "insert"}
Unlisted(a) == a \notin A!Listed /\ a \notin there /\ a # to
MakerKnows ==
    /\ \A a \in A!Admin : admem[a] = "unused" => Unlisted(a) /\ \A c \in A!Conn : owner[c] # a
    /\ Making =>
           /\ connHold \in A!Conn /\ adminH \in A!Admin /\ admem[adminH] = "live"
           /\ \A c \in A!Conn : owner[c] = adminH <=> c = connHold
           /\ Unlisted(adminH) /\ adminH # adminA
    /\ pcHold = "join" => connHold \in A!Conn /\ adMem[connHold] = "hold" /\ adminH \in A!Admin
    /\ pcHold \in {"find", "pollJoined", "send"} => connHold \in A!Conn

\* The admin that the poll thread is busy with lives and stays in the list
\* until that thread takes it out.
WalkerKnows ==
    /\ adIdx \in Nat /\ (pcA # "poll" => adIdx # 0)
    /\ adminA # A!None => admem[adminA] = "live"
    /\ pcA \in {"handle", "remove", "close", "unlist"} => adminA \in A!Listed
    /\ pcA = "delete" => adminA # A!None
    /\ pcA \in {"handle", "remove", "close"} => connA \in A!Conn /\ owner[connA] = adminA
    /\ pcA = "close" /\ ~ last => \E c \in A!Conn \ {connA} : owner[c] = adminA

\* As long as nothing was confused.  The descriptors of the connections differ.
OpensOwn == \A c \in A!Conn : adMem[c] \in {"hold", "live"} => adOpen[adFd[c]] = c

\* An admin lives in the list, or is made or deleted.
Apart(a) == (pcA = "delete" /\ a = adminA) \/ (Making /\ a = adminH)
ListsLive ==
    /\ \A c \in A!Conn : adMem[c] = "live" => owner[c] \in A!Listed \/ Apart(owner[c])
    /\ \A a \in A!Listed : admem[a] = "live"
    /\ \A a \in A!Admin : admem[a] = "live" => a \in A!Listed \/ Apart(a)
    /\ pcA = "delete" => adminA \notin A!Listed
    /\ \A a \in A!Listed : (pcA = "unlist" /\ a = adminA) \/ \E c \in A!Conn : owner[c] = a

\* A connection is polled, unless the array was full when it came, it is not
\* registered yet, or it is being removed.
Registering == pcHold \in {"poll", "find", "pollJoined"}
Off(c) ==
    \/ c \in stranded
    \/ Registering /\ c = connHold
    \/ pcA = "close" /\ c = connA
    \/ pcA = "delete" /\ owner[c] = adminA
PollsLive ==
    /\ \A c \in A!Conn : adMem[c] = "live" => (Off(c) <=> \A i \in A!Slot : adSlots[i] # adFd[c])
    /\ \A i, k \in A!Slot : adSlots[i] = adSlots[k] => i = k \/ adSlots[i] = A!Free
    /\ \A i \in A!Slot :
           adSlots[i] # A!Free => \E c \in A!Conn : adMem[c] = "live" /\ adFd[c] = adSlots[i]

\* The two threads are busy with different connections.
BusyApart ==
    /\ \A c \in A!Conn : c \in stranded => adMem[c] \notin {"unused", "hold"}
    /\ Registering => connHold \notin stranded
    /\ Registering /\ pcA \in {"handle", "remove", "close"} => connHold # connA
    /\ pcHold = "pollJoined" /\ adMem[connHold] = "live" => owner[connHold] = adminH

AdminInv ==
    /\ AdminTypes /\ AdminCount /\ Owned /\ Reached /\ MakerKnows /\ WalkerKnows
    /\ ~ confused => OpensOwn /\ ListsLive /\ PollsLive /\ BusyApart

-----------------------------------------------------------------------------
(* Lemmas about the admins                                                 *)

LEMMA AdminNames ==
  /\ A!None \notin A!Admin /\ A!None \notin A!Conn /\ A!Free \notin A!Fd
  /\ A!Slot \subseteq Nat /\ A!Fd \subseteq Nat /\ IsFiniteSet(A!Slot)
<1>1. A!Slot \subseteq Nat /\ A!Fd \subseteq Nat /\ A!None \notin A!Admin /\ A!None \notin A!Conn
      /\ A!Free \notin A!Fd
  BY TablesAssumption, OnHoldAssumption DEF A!Slot, A!Fd, A!Conn, A!Admin, A!None, A!Free
<1>2. IsFiniteSet(A!Slot)
  BY TablesAssumption, FS_Interval DEF A!Slot
<1>3. QED
  BY <1>1, <1>2

\* The lowest of some numbers, and the first place of a search, is one of them.
LEMMA AdminLowest ==
  ASSUME NEW J \in SUBSET Nat, J # {}
  PROVE  A!MinOf(J) \in J /\ A!Min(J) \in J
<1>1. LowestOf(J) \in J
  BY LowestIsMember
<1>2. A!MinOf(J) = LowestOf(J) /\ A!Min(J) = LowestOf(J)
  BY DEF A!MinOf, A!Min, LowestOf
<1>3. QED
  BY <1>1, <1>2

LEMMA AdminFinds ==
  ASSUME AdminTypes, NEW J, J \subseteq 1 .. Len(admins), J # {}
  PROVE  A!Min(J) \in J
<1>1. J \in SUBSET Nat
  BY DEF AdminTypes
<1>2. QED
  BY <1>1, AdminLowest

LEMMA ListedAt ==
  ASSUME AdminTypes
  PROVE  /\ Len(admins) \in Nat /\ A!Listed \subseteq A!Admin
         /\ \A i \in 1 .. Len(admins) : admins[i] \in A!Listed
         /\ \A a \in A!Listed : \E i \in 1 .. Len(admins) : admins[i] = a
BY DEF AdminTypes, A!Listed, A!ToSet

LEMMA PositionFinds ==
  ASSUME AdminTypes, NEW f
  PROVE  \/ /\ A!BySockFd(f) = A!None
            /\ \A a \in A!Listed : \A c \in A!Conn : owner[c] = a => adFd[c] # f
         \/ A!BySockFd(f) \in A!Listed /\ \E c \in A!Conn : owner[c] = A!BySockFd(f) /\ adFd[c] = f
<1> DEFINE Has(i) == \E c \in A!Connections(admins[i]) : adFd[c] = f
           J == {i \in 1 .. Len(admins) : Has(i)}
<1>1. A!Position(f) = IF J # {} THEN A!Min(J) ELSE 0
  BY DEF A!Position, A!SelectInSeq
<1>2. J # {} => A!Min(J) \in 1 .. Len(admins) /\ Has(A!Min(J))
  <2>1. J \subseteq 1 .. Len(admins) /\ \A i \in J : Has(i)
    OBVIOUS
  <2> HIDE DEF J
  <2>2. QED
    BY <2>1, AdminFinds
<1>3. J = {} => \A i \in 1 .. Len(admins) : ~ Has(i)
  OBVIOUS
<1> HIDE DEF J
<1>4. CASE J = {}
  <2>1. A!BySockFd(f) = A!None
    BY <1>1, <1>4 DEF A!BySockFd
  <2>2. ASSUME NEW a \in A!Listed, NEW c \in A!Conn, owner[c] = a
        PROVE  adFd[c] # f
    <3>1. PICK i \in 1 .. Len(admins) : admins[i] = a
      BY ListedAt
    <3>2. QED
      BY <1>3, <1>4, <2>2, <3>1 DEF A!Connections
  <2>3. QED
    BY <2>1, <2>2
<1>5. CASE J # {}
  <2> DEFINE i == A!Min(J)
  <2>1. i \in 1 .. Len(admins) /\ Has(i) /\ A!Position(f) = i
    BY <1>1, <1>2, <1>5
  <2> HIDE DEF i
  <2>2. i # 0
    BY <2>1, ListedAt
  <2>3. A!BySockFd(f) = admins[i]
    BY <2>1, <2>2 DEF A!BySockFd
  <2>4. QED
    BY <2>1, <2>3, ListedAt DEF A!Connections
<1>6. QED
  BY <1>4, <1>5

\* A descriptor gets the first free place of the array.
LEMMA AdminPolls ==
  ASSUME AdminTypes, AdminCount, NEW fd \in A!Fd, A!IndexOf(A!Free) # {}, A!Poll(fd)
  PROVE  /\ AdminCount'
         /\ \E p \in A!Slot : adSlots[p] = A!Free /\ adSlots' = [adSlots EXCEPT ![p] = fd]
<1> DEFINE p == A!MinOf(A!IndexOf(A!Free))
           Used == {i \in A!Slot : adSlots[i] # A!Free}
<1>1. p \in A!IndexOf(A!Free)
  BY AdminLowest, AdminNames DEF A!IndexOf
<1>2. p \in A!Slot /\ adSlots[p] = A!Free
  BY <1>1 DEF A!IndexOf
<1>3. adSlots' = [adSlots EXCEPT ![p] = fd] /\ current_connections' = current_connections + 1
  BY DEF A!Poll
<1> HIDE DEF p
<1>4. {i \in A!Slot : adSlots'[i] # A!Free} = Used \cup {p}
  BY <1>2, <1>3, AdminNames DEF AdminTypes
<1>5. p \notin Used /\ IsFiniteSet(Used)
  <2>1. Used \subseteq A!Slot /\ p \notin Used
    BY <1>2
  <2>2. QED
    BY <2>1, AdminNames, FS_Subset
<1> HIDE DEF Used
<1>6. Cardinality(Used \cup {p}) = Cardinality(Used) + 1
  BY <1>5, FS_AddElement
<1>7. AdminCount'
  BY <1>3, <1>4, <1>6 DEF AdminCount, Used
<1>8. QED
  BY <1>2, <1>3, <1>7

\* Descriptors leave the array.
LEMMA AdminUnpolls ==
  ASSUME AdminTypes, AdminCount, NEW fds \in SUBSET A!Fd, A!Unpoll(fds)
  PROVE  /\ AdminCount' /\ DOMAIN adSlots' = A!Slot
         /\ \A i \in A!Slot : adSlots'[i] = IF adSlots[i] \in fds THEN A!Free ELSE adSlots[i]
<1> DEFINE Used == {i \in A!Slot : adSlots[i] # A!Free}
           Gone == {i \in A!Slot : adSlots[i] \in fds}
<1>1. /\ DOMAIN adSlots' = A!Slot
      /\ \A i \in A!Slot : adSlots'[i] = IF adSlots[i] \in fds THEN A!Free ELSE adSlots[i]
  BY DEF A!Unpoll
<1>2. current_connections' = current_connections - Cardinality(Gone)
  <2>1. current_connections' = current_connections - A!Cardinality(Gone)
    BY DEF A!Unpoll
  <2>2. A!Cardinality(Gone) = Cardinality(Gone)
    BY DEF A!Cardinality, Cardinality
  <2>3. QED
    BY <2>1, <2>2
<1>3. {i \in A!Slot : adSlots'[i] # A!Free} = Used \ Gone /\ Gone \subseteq Used /\ Used \subseteq A!Slot
  BY <1>1, AdminNames
<1> HIDE DEF Used, Gone
<1>4. IsFiniteSet(Used) /\ Used \cap Gone = Gone
  BY <1>3, AdminNames, FS_Subset
<1>5. Cardinality(Used \ Gone) = Cardinality(Used) - Cardinality(Gone)
  BY <1>4, FS_Difference
<1>6. AdminCount'
  BY <1>2, <1>3, <1>5 DEF AdminCount, Used
<1>7. QED
  BY <1>1, <1>6

\* The list loses the admin at a place.
LEMMA ListShrinks ==
  ASSUME AdminTypes, Reached, NEW p \in 1 .. Len(admins), admins' = A!RemoveAt(admins, p),
         UNCHANGED <<pcU, to, sent, there>>
  PROVE  admins' \in Seq(A!Admin) /\ Reached' /\ A!Listed' = A!Listed \ {admins[p]}
<1> DEFINE t == A!RemoveAt(admins, p)
           Old(k) == IF k < p THEN k ELSE k + 1
<1>0. Len(admins) \in Nat
  BY ListedAt
<1>1. /\ t \in Seq(A!Admin) /\ Len(t) = Len(admins) - 1
      /\ \A k \in 1 .. Len(admins) - 1 : t[k] = IF k < p THEN admins[k] ELSE admins[k + 1]
  <2>1. t = G!RemoveAt(admins, p)
    BY DEF A!RemoveAt, G!RemoveAt
  <2>2. admins \in Seq(A!Admin)
    BY DEF AdminTypes
  <2> HIDE DEF t
  <2>3. QED
    BY <2>1, <2>2, WithoutOne
<1>2. admins' = t
  OBVIOUS
<1> HIDE DEF t
<1>3. \A k \in 1 .. Len(t) : Old(k) \in 1 .. Len(admins) /\ Old(k) # p /\ t[k] = admins[Old(k)]
  BY <1>0, <1>1
<1>4. \A j, k \in 1 .. Len(t) : (Old(j) = Old(k) => j = k) /\ (Old(j) <= Old(k) => j <= k)
  BY <1>0, <1>1
<1>5. \A i \in 1 .. Len(admins) : i # p => \E k \in 1 .. Len(t) : Old(k) = i
  <2> SUFFICES ASSUME NEW i \in 1 .. Len(admins), i # p
               PROVE  \E k \in 1 .. Len(t) : Old(k) = i
    OBVIOUS
  <2>1. CASE i < p
    <3>1. i \in 1 .. Len(t) /\ Old(i) = i
      BY <1>0, <1>1, <2>1
    <3>2. QED
      BY <3>1
  <2>2. CASE i > p
    <3>1. i - 1 \in 1 .. Len(t) /\ Old(i - 1) = i
      BY <1>0, <1>1, <2>2
    <3>2. QED
      BY <3>1
  <2>3. QED
    BY <1>0, <2>1, <2>2
<1> HIDE DEF Old
<1>6. Reached'
  <2>1. \A j, k \in 1 .. Len(t) : t[j] = t[k] => j = k
    BY <1>3, <1>4 DEF Reached
  <2>2. \A j, k \in 1 .. Len(t) :
            t[j] \in there \ sent => to # A!None /\ (t[k] = to => k <= j)
    BY <1>3, <1>4 DEF Reached
  <2>3. QED
    BY <1>2, <2>1, <2>2 DEF Reached
<1>7. A!Listed' = A!Listed \ {admins[p]}
  <2>1. \A x : x \in A!ToSet(t) <=> \E k \in 1 .. Len(t) : t[k] = x
    BY <1>1 DEF A!ToSet
  <2>2. \A x : x \in A!Listed <=> \E i \in 1 .. Len(admins) : admins[i] = x
    BY DEF AdminTypes, A!Listed, A!ToSet
  <2>3. A!Listed' = A!ToSet(t)
    BY <1>2 DEF A!Listed
  <2>4. ASSUME NEW x
        PROVE  x \in A!ToSet(t) <=> x \in A!Listed /\ x # admins[p]
    <3>1. ASSUME NEW k \in 1 .. Len(t), t[k] = x  PROVE x \in A!Listed /\ x # admins[p]
      <4>1. Old(k) \in 1 .. Len(admins) /\ Old(k) # p /\ admins[Old(k)] = x
        BY <1>3, <3>1
      <4>2. QED
        BY <2>2, <4>1 DEF Reached
    <3>2. ASSUME NEW i \in 1 .. Len(admins), admins[i] = x, x # admins[p]
          PROVE  x \in A!ToSet(t)
      <4>1. PICK k \in 1 .. Len(t) : Old(k) = i
        BY <1>5, <3>2
      <4>2. QED
        BY <1>3, <2>1, <3>2, <4>1
    <3>3. QED
      BY <2>1, <2>2, <3>1, <3>2
  <2>5. QED
    BY <2>3, <2>4
<1>8. QED
  BY <1>1, <1>2, <1>6, <1>7

\* The list gets an admin, that a broadcast does not know of, at a place.
LEMMA ListGrows ==
  ASSUME AdminTypes, Reached, NEW a \in A!Admin, Unlisted(a), NEW p \in 1 .. Len(admins) + 1,
         admins' \in Seq(A!Admin), Len(admins') = Len(admins) + 1,
         \A k \in 1 .. Len(admins) + 1 :
             admins'[k] = IF k = p THEN a ELSE IF k < p THEN admins[k] ELSE admins[k - 1],
         UNCHANGED <<pcU, to, sent, there>>
  PROVE  Reached' /\ A!Listed' = A!Listed \cup {a}
<1> DEFINE t == admins'
           Old(k) == IF k < p THEN k ELSE k - 1
<1>0. Len(admins) \in Nat
  BY ListedAt
<1>1. t[p] = a /\ p \in 1 .. Len(t)
  BY <1>0
<1>2. \A k \in 1 .. Len(t) : k # p => Old(k) \in 1 .. Len(admins) /\ t[k] = admins[Old(k)]
  BY <1>0
<1>3. \A j, k \in 1 .. Len(t) :
          j # p /\ k # p => (Old(j) = Old(k) => j = k) /\ (Old(j) <= Old(k) => j <= k)
  BY <1>0
<1>4. \A i \in 1 .. Len(admins) : \E k \in 1 .. Len(t) : k # p /\ Old(k) = i
  <2> SUFFICES ASSUME NEW i \in 1 .. Len(admins)
               PROVE  \E k \in 1 .. Len(t) : k # p /\ Old(k) = i
    OBVIOUS
  <2>1. CASE i < p
    <3>1. i \in 1 .. Len(t) /\ Old(i) = i /\ i # p
      BY <1>0, <2>1
    <3>2. QED
      BY <3>1
  <2>2. CASE i >= p
    <3>1. i + 1 \in 1 .. Len(t) /\ Old(i + 1) = i /\ i + 1 # p
      BY <1>0, <2>2
    <3>2. QED
      BY <3>1
  <2>3. QED
    BY <1>0, <2>1, <2>2
<1> HIDE DEF Old
<1>5. \A k \in 1 .. Len(t) : k # p => t[k] # a
  BY <1>2, ListedAt DEF Unlisted
<1>6. Reached'
  <2>1. \A j, k \in 1 .. Len(t) : t[j] = t[k] => j = k
    BY <1>1, <1>5, <1>2, <1>3 DEF Reached
  <2>2. ASSUME NEW j \in 1 .. Len(t), NEW k \in 1 .. Len(t), t[j] \in there \ sent
        PROVE  to # A!None /\ (t[k] = to => k <= j)
    <3>1. j # p /\ (t[k] = to => k # p)
      BY <1>1, <2>2 DEF Unlisted
    <3>2. Old(j) \in 1 .. Len(admins) /\ t[j] = admins[Old(j)]
      BY <1>2, <3>1
    <3>3. to # A!None
      BY <2>2, <3>2 DEF Reached
    <3>4. ASSUME t[k] = to  PROVE k <= j
      <4>1. k # p /\ Old(k) \in 1 .. Len(admins) /\ t[k] = admins[Old(k)]
        BY <1>2, <3>1, <3>4
      <4>2. Old(k) <= Old(j)
        BY <2>2, <3>2, <3>4, <4>1 DEF Reached
      <4>3. QED
        BY <1>3, <3>1, <4>1, <4>2
    <3>5. QED
      BY <3>3, <3>4
  <2>3. QED
    BY <2>1, <2>2 DEF Reached
<1>7. A!Listed' = A!Listed \cup {a}
  <2>1. \A x : x \in A!Listed' <=> \E k \in 1 .. Len(t) : t[k] = x
    BY DEF A!Listed, A!ToSet
  <2>2. \A x : x \in A!Listed <=> \E i \in 1 .. Len(admins) : admins[i] = x
    BY ListedAt
  <2>3. ASSUME NEW x
        PROVE  x \in A!Listed' <=> x \in A!Listed \/ x = a
    <3>1. ASSUME NEW i \in 1 .. Len(admins), admins[i] = x  PROVE x \in A!Listed'
      <4>1. PICK k \in 1 .. Len(t) : k # p /\ Old(k) = i
        BY <1>4
      <4>2. QED
        BY <1>2, <2>1, <3>1, <4>1
    <3>2. ASSUME NEW k \in 1 .. Len(t), t[k] = x  PROVE x \in A!Listed \/ x = a
      BY <1>1, <1>2, <2>2, <3>2
    <3>3. QED
      BY <1>1, <2>1, <2>2, <3>1, <3>2
  <2>4. QED
    BY <2>3
<1>8. QED
  BY <1>6, <1>7

\* The connections and admins that the threads are busy with are made.
LEMMA BusyWith ==
  ASSUME AdminInv
  PROVE  /\ Registering => connHold \in A!Conn
         /\ Making => connHold \in A!Conn /\ adminH \in A!Admin /\ adminH # adminA
         /\ \A c \in A!Conn : c = connHold /\ Making => adMem[c] = "live"
         /\ \A c, d \in A!Conn : ~ confused /\ adFd[c] = adFd[d] /\ adMem[c] \in {"hold", "live"}
                                 /\ adMem[d] \in {"hold", "live"} => c = d
<1>1. Making => owner[connHold] # A!None
  BY AdminNames DEF AdminInv, MakerKnows
<1>2. QED
  BY <1>1 DEF AdminInv, MakerKnows, Owned, OpensOwn, Registering, Making

\* A connection that is not registered is not polled.
LEMMA HeldUnpolled ==
  ASSUME AdminInv, ~ confused, NEW c \in A!Conn, adMem[c] = "hold"
  PROVE  \A i \in A!Slot : adSlots[i] # adFd[c]
<1>1. adFd[c] # A!Free
  BY AdminNames DEF AdminInv, Owned
<1>2. ASSUME NEW i \in A!Slot, adSlots[i] = adFd[c]
      PROVE  FALSE
  <2>1. PICK d \in A!Conn : adMem[d] = "live" /\ adFd[d] = adSlots[i]
    BY <1>1, <1>2 DEF AdminInv, PollsLive
  <2>2. QED
    BY <1>2, <2>1, BusyWith
<1>3. QED
  BY <1>2

\* The array takes the connection that the on hold thread registers.
LEMMA PolledNow ==
  ASSUME AdminInv, ~ confused, Registering, connHold \in A!Conn, adMem[connHold] = "live",
         pcA = "delete" => owner[connHold] # adminA,
         NEW p \in A!Slot, adSlots[p] = A!Free,
         \A i \in A!Slot : adSlots'[i] = IF i = p THEN adFd[connHold] ELSE adSlots[i],
         pcHold' \in {"end", "send"},
         UNCHANGED <<adMem, adFd, owner, stranded, connHold, pcA, connA, adminA>>
  PROVE  PollsLive'
<1> USE DEF AdminInv
<1>1. adFd[connHold] \in A!Fd /\ adFd[connHold] # A!Free
  BY AdminNames DEF Owned
<1>2. \A i \in A!Slot : adSlots[i] # adFd[connHold]
  BY DEF PollsLive, Off
<1>3. ~ Off(connHold)'
  BY DEF Off, Registering, BusyApart
<1>4. \A d \in A!Conn : adMem[d] = "live" /\ d # connHold => adFd[d] # adFd[connHold] /\ adFd[d] # A!Free
  BY BusyWith, AdminNames DEF Owned
<1>5. \A d \in A!Conn : d # connHold => (Off(d)' <=> Off(d))
  BY DEF Off, Registering
<1>6. ASSUME NEW d \in A!Conn, adMem[d] = "live"
      PROVE  Off(d)' <=> \A i \in A!Slot : adSlots'[i] # adFd[d]
  <2>1. CASE d = connHold
    BY <1>3, <2>1
  <2>2. CASE d # connHold
    <3>1. (\A i \in A!Slot : adSlots'[i] # adFd[d]) <=> (\A i \in A!Slot : adSlots[i] # adFd[d])
      BY <1>4, <1>6, <2>2
    <3>2. QED
      BY <1>5, <1>6, <2>2, <3>1 DEF PollsLive
  <2>3. QED
    BY <2>1, <2>2
<1>7. \A i, k \in A!Slot : adSlots'[i] = adSlots'[k] => i = k \/ adSlots'[i] = A!Free
  BY <1>2 DEF PollsLive
<1>8. \A i \in A!Slot :
          adSlots'[i] # A!Free => \E d \in A!Conn : adMem[d] = "live" /\ adFd[d] = adSlots'[i]
  BY DEF PollsLive
<1>9. QED
  BY <1>6, <1>7, <1>8 DEF PollsLive

LEMMA InsertedAt ==
  ASSUME NEW T, NEW s \in Seq(T), NEW p \in 1 .. Len(s) + 1, NEW e \in T
  PROVE  /\ A!InsertAt(s, p, e) \in Seq(T) /\ Len(A!InsertAt(s, p, e)) = Len(s) + 1
         /\ \A k \in 1 .. Len(s) + 1 :
                A!InsertAt(s, p, e)[k] = IF k = p THEN e ELSE IF k < p THEN s[k] ELSE s[k - 1]
<1> DEFINE a == SubSeq(s, 1, p - 1)
           b == <<e>>
           c == SubSeq(s, p, Len(s))
           ab == a \o b
           t == A!InsertAt(s, p, e)
<1>0. Len(s) \in Nat
  OBVIOUS
<1>1. a \in Seq(T) /\ Len(a) = p - 1 /\ \A k \in 1 .. p - 1 : a[k] = s[k]
  OBVIOUS
<1>2. c \in Seq(T) /\ Len(c) = Len(s) - p + 1 /\ \A k \in 1 .. Len(s) - p + 1 : c[k] = s[k + p - 1]
  OBVIOUS
<1>3. b \in Seq(T) /\ Len(b) = 1 /\ b[1] = e
  OBVIOUS
<1>4. t = ab \o c
  BY DEF A!InsertAt
<1> HIDE DEF a, b, c, t
<1>5. /\ ab \in Seq(T) /\ Len(ab) = Len(a) + Len(b)
      /\ \A k \in 1 .. Len(a) + Len(b) : ab[k] = IF k <= Len(a) THEN a[k] ELSE b[k - Len(a)]
  BY <1>1, <1>3, ConcatProperties
<1> HIDE DEF ab
<1>6. Len(ab) = p /\ \A k \in 1 .. p : ab[k] = IF k = p THEN e ELSE s[k]
  BY <1>0, <1>1, <1>3, <1>5
<1>7. /\ t \in Seq(T) /\ Len(t) = Len(ab) + Len(c)
      /\ \A k \in 1 .. Len(ab) + Len(c) : t[k] = IF k <= Len(ab) THEN ab[k] ELSE c[k - Len(ab)]
  BY <1>2, <1>4, <1>5, ConcatProperties
<1>8. Len(t) = Len(s) + 1
  BY <1>0, <1>2, <1>6, <1>7
<1>9. ASSUME NEW k \in 1 .. Len(s) + 1
      PROVE  t[k] = IF k = p THEN e ELSE IF k < p THEN s[k] ELSE s[k - 1]
  <2>1. CASE k <= p
    BY <1>0, <1>2, <1>6, <1>7, <2>1
  <2>2. CASE k > p
    <3>1. k - p \in 1 .. Len(s) - p + 1 /\ (k - p) + p - 1 = k - 1
      BY <1>0, <2>2
    <3>2. k \in 1 .. Len(ab) + Len(c) /\ ~(k <= Len(ab)) /\ Len(ab) = p
      BY <1>0, <1>2, <1>6, <2>2
    <3>3. t[k] = c[k - p]
      BY <1>7, <3>2
    <3>4. QED
      BY <1>0, <1>2, <2>2, <3>1, <3>3
  <2>3. QED
    BY <1>0, <2>1, <2>2
<1>10. QED
  BY <1>7, <1>8, <1>9 DEF t

LEMMA InsertedFirst ==
  ASSUME NEW T, NEW s \in Seq(T), NEW e \in T
  PROVE  /\ <<e>> \o s \in Seq(T) /\ Len(<<e>> \o s) = Len(s) + 1
         /\ \A k \in 1 .. Len(s) + 1 : (<<e>> \o s)[k] = IF k = 1 THEN e ELSE s[k - 1]
<1> DEFINE b == <<e>>
<1>1. b \in Seq(T) /\ Len(b) = 1 /\ b[1] = e /\ Len(s) \in Nat
  OBVIOUS
<1> HIDE DEF b
<1>2. /\ b \o s \in Seq(T) /\ Len(b \o s) = Len(b) + Len(s)
      /\ \A k \in 1 .. Len(b) + Len(s) : (b \o s)[k] = IF k <= Len(b) THEN b[k] ELSE s[k - Len(b)]
  BY <1>1, ConcatProperties
<1>3. /\ Len(b \o s) = Len(s) + 1
      /\ \A k \in 1 .. Len(s) + 1 : (b \o s)[k] = IF k = 1 THEN e ELSE s[k - 1]
  BY <1>1, <1>2
<1>4. QED
  BY <1>2, <1>3 DEF b

-----------------------------------------------------------------------------
(* The steps of the on hold thread                                         *)

LEMMA ConnectKeeps ==
  ASSUME AdminInv, NEW c \in A!Conn, A!Connect(c)
  PROVE  AdminInv'
<1> USE DEF AdminInv
<1>1. /\ adMem[c] = "unused"
      /\ DOMAIN adMem' = A!Conn /\ \A d \in A!Conn : adMem'[d] = IF d = c THEN "hold" ELSE adMem[d]
      /\ \E f \in A!Fd :
             /\ adOpen[f] = A!None
             /\ DOMAIN adOpen' = A!Fd /\ \A g \in A!Fd : adOpen'[g] = IF g = f THEN c ELSE adOpen[g]
             /\ DOMAIN adFd' = A!Conn /\ \A d \in A!Conn : adFd'[d] = IF d = c THEN f ELSE adFd[d]
      /\ A!Listed' = A!Listed
      /\ UNCHANGED <<owner, admem, admins, adSlots, current_connections, pcHold, connHold, adminH, pcA,
                    connA, adminA, last, adIdx, pcU, to, sent, there, confused, stranded>>
  <2> DEFINE Unused == {f \in A!Fd : adOpen[f] = A!None}
  <2>1. Unused # {} => A!MinOf(Unused) \in Unused
    BY AdminLowest, AdminNames
  <2>2. QED
    BY <2>1 DEF A!Connect, AdminTypes, A!Listed, A!kernel, A!objects, A!array, A!hold, A!walk,
           A!broadcast, A!history
<1>2. AdminCount' /\ Reached' /\ WalkerKnows'
  BY <1>1 DEF AdminCount, Reached, WalkerKnows
<1>3. AdminTypes'
  BY <1>1, AdminNames DEF AdminTypes
<1>4. Owned'
  BY <1>1, AdminNames DEF Owned, AdminTypes
<1>5. MakerKnows'
  BY <1>1, AdminNames DEF MakerKnows, Making, Unlisted, AdminTypes
<1>6. ~ confused => OpensOwn'
  <2>1. PICK f \in A!Fd :
            /\ adOpen[f] = A!None
            /\ \A g \in A!Fd : adOpen'[g] = IF g = f THEN c ELSE adOpen[g]
            /\ \A d \in A!Conn : adFd'[d] = IF d = c THEN f ELSE adFd[d]
    BY <1>1
  <2>2. ASSUME ~ confused, NEW d \in A!Conn, adMem'[d] \in {"hold", "live"}
        PROVE  adOpen'[adFd'[d]] = d
    <3>1. CASE d = c
      BY <2>1, <3>1
    <3>2. CASE d # c
      <4>1. adMem[d] \in {"hold", "live"} /\ adFd'[d] = adFd[d]
        BY <1>1, <2>1, <2>2, <3>2
      <4>2. adFd[d] \in A!Fd /\ adOpen[adFd[d]] = d /\ d # A!None
        BY <2>2, <4>1, AdminNames DEF Owned, OpensOwn
      <4>3. QED
        BY <2>1, <4>1, <4>2
    <3>3. QED
      BY <3>1, <3>2
  <2>3. QED
    BY <2>2 DEF OpensOwn
<1>7. ~ confused => ListsLive'
  BY <1>1, AdminNames, BusyWith DEF ListsLive, Apart, Making, AdminTypes
<1>8. ~ confused => PollsLive'
  BY <1>1, AdminNames, BusyWith DEF PollsLive, Off, Registering, AdminTypes
<1>9. ~ confused => BusyApart'
  BY <1>1, AdminNames, BusyWith DEF BusyApart, Registering, AdminTypes
<1>10. QED
  BY <1>1, <1>2, <1>3, <1>4, <1>5, <1>6, <1>7, <1>8, <1>9

LEMMA AuthFailsKeeps ==
  ASSUME AdminInv, NEW c \in A!Conn, A!AuthFails(c)
  PROVE  AdminInv'
<1> USE DEF AdminInv
<1>1. /\ pcHold = "idle" /\ adMem[c] = "hold"
      /\ DOMAIN adMem' = A!Conn /\ \A d \in A!Conn : adMem'[d] = IF d = c THEN "freed" ELSE adMem[d]
      /\ DOMAIN adFd' = A!Conn /\ \A d \in A!Conn : adFd'[d] = IF d = c THEN A!Free ELSE adFd[d]
      /\ DOMAIN adOpen' = A!Fd /\ \A f \in A!Fd : adOpen'[f] = IF f = adFd[c] THEN A!None ELSE adOpen[f]
      /\ A!Listed' = A!Listed
      /\ UNCHANGED <<owner, admem, admins, adSlots, current_connections, pcHold, connHold, adminH, pcA,
                    connA, adminA, last, adIdx, pcU, to, sent, there, confused, stranded>>
  BY DEF A!AuthFails, A!Close, AdminTypes, A!Listed, A!kernel, A!objects, A!array, A!hold, A!walk,
         A!broadcast, A!history
<1>2. AdminCount' /\ Reached' /\ WalkerKnows'
  BY <1>1 DEF AdminCount, Reached, WalkerKnows
<1>3. AdminTypes'
  BY <1>1, AdminNames DEF AdminTypes
<1>4. Owned'
  BY <1>1, AdminNames DEF Owned, AdminTypes
<1>5. MakerKnows'
  BY <1>1, AdminNames DEF MakerKnows, Making, Unlisted, AdminTypes
<1>6. ~ confused => OpensOwn'
  <2> SUFFICES ASSUME ~ confused, NEW d \in A!Conn, adMem'[d] \in {"hold", "live"}
               PROVE  adOpen'[adFd'[d]] = d
    BY DEF OpensOwn
  <2>1. d # c /\ adMem[d] \in {"hold", "live"} /\ adFd'[d] = adFd[d] /\ adFd[d] \in A!Fd
    BY <1>1 DEF Owned
  <2>2. adFd[d] # adFd[c]
    BY <1>1, <2>1, BusyWith
  <2>3. QED
    BY <1>1, <2>1, <2>2 DEF OpensOwn
<1>7. ~ confused => ListsLive'
  BY <1>1, AdminNames, BusyWith DEF ListsLive, Apart, Making, AdminTypes
<1>8. ~ confused => PollsLive'
  BY <1>1, AdminNames, BusyWith DEF PollsLive, Off, Registering, AdminTypes
<1>9. ~ confused => BusyApart'
  BY <1>1, AdminNames, BusyWith DEF BusyApart, Registering, AdminTypes
<1>10. QED
  BY <1>1, <1>2, <1>3, <1>4, <1>5, <1>6, <1>7, <1>8, <1>9

LEMMA AuthNewKeeps ==
  ASSUME AdminInv, NEW c \in A!Conn, NEW a \in A!Admin, A!AuthNew(c, a)
  PROVE  AdminInv'
<1> USE DEF AdminInv
<1>1. /\ pcHold = "idle" /\ pcHold' = "poll" /\ connHold' = c /\ adminH' = a
      /\ adMem[c] = "hold" /\ admem[a] = "unused"
      /\ DOMAIN adMem' = A!Conn /\ \A d \in A!Conn : adMem'[d] = IF d = c THEN "live" ELSE adMem[d]
      /\ DOMAIN admem' = A!Admin /\ \A b \in A!Admin : admem'[b] = IF b = a THEN "live" ELSE admem[b]
      /\ DOMAIN owner' = A!Conn /\ \A d \in A!Conn : owner'[d] = IF d = c THEN a ELSE owner[d]
      /\ A!Listed' = A!Listed
      /\ UNCHANGED <<adOpen, adFd, admins, adSlots, current_connections, pcA, connA, adminA, last,
                    adIdx, pcU, to, sent, there, confused, stranded>>
  BY DEF A!AuthNew, A!HoldStep, AdminTypes, A!Listed, A!kernel, A!objects, A!array, A!hold, A!walk,
         A!broadcast, A!history
<1>2. /\ owner[c] = A!None /\ Unlisted(a)
      /\ \A d \in A!Conn :
             owner[d] \in A!Listed \/ (owner[d] = adminA /\ adminA # A!None) => d # c /\ owner'[d] = owner[d]
  BY <1>1, ListedAt, AdminNames DEF Owned, MakerKnows
<1>3. AdminCount' /\ Reached'
  BY <1>1 DEF AdminCount, Reached
<1>4. AdminTypes'
  BY <1>1, <1>2, AdminNames DEF AdminTypes
<1>5. Owned'
  BY <1>1, <1>2, AdminNames DEF Owned, AdminTypes
<1>6. MakerKnows'
  <2>1. Unlisted(a) /\ adminA # a
    BY <1>1, AdminNames DEF MakerKnows, WalkerKnows
  <2>2. \A b \in A!Admin : admem'[b] = "unused" => Unlisted(b)
    BY <1>1 DEF MakerKnows
  <2>3. QED
    BY <1>1, <2>1, <2>2 DEF MakerKnows, Making, Unlisted
<1>7. WalkerKnows'
  <2>1. pcA = "close" => adminA # A!None
    BY ListedAt, AdminNames DEF WalkerKnows
  <2>2. QED
    BY <1>1, <1>2, <2>1, AdminNames DEF WalkerKnows, MakerKnows, Unlisted, AdminTypes
<1>8. ~ confused => OpensOwn'
  BY <1>1, <1>2, AdminNames, BusyWith DEF OpensOwn, AdminTypes
<1>9. ~ confused => ListsLive'
  <2> SUFFICES ASSUME ~ confused  PROVE ListsLive'
    OBVIOUS
  <2>1. \A d \in A!Conn : adMem'[d] = "live" => owner'[d] \in A!Listed' \/ Apart(owner[d])'
    BY <1>2, <1>1, AdminNames, BusyWith DEF ListsLive, Apart, Making, Unlisted
  <2>2. \A b \in A!Listed' : admem'[b] = "live"
    BY ListedAt, <1>2, <1>1, AdminNames, BusyWith DEF ListsLive, Apart, Making, Unlisted
  <2>3. \A b \in A!Admin : admem'[b] = "live" => b \in A!Listed' \/ Apart(b)'
    BY <1>2, <1>1, AdminNames, BusyWith DEF ListsLive, Apart, Making, Unlisted
  <2>4. pcA' = "delete" => adminA' \notin A!Listed'
    BY <1>2, <1>1, AdminNames, BusyWith DEF ListsLive, Apart, Making, Unlisted
  <2>5. \A b \in A!Listed' : (pcA' = "unlist" /\ b = adminA') \/ \E d \in A!Conn : owner'[d] = b
    BY <1>2, <1>1, AdminNames, BusyWith DEF ListsLive, Apart, Making, Unlisted
  <2>6. QED
    BY <2>1, <2>2, <2>3, <2>4, <2>5 DEF ListsLive
<1>10. ~ confused => PollsLive'
  <2> SUFFICES ASSUME ~ confused  PROVE PollsLive'
    OBVIOUS
  <2>1. ASSUME NEW d \in A!Conn, adMem'[d] = "live"
        PROVE  (Off(d)' <=> \A i \in A!Slot : adSlots'[i] # adFd'[d])
    <3>1. CASE d = c
      BY <1>1, <2>1, <3>1, HeldUnpolled DEF Off, Registering
    <3>2. CASE d # c
      <4>1. adMem'[d] = adMem[d] /\ owner'[d] = owner[d]
        BY <1>1, <3>2
      <4>2. Off(d)' <=> Off(d)
        BY <1>1, <3>2, <4>1 DEF Off, Registering
      <4>3. QED
        BY <1>1, <2>1, <4>1, <4>2 DEF PollsLive
    <3>3. QED
      BY <3>1, <3>2
  <2>2. \A i, k \in A!Slot : adSlots'[i] = adSlots'[k] => i = k \/ adSlots'[i] = A!Free
    BY <1>1, AdminNames, BusyWith DEF PollsLive, Off, Registering
  <2>3. \A i \in A!Slot :
            adSlots'[i] # A!Free => \E d \in A!Conn : adMem'[d] = "live" /\ adFd'[d] = adSlots'[i]
    BY <1>1, AdminNames, BusyWith DEF PollsLive, Off, Registering
  <2>4. QED
    BY <2>1, <2>2, <2>3 DEF PollsLive
<1>11. ~ confused => BusyApart'
  <2>1. pcA \in {"handle", "remove", "close"} => owner[connA] # A!None
    BY ListedAt, AdminNames DEF WalkerKnows
  <2>2. QED
    BY <1>1, <1>2, <2>1, AdminNames DEF BusyApart, Registering
<1>12. QED
  BY <1>1, <1>3, <1>4, <1>5, <1>6, <1>7, <1>8, <1>9, <1>10, <1>11

LEMMA RegisterPollKeeps ==
  ASSUME AdminInv, A!RegisterPoll
  PROVE  AdminInv'
<1> USE DEF AdminInv
<1>1. /\ pcHold = "poll" /\ pcHold' = "end"
      /\ AdminCount'
      /\ connHold \in A!Conn /\ adFd[connHold] \in A!Fd
      /\ \E p \in A!Slot :
             /\ adSlots[p] = A!Free /\ DOMAIN adSlots' = A!Slot
             /\ \A i \in A!Slot : adSlots'[i] = IF i = p THEN adFd[connHold] ELSE adSlots[i]
      /\ A!Listed' = A!Listed
      /\ UNCHANGED <<adOpen, adMem, adFd, owner, admem, admins, connHold, adminH, pcA, connA, adminA,
                    last, adIdx, pcU, to, sent, there, confused, stranded>>
  <2>1. pcHold = "poll" /\ A!IndexOf(A!Free) # {} /\ A!Poll(adFd[connHold])
    BY DEF A!RegisterPoll, A!HoldStep
  <2>2. connHold \in A!Conn /\ adFd[connHold] \in A!Fd
    BY <2>1, AdminNames DEF MakerKnows, Making, Owned
  <2>3. QED
    BY <2>1, <2>2, AdminPolls DEF A!RegisterPoll, A!HoldStep, AdminTypes, A!Listed, A!kernel, A!objects,
           A!array, A!hold, A!walk, A!broadcast, A!history
<1>2. Owned' /\ Reached' /\ WalkerKnows' /\ (~ confused => OpensOwn')
  BY <1>1 DEF Owned, Reached, WalkerKnows, OpensOwn
<1>3. AdminTypes'
  BY <1>1, AdminNames DEF AdminTypes
<1>4. AdminCount'
  BY <1>1 DEF AdminCount
<1>5. MakerKnows'
  BY <1>1, AdminNames DEF MakerKnows, Making, Unlisted, AdminTypes
<1>6. ~ confused => ListsLive'
  BY <1>1, AdminNames, BusyWith DEF ListsLive, Apart, Making, AdminTypes
<1>7. ~ confused => PollsLive'
  <2>1. Registering /\ owner[connHold] = adminH /\ adminH # adminA /\ adMem[connHold] = "live"
    BY <1>1, BusyWith DEF Registering, Making, MakerKnows
  <2>2. QED
    BY <1>1, <2>1, PolledNow
<1>8. ~ confused => BusyApart'
  BY <1>1, AdminNames, BusyWith DEF BusyApart, Registering, AdminTypes
<1>9. QED
  BY <1>1, <1>2, <1>3, <1>4, <1>5, <1>6, <1>7, <1>8

LEMMA RegisterFailsKeeps ==
  ASSUME AdminInv, A!RegisterFails
  PROVE  AdminInv'
<1> USE DEF AdminInv
<1>1. /\ pcHold = "poll" /\ pcHold' = "idle" /\ connHold' = A!None /\ adminH' = A!None
      /\ DOMAIN adMem' = A!Conn /\ \A d \in A!Conn : adMem'[d] = IF d = connHold THEN "freed" ELSE adMem[d]
      /\ DOMAIN adFd' = A!Conn /\ \A d \in A!Conn : adFd'[d] = IF d = connHold THEN A!Free ELSE adFd[d]
      /\ DOMAIN owner' = A!Conn /\ \A d \in A!Conn : owner'[d] = IF d = connHold THEN A!None ELSE owner[d]
      /\ DOMAIN admem' = A!Admin /\ \A b \in A!Admin : admem'[b] = IF b = adminH THEN "freed" ELSE admem[b]
      /\ DOMAIN adOpen' = A!Fd
      /\ \A f \in A!Fd : adOpen'[f] = IF f = adFd[connHold] THEN A!None ELSE adOpen[f]
      /\ A!Listed' = A!Listed
      /\ UNCHANGED <<admins, adSlots, current_connections, pcA, connA, adminA, last, adIdx, pcU, to,
                    sent, there, confused, stranded>>
  BY DEF A!RegisterFails, A!HoldStep, A!Close, AdminTypes, A!Listed, A!kernel, A!objects, A!array,
         A!hold, A!walk, A!broadcast, A!history
<1>2. /\ connHold \in A!Conn /\ adminH \in A!Admin /\ Unlisted(adminH) /\ adminH # adminA
      /\ \A d \in A!Conn : owner[d] = adminH <=> d = connHold
      /\ \A d \in A!Conn :
             owner[d] \in A!Listed \/ (owner[d] = adminA /\ adminA # A!None) => d # connHold /\ owner'[d] = owner[d]
  BY <1>1, AdminNames DEF MakerKnows, Making, Unlisted
<1>3. AdminCount' /\ Reached'
  BY <1>1 DEF AdminCount, Reached
<1>4. AdminTypes'
  BY <1>1, <1>2, AdminNames DEF AdminTypes
<1>5. Owned'
  BY <1>1, <1>2, AdminNames DEF Owned, AdminTypes
<1>6. MakerKnows'
  BY <1>1, <1>2, AdminNames DEF MakerKnows, Making, Unlisted, AdminTypes
<1>7. WalkerKnows'
  <2>1. pcA = "close" => adminA # A!None
    BY ListedAt, AdminNames DEF WalkerKnows
  <2>2. QED
    BY <1>1, <1>2, <2>1, AdminNames DEF WalkerKnows, MakerKnows, Unlisted, AdminTypes
<1>8. ~ confused => OpensOwn'
  <2> SUFFICES ASSUME ~ confused, NEW d \in A!Conn, adMem'[d] \in {"hold", "live"}
               PROVE  adOpen'[adFd'[d]] = d
    BY DEF OpensOwn
  <2>1. d # connHold /\ adMem[d] \in {"hold", "live"} /\ adFd'[d] = adFd[d] /\ adFd[d] \in A!Fd
    BY <1>1 DEF Owned
  <2>2. adFd[d] # adFd[connHold]
    BY <1>1, <2>1, BusyWith DEF Making
  <2>3. QED
    BY <1>1, <2>1, <2>2 DEF OpensOwn
<1>9. ~ confused => ListsLive'
  <2> SUFFICES ASSUME ~ confused  PROVE ListsLive'
    OBVIOUS
  <2>1. \A d \in A!Conn : adMem'[d] = "live" => owner'[d] \in A!Listed' \/ Apart(owner[d])'
    BY <1>2, <1>1, AdminNames, BusyWith DEF ListsLive, Apart, Making, Unlisted
  <2>2. \A b \in A!Listed' : admem'[b] = "live"
    BY ListedAt, <1>2, <1>1, AdminNames, BusyWith DEF ListsLive, Apart, Making, Unlisted
  <2>3. \A b \in A!Admin : admem'[b] = "live" => b \in A!Listed' \/ Apart(b)'
    BY <1>2, <1>1, AdminNames, BusyWith DEF ListsLive, Apart, Making, Unlisted
  <2>4. pcA' = "delete" => adminA' \notin A!Listed'
    BY <1>2, <1>1, AdminNames, BusyWith DEF ListsLive, Apart, Making, Unlisted
  <2>5. \A b \in A!Listed' : (pcA' = "unlist" /\ b = adminA') \/ \E d \in A!Conn : owner'[d] = b
    BY <1>2, <1>1, AdminNames, BusyWith DEF ListsLive, Apart, Making, Unlisted
  <2>6. QED
    BY <2>1, <2>2, <2>3, <2>4, <2>5 DEF ListsLive
<1>10. ~ confused => PollsLive'
  BY <1>1, <1>2, AdminNames, BusyWith DEF PollsLive, Off, Registering, AdminTypes
<1>11. ~ confused => BusyApart'
  BY <1>1, <1>2, AdminNames, BusyWith DEF BusyApart, Registering, AdminTypes
<1>12. QED
  BY <1>1, <1>3, <1>4, <1>5, <1>6, <1>7, <1>8, <1>9, <1>10, <1>11

LEMMA ReadEndKeeps ==
  ASSUME AdminInv, A!ReadEnd
  PROVE  AdminInv'
<1> USE DEF AdminInv
<1>1. /\ pcHold = "end" /\ pcHold' = "insert"
      /\ A!Listed' = A!Listed
      /\ UNCHANGED <<adOpen, adMem, adFd, owner, admem, admins, adSlots, current_connections, connHold,
                    adminH, pcA, connA, adminA, last, adIdx, pcU, to, sent, there, confused, stranded>>
  BY DEF A!ReadEnd, A!HoldStep, AdminTypes, A!Listed, A!kernel, A!objects, A!array, A!hold, A!walk,
         A!broadcast, A!history
<1>2. AdminTypes' /\ AdminCount' /\ Owned' /\ Reached' /\ WalkerKnows' /\ (~ confused => OpensOwn')
  BY <1>1 DEF AdminTypes, AdminCount, Owned, Reached, WalkerKnows, OpensOwn
<1>3. MakerKnows'
  BY <1>1, AdminNames DEF MakerKnows, Making, Unlisted, AdminTypes
<1>4. ~ confused => ListsLive'
  BY <1>1, AdminNames, BusyWith DEF ListsLive, Apart, Making, AdminTypes
<1>5. ~ confused => PollsLive'
  BY <1>1, AdminNames, BusyWith DEF PollsLive, Off, Registering, AdminTypes
<1>6. ~ confused => BusyApart'
  BY <1>1, AdminNames, BusyWith DEF BusyApart, Registering, AdminTypes
<1>7. QED
  BY <1>1, <1>2, <1>3, <1>4, <1>5, <1>6

LEMMA AuthTokenKeeps ==
  ASSUME AdminInv, NEW c \in A!Conn, A!AuthToken(c)
  PROVE  AdminInv'
<1> USE DEF AdminInv
<1>1. /\ pcHold = "idle" /\ pcHold' = "join" /\ connHold' = c /\ adminH' \in A!Admin
      /\ adMem[c] = "hold"
      /\ A!Listed' = A!Listed
      /\ UNCHANGED <<adOpen, adMem, adFd, owner, admem, admins, adSlots, current_connections, pcA,
                    connA, adminA, last, adIdx, pcU, to, sent, there, confused, stranded>>
  BY ListedAt DEF A!AuthToken, A!HoldStep, AdminTypes, A!Listed, A!kernel, A!objects, A!array, A!hold,
         A!walk, A!broadcast, A!history
<1>2. AdminTypes' /\ AdminCount' /\ Owned' /\ Reached' /\ WalkerKnows' /\ (~ confused => OpensOwn')
  BY <1>1 DEF AdminTypes, AdminCount, Owned, Reached, WalkerKnows, OpensOwn
<1>3. MakerKnows'
  BY <1>1, AdminNames DEF MakerKnows, Making, Unlisted, AdminTypes
<1>4. ~ confused => ListsLive'
  BY <1>1, AdminNames, BusyWith DEF ListsLive, Apart, Making, AdminTypes
<1>5. ~ confused => PollsLive'
  BY <1>1, AdminNames, BusyWith DEF PollsLive, Off, Registering, AdminTypes
<1>6. ~ confused => BusyApart'
  BY <1>1, AdminNames, BusyWith DEF BusyApart, Registering, AdminTypes
<1>7. QED
  BY <1>1, <1>2, <1>3, <1>4, <1>5, <1>6

LEMMA JoinClientKeeps ==
  ASSUME AdminInv, A!JoinClient
  PROVE  AdminInv'
<1> USE DEF AdminInv
<1>1. /\ pcHold = "join" /\ pcHold' = "find" /\ admem[adminH] = "live"
      /\ connHold \in A!Conn /\ adminH \in A!Admin /\ adMem[connHold] = "hold"
      /\ DOMAIN owner' = A!Conn /\ \A d \in A!Conn : owner'[d] = IF d = connHold THEN adminH ELSE owner[d]
      /\ DOMAIN adMem' = A!Conn /\ \A d \in A!Conn : adMem'[d] = IF d = connHold THEN "live" ELSE adMem[d]
      /\ A!Listed' = A!Listed
      /\ UNCHANGED <<adOpen, adFd, admem, admins, adSlots, current_connections, connHold, adminH, pcA,
                    connA, adminA, last, adIdx, pcU, to, sent, there, confused, stranded>>
  BY DEF MakerKnows, A!JoinClient, A!HoldStep, AdminTypes, A!Listed, A!kernel, A!objects, A!array, A!hold,
     A!walk,
         A!broadcast, A!history
<1>2. /\ owner[connHold] = A!None
      /\ \A d \in A!Conn :
             owner[d] \in A!Listed \/ (owner[d] = adminA /\ adminA # A!None) => d # connHold /\ owner'[d] = owner[d]
  BY <1>1, ListedAt, AdminNames DEF Owned
<1>3. AdminCount' /\ Reached'
  BY <1>1 DEF AdminCount, Reached
<1>4. AdminTypes'
  BY <1>1, <1>2, AdminNames DEF AdminTypes
<1>5. Owned'
  BY <1>1, <1>2, AdminNames DEF Owned, AdminTypes
<1>6. MakerKnows'
  BY <1>1, <1>2, AdminNames DEF MakerKnows, Making, Unlisted, AdminTypes
<1>7. WalkerKnows'
  <2>1. pcA = "close" => adminA # A!None
    BY ListedAt, AdminNames DEF WalkerKnows
  <2>2. QED
    BY <1>1, <1>2, <2>1, AdminNames DEF WalkerKnows, MakerKnows, Unlisted, AdminTypes
<1>8. ~ confused => OpensOwn'
  BY <1>1, <1>2, AdminNames, BusyWith DEF OpensOwn, AdminTypes
<1>9. ~ confused => ListsLive'
  <2> SUFFICES ASSUME ~ confused  PROVE ListsLive'
    OBVIOUS
  <2>1. \A d \in A!Conn : adMem'[d] = "live" => owner'[d] \in A!Listed' \/ Apart(owner[d])'
    BY <1>2, <1>1, AdminNames, BusyWith DEF ListsLive, Apart, Making
  <2>2. \A b \in A!Listed' : admem'[b] = "live"
    BY <1>2, <1>1, AdminNames, BusyWith DEF ListsLive, Apart, Making
  <2>3. \A b \in A!Admin : admem'[b] = "live" => b \in A!Listed' \/ Apart(b)'
    BY <1>2, <1>1, AdminNames, BusyWith DEF ListsLive, Apart, Making
  <2>4. pcA' = "delete" => adminA' \notin A!Listed'
    BY <1>2, <1>1, AdminNames, BusyWith DEF ListsLive, Apart, Making
  <2>5. \A b \in A!Listed' : (pcA' = "unlist" /\ b = adminA') \/ \E d \in A!Conn : owner'[d] = b
    BY <1>2, <1>1, AdminNames, BusyWith DEF ListsLive, Apart, Making
  <2>6. QED
    BY <2>1, <2>2, <2>3, <2>4, <2>5 DEF ListsLive
<1>10. ~ confused => PollsLive'
  <2> SUFFICES ASSUME ~ confused  PROVE PollsLive'
    OBVIOUS
  <2>1. ASSUME NEW d \in A!Conn, adMem'[d] = "live"
        PROVE  (Off(d)' <=> \A i \in A!Slot : adSlots'[i] # adFd'[d])
    <3>1. CASE d = connHold
      BY <1>1, <2>1, <3>1, HeldUnpolled DEF Off, Registering
    <3>2. CASE d # connHold
      <4>1. adMem'[d] = adMem[d] /\ owner'[d] = owner[d]
        BY <1>1, <3>2
      <4>2. Off(d)' <=> Off(d)
        BY <1>1, <3>2, <4>1 DEF Off, Registering
      <4>3. QED
        BY <1>1, <2>1, <4>1, <4>2 DEF PollsLive
    <3>3. QED
      BY <3>1, <3>2
  <2>2. \A i, k \in A!Slot : adSlots'[i] = adSlots'[k] => i = k \/ adSlots'[i] = A!Free
    BY <1>1, AdminNames, BusyWith DEF PollsLive, Off, Registering
  <2>3. \A i \in A!Slot :
            adSlots'[i] # A!Free => \E d \in A!Conn : adMem'[d] = "live" /\ adFd'[d] = adSlots'[i]
    BY <1>1, AdminNames, BusyWith DEF PollsLive, Off, Registering
  <2>4. QED
    BY <2>1, <2>2, <2>3 DEF PollsLive
<1>11. ~ confused => BusyApart'
  <2>1. pcA \in {"handle", "remove", "close"} => owner[connA] # A!None
    BY ListedAt, AdminNames DEF WalkerKnows
  <2>2. QED
    BY <1>1, <1>2, <2>1, AdminNames DEF BusyApart, Registering
<1>12. QED
  BY <1>1, <1>3, <1>4, <1>5, <1>6, <1>7, <1>8, <1>9, <1>10, <1>11

LEMMA FindJoinedKeeps ==
  ASSUME AdminInv, A!FindJoined
  PROVE  AdminInv'
<1> USE DEF AdminInv
<1>1. /\ pcHold = "find" /\ adMem[connHold] = "live" /\ connHold \in A!Conn
      /\ \/ /\ pcHold' = "idle" /\ adminH' = A!None /\ connHold' = A!None
            /\ stranded' = stranded \cup {connHold}
         \/ /\ pcHold' = "pollJoined" /\ UNCHANGED <<connHold, stranded>>
            /\ \E c \in A!Conn : owner[c] = adminH' /\ adFd[c] = adFd[connHold] /\ adminH' \in A!Admin
      /\ A!Listed' = A!Listed
      /\ UNCHANGED <<adOpen, adMem, adFd, owner, admem, admins, adSlots, current_connections, pcA,
                    connA, adminA, last, adIdx, pcU, to, sent, there, confused>>
  <2> DEFINE a == A!BySockFd(adFd[connHold])
  <2>1. pcHold = "find" /\ adMem[connHold] = "live" /\ connHold \in A!Conn
    BY DEF A!FindJoined, MakerKnows
  <2>2. \/ a = A!None
        \/ a \in A!Admin /\ a # A!None /\ \E c \in A!Conn : owner[c] = a /\ adFd[c] = adFd[connHold]
    BY PositionFinds, ListedAt, AdminNames
  <2> HIDE DEF a
  <2>3. /\ pcHold' = (IF a = A!None THEN "idle" ELSE "pollJoined")
        /\ adminH' = a /\ connHold' = IF a = A!None THEN A!None ELSE connHold
        /\ stranded' = IF a = A!None THEN stranded \cup {connHold} ELSE stranded
    BY DEF A!FindJoined, A!HoldStep, a
  <2>4. QED
    BY <2>1, <2>2, <2>3 DEF A!FindJoined, AdminTypes, A!Listed, A!kernel, A!objects, A!array, A!hold,
           A!walk, A!broadcast, A!history
<1>2. AdminTypes' /\ AdminCount' /\ Owned' /\ Reached' /\ WalkerKnows' /\ (~ confused => OpensOwn')
  BY <1>1 DEF AdminTypes, AdminCount, Owned, Reached, WalkerKnows, OpensOwn
<1>3. MakerKnows'
  BY <1>1, AdminNames DEF MakerKnows, Making, Unlisted, AdminTypes
<1>4. ~ confused => ListsLive'
  BY <1>1, AdminNames, BusyWith DEF ListsLive, Apart, Making, AdminTypes
<1>5. ~ confused => PollsLive'
  BY <1>1, AdminNames, BusyWith DEF PollsLive, Off, Registering, AdminTypes
<1>6. ~ confused => BusyApart'
  <2> SUFFICES ASSUME ~ confused  PROVE BusyApart'
    OBVIOUS
  <2>1. \A c, d \in A!Conn :
            adMem[c] = "live" /\ adMem[d] = "live" /\ adFd[c] = adFd[d] => c = d
    BY DEF OpensOwn
  <2>2. adminH' \in A!Admin => pcHold' = "pollJoined" /\ owner[connHold] = adminH'
    BY <1>1, <2>1, AdminNames DEF Owned
  <2>3. QED
    BY <1>1, <2>2, AdminNames DEF BusyApart, Registering
<1>7. QED
  BY <1>1, <1>2, <1>3, <1>4, <1>5, <1>6

LEMMA PollJoinedKeeps ==
  ASSUME AdminInv, A!PollJoined
  PROVE  AdminInv'
<1> USE DEF AdminInv
<1>1. /\ pcHold = "pollJoined" /\ pcHold' = "send"
      /\ adMem[connHold] = "live" /\ connHold \in A!Conn /\ adFd[connHold] \in A!Fd
      /\ AdminCount'
      /\ \/ /\ UNCHANGED stranded
            /\ \E p \in A!Slot :
                   /\ adSlots[p] = A!Free /\ DOMAIN adSlots' = A!Slot
                   /\ \A i \in A!Slot : adSlots'[i] = IF i = p THEN adFd[connHold] ELSE adSlots[i]
         \/ stranded' = stranded \cup {connHold} /\ UNCHANGED adSlots
      /\ confused' = (confused \/ adminH \notin A!Listed)
      /\ A!Listed' = A!Listed
      /\ UNCHANGED <<adOpen, adMem, adFd, owner, admem, admins, connHold, adminH, pcA, connA, adminA,
                    last, adIdx, pcU, to, sent, there>>
  <2>1. pcHold = "pollJoined" /\ adMem[connHold] = "live" /\ connHold \in A!Conn
    BY DEF A!PollJoined, A!HoldStep, MakerKnows
  <2>2. adFd[connHold] \in A!Fd
    BY <2>1 DEF Owned
  <2>3. CASE A!IndexOf(A!Free) # {} /\ A!Poll(adFd[connHold]) /\ UNCHANGED stranded
    BY <2>1, <2>2, <2>3, AdminPolls DEF A!PollJoined, A!HoldStep, AdminTypes, A!Listed, A!kernel,
           A!objects, A!array, A!hold, A!walk, A!broadcast, A!history
  <2>4. CASE stranded' = stranded \cup {connHold} /\ UNCHANGED <<adSlots, ready, current_connections>>
    BY <2>1, <2>2, <2>4 DEF AdminCount, A!PollJoined, A!HoldStep, AdminTypes, A!Listed, A!kernel, A!objects,
           A!array, A!hold, A!walk, A!broadcast, A!history
  <2>5. QED
    BY <2>3, <2>4 DEF A!PollJoined, A!array
<1>2. Owned' /\ Reached' /\ WalkerKnows' /\ (~ confused => OpensOwn')
  BY <1>1 DEF Owned, Reached, WalkerKnows, OpensOwn
<1>3. AdminTypes'
  BY <1>1, AdminNames DEF AdminTypes
<1>4. AdminCount'
  BY <1>1 DEF AdminCount
<1>5. MakerKnows'
  BY <1>1, AdminNames DEF MakerKnows, Making, Unlisted, AdminTypes
<1>6. ~ confused' => ListsLive'
  BY <1>1, AdminNames, BusyWith DEF ListsLive, Apart, Making, AdminTypes
<1>7. ~ confused' => PollsLive'
  <2> SUFFICES ASSUME ~ confused'  PROVE PollsLive'
    OBVIOUS
  <2>1. ~ confused /\ Registering /\ (pcA = "delete" => owner[connHold] # adminA)
    BY <1>1 DEF Registering, BusyApart, ListsLive
  <2>2. CASE UNCHANGED adSlots /\ stranded' = stranded \cup {connHold}
    <3>1. \A d \in A!Conn : Off(d)' <=> Off(d)
      BY <1>1, <2>1, <2>2 DEF Off, Registering
    <3>2. QED
      BY <1>1, <2>1, <2>2, <3>1 DEF PollsLive
  <2>3. CASE UNCHANGED stranded
    BY <1>1, <2>1, <2>2, <2>3, PolledNow
  <2>4. QED
    BY <1>1, <2>2, <2>3
<1>8. ~ confused' => BusyApart'
  BY <1>1, AdminNames, BusyWith DEF BusyApart, Registering, AdminTypes
<1>9. QED
  BY <1>1, <1>2, <1>3, <1>4, <1>5, <1>6, <1>7, <1>8

LEMMA SendSuccessKeeps ==
  ASSUME AdminInv, A!SendSuccess
  PROVE  AdminInv'
<1> USE DEF AdminInv
<1>1. /\ pcHold = "send" /\ pcHold' = "idle" /\ connHold' = A!None /\ adminH' = A!None
      /\ A!Listed' = A!Listed
      /\ UNCHANGED <<adOpen, adMem, adFd, owner, admem, admins, adSlots, current_connections, pcA,
                    connA, adminA, last, adIdx, pcU, to, sent, there, confused, stranded>>
  BY DEF A!SendSuccess, A!HoldStep, AdminTypes, A!Listed, A!kernel, A!objects, A!array, A!hold, A!walk,
         A!broadcast, A!history
<1>2. AdminTypes' /\ AdminCount' /\ Owned' /\ Reached' /\ WalkerKnows' /\ (~ confused => OpensOwn')
  BY <1>1 DEF AdminTypes, AdminCount, Owned, Reached, WalkerKnows, OpensOwn
<1>3. MakerKnows'
  BY <1>1, AdminNames DEF MakerKnows, Making, Unlisted, AdminTypes
<1>4. ~ confused => ListsLive'
  BY <1>1, AdminNames, BusyWith DEF ListsLive, Apart, Making, AdminTypes
<1>5. ~ confused => PollsLive'
  BY <1>1, AdminNames, BusyWith DEF PollsLive, Off, Registering, AdminTypes
<1>6. ~ confused => BusyApart'
  BY <1>1, AdminNames, BusyWith DEF BusyApart, Registering, AdminTypes
<1>7. QED
  BY <1>1, <1>2, <1>3, <1>4, <1>5, <1>6

LEMMA InsertAdminKeeps ==
  ASSUME AdminInv, A!InsertAdmin
  PROVE  AdminInv'
<1> USE DEF AdminInv
<1>1. /\ pcHold = "insert" /\ pcHold' = "send"
      /\ adminH \in A!Admin /\ Unlisted(adminH)
      /\ admins' \in Seq(A!Admin) /\ Reached'
      /\ A!Listed' = A!Listed \cup {adminH}
      /\ UNCHANGED <<adOpen, adMem, adFd, owner, admem, adSlots, current_connections, connHold, adminH,
                    pcA, connA, adminA, last, adIdx, pcU, to, sent, there, confused, stranded>>
  <2>1. pcHold = "insert" /\ pcHold' = "send"
    BY DEF A!InsertAdmin, A!HoldStep
  <2>2. adminH \in A!Admin /\ Unlisted(adminH) /\ admins \in Seq(A!Admin)
    BY <2>1 DEF MakerKnows, Making, AdminTypes
  <2>3. UNCHANGED <<pcU, to, sent, there>>
    BY DEF A!InsertAdmin, A!broadcast
  <2>4. admins' \in Seq(A!Admin) /\ Reached' /\ A!Listed' = A!Listed \cup {adminH}
    <3>1. CASE seen = A!None
      <4>1. admins' = <<adminH>> \o admins /\ 1 \in 1 .. Len(admins) + 1 /\ Len(admins) \in Nat
        BY <2>2, <3>1 DEF A!InsertAdmin
      <4>2. /\ admins' \in Seq(A!Admin) /\ Len(admins') = Len(admins) + 1
            /\ \A k \in 1 .. Len(admins) + 1 :
                   admins'[k] = IF k = 1 THEN adminH ELSE IF k < 1 THEN admins[k] ELSE admins[k - 1]
        BY <2>2, <4>1, InsertedFirst
      <4>3. QED
        BY <2>2, <2>3, <4>1, <4>2, ListGrows
    <3>2. CASE seen # A!None
      <4> DEFINE J == {i \in 1 .. Len(admins) : admins[i] = seen}
      <4>1. seen \in A!Listed /\ Len(admins) \in Nat
        BY <2>2, <3>2 DEF A!InsertAdmin
      <4>2. J # {} /\ J \subseteq 1 .. Len(admins)
        BY <4>1, ListedAt
      <4>3. admins' = A!InsertAt(admins, A!Min(J) + 1, adminH)
        BY <3>2, <4>2 DEF A!InsertAdmin, A!SelectInSeq
      <4> HIDE DEF J
      <4>4. A!Min(J) + 1 \in 1 .. Len(admins) + 1
        <5>1. A!Min(J) \in 1 .. Len(admins)
          BY <4>2, AdminFinds
        <5>2. QED
          BY <4>1, <5>1
      <4>5. /\ admins' \in Seq(A!Admin) /\ Len(admins') = Len(admins) + 1
            /\ \A k \in 1 .. Len(admins) + 1 :
                   admins'[k] = IF k = A!Min(J) + 1 THEN adminH
                                ELSE IF k < A!Min(J) + 1 THEN admins[k] ELSE admins[k - 1]
        BY <2>2, <4>3, <4>4, InsertedAt
      <4>6. QED
        BY <2>2, <2>3, <4>4, <4>5, ListGrows
    <3>3. QED
      BY <3>1, <3>2
  <2>5. QED
    BY <2>1, <2>2, <2>3, <2>4 DEF A!InsertAdmin, AdminTypes, A!Listed, A!kernel, A!objects, A!array,
           A!hold, A!walk, A!broadcast, A!history
<1>2. /\ Making /\ connHold \in A!Conn /\ owner[connHold] = adminH /\ admem[adminH] = "live"
      /\ adminH # adminA
  BY <1>1 DEF MakerKnows, Making
<1>3. AdminCount' /\ Owned' /\ (~ confused => OpensOwn')
  BY <1>1 DEF AdminCount, Owned, OpensOwn
<1>4. AdminTypes'
  BY <1>1, <1>2, AdminNames DEF AdminTypes
<1>5. Reached'
  BY <1>1 DEF Reached
<1>6. MakerKnows'
  BY <1>1, <1>2, AdminNames DEF MakerKnows, Making, Unlisted, AdminTypes
<1>7. WalkerKnows'
  BY <1>1, <1>2, AdminNames DEF WalkerKnows, AdminTypes
<1>8. ~ confused => ListsLive'
  <2> SUFFICES ASSUME ~ confused  PROVE ListsLive'
    OBVIOUS
  <2>1. \A d \in A!Conn : adMem'[d] = "live" => owner'[d] \in A!Listed' \/ Apart(owner[d])'
    BY <1>2, <1>1, AdminNames, BusyWith DEF ListsLive, Apart, Making
  <2>2. \A b \in A!Listed' : admem'[b] = "live"
    BY <1>2, <1>1, AdminNames, BusyWith DEF ListsLive, Apart, Making
  <2>3. \A b \in A!Admin : admem'[b] = "live" => b \in A!Listed' \/ Apart(b)'
    BY <1>2, <1>1, AdminNames, BusyWith DEF ListsLive, Apart, Making
  <2>4. pcA' = "delete" => adminA' \notin A!Listed'
    BY <1>2, <1>1, AdminNames, BusyWith DEF ListsLive, Apart, Making
  <2>5. \A b \in A!Listed' : (pcA' = "unlist" /\ b = adminA') \/ \E d \in A!Conn : owner'[d] = b
    BY <1>2, <1>1, AdminNames, BusyWith DEF ListsLive, Apart, Making
  <2>6. QED
    BY <2>1, <2>2, <2>3, <2>4, <2>5 DEF ListsLive
<1>9. ~ confused => PollsLive'
  BY <1>1, <1>2, AdminNames, BusyWith DEF PollsLive, Off, Registering, AdminTypes
<1>10. ~ confused => BusyApart'
  BY <1>1, <1>2, AdminNames, BusyWith DEF BusyApart, Registering, AdminTypes
<1>11. QED
  BY <1>1, <1>3, <1>4, <1>5, <1>6, <1>7, <1>8, <1>9, <1>10

-----------------------------------------------------------------------------
(* The steps of the admin poll thread, and of a broadcast                  *)

\* The walk goes on, or begins or ends.
LEMMA WalkOnKeeps ==
  ASSUME AdminInv, pcA \in {"poll", "walk", "handle", "remove"}, pcA' \in {"poll", "walk"},
         adminA' \in {adminA, A!None}, adIdx' \in Nat, pcA' = "poll" \/ adIdx' # 0,
         UNCHANGED <<adOpen, adMem, adFd, owner, admem, admins, adSlots, current_connections, pcHold, connHold,
                     adminH, pcU, to, sent, there, confused, stranded>>
  PROVE  AdminInv'
<1> USE DEF AdminInv
<1>1. /\ pcA \in {"poll", "walk", "handle", "remove"} /\ pcA' \in {"poll", "walk"}
      /\ adminA' \in {adminA, A!None} /\ adIdx' \in Nat /\ (pcA' = "poll" \/ adIdx' # 0)
      /\ A!Listed' = A!Listed
      /\ UNCHANGED <<adOpen, adMem, adFd, owner, admem, admins, adSlots, current_connections, pcHold,
                    connHold, adminH, pcU, to, sent, there, confused, stranded>>
  BY DEF A!Listed
<1>2. AdminCount' /\ Owned' /\ Reached' /\ (~ confused => OpensOwn')
  BY <1>1 DEF AdminCount, Owned, Reached, OpensOwn
<1>3. AdminTypes'
  BY <1>1, AdminNames DEF AdminTypes
<1>4. MakerKnows'
  BY <1>1, AdminNames DEF MakerKnows, Making, Unlisted, AdminTypes
<1>5. WalkerKnows'
  BY <1>1, AdminNames DEF WalkerKnows, AdminTypes
<1>6. ~ confused => ListsLive'
  BY <1>1, AdminNames, BusyWith DEF ListsLive, Apart, Making, AdminTypes
<1>7. ~ confused => PollsLive'
  BY <1>1, AdminNames, BusyWith DEF PollsLive, Off, Registering, AdminTypes
<1>8. ~ confused => BusyApart'
  BY <1>1, AdminNames, BusyWith DEF BusyApart, Registering, AdminTypes
<1>9. QED
  BY <1>1, <1>2, <1>3, <1>4, <1>5, <1>6, <1>7, <1>8

LEMMA LookupFinds ==
  ASSUME AdminInv, A!Lookup
  PROVE  AdminInv'
<1> USE DEF AdminInv
<1>1. /\ pcA = "walk" /\ pcA' = "handle"
      /\ adminA' \in A!Listed /\ admem[adminA'] = "live"
      /\ connA' \in A!Conn /\ owner[connA'] = adminA'
      /\ \E i \in A!Slot : adSlots[i] = adFd[connA']
      /\ A!Listed' = A!Listed
      /\ UNCHANGED <<adOpen, adMem, adFd, owner, admem, admins, adSlots, current_connections, pcHold,
                    connHold, adminH, last, adIdx, pcU, to, sent, there, confused, stranded>>
  <2> DEFINE f == adSlots[adIdx]
             C == {c \in A!Connections(adminA') : adFd[c] = f}
  <2>1. pcA = "walk" /\ pcA' = "handle" /\ adIdx \in A!Slot
    BY TablesAssumption DEF A!Lookup, A!At, A!WalkStep, A!Slot, WalkerKnows
  <2>2. /\ adminA' = A!BySockFd(f) /\ adminA' # A!None /\ connA' = A!MinOf(C)
        /\ \A a \in A!Listed : admem[a] # "freed"
    BY DEF A!Lookup, A!ReadsFreed
  <2>3. adminA' \in A!Listed /\ C # {}
    BY <2>2, PositionFinds DEF A!Connections
  <2>4. C \subseteq Nat
    BY OnHoldAssumption DEF A!Connections, A!Conn
  <2>5. connA' \in C
    BY <2>2, <2>3, <2>4, AdminLowest
  <2>6. connA' \in A!Conn /\ owner[connA'] = adminA' /\ adFd[connA'] = f
    BY <2>5 DEF A!Connections
  <2>7. admem[adminA'] = "live"
    BY <2>2, <2>3, ListedAt DEF AdminTypes, MakerKnows, Unlisted
  <2>8. QED
    BY <2>1, <2>3, <2>6, <2>7 DEF A!Lookup, AdminTypes, A!Listed, A!kernel, A!objects, A!array, A!hold,
           A!walk, A!broadcast, A!history
<1>2. AdminCount' /\ Owned' /\ Reached' /\ (~ confused => OpensOwn')
  BY <1>1 DEF AdminCount, Owned, Reached, OpensOwn
<1>3. AdminTypes'
  BY <1>1, AdminNames DEF AdminTypes
<1>4. MakerKnows'
  BY <1>1, AdminNames DEF MakerKnows, Making, Unlisted, AdminTypes
<1>5. WalkerKnows'
  BY <1>1, AdminNames DEF WalkerKnows, AdminTypes
<1>6. ~ confused => ListsLive'
  BY <1>1, AdminNames, BusyWith DEF ListsLive, Apart, Making, AdminTypes
<1>7. ~ confused => PollsLive'
  BY <1>1, AdminNames, BusyWith DEF PollsLive, Off, Registering, AdminTypes
<1>8. ~ confused => BusyApart'
  <2> SUFFICES ASSUME ~ confused  PROVE BusyApart'
    OBVIOUS
  <2>1. adMem[connA'] = "live"
    BY <1>1, ListedAt, AdminNames DEF Owned
  <2>2. ~ Off(connA')
    BY <1>1, <2>1 DEF PollsLive
  <2>3. Registering => connHold # connA'
    BY <2>2 DEF Off
  <2>4. QED
    BY <1>1, <2>3 DEF BusyApart, Registering
<1>9. QED
  BY <1>1, <1>2, <1>3, <1>4, <1>5, <1>6, <1>7, <1>8

LEMMA RogueForgets ==
  ASSUME AdminInv, A!Rogue, ~ ready[adIdx]
  PROVE  AdminInv'
<1> USE DEF AdminInv
<1>1. /\ pcA = "walk" /\ pcA' = "walk" /\ adminA' = A!None
      /\ adIdx' = adIdx + 1 /\ confused' = TRUE
      /\ AdminCount' /\ DOMAIN adOpen' = A!Fd
      /\ DOMAIN adSlots' = A!Slot /\ \A i \in A!Slot : adSlots'[i] \in {adSlots[i], A!Free}
      /\ A!Listed' = A!Listed
      /\ UNCHANGED <<adMem, adFd, owner, admem, admins, pcHold, connHold, adminH, pcU, to, sent, there,
                    stranded>>
  <2> DEFINE f == adSlots[adIdx]
  <2>1. pcA = "walk" /\ pcA' = "walk" /\ adIdx \in A!Slot /\ A!Unpoll({f}) /\ f # A!Free
    BY TablesAssumption DEF A!Rogue, A!GoOn, A!At, A!WalkStep, A!Slot, WalkerKnows
  <2>2. {f} \in SUBSET A!Fd
    BY <2>1 DEF AdminTypes
  <2> HIDE DEF f
  <2>3. /\ AdminCount' /\ DOMAIN adSlots' = A!Slot
        /\ \A i \in A!Slot : adSlots'[i] \in {adSlots[i], A!Free}
    BY <2>1, <2>2, AdminUnpolls
  <2>4. QED
    BY <2>1, <2>3 DEF A!Rogue, A!GoOn, A!Forget, A!Close, A!WalkStep, AdminTypes, A!Listed, A!kernel,
           A!objects, A!array, A!hold, A!walk, A!broadcast, A!history
<1>2. Owned' /\ Reached'
  BY <1>1 DEF Owned, Reached
<1>3. AdminTypes'
  BY <1>1, AdminNames DEF AdminTypes
<1>4. AdminCount'
  BY <1>1 DEF AdminCount
<1>5. MakerKnows'
  BY <1>1, AdminNames DEF MakerKnows, Making, Unlisted, AdminTypes
<1>6. WalkerKnows'
  BY <1>1, AdminNames DEF WalkerKnows, AdminTypes
<1>7. ~ confused' => OpensOwn'
  BY <1>1 DEF OpensOwn
<1>8. ~ confused' => ListsLive'
  BY <1>1 DEF ListsLive, Apart, Making
<1>9. ~ confused' => PollsLive'
  BY <1>1 DEF PollsLive, Off, Registering
<1>10. ~ confused' => BusyApart'
  BY <1>1 DEF BusyApart, Registering
<1>11. QED
  BY <1>1, <1>2, <1>3, <1>4, <1>5, <1>6, <1>7, <1>8, <1>9, <1>10

LEMMA BeginRemoveKeeps ==
  ASSUME AdminInv, A!BeginRemove
  PROVE  AdminInv'
<1> USE DEF AdminInv
<1>1. /\ pcA = "handle" /\ pcA' = "remove"
      /\ A!Listed' = A!Listed
      /\ UNCHANGED <<adOpen, adMem, adFd, owner, admem, admins, adSlots, current_connections, pcHold,
                    connHold, adminH, connA, adminA, last, adIdx, pcU, to, sent, there, confused,
                    stranded>>
  BY DEF A!BeginRemove, A!WalkStep, AdminTypes, A!Listed, A!kernel, A!objects, A!array, A!hold, A!walk,
         A!broadcast, A!history
<1>2. AdminTypes' /\ AdminCount' /\ Owned' /\ Reached' /\ MakerKnows' /\ (~ confused => OpensOwn')
  BY <1>1 DEF AdminTypes, AdminCount, Owned, Reached, MakerKnows, Making, Unlisted, OpensOwn
<1>3. WalkerKnows'
  BY <1>1, AdminNames DEF WalkerKnows, AdminTypes
<1>4. ~ confused => ListsLive'
  BY <1>1, AdminNames, BusyWith DEF ListsLive, Apart, Making, AdminTypes
<1>5. ~ confused => PollsLive'
  BY <1>1, AdminNames, BusyWith DEF PollsLive, Off, Registering, AdminTypes
<1>6. ~ confused => BusyApart'
  BY <1>1, AdminNames, BusyWith DEF BusyApart, Registering, AdminTypes
<1>7. QED
  BY <1>1, <1>2, <1>3, <1>4, <1>5, <1>6

LEMMA DisconnectKeeps ==
  ASSUME AdminInv, A!Disconnect
  PROVE  AdminInv'
<1> USE DEF AdminInv
<1>1. /\ pcA = "handle" /\ pcA' = "unlist"
      /\ A!Listed' = A!Listed
      /\ UNCHANGED <<adOpen, adMem, adFd, owner, admem, admins, adSlots, current_connections, pcHold,
                    connHold, adminH, connA, adminA, last, adIdx, pcU, to, sent, there, confused,
                    stranded>>
  BY DEF A!Disconnect, A!WalkStep, AdminTypes, A!Listed, A!kernel, A!objects, A!array, A!hold, A!walk,
         A!broadcast, A!history
<1>2. AdminTypes' /\ AdminCount' /\ Owned' /\ Reached' /\ MakerKnows' /\ (~ confused => OpensOwn')
  BY <1>1 DEF AdminTypes, AdminCount, Owned, Reached, MakerKnows, Making, Unlisted, OpensOwn
<1>3. WalkerKnows'
  BY <1>1, AdminNames DEF WalkerKnows, AdminTypes
<1>4. ~ confused => ListsLive'
  BY <1>1, AdminNames, BusyWith DEF ListsLive, Apart, Making, AdminTypes
<1>5. ~ confused => PollsLive'
  BY <1>1, AdminNames, BusyWith DEF PollsLive, Off, Registering, AdminTypes
<1>6. ~ confused => BusyApart'
  BY <1>1, AdminNames, BusyWith DEF BusyApart, Registering, AdminTypes
<1>7. QED
  BY <1>1, <1>2, <1>3, <1>4, <1>5, <1>6

LEMMA RemovePollKeeps ==
  ASSUME AdminInv, A!RemovePoll
  PROVE  AdminInv'
<1> USE DEF AdminInv
<1>1. /\ pcA = "remove" /\ pcA' = "close"
      /\ connA \in A!Conn /\ adMem[connA] = "live" /\ adFd[connA] \in A!Fd
      /\ AdminCount'
      /\ DOMAIN adSlots' = A!Slot
      /\ \A i \in A!Slot : adSlots'[i] = IF adSlots[i] = adFd[connA] THEN A!Free ELSE adSlots[i]
      /\ ~ last' => \E d \in A!Conn \ {connA} : owner[d] = adminA
      /\ A!Listed' = A!Listed
      /\ UNCHANGED <<adOpen, adMem, adFd, owner, admem, admins, pcHold, connHold, adminH, connA, adminA,
                    adIdx, pcU, to, sent, there, confused, stranded>>
  <2> DEFINE fd == adFd[connA]
  <2>1. pcA = "remove" /\ pcA' = "close" /\ A!Unpoll({fd})
    BY DEF A!RemovePoll, A!WalkStep
  <2>2. connA \in A!Conn /\ owner[connA] = adminA /\ adMem[connA] = "live" /\ fd \in A!Fd
    BY <2>1, ListedAt, AdminNames DEF WalkerKnows, Owned
  <2> HIDE DEF fd
  <2>3. /\ AdminCount' /\ DOMAIN adSlots' = A!Slot
        /\ \A i \in A!Slot : adSlots'[i] = IF adSlots[i] = fd THEN A!Free ELSE adSlots[i]
    BY <2>1, <2>2, AdminUnpolls
  <2>4. ASSUME \A d \in A!Conn : owner[d] = adminA => d = connA
        PROVE  last' = TRUE
    <3>1. A!Connections(adminA) = {connA}
      BY <2>2, <2>4 DEF A!Connections
    <3>2. A!Cardinality({connA}) = 1
      <4>1. A!Cardinality({connA}) = Cardinality({connA})
        BY DEF A!Cardinality, Cardinality
      <4>2. QED
        BY <4>1, FS_Singleton
    <3>3. QED
      BY <3>1, <3>2 DEF A!RemovePoll
  <2>5. ~ last' => \E d \in A!Conn \ {connA} : owner[d] = adminA
    BY <2>4
  <2>6. QED
    BY <2>1, <2>2, <2>3, <2>5 DEF fd, A!RemovePoll, AdminTypes, A!Listed, A!kernel, A!objects, A!array,
           A!hold, A!walk, A!broadcast, A!history
<1>2. Owned' /\ Reached' /\ MakerKnows' /\ (~ confused => OpensOwn')
  BY <1>1 DEF Owned, Reached, MakerKnows, Making, Unlisted, OpensOwn
<1>3. AdminTypes'
  BY <1>1, AdminNames DEF AdminTypes
<1>4. AdminCount'
  BY <1>1 DEF AdminCount
<1>5. WalkerKnows'
  BY <1>1, AdminNames DEF WalkerKnows, AdminTypes
<1>6. ~ confused => ListsLive'
  BY <1>1, AdminNames, BusyWith DEF ListsLive, Apart, Making, AdminTypes
<1>7. ~ confused => PollsLive'
  <2> SUFFICES ASSUME ~ confused  PROVE PollsLive'
    OBVIOUS
  <2>1. ASSUME NEW d \in A!Conn, adMem'[d] = "live"
        PROVE  (Off(d)' <=> \A i \in A!Slot : adSlots'[i] # adFd'[d])
    <3>1. CASE d = connA
      BY <1>1, AdminNames, <3>1 DEF Off
    <3>2. CASE d # connA
      <4>1. adFd[d] # adFd[connA] /\ adFd[d] # A!Free
        BY <1>1, <2>1, <3>2, BusyWith, AdminNames DEF Owned
      <4>2. Off(d)' <=> Off(d)
        BY <1>1, <3>2 DEF Off, Registering
      <4>3. QED
        BY <1>1, <2>1, <4>1, <4>2 DEF PollsLive
    <3>3. QED
      BY <3>1, <3>2
  <2>2. \A i, k \in A!Slot : adSlots'[i] = adSlots'[k] => i = k \/ adSlots'[i] = A!Free
    BY <1>1, AdminNames, BusyWith DEF PollsLive, Off, Registering
  <2>3. \A i \in A!Slot :
            adSlots'[i] # A!Free => \E d \in A!Conn : adMem'[d] = "live" /\ adFd'[d] = adSlots'[i]
    BY <1>1, AdminNames, BusyWith DEF PollsLive, Off, Registering
  <2>4. QED
    BY <2>1, <2>2, <2>3 DEF PollsLive
<1>8. ~ confused => BusyApart'
  BY <1>1, AdminNames, BusyWith DEF BusyApart, Registering, AdminTypes
<1>9. QED
  BY <1>1, <1>2, <1>3, <1>4, <1>5, <1>6, <1>7, <1>8

LEMMA DropConnectionKeeps ==
  ASSUME AdminInv, A!DropConnection
  PROVE  AdminInv'
<1> USE DEF AdminInv
<1>1. /\ pcA = "close" /\ pcA' = IF last THEN "unlist" ELSE "walk"
      /\ IF last THEN UNCHANGED <<adminA, adIdx>> ELSE adminA' = A!None /\ adIdx' = adIdx + 1
      /\ DOMAIN adMem' = A!Conn /\ \A d \in A!Conn : adMem'[d] = IF d = connA THEN "freed" ELSE adMem[d]
      /\ DOMAIN adFd' = A!Conn /\ \A d \in A!Conn : adFd'[d] = IF d = connA THEN A!Free ELSE adFd[d]
      /\ DOMAIN owner' = A!Conn /\ \A d \in A!Conn : owner'[d] = IF d = connA THEN A!None ELSE owner[d]
      /\ DOMAIN adOpen' = A!Fd /\ \A f \in A!Fd : adOpen'[f] = IF f = adFd[connA] THEN A!None ELSE adOpen[f]
      /\ A!Listed' = A!Listed
      /\ UNCHANGED <<admem, admins, adSlots, current_connections, pcHold, connHold, adminH, pcU, to,
                    sent, there, confused, stranded>>
  BY DEF A!DropConnection, A!WalkStep, A!GoOn, A!Forget, A!Close, AdminTypes, A!Listed, A!kernel,
         A!objects, A!array, A!hold, A!walk, A!broadcast, A!history
<1>2. /\ connA \in A!Conn /\ adMem[connA] = "live" /\ owner[connA] = adminA /\ adminA \in A!Listed
      /\ adminA \in A!Admin /\ (Making => connHold # connA /\ adminH # adminA)
      /\ ~ last => \E d \in A!Conn \ {connA} : owner[d] = adminA
  BY <1>1, ListedAt, AdminNames DEF WalkerKnows, MakerKnows, Owned
<1>3. AdminCount' /\ Reached'
  BY <1>1 DEF AdminCount, Reached
<1>4. AdminTypes'
  BY <1>1, <1>2, AdminNames DEF AdminTypes
<1>5. Owned'
  BY <1>1, <1>2, AdminNames DEF Owned, AdminTypes
<1>6. MakerKnows'
  BY <1>1, <1>2, AdminNames DEF MakerKnows, Making, Unlisted, AdminTypes
<1>7. WalkerKnows'
  BY <1>1, <1>2, AdminNames DEF WalkerKnows, AdminTypes
<1>8. ~ confused => OpensOwn'
  <2> SUFFICES ASSUME ~ confused, NEW d \in A!Conn, adMem'[d] \in {"hold", "live"}
               PROVE  adOpen'[adFd'[d]] = d
    BY DEF OpensOwn
  <2>1. d # connA /\ adMem[d] \in {"hold", "live"} /\ adFd'[d] = adFd[d] /\ adFd[d] \in A!Fd
    BY <1>1, <1>2 DEF Owned
  <2>2. adFd[d] # adFd[connA]
    BY <1>2, <2>1, BusyWith
  <2>3. QED
    BY <1>1, <1>2, <2>1, <2>2 DEF OpensOwn
<1>9. ~ confused => ListsLive'
  <2> SUFFICES ASSUME ~ confused  PROVE ListsLive'
    OBVIOUS
  <2>1. \A d \in A!Conn : adMem'[d] = "live" => owner'[d] \in A!Listed' \/ Apart(owner[d])'
    BY <1>2, <1>1, AdminNames, BusyWith DEF ListsLive, Apart, Making
  <2>2. \A b \in A!Listed' : admem'[b] = "live"
    BY <1>2, <1>1, AdminNames, BusyWith DEF ListsLive, Apart, Making
  <2>3. \A b \in A!Admin : admem'[b] = "live" => b \in A!Listed' \/ Apart(b)'
    BY <1>2, <1>1, AdminNames, BusyWith DEF ListsLive, Apart, Making
  <2>4. pcA' = "delete" => adminA' \notin A!Listed'
    BY <1>2, <1>1, AdminNames, BusyWith DEF ListsLive, Apart, Making
  <2>5. \A b \in A!Listed' : (pcA' = "unlist" /\ b = adminA') \/ \E d \in A!Conn : owner'[d] = b
    BY <1>2, <1>1, AdminNames, BusyWith DEF ListsLive, Apart, Making
  <2>6. QED
    BY <2>1, <2>2, <2>3, <2>4, <2>5 DEF ListsLive
<1>10. ~ confused => PollsLive'
  <2> SUFFICES ASSUME ~ confused  PROVE PollsLive'
    OBVIOUS
  <2>1. ASSUME NEW d \in A!Conn, adMem'[d] = "live"
        PROVE  (Off(d)' <=> \A i \in A!Slot : adSlots'[i] # adFd'[d])
    <3>1. d # connA /\ adMem[d] = "live" /\ adFd'[d] = adFd[d]
      BY <1>1, <1>2, <2>1
    <3>2. Off(d)' <=> Off(d)
      BY <1>1, <1>2, <3>1 DEF Off, Registering
    <3>3. QED
      BY <1>1, <2>1, <3>1, <3>2 DEF PollsLive
  <2>2. \A i, k \in A!Slot : adSlots'[i] = adSlots'[k] => i = k \/ adSlots'[i] = A!Free
    BY <1>1, AdminNames, BusyWith DEF PollsLive, Off, Registering
  <2>3. ASSUME NEW i \in A!Slot, adSlots'[i] # A!Free
        PROVE  \E d \in A!Conn : adMem'[d] = "live" /\ adFd'[d] = adSlots'[i]
    <3>1. adSlots[i] # adFd[connA]
      BY <1>1, <1>2 DEF PollsLive, Off
    <3>2. PICK d \in A!Conn : adMem[d] = "live" /\ adFd[d] = adSlots[i]
      BY <1>1, <2>3 DEF PollsLive
    <3>3. QED
      BY <1>1, <1>2, <3>1, <3>2
  <2>4. QED
    BY <2>1, <2>2, <2>3 DEF PollsLive
<1>11. ~ confused => BusyApart'
  BY <1>1, <1>2, AdminNames, BusyWith DEF BusyApart, Registering, AdminTypes
<1>12. QED
  BY <1>1, <1>3, <1>4, <1>5, <1>6, <1>7, <1>8, <1>9, <1>10, <1>11

LEMMA UnlistAdminKeeps ==
  ASSUME AdminInv, A!UnlistAdmin
  PROVE  AdminInv'
<1> USE DEF AdminInv
<1>1. /\ pcA = "unlist" /\ pcA' = "delete"
      /\ admins' \in Seq(A!Admin) /\ Reached'
      /\ \E a \in A!Admin :
             A!Listed' = A!Listed \ {a} /\ confused' = (confused \/ a # adminA)
      /\ AdminCount'
      /\ DOMAIN adSlots' = A!Slot
      /\ \A i \in A!Slot : adSlots'[i] =
             IF \E c \in A!Conn : owner[c] = adminA /\ adFd[c] = adSlots[i] THEN A!Free ELSE adSlots[i]
      /\ UNCHANGED <<adOpen, adMem, adFd, owner, admem, pcHold, connHold, adminH, connA, adminA, last,
                    adIdx, pcU, to, sent, there, stranded>>
  <2> DEFINE J == {i \in 1 .. Len(admins) : ids[admins[i]] = ids[adminA]}
             p == A!Min(J)
             fds == {adFd[c] : c \in A!Connections(adminA)}
  <2>1. pcA = "unlist" /\ pcA' = "delete" /\ UNCHANGED <<pcU, to, sent, there>>
    BY DEF A!UnlistAdmin, A!WalkStep, A!broadcast
  <2>2. J # {} /\ J \subseteq 1 .. Len(admins)
    BY <2>1, ListedAt DEF WalkerKnows
  <2> HIDE DEF J
  <2>3. p \in 1 .. Len(admins) /\ p # 0
    <3>1. p \in J
      BY <2>2, AdminFinds
    <3>2. p \in 1 .. Len(admins)
      BY <2>2, <3>1
    <3>3. Len(admins) \in Nat
      BY ListedAt
    <3> HIDE DEF p
    <3>4. QED
      BY <3>2, <3>3
  <2> USE DEF J
  <2>4. A!SelectInSeq(admins, LAMBDA b : ids[b] = ids[adminA]) = p
    BY <2>2 DEF A!SelectInSeq
  <2> HIDE DEF J, p
  <2>5. admins' = A!RemoveAt(admins, p) /\ confused' = (confused \/ admins[p] # adminA)
    BY <2>3, <2>4 DEF A!UnlistAdmin, A!Unlist
  <2>6. admins' \in Seq(A!Admin) /\ Reached' /\ A!Listed' = A!Listed \ {admins[p]}
    BY <2>1, <2>3, <2>5, ListShrinks
  <2>7. admins[p] \in A!Admin /\ admins[p] \in A!Listed
    BY <2>3, ListedAt
  <2>8. A!Listed' # A!Listed
    BY <2>6, <2>7
  <2>9. A!Unpoll(fds)
    BY <2>8 DEF A!UnlistAdmin, A!Listed
  <2>10. fds \in SUBSET A!Fd
    BY <2>1, ListedAt, AdminNames DEF A!Connections, Owned, WalkerKnows
  <2>11. \A f : f \in fds <=> \E c \in A!Conn : owner[c] = adminA /\ adFd[c] = f
    BY DEF A!Connections
  <2> HIDE DEF fds
  <2>12. /\ AdminCount' /\ DOMAIN adSlots' = A!Slot
         /\ \A i \in A!Slot : adSlots'[i] = IF adSlots[i] \in fds THEN A!Free ELSE adSlots[i]
    BY <2>9, <2>10, AdminUnpolls
  <2>13. UNCHANGED <<adOpen, adMem, adFd, owner, admem, pcHold, connHold, adminH, connA, adminA, last, adIdx, stranded>>
    BY DEF A!UnlistAdmin, A!Unlist, A!kernel, A!objects, A!hold
  <2>14. QED
    BY <2>1, <2>5, <2>6, <2>7, <2>11, <2>12, <2>13
<1>2. adminA \in A!Admin /\ adminA \in A!Listed /\ adminA # A!None
  BY <1>1, ListedAt, AdminNames DEF WalkerKnows
<1>3. Owned' /\ (~ confused => OpensOwn')
  BY <1>1 DEF Owned, OpensOwn
<1>4. AdminTypes'
  BY <1>1, <1>2, AdminNames DEF AdminTypes
<1>5. AdminCount'
  BY <1>1 DEF AdminCount
<1>6. Reached'
  BY <1>1 DEF Reached
<1>7. MakerKnows'
  BY <1>1, <1>2, AdminNames DEF MakerKnows, Making, Unlisted, AdminTypes
<1>8. WalkerKnows'
  BY <1>1, <1>2, AdminNames DEF WalkerKnows, AdminTypes
<1>9. ~ confused' => ListsLive'
  <2> SUFFICES ASSUME ~ confused'  PROVE ListsLive'
    OBVIOUS
  <2>1. \A d \in A!Conn : adMem'[d] = "live" => owner'[d] \in A!Listed' \/ Apart(owner[d])'
    BY <1>2, <1>1, AdminNames, BusyWith DEF ListsLive, Apart, Making
  <2>2. \A b \in A!Listed' : admem'[b] = "live"
    BY <1>2, <1>1, AdminNames, BusyWith DEF ListsLive, Apart, Making
  <2>3. \A b \in A!Admin : admem'[b] = "live" => b \in A!Listed' \/ Apart(b)'
    BY <1>2, <1>1, AdminNames, BusyWith DEF ListsLive, Apart, Making
  <2>4. pcA' = "delete" => adminA' \notin A!Listed'
    BY <1>2, <1>1, AdminNames, BusyWith DEF ListsLive, Apart, Making
  <2>5. \A b \in A!Listed' : (pcA' = "unlist" /\ b = adminA') \/ \E d \in A!Conn : owner'[d] = b
    BY <1>2, <1>1, AdminNames, BusyWith DEF ListsLive, Apart, Making
  <2>6. QED
    BY <2>1, <2>2, <2>3, <2>4, <2>5 DEF ListsLive
<1>10. ~ confused' => PollsLive'
  <2> SUFFICES ASSUME ~ confused'  PROVE PollsLive'
    OBVIOUS
  <2>1. ASSUME NEW d \in A!Conn, adMem'[d] = "live"
        PROVE  (Off(d)' <=> \A i \in A!Slot : adSlots'[i] # adFd'[d])
    <3>1. adFd[d] # A!Free /\ owner[d] # A!None
      BY <1>1, <2>1, AdminNames DEF Owned
    <3>2. CASE owner[d] = adminA
      BY <1>1, <3>1, <3>2 DEF Off
    <3>3. CASE owner[d] # adminA
      <4>1. \A c \in A!Conn : owner[c] = adminA => adFd[c] # adFd[d]
        BY <1>1, <1>2, <2>1, <3>3, BusyWith DEF Owned
      <4>2. Off(d)' <=> Off(d)
        BY <1>1, <3>3 DEF Off, Registering
      <4>3. (\A i \in A!Slot : adSlots'[i] # adFd[d]) <=> (\A i \in A!Slot : adSlots[i] # adFd[d])
        BY <1>1, <3>1, <4>1
      <4>4. QED
        BY <1>1, <2>1, <4>2, <4>3 DEF PollsLive
    <3>4. QED
      BY <3>2, <3>3
  <2>2. \A i, k \in A!Slot : adSlots'[i] = adSlots'[k] => i = k \/ adSlots'[i] = A!Free
    <3>1. \A i, k \in A!Slot : adSlots[i] = adSlots[k] => i = k \/ adSlots[i] = A!Free
      BY <1>1 DEF PollsLive
    <3>2. \A i \in A!Slot : adSlots'[i] = adSlots[i] \/ adSlots'[i] = A!Free
      BY <1>1
    <3>3. QED
      BY <3>1, <3>2
  <2>3. ASSUME NEW i \in A!Slot, adSlots'[i] # A!Free
        PROVE  \E d \in A!Conn : adMem'[d] = "live" /\ adFd'[d] = adSlots'[i]
    <3>1. adSlots'[i] = adSlots[i]
      BY <1>1, <2>3
    <3>2. PICK d \in A!Conn : adMem[d] = "live" /\ adFd[d] = adSlots[i]
      BY <1>1, <2>3, <3>1 DEF PollsLive
    <3>3. QED
      BY <1>1, <3>1, <3>2
  <2>4. QED
    BY <2>1, <2>2, <2>3 DEF PollsLive
<1>11. ~ confused' => BusyApart'
  BY <1>1, <1>2, AdminNames, BusyWith DEF BusyApart, Registering, AdminTypes
<1>12. QED
  BY <1>1, <1>3, <1>4, <1>5, <1>6, <1>7, <1>8, <1>9, <1>10, <1>11

LEMMA DeleteAdminKeeps ==
  ASSUME AdminInv, A!DeleteAdmin
  PROVE  AdminInv'
<1> USE DEF AdminInv
<1>1. /\ pcA = "delete" /\ pcA' = "walk" /\ adminA' = A!None /\ adIdx' = adIdx + 1
      /\ DOMAIN admem' = A!Admin /\ \A b \in A!Admin : admem'[b] = IF b = adminA THEN "freed" ELSE admem[b]
      /\ DOMAIN adMem' = A!Conn /\ DOMAIN adFd' = A!Conn /\ DOMAIN owner' = A!Conn /\ DOMAIN adOpen' = A!Fd
      /\ \A d \in A!Conn : owner[d] = adminA => adMem'[d] = "freed" /\ adFd'[d] = A!Free /\ owner'[d] = A!None
      /\ \A d \in A!Conn :
             owner[d] # adminA => adMem'[d] = adMem[d] /\ adFd'[d] = adFd[d] /\ owner'[d] = owner[d]
      /\ \A f \in A!Fd : adOpen'[f] = adOpen[f] \/ \E d \in A!Conn : owner[d] = adminA /\ adFd[d] = f
      /\ A!Listed' = A!Listed
      /\ UNCHANGED <<admins, adSlots, current_connections, pcHold, connHold, adminH, pcU, to, sent,
                    there, confused, stranded>>
  <2>1. PICK closed \in SUBSET A!Connections(adminA) : A!Close({adFd[c] : c \in closed})
    BY DEF A!DeleteAdmin
  <2>2. /\ DOMAIN adOpen' = A!Fd
        /\ \A f \in A!Fd : adOpen'[f] = adOpen[f] \/ \E d \in A!Conn : owner[d] = adminA /\ adFd[d] = f
    BY <2>1 DEF A!Close, A!Connections
  <2>3. QED
    BY <2>2 DEF A!DeleteAdmin, A!GoOn, A!WalkStep, A!Forget, AdminTypes, A!Listed, A!kernel, A!objects,
           A!array, A!hold, A!walk, A!broadcast, A!history
<1>2. /\ adminA \in A!Admin /\ adminA # A!None /\ (Making => connHold \in A!Conn /\ adminH # adminA)
      /\ Making => owner[connHold] = adminH
      /\ \A d \in A!Conn : owner[d] = adminA => adMem[d] = "live"
  BY <1>1, AdminNames DEF AdminTypes, WalkerKnows, MakerKnows, Owned
<1>3. AdminCount' /\ Reached'
  BY <1>1 DEF AdminCount, Reached
<1>4. AdminTypes'
  BY <1>1, <1>2, AdminNames DEF AdminTypes
<1>5. Owned'
  BY <1>1, <1>2, AdminNames DEF Owned, AdminTypes
<1>6. MakerKnows'
  BY <1>1, <1>2, AdminNames DEF MakerKnows, Making, Unlisted, AdminTypes
<1>7. WalkerKnows'
  BY <1>1, <1>2, AdminNames DEF WalkerKnows, AdminTypes
<1>8. ~ confused => OpensOwn'
  <2> SUFFICES ASSUME ~ confused, NEW d \in A!Conn, adMem'[d] \in {"hold", "live"}
               PROVE  adOpen'[adFd'[d]] = d
    BY DEF OpensOwn
  <2>1. owner[d] # adminA /\ adMem[d] \in {"hold", "live"} /\ adFd'[d] = adFd[d] /\ adFd[d] \in A!Fd
    BY <1>1 DEF Owned
  <2>2. \A c \in A!Conn : owner[c] = adminA => adFd[c] # adFd[d]
    BY <1>2, <2>1, BusyWith
  <2>3. QED
    BY <1>1, <2>1, <2>2 DEF OpensOwn
<1>9. ~ confused => ListsLive'
  <2> SUFFICES ASSUME ~ confused  PROVE ListsLive'
    OBVIOUS
  <2>1. \A d \in A!Conn : adMem'[d] = "live" => owner'[d] \in A!Listed' \/ Apart(owner[d])'
    BY <1>2, <1>1, AdminNames, BusyWith DEF ListsLive, Apart, Making
  <2>2. \A b \in A!Listed' : admem'[b] = "live"
    BY ListedAt, <1>2, <1>1, AdminNames, BusyWith DEF ListsLive, Apart, Making
  <2>3. \A b \in A!Admin : admem'[b] = "live" => b \in A!Listed' \/ Apart(b)'
    BY <1>2, <1>1, AdminNames, BusyWith DEF ListsLive, Apart, Making
  <2>4. pcA' = "delete" => adminA' \notin A!Listed'
    BY <1>2, <1>1, AdminNames, BusyWith DEF ListsLive, Apart, Making
  <2>5. \A b \in A!Listed' : (pcA' = "unlist" /\ b = adminA') \/ \E d \in A!Conn : owner'[d] = b
    BY <1>2, <1>1, AdminNames, BusyWith DEF ListsLive, Apart, Making
  <2>6. QED
    BY <2>1, <2>2, <2>3, <2>4, <2>5 DEF ListsLive
<1>10. ~ confused => PollsLive'
  <2> SUFFICES ASSUME ~ confused  PROVE PollsLive'
    OBVIOUS
  <2>1. ASSUME NEW d \in A!Conn, adMem'[d] = "live"
        PROVE  (Off(d)' <=> \A i \in A!Slot : adSlots'[i] # adFd'[d])
    <3>1. owner[d] # adminA /\ adMem[d] = "live" /\ adFd'[d] = adFd[d]
      BY <1>1, <2>1
    <3>2. Off(d)' <=> Off(d)
      BY <1>1, <3>1 DEF Off, Registering
    <3>3. QED
      BY <1>1, <2>1, <3>1, <3>2 DEF PollsLive
  <2>2. \A i, k \in A!Slot : adSlots'[i] = adSlots'[k] => i = k \/ adSlots'[i] = A!Free
    BY <1>1, AdminNames, BusyWith DEF PollsLive, Off, Registering
  <2>3. ASSUME NEW i \in A!Slot, adSlots'[i] # A!Free
        PROVE  \E d \in A!Conn : adMem'[d] = "live" /\ adFd'[d] = adSlots'[i]
    <3>1. PICK d \in A!Conn : adMem[d] = "live" /\ adFd[d] = adSlots[i]
      BY <1>1, <2>3 DEF PollsLive
    <3>2. owner[d] # adminA
      BY <1>1, <3>1 DEF PollsLive, Off
    <3>3. QED
      BY <1>1, <3>1, <3>2
  <2>4. QED
    BY <2>1, <2>2, <2>3 DEF PollsLive
<1>11. ~ confused => BusyApart'
  BY <1>1, <1>2, AdminNames, BusyWith DEF BusyApart, Registering, AdminTypes
<1>12. QED
  BY <1>1, <1>3, <1>4, <1>5, <1>6, <1>7, <1>8, <1>9, <1>10, <1>11

LEMMA BeginKeeps ==
  ASSUME AdminInv, A!Begin
  PROVE  AdminInv'
<1> USE DEF AdminInv
<1>1. /\ pcU' = "send" /\ there' = A!Listed
      /\ to' = IF admins = <<>> THEN A!None ELSE admins[1]
      /\ A!Listed' = A!Listed
      /\ UNCHANGED <<adOpen, adMem, adFd, owner, admem, admins, adSlots, current_connections, pcHold,
                    connHold, adminH, pcA, connA, adminA, last, adIdx, sent, confused, stranded>>
  BY DEF A!Begin, A!Listed, A!kernel, A!objects, A!array, A!hold, A!walk, A!broadcast,
         A!history
<1>2. AdminTypes' /\ AdminCount' /\ Owned' /\ WalkerKnows' /\ (~ confused => OpensOwn' /\ ListsLive' /\
        PollsLive' /\ BusyApart')
  BY <1>1 DEF AdminTypes, AdminCount, Owned, WalkerKnows, OpensOwn, ListsLive, Apart, Making, PollsLive,
         Off, Registering, BusyApart
<1>3. Reached'
  <2>1. \A i \in 1 .. Len(admins) : admins # <<>> /\ 1 \in 1 .. Len(admins) /\ admins[1] # A!None
    BY ListedAt, AdminNames DEF AdminTypes
  <2>2. QED
    BY <1>1, <2>1, ListedAt DEF Reached
<1>4. MakerKnows'
  <2>1. to' = A!None \/ to' \in A!Listed
    BY <1>1, ListedAt DEF AdminTypes
  <2>2. QED
    BY <1>1, <2>1, AdminNames DEF MakerKnows, Making, Unlisted
<1>5. QED
  BY <1>1, <1>2, <1>3, <1>4

LEMMA SendToKeeps ==
  ASSUME AdminInv, A!SendTo
  PROVE  AdminInv'
<1> USE DEF AdminInv
<1>1. /\ pcU = "send" /\ sent' = sent \cup {to}
      /\ \E i \in 1 .. Len(admins) :
             admins[i] = to /\ to' = IF i < Len(admins) THEN admins[i + 1] ELSE A!None
      /\ A!Listed' = A!Listed
      /\ UNCHANGED <<adOpen, adMem, adFd, owner, admem, admins, adSlots, current_connections, pcHold,
                    connHold, adminH, pcA, connA, adminA, last, adIdx, pcU, there, confused, stranded>>
  <2> DEFINE J == {i \in 1 .. Len(admins) : admins[i] = to}
             p == A!Min(J)
  <2>1. J # {} /\ J \subseteq 1 .. Len(admins)
    BY ListedAt DEF A!SendTo
  <2>2. to' = IF p < Len(admins) THEN admins[p + 1] ELSE A!None
    BY <2>1 DEF A!SendTo, A!SelectInSeq
  <2>3. p \in 1 .. Len(admins) /\ admins[p] = to
    <3>1. \A i \in J : i \in 1 .. Len(admins) /\ admins[i] = to
      OBVIOUS
    <3> HIDE DEF J
    <3>2. QED
      BY <2>1, <3>1, AdminFinds
  <2> HIDE DEF p, J
  <2>4. QED
    BY <2>2, <2>3 DEF A!SendTo, AdminTypes, A!Listed, A!kernel, A!objects, A!array, A!hold, A!walk,
           A!broadcast, A!history
<1>2. AdminTypes' /\ AdminCount' /\ Owned' /\ WalkerKnows' /\ (~ confused => OpensOwn' /\ ListsLive' /\
        PollsLive' /\ BusyApart')
  BY <1>1 DEF AdminTypes, AdminCount, Owned, WalkerKnows, OpensOwn, ListsLive, Apart, Making, PollsLive,
         Off, Registering, BusyApart
<1>3. Reached'
  <2>1. PICK p \in 1 .. Len(admins) :
            admins[p] = to /\ to' = IF p < Len(admins) THEN admins[p + 1] ELSE A!None
    BY <1>1
  <2>2. Len(admins) \in Nat
    BY ListedAt
  <2>3. ASSUME NEW i \in 1 .. Len(admins), NEW k \in 1 .. Len(admins), admins[i] \in there \ sent'
        PROVE  to' # A!None /\ (admins[k] = to' => k <= i)
    <3>1. p <= i /\ i # p
      BY <1>1, <2>1, <2>3 DEF Reached
    <3>2. p < Len(admins) /\ to' = admins[p + 1] /\ p + 1 \in 1 .. Len(admins) /\ p + 1 <= i
      BY <2>1, <2>2, <3>1
    <3>3. admins[p + 1] # A!None
      BY <3>2, ListedAt, AdminNames
    <3>4. admins[k] = to' => k = p + 1
      BY <3>2 DEF Reached
    <3>5. QED
      BY <3>2, <3>3, <3>4
  <2>4. QED
    BY <1>1, <2>3 DEF Reached
<1>4. MakerKnows'
  <2>1. to' = A!None \/ to' \in A!Listed
    <3>1. PICK p \in 1 .. Len(admins) : to' = IF p < Len(admins) THEN admins[p + 1] ELSE A!None
      BY <1>1
    <3>2. QED
      BY <3>1, ListedAt
  <2>2. QED
    BY <1>1, <2>1, AdminNames DEF MakerKnows, Making, Unlisted
<1>5. QED
  BY <1>1, <1>2, <1>3, <1>4

LEMMA SentKeeps ==
  ASSUME AdminInv, A!Sent
  PROVE  AdminInv'
<1> USE DEF AdminInv
<1>1. /\ pcU = "send" /\ to = A!None /\ pcU' = "done"
      /\ A!Listed' = A!Listed
      /\ UNCHANGED <<adOpen, adMem, adFd, owner, admem, admins, adSlots, current_connections, pcHold,
                    connHold, adminH, pcA, connA, adminA, last, adIdx, to, sent, there, confused,
                    stranded>>
  BY DEF A!Sent, A!Listed, A!kernel, A!objects, A!array, A!hold, A!walk, A!broadcast,
         A!history
<1>2. AdminTypes' /\ AdminCount' /\ Owned' /\ MakerKnows' /\ WalkerKnows' /\ (~ confused => OpensOwn' /\
        ListsLive' /\ PollsLive' /\ BusyApart')
  BY <1>1 DEF AdminTypes, AdminCount, Owned, MakerKnows, Making, Unlisted, WalkerKnows, OpensOwn,
         ListsLive, Apart, PollsLive, Off, Registering, BusyApart
<1>3. Reached'
  BY <1>1, AdminNames DEF Reached, AdminTypes
<1>4. QED
  BY <1>1, <1>2, <1>3

\* What is not about the connections and admins leaves the rest alone.
LEMMA AdminsKept ==
  ASSUME AdminInv,
         UNCHANGED <<adOpen, adMem, adFd, owner, admem, admins, adSlots, current_connections, pcHold, connHold,
                     adminH, pcA, connA, adminA, last, adIdx, pcU, to, sent, there, confused, stranded>>
  PROVE  AdminInv'
BY DEF AdminInv, AdminTypes, AdminCount, Owned, Reached, MakerKnows, Making, Unlisted, WalkerKnows,
       OpensOwn, ListsLive, Apart, PollsLive, Off, Registering, BusyApart, A!Listed

LEMMA AdminInitHolds == A!Init => AdminInv
<1> SUFFICES ASSUME A!Init  PROVE AdminInv
  OBVIOUS
<1>1. /\ admins = <<>> /\ current_connections = 0 /\ there = {} /\ confused = FALSE /\ stranded = {}
      /\ pcHold = "idle" /\ pcA = "poll" /\ adminA = A!None /\ adIdx = 0 /\ pcU = "idle" /\ to = A!None
      /\ adMem = [c \in A!Conn |-> "unused"] /\ adFd = [c \in A!Conn |-> A!Free]
      /\ owner = [c \in A!Conn |-> A!None] /\ admem = [a \in A!Admin |-> "unused"]
      /\ adSlots = [i \in A!Slot |-> A!Free] /\ DOMAIN adOpen = A!Fd
  BY DEF A!Init
<1>2. AdminTypes
  BY <1>1 DEF AdminTypes
<1>3. AdminCount
  <2>1. {i \in A!Slot : adSlots[i] # A!Free} = {}
    BY <1>1
  <2>2. QED
    BY <1>1, <2>1, FS_EmptySet DEF AdminCount
<1>4. A!Listed = {}
  BY <1>1 DEF A!Listed, A!ToSet
<1>5. Owned /\ Reached /\ WalkerKnows
  BY <1>1 DEF Owned, Reached, WalkerKnows
<1>6. MakerKnows
  BY <1>1, <1>4, AdminNames DEF MakerKnows, Making, Unlisted
<1>7. OpensOwn /\ ListsLive /\ PollsLive /\ BusyApart
  BY <1>1, <1>4 DEF OpensOwn, ListsLive, PollsLive, BusyApart, Registering
<1>8. QED
  BY <1>2, <1>3, <1>5, <1>6, <1>7 DEF AdminInv

LEMMA AdminsKeep == AdminInv /\ [A!Next]_(A!vars) => AdminInv'
<1> SUFFICES ASSUME AdminInv, [A!Next]_(A!vars)
             PROVE  AdminInv'
  OBVIOUS
<1>1. ASSUME A!Crash \/ (\E c \in A!Conn : A!PeerGoes(c)) \/ UNCHANGED A!vars
      PROVE  AdminInv'
  BY <1>1, AdminsKept
  DEF A!Crash, A!PeerGoes, A!vars, A!kernel, A!objects, A!array, A!hold, A!walk, A!broadcast, A!history
<1>2. CASE A!PollReturns \/ A!EndOfWalk \/ A!Skip \/ A!Receive \/ A!RemoveNothing
  BY <1>2, WalkOnKeeps
  DEF AdminInv, WalkerKnows, A!PollReturns, A!EndOfWalk, A!Skip, A!Receive, A!RemoveNothing, A!GoOn, A!WalkStep,
      A!Forget, A!At, A!kernel, A!objects, A!array, A!hold, A!walk, A!broadcast, A!history
<1>3. CASE A!Rogue
  <2>1. CASE ready[adIdx]
    BY <1>1, <1>3, <2>1 DEF A!Rogue
  <2>2. CASE ~ ready[adIdx]
    BY <1>3, <2>2, RogueForgets
  <2>3. QED
    BY <2>1, <2>2
<1>4. CASE A!HoldThread
  BY <1>1, <1>4, AuthFailsKeeps, AuthTokenKeeps, AuthNewKeeps, RegisterPollKeeps, RegisterFailsKeeps,
     ReadEndKeeps, InsertAdminKeeps, JoinClientKeeps, FindJoinedKeeps, PollJoinedKeeps, SendSuccessKeeps
  DEF A!HoldThread, A!HoldUsesFreed
<1>5. CASE A!PollThread
  BY <1>1, <1>2, <1>3, <1>5, LookupFinds, BeginRemoveKeeps, DisconnectKeeps, RemovePollKeeps,
     DropConnectionKeeps, UnlistAdminKeeps, DeleteAdminKeeps
  DEF A!PollThread, A!GoesOnWithFreed, A!WalkUsesFreed
<1>6. CASE A!Broadcast
  BY <1>1, <1>6, BeginKeeps, SendToKeeps, SentKeeps DEF A!Broadcast, A!BroadcastUsesFreed
<1>7. QED
  BY <1>1, <1>4, <1>5, <1>6, ConnectKeeps DEF A!Next

\* The admins of the list, which has each once, are as many as its places.
LEMMA ListedCount ==
  ASSUME AdminTypes, Reached
  PROVE  Cardinality(A!Listed) = Len(admins)
<1> DEFINE n == Len(admins)
           Places == 1 .. n
<1>1. n \in Nat /\ DOMAIN admins = Places
  BY DEF AdminTypes
<1>2. IsFiniteSet(Places) /\ Cardinality(Places) = n
  <2>1. 1 \in Int /\ n \in Int /\ n >= 0
    BY <1>1
  <2> HIDE DEF n
  <2>2. IsFiniteSet(1 .. n) /\ Cardinality(1 .. n) = IF 1 > n THEN 0 ELSE n - 1 + 1
    BY <2>1, FS_Interval
  <2>3. (IF 1 > n THEN 0 ELSE n - 1 + 1) = n
    BY <2>1
  <2>4. QED
    BY <2>2, <2>3
<1>3. admins \in Surjection(Places, A!Listed)
  BY <1>1, ListedAt DEF Surjection, AdminTypes
<1>4. admins \in Injection(Places, A!Listed)
  BY <1>3 DEF Injection, Surjection, IsInjective, Reached
<1> HIDE DEF Places
<1>5. Cardinality(A!Listed) = Cardinality(Places)
  BY <1>2, <1>3, <1>4, FS_Surjection
<1>6. QED
  BY <1>2, <1>5

LEMMA AdminInvImplies == AdminInv => AdminsAgree
<1> SUFFICES ASSUME AdminInv  PROVE AdminsAgree
  OBVIOUS
<1> USE DEF AdminInv
<1>1. \A T : A!Cardinality(T) = Cardinality(T)
  BY DEF A!Cardinality, Cardinality
<1>2. current_connections = A!Cardinality({i \in A!Slot : adSlots[i] # A!Free})
  BY <1>1 DEF AdminCount
<1>3. pcU = "done" => there \cap A!Listed \subseteq sent
  <2>1. ASSUME pcU = "done", NEW a \in there \cap A!Listed, a \notin sent
        PROVE  FALSE
    <3>1. PICK i \in 1 .. Len(admins) : admins[i] = a
      BY <2>1, ListedAt
    <3>2. QED
      BY <2>1, <3>1 DEF Reached
  <2>2. QED
    BY <2>1
<1>4. ASSUME pcA = "poll", pcHold = "idle", ~ confused
      PROVE  /\ \A c \in A!Conn : adMem[c] = "live" =>
                    /\ owner[c] \in A!Listed /\ adOpen[adFd[c]] = c
                    /\ A!Cardinality(A!IndexOf(adFd[c])) = (IF c \in stranded THEN 0 ELSE 1)
             /\ \A i \in A!Slot :
                    adSlots[i] # A!Free => \E c \in A!Conn : adMem[c] = "live" /\ adFd[c] = adSlots[i]
             /\ \A a \in A!Admin : admem[a] = "live" <=> a \in A!Listed
             /\ \A a \in A!Listed : A!Connections(a) # {}
             /\ A!Cardinality(A!Listed) = Len(admins)
  <2>1. ASSUME NEW c \in A!Conn, adMem[c] = "live"
        PROVE  A!Cardinality(A!IndexOf(adFd[c])) = (IF c \in stranded THEN 0 ELSE 1)
    <3>1. Off(c) <=> c \in stranded
      BY <1>4 DEF Off, Registering
    <3>2. adFd[c] # A!Free
      BY <2>1, AdminNames DEF Owned
    <3>3. CASE c \in stranded
      <4>1. A!IndexOf(adFd[c]) = {}
        BY <1>4, <2>1, <3>1, <3>3 DEF PollsLive, A!IndexOf
      <4>2. QED
        BY <1>1, <3>3, <4>1, FS_EmptySet
    <3>4. CASE c \notin stranded
      <4>1. PICK i \in A!Slot : adSlots[i] = adFd[c]
        BY <1>4, <2>1, <3>1, <3>4 DEF PollsLive
      <4>2. A!IndexOf(adFd[c]) = {i}
        BY <1>4, <3>2, <4>1 DEF PollsLive, A!IndexOf
      <4>3. QED
        BY <1>1, <3>4, <4>2, FS_Singleton
    <3>5. QED
      BY <3>3, <3>4
  <2>2. \A c \in A!Conn : adMem[c] = "live" => owner[c] \in A!Listed /\ adOpen[adFd[c]] = c
    BY <1>4 DEF ListsLive, Apart, Making, OpensOwn
  <2>3. \A i \in A!Slot :
            adSlots[i] # A!Free => \E c \in A!Conn : adMem[c] = "live" /\ adFd[c] = adSlots[i]
    BY <1>4 DEF PollsLive
  <2>4. (\A a \in A!Admin : admem[a] = "live" <=> a \in A!Listed) /\ \A a \in A!Listed : A!Connections(a) # {}
    BY <1>4 DEF ListsLive, Apart, Making, A!Connections
  <2>5. A!Cardinality(A!Listed) = Len(admins)
    BY <1>1, ListedCount
  <2>6. QED
    BY <2>1, <2>2, <2>3, <2>4, <2>5
<1>5. QED
  BY <1>2, <1>3, <1>4 DEF AdminsAgree, A!AdminsAgree

\* A step is one of the admins or leaves them.
LEMMA AdminsBehave == PartsSpec => A!Spec
<1>1. PartsInit => A!Init
  BY DEF PartsInit
<1>2. [PartsNext]_allVars => [A!Next]_(A!vars)
  <2>1. UNCHANGED adminVars => UNCHANGED A!vars
    BY DEF adminVars, A!vars, A!kernel, A!objects, A!array, A!hold, A!walk, A!broadcast, A!history
  <2>2. QED
    BY <2>1 DEF PartsNext, OfHold, OfRegistry, OfAdmins, OfLobbies, OfSessions, allVars
<1>3. QED
  BY <1>1, <1>2, PTL DEF PartsSpec, A!Spec

\* The four places that know an admin agree (admin.c), for any number of
\* connections, admins, descriptors and places, whatever ids admins are given.
THEOREM PartsAdminsAgree == PartsSpec => []AdminsAgree
BY AdminInitHolds, AdminsKeep, AdminInvImplies, AdminsBehave, PTL DEF A!Spec

=============================================================================
