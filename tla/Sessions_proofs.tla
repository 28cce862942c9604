--------------------------- MODULE Sessions_proofs ---------------------------
(***************************************************************************)
(* Theorems about the clients with several connections: the places that    *)
(* know who is connected agree when no thread is in the middle of an       *)
(* operation; and about the hash table, which is one of these places.      *)
(*                                                                         *)
(* SessionInv is the inductive invariant.  What it says of a client holds  *)
(* as long as no thread removed the client while the thread of those on    *)
(* hold was busy with it; of the memory and of what each thread does it    *)
(* speaks until a thread uses what was freed.                              *)
(***************************************************************************)
EXTENDS Tables, WellFoundedInduction, FiniteSetTheorems, SequenceTheorems, TLAPS

Its(k) == S!ToSet(connections[k])

SessionTypes ==
    /\ DOMAIN seMem = S!Conn /\ DOMAIN seMap = S!Conn /\ held \subseteq S!Conn /\ sePolled \subseteq S!Conn
    /\ DOMAIN seClientMem = S!Client /\ DOMAIN session_id = S!Client
    /\ connections \in [S!Client -> Seq(S!Conn)] /\ seClients \subseteq S!Client
    /\ \A c \in S!Conn : seMap[c] \in S!Client \cup {S!None}
    /\ DOMAIN sePc = S!Thread /\ DOMAIN crClient = S!Thread /\ DOMAIN victim = S!Thread
    /\ DOMAIN onlyOne = S!Thread /\ DOMAIN after = S!Thread
    /\ \A t \in S!Thread : after[t] \in {"none", "poll", "loop", "done"}
    /\ sePcH \notin {"poll", "crashed"} => clientH \in S!Client /\ seConnH \in S!Conn

\* A live connection is on hold or in the list of one client, once.
ListsApart ==
    /\ \A k \in S!Client : \A i, j \in DOMAIN connections[k] : connections[k][i] = connections[k][j] => i = j
    /\ \A j, k \in S!Client : j # k => Its(j) \cap Its(k) = {}
    /\ \A k \in S!Client : \A c \in Its(k) : seMem[c] = "live"
    /\ \A c \in S!Conn : seMem[c] = "live" => c \in held \/ \E k \in S!Client : c \in Its(k)
    /\ \A k \in S!Client : seClientMem[k] # "live" => Its(k) = {}

\* A client that was never made has no id and is nowhere.
Unmade ==
    \A k \in S!Client : seClientMem[k] = "unused" =>
        /\ session_id[k] = S!None /\ k \notin seClients
        /\ sePcH # "poll" => clientH # k
        /\ \A c \in S!Conn : seMap[c] # k
MadeOnce == \A k \in S!Client : seClientMem[k] # "unused" => session_id[k] # S!None

\* The connection that the thread of those on hold is busy with: it stays on hold
\* until it is taken out, and leaves its list only when it is freed.
Holding == sePcH \in {"unhold", "joinMap", "unholdJoined"}
HoldTells ==
    /\ \A c \in held : seMem[c] # "unused"
    /\ \A c \in held : seMem[c] # "live" \/ (\E k \in S!Client : c \in Its(k)) => Holding /\ c = seConnH
    /\ sePcH = "join" \/ Holding => seConnH \in held
    /\ sePcH \notin {"poll", "join"} =>
           seConnH \in Its(clientH) \/ (seMem[seConnH] = "freed" /\ \A k \in S!Client : seConnH \notin Its(k))

\* No thread receives from a connection before it is given one.
NotStarted ==
    /\ \A c \in S!Conn : seMem[c] = "unused" \/ c \in held => sePc[c] = "none"
    /\ sePcH \notin {"poll", "announce"} => sePc[seConnH] = "none"
    /\ handler_type = "poll" => \A c \in S!Conn : sePc[c] = "none"

\* What a thread removes was in the list of its client.
Leaving(t) == sePc[t] \in {"unpoll", "unmap", "unlist"}
VictimsListed ==
    /\ \A t \in S!Thread : Leaving(t) => victim[t] \in Its(crClient[t]) \/ seMem[victim[t]] = "freed"
    /\ \A t \in S!Thread : Leaving(t) => victim[t] \in S!Conn
    /\ \A t \in S!Thread : sePc[t] \notin {"poll", "none", "done"} =>
           crClient[t] \in S!Client /\ seClientMem[crClient[t]] # "unused"
    /\ \A c \in S!Conn : seMap[c] # S!None => c \in Its(seMap[c]) \/ seMem[c] = "freed"

\* Of a client that was not removed while the thread of those on hold was busy
\* with it.
Dropping(t) == sePc[t] \in {"dropUnpoll", "dropRemove", "dropDelete"}
Taken(k, c) ==
    \E t \in S!Thread : crClient[t] = k /\ ((sePc[t] = "unlist" /\ victim[t] = c) \/ Dropping(t))
MapsTo(k) ==
    /\ \A c \in S!Conn : seMap[c] = k => c \in Its(k)
    /\ \A c \in Its(k) :
           \/ seMap[c] = k \/ Taken(k, c)
           \/ c = seConnH /\ clientH = k /\ sePcH \in {"unhold", "map", "joinMap"}
    /\ \A t \in S!Thread : crClient[t] = k =>
           /\ sePc[t] = "unlist" => seMap[victim[t]] # k
           /\ Dropping(t) => \A c \in S!Conn : seMap[c] # k
           /\ sePc[t] \in {"remove", "delete"} => Its(k) = {}
           /\ Leaving(t) /\ onlyOne[t] => Its(k) \subseteq {victim[t]}
BusyLives(k) ==
    /\ S!Busy(k) => ~ S!Removing(k)
    /\ S!Busy(k) /\ sePcH # "join" => seClientMem[k] = "live" /\ seConnH \in Its(k)
HasOne(k) ==
    handler_type = "poll" /\ seClientMem[k] = "live" =>
        /\ Its(k) = {} => crClient[S!Poller] = k /\ sePc[S!Poller] \in {"remove", "delete"}
        /\ crClient[S!Poller] = k /\ Leaving(S!Poller) /\ ~ onlyOne[S!Poller] =>
               \E c \in Its(k) : c # victim[S!Poller]
Gone(t) == sePc[t] \in {"delete", "dropDelete"}
InTree(k) ==
    /\ seClientMem[k] = "live" =>
           \/ k \in seClients
           \/ S!Busy(k) /\ sePcH \in {"unhold", "map", "register", "insert"}
           \/ \E t \in S!Thread : crClient[t] = k /\ Gone(t)
    /\ k \in seClients => seClientMem[k] = "live"
    /\ \A t \in S!Thread : crClient[t] = k /\ Gone(t) => k \notin seClients
Sound(k) == BusyLives(k) /\ MapsTo(k) /\ HasOne(k) /\ (S!DistinctIds => InTree(k))

\* While no client was removed like that, the poll thread polls what is in a list.
Unpolled(c) ==
    \/ c = seConnH
       /\ sePcH \in {"unhold", "map", "register", "joinMap", "unholdJoined", "match", "selectJoined"}
    \/ sePc[S!Poller] \in {"unmap", "unlist"} /\ victim[S!Poller] = c
    \/ sePc[S!Poller] \in {"dropRemove", "dropDelete"} /\ c \in Its(crClient[S!Poller])
PollsListed ==
    /\ \A c \in sePolled : \E k \in S!Client : c \in Its(k)
    /\ \A k \in S!Client : \A c \in Its(k) : c \in sePolled <=> ~ Unpolled(c)

SessionInv ==
    /\ SessionTypes
    /\ ~ S!Crashed =>
           /\ ListsApart /\ Unmade /\ MadeOnce /\ HoldTells /\ NotStarted /\ VictimsListed
           /\ \A k \in S!Client \ crossed : Sound(k)
           /\ handler_type = "poll" /\ crossed = {} => PollsListed

-----------------------------------------------------------------------------
(* Lemmas about the clients with sessions                                  *)

\* The crossed clients after a step.
Crosses == crossed' = crossed \cup {k \in S!Client : S!Removing(k)' /\ S!Busy(k)'}

LEMMA SessionNames ==
  /\ S!None \notin S!Client /\ S!None \notin S!Conn /\ S!None \notin Id
  /\ S!Poller \in S!Thread /\ S!Poller \notin S!Conn /\ S!Conn \subseteq S!Thread
  /\ \A t \in S!Thread : t # S!Poller => t \in S!Conn
  /\ S!Conn \subseteq Nat /\ S!Client \subseteq Nat
BY TablesAssumption, OnHoldAssumption DEF S!None, S!Client, S!Conn, S!Poller, S!Thread

\* The lowest of some numbers is one of them.
LEMMA SessionLowest ==
  ASSUME NEW T, T \subseteq Nat, T # {}
  PROVE  S!LowestOf(T) \in T
<1> DEFINE Less == {ss \in Nat \X Nat : ss[1] < ss[2]}
<1>0. IsWellFoundedOn(Less, Nat)
  <2>1. OpToRel(<, Nat) = Less
    BY DEF OpToRel
  <2>2. QED
    BY <2>1, NatLessThanWellFounded
<1>1. PICK x \in T : \A y \in T : ~ (<<y, x>> \in Less)
  <2> HIDE DEF Less
  <2>1. QED
    BY <1>0, WFMin
<1>2. ASSUME NEW y \in T  PROVE x <= y
  <2>1. x \in Nat /\ y \in Nat
    OBVIOUS
  <2>2. CASE y < x
    <3>1. <<y, x>> \in Nat \X Nat /\ <<y, x>>[1] = y /\ <<y, x>>[2] = x
      BY <2>1
    <3>2. <<y, x>> \in Less
      BY <2>2, <3>1
    <3>3. QED
      BY <1>1, <3>2
  <2>3. QED
    BY <2>1, <2>2
<1>3. QED
  BY <1>2 DEF S!LowestOf

\* What a sequence is without one of its places.
LEMMA SessionWithoutOne ==
  ASSUME NEW T, NEW s \in Seq(T), NEW i \in 1 .. Len(s)
  PROVE  /\ S!RemoveAt(s, i) \in Seq(T) /\ Len(S!RemoveAt(s, i)) = Len(s) - 1
         /\ \A k \in 1 .. Len(s) - 1 : S!RemoveAt(s, i)[k] = IF k < i THEN s[k] ELSE s[k + 1]
<1> DEFINE a == SubSeq(s, 1, i - 1)
           b == SubSeq(s, i + 1, Len(s))
           t == S!RemoveAt(s, i)
<1>1. a \in Seq(T) /\ Len(a) = i - 1 /\ \A k \in 1 .. i - 1 : a[k] = s[k]
  OBVIOUS
<1>2. b \in Seq(T) /\ Len(b) = Len(s) - i /\ \A k \in 1 .. Len(s) - i : b[k] = s[k + i]
  OBVIOUS
<1>3. t = a \o b
  BY DEF S!RemoveAt
<1>0. Len(s) \in Nat
  OBVIOUS
<1> HIDE DEF a, b, t
<1>4. /\ t \in Seq(T) /\ Len(t) = Len(a) + Len(b)
      /\ \A k \in 1 .. Len(a) + Len(b) : t[k] = IF k <= Len(a) THEN a[k] ELSE b[k - Len(a)]
  BY <1>1, <1>2, <1>3, ConcatProperties
<1>5. Len(t) = Len(s) - 1
  BY <1>0, <1>1, <1>2, <1>4
<1>6. ASSUME NEW k \in 1 .. Len(s) - 1
      PROVE  t[k] = IF k < i THEN s[k] ELSE s[k + 1]
  <2>1. CASE k < i
    BY <1>0, <1>1, <1>2, <1>4, <2>1
  <2>2. CASE k >= i
    <3>1. k - (i - 1) \in 1 .. Len(s) - i /\ (k - (i - 1)) + i = k + 1
      BY <1>0, <2>2
    <3>2. k \in 1 .. Len(a) + Len(b) /\ ~(k <= Len(a)) /\ Len(a) = i - 1
      BY <1>0, <1>1, <1>2, <2>2
    <3>3. t[k] = b[k - (i - 1)]
      BY <1>4, <3>2
    <3>4. QED
      BY <1>0, <1>2, <2>2, <3>1, <3>3
  <2>3. QED
    BY <2>1, <2>2
<1>7. QED
  BY <1>4, <1>5, <1>6 DEF t

\* What is not crossed was not, and is not removed while it is busy.
LEMMA Uncrossed ==
  ASSUME Crosses
  PROVE  /\ crossed' = {} => crossed = {}
         /\ \A k \in S!Client : k \notin crossed' => k \notin crossed /\ ~ (S!Removing(k)' /\ S!Busy(k)')
BY DEF Crosses

LEMMA ItsAt ==
  ASSUME SessionTypes, NEW k \in S!Client
  PROVE  /\ connections[k] \in Seq(S!Conn) /\ Its(k) \subseteq S!Conn
         /\ \A c : c \in Its(k) <=> \E i \in 1 .. Len(connections[k]) : connections[k][i] = c
BY DEF SessionTypes, Its, S!ToSet

\* The length of a list tells whether a client has one connection or several.
LEMMA ItsCount ==
  ASSUME SessionTypes, ListsApart, NEW k \in S!Client
  PROVE  /\ Len(connections[k]) = 0 => Its(k) = {}
         /\ Len(connections[k]) = 1 => Its(k) = {connections[k][1]}
         /\ Len(connections[k]) > 1 => \A c : \E d \in Its(k) : d # c
<1> DEFINE s == connections[k]
<1>1. s \in Seq(S!Conn) /\ \A c : c \in Its(k) <=> \E i \in 1 .. Len(s) : s[i] = c
  BY ItsAt
<1>2. \A i, j \in 1 .. Len(s) : s[i] = s[j] => i = j
  BY <1>1 DEF ListsApart
<1> HIDE DEF s
<1>3. Len(s) \in Nat
  BY <1>1
<1>4. Len(s) = 0 => Its(k) = {}
  BY <1>1
<1>5. Len(s) = 1 => Its(k) = {s[1]}
  <2>1. 1 .. 1 = {1}
    OBVIOUS
  <2>2. QED
    BY <1>1, <2>1
<1>6. ASSUME Len(s) > 1, NEW c  PROVE \E d \in Its(k) : d # c
  <2>1. 1 \in 1 .. Len(s) /\ 2 \in 1 .. Len(s)
    BY <1>3, <1>6
  <2>2. s[1] \in Its(k) /\ s[2] \in Its(k) /\ s[1] # s[2]
    BY <1>1, <1>2, <2>1
  <2>3. QED
    BY <2>2
<1>7. QED
  BY <1>4, <1>5, <1>6 DEF s

\* A list without one of its connections.
LEMMA ItsShrinks ==
  ASSUME SessionTypes, ListsApart, NEW k \in S!Client, NEW c \in Its(k),
         connections' = [connections EXCEPT ![k] = S!RemoveFirst(@, c)]
  PROVE  /\ connections' \in [S!Client -> Seq(S!Conn)]
         /\ Its(k)' = Its(k) \ {c} /\ \A j \in S!Client : j # k => Its(j)' = Its(j)
         /\ \A j \in S!Client : \A i, m \in DOMAIN connections'[j] :
                connections'[j][i] = connections'[j][m] => i = m
<1> DEFINE s == connections[k]
           J == {i \in 1 .. Len(s) : s[i] = c}
           p == S!Min(J)
           t == S!RemoveAt(s, p)
           Old(i) == IF i < p THEN i ELSE i + 1
<1>1. s \in Seq(S!Conn) /\ \A d : d \in Its(k) <=> \E i \in 1 .. Len(s) : s[i] = d
  BY ItsAt
<1>2. \A i, j \in 1 .. Len(s) : s[i] = s[j] => i = j
  BY <1>1 DEF ListsApart
<1>3. J # {}
  BY <1>1
<1>4. S!RemoveFirst(s, c) = S!RemoveAt(s, S!SelectInSeq(s, LAMBDA v : v = c))
  BY <1>3 DEF S!RemoveFirst
<1>5. S!SelectInSeq(s, LAMBDA v : v = c) = p
  BY <1>3 DEF S!SelectInSeq
<1>6. p \in J
  <2>1. J \in SUBSET Nat
    BY <1>1
  <2>2. S!Min(J) = S!LowestOf(J)
    BY DEF S!Min, S!LowestOf
  <2> HIDE DEF J
  <2>3. QED
    BY <1>3, <2>1, <2>2, SessionLowest
<1>7. p \in 1 .. Len(s) /\ s[p] = c
  BY <1>6
<1>8. connections' = [connections EXCEPT ![k] = t]
  BY <1>4, <1>5
<1> HIDE DEF p, J
<1>9. /\ t \in Seq(S!Conn) /\ Len(t) = Len(s) - 1
      /\ \A i \in 1 .. Len(s) - 1 : t[i] = IF i < p THEN s[i] ELSE s[i + 1]
  <2> HIDE DEF s
  <2>1. QED
    BY <1>1, <1>7, SessionWithoutOne
<1> HIDE DEF s, t
<1>0. Len(s) \in Nat
  BY <1>1
<1>10. \A i \in 1 .. Len(t) : Old(i) \in 1 .. Len(s) /\ Old(i) # p /\ t[i] = s[Old(i)]
  BY <1>0, <1>7, <1>9
<1>11. \A i, j \in 1 .. Len(t) : Old(i) = Old(j) => i = j
  BY <1>0, <1>7, <1>9
<1>12. \A i \in 1 .. Len(s) : i # p => \E j \in 1 .. Len(t) : Old(j) = i
  <2> SUFFICES ASSUME NEW i \in 1 .. Len(s), i # p
               PROVE  \E j \in 1 .. Len(t) : Old(j) = i
    OBVIOUS
  <2>1. CASE i < p
    <3>1. i \in 1 .. Len(t) /\ Old(i) = i
      BY <1>0, <1>7, <1>9, <2>1
    <3>2. QED
      BY <3>1
  <2>2. CASE i > p
    <3>1. i - 1 \in 1 .. Len(t) /\ Old(i - 1) = i
      BY <1>0, <1>7, <1>9, <2>2
    <3>2. QED
      BY <3>1
  <2>3. QED
    BY <1>0, <1>7, <2>1, <2>2
<1> HIDE DEF Old
<1>13. /\ connections' \in [S!Client -> Seq(S!Conn)] /\ connections'[k] = t
       /\ \A j \in S!Client : j # k => connections'[j] = connections[j]
  BY <1>8, <1>9 DEF SessionTypes
<1>14. \A j \in S!Client : j # k => Its(j)' = Its(j)
  BY <1>13 DEF Its
<1>15. \A d : d \in Its(k)' <=> \E i \in 1 .. Len(t) : t[i] = d
  <2>1. DOMAIN t = 1 .. Len(t)
    BY <1>9
  <2>2. Its(k)' = {t[i] : i \in DOMAIN t}
    BY <1>13 DEF Its, S!ToSet
  <2>3. QED
    BY <2>1, <2>2
<1>16. ASSUME NEW d
       PROVE  d \in Its(k)' <=> d \in Its(k) /\ d # c
  <2>1. ASSUME NEW i \in 1 .. Len(t), t[i] = d  PROVE d \in Its(k) /\ d # c
    <3>1. Old(i) \in 1 .. Len(s) /\ Old(i) # p /\ s[Old(i)] = d
      BY <1>10, <2>1
    <3>2. QED
      BY <1>1, <1>2, <1>7, <3>1
  <2>2. ASSUME NEW i \in 1 .. Len(s), s[i] = d, d # c  PROVE \E j \in 1 .. Len(t) : t[j] = d
    <3>1. PICK j \in 1 .. Len(t) : Old(j) = i
      BY <1>7, <1>12, <2>2
    <3>2. QED
      BY <1>10, <2>2, <3>1
  <2>3. QED
    BY <1>1, <1>15, <2>1, <2>2
<1>17. \A i, m \in 1 .. Len(t) : t[i] = t[m] => i = m
  BY <1>2, <1>10, <1>11
<1>18. ASSUME NEW j \in S!Client, NEW i \in DOMAIN connections'[j], NEW m \in DOMAIN connections'[j],
              connections'[j][i] = connections'[j][m]
       PROVE  i = m
  <2>1. CASE j = k
    BY <1>9, <1>13, <1>17, <1>18, <2>1
  <2>2. CASE j # k
    BY <1>13, <1>18, <2>2 DEF ListsApart
  <2>3. QED
    BY <2>1, <2>2
<1>19. QED
  BY <1>13, <1>14, <1>16, <1>18

\* A list with one more.
LEMMA ItsGrows ==
  ASSUME SessionTypes, ListsApart, NEW k \in S!Client, NEW c \in S!Conn, c \notin Its(k),
         connections' = [connections EXCEPT ![k] = Append(connections[k], c)]
  PROVE  /\ connections' \in [S!Client -> Seq(S!Conn)]
         /\ Its(k)' = Its(k) \cup {c} /\ \A j \in S!Client : j # k => Its(j)' = Its(j)
         /\ \A j \in S!Client : \A i, m \in DOMAIN connections'[j] :
                connections'[j][i] = connections'[j][m] => i = m
<1> DEFINE s == connections[k]
           t == Append(s, c)
<1>1. s \in Seq(S!Conn) /\ \A d : d \in Its(k) <=> \E i \in 1 .. Len(s) : s[i] = d
  BY ItsAt
<1>2. \A i, j \in 1 .. Len(s) : s[i] = s[j] => i = j
  BY <1>1 DEF ListsApart
<1> HIDE DEF s
<1>3. /\ t \in Seq(S!Conn) /\ Len(t) = Len(s) + 1 /\ t[Len(s) + 1] = c
      /\ \A i \in 1 .. Len(s) : t[i] = s[i]
  BY <1>1
<1>4. connections' = [connections EXCEPT ![k] = t]
  BY DEF s
<1>0. Len(s) \in Nat
  BY <1>1
<1> HIDE DEF t
<1>5. /\ connections' \in [S!Client -> Seq(S!Conn)] /\ connections'[k] = t
      /\ \A j \in S!Client : j # k => connections'[j] = connections[j]
  BY <1>3, <1>4 DEF SessionTypes
<1>6. \A j \in S!Client : j # k => Its(j)' = Its(j)
  BY <1>5 DEF Its
<1>7. \A d : d \in Its(k)' <=> \E i \in 1 .. Len(t) : t[i] = d
  <2>1. DOMAIN t = 1 .. Len(t)
    BY <1>3
  <2>2. Its(k)' = {t[i] : i \in DOMAIN t}
    BY <1>5 DEF Its, S!ToSet
  <2>3. QED
    BY <2>1, <2>2
<1>8. \A i \in 1 .. Len(t) : i \in 1 .. Len(s) \/ i = Len(s) + 1
  BY <1>0, <1>3
<1>9. \A i \in 1 .. Len(s) : i \in 1 .. Len(t)
  BY <1>0, <1>3
<1>10. Len(s) + 1 \in 1 .. Len(t)
  BY <1>0, <1>3
<1>11. \A d : d \in Its(k)' <=> d \in Its(k) \/ d = c
  BY <1>1, <1>3, <1>7, <1>8, <1>9, <1>10
<1>12. \A i, m \in 1 .. Len(t) : t[i] = t[m] => i = m
  BY <1>1, <1>2, <1>3, <1>8
<1>13. ASSUME NEW j \in S!Client, NEW i \in DOMAIN connections'[j], NEW m \in DOMAIN connections'[j],
              connections'[j][i] = connections'[j][m]
       PROVE  i = m
  <2>1. CASE j = k
    BY <1>3, <1>5, <1>12, <1>13, <2>1
  <2>2. CASE j # k
    BY <1>5, <1>13, <2>2 DEF ListsApart
  <2>3. QED
    BY <2>1, <2>2
<1>14. QED
  BY <1>5, <1>6, <1>11, <1>13

\* Of the threads that receive, only one takes a step.
OnlyThread(t) ==
    /\ DOMAIN sePc' = S!Thread /\ DOMAIN crClient' = S!Thread /\ DOMAIN victim' = S!Thread
    /\ DOMAIN onlyOne' = S!Thread /\ DOMAIN after' = S!Thread
    /\ \A u \in S!Thread : u # t =>
           /\ sePc'[u] = sePc[u] /\ crClient'[u] = crClient[u] /\ victim'[u] = victim[u]
           /\ onlyOne'[u] = onlyOne[u] /\ after'[u] = after[u]
SameTables ==
    UNCHANGED <<handler_type, seMem, seClientMem, session_id, connections, seClients, seMap, sePolled, held,
                sePcH, seConnH, clientH>>

-----------------------------------------------------------------------------
(* Every step keeps the invariant                                          *)

\* A thread goes on and changes nothing else.
LEMMA MovesKeep ==
  ASSUME SessionInv, ~ S!Crashed, Crosses, NEW t \in S!Thread,
         SameTables, OnlyThread(t),
         sePc[t] \in {"poll", "queued", "loop", "exit", "size"},
         sePc'[t] \in {"poll", "none", "loop", "exit", "done", "size", "unpoll", "unmap", "remove", "dropUnmap"},
         after'[t] \in {"none", "poll", "loop", "done"},
         sePc'[t] \notin {"poll", "none", "done"} =>
             crClient'[t] \in S!Client /\ seClientMem[crClient'[t]] # "unused",
         sePc'[t] \in {"unpoll", "unmap"} =>
             /\ victim'[t] \in Its(crClient'[t]) /\ (onlyOne'[t] => Its(crClient'[t]) = {victim'[t]})
             /\ ~ onlyOne'[t] => \E c \in Its(crClient'[t]) : c # victim'[t],
         sePc'[t] = "remove" => Its(crClient'[t]) = {},
         sePc'[t] = "unmap" => handler_type # "poll"
  PROVE  SessionInv'
<1> USE DEF SameTables, OnlyThread
<1>0. /\ SessionTypes /\ ListsApart /\ Unmade /\ MadeOnce /\ HoldTells /\ NotStarted /\ VictimsListed
      /\ \A k \in S!Client \ crossed : Sound(k)
      /\ handler_type = "poll" /\ crossed = {} => PollsListed
  BY DEF SessionInv
<1>1. \A k : Its(k)' = Its(k)
  BY DEF Its
<1>2. SessionTypes'
  BY <1>0, <1>1, SessionNames DEF SessionTypes
<1>3. ListsApart'
  BY <1>0, <1>1 DEF ListsApart
<1>4. Unmade' /\ MadeOnce'
  BY <1>0, <1>1 DEF Unmade, MadeOnce
<1>5. HoldTells'
  BY <1>0, <1>1 DEF HoldTells, Holding
<1>6. NotStarted'
  <2>1. \A c \in S!Conn : sePc[c] = "none" => sePc'[c] = "none"
    BY SessionNames
  <2>2. sePcH # "poll" => seConnH \in S!Conn
    BY <1>0 DEF SessionTypes, S!Crashed
  <2>3. QED
    BY <1>0, <2>1, <2>2 DEF NotStarted
<1>7. VictimsListed'
  BY <1>0, <1>1, ItsAt DEF VictimsListed, Leaving
<1>8. ASSUME NEW k \in S!Client \ crossed'  PROVE Sound(k)'
  <2>0. k \in S!Client /\ k \notin crossed /\ Sound(k) /\ ~ (S!Removing(k)' /\ S!Busy(k)')
    BY <1>0, <1>8, Uncrossed
  <2>1. BusyLives(k)'
    BY <1>0, <1>1, <2>0 DEF Sound, BusyLives, S!Busy
  <2>2. MapsTo(k)'
    BY <1>0, <1>1, <2>0 DEF Sound, MapsTo, Taken, Dropping, Leaving
  <2>3. HasOne(k)'
    BY <1>0, <1>1, <2>0, SessionNames DEF Sound, HasOne, Leaving
  <2>4. S!DistinctIds' => InTree(k)'
    BY <1>0, <1>1, <2>0 DEF Sound, S!DistinctIds, InTree, S!Busy, Gone
  <2>5. QED
    BY <2>1, <2>2, <2>3, <2>4 DEF Sound
<1>9. ASSUME handler_type' = "poll", crossed' = {}  PROVE PollsListed'
  BY <1>0, <1>1, <1>9, Uncrossed, SessionNames DEF PollsListed, Unpolled
<1>10. QED
  BY <1>2, <1>3, <1>4, <1>5, <1>6, <1>7, <1>8, <1>9 DEF SessionInv

\* A removal begins.
LEMMA RemovalBegins ==
  ASSUME SessionInv, ~ S!Crashed, Crosses, NEW t \in S!Thread, sePc[t] \in {"poll", "loop", "exit"},
         NEW k \in S!Client, seClientMem[k] # "unused", NEW c, NEW dest \in {"poll", "loop", "done"},
         S!RemoveConnection(t, sePc[t], k, c, dest)
  PROVE  SessionInv'
<1>0. SessionTypes
  BY DEF SessionInv
<1>1. SameTables /\ OnlyThread(t) /\ sePc'[t] = "size" /\ after'[t] = dest /\ crClient'[t] = k
  BY <1>0 DEF SessionTypes, S!RemoveConnection, S!Goto, S!objects, S!tables, S!hold, SameTables, OnlyThread
<1>2. QED
  BY <1>1, MovesKeep

\* The thread of a connection begins, or stops receiving.
LEMMA GoesOn ==
  ASSUME SessionInv, ~ S!Crashed, Crosses, NEW c \in S!Conn, S!Begin(c) \/ S!ThreadFails(c)
  PROVE  SessionInv'
<1>0. SessionTypes /\ VictimsListed
  BY DEF SessionInv
<1>1. /\ SameTables /\ OnlyThread(c) /\ UNCHANGED <<crClient, after>>
      /\ sePc[c] \in {"queued", "loop"} /\ sePc'[c] \in {"loop", "exit"}
  BY <1>0, SessionNames
  DEF SessionTypes, S!Begin, S!ThreadFails, S!Goto, S!objects, S!tables, S!hold, S!receive, S!removal,
      SameTables, OnlyThread
<1>2. crClient'[c] \in S!Client /\ seClientMem[crClient'[c]] # "unused" /\ after'[c] \in {"none", "poll", "loop", "done"}
  BY <1>0, <1>1, SessionNames DEF VictimsListed, SessionTypes
<1>3. c \in S!Thread
  BY SessionNames
<1>4. QED
  BY <1>0, <1>1, <1>2, <1>3, MovesKeep DEF SessionTypes

\* A thread of a connection removes or ends.
LEMMA Leaves ==
  ASSUME SessionInv, ~ S!Crashed, Crosses, NEW c \in S!Conn,
         S!PollLeaves(c) \/ S!ThreadCloses(c) \/ (S!ThreadExits(c) /\ sePc'[c] = "size")
  PROVE  SessionInv'
<1>0. SessionTypes /\ VictimsListed /\ c \in S!Thread /\ S!Poller \in S!Thread
  BY SessionNames DEF SessionInv
<1>1. CASE S!PollLeaves(c)
  <2>1. seMap[c] \in S!Client /\ seClientMem[seMap[c]] # "unused"
    BY <1>0, <1>1 DEF S!PollLeaves, SessionTypes
  <2>2. S!RemoveConnection(S!Poller, sePc[S!Poller], seMap[c], c, "poll") /\ sePc[S!Poller] = "poll"
    BY <1>1 DEF S!PollLeaves, S!RemoveConnection, S!Goto
  <2>3. QED
    BY <1>0, <2>1, <2>2, RemovalBegins
<1>2. CASE S!ThreadCloses(c)
  <2>1. /\ S!RemoveConnection(c, sePc[c], crClient[c], crConn[c], "loop") /\ sePc[c] = "loop"
    BY <1>2 DEF S!ThreadCloses, S!RemoveConnection, S!Goto
  <2>2. crClient[c] \in S!Client /\ seClientMem[crClient[c]] # "unused"
    BY <1>0, <2>1 DEF VictimsListed
  <2>3. QED
    BY <1>0, <2>1, <2>2, RemovalBegins
<1>3. CASE S!ThreadExits(c) /\ sePc'[c] = "size"
  <2>1. /\ S!RemoveConnection(c, sePc[c], crClient[c], holder[crSock[c]], "done") /\ sePc[c] = "exit"
        /\ holder[crSock[c]] \in S!Conn
    BY <1>0, <1>3 DEF S!ThreadExits, S!RemoveConnection, S!Goto, S!Crash, SessionTypes
  <2>2. crClient[c] \in S!Client /\ seClientMem[crClient[c]] # "unused"
    BY <1>0, <2>1 DEF VictimsListed
  <2>3. QED
    BY <1>0, <2>1, <2>2, RemovalBegins
<1>4. QED
  BY <1>1, <1>2, <1>3

\* A client asks the poll thread to disconnect it.
LEMMA Disconnects ==
  ASSUME SessionInv, ~ S!Crashed, Crosses, NEW c \in S!Conn, S!PollDisconnects(c)
  PROVE  SessionInv'
<1>0. SessionTypes /\ VictimsListed /\ S!Poller \in S!Thread
  BY SessionNames DEF SessionInv
<1>1. seMap[c] \in S!Client /\ seClientMem[seMap[c]] # "unused"
  BY <1>0 DEF S!PollDisconnects, SessionTypes
<1>2. /\ SameTables /\ OnlyThread(S!Poller) /\ UNCHANGED after
      /\ sePc[S!Poller] = "poll" /\ sePc'[S!Poller] = "dropUnmap" /\ crClient'[S!Poller] = seMap[c]
  BY <1>0 DEF SessionTypes, S!PollDisconnects, S!Goto, S!objects, S!tables, S!hold, S!removal, SameTables, OnlyThread
<1>3. after'[S!Poller] \in {"none", "poll", "loop", "done"}
  BY <1>0, <1>2 DEF SessionTypes
<1>4. QED
  BY <1>0, <1>1, <1>2, <1>3, MovesKeep

\* A thread of a connection ends.
LEMMA Ends ==
  ASSUME SessionInv, ~ S!Crashed, Crosses, NEW c \in S!Conn, S!ThreadExits(c), sePc'[c] = "done"
  PROVE  SessionInv'
<1>0. SessionTypes /\ VictimsListed /\ c \in S!Thread
  BY SessionNames DEF SessionInv
<1>2. /\ SameTables /\ OnlyThread(c) /\ UNCHANGED after
      /\ sePc[c] = "exit"
  BY <1>0 DEF SessionTypes, S!ThreadExits, S!RemoveConnection, S!Crash, S!EndReceive, S!Goto, S!objects, S!hold,
              S!removal, SameTables, OnlyThread
<1>3. after'[c] \in {"none", "poll", "loop", "done"}
  BY <1>0, <1>2 DEF SessionTypes
<1>4. QED
  BY <1>0, <1>2, <1>3, MovesKeep

\* What a thread does when it returns from a removal.
LEMMA Returns ==
  ASSUME SessionTypes, NEW t \in S!Thread, NEW from, S!Return(t, from)
  PROVE  /\ OnlyThread(t) /\ sePc[t] = from /\ sePc'[t] \in {"none", "poll", "loop", "done"}
         /\ after'[t] = "none" /\ (sePc'[t] = "loop" => crClient'[t] = crClient[t])
         /\ UNCHANGED <<handler_type, sePcH, seConnH, clientH>>
BY DEF SessionTypes, S!Return, S!Goto, S!EndReceive, S!receive, S!hold, OnlyThread

\* A thread counts the connections of its client.
LEMMA Counts ==
  ASSUME SessionInv, ~ S!Crashed, Crosses, NEW t \in S!Thread, S!Count(t)
  PROVE  SessionInv'
<1> DEFINE k == crClient[t]
           list == connections[k]
<1>0. SessionTypes /\ VictimsListed /\ ListsApart
  BY DEF SessionInv
<1>1. k \in S!Client /\ seClientMem[k] # "unused" /\ sePc[t] = "size" /\ after[t] \in {"none", "poll", "loop", "done"}
  BY <1>0 DEF S!Count, VictimsListed, SessionTypes
<1>2. UNCHANGED <<seMem, seClientMem, session_id, connections, seClients, seMap, sePolled, held>>
  BY DEF S!Count, S!objects
<1>3. CASE S!Return(t, "size")
  <2>1. SameTables /\ OnlyThread(t) /\ sePc'[t] \in {"none", "poll", "loop", "done"}
        /\ after'[t] = "none" /\ (sePc'[t] = "loop" => crClient'[t] = k)
    BY <1>0, <1>2, <1>3, Returns DEF SameTables
  <2>2. QED
    BY <1>1, <2>1, MovesKeep
<1>4. ASSUME NEW dest \in {"remove", "unpoll", "unmap"}, S!Goto(t, "size", dest), UNCHANGED <<after, S!receive>>,
             OnlyThread(t)
      PROVE  /\ SameTables /\ sePc'[t] = dest /\ after'[t] \in {"none", "poll", "loop", "done"}
             /\ crClient'[t] = k
  BY <1>0, <1>1, <1>2, <1>4 DEF SessionTypes, S!Goto, S!hold, S!receive, SameTables
<1>5. CASE Len(list) = 0 /\ S!Goto(t, "size", "remove") /\ UNCHANGED <<S!removal, S!receive>>
  <2>1. OnlyThread(t)
    BY <1>0, <1>5 DEF SessionTypes, S!Goto, S!removal, S!receive, OnlyThread
  <2>2. SameTables /\ sePc'[t] = "remove" /\ after'[t] \in {"none", "poll", "loop", "done"} /\ crClient'[t] = k
    BY <1>4, <1>5, <2>1 DEF S!removal
  <2>3. Its(k) = {}
    BY <1>0, <1>1, <1>5, ItsCount
  <2>4. QED
    BY <1>1, <2>1, <2>2, <2>3, MovesKeep
<1> DEFINE first == IF handler_type = "poll" THEN "unpoll" ELSE "unmap"
<1>6. CASE /\ Len(list) = 1 /\ S!Goto(t, "size", first)
           /\ victim' = [victim EXCEPT ![t] = list[1]] /\ onlyOne' = [onlyOne EXCEPT ![t] = TRUE]
           /\ UNCHANGED <<after, S!receive>>
  <2>1. OnlyThread(t) /\ victim'[t] = list[1] /\ onlyOne'[t]
    BY <1>0, <1>6 DEF SessionTypes, S!Goto, S!receive, OnlyThread
  <2>2. SameTables /\ sePc'[t] = first /\ after'[t] \in {"none", "poll", "loop", "done"} /\ crClient'[t] = k
    BY <1>4, <1>6, <2>1
  <2>3. Its(k) = {list[1]}
    BY <1>0, <1>1, <1>6, ItsCount
  <2>4. QED
    BY <1>1, <2>1, <2>2, <2>3, MovesKeep
<1>7. CASE /\ Len(list) > 1 /\ victim[t] \in S!ToSet(list) /\ S!Goto(t, "size", first)
           /\ onlyOne' = [onlyOne EXCEPT ![t] = FALSE] /\ UNCHANGED <<victim, after, S!receive>>
  <2>1. OnlyThread(t) /\ victim'[t] = victim[t] /\ ~ onlyOne'[t]
    BY <1>0, <1>7 DEF SessionTypes, S!Goto, S!receive, OnlyThread
  <2>2. SameTables /\ sePc'[t] = first /\ after'[t] \in {"none", "poll", "loop", "done"} /\ crClient'[t] = k
    BY <1>4, <1>7, <2>1
  <2>3. victim[t] \in Its(k) /\ \E d \in Its(k) : d # victim[t]
    BY <1>0, <1>1, <1>7, ItsCount DEF Its
  <2>4. QED
    BY <1>1, <2>1, <2>2, <2>3, MovesKeep
<1>8. QED
  BY <1>3, <1>5, <1>6, <1>7 DEF S!Count

\* A use of what was freed: from then on nothing is said.
LEMMA Crashes ==
  ASSUME SessionInv,
         \/ S!UseFreedH
         \/ \E c \in S!Conn : S!PollUsesFreed(c) \/ S!ThreadCrashes(c) \/ (S!ThreadExits(c) /\ sePc'[c] = "crashed")
         \/ \E t \in S!Thread : S!UseFreed(t)
  PROVE  SessionInv'
<1> DEFINE Same == UNCHANGED <<seMem, seClientMem, session_id, connections, seClients, seMap, sePolled, held,
                               seConnH, clientH, crClient, victim, onlyOne, after>>
<1>0. SessionTypes /\ \A c \in S!Conn : c \in S!Thread
  BY SessionNames DEF SessionInv
<1>1. ASSUME NEW t \in S!Thread, NEW from, S!Crash(t, from)
      PROVE  Same /\ UNCHANGED sePcH /\ DOMAIN sePc' = S!Thread /\ sePc'[t] = "crashed"
  BY <1>0, <1>1 DEF SessionTypes, S!Crash, S!Goto, S!objects, S!tables, S!hold, S!receive, S!removal
<1> HIDE DEF Same
<1>2. CASE S!UseFreedH
  <2>1. Same /\ UNCHANGED sePc /\ sePcH' = "crashed" /\ sePcH # "poll"
    BY <1>2 DEF S!UseFreedH, S!StepH, S!objects, S!tables, S!receive, S!removal, Same
  <2>2. SessionTypes'
    BY <1>0, <2>1 DEF Same, SessionTypes
  <2>3. QED
    BY <2>1, <2>2 DEF S!Crashed, SessionInv
<1>3. ASSUME NEW t \in S!Thread, NEW from, S!Crash(t, from)
      PROVE  SessionInv'
  <2>1. Same /\ UNCHANGED sePcH /\ DOMAIN sePc' = S!Thread /\ sePc'[t] = "crashed"
    BY <1>1, <1>3
  <2>2. SessionTypes'
    BY <1>0, <2>1 DEF Same, SessionTypes
  <2>3. QED
    BY <2>1, <2>2 DEF S!Crashed, SessionInv
<1>4. ASSUME NEW c \in S!Conn, S!ThreadExits(c), sePc'[c] = "crashed"
      PROVE  S!Crash(c, "exit")
  BY <1>0, <1>4 DEF S!ThreadExits, S!RemoveConnection, S!Goto, SessionTypes
<1>5. ASSUME NEW c \in S!Conn, S!PollUsesFreed(c) \/ S!ThreadCrashes(c) \/ (S!ThreadExits(c) /\ sePc'[c] = "crashed")
      PROVE  SessionInv'
  BY <1>0, <1>3, <1>4, <1>5, SessionNames DEF S!PollUsesFreed, S!ThreadCrashes
<1>6. ASSUME NEW t \in S!Thread, S!UseFreed(t)
      PROVE  SessionInv'
  BY <1>3, <1>6 DEF S!UseFreed
<1>7. QED
  BY <1>2, <1>5, <1>6

\* A connection is taken out of the poll array.
LEMMA Unpolls ==
  ASSUME SessionInv, ~ S!Crashed, Crosses, NEW t \in S!Thread, S!Unpoll(t)
  PROVE  SessionInv'
<1>0. /\ SessionTypes /\ ListsApart /\ Unmade /\ MadeOnce /\ HoldTells /\ NotStarted /\ VictimsListed
      /\ \A k \in S!Client \ crossed : Sound(k)
      /\ handler_type = "poll" /\ crossed = {} => PollsListed
  BY DEF SessionInv
<1>1. /\ UNCHANGED <<handler_type, seMem, seClientMem, session_id, connections, seClients, seMap, held,
                     sePcH, seConnH, clientH, crClient, victim, onlyOne, after>>
      /\ sePolled' = sePolled \ {victim[t]} /\ DOMAIN sePc' = S!Thread /\ sePc[t] = "unpoll" /\ sePc'[t] = "unmap"
      /\ \A u \in S!Thread : u # t => sePc'[u] = sePc[u]
      /\ \A j : Its(j)' = Its(j)
  <2>1. SessionTypes
    BY <1>0
  <2>2. QED
    BY <2>1 DEF SessionTypes, Its, S!Unpoll, S!Goto, S!objects, S!hold, S!receive, S!removal
<1>2. SessionTypes'
  BY <1>0, <1>1, SessionNames DEF SessionTypes
<1>3. ListsApart'
  BY <1>0, <1>1 DEF ListsApart
<1>4. Unmade' /\ MadeOnce'
  BY <1>0, <1>1 DEF Unmade, MadeOnce
<1>5. HoldTells'
  BY <1>0, <1>1 DEF HoldTells, Holding
<1>6. NotStarted'
  <2>1. \A c \in S!Conn : sePc[c] = "none" => sePc'[c] = "none"
    BY <1>1, SessionNames
  <2>2. sePcH # "poll" => seConnH \in S!Conn
    BY <1>0 DEF SessionTypes, S!Crashed
  <2>3. QED
    BY <1>0, <1>1, <2>1, <2>2 DEF NotStarted
<1>7. VictimsListed'
  BY <1>0, <1>1 DEF VictimsListed, Leaving
<1>8. ASSUME NEW k \in S!Client \ crossed'  PROVE Sound(k)'
  <2>0. k \in S!Client /\ k \notin crossed /\ Sound(k) /\ ~ (S!Removing(k)' /\ S!Busy(k)')
    BY <1>0, <1>8, Uncrossed
  <2>1. BusyLives(k)'
    BY <1>0, <1>1, <2>0 DEF Sound, BusyLives, S!Busy
  <2>2. MapsTo(k)'
    BY <1>0, <1>1, <2>0 DEF Sound, MapsTo, Taken, Dropping, Leaving
  <2>3. HasOne(k)'
    BY <1>0, <1>1, <2>0, SessionNames DEF Sound, HasOne, Leaving
  <2>4. S!DistinctIds' => InTree(k)'
    BY <1>0, <1>1, <2>0 DEF Sound, S!DistinctIds, InTree, S!Busy, Gone
  <2>5. QED
    BY <2>1, <2>2, <2>3, <2>4 DEF Sound
<1>9. ASSUME handler_type' = "poll", crossed' = {}  PROVE PollsListed'
  <2>1. t = S!Poller
    BY <1>0, <1>1, <1>9, SessionNames DEF NotStarted
  <2>2. QED
    BY <1>0, <1>1, <1>9, <2>1, Uncrossed DEF PollsListed, Unpolled
<1>10. QED
  BY <1>2, <1>3, <1>4, <1>5, <1>6, <1>7, <1>8, <1>9 DEF SessionInv

\* A connection is taken out of the map.
LEMMA Unmaps ==
  ASSUME SessionInv, ~ S!Crashed, Crosses, NEW t \in S!Thread, S!Unmap(t)
  PROVE  SessionInv'
<1>0. /\ SessionTypes /\ ListsApart /\ Unmade /\ MadeOnce /\ HoldTells /\ NotStarted /\ VictimsListed
      /\ \A k \in S!Client \ crossed : Sound(k)
      /\ handler_type = "poll" /\ crossed = {} => PollsListed
  BY DEF SessionInv
<1>1. /\ UNCHANGED <<handler_type, seMem, seClientMem, session_id, connections, seClients, sePolled, held,
                     sePcH, seConnH, clientH, crClient, victim, onlyOne, after>>
      /\ DOMAIN seMap' = S!Conn /\ seMap'[victim[t]] = S!None /\ \A c \in S!Conn : c # victim[t] => seMap'[c] = seMap[c]
      /\ DOMAIN sePc' = S!Thread /\ sePc[t] = "unmap" /\ sePc'[t] = "unlist"
      /\ seMem[victim[t]] = "live" /\ victim[t] \in S!Conn
      /\ \A u \in S!Thread : u # t => sePc'[u] = sePc[u]
      /\ \A j : Its(j)' = Its(j)
  <2>1. SessionTypes /\ VictimsListed
    BY <1>0
  <2>2. sePc[t] = "unmap" /\ victim[t] \in S!Conn
    BY <2>1 DEF S!Unmap, VictimsListed, Leaving
  <2>3. QED
    BY <2>1, <2>2 DEF SessionTypes, Its, S!Unmap, S!Goto, S!objects, S!hold, S!receive, S!removal
<1>2. SessionTypes'
  BY <1>0, <1>1, SessionNames DEF SessionTypes
<1>3. ListsApart'
  BY <1>0, <1>1 DEF ListsApart
<1>4. Unmade' /\ MadeOnce'
  BY <1>0, <1>1, SessionNames DEF Unmade, MadeOnce
<1>5. HoldTells'
  BY <1>0, <1>1 DEF HoldTells, Holding
<1>6. NotStarted'
  <2>1. \A c \in S!Conn : sePc[c] = "none" => sePc'[c] = "none"
    BY <1>1, SessionNames
  <2>2. sePcH # "poll" => seConnH \in S!Conn
    BY <1>0 DEF SessionTypes, S!Crashed
  <2>3. QED
    BY <1>0, <1>1, <2>1, <2>2 DEF NotStarted
<1>7. VictimsListed'
  BY <1>0, <1>1 DEF VictimsListed, Leaving
<1>8. ASSUME NEW k \in S!Client \ crossed'  PROVE Sound(k)'
  <2>0. k \in S!Client /\ k \notin crossed /\ Sound(k) /\ ~ (S!Removing(k)' /\ S!Busy(k)')
    BY <1>0, <1>8, Uncrossed
  <2>1. BusyLives(k)'
    BY <1>0, <1>1, <2>0 DEF Sound, BusyLives, S!Busy
  <2>2. MapsTo(k)'
    <3>1. Leaving(t) /\ crClient[t] \in S!Client /\ victim[t] \in Its(crClient[t]) /\ k # S!None
      BY <1>0, <1>1, <2>0, SessionNames DEF Sound, VictimsListed, Leaving
    <3>2. victim[t] \in Its(k) => crClient[t] = k
      BY <1>0, <2>0, <3>1 DEF ListsApart
    <3>3. \A c \in Its(k) : c \in S!Conn
      BY <1>0, <2>0, ItsAt
    <3>4. \A c \in S!Conn : seMap'[c] = k => c \in Its(k)'
      BY <1>0, <1>1, <2>0, <3>1 DEF Sound, MapsTo
    <3>5. \A c : Taken(k, c) => Taken(k, c)'
      BY <1>1 DEF Taken, Dropping
    <3>6. crClient[t] = k => Taken(k, victim[t])'
      BY <1>1 DEF Taken
    <3>7. ASSUME NEW c \in Its(k)'
          PROVE  \/ seMap'[c] = k \/ Taken(k, c)'
                 \/ c = seConnH /\ clientH = k /\ sePcH \in {"unhold", "map", "joinMap"}
      BY <1>0, <1>1, <2>0, <3>2, <3>3, <3>5, <3>6, <3>7 DEF Sound, MapsTo
    <3>8. ASSUME NEW u \in S!Thread, crClient'[u] = k
          PROVE  /\ sePc'[u] = "unlist" => seMap'[victim'[u]] # k
                 /\ Dropping(u)' => \A c \in S!Conn : seMap'[c] # k
                 /\ sePc'[u] \in {"remove", "delete"} => Its(k)' = {}
                 /\ Leaving(u)' /\ onlyOne'[u] => Its(k)' \subseteq {victim'[u]}
      BY <1>0, <1>1, <2>0, <3>1, <3>8 DEF Sound, MapsTo, Dropping, Leaving, VictimsListed
    <3>9. QED
      BY <1>1, <3>4, <3>7, <3>8 DEF MapsTo
  <2>3. HasOne(k)'
    BY <1>0, <1>1, <2>0, SessionNames DEF Sound, HasOne, Leaving
  <2>4. S!DistinctIds' => InTree(k)'
    BY <1>0, <1>1, <2>0 DEF Sound, S!DistinctIds, InTree, S!Busy, Gone
  <2>5. QED
    BY <2>1, <2>2, <2>3, <2>4 DEF Sound
<1>9. ASSUME handler_type' = "poll", crossed' = {}  PROVE PollsListed'
  BY <1>0, <1>1, <1>9, Uncrossed, SessionNames DEF PollsListed, Unpolled
<1>10. QED
  BY <1>2, <1>3, <1>4, <1>5, <1>6, <1>7, <1>8, <1>9 DEF SessionInv

\* The connections of a client that disconnects are taken out of the map.
LEMMA DropsMaps ==
  ASSUME SessionInv, ~ S!Crashed, Crosses, S!DropMaps
  PROVE  SessionInv'
<1>0. /\ SessionTypes /\ ListsApart /\ Unmade /\ MadeOnce /\ HoldTells /\ NotStarted /\ VictimsListed
      /\ \A k \in S!Client \ crossed : Sound(k)
      /\ handler_type = "poll" /\ crossed = {} => PollsListed
  BY DEF SessionInv
<1>1. /\ UNCHANGED <<handler_type, seMem, seClientMem, session_id, connections, seClients, sePolled, held,
                     sePcH, seConnH, clientH, crClient, victim, onlyOne, after>>
      /\ DOMAIN seMap' = S!Conn
      /\ \A c \in S!Conn : seMap'[c] = IF c \in Its(crClient[S!Poller]) THEN S!None ELSE seMap[c]
      /\ DOMAIN sePc' = S!Thread /\ sePc[S!Poller] = "dropUnmap" /\ sePc'[S!Poller] = "dropUnpoll"
      /\ \A u \in S!Thread : u # S!Poller => sePc'[u] = sePc[u]
      /\ \A j : Its(j)' = Its(j)
  <2>1. SessionTypes
    BY <1>0
  <2>3. QED
    BY <2>1, SessionNames DEF SessionTypes, Its, S!DropMaps, S!Goto, S!objects, S!hold, S!receive, S!removal
<1>2. SessionTypes'
  BY <1>0, <1>1, SessionNames DEF SessionTypes
<1>3. ListsApart'
  BY <1>0, <1>1 DEF ListsApart
<1>4. Unmade' /\ MadeOnce'
  BY <1>0, <1>1, SessionNames DEF Unmade, MadeOnce
<1>5. HoldTells'
  BY <1>0, <1>1 DEF HoldTells, Holding
<1>6. NotStarted'
  <2>1. \A c \in S!Conn : sePc[c] = "none" => sePc'[c] = "none"
    BY <1>1, SessionNames
  <2>2. sePcH # "poll" => seConnH \in S!Conn
    BY <1>0 DEF SessionTypes, S!Crashed
  <2>3. QED
    BY <1>0, <1>1, <2>1, <2>2 DEF NotStarted
<1>7. VictimsListed'
  BY <1>0, <1>1 DEF VictimsListed, Leaving
<1>8. ASSUME NEW k \in S!Client \ crossed'  PROVE Sound(k)'
  <2>0. k \in S!Client /\ k \notin crossed /\ Sound(k) /\ ~ (S!Removing(k)' /\ S!Busy(k)')
    BY <1>0, <1>8, Uncrossed
  <2>1. BusyLives(k)'
    BY <1>0, <1>1, <2>0 DEF Sound, BusyLives, S!Busy
  <2>2. MapsTo(k)'
    <3>1. k # S!None /\ crClient[S!Poller] \in S!Client
      BY <1>0, <1>1, <2>0, SessionNames DEF Sound, VictimsListed
    <3>2. \A c \in Its(k) : c \in S!Conn /\ (crClient[S!Poller] = k \/ c \notin Its(crClient[S!Poller]))
      BY <1>0, <2>0, <3>1, ItsAt DEF ListsApart
    <3>4. \A c \in S!Conn : seMap'[c] = k => c \in Its(k)' /\ crClient[S!Poller] # k
      BY <1>0, <1>1, <2>0, <3>1 DEF Sound, MapsTo
    <3>5. \A c : Taken(k, c) => Taken(k, c)'
      BY <1>1 DEF Taken, Dropping
    <3>6. crClient[S!Poller] = k => \A c : Taken(k, c)'
      BY <1>1, SessionNames DEF Taken, Dropping
    <3>7. ASSUME NEW c \in Its(k)'
          PROVE  \/ seMap'[c] = k \/ Taken(k, c)'
                 \/ c = seConnH /\ clientH = k /\ sePcH \in {"unhold", "map", "joinMap"}
      BY <1>0, <1>1, <2>0, <3>2, <3>5, <3>6, <3>7 DEF Sound, MapsTo
    <3>8. ASSUME NEW u \in S!Thread, crClient'[u] = k
          PROVE  /\ sePc'[u] = "unlist" => seMap'[victim'[u]] # k
                 /\ Dropping(u)' => \A c \in S!Conn : seMap'[c] # k
                 /\ sePc'[u] \in {"remove", "delete"} => Its(k)' = {}
                 /\ Leaving(u)' /\ onlyOne'[u] => Its(k)' \subseteq {victim'[u]}
      <4>1. sePc'[u] = "unlist" => victim[u] \in S!Conn /\ sePc[u] = "unlist"
        BY <1>0, <1>1 DEF VictimsListed, Leaving
      <4>2. sePc'[u] = "unlist" => seMap'[victim'[u]] # k
        BY <1>0, <1>1, <2>0, <3>1, <3>8, <4>1 DEF Sound, MapsTo
      <4>3. Dropping(u)' => \A c \in S!Conn : seMap'[c] # k
        BY <1>0, <1>1, <2>0, <3>1, <3>4, <3>8 DEF Sound, MapsTo, Dropping
      <4>4. QED
        BY <1>0, <1>1, <2>0, <3>8, <4>2, <4>3 DEF Sound, MapsTo, Leaving
    <3>9. QED
      BY <1>1, <3>4, <3>7, <3>8 DEF MapsTo
  <2>3. HasOne(k)'
    BY <1>0, <1>1, <2>0, SessionNames DEF Sound, HasOne, Leaving
  <2>4. S!DistinctIds' => InTree(k)'
    BY <1>0, <1>1, <2>0 DEF Sound, S!DistinctIds, InTree, S!Busy, Gone
  <2>5. QED
    BY <2>1, <2>2, <2>3, <2>4 DEF Sound
<1>9. ASSUME handler_type' = "poll", crossed' = {}  PROVE PollsListed'
  BY <1>0, <1>1, <1>9, Uncrossed, SessionNames DEF PollsListed, Unpolled
<1>10. QED
  BY <1>2, <1>3, <1>4, <1>5, <1>6, <1>7, <1>8, <1>9 DEF SessionInv

\* ... and out of the poll array.
LEMMA DropsPolls ==
  ASSUME SessionInv, ~ S!Crashed, Crosses, S!DropPolls
  PROVE  SessionInv'
<1>0. /\ SessionTypes /\ ListsApart /\ Unmade /\ MadeOnce /\ HoldTells /\ NotStarted /\ VictimsListed
      /\ \A k \in S!Client \ crossed : Sound(k)
      /\ handler_type = "poll" /\ crossed = {} => PollsListed
  BY DEF SessionInv
<1>1. /\ UNCHANGED <<handler_type, seMem, seClientMem, session_id, connections, seClients, seMap, held,
                     sePcH, seConnH, clientH, crClient, victim, onlyOne, after>>
      /\ sePolled' = sePolled \ Its(crClient[S!Poller])
      /\ DOMAIN sePc' = S!Thread /\ sePc[S!Poller] = "dropUnpoll" /\ sePc'[S!Poller] = "dropRemove"
      /\ \A u \in S!Thread : u # S!Poller => sePc'[u] = sePc[u]
      /\ \A j : Its(j)' = Its(j)
  <2>1. SessionTypes
    BY <1>0
  <2>3. QED
    BY <2>1, SessionNames DEF SessionTypes, Its, S!DropPolls, S!Goto, S!objects, S!hold, S!receive, S!removal
<1>2. SessionTypes'
  BY <1>0, <1>1, SessionNames DEF SessionTypes
<1>3. ListsApart'
  BY <1>0, <1>1 DEF ListsApart
<1>4. Unmade' /\ MadeOnce'
  BY <1>0, <1>1 DEF Unmade, MadeOnce
<1>5. HoldTells'
  BY <1>0, <1>1 DEF HoldTells, Holding
<1>6. NotStarted'
  <2>1. \A c \in S!Conn : sePc[c] = "none" => sePc'[c] = "none"
    BY <1>1, SessionNames
  <2>2. sePcH # "poll" => seConnH \in S!Conn
    BY <1>0 DEF SessionTypes, S!Crashed
  <2>3. QED
    BY <1>0, <1>1, <2>1, <2>2 DEF NotStarted
<1>7. VictimsListed'
  BY <1>0, <1>1 DEF VictimsListed, Leaving
<1>8. ASSUME NEW k \in S!Client \ crossed'  PROVE Sound(k)'
  <2>0. k \in S!Client /\ k \notin crossed /\ Sound(k) /\ ~ (S!Removing(k)' /\ S!Busy(k)')
    BY <1>0, <1>8, Uncrossed
  <2>1. BusyLives(k)'
    BY <1>0, <1>1, <2>0 DEF Sound, BusyLives, S!Busy
  <2>2. MapsTo(k)'
    BY <1>0, <1>1, <2>0 DEF Sound, MapsTo, Taken, Dropping, Leaving
  <2>3. HasOne(k)'
    BY <1>0, <1>1, <2>0, SessionNames DEF Sound, HasOne, Leaving
  <2>4. S!DistinctIds' => InTree(k)'
    BY <1>0, <1>1, <2>0 DEF Sound, S!DistinctIds, InTree, S!Busy, Gone
  <2>5. QED
    BY <2>1, <2>2, <2>3, <2>4 DEF Sound
<1>9. ASSUME handler_type' = "poll", crossed' = {}  PROVE PollsListed'
  BY <1>0, <1>1, <1>9, Uncrossed, SessionNames DEF PollsListed, Unpolled
<1>10. QED
  BY <1>2, <1>3, <1>4, <1>5, <1>6, <1>7, <1>8, <1>9 DEF SessionInv

\* A descriptor without client is closed.
LEMMA Rogues ==
  ASSUME SessionInv, ~ S!Crashed, Crosses, NEW d \in S!Conn, S!PollRogue(d)
  PROVE  SessionInv'
<1>0. /\ SessionTypes /\ ListsApart /\ Unmade /\ MadeOnce /\ HoldTells /\ NotStarted /\ VictimsListed
      /\ \A k \in S!Client \ crossed : Sound(k)
      /\ handler_type = "poll" /\ crossed = {} => PollsListed
  BY DEF SessionInv
<1>1. /\ UNCHANGED <<handler_type, seMem, seClientMem, session_id, connections, seClients, seMap, held,
                     sePcH, seConnH, clientH, crClient, victim, onlyOne, after>>
      /\ sePolled' = sePolled \ {d} /\ d \in sePolled /\ seMap[d] = S!None
      /\ DOMAIN sePc' = S!Thread /\ sePc[S!Poller] = "poll" /\ \A u \in S!Thread : sePc'[u] = sePc[u]
      /\ \A j : Its(j)' = Its(j)
  <2>1. SessionTypes
    BY <1>0
  <2>3. QED
    BY <2>1, SessionNames DEF SessionTypes, Its, S!PollRogue, S!Goto, S!objects, S!hold, S!receive, S!removal
<1>2. SessionTypes'
  BY <1>0, <1>1, SessionNames DEF SessionTypes
<1>3. ListsApart'
  BY <1>0, <1>1 DEF ListsApart
<1>4. Unmade' /\ MadeOnce'
  BY <1>0, <1>1 DEF Unmade, MadeOnce
<1>5. HoldTells'
  BY <1>0, <1>1 DEF HoldTells, Holding
<1>6. NotStarted'
  <2>1. \A c \in S!Conn : sePc[c] = "none" => sePc'[c] = "none"
    BY <1>1, SessionNames
  <2>2. sePcH # "poll" => seConnH \in S!Conn
    BY <1>0 DEF SessionTypes, S!Crashed
  <2>3. QED
    BY <1>0, <1>1, <2>1, <2>2 DEF NotStarted
<1>7. VictimsListed'
  BY <1>0, <1>1 DEF VictimsListed, Leaving
<1>8. ASSUME NEW k \in S!Client \ crossed'  PROVE Sound(k)'
  <2>0. k \in S!Client /\ k \notin crossed /\ Sound(k) /\ ~ (S!Removing(k)' /\ S!Busy(k)')
    BY <1>0, <1>8, Uncrossed
  <2>1. BusyLives(k)'
    BY <1>0, <1>1, <2>0 DEF Sound, BusyLives, S!Busy
  <2>2. MapsTo(k)'
    BY <1>0, <1>1, <2>0 DEF Sound, MapsTo, Taken, Dropping, Leaving
  <2>3. HasOne(k)'
    BY <1>0, <1>1, <2>0, SessionNames DEF Sound, HasOne, Leaving
  <2>4. S!DistinctIds' => InTree(k)'
    BY <1>0, <1>1, <2>0 DEF Sound, S!DistinctIds, InTree, S!Busy, Gone
  <2>5. QED
    BY <2>1, <2>2, <2>3, <2>4 DEF Sound
<1>9. ASSUME handler_type' = "poll", crossed' = {}  PROVE PollsListed'
  <2>1. crossed = {} /\ handler_type = "poll" /\ PollsListed
    BY <1>0, <1>1, <1>9, Uncrossed
  <2>2. PICK k \in S!Client : d \in Its(k)
    BY <1>1, <2>1 DEF PollsListed
  <2>3. ~ Unpolled(d) /\ MapsTo(k)
    BY <1>0, <1>1, <2>1, <2>2 DEF PollsListed, Sound
  <2>4. Taken(k, d)
    BY <1>1, <2>2, <2>3, SessionNames DEF MapsTo, Unpolled
  <2>5. QED
    BY <1>0, <1>1, <2>1, <2>4, SessionNames DEF Taken, Dropping, NotStarted
<1>10. QED
  BY <1>2, <1>3, <1>4, <1>5, <1>6, <1>7, <1>8, <1>9 DEF SessionInv

\* The client is taken out of the tree.
LEMMA RemovesClient ==
  ASSUME SessionInv, ~ S!Crashed, Crosses, NEW t \in S!Thread, S!RemoveClient(t)
  PROVE  SessionInv'
<1>0. /\ SessionTypes /\ ListsApart /\ Unmade /\ MadeOnce /\ HoldTells /\ NotStarted /\ VictimsListed
      /\ \A k \in S!Client \ crossed : Sound(k)
      /\ handler_type = "poll" /\ crossed = {} => PollsListed
  BY DEF SessionInv
<1>1. /\ UNCHANGED <<handler_type, seMem, seClientMem, session_id, connections, sePolled, seMap, held,
                     sePcH, seConnH, clientH, crClient, victim, onlyOne, after>>
      /\ seClients' \subseteq seClients /\ seClientMem[crClient[t]] = "live" /\ DOMAIN sePc' = S!Thread
      /\ (sePc[t] = "remove" /\ sePc'[t] = "delete") \/ (sePc[t] = "dropRemove" /\ sePc'[t] = "dropDelete")
      /\ \A u \in S!Thread : u # t => sePc'[u] = sePc[u]
      /\ \A j : Its(j)' = Its(j)
  <2>1. SessionTypes
    BY <1>0
  <2>2. QED
    BY <2>1 DEF SessionTypes, Its, S!RemoveClient, S!TakeOut, S!Goto, S!objects, S!hold, S!receive, S!removal
<1>2. SessionTypes'
  BY <1>0, <1>1, SessionNames DEF SessionTypes
<1>3. ListsApart'
  BY <1>0, <1>1 DEF ListsApart
<1>4. Unmade' /\ MadeOnce'
  BY <1>0, <1>1 DEF Unmade, MadeOnce
<1>5. HoldTells'
  BY <1>0, <1>1 DEF HoldTells, Holding
<1>6. NotStarted'
  <2>1. \A c \in S!Conn : sePc[c] = "none" => sePc'[c] = "none"
    BY <1>1, SessionNames
  <2>2. sePcH # "poll" => seConnH \in S!Conn
    BY <1>0 DEF SessionTypes, S!Crashed
  <2>3. QED
    BY <1>0, <1>1, <2>1, <2>2 DEF NotStarted
<1>7. VictimsListed'
  BY <1>0, <1>1 DEF VictimsListed, Leaving
<1>8. ASSUME NEW k \in S!Client \ crossed'  PROVE Sound(k)'
  <2>0. k \in S!Client /\ k \notin crossed /\ Sound(k) /\ ~ (S!Removing(k)' /\ S!Busy(k)')
    BY <1>0, <1>8, Uncrossed
  <2>1. BusyLives(k)'
    BY <1>0, <1>1, <2>0 DEF Sound, BusyLives, S!Busy
  <2>2. MapsTo(k)'
    BY <1>0, <1>1, <2>0 DEF Sound, MapsTo, Taken, Dropping, Leaving
  <2>3. HasOne(k)'
    BY <1>0, <1>1, <2>0, SessionNames DEF Sound, HasOne, Leaving
  <2>4. S!DistinctIds' => InTree(k)'
    <3>1. SUFFICES ASSUME S!DistinctIds  PROVE InTree(k)'
      BY <1>1 DEF Sound, S!DistinctIds, S!DistinctIds
    <3>2. crClient[t] \in S!Client /\ session_id[crClient[t]] # S!None
      BY <1>0, <1>1 DEF VictimsListed, MadeOnce
    <3>3. \A j \in seClients : session_id[j] = session_id[crClient[t]] => j = crClient[t]
      BY <1>0, <3>1, <3>2 DEF SessionTypes, S!DistinctIds
    <3>4. seClients' = seClients \ {crClient[t]}
      <4>1. CASE S!TakeOut(crClient[t])
        BY <3>3, <4>1 DEF S!TakeOut
      <4>2. CASE (\A j \in seClients : session_id[j] # session_id[crClient[t]]) /\ UNCHANGED seClients
        BY <4>2
      <4>3. QED
        BY <4>1, <4>2 DEF S!RemoveClient
    <3>5. QED
      BY <1>0, <1>1, <2>0, <3>1, <3>4 DEF Sound, InTree, S!Busy, Gone
  <2>5. QED
    BY <2>1, <2>2, <2>3, <2>4 DEF Sound
<1>9. ASSUME handler_type' = "poll", crossed' = {}  PROVE PollsListed'
  BY <1>0, <1>1, <1>9, Uncrossed, SessionNames DEF PollsListed, Unpolled
<1>10. QED
  BY <1>2, <1>3, <1>4, <1>5, <1>6, <1>7, <1>8, <1>9 DEF SessionInv

\* The client is deleted, with the connections that it has.
LEMMA DeletesKeep ==
  ASSUME SessionInv, ~ S!Crashed, Crosses, NEW t \in S!Thread, NEW g \in S!Client, crClient[t] = g, S!Delete(g),
         UNCHANGED <<handler_type, seClients, seMap, sePolled, held, sePcH, seConnH, clientH>>, OnlyThread(t),
         sePc[t] \in {"delete", "dropDelete"}, sePc'[t] \in {"none", "poll", "loop", "done"},
         after'[t] \in {"none", "poll", "loop", "done"}, sePc'[t] = "loop" => crClient'[t] = g
  PROVE  SessionInv'
<1> USE DEF OnlyThread
<1>0. /\ SessionTypes /\ ListsApart /\ Unmade /\ MadeOnce /\ HoldTells /\ NotStarted /\ VictimsListed
      /\ \A k \in S!Client \ crossed : Sound(k)
      /\ handler_type = "poll" /\ crossed = {} => PollsListed
  BY DEF SessionInv
<1>1. /\ UNCHANGED session_id
      /\ DOMAIN seMem' = S!Conn /\ DOMAIN seClientMem' = S!Client
      /\ \A c \in Its(g) : seMem'[c] = "freed"
      /\ \A c \in S!Conn : c \notin Its(g) => seMem'[c] = seMem[c]
      /\ seClientMem'[g] = "freed" /\ Its(g)' = {}
      /\ \A j \in S!Client : j # g =>
             seClientMem'[j] = seClientMem[j] /\ Its(j)' = Its(j)
      /\ \A j \in S!Client : \A c \in Its(j) :
             c \in S!Conn /\ seMem[c] = "live" /\ (j # g => c \notin Its(g))
      /\ \A c \in S!Conn : seMem'[c] = "unused" => seMem[c] = "unused"
      /\ S!Removing(g) /\ seClientMem[g] # "unused" /\ \A j \in S!Client : seClientMem'[j] = "unused" => seClientMem[j] = "unused"
  <2>1. SessionTypes
    BY <1>0
  <2>3. /\ UNCHANGED session_id /\ DOMAIN seMem' = S!Conn /\ DOMAIN seClientMem' = S!Client
        /\ connections' = [connections EXCEPT ![g] = <<>>]
        /\ \A c \in S!Conn : seMem'[c] = IF c \in Its(g) THEN "freed" ELSE seMem[c]
        /\ \A j \in S!Client : seClientMem'[j] = IF j = g THEN "freed" ELSE seClientMem[j]
    BY <2>1 DEF SessionTypes, Its, S!Delete
  <2>5. {<<>>[i] : i \in DOMAIN <<>>} = {}
    OBVIOUS
  <2>7. \A j \in S!Client : Its(j)' = IF j = g THEN {} ELSE Its(j)
    BY <2>1, <2>3, <2>5 DEF SessionTypes, Its, S!ToSet
  <2>8. \A j \in S!Client : Its(j) \subseteq S!Conn
    BY <1>0, ItsAt
  <2>9. \A j \in S!Client : \A c \in Its(j) :
             c \in S!Conn /\ seMem[c] = "live" /\ (j # g => c \notin Its(g))
    BY <1>0, <2>8 DEF ListsApart
  <2>11. seClientMem[g] # "unused"
    BY <1>0 DEF VictimsListed
  <2>12. S!Removing(g)
    BY DEF S!Removing
  <2>13. QED
    BY <2>3, <2>7, <2>9, <2>11, <2>12
<1>2. SessionTypes'
  <2>1. connections' \in [S!Client -> Seq(S!Conn)]
    BY <1>0 DEF SessionTypes, S!Delete
  <2>2. QED
    BY <1>0, <1>1, <2>1, SessionNames DEF SessionTypes
<1>3. ListsApart'
  <2>1. \A j \in S!Client : connections'[j] = IF j = g THEN <<>> ELSE connections[j]
    BY <1>0 DEF SessionTypes, S!Delete
  <2>2. \A k \in S!Client : \A i, j \in DOMAIN connections'[k] : connections'[k][i] = connections'[k][j] => i = j
    BY <1>0, <2>1 DEF ListsApart
  <2>3. QED
    BY <1>0, <1>1, <2>2 DEF ListsApart
<1>4. Unmade' /\ MadeOnce'
  BY <1>0, <1>1 DEF Unmade, MadeOnce
<1>5. HoldTells'
  <2>1. held \subseteq S!Conn /\ (sePcH # "poll" => clientH \in S!Client /\ seConnH \in S!Conn)
    BY <1>0 DEF SessionTypes, S!Crashed
  <2>2. \A c \in held : seMem'[c] # "unused"
    BY <1>0, <1>1, <2>1 DEF HoldTells
  <2>3. ASSUME NEW c \in held, seMem'[c] # "live" \/ (\E k \in S!Client : c \in Its(k)')
        PROVE  seMem[c] # "live" \/ (\E k \in S!Client : c \in Its(k))
    BY <1>1, <2>1, <2>3
  <2>4. ASSUME sePcH \notin {"poll", "join"}, seConnH \in Its(clientH)
        PROVE  (seConnH \in Its(clientH))' \/ (seMem'[seConnH] = "freed" /\ \A k \in S!Client : seConnH \notin Its(k)')
    BY <1>1, <2>1, <2>4
  <2>5. ASSUME sePcH \notin {"poll", "join"}, seMem[seConnH] = "freed", \A k \in S!Client : seConnH \notin Its(k)
        PROVE  seMem'[seConnH] = "freed" /\ \A k \in S!Client : seConnH \notin Its(k)'
    BY <1>1, <2>1, <2>5
  <2>6. QED
    BY <1>0, <2>2, <2>3, <2>4, <2>5 DEF HoldTells, Holding
<1>6. NotStarted'
  <2>1. \A c \in S!Conn : sePc[c] = "none" => sePc'[c] = "none"
    BY <1>1, SessionNames
  <2>2. sePcH # "poll" => seConnH \in S!Conn
    BY <1>0 DEF SessionTypes, S!Crashed
  <2>3. QED
    BY <1>0, <1>1, <2>1, <2>2 DEF NotStarted
<1>7. VictimsListed'
  <2>1. \A c \in S!Conn : seMap[c] \in S!Client \cup {S!None}
    BY <1>0 DEF SessionTypes
  <2>2. ASSUME NEW j \in S!Client, NEW c \in S!Conn, c \in Its(j) \/ seMem[c] = "freed"
        PROVE  c \in Its(j)' \/ seMem'[c] = "freed"
    BY <1>1, <2>2
  <2>3. ASSUME NEW u \in S!Thread, Leaving(u)'
        PROVE  (victim[u] \in Its(crClient[u]) \/ seMem[victim[u]] = "freed")' /\ victim'[u] \in S!Conn
    <3>1. u # t /\ Leaving(u)
      BY <2>3 DEF Leaving
    <3>2. crClient[u] \in S!Client /\ victim[u] \in S!Conn /\ (victim[u] \in Its(crClient[u]) \/ seMem[victim[u]] = "freed")
      BY <1>0, <3>1 DEF VictimsListed, Leaving
    <3>3. UNCHANGED <<crClient[u], victim[u]>>
      BY <2>3, <3>1
    <3>4. QED
      BY <2>2, <3>2, <3>3
  <2>4. ASSUME NEW u \in S!Thread, sePc'[u] \notin {"poll", "none", "done"}
        PROVE  crClient'[u] \in S!Client /\ seClientMem'[crClient'[u]] # "unused"
    BY <1>0, <1>1, <2>4 DEF VictimsListed
  <2>5. QED
    BY <1>0, <2>1, <2>2, <2>3, <2>4 DEF VictimsListed
<1>8. ASSUME NEW k \in S!Client \ crossed'  PROVE Sound(k)'
  <2>0. k \in S!Client /\ k \notin crossed /\ Sound(k) /\ ~ (S!Removing(k)' /\ S!Busy(k)')
    BY <1>0, <1>8, Uncrossed
  <2>1. BusyLives(k)'
    BY <1>0, <1>1, <2>0 DEF Sound, BusyLives, S!Busy
  <2>2. MapsTo(k)'
    <3>1. CASE k = g
      BY <1>0, <1>1, <2>0, <3>1 DEF Sound, MapsTo, Taken, Dropping, Leaving
    <3>2. CASE k # g
      <4>1. Its(k)' = Its(k)
        BY <1>1, <2>0, <3>2
      <4>2. \A c : Taken(k, c) => Taken(k, c)'
        BY <3>2 DEF Taken, Dropping
      <4>3. ASSUME NEW u \in S!Thread, crClient'[u] = k
            PROVE  /\ sePc'[u] = "unlist" => seMap'[victim'[u]] # k
                   /\ Dropping(u)' => \A c \in S!Conn : seMap'[c] # k
                   /\ sePc'[u] \in {"remove", "delete"} => Its(k)' = {}
                   /\ Leaving(u)' /\ onlyOne'[u] => Its(k)' \subseteq {victim'[u]}
        <5>1. CASE u = t
          BY <5>1 DEF Dropping, Leaving
        <5>2. CASE u # t
          BY <1>0, <2>0, <4>1, <4>3, <5>2 DEF Sound, MapsTo, Dropping, Leaving
        <5>3. QED
          BY <5>1, <5>2
      <4>4. QED
        BY <1>0, <2>0, <4>1, <4>2, <4>3 DEF Sound, MapsTo
    <3>3. QED
      BY <3>1, <3>2
  <2>3. HasOne(k)'
    BY <1>0, <1>1, <2>0, SessionNames DEF Sound, HasOne, Leaving
  <2>4. S!DistinctIds' => InTree(k)'
    BY <1>0, <1>1, <2>0 DEF Sound, S!DistinctIds, InTree, S!Busy, Gone
  <2>5. QED
    BY <2>1, <2>2, <2>3, <2>4 DEF Sound
<1>9. ASSUME handler_type' = "poll", crossed' = {}  PROVE PollsListed'
  <2>1. t = S!Poller /\ PollsListed /\ MapsTo(g)
    BY <1>0, <1>1, <1>9, Uncrossed, SessionNames DEF NotStarted, Sound
  <2>2. \A c \in Its(g) : c \notin sePolled
    BY <1>0, <1>1, <2>1, SessionNames DEF PollsListed, Unpolled, MapsTo
  <2>3. ASSUME NEW j \in S!Client, NEW c \in Its(j), j # g
        PROVE  Unpolled(c)' <=> Unpolled(c)
    BY <1>0, <1>1, <2>1, <2>3 DEF Unpolled
  <2>4. QED
    BY <1>0, <1>1, <2>1, <2>2, <2>3 DEF PollsListed
<1>10. QED
  BY <1>2, <1>3, <1>4, <1>5, <1>6, <1>7, <1>8, <1>9 DEF SessionInv

\* A connection is taken out of the list of its client and dropped.
LEMMA UnlistsKeep ==
  ASSUME SessionInv, ~ S!Crashed, Crosses, NEW t \in S!Thread, NEW g \in S!Client, NEW v \in Its(g),
         crClient[t] = g, victim[t] = v, sePc[t] = "unlist",
         connections' = [connections EXCEPT ![g] = S!RemoveFirst(@, v)], seMem' = [seMem EXCEPT ![v] = "freed"],
         UNCHANGED <<handler_type, seClientMem, session_id, seClients, seMap, sePolled, held, sePcH, seConnH, clientH>>,
         OnlyThread(t), after'[t] \in {"none", "poll", "loop", "done"},
         onlyOne[t] => sePc'[t] = "remove" /\ crClient'[t] = g,
         ~ onlyOne[t] => sePc'[t] \in {"none", "poll", "loop", "done"} /\ (sePc'[t] = "loop" => crClient'[t] = g)
  PROVE  SessionInv'
<1> USE DEF OnlyThread
<1>0. /\ SessionTypes /\ ListsApart /\ Unmade /\ MadeOnce /\ HoldTells /\ NotStarted /\ VictimsListed
      /\ \A k \in S!Client \ crossed : Sound(k)
      /\ handler_type = "poll" /\ crossed = {} => PollsListed
  BY DEF SessionInv
<1>1. /\ DOMAIN seMem' = S!Conn /\ seMem'[v] = "freed" /\ seMem[v] = "live" /\ v \in S!Conn
      /\ \A c \in S!Conn : c # v => seMem'[c] = seMem[c]
      /\ \A j \in S!Client : \A c : c \in Its(j)' <=> c \in Its(j) /\ c # v
      /\ \A j \in S!Client : Its(j) \subseteq S!Conn
      /\ S!Removing(g) /\ \A j \in S!Client : j # g => v \notin Its(j)
  <2>1. SessionTypes /\ ListsApart
    BY <1>0
  <2>2. \A j \in S!Client : Its(j) \subseteq S!Conn
    BY <2>1, ItsAt
  <2>3. seMem[v] = "live" /\ \A j \in S!Client : j # g => v \notin Its(j)
    BY <2>1 DEF ListsApart
  <2>4. Its(g)' = Its(g) \ {v} /\ \A j \in S!Client : j # g => Its(j)' = Its(j)
    BY <2>1, ItsShrinks
  <2>5. DOMAIN seMem' = S!Conn /\ seMem'[v] = "freed" /\ \A c \in S!Conn : c # v => seMem'[c] = seMem[c]
    BY <2>1, <2>2 DEF SessionTypes
  <2>6. S!Removing(g)
    BY DEF S!Removing
  <2>7. QED
    BY <2>2, <2>3, <2>4, <2>5, <2>6
<1>2. SessionTypes'
  <2>1. connections' \in [S!Client -> Seq(S!Conn)]
    BY <1>0, ItsShrinks
  <2>2. QED
    BY <1>0, <1>1, <2>1, SessionNames DEF SessionTypes
<1>3. ListsApart'
  <2>2. \A k \in S!Client : \A i, j \in DOMAIN connections'[k] : connections'[k][i] = connections'[k][j] => i = j
    BY <1>0, ItsShrinks
  <2>3. ASSUME NEW k \in S!Client, seClientMem'[k] # "live"  PROVE Its(k)' = {}
    BY <1>0, <1>1, <2>3 DEF ListsApart
  <2>4. \A j, k \in S!Client : j # k => (Its(j) \cap Its(k))' = {}
    BY <1>0, <1>1 DEF ListsApart
  <2>5. \A k \in S!Client : \A c \in Its(k)' : seMem'[c] = "live"
    BY <1>0, <1>1 DEF ListsApart
  <2>6. \A c \in S!Conn : seMem'[c] = "live" => c \in held \/ \E k \in S!Client : c \in Its(k)'
    BY <1>0, <1>1 DEF ListsApart
  <2>7. QED
    BY <2>2, <2>3, <2>4, <2>5, <2>6 DEF ListsApart
<1>4. Unmade' /\ MadeOnce'
  BY <1>0, <1>1 DEF Unmade, MadeOnce
<1>5. HoldTells'
  <2>1. held \subseteq S!Conn /\ (sePcH # "poll" => clientH \in S!Client /\ seConnH \in S!Conn)
    BY <1>0 DEF SessionTypes, S!Crashed
  <2>2. \A c \in held : seMem'[c] # "unused"
    BY <1>0, <1>1, <2>1 DEF HoldTells
  <2>3. ASSUME NEW c \in held, seMem'[c] # "live" \/ (\E k \in S!Client : c \in Its(k)')
        PROVE  seMem[c] # "live" \/ (\E k \in S!Client : c \in Its(k))
    BY <1>1, <2>1, <2>3
  <2>4. ASSUME sePcH \notin {"poll", "join"}, seConnH \in Its(clientH)
        PROVE  (seConnH \in Its(clientH))' \/ (seMem'[seConnH] = "freed" /\ \A k \in S!Client : seConnH \notin Its(k)')
    BY <1>1, <2>1, <2>4
  <2>5. ASSUME sePcH \notin {"poll", "join"}, seMem[seConnH] = "freed", \A k \in S!Client : seConnH \notin Its(k)
        PROVE  seMem'[seConnH] = "freed" /\ \A k \in S!Client : seConnH \notin Its(k)'
    BY <1>1, <2>1, <2>5
  <2>6. QED
    BY <1>0, <2>2, <2>3, <2>4, <2>5 DEF HoldTells, Holding
<1>6. NotStarted'
  <2>1. \A c \in S!Conn : sePc[c] = "none" => sePc'[c] = "none"
    BY <1>1, SessionNames
  <2>2. sePcH # "poll" => seConnH \in S!Conn
    BY <1>0 DEF SessionTypes, S!Crashed
  <2>3. QED
    BY <1>0, <1>1, <2>1, <2>2 DEF NotStarted
<1>7. VictimsListed'
  <2>1. \A c \in S!Conn : seMap[c] \in S!Client \cup {S!None}
    BY <1>0 DEF SessionTypes
  <2>2. ASSUME NEW j \in S!Client, NEW c \in S!Conn, c \in Its(j) \/ seMem[c] = "freed"
        PROVE  c \in Its(j)' \/ seMem'[c] = "freed"
    BY <1>1, <2>2
  <2>3. ASSUME NEW u \in S!Thread, Leaving(u)'
        PROVE  (victim[u] \in Its(crClient[u]) \/ seMem[victim[u]] = "freed")' /\ victim'[u] \in S!Conn
    <3>1. u # t /\ Leaving(u)
      BY <2>3 DEF Leaving
    <3>2. crClient[u] \in S!Client /\ victim[u] \in S!Conn /\ (victim[u] \in Its(crClient[u]) \/ seMem[victim[u]] = "freed")
      BY <1>0, <3>1 DEF VictimsListed, Leaving
    <3>3. UNCHANGED <<crClient[u], victim[u]>>
      BY <2>3, <3>1
    <3>4. QED
      BY <2>2, <3>2, <3>3
  <2>4. ASSUME NEW u \in S!Thread, sePc'[u] \notin {"poll", "none", "done"}
        PROVE  crClient'[u] \in S!Client /\ seClientMem'[crClient'[u]] # "unused"
    BY <1>0, <1>1, <2>4 DEF VictimsListed
  <2>5. QED
    BY <1>0, <2>1, <2>2, <2>3, <2>4 DEF VictimsListed
<1>8. ASSUME NEW k \in S!Client \ crossed'  PROVE Sound(k)'
  <2>0. k \in S!Client /\ k \notin crossed /\ Sound(k) /\ ~ (S!Removing(k)' /\ S!Busy(k)')
    BY <1>0, <1>8, Uncrossed
  <2>1. BusyLives(k)'
    BY <1>0, <1>1, <2>0 DEF Sound, BusyLives, S!Busy
  <2>2. MapsTo(k)'
    <3>1. \A c \in S!Conn : seMap[c] = k => c \in Its(k) /\ c # v
      BY <1>0, <1>1, <2>0 DEF Sound, Sound, MapsTo
    <3>2. ASSUME NEW c \in Its(k), c # v, Taken(k, c)
          PROVE  Taken(k, c)'
      <4>1. PICK u \in S!Thread : crClient[u] = k /\ ((sePc[u] = "unlist" /\ victim[u] = c) \/ Dropping(u))
        BY <3>2 DEF Taken
      <4>2. u # t
        BY <3>2, <4>1 DEF Dropping
      <4>3. QED
        BY <4>1, <4>2 DEF Taken, Dropping
    <3>3. ASSUME NEW u \in S!Thread, crClient'[u] = k
          PROVE  /\ sePc'[u] = "unlist" => seMap'[victim'[u]] # k
                 /\ Dropping(u)' => \A c \in S!Conn : seMap'[c] # k
                 /\ sePc'[u] \in {"remove", "delete"} => Its(k)' = {}
                 /\ Leaving(u)' /\ onlyOne'[u] => Its(k)' \subseteq {victim'[u]}
      <4>1. CASE u = t
        <5>1. sePc'[u] = "remove" => onlyOne[t] /\ k = g
          BY <3>3, <4>1
        <5>2. k = g /\ onlyOne[t] => Its(k) \subseteq {v}
          BY <2>0 DEF Sound, MapsTo, Leaving
        <5>3. sePc'[u] = "remove" => Its(k)' = {}
          BY <1>1, <2>0, <5>1, <5>2
        <5>4. QED
          BY <4>1, <5>3 DEF Dropping, Leaving
      <4>2. CASE u # t
        BY <1>0, <1>1, <2>0, <3>3, <4>2 DEF Sound, MapsTo, Dropping, Leaving
      <4>3. QED
        BY <4>1, <4>2
    <3>4. QED
      BY <1>0, <1>1, <2>0, <3>1, <3>2, <3>3 DEF Sound, MapsTo
  <2>3. HasOne(k)'
    <3>1. SUFFICES ASSUME handler_type = "poll", seClientMem[k] = "live"  PROVE HasOne(k)'
      BY DEF Sound, HasOne
    <3>2. t = S!Poller
      BY <1>0, <3>1, SessionNames DEF NotStarted
    <3>3. CASE k = g
      <4>1. ~ onlyOne[t] => \E c \in Its(k) : c # v
        BY <2>0, <3>1, <3>2, <3>3 DEF Sound, HasOne, Leaving
      <4>2. CASE onlyOne[t]
        BY <3>2, <3>3, <4>2 DEF HasOne, Leaving
      <4>3. CASE ~ onlyOne[t]
        BY <1>1, <2>0, <3>2, <4>1, <4>3 DEF HasOne, Leaving
      <4>4. QED
        BY <4>2, <4>3
    <3>4. CASE k # g
      <4>0. Its(k) # {}
        BY <2>0, <3>1, <3>2, <3>4 DEF Sound, HasOne
      <4>1. Its(k)' # {}
        BY <1>1, <2>0, <3>4, <4>0
      <4>2. crClient'[t] = k => sePc'[t] \in {"none", "poll", "loop", "done"}
        BY <3>4
      <4>3. QED
        BY <3>2, <4>1, <4>2 DEF HasOne, Leaving
    <3>5. QED
      BY <3>3, <3>4
  <2>4. S!DistinctIds' => InTree(k)'
    BY <1>0, <1>1, <2>0 DEF Sound, S!DistinctIds, InTree, S!Busy, Gone
  <2>5. QED
    BY <2>1, <2>2, <2>3, <2>4 DEF Sound
<1>9. ASSUME handler_type' = "poll", crossed' = {}  PROVE PollsListed'
  <2>1. t = S!Poller /\ PollsListed
    BY <1>0, <1>1, <1>9, Uncrossed, SessionNames DEF NotStarted
  <2>2. v \notin sePolled
    BY <1>0, <1>1, <2>1, SessionNames DEF PollsListed, Unpolled
  <2>3. ASSUME NEW j \in S!Client, NEW c \in Its(j), c # v
        PROVE  Unpolled(c)' <=> Unpolled(c)
    BY <1>0, <1>1, <2>1, <2>3 DEF Unpolled
  <2>4. QED
    BY <1>0, <1>1, <2>1, <2>2, <2>3 DEF PollsListed
<1>10. QED
  BY <1>2, <1>3, <1>4, <1>5, <1>6, <1>7, <1>8, <1>9 DEF SessionInv

\* The connection is not in the list any more.
LEMMA UnlistsNothing ==
  ASSUME SessionInv, ~ S!Crashed, Crosses, NEW t \in S!Thread, SameTables, OnlyThread(t),
         sePc[t] = "unlist", victim[t] \notin Its(crClient[t]), after'[t] \in {"none", "poll", "loop", "done"},
         sePc'[t] \in {"none", "poll", "loop", "done"}, sePc'[t] = "loop" => crClient'[t] = crClient[t]
  PROVE  SessionInv'
<1> USE DEF SameTables, OnlyThread
<1>0. /\ SessionTypes /\ ListsApart /\ Unmade /\ MadeOnce /\ HoldTells /\ NotStarted /\ VictimsListed
      /\ \A k \in S!Client \ crossed : Sound(k)
      /\ handler_type = "poll" /\ crossed = {} => PollsListed
  BY DEF SessionInv
<1>1. \A j : Its(j)' = Its(j)
  BY DEF Its
<1>2. SessionTypes'
  BY <1>0, <1>1, SessionNames DEF SessionTypes
<1>3. ListsApart'
  BY <1>0, <1>1 DEF ListsApart
<1>4. Unmade' /\ MadeOnce'
  BY <1>0, <1>1 DEF Unmade, MadeOnce
<1>5. HoldTells'
  BY <1>0, <1>1 DEF HoldTells, Holding
<1>6. NotStarted'
  <2>1. \A c \in S!Conn : sePc[c] = "none" => sePc'[c] = "none"
    BY <1>1, SessionNames
  <2>2. sePcH # "poll" => seConnH \in S!Conn
    BY <1>0 DEF SessionTypes, S!Crashed
  <2>3. QED
    BY <1>0, <1>1, <2>1, <2>2 DEF NotStarted
<1>7. VictimsListed'
  BY <1>0, <1>1 DEF VictimsListed, Leaving
<1>8. ASSUME NEW k \in S!Client \ crossed'  PROVE Sound(k)'
  <2>0. k \in S!Client /\ k \notin crossed /\ Sound(k) /\ ~ (S!Removing(k)' /\ S!Busy(k)')
    BY <1>0, <1>8, Uncrossed
  <2>1. BusyLives(k)'
    BY <1>0, <1>1, <2>0 DEF Sound, BusyLives, S!Busy
  <2>2. MapsTo(k)'
    BY <1>0, <1>1, <2>0 DEF Sound, MapsTo, Taken, Dropping, Leaving
  <2>3. HasOne(k)'
    BY <1>0, <1>1, <2>0, SessionNames DEF Sound, HasOne, Leaving
  <2>4. S!DistinctIds' => InTree(k)'
    BY <1>0, <1>1, <2>0 DEF Sound, S!DistinctIds, InTree, S!Busy, Gone
  <2>5. QED
    BY <2>1, <2>2, <2>3, <2>4 DEF Sound
<1>9. ASSUME handler_type' = "poll", crossed' = {}  PROVE PollsListed'
  <2>1. t = S!Poller /\ PollsListed
    BY <1>0, <1>9, Uncrossed, SessionNames DEF NotStarted
  <2>2. \A k \in S!Client : victim[t] \notin Its(k)
    BY <1>0 DEF VictimsListed, Leaving, ListsApart
  <2>3. ASSUME NEW j \in S!Client, NEW c \in Its(j)
        PROVE  Unpolled(c)' <=> Unpolled(c)
    BY <1>1, <2>1, <2>2, <2>3 DEF Unpolled
  <2>4. QED
    BY <1>1, <2>1, <2>3 DEF PollsListed
<1>10. QED
  BY <1>2, <1>3, <1>4, <1>5, <1>6, <1>7, <1>8, <1>9 DEF SessionInv

\* client_connection_drop ().
LEMMA Unlists ==
  ASSUME SessionInv, ~ S!Crashed, Crosses, NEW t \in S!Thread, S!Unlist(t)
  PROVE  SessionInv'
<1> DEFINE k == crClient[t]
           v == victim[t]
<1>0. SessionTypes /\ VictimsListed /\ ListsApart
  BY DEF SessionInv
<1>1. k \in S!Client /\ sePc[t] = "unlist" /\ after[t] \in {"none", "poll", "loop", "done"}
  BY <1>0 DEF S!Unlist, VictimsListed, SessionTypes
<1>2. UNCHANGED <<seClientMem, session_id, seClients, seMap, sePolled, held>>
  BY DEF S!Unlist
<1>3. ASSUME v \in Its(k)
      PROVE  SessionInv'
  <2>1. /\ connections' = [connections EXCEPT ![k] = S!RemoveFirst(@, v)] /\ seMem' = [seMem EXCEPT ![v] = "freed"]
        /\ IF onlyOne[t] THEN S!Goto(t, "unlist", "remove") /\ UNCHANGED <<S!removal, S!receive>>
                         ELSE S!Return(t, "unlist")
    BY <1>3 DEF S!Unlist, S!DropConnection, Its
  <2>2. CASE onlyOne[t]
    <3>1. /\ UNCHANGED <<handler_type, sePcH, seConnH, clientH, after>> /\ OnlyThread(t)
          /\ sePc'[t] = "remove" /\ crClient'[t] = k
      BY <1>0, <2>1, <2>2 DEF SessionTypes, S!Goto, S!hold, S!receive, S!removal, OnlyThread
    <3>2. QED
      BY <1>1, <1>2, <1>3, <2>1, <2>2, <3>1, UnlistsKeep
  <2>3. CASE ~ onlyOne[t]
    <3>1. /\ UNCHANGED <<handler_type, sePcH, seConnH, clientH>> /\ OnlyThread(t) /\ after'[t] = "none"
          /\ sePc'[t] \in {"none", "poll", "loop", "done"} /\ (sePc'[t] = "loop" => crClient'[t] = k)
      BY <1>0, <2>1, <2>3, Returns
    <3>2. QED
      BY <1>1, <1>2, <1>3, <2>1, <2>3, <3>1, UnlistsKeep
  <2>4. QED
    BY <2>2, <2>3
<1>4. ASSUME v \notin Its(k)
      PROVE  SessionInv'
  <2>1. S!Return(t, "unlist") /\ UNCHANGED <<seMem, connections>>
    BY <1>4 DEF S!Unlist, Its
  <2>2. /\ UNCHANGED <<handler_type, sePcH, seConnH, clientH>> /\ OnlyThread(t) /\ after'[t] = "none"
        /\ sePc'[t] \in {"none", "poll", "loop", "done"} /\ (sePc'[t] = "loop" => crClient'[t] = k)
    BY <1>0, <2>1, Returns
  <2>3. SameTables
    BY <1>2, <2>1, <2>2 DEF SameTables
  <2>4. QED
    BY <1>1, <1>4, <2>2, <2>3, UnlistsNothing
<1>5. QED
  BY <1>3, <1>4

\* client_delete (), after a removal or a disconnect.
LEMMA Deletes ==
  ASSUME SessionInv, ~ S!Crashed, Crosses,
         (\E t \in S!Thread : S!DeleteClient(t)) \/ S!DropDelete
  PROVE  SessionInv'
<1>0. SessionTypes /\ VictimsListed /\ S!Poller \in S!Thread
  BY SessionNames DEF SessionInv
<1>1. ASSUME NEW t \in S!Thread, S!DeleteClient(t)
      PROVE  SessionInv'
  <2>1. sePc[t] = "delete" /\ S!Return(t, "delete") /\ S!Delete(crClient[t]) /\ UNCHANGED <<seClients, seMap, sePolled, held>>
    BY <1>1 DEF S!DeleteClient
  <2>2. crClient[t] \in S!Client
    BY <1>0, <2>1 DEF VictimsListed
  <2>3. /\ UNCHANGED <<handler_type, sePcH, seConnH, clientH>> /\ OnlyThread(t) /\ after'[t] = "none"
        /\ sePc'[t] \in {"none", "poll", "loop", "done"} /\ (sePc'[t] = "loop" => crClient'[t] = crClient[t])
    BY <1>0, <2>1, Returns
  <2>4. QED
    BY <2>1, <2>2, <2>3, DeletesKeep
<1>2. ASSUME S!DropDelete
      PROVE  SessionInv'
  <2>1. /\ sePc[S!Poller] = "dropDelete" /\ OnlyThread(S!Poller) /\ sePc'[S!Poller] \in {"poll", "crashed"}
        /\ UNCHANGED <<handler_type, seClients, seMap, sePolled, held, sePcH, seConnH, clientH, after>>
        /\ S!Delete(crClient[S!Poller])
    BY <1>0, <1>2 DEF SessionTypes, S!DropDelete, S!Goto, S!EndReceive, S!hold, S!removal, OnlyThread
  <2>2. crClient[S!Poller] \in S!Client /\ after'[S!Poller] \in {"none", "poll", "loop", "done"}
    BY <1>0, <2>1 DEF VictimsListed, SessionTypes
  <2>3. CASE sePc'[S!Poller] = "poll"
    BY <1>0, <2>1, <2>2, <2>3, DeletesKeep
  <2>4. CASE sePc'[S!Poller] = "crashed"
    <3>1. connections' \in [S!Client -> Seq(S!Conn)]
      <4>1. connections' = [connections EXCEPT ![crClient[S!Poller]] = <<>>] /\ <<>> \in Seq(S!Conn)
        BY <2>1 DEF S!Delete
      <4>2. QED
        BY <1>0, <4>1 DEF SessionTypes
    <3>2. DOMAIN seMem' = S!Conn /\ DOMAIN seClientMem' = S!Client /\ UNCHANGED session_id
      BY <1>0, <2>1 DEF SessionTypes, S!Delete
    <3>3. SessionTypes'
      BY <1>0, <2>1, <2>2, <3>1, <3>2 DEF SessionTypes, OnlyThread
    <3>4. QED
      BY <1>0, <2>4, <3>3 DEF S!Crashed, SessionInv
  <2>5. QED
    BY <2>1, <2>3, <2>4
<1>3. QED
  BY <1>1, <1>2

\* connection_register_to_cerver () for a connection that joins a client.
LEMMA JoinsMap ==
  ASSUME SessionInv, ~ S!Crashed, Crosses, S!JoinMap
  PROVE  SessionInv'
<1>0. /\ SessionTypes /\ ListsApart /\ Unmade /\ MadeOnce /\ HoldTells /\ NotStarted /\ VictimsListed
      /\ \A k \in S!Client \ crossed : Sound(k)
      /\ handler_type = "poll" /\ crossed = {} => PollsListed
  BY DEF SessionInv
<1>1. /\ UNCHANGED <<handler_type, seMem, seClientMem, session_id, connections, seClients, sePolled, held, seConnH, clientH,
                     sePc, crClient, victim, onlyOne, after>>
      /\ sePcH = "joinMap" /\ sePcH' = "unholdJoined" /\ seMem[seConnH] = "live" /\ seConnH \in S!Conn /\ clientH \in S!Client
      /\ DOMAIN seMap' = S!Conn /\ seMap'[seConnH] = clientH /\ \A c \in S!Conn : c # seConnH => seMap'[c] = seMap[c]
      /\ \A j : Its(j)' = Its(j)
  <2>1. SessionTypes
    BY <1>0
  <2>2. QED
    BY <2>1 DEF SessionTypes, Its, S!JoinMap, S!StepH, S!objects, S!tables, S!receive, S!removal
<1>2. SessionTypes'
  BY <1>0, <1>1, SessionNames DEF SessionTypes
<1>3. ListsApart'
  BY <1>0, <1>1 DEF ListsApart
<1>4. Unmade' /\ MadeOnce'
  BY <1>0, <1>1 DEF Unmade, MadeOnce
<1>5. HoldTells'
  BY <1>0, <1>1 DEF HoldTells, Holding
<1>6. NotStarted'
  BY <1>0, <1>1, SessionNames DEF NotStarted, SessionTypes
<1>7. VictimsListed'
  <2>1. seConnH \in Its(clientH) \/ seMem[seConnH] = "freed"
    BY <1>0, <1>1 DEF HoldTells
  <2>2. \A c \in S!Conn : seMap'[c] # S!None => c \in Its(seMap'[c]) \/ seMem[c] = "freed"
    BY <1>0, <1>1, <2>1 DEF VictimsListed
  <2>3. QED
    BY <1>0, <1>1, <2>2 DEF VictimsListed, Leaving
<1>8. ASSUME NEW k \in S!Client \ crossed'  PROVE Sound(k)'
  <2>0. k \in S!Client /\ k \notin crossed /\ Sound(k) /\ ~ (S!Removing(k)' /\ S!Busy(k)')
    BY <1>0, <1>8, Uncrossed
  <2>1. BusyLives(k)'
    BY <1>0, <1>1, <2>0 DEF Sound, BusyLives, S!Busy
  <2>2. MapsTo(k)'
    <3>1. clientH = k => \A t \in S!Thread :
             crClient[t] = k => sePc[t] \in {"poll", "none", "queued", "loop", "exit", "done"}
      BY <1>1, <2>0 DEF Sound, Sound, BusyLives, S!Busy, S!Removing
    <3>2. CASE clientH = k
      <4>1. seConnH \in Its(k)
        BY <1>1, <2>0, <3>2 DEF Sound, BusyLives, S!Busy
      <4>2. \A c : ~ Taken(k, c)
        BY <3>1, <3>2 DEF Taken, Dropping
      <4>3. \A c \in Its(k) : c \in S!Conn
        BY <1>0, <2>0, ItsAt
      <4>4. QED
        BY <1>1, <2>0, <3>1, <3>2, <4>1, <4>2, <4>3 DEF Sound, MapsTo, Dropping, Leaving
    <3>3. CASE clientH # k
      <4>1. seConnH \notin Its(k)
        BY <1>0, <1>1, <2>0, <3>3 DEF HoldTells, ListsApart
      <4>2. seMap[seConnH] # k
        BY <1>1, <2>0, <4>1 DEF Sound, MapsTo
      <4>3. \A c : Taken(k, c) => Taken(k, c)'
        BY <1>1 DEF Taken, Dropping
      <4>4. \A c \in Its(k) : c \in S!Conn /\ c # seConnH
        BY <1>0, <2>0, <4>1, ItsAt
      <4>5. \A u \in S!Thread : Leaving(u) => victim[u] \in S!Conn
        BY <1>0 DEF VictimsListed
      <4>6. QED
        BY <1>1, <2>0, <3>3, <4>2, <4>3, <4>4, <4>5 DEF Sound, MapsTo, Dropping, Leaving
    <3>4. QED
      BY <3>2, <3>3
  <2>3. HasOne(k)'
    BY <1>0, <1>1, <2>0, SessionNames DEF Sound, HasOne, Leaving
  <2>4. S!DistinctIds' => InTree(k)'
    BY <1>0, <1>1, <2>0 DEF Sound, S!DistinctIds, InTree, S!Busy, Gone
  <2>5. QED
    BY <2>1, <2>2, <2>3, <2>4 DEF Sound
<1>9. ASSUME handler_type' = "poll", crossed' = {}  PROVE PollsListed'
  BY <1>0, <1>1, <1>9, Uncrossed, SessionNames DEF PollsListed, Unpolled
<1>10. QED
  BY <1>2, <1>3, <1>4, <1>5, <1>6, <1>7, <1>8, <1>9 DEF SessionInv

\* on_hold_connection_remove ().
LEMMA Unholds ==
  ASSUME SessionInv, ~ S!Crashed, Crosses, S!Unhold
  PROVE  SessionInv'
<1>0. /\ SessionTypes /\ ListsApart /\ Unmade /\ MadeOnce /\ HoldTells /\ NotStarted /\ VictimsListed
      /\ \A k \in S!Client \ crossed : Sound(k)
      /\ handler_type = "poll" /\ crossed = {} => PollsListed
  BY DEF SessionInv
<1>1. /\ UNCHANGED <<handler_type, seMem, seClientMem, session_id, connections, seClients, seMap, sePolled, seConnH, clientH,
                     sePc, crClient, victim, onlyOne, after>>
      /\ (sePcH = "unhold" /\ sePcH' = "map") \/ (sePcH = "unholdJoined" /\ sePcH' = "match")
      /\ held' = held \ {seConnH} /\ seMem[seConnH] = "live"
      /\ \A j : Its(j)' = Its(j)
  <2>1. SessionTypes
    BY <1>0
  <2>2. QED
    BY <2>1 DEF SessionTypes, Its, S!Unhold, S!StepH, S!objects, S!tables, S!receive, S!removal
<1>2. SessionTypes'
  BY <1>0, <1>1, SessionNames DEF SessionTypes
<1>3. ListsApart'
  BY <1>0, <1>1 DEF ListsApart, HoldTells, Holding, SessionTypes
<1>4. Unmade' /\ MadeOnce'
  BY <1>0, <1>1 DEF Unmade, MadeOnce
<1>5. HoldTells'
  BY <1>0, <1>1 DEF HoldTells, Holding
<1>6. NotStarted'
  BY <1>0, <1>1, SessionNames DEF NotStarted, SessionTypes
<1>7. VictimsListed'
  BY <1>0, <1>1 DEF VictimsListed, Leaving
<1>8. ASSUME NEW k \in S!Client \ crossed'  PROVE Sound(k)'
  <2>0. k \in S!Client /\ k \notin crossed /\ Sound(k) /\ ~ (S!Removing(k)' /\ S!Busy(k)')
    BY <1>0, <1>8, Uncrossed
  <2>1. BusyLives(k)'
    BY <1>0, <1>1, <2>0 DEF Sound, BusyLives, S!Busy
  <2>2. MapsTo(k)'
    BY <1>0, <1>1, <2>0 DEF Sound, MapsTo, Taken, Dropping, Leaving
  <2>3. HasOne(k)'
    BY <1>0, <1>1, <2>0, SessionNames DEF Sound, HasOne, Leaving
  <2>4. S!DistinctIds' => InTree(k)'
    BY <1>0, <1>1, <2>0 DEF Sound, S!DistinctIds, InTree, S!Busy, Gone
  <2>5. QED
    BY <2>1, <2>2, <2>3, <2>4 DEF Sound
<1>9. ASSUME handler_type' = "poll", crossed' = {}  PROVE PollsListed'
  BY <1>0, <1>1, <1>9, Uncrossed, SessionNames DEF PollsListed, Unpolled
<1>10. QED
  BY <1>2, <1>3, <1>4, <1>5, <1>6, <1>7, <1>8, <1>9 DEF SessionInv

\* client_register_to_cerver (): the map,
LEMMA RegistersMap ==
  ASSUME SessionInv, ~ S!Crashed, Crosses, S!RegisterMap
  PROVE  SessionInv'
<1>0. /\ SessionTypes /\ ListsApart /\ Unmade /\ MadeOnce /\ HoldTells /\ NotStarted /\ VictimsListed
      /\ \A k \in S!Client \ crossed : Sound(k)
      /\ handler_type = "poll" /\ crossed = {} => PollsListed
  BY DEF SessionInv
<1>1. /\ UNCHANGED <<handler_type, seMem, seClientMem, session_id, connections, seClients, sePolled, held, seConnH, clientH,
                     sePc, crClient, victim, onlyOne, after>>
      /\ sePcH = "map" /\ sePcH' = (IF handler_type = "poll" THEN "register" ELSE "insert")
      /\ seConnH \in S!Conn /\ clientH \in S!Client
      /\ DOMAIN seMap' = S!Conn /\ seMap'[seConnH] = clientH /\ \A c \in S!Conn : c # seConnH => seMap'[c] = seMap[c]
      /\ \A j : Its(j)' = Its(j)
  <2>1. SessionTypes
    BY <1>0
  <2>2. QED
    BY <2>1 DEF SessionTypes, Its, S!RegisterMap, S!StepH, S!objects, S!tables, S!receive, S!removal
<1>2. SessionTypes'
  BY <1>0, <1>1, SessionNames DEF SessionTypes
<1>3. ListsApart'
  BY <1>0, <1>1 DEF ListsApart
<1>4. Unmade' /\ MadeOnce'
  BY <1>0, <1>1 DEF Unmade, MadeOnce
<1>5. HoldTells'
  BY <1>0, <1>1 DEF HoldTells, Holding
<1>6. NotStarted'
  BY <1>0, <1>1, SessionNames DEF NotStarted, SessionTypes
<1>7. VictimsListed'
  <2>1. seConnH \in Its(clientH) \/ seMem[seConnH] = "freed"
    BY <1>0, <1>1 DEF HoldTells
  <2>2. \A c \in S!Conn : seMap'[c] # S!None => c \in Its(seMap'[c]) \/ seMem[c] = "freed"
    BY <1>0, <1>1, <2>1 DEF VictimsListed
  <2>3. QED
    BY <1>0, <1>1, <2>2 DEF VictimsListed, Leaving
<1>8. ASSUME NEW k \in S!Client \ crossed'  PROVE Sound(k)'
  <2>0. k \in S!Client /\ k \notin crossed /\ Sound(k) /\ ~ (S!Removing(k)' /\ S!Busy(k)')
    BY <1>0, <1>8, Uncrossed
  <2>1. BusyLives(k)'
    BY <1>0, <1>1, <2>0 DEF Sound, BusyLives, S!Busy
  <2>2. MapsTo(k)'
    <3>1. clientH = k => \A t \in S!Thread :
             crClient[t] = k => sePc[t] \in {"poll", "none", "queued", "loop", "exit", "done"}
      BY <1>1, <2>0 DEF Sound, Sound, BusyLives, S!Busy, S!Removing
    <3>2. CASE clientH = k
      <4>1. seConnH \in Its(k)
        BY <1>1, <2>0, <3>2 DEF Sound, BusyLives, S!Busy
      <4>2. \A c : ~ Taken(k, c)
        BY <3>1, <3>2 DEF Taken, Dropping
      <4>3. \A c \in Its(k) : c \in S!Conn
        BY <1>0, <2>0, ItsAt
      <4>4. QED
        BY <1>1, <2>0, <3>1, <3>2, <4>1, <4>2, <4>3 DEF Sound, MapsTo, Dropping, Leaving
    <3>3. CASE clientH # k
      <4>1. seConnH \notin Its(k)
        BY <1>0, <1>1, <2>0, <3>3 DEF HoldTells, ListsApart
      <4>2. seMap[seConnH] # k
        BY <1>1, <2>0, <4>1 DEF Sound, MapsTo
      <4>3. \A c : Taken(k, c) => Taken(k, c)'
        BY <1>1 DEF Taken, Dropping
      <4>4. \A c \in Its(k) : c \in S!Conn /\ c # seConnH
        BY <1>0, <2>0, <4>1, ItsAt
      <4>5. \A u \in S!Thread : Leaving(u) => victim[u] \in S!Conn
        BY <1>0 DEF VictimsListed
      <4>6. QED
        BY <1>1, <2>0, <3>3, <4>2, <4>3, <4>4, <4>5 DEF Sound, MapsTo, Dropping, Leaving
    <3>4. QED
      BY <3>2, <3>3
  <2>3. HasOne(k)'
    BY <1>0, <1>1, <2>0, SessionNames DEF Sound, HasOne, Leaving
  <2>4. S!DistinctIds' => InTree(k)'
    BY <1>0, <1>1, <2>0 DEF Sound, S!DistinctIds, InTree, S!Busy, Gone
  <2>5. QED
    BY <2>1, <2>2, <2>3, <2>4 DEF Sound
<1>9. ASSUME handler_type' = "poll", crossed' = {}  PROVE PollsListed'
  BY <1>0, <1>1, <1>9, Uncrossed, SessionNames DEF PollsListed, Unpolled
<1>10. QED
  BY <1>2, <1>3, <1>4, <1>5, <1>6, <1>7, <1>8, <1>9 DEF SessionInv

\* ... the poll array,
LEMMA RegistersPoll ==
  ASSUME SessionInv, ~ S!Crashed, Crosses, S!RegisterPoll
  PROVE  SessionInv'
<1>0. /\ SessionTypes /\ ListsApart /\ Unmade /\ MadeOnce /\ HoldTells /\ NotStarted /\ VictimsListed
      /\ \A k \in S!Client \ crossed : Sound(k)
      /\ handler_type = "poll" /\ crossed = {} => PollsListed
  BY DEF SessionInv
<1>1. /\ UNCHANGED <<handler_type, seMem, seClientMem, session_id, connections, seClients, seMap, held, seConnH, clientH,
                     sePc, crClient, victim, onlyOne, after>>
      /\ sePcH = "register" /\ sePcH' = "insert" /\ sePolled' = sePolled \cup {seConnH} /\ seConnH \in S!Conn
      /\ \A j : Its(j)' = Its(j)
  <2>1. SessionTypes
    BY <1>0
  <2>2. QED
    BY <2>1 DEF SessionTypes, Its, S!RegisterPoll, S!StepH, S!objects, S!tables, S!receive, S!removal
<1>2. SessionTypes'
  BY <1>0, <1>1, SessionNames DEF SessionTypes
<1>3. ListsApart'
  BY <1>0, <1>1 DEF ListsApart
<1>4. Unmade' /\ MadeOnce'
  BY <1>0, <1>1 DEF Unmade, MadeOnce
<1>5. HoldTells'
  BY <1>0, <1>1 DEF HoldTells, Holding
<1>6. NotStarted'
  BY <1>0, <1>1, SessionNames DEF NotStarted, SessionTypes
<1>7. VictimsListed'
  BY <1>0, <1>1 DEF VictimsListed, Leaving
<1>8. ASSUME NEW k \in S!Client \ crossed'  PROVE Sound(k)'
  <2>0. k \in S!Client /\ k \notin crossed /\ Sound(k) /\ ~ (S!Removing(k)' /\ S!Busy(k)')
    BY <1>0, <1>8, Uncrossed
  <2>1. BusyLives(k)'
    BY <1>0, <1>1, <2>0 DEF Sound, BusyLives, S!Busy
  <2>2. MapsTo(k)'
    BY <1>0, <1>1, <2>0 DEF Sound, MapsTo, Taken, Dropping, Leaving
  <2>3. HasOne(k)'
    BY <1>0, <1>1, <2>0, SessionNames DEF Sound, HasOne, Leaving
  <2>4. S!DistinctIds' => InTree(k)'
    BY <1>0, <1>1, <2>0 DEF Sound, S!DistinctIds, InTree, S!Busy, Gone
  <2>5. QED
    BY <2>1, <2>2, <2>3, <2>4 DEF Sound
<1>9. ASSUME handler_type' = "poll", crossed' = {}  PROVE PollsListed'
  <2>1. clientH \in S!Client /\ PollsListed /\ Sound(clientH)
    BY <1>0, <1>1, <1>9, Uncrossed DEF SessionTypes
  <2>2. seConnH \in Its(clientH) /\ \A t \in S!Thread :
            crClient[t] = clientH => sePc[t] \in {"poll", "none", "queued", "loop", "exit", "done"}
    BY <1>1, <2>1 DEF Sound, BusyLives, S!Busy, S!Removing
  <2>3. ~ Unpolled(seConnH)'
    <3>1. Leaving(S!Poller) => victim[S!Poller] # seConnH
      <4>0. SUFFICES ASSUME Leaving(S!Poller)  PROVE victim[S!Poller] # seConnH
        OBVIOUS
      <4>1. victim[S!Poller] \in Its(crClient[S!Poller]) \/ seMem[victim[S!Poller]] = "freed"
        BY <1>0, <4>0, SessionNames DEF VictimsListed
      <4>2. crClient[S!Poller] \in S!Client /\ crClient[S!Poller] # clientH
        BY <1>0, <2>2, <4>0, SessionNames DEF VictimsListed, Leaving
      <4>3. seMem[seConnH] = "live" /\ seConnH \notin Its(crClient[S!Poller])
        BY <1>0, <2>1, <2>2, <4>2 DEF ListsApart
      <4>4. QED
        BY <4>1, <4>3
    <3>2. Dropping(S!Poller) => seConnH \notin Its(crClient[S!Poller])
      BY <1>0, <2>1, <2>2, SessionNames DEF VictimsListed, Dropping, ListsApart
    <3>3. QED
      BY <1>1, <3>1, <3>2 DEF Unpolled, Leaving, Dropping
  <2>4. \A c : c # seConnH => (Unpolled(c)' <=> Unpolled(c))
    BY <1>1 DEF Unpolled
  <2>5. QED
    BY <1>1, <2>1, <2>2, <2>3, <2>4 DEF PollsListed
<1>10. QED
  BY <1>2, <1>3, <1>4, <1>5, <1>6, <1>7, <1>8, <1>9 DEF SessionInv

\* ... the tree.
LEMMA Inserts ==
  ASSUME SessionInv, ~ S!Crashed, Crosses, S!Insert
  PROVE  SessionInv'
<1>0. /\ SessionTypes /\ ListsApart /\ Unmade /\ MadeOnce /\ HoldTells /\ NotStarted /\ VictimsListed
      /\ \A k \in S!Client \ crossed : Sound(k)
      /\ handler_type = "poll" /\ crossed = {} => PollsListed
  BY DEF SessionInv
<1>1. /\ UNCHANGED <<handler_type, seMem, seClientMem, session_id, connections, seMap, sePolled, held, seConnH, clientH,
                     sePc, crClient, victim, onlyOne, after>>
      /\ sePcH = "insert" /\ sePcH' = "welcome" /\ seClients' = seClients \cup {clientH} /\ clientH \in S!Client
      /\ seMem[seConnH] = "live" /\ seClientMem[clientH] = "live"
      /\ \A j : Its(j)' = Its(j)
  <2>1. SessionTypes
    BY <1>0
  <2>2. QED
    BY <2>1 DEF SessionTypes, Its, S!Insert, S!StepH, S!objects, S!tables, S!receive, S!removal, S!IsLive
<1>2. SessionTypes'
  BY <1>0, <1>1, SessionNames DEF SessionTypes
<1>3. ListsApart'
  BY <1>0, <1>1 DEF ListsApart
<1>4. Unmade' /\ MadeOnce'
  BY <1>0, <1>1 DEF Unmade, MadeOnce
<1>5. HoldTells'
  BY <1>0, <1>1 DEF HoldTells, Holding
<1>6. NotStarted'
  BY <1>0, <1>1, SessionNames DEF NotStarted, SessionTypes
<1>7. VictimsListed'
  BY <1>0, <1>1 DEF VictimsListed, Leaving
<1>8. ASSUME NEW k \in S!Client \ crossed'  PROVE Sound(k)'
  <2>0. k \in S!Client /\ k \notin crossed /\ Sound(k) /\ ~ (S!Removing(k)' /\ S!Busy(k)')
    BY <1>0, <1>8, Uncrossed
  <2>1. BusyLives(k)'
    BY <1>0, <1>1, <2>0 DEF Sound, BusyLives, S!Busy
  <2>2. MapsTo(k)'
    BY <1>0, <1>1, <2>0 DEF Sound, MapsTo, Taken, Dropping, Leaving
  <2>3. HasOne(k)'
    BY <1>0, <1>1, <2>0, SessionNames DEF Sound, HasOne, Leaving
  <2>4. S!DistinctIds' => InTree(k)'
    <3>1. clientH = k => \A t \in S!Thread :
             crClient[t] = k => sePc[t] \in {"poll", "none", "queued", "loop", "exit", "done"}
      BY <1>1, <2>0 DEF Sound, S!DistinctIds, Sound, BusyLives, S!Busy, S!Removing
    <3>2. clientH = k => \A t \in S!Thread : crClient[t] = k => ~ Gone(t)
      BY <3>1 DEF Gone
    <3>3. QED
      BY <1>0, <1>1, <2>0, <3>2 DEF Sound, S!DistinctIds, InTree, S!Busy, Gone
  <2>5. QED
    BY <2>1, <2>2, <2>3, <2>4 DEF Sound
<1>9. ASSUME handler_type' = "poll", crossed' = {}  PROVE PollsListed'
  BY <1>0, <1>1, <1>9, Uncrossed, SessionNames DEF PollsListed, Unpolled
<1>10. QED
  BY <1>2, <1>3, <1>4, <1>5, <1>6, <1>7, <1>8, <1>9 DEF SessionInv

\* The thread of those on hold is done with a client, or starts its thread next.
LEMMA Finishes ==
  ASSUME SessionInv, ~ S!Crashed, Crosses, S!Welcome \/ S!Announce
  PROVE  SessionInv'
<1>0. /\ SessionTypes /\ ListsApart /\ Unmade /\ MadeOnce /\ HoldTells /\ NotStarted /\ VictimsListed
      /\ \A k \in S!Client \ crossed : Sound(k)
      /\ handler_type = "poll" /\ crossed = {} => PollsListed
  BY DEF SessionInv
<1>1. /\ UNCHANGED <<handler_type, seMem, seClientMem, session_id, connections, seClients, seMap, sePolled, held,
                     sePc, crClient, victim, onlyOne, after>>
      /\ sePcH \in {"welcome", "announce"} /\ seMem[seConnH] = "live"
      /\ sePcH' = "poll" \/ (sePcH = "welcome" /\ sePcH' = "select" /\ UNCHANGED <<seConnH, clientH>>)
      /\ \A j : Its(j)' = Its(j)
  <2>1. SessionTypes
    BY <1>0
  <2>2. QED
    BY <2>1 DEF SessionTypes, Its, S!Welcome, S!Announce, S!FinishH, S!IsLive, S!StepH, S!objects, S!tables, S!receive, S!removal
<1>2. SessionTypes'
  BY <1>0, <1>1, SessionNames DEF SessionTypes
<1>3. ListsApart'
  BY <1>0, <1>1 DEF ListsApart
<1>4. Unmade' /\ MadeOnce'
  BY <1>0, <1>1 DEF Unmade, MadeOnce
<1>5. HoldTells'
  BY <1>0, <1>1 DEF HoldTells, Holding
<1>6. NotStarted'
  BY <1>0, <1>1, SessionNames DEF NotStarted, SessionTypes
<1>7. VictimsListed'
  BY <1>0, <1>1 DEF VictimsListed, Leaving
<1>8. ASSUME NEW k \in S!Client \ crossed'  PROVE Sound(k)'
  <2>0. k \in S!Client /\ k \notin crossed /\ Sound(k) /\ ~ (S!Removing(k)' /\ S!Busy(k)')
    BY <1>0, <1>8, Uncrossed
  <2>1. BusyLives(k)'
    BY <1>0, <1>1, <2>0 DEF Sound, BusyLives, S!Busy
  <2>2. MapsTo(k)'
    BY <1>0, <1>1, <2>0 DEF Sound, MapsTo, Taken, Dropping, Leaving
  <2>3. HasOne(k)'
    BY <1>0, <1>1, <2>0, SessionNames DEF Sound, HasOne, Leaving
  <2>4. S!DistinctIds' => InTree(k)'
    BY <1>0, <1>1, <2>0 DEF Sound, S!DistinctIds, InTree, S!Busy, Gone
  <2>5. QED
    BY <2>1, <2>2, <2>3, <2>4 DEF Sound
<1>9. ASSUME handler_type' = "poll", crossed' = {}  PROVE PollsListed'
  BY <1>0, <1>1, <1>9, Uncrossed, SessionNames DEF PollsListed, Unpolled
<1>10. QED
  BY <1>2, <1>3, <1>4, <1>5, <1>6, <1>7, <1>8, <1>9 DEF SessionInv

\* The client that a connection has joined is found by its descriptor.
LEMMA Matches ==
  ASSUME SessionInv, ~ S!Crashed, Crosses, S!Match
  PROVE  SessionInv'
<1>0. /\ SessionTypes /\ ListsApart /\ Unmade /\ MadeOnce /\ HoldTells /\ NotStarted /\ VictimsListed
      /\ \A k \in S!Client \ crossed : Sound(k)
      /\ handler_type = "poll" /\ crossed = {} => PollsListed
  BY DEF SessionInv
<1>1. /\ UNCHANGED <<handler_type, seMem, seClientMem, session_id, connections, seClients, seMap, sePolled, held,
                     sePc, crClient, victim, onlyOne, after>>
      /\ sePcH = "match" /\ seMem[seConnH] = "live" /\ seConnH \in S!Conn /\ clientH \in S!Client /\ seConnH \in Its(clientH)
      /\ (sePcH' = "poll" /\ seMap[seConnH] = S!None)
            \/ (sePcH' = "selectJoined" /\ UNCHANGED <<seConnH, clientH>>)
      /\ \A j : Its(j)' = Its(j)
  <2>1. SessionTypes /\ sePcH = "match" /\ seMem[seConnH] = "live"
    BY <1>0 DEF S!Match, S!StepH, S!FinishH
  <2>2. seConnH \in S!Conn /\ clientH \in S!Client /\ seConnH \in Its(clientH)
    BY <1>0, <2>1 DEF SessionTypes, HoldTells
  <2>3. ASSUME seMap[seConnH] # S!None
        PROVE  seMap[seConnH] = clientH
    <3>1. seMap[seConnH] \in S!Client /\ seConnH \in Its(seMap[seConnH])
      BY <2>1, <2>2, <2>3, <1>0 DEF VictimsListed, SessionTypes
    <3>2. QED
      BY <1>0, <2>2, <3>1 DEF ListsApart
  <2>4. QED
    BY <2>1, <2>2, <2>3 DEF SessionTypes, Its, S!Match, S!FinishH, S!StepH, S!objects, S!tables, S!receive, S!removal
<1>2. SessionTypes'
  BY <1>0, <1>1, SessionNames DEF SessionTypes
<1>3. ListsApart'
  BY <1>0, <1>1 DEF ListsApart
<1>4. Unmade' /\ MadeOnce'
  BY <1>0, <1>1 DEF Unmade, MadeOnce
<1>5. HoldTells'
  BY <1>0, <1>1 DEF HoldTells, Holding
<1>6. NotStarted'
  BY <1>0, <1>1, SessionNames DEF NotStarted, SessionTypes
<1>7. VictimsListed'
  BY <1>0, <1>1 DEF VictimsListed, Leaving
<1>8. ASSUME NEW k \in S!Client \ crossed'  PROVE Sound(k)'
  <2>0. k \in S!Client /\ k \notin crossed /\ Sound(k) /\ ~ (S!Removing(k)' /\ S!Busy(k)')
    BY <1>0, <1>8, Uncrossed
  <2>1. BusyLives(k)'
    BY <1>0, <1>1, <2>0 DEF Sound, BusyLives, S!Busy
  <2>2. MapsTo(k)'
    BY <1>0, <1>1, <2>0 DEF Sound, MapsTo, Taken, Dropping, Leaving
  <2>3. HasOne(k)'
    BY <1>0, <1>1, <2>0, SessionNames DEF Sound, HasOne, Leaving
  <2>4. S!DistinctIds' => InTree(k)'
    BY <1>0, <1>1, <2>0 DEF Sound, S!DistinctIds, InTree, S!Busy, Gone
  <2>5. QED
    BY <2>1, <2>2, <2>3, <2>4 DEF Sound
<1>9. ASSUME handler_type' = "poll", crossed' = {}  PROVE PollsListed'
  <2>1. PollsListed /\ Sound(clientH)
    BY <1>0, <1>1, <1>9, Uncrossed
  <2>2. \A t \in S!Thread :
            crClient[t] = clientH => sePc[t] \in {"poll", "none", "queued", "loop", "exit", "done"}
    BY <1>1, <2>1 DEF Sound, BusyLives, S!Busy, S!Removing
  <2>3. ~ Taken(clientH, seConnH)
    BY <2>2 DEF Taken, Dropping
  <2>4. seMap[seConnH] = clientH
    BY <1>1, <2>1, <2>3 DEF Sound, MapsTo
  <2>5. sePcH' = "selectJoined"
    BY <1>1, <2>4, SessionNames
  <2>6. \A c : Unpolled(c)' <=> Unpolled(c)
    BY <1>1, <2>5 DEF Unpolled
  <2>7. QED
    BY <1>1, <2>1, <2>6 DEF PollsListed
<1>10. QED
  BY <1>2, <1>3, <1>4, <1>5, <1>6, <1>7, <1>8, <1>9 DEF SessionInv

\* cerver_handler_register_connection () with the poll thread.
LEMMA SelectsPoll ==
  ASSUME SessionInv, ~ S!Crashed, Crosses, S!SelectPoll
  PROVE  SessionInv'
<1>0. /\ SessionTypes /\ ListsApart /\ Unmade /\ MadeOnce /\ HoldTells /\ NotStarted /\ VictimsListed
      /\ \A k \in S!Client \ crossed : Sound(k)
      /\ handler_type = "poll" /\ crossed = {} => PollsListed
  BY DEF SessionInv
<1>1. /\ UNCHANGED <<handler_type, seMem, seClientMem, session_id, connections, seClients, seMap, held, seConnH, clientH,
                     sePc, crClient, victim, onlyOne, after>>
      /\ sePcH = "selectJoined" /\ sePcH' = "announce" /\ sePolled' = sePolled \cup {seConnH}
      /\ seMem[seConnH] = "live" /\ seConnH \in S!Conn /\ clientH \in S!Client
      /\ \A j : Its(j)' = Its(j)
  <2>1. SessionTypes
    BY <1>0
  <2>2. QED
    BY <2>1 DEF SessionTypes, Its, S!SelectPoll, S!StepH, S!objects, S!tables, S!receive, S!removal
<1>2. SessionTypes'
  BY <1>0, <1>1, SessionNames DEF SessionTypes
<1>3. ListsApart'
  BY <1>0, <1>1 DEF ListsApart
<1>4. Unmade' /\ MadeOnce'
  BY <1>0, <1>1 DEF Unmade, MadeOnce
<1>5. HoldTells'
  BY <1>0, <1>1 DEF HoldTells, Holding
<1>6. NotStarted'
  BY <1>0, <1>1, SessionNames DEF NotStarted, SessionTypes
<1>7. VictimsListed'
  BY <1>0, <1>1 DEF VictimsListed, Leaving
<1>8. ASSUME NEW k \in S!Client \ crossed'  PROVE Sound(k)'
  <2>0. k \in S!Client /\ k \notin crossed /\ Sound(k) /\ ~ (S!Removing(k)' /\ S!Busy(k)')
    BY <1>0, <1>8, Uncrossed
  <2>1. BusyLives(k)'
    BY <1>0, <1>1, <2>0 DEF Sound, BusyLives, S!Busy
  <2>2. MapsTo(k)'
    BY <1>0, <1>1, <2>0 DEF Sound, MapsTo, Taken, Dropping, Leaving
  <2>3. HasOne(k)'
    BY <1>0, <1>1, <2>0, SessionNames DEF Sound, HasOne, Leaving
  <2>4. S!DistinctIds' => InTree(k)'
    BY <1>0, <1>1, <2>0 DEF Sound, S!DistinctIds, InTree, S!Busy, Gone
  <2>5. QED
    BY <2>1, <2>2, <2>3, <2>4 DEF Sound
<1>9. ASSUME handler_type' = "poll", crossed' = {}  PROVE PollsListed'
  <2>1. clientH \in S!Client /\ PollsListed /\ Sound(clientH)
    BY <1>0, <1>1, <1>9, Uncrossed DEF SessionTypes
  <2>2. seConnH \in Its(clientH) /\ \A t \in S!Thread :
            crClient[t] = clientH => sePc[t] \in {"poll", "none", "queued", "loop", "exit", "done"}
    BY <1>1, <2>1 DEF Sound, BusyLives, S!Busy, S!Removing
  <2>3. ~ Unpolled(seConnH)'
    <3>1. Leaving(S!Poller) => victim[S!Poller] # seConnH
      <4>0. SUFFICES ASSUME Leaving(S!Poller)  PROVE victim[S!Poller] # seConnH
        OBVIOUS
      <4>1. victim[S!Poller] \in Its(crClient[S!Poller]) \/ seMem[victim[S!Poller]] = "freed"
        BY <1>0, <4>0, SessionNames DEF VictimsListed
      <4>2. crClient[S!Poller] \in S!Client /\ crClient[S!Poller] # clientH
        BY <1>0, <2>2, <4>0, SessionNames DEF VictimsListed, Leaving
      <4>3. seMem[seConnH] = "live" /\ seConnH \notin Its(crClient[S!Poller])
        BY <1>0, <2>1, <2>2, <4>2 DEF ListsApart
      <4>4. QED
        BY <4>1, <4>3
    <3>2. Dropping(S!Poller) => seConnH \notin Its(crClient[S!Poller])
      BY <1>0, <2>1, <2>2, SessionNames DEF VictimsListed, Dropping, ListsApart
    <3>3. QED
      BY <1>1, <3>1, <3>2 DEF Unpolled, Leaving, Dropping
  <2>4. \A c : c # seConnH => (Unpolled(c)' <=> Unpolled(c))
    BY <1>1 DEF Unpolled
  <2>5. QED
    BY <1>1, <2>1, <2>2, <2>3, <2>4 DEF PollsListed
<1>10. QED
  BY <1>2, <1>3, <1>4, <1>5, <1>6, <1>7, <1>8, <1>9 DEF SessionInv

\* A connection is accepted and put on hold.
LEMMA Accepts ==
  ASSUME SessionInv, ~ S!Crashed, Crosses, S!Accept
  PROVE  SessionInv'
<1>0. /\ SessionTypes /\ ListsApart /\ Unmade /\ MadeOnce /\ HoldTells /\ NotStarted /\ VictimsListed
      /\ \A k \in S!Client \ crossed : Sound(k)
      /\ handler_type = "poll" /\ crossed = {} => PollsListed
  BY DEF SessionInv
<1>1. PICK n \in S!Conn :
          /\ UNCHANGED <<handler_type, seClientMem, session_id, connections, seClients, seMap, sePolled, sePcH, seConnH,
                         clientH, sePc, crClient, victim, onlyOne, after>>
          /\ seMem[n] = "unused" /\ DOMAIN seMem' = S!Conn /\ seMem'[n] = "live" /\ held' = held \cup {n}
          /\ \A c \in S!Conn : c # n => seMem'[c] = seMem[c]
          /\ \A j : Its(j)' = Its(j)
          /\ \A k \in S!Client : \A c \in Its(k) : c \in S!Conn /\ c # n
  <2>1. SessionTypes
    BY <1>0
  <2>2. PICK m \in S!Conn : m = S!LowestOf({c \in S!Conn : seMem[c] = "unused"}) /\ seMem[m] = "unused"
    <3>1. {c \in S!Conn : seMem[c] = "unused"} # {}
      BY DEF S!Accept
    <3>2. {c \in S!Conn : seMem[c] = "unused"} \in SUBSET Nat
      BY SessionNames
    <3>3. S!LowestOf({c \in S!Conn : seMem[c] = "unused"}) \in {c \in S!Conn : seMem[c] = "unused"}
      BY <3>1, <3>2, SessionLowest
    <3>4. QED
      BY <3>3
  <2>3. seMem' = [seMem EXCEPT ![m] = "live"] /\ held' = held \cup {m}
    BY <2>2 DEF S!Accept
  <2>4. \A k \in S!Client : \A c \in Its(k) : c \in S!Conn /\ c # m
    BY <1>0, <2>2, ItsAt DEF ListsApart
  <2>5. QED
    BY <2>1, <2>2, <2>3, <2>4 DEF SessionTypes, Its, S!Accept, S!hold, S!receive, S!removal
<1>2. SessionTypes'
  BY <1>0, <1>1, SessionNames DEF SessionTypes
<1>3. ListsApart'
  BY <1>0, <1>1 DEF ListsApart
<1>4. Unmade' /\ MadeOnce'
  BY <1>0, <1>1 DEF Unmade, MadeOnce
<1>5. HoldTells'
  BY <1>0, <1>1 DEF HoldTells, Holding, SessionTypes, S!Crashed
<1>6. NotStarted'
  BY <1>0, <1>1, SessionNames DEF NotStarted, SessionTypes
<1>7. VictimsListed'
  BY <1>0, <1>1 DEF VictimsListed, Leaving
<1>8. ASSUME NEW k \in S!Client \ crossed'  PROVE Sound(k)'
  <2>0. k \in S!Client /\ k \notin crossed /\ Sound(k) /\ ~ (S!Removing(k)' /\ S!Busy(k)')
    BY <1>0, <1>8, Uncrossed
  <2>1. BusyLives(k)'
    BY <1>0, <1>1, <2>0 DEF Sound, BusyLives, S!Busy
  <2>2. MapsTo(k)'
    BY <1>0, <1>1, <2>0 DEF Sound, MapsTo, Taken, Dropping, Leaving
  <2>3. HasOne(k)'
    BY <1>0, <1>1, <2>0, SessionNames DEF Sound, HasOne, Leaving
  <2>4. S!DistinctIds' => InTree(k)'
    BY <1>0, <1>1, <2>0 DEF Sound, S!DistinctIds, InTree, S!Busy, Gone
  <2>5. QED
    BY <2>1, <2>2, <2>3, <2>4 DEF Sound
<1>9. ASSUME handler_type' = "poll", crossed' = {}  PROVE PollsListed'
  BY <1>0, <1>1, <1>9, Uncrossed, SessionNames DEF PollsListed, Unpolled
<1>10. QED
  BY <1>2, <1>3, <1>4, <1>5, <1>6, <1>7, <1>8, <1>9 DEF SessionInv

\* A client is made, with its first connection.
LEMMA Creates ==
  ASSUME SessionInv, ~ S!Crashed, Crosses, NEW d \in S!Conn, S!CreateClient(d)
  PROVE  SessionInv'
<1>0. /\ SessionTypes /\ ListsApart /\ Unmade /\ MadeOnce /\ HoldTells /\ NotStarted /\ VictimsListed
      /\ \A k \in S!Client \ crossed : Sound(k)
      /\ handler_type = "poll" /\ crossed = {} => PollsListed
  BY DEF SessionInv
<1>1. PICK g \in S!Client :
          /\ UNCHANGED <<handler_type, seMem, seClients, seMap, sePolled, held, sePc, crClient, victim, onlyOne, after>>
          /\ sePcH = "poll" /\ sePcH' = "unhold" /\ seConnH' = d /\ clientH' = g /\ d \in held
          /\ seClientMem[g] = "unused" /\ seClientMem'[g] = "live" /\ DOMAIN seClientMem' = S!Client
          /\ \A j \in S!Client : j # g => seClientMem'[j] = seClientMem[j] /\ session_id'[j] = session_id[j]
          /\ session_id'[g] # S!None /\ DOMAIN session_id' = S!Client
          /\ connections' = [connections EXCEPT ![g] = <<d>>]
  <2>1. SessionTypes
    BY <1>0
  <2>2. PICK m \in S!Client : m = S!LowestOf({j \in S!Client : seClientMem[j] = "unused"}) /\ seClientMem[m] = "unused"
    <3>1. {j \in S!Client : seClientMem[j] = "unused"} # {}
      BY DEF S!CreateClient
    <3>2. {j \in S!Client : seClientMem[j] = "unused"} \in SUBSET Nat
      BY SessionNames
    <3>3. S!LowestOf({j \in S!Client : seClientMem[j] = "unused"}) \in {j \in S!Client : seClientMem[j] = "unused"}
      BY <3>1, <3>2, SessionLowest
    <3>4. QED
      BY <3>3
  <2>3. /\ seClientMem' = [seClientMem EXCEPT ![m] = "live"] /\ connections' = [connections EXCEPT ![m] = <<d>>]
        /\ (\E i \in Id : session_id' = [session_id EXCEPT ![m] = i]) /\ clientH' = m
    BY <2>2 DEF S!CreateClient
  <2>4. /\ UNCHANGED <<handler_type, seMem, seClients, seMap, sePolled, held, sePc, crClient, victim, onlyOne, after>>
        /\ sePcH = "poll" /\ sePcH' = "unhold" /\ seConnH' = d /\ d \in held
    BY DEF S!CreateClient, S!StepH, S!tables, S!receive, S!removal
  <2>5. /\ seClientMem'[m] = "live" /\ DOMAIN seClientMem' = S!Client
        /\ \A j \in S!Client : j # m => seClientMem'[j] = seClientMem[j]
    BY <2>1, <2>3 DEF SessionTypes
  <2>6. /\ session_id'[m] # S!None /\ DOMAIN session_id' = S!Client
        /\ \A j \in S!Client : j # m => session_id'[j] = session_id[j]
    BY <2>1, <2>3, SessionNames DEF SessionTypes
  <2>7. QED
    BY <2>2, <2>3, <2>4, <2>5, <2>6
<1>11. /\ \A j \in S!Client : connections'[j] = IF j = g THEN <<d>> ELSE connections[j]
       /\ connections' \in [S!Client -> Seq(S!Conn)]
  <2>1. <<d>> \in Seq(S!Conn)
    OBVIOUS
  <2>2. QED
    BY <1>0, <1>1, <2>1 DEF SessionTypes
<1>12. /\ Its(g)' = {d} /\ Its(g) = {} /\ \A j \in S!Client : j # g => Its(j)' = Its(j)
       /\ seMem[d] = "live" /\ \A k \in S!Client : Its(k) \subseteq S!Conn /\ d \notin Its(k)
       /\ g \notin seClients /\ (\A c \in S!Conn : seMap[c] # g)
       /\ \A t \in S!Thread : sePc[t] \notin {"poll", "none", "done"} => crClient[t] # g
       /\ sePc[d] = "none"
  <2>1. {<<d>>[i] : i \in DOMAIN <<d>>} = {d}
    OBVIOUS
  <2>2. Its(g)' = {d} /\ \A j \in S!Client : j # g => Its(j)' = Its(j)
    BY <1>11, <2>1 DEF Its, S!ToSet
  <2>3. Its(g) = {} /\ g \notin seClients /\ \A c \in S!Conn : seMap[c] # g
    BY <1>0, <1>1 DEF ListsApart, Unmade
  <2>4. seMem[d] = "live" /\ \A k \in S!Client : Its(k) \subseteq S!Conn /\ d \notin Its(k)
    BY <1>0, <1>1, ItsAt DEF HoldTells, Holding
  <2>5. \A t \in S!Thread : sePc[t] \notin {"poll", "none", "done"} => crClient[t] # g
    BY <1>0, <1>1 DEF VictimsListed
  <2>6. sePc[d] = "none"
    BY <1>0, <1>1 DEF NotStarted
  <2>7. QED
    BY <2>2, <2>3, <2>4, <2>5, <2>6

<1>2. SessionTypes'
  BY <1>0, <1>1, <1>12, SessionNames, <1>11 DEF SessionTypes
<1>3. ListsApart'
  <2>1. \A k \in S!Client : \A i, j \in DOMAIN connections'[k] : connections'[k][i] = connections'[k][j] => i = j
    <3>1. \A i, j \in DOMAIN <<d>> : i = j
      OBVIOUS
    <3>2. QED
      BY <1>0, <1>11, <3>1 DEF ListsApart
  <2>2. \A j, k \in S!Client : j # k => (Its(j) \cap Its(k))' = {}
    BY <1>0, <1>1, <1>12 DEF ListsApart
  <2>3. \A k \in S!Client : \A c \in Its(k)' : seMem'[c] = "live"
    BY <1>0, <1>1, <1>12 DEF ListsApart
  <2>4. \A c \in S!Conn : seMem'[c] = "live" => c \in held' \/ \E k \in S!Client : c \in Its(k)'
    BY <1>0, <1>1, <1>12 DEF ListsApart
  <2>5. \A k \in S!Client : seClientMem'[k] # "live" => Its(k)' = {}
    BY <1>0, <1>1, <1>12 DEF ListsApart
  <2>6. QED
    BY <2>1, <2>2, <2>3, <2>4, <2>5 DEF ListsApart
<1>4. Unmade' /\ MadeOnce'
  BY <1>0, <1>1, <1>12 DEF Unmade, MadeOnce
<1>5. HoldTells'
  BY <1>0, <1>1, <1>12 DEF HoldTells, Holding
<1>6. NotStarted'
  BY <1>0, <1>1, <1>12, SessionNames DEF NotStarted, SessionTypes
<1>7. VictimsListed'
  <2>1. \A u \in S!Thread : Leaving(u) => crClient[u] \in S!Client \ {g} /\ (Its(crClient[u]))' = Its(crClient[u])
    BY <1>0, <1>1, <1>12 DEF VictimsListed, Leaving
  <2>2. \A c \in S!Conn : seMap[c] # S!None => seMap[c] \in S!Client \ {g} /\ (Its(seMap[c]))' = Its(seMap[c])
    BY <1>0, <1>1, <1>12 DEF SessionTypes
  <2>3. \A u \in S!Thread : sePc[u] \notin {"poll", "none", "done"} =>
            crClient[u] \in S!Client /\ seClientMem'[crClient[u]] # "unused"
    BY <1>0, <1>1, <1>12 DEF VictimsListed
  <2>4. QED
    BY <1>0, <1>1, <2>1, <2>2, <2>3 DEF VictimsListed, Leaving
<1>8. ASSUME NEW k \in S!Client \ crossed'  PROVE Sound(k)'
  <2>0. k \in S!Client /\ k \notin crossed /\ Sound(k) /\ ~ (S!Removing(k)' /\ S!Busy(k)')
    BY <1>0, <1>8, Uncrossed
  <2>1. BusyLives(k)'
    BY <1>0, <1>1, <1>12, <2>0 DEF Sound, BusyLives, S!Busy
  <2>2. MapsTo(k)'
    BY <1>0, <1>1, <1>12, <2>0 DEF Sound, MapsTo, Taken, Dropping, Leaving
  <2>3. HasOne(k)'
    BY <1>0, <1>1, <1>12, <2>0, SessionNames DEF Sound, HasOne, Leaving
  <2>4. S!DistinctIds' => InTree(k)'
    <3>1. S!DistinctIds' => S!DistinctIds
      BY <1>0, <1>1 DEF Sound, S!DistinctIds, S!DistinctIds, Unmade
    <3>2. CASE k = g
      BY <1>1, <1>12, <3>2 DEF InTree, S!Busy, Gone
    <3>3. CASE k # g
      BY <1>1, <2>0, <3>1, <3>3 DEF Sound, InTree, S!Busy, Gone
    <3>4. QED
      BY <3>2, <3>3
  <2>5. QED
    BY <2>1, <2>2, <2>3, <2>4 DEF Sound
<1>9. ASSUME handler_type' = "poll", crossed' = {}  PROVE PollsListed'
  <2>1. PollsListed
    BY <1>0, <1>1, <1>9, Uncrossed
  <2>2. d \notin sePolled /\ Unpolled(d)'
    BY <1>1, <1>12, <2>1 DEF PollsListed, Unpolled
  <2>3. ASSUME NEW c, c # d
        PROVE  Unpolled(c)' <=> Unpolled(c)
    <3>1. Dropping(S!Poller) => (c \in Its(crClient[S!Poller]) <=> c \in Its(crClient[S!Poller])')
      BY <1>0, <1>1, <1>12, SessionNames DEF VictimsListed, Dropping
    <3>2. QED
      BY <1>1, <2>3, <3>1 DEF Unpolled, Dropping
  <2>4. QED
    BY <1>1, <1>12, <2>1, <2>2, <2>3 DEF PollsListed
<1>10. QED
  BY <1>2, <1>3, <1>4, <1>5, <1>6, <1>7, <1>8, <1>9 DEF SessionInv

\* No session id is generated: the connection is dropped.
LEMMA GeneratesNot ==
  ASSUME SessionInv, ~ S!Crashed, Crosses, NEW d \in S!Conn, S!GenerateFails(d)
  PROVE  SessionInv'
<1>0. /\ SessionTypes /\ ListsApart /\ Unmade /\ MadeOnce /\ HoldTells /\ NotStarted /\ VictimsListed
      /\ \A k \in S!Client \ crossed : Sound(k)
      /\ handler_type = "poll" /\ crossed = {} => PollsListed
  BY DEF SessionInv
<1>1. /\ UNCHANGED <<handler_type, seClientMem, session_id, connections, seClients, seMap, sePolled, seConnH, clientH,
                     sePc, crClient, victim, onlyOne, after>>
      /\ sePcH = "poll" /\ sePcH' \in {"poll", "crashed"} /\ d \in held /\ held' = held \ {d}
      /\ DOMAIN seMem' = S!Conn /\ seMem'[d] = "freed" /\ \A c \in S!Conn : c # d => seMem'[c] = seMem[c]
      /\ seMem[d] = "live" /\ \A k \in S!Client : \A c \in Its(k) : c \in S!Conn /\ c # d
      /\ \A j : Its(j)' = Its(j)
  <2>1. SessionTypes
    BY <1>0
  <2>2. sePcH = "poll" /\ d \in held
    BY DEF S!GenerateFails, S!StepH
  <2>3. seMem[d] = "live" /\ \A k \in S!Client : \A c \in Its(k) : c \in S!Conn /\ c # d
    BY <1>0, <2>2, ItsAt DEF HoldTells, Holding
  <2>4. QED
    BY <2>1, <2>2, <2>3 DEF SessionTypes, Its, S!GenerateFails, S!DropConnection, S!StepH, S!receive, S!removal
<1>2. SessionTypes'
  BY <1>0, <1>1, SessionNames DEF SessionTypes
<1>3. CASE sePcH' = "crashed"
  BY <1>2, <1>3 DEF S!Crashed, SessionInv
<1>4. CASE sePcH' = "poll"
  <2>1. ListsApart'
    BY <1>0, <1>1, <1>4 DEF ListsApart
  <2>2. Unmade' /\ MadeOnce'
    BY <1>0, <1>1, <1>4 DEF Unmade, MadeOnce
  <2>3. HoldTells'
    BY <1>0, <1>1, <1>4 DEF HoldTells, Holding, SessionTypes
  <2>4. NotStarted'
    BY <1>0, <1>1, <1>4, SessionNames DEF NotStarted, SessionTypes
  <2>5. VictimsListed'
    BY <1>0, <1>1, <1>4 DEF VictimsListed, Leaving
  <2>6. ASSUME NEW k \in S!Client \ crossed'  PROVE Sound(k)'
    <3>0. k \in S!Client /\ k \notin crossed /\ Sound(k) /\ ~ (S!Removing(k)' /\ S!Busy(k)')
      BY <1>0, <2>6, Uncrossed
    <3>1. BusyLives(k)'
      BY <1>0, <1>1, <1>4, <3>0 DEF Sound, BusyLives, S!Busy
    <3>2. MapsTo(k)'
      BY <1>0, <1>1, <1>4, <3>0 DEF Sound, MapsTo, Taken, Dropping, Leaving
    <3>3. HasOne(k)'
      BY <1>0, <1>1, <1>4, <3>0, SessionNames DEF Sound, HasOne, Leaving
    <3>4. S!DistinctIds' => InTree(k)'
      BY <1>0, <1>1, <1>4, <3>0 DEF Sound, S!DistinctIds, InTree, S!Busy, Gone
    <3>5. QED
      BY <3>1, <3>2, <3>3, <3>4 DEF Sound
  <2>7. ASSUME handler_type' = "poll", crossed' = {}  PROVE PollsListed'
    BY <1>0, <1>1, <1>4, <2>7, Uncrossed, SessionNames DEF PollsListed, Unpolled
  <2>8. QED
    BY <1>2, <2>1, <2>2, <2>3, <2>4, <2>5, <2>6, <2>7 DEF SessionInv
<1>5. QED
  BY <1>1, <1>3, <1>4

\* A client is found by the token.
LEMMA Finds ==
  ASSUME SessionInv, ~ S!Crashed, Crosses, NEW d \in S!Conn, S!FindByToken(d)
  PROVE  SessionInv'
<1>0. /\ SessionTypes /\ ListsApart /\ Unmade /\ MadeOnce /\ HoldTells /\ NotStarted /\ VictimsListed
      /\ \A k \in S!Client \ crossed : Sound(k)
      /\ handler_type = "poll" /\ crossed = {} => PollsListed
  BY DEF SessionInv
<1>1. /\ UNCHANGED <<handler_type, seMem, seClientMem, session_id, connections, seClients, seMap, sePolled, held,
                     sePc, crClient, victim, onlyOne, after>>
      /\ sePcH = "poll" /\ sePcH' = "join" /\ d \in held /\ seConnH' = d /\ clientH' \in seClients
      /\ \A j : Its(j)' = Its(j)
  <2>1. SessionTypes
    BY <1>0
  <2>2. QED
    BY <2>1 DEF SessionTypes, Its, S!FindByToken, S!StepH, S!objects, S!tables, S!receive, S!removal
<1>2. SessionTypes'
  BY <1>0, <1>1, SessionNames DEF SessionTypes
<1>3. ListsApart'
  BY <1>0, <1>1 DEF ListsApart
<1>4. Unmade' /\ MadeOnce'
  BY <1>0, <1>1 DEF Unmade, MadeOnce
<1>5. HoldTells'
  BY <1>0, <1>1 DEF HoldTells, Holding
<1>6. NotStarted'
  BY <1>0, <1>1, SessionNames DEF NotStarted, SessionTypes
<1>7. VictimsListed'
  BY <1>0, <1>1 DEF VictimsListed, Leaving
<1>8. ASSUME NEW k \in S!Client \ crossed'  PROVE Sound(k)'
  <2>0. k \in S!Client /\ k \notin crossed /\ Sound(k) /\ ~ (S!Removing(k)' /\ S!Busy(k)')
    BY <1>0, <1>8, Uncrossed
  <2>1. BusyLives(k)'
    BY <1>0, <1>1, <2>0 DEF Sound, BusyLives, S!Busy
  <2>2. MapsTo(k)'
    BY <1>0, <1>1, <2>0 DEF Sound, MapsTo, Taken, Dropping, Leaving
  <2>3. HasOne(k)'
    BY <1>0, <1>1, <2>0, SessionNames DEF Sound, HasOne, Leaving
  <2>4. S!DistinctIds' => InTree(k)'
    BY <1>0, <1>1, <2>0 DEF Sound, S!DistinctIds, InTree, S!Busy, Gone
  <2>5. QED
    BY <2>1, <2>2, <2>3, <2>4 DEF Sound
<1>9. ASSUME handler_type' = "poll", crossed' = {}  PROVE PollsListed'
  BY <1>0, <1>1, <1>9, Uncrossed, SessionNames DEF PollsListed, Unpolled
<1>10. QED
  BY <1>2, <1>3, <1>4, <1>5, <1>6, <1>7, <1>8, <1>9 DEF SessionInv

\* connection_register_to_client () for a connection that joins a client.
LEMMA Joins ==
  ASSUME SessionInv, ~ S!Crashed, Crosses, NEW g \in S!Client, NEW d \in S!Conn, clientH = g, seConnH = d, S!JoinClient
  PROVE  SessionInv'
<1>0. /\ SessionTypes /\ ListsApart /\ Unmade /\ MadeOnce /\ HoldTells /\ NotStarted /\ VictimsListed
      /\ \A k \in S!Client \ crossed : Sound(k)
      /\ handler_type = "poll" /\ crossed = {} => PollsListed
  BY DEF SessionInv
<1>1. /\ UNCHANGED <<handler_type, seMem, seClientMem, session_id, seClients, seMap, sePolled, held, sePc, crClient,
                     victim, onlyOne, after>>
      /\ sePcH = "join" /\ sePcH' = "joinMap" /\ clientH' = g /\ seConnH' = d /\ d \in held
      /\ seClientMem[g] = "live" /\ seMem[d] = "live" /\ \A k \in S!Client : Its(k) \subseteq S!Conn /\ d \notin Its(k)
      /\ (\A c : c \in Its(g)' <=> c \in Its(g) \/ c = d) /\ \A j \in S!Client : j # g => Its(j)' = Its(j)
  <2>1. SessionTypes /\ ListsApart
    BY <1>0
  <2>2. /\ sePcH = "join" /\ seClientMem[g] = "live"
        /\ connections' = [connections EXCEPT ![g] = Append(connections[g], d)]
    BY DEF S!JoinClient, S!StepH
  <2>3. d \in held /\ seMem[d] = "live" /\ \A k \in S!Client : Its(k) \subseteq S!Conn /\ d \notin Its(k)
    BY <1>0, <2>2, ItsAt DEF HoldTells, Holding
  <2>4. Its(g)' = Its(g) \cup {d} /\ \A j \in S!Client : j # g => Its(j)' = Its(j)
    BY <2>1, <2>2, <2>3, ItsGrows
  <2>5. QED
    BY <2>2, <2>3, <2>4 DEF S!JoinClient, S!StepH, S!tables, S!receive, S!removal
<1>2. SessionTypes'
  <2>1. connections' = [connections EXCEPT ![g] = Append(connections[g], d)]
    BY DEF S!JoinClient
  <2>2. connections' \in [S!Client -> Seq(S!Conn)]
    BY <1>0, <1>1, <2>1, ItsGrows
  <2>3. QED
    BY <1>0, <1>1, <2>2 DEF SessionTypes
<1>3. ListsApart'
  <2>0. connections' = [connections EXCEPT ![g] = Append(connections[g], d)]
    BY DEF S!JoinClient
  <2>1. \A k \in S!Client : \A i, j \in DOMAIN connections'[k] : connections'[k][i] = connections'[k][j] => i = j
    BY <1>0, <1>1, <2>0, ItsGrows
  <2>2. ASSUME NEW j \in S!Client, NEW k \in S!Client, j # k  PROVE (Its(j) \cap Its(k))' = {}
    BY <1>0, <1>1, <2>2 DEF ListsApart
  <2>3. \A k \in S!Client : \A c \in Its(k)' : seMem'[c] = "live"
    BY <1>0, <1>1 DEF ListsApart
  <2>4. \A c \in S!Conn : seMem'[c] = "live" => c \in held' \/ \E k \in S!Client : c \in Its(k)'
    BY <1>0, <1>1 DEF ListsApart
  <2>5. \A k \in S!Client : seClientMem'[k] # "live" => Its(k)' = {}
    BY <1>0, <1>1 DEF ListsApart
  <2>6. QED
    BY <2>1, <2>2, <2>3, <2>4, <2>5 DEF ListsApart
<1>4. Unmade' /\ MadeOnce'
  BY <1>0, <1>1 DEF Unmade, MadeOnce
<1>5. HoldTells'
  BY <1>0, <1>1 DEF HoldTells, Holding
<1>6. NotStarted'
  BY <1>0, <1>1, SessionNames DEF NotStarted, SessionTypes
<1>7. VictimsListed'
  <2>1. \A j \in S!Client : \A c \in Its(j) : c \in Its(j)'
    BY <1>1
  <2>2. \A c \in S!Conn : seMap[c] \in S!Client \cup {S!None}
    BY <1>0 DEF SessionTypes
  <2>3. \A u \in S!Thread : Leaving(u) => crClient[u] \in S!Client
    BY <1>0 DEF VictimsListed, Leaving
  <2>4. QED
    BY <1>0, <1>1, <2>1, <2>2, <2>3 DEF VictimsListed, Leaving
<1>8. ASSUME NEW k \in S!Client \ crossed'  PROVE Sound(k)'
  <2>0. k \in S!Client /\ k \notin crossed /\ Sound(k) /\ ~ (S!Removing(k)' /\ S!Busy(k)')
    BY <1>0, <1>8, Uncrossed
  <2>1. BusyLives(k)'
    BY <1>0, <1>1, <2>0 DEF Sound, BusyLives, S!Busy
  <2>2. MapsTo(k)'
    <3>1. g = k => \A t \in S!Thread :
             crClient[t] = k => sePc[t] \in {"poll", "none", "queued", "loop", "exit", "done"}
      BY <1>1, <2>0 DEF Sound, Sound, BusyLives, S!Busy, S!Removing
    <3>2. CASE g = k
      BY <1>1, <2>0, <3>1, <3>2 DEF Sound, MapsTo, Taken, Dropping, Leaving
    <3>3. CASE g # k
      BY <1>1, <2>0, <3>3 DEF Sound, MapsTo, Taken, Dropping, Leaving
    <3>4. QED
      BY <3>2, <3>3
  <2>3. HasOne(k)'
    <3>1. g = k => \A t \in S!Thread :
             crClient[t] = k => sePc[t] \in {"poll", "none", "queued", "loop", "exit", "done"}
      BY <1>1, <2>0 DEF Sound, Sound, BusyLives, S!Busy, S!Removing
    <3>2. CASE g = k
      BY <1>1, <2>0, <3>1, <3>2, SessionNames DEF HasOne, Leaving
    <3>3. CASE g # k
      BY <1>1, <2>0, <3>3 DEF Sound, HasOne, Leaving
    <3>4. QED
      BY <3>2, <3>3
  <2>4. S!DistinctIds' => InTree(k)'
    BY <1>0, <1>1, <2>0 DEF Sound, S!DistinctIds, InTree, S!Busy, Gone
  <2>5. QED
    BY <2>1, <2>2, <2>3, <2>4 DEF Sound
<1>9. ASSUME handler_type' = "poll", crossed' = {}  PROVE PollsListed'
  <2>1. PollsListed /\ Sound(g)
    BY <1>0, <1>1, <1>9, Uncrossed
  <2>2. d \notin sePolled /\ Unpolled(d)'
    BY <1>1, <2>1 DEF PollsListed, Unpolled
  <2>3. crClient[S!Poller] = g => ~ Dropping(S!Poller)
    BY <1>1, <2>1, SessionNames DEF Sound, BusyLives, S!Busy, S!Removing, Dropping
  <2>4. Dropping(S!Poller) => crClient[S!Poller] \in S!Client
    BY <1>0, SessionNames DEF VictimsListed, Dropping
  <2>5. ASSUME NEW c, c # d
        PROVE  Unpolled(c)' <=> Unpolled(c)
    BY <1>1, <2>3, <2>4, <2>5 DEF Unpolled, Dropping
  <2>6. QED
    BY <1>1, <2>1, <2>2, <2>5 DEF PollsListed
<1>10. QED
  BY <1>2, <1>3, <1>4, <1>5, <1>6, <1>7, <1>8, <1>9 DEF SessionInv

\* A thread of its own is started for a connection.
LEMMA SelectsThread ==
  ASSUME SessionInv, ~ S!Crashed, Crosses, S!SelectThread
  PROVE  SessionInv'
<1>0. /\ SessionTypes /\ ListsApart /\ Unmade /\ MadeOnce /\ HoldTells /\ NotStarted /\ VictimsListed
      /\ \A k \in S!Client \ crossed : Sound(k)
      /\ handler_type = "poll" /\ crossed = {} => PollsListed
  BY DEF SessionInv
<1>1. /\ UNCHANGED <<handler_type, seMem, seClientMem, session_id, connections, seClients, seMap, sePolled, held,
                     victim, onlyOne, after>>
      /\ sePcH \in {"select", "selectJoined"} /\ handler_type # "poll" /\ seMem[seConnH] = "live"
      /\ sePcH' = "poll" \/ (sePcH' = "announce" /\ UNCHANGED <<seConnH, clientH>>)
      /\ seConnH \in S!Conn /\ clientH \in S!Client /\ seConnH \notin held /\ sePc[seConnH] = "none"
      /\ seClientMem[clientH] # "unused"
      /\ DOMAIN sePc' = S!Thread /\ DOMAIN crClient' = S!Thread
      /\ \A t \in S!Thread : t # seConnH => sePc'[t] = sePc[t] /\ crClient'[t] = crClient[t]
      /\ UNCHANGED <<sePc, crClient>> \/ (sePc'[seConnH] = "queued" /\ crClient'[seConnH] = clientH)
      /\ \A j : Its(j)' = Its(j)
  <2>1. SessionTypes /\ sePcH \in {"select", "selectJoined"} /\ seMem[seConnH] = "live"
    BY <1>0 DEF S!SelectThread
  <2>2. seConnH \in S!Conn /\ clientH \in S!Client /\ seConnH \in S!Thread
    BY <2>1, SessionNames DEF SessionTypes
  <2>3. seConnH \notin held /\ sePc[seConnH] = "none" /\ seClientMem[clientH] # "unused"
    BY <1>0, <2>1, <2>2 DEF HoldTells, Holding, NotStarted, Unmade
  <2>4. QED
    BY <2>1, <2>2, <2>3 DEF SessionTypes, Its, S!SelectThread, S!objects, S!tables, S!removal, S!receive
<1>2. SessionTypes'
  BY <1>0, <1>1, SessionNames DEF SessionTypes
<1>3. ListsApart'
  BY <1>0, <1>1 DEF ListsApart
<1>4. Unmade' /\ MadeOnce'
  BY <1>0, <1>1 DEF Unmade, MadeOnce
<1>5. HoldTells'
  BY <1>0, <1>1 DEF HoldTells, Holding
<1>6. NotStarted'
  BY <1>0, <1>1, SessionNames DEF NotStarted, SessionTypes
<1>7. VictimsListed'
  BY <1>0, <1>1 DEF VictimsListed, Leaving
<1>8. ASSUME NEW k \in S!Client \ crossed'  PROVE Sound(k)'
  <2>0. k \in S!Client /\ k \notin crossed /\ Sound(k) /\ ~ (S!Removing(k)' /\ S!Busy(k)')
    BY <1>0, <1>8, Uncrossed
  <2>1. BusyLives(k)'
    BY <1>0, <1>1, <2>0 DEF Sound, BusyLives, S!Busy
  <2>2. MapsTo(k)'
    BY <1>0, <1>1, <2>0 DEF Sound, MapsTo, Taken, Dropping, Leaving
  <2>3. HasOne(k)'
    BY <1>0, <1>1, <2>0, SessionNames DEF Sound, HasOne, Leaving
  <2>4. S!DistinctIds' => InTree(k)'
    BY <1>0, <1>1, <2>0 DEF Sound, S!DistinctIds, InTree, S!Busy, Gone
  <2>5. QED
    BY <2>1, <2>2, <2>3, <2>4 DEF Sound
<1>9. ASSUME handler_type' = "poll", crossed' = {}  PROVE PollsListed'
  BY <1>0, <1>1, <1>9, Uncrossed, SessionNames DEF PollsListed, Unpolled
<1>10. QED
  BY <1>2, <1>3, <1>4, <1>5, <1>6, <1>7, <1>8, <1>9 DEF SessionInv

\* client_remove_connection_by_sock_fd (), by whichever thread.
LEMMA Removes ==
  ASSUME SessionInv, ~ S!Crashed, Crosses, NEW t \in S!Thread, S!Removal(t)
  PROVE  SessionInv'
<1>1. CASE S!Count(t)
  BY <1>1, Counts
<1>2. CASE S!Unpoll(t)
  BY <1>2, Unpolls
<1>3. CASE S!Unmap(t)
  BY <1>3, Unmaps
<1>4. CASE S!Unlist(t)
  BY <1>4, Unlists
<1>5. CASE S!RemoveClient(t)
  BY <1>5, RemovesClient
<1>6. CASE S!DeleteClient(t)
  BY <1>6, Deletes
<1>7. CASE S!UseFreed(t)
  BY <1>7, Crashes
<1>8. QED
  BY <1>1, <1>2, <1>3, <1>4, <1>5, <1>6, <1>7 DEF S!Removal

\* The thread of the connections on hold.
LEMMA HoldThreadKeeps ==
  ASSUME SessionInv, ~ S!Crashed, Crosses, S!OnHoldThread
  PROVE  SessionInv'
<1>1. ASSUME NEW c \in S!Conn, S!CreateClient(c) \/ S!GenerateFails(c) \/ S!FindByToken(c)
      PROVE  SessionInv'
  BY <1>1, Creates, GeneratesNot, Finds
<1>2. CASE S!JoinClient
  <2>1. clientH \in S!Client /\ seConnH \in S!Conn
    BY <1>2 DEF SessionInv, SessionTypes, S!JoinClient
  <2>2. QED
    BY <1>2, <2>1, Joins
<1>3. CASE S!JoinMap
  BY <1>3, JoinsMap
<1>4. CASE S!Unhold
  BY <1>4, Unholds
<1>5. CASE S!RegisterMap
  BY <1>5, RegistersMap
<1>6. CASE S!RegisterPoll
  BY <1>6, RegistersPoll
<1>7. CASE S!Insert
  BY <1>7, Inserts
<1>8. CASE S!Welcome \/ S!Announce
  BY <1>8, Finishes
<1>9. CASE S!Match
  BY <1>9, Matches
<1>10. CASE S!SelectPoll
  BY <1>10, SelectsPoll
<1>11. CASE S!SelectThread
  BY <1>11, SelectsThread
<1>12. CASE S!UseFreedH
  BY <1>12, Crashes
<1>13. QED
  BY <1>1, <1>2, <1>3, <1>4, <1>5, <1>6, <1>7, <1>8, <1>9, <1>10, <1>11, <1>12 DEF S!OnHoldThread

\* The thread of a connection.
LEMMA ConnThreadKeeps ==
  ASSUME SessionInv, ~ S!Crashed, Crosses, NEW c \in S!Conn, S!ConnThread(c)
  PROVE  SessionInv'
<1>0. c \in S!Thread /\ DOMAIN sePc = S!Thread
  BY SessionNames DEF SessionInv, SessionTypes
<1>1. CASE S!Begin(c) \/ S!ThreadFails(c)
  BY <1>1, GoesOn
<1>2. CASE S!ThreadCloses(c)
  BY <1>2, Leaves
<1>3. CASE S!ThreadCrashes(c)
  BY <1>3, Crashes
<1>4. CASE S!ThreadExits(c)
  <2>1. sePc'[c] \in {"done", "size", "crashed"}
    BY <1>0, <1>4 DEF S!ThreadExits, S!RemoveConnection, S!Crash, S!Goto
  <2>2. QED
    BY <1>4, <2>1, Ends, Leaves, Crashes
<1>5. CASE S!Removal(c)
  BY <1>0, <1>5, Removes
<1>6. QED
  BY <1>1, <1>2, <1>3, <1>4, <1>5 DEF S!ConnThread

\* Every step keeps it.
LEMMA SessionsKeep ==
  ASSUME SessionInv, [S!Next]_(S!vars)
  PROVE  SessionInv'
<1>1. CASE S!Next
  <2>1. ~ S!Crashed /\ Crosses
    BY <1>1 DEF S!Next, Crosses
  <2>2. CASE S!Accept
    BY <2>1, <2>2, Accepts
  <2>3. CASE S!OnHoldThread
    BY <2>1, <2>3, HoldThreadKeeps
  <2>4. CASE S!PollThread
    <3>1. ASSUME NEW c \in S!Conn, S!PollLeaves(c) \/ S!PollDisconnects(c) \/ S!PollRogue(c) \/ S!PollUsesFreed(c)
          PROVE  SessionInv'
      BY <2>1, <3>1, Leaves, Disconnects, Rogues, Crashes
    <3>2. CASE S!DropMaps \/ S!DropPolls \/ S!DropDelete
      BY <2>1, <3>2, DropsMaps, DropsPolls, Deletes
    <3>3. CASE S!Removal(S!Poller)
      BY <2>1, <3>3, Removes, SessionNames
    <3>4. QED
      BY <2>4, <3>1, <3>2, <3>3 DEF S!PollThread
  <2>5. CASE \E c \in S!Conn : S!ConnThread(c)
    BY <2>1, <2>5, ConnThreadKeeps
  <2>6. QED
    BY <1>1, <2>2, <2>3, <2>4, <2>5 DEF S!Next
<1>2. CASE UNCHANGED S!vars
  <2>0. UNCHANGED <<handler_type, crossed, seMem, seClientMem, session_id, connections, seClients, seMap, sePolled,
                    held, sePcH, seConnH, clientH, sePc, crClient, victim, onlyOne, after>>
    BY <1>2 DEF S!vars, S!objects, S!tables, S!hold, S!receive, S!removal
  <2>1. \A k : Its(k)' = Its(k)
    BY <2>0 DEF Its
  <2>2. SessionTypes' = SessionTypes /\ S!Crashed' = S!Crashed
    BY <2>0 DEF SessionTypes, S!Crashed
  <2>3. ListsApart => ListsApart'
    BY <2>0, <2>1 DEF ListsApart
  <2>4. (Unmade /\ MadeOnce /\ HoldTells /\ NotStarted) => (Unmade /\ MadeOnce /\ HoldTells /\ NotStarted)'
    BY <2>0, <2>1 DEF Unmade, MadeOnce, HoldTells, Holding, NotStarted
  <2>5. VictimsListed => VictimsListed'
    BY <2>0, <2>1 DEF VictimsListed, Leaving
  <2>6. ASSUME NEW k \in S!Client, Sound(k)
        PROVE  Sound(k)'
    <3>1. BusyLives(k)'
      BY <2>0, <2>1, <2>6 DEF Sound, BusyLives, S!Busy, S!Removing
    <3>2. MapsTo(k)'
      BY <2>0, <2>1, <2>6 DEF Sound, MapsTo, Taken, Dropping, Leaving
    <3>3. HasOne(k)'
      BY <2>0, <2>1, <2>6 DEF Sound, HasOne, Leaving
    <3>4. S!DistinctIds' => InTree(k)'
      BY <2>0, <2>1, <2>6 DEF Sound, S!DistinctIds, InTree, S!Busy, Gone
    <3>5. QED
      BY <3>1, <3>2, <3>3, <3>4 DEF Sound
  <2>7. PollsListed => PollsListed'
    BY <2>0, <2>1 DEF PollsListed, Unpolled
  <2>8. QED
    BY <2>0, <2>2, <2>3, <2>4, <2>5, <2>6, <2>7 DEF SessionInv
<1>3. QED
  BY <1>1, <1>2

\* It holds of the initial states.
LEMMA SessionInitHolds ==
  ASSUME S!Init
  PROVE  SessionInv
<1>1. /\ \A c \in S!Conn : seMem[c] = "unused" /\ seMap[c] = S!None
      /\ \A k \in S!Client : seClientMem[k] = "unused" /\ session_id[k] = S!None /\ connections[k] = <<>>
      /\ seClients = {} /\ sePolled = {} /\ held = {} /\ sePcH = "poll"
      /\ \A t \in S!Thread : sePc[t] \in {"poll", "none"} /\ after[t] = "none"
      /\ \A c \in S!Conn : sePc[c] = "none"
  BY SessionNames DEF S!Init
<1>2. SessionTypes
  <2>1. <<>> \in Seq(S!Conn)
    OBVIOUS
  <2>2. QED
    BY <2>1 DEF S!Init, SessionTypes
<1>3. \A k \in S!Client : Its(k) = {} /\ DOMAIN connections[k] = {}
  <2>1. {<<>>[i] : i \in DOMAIN <<>>} = {} /\ DOMAIN <<>> = {}
    OBVIOUS
  <2>2. QED
    BY <1>1, <2>1 DEF Its, S!ToSet
<1>4. ListsApart /\ Unmade /\ MadeOnce /\ HoldTells /\ NotStarted
  <2>1. ListsApart
    BY <1>1, <1>3 DEF ListsApart
  <2>2. Unmade /\ MadeOnce /\ HoldTells /\ NotStarted
    BY <1>1, SessionNames DEF Unmade, MadeOnce, HoldTells, Holding, NotStarted
  <2>3. QED
    BY <2>1, <2>2
<1>5. VictimsListed
  BY <1>1 DEF VictimsListed, Leaving
<1>6. ASSUME NEW k \in S!Client
      PROVE  Sound(k)
  <2>1. BusyLives(k) /\ HasOne(k)
    BY <1>1, <1>6, SessionNames DEF BusyLives, HasOne, S!Busy
  <2>2. MapsTo(k)
    BY <1>1, <1>3, <1>6, SessionNames DEF MapsTo, Dropping, Leaving
  <2>3. InTree(k)
    BY <1>1, <1>6 DEF InTree
  <2>4. QED
    BY <2>1, <2>2, <2>3 DEF Sound
<1>7. PollsListed
  BY <1>1, <1>3 DEF PollsListed
<1>8. QED
  BY <1>2, <1>4, <1>5, <1>6, <1>7 DEF SessionInv

\* At rest it says that the places agree.
LEMMA SessionInvImplies == SessionInv => SessionsAgree
<1> SUFFICES ASSUME SessionInv, S!AtRest, S!DistinctIds
             PROVE  /\ \A k \in S!Client \ crossed :
                        /\ seClientMem[k] = "live" <=> k \in seClients
                        /\ seClientMem[k] = "live" /\ handler_type = "poll" => Its(k) # {}
                        /\ S!IsInjective(connections[k])
                        /\ Its(k) = {c \in S!Conn : seMap[c] = k}
                        /\ \A c \in Its(k) : seMem[c] = "live" /\ c \notin held
                    /\ crossed = {} =>
                        /\ handler_type = "poll" => sePolled = UNION {Its(k) : k \in S!Client}
                        /\ {c \in S!Conn : seMem[c] = "live"} = held \cup UNION {Its(k) : k \in S!Client}
  BY DEF SessionsAgree, S!SessionsAgree, Its
<1>0. /\ SessionTypes /\ ListsApart /\ HoldTells
      /\ \A k \in S!Client \ crossed : Sound(k)
      /\ handler_type = "poll" /\ crossed = {} => PollsListed
  BY DEF SessionInv, S!AtRest, S!Crashed
<1>1. /\ sePcH = "poll" /\ S!Poller \in S!Thread
      /\ \A t \in S!Thread : sePc[t] \in {"poll", "none", "queued", "loop", "done"}
  BY SessionNames DEF S!AtRest
<1>2. \A k \in S!Client : Its(k) \subseteq S!Conn
  BY <1>0, ItsAt
<1>3. ASSUME NEW k \in S!Client \ crossed
      PROVE  /\ seClientMem[k] = "live" <=> k \in seClients
             /\ seClientMem[k] = "live" /\ handler_type = "poll" => Its(k) # {}
             /\ S!IsInjective(connections[k])
             /\ Its(k) = {c \in S!Conn : seMap[c] = k}
             /\ \A c \in Its(k) : seMem[c] = "live" /\ c \notin held
  <2>1. seClientMem[k] = "live" <=> k \in seClients
    BY <1>0, <1>1 DEF Sound, InTree, S!Busy, Gone
  <2>2. seClientMem[k] = "live" /\ handler_type = "poll" => Its(k) # {}
    BY <1>0, <1>1 DEF Sound, HasOne
  <2>3. S!IsInjective(connections[k])
    BY <1>0 DEF ListsApart, S!IsInjective
  <2>4. \A c \in Its(k) : seMap[c] = k
    BY <1>0, <1>1 DEF Sound, MapsTo, Taken, Dropping
  <2>5. \A c \in S!Conn : seMap[c] = k => c \in Its(k)
    BY <1>0 DEF Sound, MapsTo
  <2>6. \A c \in Its(k) : seMem[c] = "live" /\ c \notin held
    BY <1>0, <1>1 DEF ListsApart, HoldTells, Holding
  <2>7. QED
    BY <1>2, <2>1, <2>2, <2>3, <2>4, <2>5, <2>6
<1>4. ASSUME crossed = {}, handler_type = "poll"
      PROVE  sePolled = UNION {Its(k) : k \in S!Client}
  <2>1. \A c : ~ Unpolled(c)
    BY <1>1 DEF Unpolled
  <2>2. QED
    BY <1>0, <1>4, <2>1 DEF PollsListed
<1>5. {c \in S!Conn : seMem[c] = "live"} = held \cup UNION {Its(k) : k \in S!Client}
  BY <1>0, <1>1, <1>2 DEF SessionTypes, ListsApart, HoldTells, Holding
<1>6. QED
  BY <1>3, <1>4, <1>5

\* A step is one of the sessions or leaves them.
LEMMA SessionsBehave == PartsSpec => S!Spec
<1>1. PartsInit => S!Init
  BY DEF PartsInit
<1>2. [PartsNext]_allVars => [S!Next]_(S!vars)
  <2>1. UNCHANGED sessionVars => UNCHANGED S!vars
    BY DEF sessionVars, S!vars, S!objects, S!tables, S!hold, S!receive, S!removal
  <2>2. QED
    BY <2>1 DEF PartsNext, OfHold, OfRegistry, OfAdmins, OfLobbies, OfSessions, allVars
<1>3. QED
  BY <1>1, <1>2, PTL DEF PartsSpec, S!Spec

\* The tree, the map, the poll array and the lists of the clients agree when
\* nothing is in the middle of an operation (auth.c, client.c), for any number
\* of connections and clients, threads of the thpool and session ids.
THEOREM PartsSessionsAgree == PartsSpec => []SessionsAgree
BY SessionInitHolds, SessionsKeep, SessionInvImplies, SessionsBehave, PTL DEF S!Spec

-----------------------------------------------------------------------------
(* The hash table that leads from descriptors and session ids to clients   *)

CONSTANTS Key, Value, NoValue, Buckets     \* see HashTable

VARIABLES buckets, count, bucketCount, tableCall

T == INSTANCE HashTable WITH Nil <- NoValue, Size <- Buckets, table <- buckets, call <- tableCall

Node == [key : Key, val : Value]
OneEach(s) == \A p, q \in 1 .. Len(s) : s[p].key = s[q].key => p = q
Keys == {k \in Key : T!Get(k) # NoValue}

\* A node is in the bucket of its key, a key has one node, and the counts are
\* those of the nodes and of the keys.
TableInv ==
    /\ DOMAIN buckets = T!Index
    /\ \A i \in T!Index :
           /\ buckets[i] \in Seq(Node) /\ OneEach(buckets[i])
           /\ \A p \in 1 .. Len(buckets[i]) : T!Hash(buckets[i][p].key) = i
    /\ DOMAIN bucketCount = T!Index /\ \A i \in T!Index : bucketCount[i] = Len(buckets[i])
    /\ IsFiniteSet(Keys) /\ count = Cardinality(Keys)

\* What htab_get and htab_remove find in one bucket.
NodeIn(s, k) == T!SelectInSeq(s, LAMBDA n : n.key = k)
ValueIn(s, k) == IF NodeIn(s, k) = 0 THEN NoValue ELSE s[NodeIn(s, k)].val

LEMMA NodeFound ==
  ASSUME NEW s \in Seq(Node), NEW k
  PROVE  \/ NodeIn(s, k) = 0 /\ \A p \in 1 .. Len(s) : s[p].key # k
         \/ NodeIn(s, k) \in 1 .. Len(s) /\ s[NodeIn(s, k)].key = k
<1> DEFINE J == {p \in 1 .. Len(s) : s[p].key = k}
<1>1. NodeIn(s, k) = IF J # {} THEN S!LowestOf(J) ELSE 0
  BY DEF NodeIn, T!SelectInSeq, T!Min, S!LowestOf
<1>2. J # {} => S!LowestOf(J) \in J
  <2>1. J \subseteq Nat
    OBVIOUS
  <2> HIDE DEF J
  <2>2. QED
    BY <2>1, SessionLowest
<1>3. QED
  BY <1>1, <1>2

\* The value of a key is that of the node that has it.
LEMMA ValueFound ==
  ASSUME NoValue \notin Value, NEW s \in Seq(Node), OneEach(s), NEW k
  PROVE  /\ \A p \in 1 .. Len(s) : s[p].key = k => ValueIn(s, k) = s[p].val
         /\ NodeIn(s, k) = 0 <=> \A p \in 1 .. Len(s) : s[p].key # k
         /\ ValueIn(s, k) = NoValue <=> NodeIn(s, k) = 0
<1>1. ASSUME NEW p \in 1 .. Len(s)  PROVE s[p].val \in Value /\ p # 0
  <2>1. s[p] \in Node
    OBVIOUS
  <2>2. QED
    BY <2>1 DEF Node
<1> DEFINE i == NodeIn(s, k)
<1>2. \/ i = 0 /\ \A p \in 1 .. Len(s) : s[p].key # k
      \/ i \in 1 .. Len(s) /\ s[i].key = k
  BY NodeFound
<1>3. ValueIn(s, k) = IF i = 0 THEN NoValue ELSE s[i].val
  BY DEF ValueIn
<1> HIDE DEF i
<1>4. ASSUME NEW p \in 1 .. Len(s), s[p].key = k  PROVE ValueIn(s, k) = s[p].val
  BY <1>1, <1>2, <1>3, <1>4 DEF OneEach
<1>5. i = 0 <=> \A p \in 1 .. Len(s) : s[p].key # k
  BY <1>1, <1>2
<1>6. ValueIn(s, k) = NoValue <=> i = 0
  BY <1>1, <1>2, <1>3
<1>7. QED
  BY <1>4, <1>5, <1>6 DEF i

\* A new node behind the others changes the value of its key only.
LEMMA NodeAppended ==
  ASSUME NoValue \notin Value, NEW s \in Seq(Node), OneEach(s), NEW k, NodeIn(s, k) = 0,
         NEW t \in Seq(Node), Len(t) = Len(s) + 1, t[Len(s) + 1].key = k,
         \A p \in 1 .. Len(s) : t[p] = s[p]
  PROVE  /\ OneEach(t)
         /\ \A p \in 1 .. Len(t) : t[p].key = k \/ \E q \in 1 .. Len(s) : t[p].key = s[q].key
         /\ ValueIn(t, k) = t[Len(s) + 1].val /\ \A j : j # k => ValueIn(t, j) = ValueIn(s, j)
<1>1. Len(s) \in Nat /\ Len(t) = Len(s) + 1 /\ t[Len(s) + 1].key = k /\ \A p \in 1 .. Len(s) : t[p] = s[p]
  OBVIOUS
<1>2. \A p \in 1 .. Len(s) : s[p].key # k
  BY ValueFound
<1>3. OneEach(t)
  BY <1>1, <1>2 DEF OneEach
<1>4. ASSUME NEW j
      PROVE  /\ \A p \in 1 .. Len(t) : t[p].key = j => ValueIn(t, j) = t[p].val
             /\ (\A p \in 1 .. Len(t) : t[p].key # j) => ValueIn(t, j) = NoValue
  BY <1>3, ValueFound
<1>5. ValueIn(t, k) = t[Len(s) + 1].val
  <2>1. Len(s) + 1 \in 1 .. Len(t)
    BY <1>1
  <2>2. QED
    BY <1>1, <1>4, <2>1
<1>6. ASSUME NEW j, j # k  PROVE ValueIn(t, j) = ValueIn(s, j)
  <2>1. CASE \E p \in 1 .. Len(s) : s[p].key = j
    <3>1. PICK p \in 1 .. Len(s) : s[p].key = j
      BY <2>1
    <3>2. p \in 1 .. Len(t) /\ t[p].key = j /\ t[p].val = s[p].val
      BY <1>1, <3>1
    <3>3. ValueIn(s, j) = s[p].val
      BY <3>1, ValueFound
    <3>4. ValueIn(t, j) = t[p].val
      BY <1>4, <3>2
    <3>5. QED
      BY <3>2, <3>3, <3>4
  <2>2. CASE \A p \in 1 .. Len(s) : s[p].key # j
    <3>1. \A p \in 1 .. Len(t) : t[p].key # j
      BY <1>1, <1>6, <2>2
    <3>2. ValueIn(s, j) = NoValue /\ ValueIn(t, j) = NoValue
      BY <1>4, <2>2, <3>1, ValueFound
    <3>3. QED
      BY <3>2
  <2>3. QED
    BY <2>1, <2>2
<1>7. \A p \in 1 .. Len(t) : t[p].key = k \/ \E q \in 1 .. Len(s) : t[p].key = s[q].key
  BY <1>1
<1>8. QED
  BY <1>3, <1>5, <1>6, <1>7

\* Without the node of a key, the key has no value and the others keep theirs.
LEMMA NodeRemoved ==
  ASSUME NoValue \notin Value, NEW s \in Seq(Node), OneEach(s), NEW k, NodeIn(s, k) # 0,
         NEW t, t = T!RemoveAt(s, NodeIn(s, k))
  PROVE  /\ t \in Seq(Node) /\ OneEach(t) /\ Len(t) = Len(s) - 1
         /\ \A p \in 1 .. Len(t) : \E q \in 1 .. Len(s) : t[p].key = s[q].key
         /\ ValueIn(t, k) = NoValue /\ \A j : j # k => ValueIn(t, j) = ValueIn(s, j)
<1> DEFINE i == NodeIn(s, k)
<1>1. i \in 1 .. Len(s) /\ s[i].key = k /\ Len(s) \in Nat
  BY NodeFound
<1>2. t = S!RemoveAt(s, i)
  BY DEF T!RemoveAt, S!RemoveAt
<1> HIDE DEF i
<1>3. /\ t \in Seq(Node) /\ Len(t) = Len(s) - 1
      /\ \A p \in 1 .. Len(s) - 1 : t[p] = IF p < i THEN s[p] ELSE s[p + 1]
  BY <1>1, <1>2, SessionWithoutOne
<1>4. \A p \in 1 .. Len(t) : \E q \in 1 .. Len(s) : q # i /\ t[p] = s[q]
  <2> TAKE p \in 1 .. Len(t)
  <2>1. CASE p < i
    BY <1>1, <1>3, <2>1
  <2>2. CASE ~ (p < i)
    <3>1. p + 1 \in 1 .. Len(s) /\ p + 1 # i /\ t[p] = s[p + 1]
      BY <1>1, <1>3, <2>2
    <3>2. QED
      BY <3>1
  <2>3. QED
    BY <2>1, <2>2
<1>5. \A q \in 1 .. Len(s) : q # i => \E p \in 1 .. Len(t) : t[p] = s[q]
  <2> TAKE q \in 1 .. Len(s)
  <2>1. CASE q < i
    BY <1>1, <1>3, <2>1
  <2>2. CASE q > i
    <3>1. q - 1 \in 1 .. Len(s) - 1 /\ ~ (q - 1 < i) /\ (q - 1) + 1 = q
      BY <1>1, <2>2
    <3>2. QED
      BY <1>3, <3>1
  <2>3. QED
    BY <1>1, <2>1, <2>2
<1>6. OneEach(t)
  <2> SUFFICES ASSUME NEW p \in 1 .. Len(t), NEW q \in 1 .. Len(t), t[p].key = t[q].key  PROVE p = q
    BY DEF OneEach
  <2> DEFINE a == IF p < i THEN p ELSE p + 1
             b == IF q < i THEN q ELSE q + 1
  <2>1. a \in 1 .. Len(s) /\ b \in 1 .. Len(s) /\ t[p] = s[a] /\ t[q] = s[b]
    BY <1>1, <1>3
  <2>2. a = b
    BY <2>1 DEF OneEach
  <2>3. QED
    BY <1>1, <1>3, <2>2
<1>7. ValueIn(t, k) = NoValue
  <2>1. \A p \in 1 .. Len(t) : t[p].key # k
    BY <1>1, <1>4 DEF OneEach
  <2>2. QED
    BY <1>3, <1>6, <2>1, ValueFound
<1>8. ASSUME NEW j, j # k  PROVE ValueIn(t, j) = ValueIn(s, j)
  <2>1. CASE \E q \in 1 .. Len(s) : s[q].key = j
    <3>1. PICK q \in 1 .. Len(s) : s[q].key = j
      BY <2>1
    <3>2. PICK p \in 1 .. Len(t) : t[p] = s[q]
      BY <1>1, <1>5, <1>8, <3>1
    <3>3. ValueIn(s, j) = s[q].val
      BY <3>1, ValueFound
    <3>4. ValueIn(t, j) = t[p].val
      BY <1>3, <1>6, <3>1, <3>2, ValueFound
    <3>5. QED
      BY <3>2, <3>3, <3>4
  <2>2. CASE \A q \in 1 .. Len(s) : s[q].key # j
    <3>1. \A p \in 1 .. Len(t) : t[p].key # j
      BY <1>4, <2>2
    <3>2. ValueIn(s, j) = NoValue /\ ValueIn(t, j) = NoValue
      BY <1>3, <1>6, <2>2, <3>1, ValueFound
    <3>3. QED
      BY <3>2
  <2>3. QED
    BY <2>1, <2>2
<1>9. QED
  BY <1>3, <1>4, <1>6, <1>7, <1>8

\* Get and NodeOf, of a state and of the next one, look into the bucket of the key.
LEMMA LooksInBucket ==
  ASSUME NEW k
  PROVE  /\ T!NodeOf(k) = NodeIn(buckets[T!Hash(k)], k) /\ T!Get(k) = ValueIn(buckets[T!Hash(k)], k)
         /\ T!Get(k)' = ValueIn(buckets'[T!Hash(k)], k)
<1>1. T!NodeOf(k) = NodeIn(buckets[T!Hash(k)], k) /\ T!NodeOf(k)' = NodeIn(buckets'[T!Hash(k)], k)
  BY DEF T!NodeOf, NodeIn, T!SelectInSeq
<1>2. QED
  BY <1>1 DEF T!Get, ValueIn

\* A step that changes the bucket of one key by one node of that key changes
\* what the table has for that key, and for no other.
LEMMA BucketChanges ==
  ASSUME NoValue \notin Value, \A k \in Key : T!Hash(k) \in T!Index,
         TableInv, NEW k \in Key, NEW t,
         buckets' = [buckets EXCEPT ![T!Hash(k)] = t],
         \A j : j # k => ValueIn(t, j) = ValueIn(buckets[T!Hash(k)], j)
  PROVE  /\ T!Get(k)' = ValueIn(t, k)
         /\ \A j \in Key : j # k => T!Get(j)' = T!Get(j)
<1>1. DOMAIN buckets = T!Index /\ T!Hash(k) \in T!Index
  BY DEF TableInv
<1>2. T!Get(k)' = ValueIn(t, k)
  BY <1>1, LooksInBucket
<1>3. ASSUME NEW j \in Key, j # k  PROVE T!Get(j)' = T!Get(j)
  <2>1. T!Get(j)' = ValueIn(buckets'[T!Hash(j)], j) /\ T!Get(j) = ValueIn(buckets[T!Hash(j)], j)
    BY LooksInBucket
  <2>2. CASE T!Hash(j) = T!Hash(k)
    BY <1>1, <1>3, <2>1, <2>2
  <2>3. CASE T!Hash(j) # T!Hash(k)
    <3>1. buckets'[T!Hash(j)] = buckets[T!Hash(j)]
      BY <1>1, <2>3
    <3>2. QED
      BY <2>1, <3>1
  <2>4. QED
    BY <2>2, <2>3
<1>4. QED
  BY <1>2, <1>3

\* A key that is inserted was not there and is there with its value, or it
\* was and nothing changes.
LEMMA TableInserts ==
  ASSUME NoValue \notin Value, \A k \in Key : T!Hash(k) \in T!Index,
         TableInv, NEW k \in Key, NEW v \in Value, T!InsertKey(k, v)
  PROVE  /\ TableInv'
         /\ tableCall' = <<"htab_insert", k, IF T!Get(k) = NoValue THEN 0 ELSE 1>>
         /\ T!Get(k)' = IF T!Get(k) = NoValue THEN v ELSE T!Get(k)
         /\ \A j \in Key : j # k => T!Get(j)' = T!Get(j)
<1> DEFINE i == T!Hash(k)
           s == buckets[i]
           t == Append(s, [key |-> k, val |-> v])
<1>1. i \in T!Index /\ DOMAIN buckets = T!Index /\ s \in Seq(Node) /\ OneEach(s)
      /\ \A p \in 1 .. Len(s) : T!Hash(s[p].key) = i
  BY DEF TableInv
<1>2. T!NodeOf(k) = NodeIn(s, k) /\ T!Get(k) = ValueIn(s, k)
  BY LooksInBucket
<1>3. T!Get(k) = NoValue <=> T!NodeOf(k) = 0
  BY <1>1, <1>2, ValueFound
<1>4. CASE T!NodeOf(k) # 0
  <2>1. s[T!NodeOf(k)].key = k
    BY <1>1, <1>2, <1>4, NodeFound
  <2>2. /\ tableCall' = <<"htab_insert", k, 1>>
        /\ UNCHANGED <<buckets, count, bucketCount>>
    BY <1>4, <2>1 DEF T!InsertKey
  <2>3. \A j : T!Get(j)' = T!Get(j)
    BY <2>2, LooksInBucket
  <2>4. TableInv'
    BY <2>2, <2>3 DEF TableInv, Keys
  <2>5. QED
    BY <1>3, <1>4, <2>2, <2>3, <2>4
<1>5. CASE T!NodeOf(k) = 0
  <2>1. Len(s) = 0 \/ s[Len(s)].key # k
    <3>0. NodeIn(s, k) = 0
      BY <1>2, <1>5
    <3> HIDE DEF s
    <3>1. Len(s) \in Nat /\ \A p \in 1 .. Len(s) : s[p].key # k
      BY <1>1, <3>0, ValueFound
    <3>2. Len(s) = 0 \/ Len(s) \in 1 .. Len(s)
      BY <3>1
    <3>3. QED
      BY <3>1, <3>2
  <2>2. /\ tableCall' = <<"htab_insert", k, 0>> /\ buckets' = [buckets EXCEPT ![i] = t]
        /\ count' = count + 1 /\ bucketCount' = [bucketCount EXCEPT ![i] = @ + 1]
    BY <1>5, <2>1 DEF T!InsertKey
  <2>3. /\ t \in Seq(Node) /\ OneEach(t) /\ Len(t) = Len(s) + 1
        /\ \A p \in 1 .. Len(t) : t[p].key = k \/ \E q \in 1 .. Len(s) : t[p].key = s[q].key
        /\ ValueIn(t, k) = v /\ \A j : j # k => ValueIn(t, j) = ValueIn(s, j)
    <3> DEFINE n == [key |-> k, val |-> v]
    <3>1. NodeIn(s, k) = 0 /\ t = Append(s, n) /\ n \in Node /\ n.key = k /\ n.val = v
      BY <1>2, <1>5 DEF Node
    <3> HIDE DEF s, t, n
    <3>2. /\ t \in Seq(Node) /\ Len(t) = Len(s) + 1 /\ t[Len(s) + 1] = n
          /\ \A p \in 1 .. Len(s) : t[p] = s[p]
      BY <1>1, <3>1
    <3>3. s \in Seq(Node) /\ OneEach(s) /\ NodeIn(s, k) = 0 /\ t[Len(s) + 1].key = k
      BY <1>1, <3>1, <3>2
    <3>4. OneEach(t)
      BY <3>2, <3>3, NodeAppended
    <3>5. \A p \in 1 .. Len(t) : t[p].key = k \/ \E q \in 1 .. Len(s) : t[p].key = s[q].key
      BY <3>2, <3>3, NodeAppended
    <3>6. ValueIn(t, k) = t[Len(s) + 1].val
      BY <3>2, <3>3, NodeAppended
    <3>7. \A j : j # k => ValueIn(t, j) = ValueIn(s, j)
      BY <3>2, <3>3, NodeAppended
    <3>8. QED
      BY <3>1, <3>2, <3>4, <3>5, <3>6, <3>7
  <2> HIDE DEF t
  <2>4. T!Get(k)' = v /\ \A j \in Key : j # k => T!Get(j)' = T!Get(j)
    BY <2>2, <2>3, BucketChanges
  <2>5. \A p \in 1 .. Len(t) : T!Hash(t[p].key) = i
    BY <1>1, <2>3
  <2>6. IsFiniteSet(Keys)' /\ (count = Cardinality(Keys))'
    <3>1. Keys' = Keys \cup {k} /\ k \notin Keys
      BY <1>3, <1>5, <2>4 DEF Keys
    <3>2. IsFiniteSet(Keys) /\ count = Cardinality(Keys)
      BY DEF TableInv
    <3> HIDE DEF Keys
    <3>3. IsFiniteSet(Keys \cup {k}) /\ Cardinality(Keys \cup {k}) = Cardinality(Keys) + 1
      BY <3>1, <3>2, FS_AddElement
    <3>4. QED
      BY <2>2, <3>1, <3>2, <3>3
  <2>7. TableInv'
    <3>1. ASSUME NEW x \in T!Index
          PROVE  /\ buckets'[x] \in Seq(Node) /\ OneEach(buckets'[x]) /\ bucketCount'[x] = Len(buckets'[x])
                 /\ \A p \in 1 .. Len(buckets'[x]) : T!Hash(buckets'[x][p].key) = x
      <4>0. bucketCount[x] = Len(buckets[x]) /\ DOMAIN bucketCount = T!Index
        BY DEF TableInv
      <4>1. CASE x = i
        <5>1. buckets'[x] = t /\ bucketCount'[x] = Len(s) + 1
          BY <1>1, <2>2, <4>0, <4>1
        <5>2. QED
          BY <2>3, <2>5, <4>1, <5>1
      <4>2. CASE x # i
        <5>1. buckets'[x] = buckets[x] /\ bucketCount'[x] = bucketCount[x]
          BY <1>1, <2>2, <4>0, <4>2
        <5>2. QED
          BY <4>0, <5>1 DEF TableInv
      <4>3. QED
        BY <4>1, <4>2
    <3>2. DOMAIN buckets' = T!Index /\ DOMAIN bucketCount' = T!Index
      BY <2>2 DEF TableInv
    <3>3. QED
      BY <2>6, <3>1, <3>2 DEF TableInv, OneEach
  <2>8. QED
    BY <1>3, <1>5, <2>2, <2>4, <2>7
<1>6. QED
  BY <1>4, <1>5

\* What is left of a bucket without the node of a key keeps the invariant.
LEMMA TableRemoves ==
  ASSUME NoValue \notin Value, \A k \in Key : T!Hash(k) \in T!Index,
         TableInv, NEW k \in Key, T!RemoveKey(k)
  PROVE  /\ TableInv'
         /\ tableCall' = <<"htab_remove", k, T!Get(k)>>
         /\ T!Get(k)' = NoValue
         /\ \A j \in Key : j # k => T!Get(j)' = T!Get(j)
<1> DEFINE i == T!Hash(k)
           s == buckets[i]
           t == T!RemoveAt(s, NodeIn(s, k))
<1>1. i \in T!Index /\ DOMAIN buckets = T!Index /\ s \in Seq(Node) /\ OneEach(s)
      /\ \A p \in 1 .. Len(s) : T!Hash(s[p].key) = i
  BY DEF TableInv
<1>2. T!NodeOf(k) = NodeIn(s, k) /\ T!Get(k) = ValueIn(s, k)
  BY LooksInBucket
<1>3. T!Get(k) = NoValue <=> T!NodeOf(k) = 0
  BY <1>1, <1>2, ValueFound
<1>4. CASE T!NodeOf(k) = 0
  <2>1. UNCHANGED <<buckets, count, bucketCount>> /\ tableCall' = <<"htab_remove", k, T!Get(k)>>
    BY <1>4 DEF T!RemoveKey
  <2>2. \A j : T!Get(j)' = T!Get(j)
    BY <2>1, LooksInBucket
  <2>3. TableInv'
    BY <2>1, <2>2 DEF TableInv, Keys
  <2>4. QED
    BY <1>3, <1>4, <2>1, <2>2, <2>3
<1>5. CASE T!NodeOf(k) # 0
  <2>1. /\ tableCall' = <<"htab_remove", k, T!Get(k)>> /\ buckets' = [buckets EXCEPT ![i] = t]
        /\ count' = count - 1 /\ bucketCount' = [bucketCount EXCEPT ![i] = @ - 1]
    BY <1>2, <1>5 DEF T!RemoveKey
  <2>2. /\ t \in Seq(Node) /\ OneEach(t) /\ Len(t) = Len(s) - 1
        /\ \A p \in 1 .. Len(t) : \E q \in 1 .. Len(s) : t[p].key = s[q].key
        /\ ValueIn(t, k) = NoValue /\ \A j : j # k => ValueIn(t, j) = ValueIn(s, j)
    <3>1. NodeIn(s, k) # 0 /\ t = T!RemoveAt(s, NodeIn(s, k))
      BY <1>2, <1>5
    <3> HIDE DEF s, t
    <3>2. QED
      BY <1>1, <3>1, NodeRemoved
  <2> HIDE DEF t
  <2>3. T!Get(k)' = NoValue /\ \A j \in Key : j # k => T!Get(j)' = T!Get(j)
    BY <2>1, <2>2, BucketChanges
  <2>4. \A p \in 1 .. Len(t) : T!Hash(t[p].key) = i
    BY <1>1, <2>2
  <2>5. IsFiniteSet(Keys)' /\ (count = Cardinality(Keys))'
    <3>1. Keys' = Keys \ {k} /\ k \in Keys
      BY <1>3, <1>5, <2>3 DEF Keys
    <3>2. IsFiniteSet(Keys) /\ count = Cardinality(Keys)
      BY DEF TableInv
    <3> HIDE DEF Keys
    <3>3. IsFiniteSet(Keys \ {k}) /\ Cardinality(Keys \ {k}) = Cardinality(Keys) - 1
      BY <3>1, <3>2, FS_RemoveElement
    <3>4. QED
      BY <2>1, <3>1, <3>2, <3>3
  <2>6. TableInv'
    <3>1. ASSUME NEW x \in T!Index
          PROVE  /\ buckets'[x] \in Seq(Node) /\ OneEach(buckets'[x]) /\ bucketCount'[x] = Len(buckets'[x])
                 /\ \A p \in 1 .. Len(buckets'[x]) : T!Hash(buckets'[x][p].key) = x
      <4>0. bucketCount[x] = Len(buckets[x]) /\ DOMAIN bucketCount = T!Index
        BY DEF TableInv
      <4>1. CASE x = i
        <5>1. buckets'[x] = t /\ bucketCount'[x] = Len(s) - 1
          BY <1>1, <2>1, <4>0, <4>1
        <5>2. QED
          BY <2>2, <2>4, <4>1, <5>1
      <4>2. CASE x # i
        <5>1. buckets'[x] = buckets[x] /\ bucketCount'[x] = bucketCount[x]
          BY <1>1, <2>1, <4>0, <4>2
        <5>2. QED
          BY <4>0, <5>1 DEF TableInv
      <4>3. QED
        BY <4>1, <4>2
    <3>2. DOMAIN buckets' = T!Index /\ DOMAIN bucketCount' = T!Index
      BY <2>1 DEF TableInv
    <3>3. QED
      BY <2>5, <3>1, <3>2 DEF TableInv, OneEach
  <2>7. QED
    BY <2>1, <2>3, <2>6
<1>6. QED
  BY <1>4, <1>5

\* A table just made has no keys.
LEMMA TableBegins ==
  ASSUME NoValue \notin Value, \A k \in Key : T!Hash(k) \in T!Index, T!Init
  PROVE  TableInv /\ \A k \in Key : T!Get(k) = NoValue
<1>1. /\ DOMAIN buckets = T!Index /\ DOMAIN bucketCount = T!Index /\ count = 0
      /\ \A i \in T!Index : buckets[i] = <<>> /\ bucketCount[i] = 0
  BY DEF T!Init
<1>2. <<>> \in Seq(Node) /\ OneEach(<<>>) /\ Len(<<>>) = 0
  BY DEF OneEach
<1>3. \A k \in Key : T!Get(k) = NoValue
  <2> TAKE k \in Key
  <2>1. T!Get(k) = ValueIn(<<>>, k)
    BY <1>1, LooksInBucket
  <2> DEFINE s == <<>>
  <2>2. s \in Seq(Node) /\ OneEach(s) /\ \A p \in 1 .. Len(s) : s[p].key # k
    BY <1>2
  <2> HIDE DEF s
  <2>3. ValueIn(s, k) = NoValue
    BY <2>2, ValueFound
  <2>4. QED
    BY <2>1, <2>3 DEF s
<1>4. Keys = {}
  BY <1>3 DEF Keys
<1>5. IsFiniteSet(Keys) /\ count = Cardinality(Keys)
  BY <1>1, <1>4, FS_EmptySet
<1>6. ASSUME NEW i \in T!Index
      PROVE  /\ buckets[i] \in Seq(Node) /\ OneEach(buckets[i]) /\ bucketCount[i] = Len(buckets[i])
             /\ \A p \in 1 .. Len(buckets[i]) : T!Hash(buckets[i][p].key) = i
  <2>1. buckets[i] = <<>> /\ bucketCount[i] = 0
    BY <1>1, <1>6
  <2>2. \A p \in 1 .. Len(<<>>) : FALSE
    BY <1>2
  <2>3. QED
    BY <1>2, <2>1, <2>2
<1>7. QED
  BY <1>1, <1>3, <1>5, <1>6 DEF TableInv

\* The three calls that only look.
LEMMA TableLooks ==
  ASSUME TableInv, UNCHANGED <<buckets, count, bucketCount>>
  PROVE  TableInv' /\ \A k \in Key : T!Get(k)' = T!Get(k)
<1>1. \A k : T!Get(k)' = T!Get(k)
  BY LooksInBucket
<1>2. QED
  BY <1>1 DEF TableInv, Keys

\* htab.c implements the dictionary, whatever keys meet in a bucket: a node is
\* found under its key only, a key has one node, and the count is that of the
\* keys.  The hash of a key, a sum modulo the number of buckets, is assumed to
\* be one of the buckets.
THEOREM TableImplements ==
  ASSUME NoValue \notin Value, \A k \in Key : T!Hash(k) \in T!Index
  PROVE  T!Spec => []TableInv /\ T!D!Spec
<1> DEFINE m == [k \in Key |-> T!Get(k)]
<1>1. T!Init => TableInv /\ T!D!Init
  <2>1. T!Init => TableInv /\ \A k \in Key : T!Get(k) = NoValue
    BY TableBegins
  <2>2. QED
    BY <2>1 DEF T!Init, T!D!Init
<1>2. ASSUME TableInv, [T!Next]_(T!tableVars)
      PROVE  TableInv' /\ [T!D!Next]_<<m, tableCall>>
  <2>1. ASSUME NEW k \in Key, NEW v \in Value, T!InsertKey(k, v)
        PROVE  TableInv' /\ T!D!Insert(k, v)
    <3>1. /\ TableInv'
          /\ tableCall' = <<"htab_insert", k, IF T!Get(k) = NoValue THEN 0 ELSE 1>>
          /\ T!Get(k)' = IF T!Get(k) = NoValue THEN v ELSE T!Get(k)
          /\ \A j \in Key : j # k => T!Get(j)' = T!Get(j)
      BY <1>2, <2>1, TableInserts
    <3>2. m' = IF m[k] = NoValue THEN [m EXCEPT ![k] = v] ELSE m
      BY <3>1
    <3>3. QED
      BY <3>1, <3>2 DEF T!D!Insert
  <2>2. ASSUME NEW k \in Key, T!RemoveKey(k)
        PROVE  TableInv' /\ T!D!Remove(k)
    <3>1. /\ TableInv' /\ tableCall' = <<"htab_remove", k, T!Get(k)>> /\ T!Get(k)' = NoValue
          /\ \A j \in Key : j # k => T!Get(j)' = T!Get(j)
      BY <1>2, <2>2, TableRemoves
    <3>2. m' = [m EXCEPT ![k] = NoValue]
      BY <3>1
    <3>3. QED
      BY <3>1, <3>2 DEF T!D!Remove
  <2>3. ASSUME NEW k \in Key, T!ContainsKey(k)
        PROVE  TableInv' /\ T!D!Contains(k)
    <3>1. TableInv' /\ m' = m
      BY <1>2, <2>3, TableLooks DEF T!ContainsKey
    <3>2. T!Get(k) = NoValue <=> T!NodeOf(k) = 0
      <4>1. buckets[T!Hash(k)] \in Seq(Node) /\ OneEach(buckets[T!Hash(k)])
        BY <1>2 DEF TableInv
      <4>2. QED
        BY <4>1, LooksInBucket, ValueFound
    <3>3. QED
      BY <2>3, <3>1, <3>2 DEF T!ContainsKey, T!D!Contains
  <2>4. ASSUME NEW k \in Key, T!GetKey(k)
        PROVE  TableInv' /\ T!D!Get(k)
    <3>1. TableInv' /\ m' = m
      BY <1>2, <2>4, TableLooks DEF T!GetKey
    <3>2. QED
      BY <2>4, <3>1 DEF T!GetKey, T!D!Get
  <2>5. ASSUME T!CountKeys
        PROVE  TableInv' /\ T!D!Count
    <3>1. TableInv' /\ m' = m
      BY <1>2, <2>5, TableLooks DEF T!CountKeys
    <3>2. {k \in Key : m[k] # NoValue} = Keys /\ count = Cardinality(Keys)
      BY <1>2 DEF TableInv, Keys
    <3>3. tableCall' = <<"htab_size", Cardinality({k \in Key : m[k] # NoValue})>>
      BY <2>5, <3>2 DEF T!CountKeys
    <3>4. \A W : T!D!Cardinality(W) = Cardinality(W)
      BY DEF T!D!Cardinality, Cardinality
    <3>5. QED
      BY <3>1, <3>3, <3>4 DEF T!D!Count
  <2>6. CASE UNCHANGED T!tableVars
    <3>1. TableInv' /\ m' = m
      BY <1>2, <2>6, TableLooks DEF T!tableVars
    <3>2. QED
      BY <2>6, <3>1 DEF T!tableVars
  <2>7. QED
    BY <1>2, <2>1, <2>2, <2>3, <2>4, <2>5, <2>6 DEF T!Next, T!D!Next
<1>3. QED
  BY <1>1, <1>2, PTL DEF T!Spec, T!D!Spec
=============================================================================
