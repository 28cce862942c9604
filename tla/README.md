# A verification of cerver

cerver is a C framework for TCP servers.  A cerver accepts connections, keeps
clients, cuts the bytes it receives into packets, hands packets to handlers
that run in thread pools, worker threads or the thread that received them, can
keep new connections on hold until they authenticate, and has admins and lobbies
of players.  The same library has the client side of all this.  This directory
has TLA+ models of the parts of it where threads meet, TLC configurations that
check them on small instances, and proofs for TLAPS of what holds for every
instance.  `PROJECT.json` relates each definition to the lines it models, lists
the runs, the hazards of the code, the disagreements that were found and the
theorems.

Paths below are relative to `src/src/cerver/` unless they say more.

## 1. The system

### Threads

A running cerver has: the main thread in `cerver_start ()`, which becomes the
poll thread (`cerver_poll ()`); optionally the threads of one thpool; one
thread per handler with a queue; a thread for the connections on hold; one for
the poll array of the admins; one for each lobby that was started; the update
threads; and threads of the application that call into it.  A client has an
update thread and perhaps a send thread for each connection.  Nearly every
structure has a mutex of its own and nearly no operation holds two of them, so
that each structure is consistent and the relations between structures are where
things go wrong.

### Components

| component | state | operations | meets | hard part | what makes it correct |
|---|---|---|---|---|---|
| binary semaphore (`threads/bsem.c`) | `v`, mutex, condition | wait, post, post all, reset | every queue | a post between mutex and condition | no post is lost on a sleeper; one token, one wait |
| job queue (`threads/jobs.c`) | list of jobs, `has_jobs`, pool of free handlers, id requested | push, pull, request by id, wait for an answer, start, stop | thpool, worker, handlers | one token stands for many jobs | while a job waits somebody is on the way to it; a caller gets its own answer |
| thpool (`threads/thpool.c`) | two counters, `keep_alive`, the queue | create, init, add work, wait, destroy | cerver, lobbies, application | counters against semaphore against queue | each job once; wait is sound and ends; destroy ends |
| worker (`threads/worker.c`) | `state`, `stop`, `end`, a queue | start, stop, resume, end, push | application | requests cross with the posts of jobs | order of jobs; a stopped worker is idle; calls end |
| collections | lists, trees, tables, pools | insert, remove, sort, look up | everything | links, balances, buckets; calls without the mutex | the reference data type |
| packet framing (`handler.c` 1372-1860, `client.c` 3359-3778) | `ReceiveHandle`: state, split header, spare packet, sizes | one buffer of recv | handlers, auth | any cut of the stream | every packet once, in order, whole |
| packets (`packets.c`) | header, data, sizes, buffers that may be references | create, fill, generate, send, check, handle, delete | everything | who owns a buffer; short sends; shared sockets | no buffer is overrun or freed twice; packets are not mixed; each is counted and deleted once |
| files (`files.c`) | paths, a transfer | search, receive, send | handlers | partial transfer | a file is whole and ends where it should |
| poll loop and registry (`handler.c`, `client.c`) | poll array, map fd to client, tree of clients | accept, register, look up, remove, drop | kernel, thpool, framing | three structures, three locks; reuse of descriptors | the structures agree; the owner of a descriptor closes it |
| connections (`connection.c`) | socket, flags, counters, receive handle | create, register, start, update, send, end, delete | registry, on hold, client | deletion while used | freed means closed, nothing freed is reachable |
| auth and on hold (`auth.c`) | poll array, map and tree of held connections, tries, bad packets | hold, auth, unhold, drop | poll thread, admins | two threads change one array | one thread owns a connection; limits hold |
| sessions (`sessions.c`) | ids and tokens of clients | generate, look up | auth | the client of a token may be dropped meanwhile | a token leads to a live client |
| handlers (`handler.c` 179-1100) | threads, counts of the alive and the working, a queue each | start, push, end | cerver, worker | shared counters | start and end come back |
| admins (`admin.c`) | list, poll array and its count | authenticate, join, register, drop, broadcast | on hold thread, application | list and array have a mutex each | list, array and memory agree |
| cerver lifecycle (`cerver.c`) | `isRunning`, all of the above | init, start, shutdown, teardown | everything | what is deleted while threads run | a half started cerver does not poll; teardown ends and so do the threads |
| client side (`client.c`, `connection.c`) | connections, update and send threads, handlers | connect, start, request, end, teardown | a cerver | threads wait for flags of each other | nothing is used after its deletion; calls return; sends keep their order |
| events, errors | registered actions | register, unregister, trigger | everything | an action may run in its own thread and drop itself | arguments are deleted once |
| game (`game/`) | lobbies, players, a poll array and thread per lobby | create, join, start, leave, tear down | registry | players move between poll arrays | counts, ids and arrays agree; a player is polled once |
| utilities | none | base64, sha-256, strings, logs | everything | widths | the reference function |

### How they interact

`cerver_poll ()` walks over the poll array.  Index 0 is the listening socket:
`cerver_accept ()` runs inline or as a job of the thpool.  Every other slot
leads through the map to a client and a connection; `recv ()` fills a buffer,
`cerver_receive_handle_buffer ()` cuts it into packets and calls a handler for
each: inline, or by pushing a job to the queue of a handler, worker or thpool.
A handler may close the connection or drop the client, and the code above it on
the stack has to notice.  A cerver that requires auth puts a connection into a
second poll array, served by a second thread, until it has authenticated: then it
moves to the main array, or to the third one, that of the admins.  A lobby that
is started takes its players out of the main array into one of its own.  A client
that connects has no poll array: each of its connections has a thread that
receives, and calls the same kinds of handlers.

## 2. The modules

| module | models | shown against |
|---|---|---|
| `BinarySemaphore` | what a binary semaphore promises | the abstract specification of `Bsem` |
| `Bsem` | `threads/bsem.c` | implements `BinarySemaphore` |
| `JobQueue` | push and pull of `threads/jobs.c`, the semaphore as one bit | composed into `Thpool`, `Worker` and `JobHandlers` |
| `JobHandlers` | handlers of `threads/jobs.c` with the pool of `collections/pool.c` | safety and liveness |
| `JobRequests` | jobs with an id, `job_queue_request ()` | safety and liveness |
| `JobPool` | what `threads/thpool.h` promises | the abstract specification of `Thpool` |
| `Thpool` | `threads/thpool.c` | implements `JobPool` |
| `Worker` | `threads/worker.c` | safety and liveness |
| `SequenceLists` | what `collections/dlist.h` promises | the abstract specification of `DoubleList` |
| `DoubleList` | `collections/dlist.c` down to the links | implements `SequenceLists` |
| `SearchTree` | `collections/avl.c` with its balances | a set of ids |
| `Dictionary` | what a table promises | the abstract specification of `HashTable` |
| `HashTable` | `collections/htab.c` with its buckets | implements `Dictionary` |
| `ReceiveBuffer` | the framing of `handler.c` | safety |
| `PacketData` | the buffers of a `Packet` in `packets.c` | safety |
| `PacketSend` | every way of sending a packet, `packets.c` and `files.c` | safety |
| `PacketHandlers` | what cerver, client and admins do with a received packet | accounting |
| `FileReceive` | `file_receive_actual ()` of `files.c` | safety |
| `Registry` | accept, register, walk and removal of `handler.c`, `client.c`, `connection.c` | agreement of structures |
| `OnHold` | `auth.c` and what the poll thread does with connections on hold | ownership and limits |
| `Sessions` | clients with several connections, auth by token, and both handler types (`auth.c`, `client.c`, `sessions.c`, `handler.c`) | agreement of structures |
| `Admins` | `admin.c` and the authentication of admins in `auth.c` | agreement of structures |
| `Lobbies` | `game/game.c`, `game/lobby.c`, `game/player.c` | agreement of structures |
| `Handlers` | the packet handlers (`handler.c`) and the part of start and teardown (`cerver.c`) that concerns them | safety and liveness |
| `Lifecycle` | start, detached threads, shutdown and teardown (`cerver.c`, `admin.c`) | safety and liveness |
| `ClientSide` | `client.c` and `connection.c` on the side that connects | safety and liveness |
| `Events` | the four tables of `events.c`, `errors.c` and `client.c` | safety |
| `Threads` | `Worker`, `JobHandlers`, `JobRequests` and `Bsem`, each on its own | a sum |
| `Serving` | `Handlers` and `Lifecycle`, each on its own | a sum |
| `Packets` | `ReceiveBuffer`, `PacketHandlers`, `PacketData`, `PacketSend` and `FileReceive`, each on its own | a sum |
| `Tables` | `OnHold`, `Registry`, `Sessions`, `Admins` and `Lobbies`, each on its own | a sum |
| `Connecting` | `ClientSide` and `Events`, each on its own | a sum |
| `*_proofs` | theorems about `Thpool`, `Registry`, `Threads`, `Handlers` with `Serving`, `OnHold` and `Sessions` with `Tables`, `Packets`, `Connecting`, and `HashTable` | |
| `MC*` | small instances | |

Definitions that start with the comment `Fault:` are no part of any next-state
relation.  Each is an action as a plausible mistake in the code would make it,
and it violates the property it was written for; `PROJECT.json` pairs them.

Most modules have a state `crashed`: memory was used that had been freed, or the
null pointer.  What the process does then is not modelled, and nothing more
happens.  Where the code
has that fault the properties hold up to there, and say so.

**Bsem.**  Each pthread call that blocks is a step: the mutex (`owner`), the set
of threads in `pthread_cond_wait` (`sleeping`), and a program counter per
thread.  A woken waiter competes for the mutex with everybody else, so a post or
another wait can come in between.  `bsem_reset` is called where nobody waits.

**JobQueue** has the list (`queue`), the mutex of the list (`rwmutex`) and the
value of the semaphore (`has_jobs`), which `Bsem` justifies.  `PushInsert` and
`PostAndUnlock` are the halves of a push: the lock is held in between, but a
thread that has already passed `bsem_wait` can see the rest of the state.
`PullEmpty`, `PullOnly` and `PullFirst` are the three cases of
`job_queue_pull ()`; only the last posts again.

**JobHandlers** adds the pool from which a caller takes a handler: `pool_push ()`
reads the end of its list outside the lock (`seen`), and the element may be gone
when it is inserted after.  A caller waits on the condition of its handler; the
method of the queue answers it and signals.  **JobRequests** takes the critical
sections of `rwmutex` as steps.  `overlap` and `repeat` are histories of the two
uses that the one place for a request does not allow.

**Thpool.**  Each thread of the pool goes through `thread_do ()`, each critical
section of `thpool->mutex` is a step unless something visible happens inside
it; `keep_alive` and, in `thpool_init` and `thpool_destroy`, the counters are
read without the lock, as in the code.  `Unlucky` are the threads that
`pthread_create` may refuse.  `owed` is a history variable: what had been
accepted when a client called `thpool_wait`.

**Worker.**  The thread reads the published state, then the two requests; it
clears `stop` in a step after the one that publishes `STOPPED`.  The owner makes
one call at a time, the clients push whenever they want.  The use of the worker
after its deletion is the action `UseFreed`.

**Collections.**  A call that holds the mutex of its list, tree or table is one step;
what is modelled is what it does to the links.  Several calls of `dlist.c` hold none:
the searches, the reads by position, the walk of `dlist_insert_at ()` and both merges.
In `DoubleList` such a call enters its lists in one step (`Enter`) and does what it
does in a later one (`Leave`, `LeaveRead`), and other threads may make calls in
between.  When one of those changes the same list, the flag `overlapped` is set and
nothing more is modelled, because the walk may then follow the links of an element
that was freed: that is a fault of the code, and what the properties say holds up to
there.  An overlapping change is noticed whichever of the two began first.  `spoiled`
has the lists that `dlist_sort ()`, `dlist_merge_two ()`, `dlist_split_half ()` and
`dlist_insert_after ()` have returned with a wrong link: such a list is still walked
over from its start.  `dlist_insert_at ()` at the position of the size inserts at the
start, against `dlist.h`; `SequenceLists` says what `dlist.h` says, the run that shows
agreement does not ask for that position (`AtSize = FALSE`), and with it
`Implements` fails in the first calls.
`SearchTree` is used by one thread: `avl_get_node_data ()` holds no mutex, and what it
meets while the tree is changed is not modelled.  It keeps the balance of each node as
the code leaves it, also after a removal that does not fix it; `Crashed` is the fix of
a node that is not there.

**ReceiveBuffer.**  A byte is its offset in the stream, so that a header or a
packet is a range of offsets with a flag that tells whether it was copied
without a gap.  `packet_size` is any member of `PacketSize`, chosen when the
code reads it, because the peer chooses it.  Arithmetic on
`remaining_buffer_size` is on integers: a negative value is where the `size_t`
of the code has wrapped, and `RemainingExact` says that no such value is read.
`client_receive_handle_buffer ()` (`client.c` 3359-3778) is the same code with
other names.  A packet that is whole in the buffer is deleted by its handler, or by
the thread that the handler gives it to, and its size is read afterwards
(`handler.c:1596`).  Two actions are the two outcomes: `WholePacket`, the memory still
holds the size, and `WholePacketReused`, it was used again, after which the loop is
`astray` and nothing more is modelled.

**Packets and files.**  In `PacketData` a buffer is a number with a size and an
owner, and a copy is what it writes where.  `PacketSend` describes the six ways of
sending by what they lock, send, sum up and report, and runs them with `send ()`
that takes any part or fails.  `PacketHandlers` follows each packet from the
counter to its deletion.  With `check_packets` the version is copied from
`data_ptr`, which nothing sets in a packet that was received: with data the process
crashes (`CopyVersion`), and without data the packet is refused and never deleted
(`NoVersion`).  In `FileReceive` a byte is its number in the stream and
`splice ()` moves any part of what it is asked to.

**Registry.**  The kernel (`open`: descriptor to connection; `peer`: whether the
other end is there), memory (`mem`), and the poll array, the map and the tree
each change in steps of their own, because no lock covers two of them.  The
kernel gives the lowest free descriptor to the next connection, as POSIX says.
`Garbage` is what `realloc` may leave in the new half of the poll array, whose
initialisation loop compares where it should assign.  Clients may ask for the end of
their connection (`Asks`): the receive handle is part of the connection, and the
loop reads it after the packet was handled (`handler.c:1675`), so such a request may
crash the process (`ClosedIsRead` for a connection that is closed, the last step of a
drop for a client that disconnects).  A descriptor without a client is closed, and
what is left of the receive has no socket, which is read if `poll ()` had reported
data (`RogueIsRead`).

**OnHold.**  Two threads, one array without a lock, one map with a lock.  The
main structures are abstracted to a set of connections.  The tree of the
connections on hold is left out; it is written before the map, and a connection that
the map refuses is freed and stays in the tree (`auth.c:1020`), which no property
here sees.  `on_hold_check_packets` is off: with it every packet with data crashes
the process, as in `PacketHandlers`.  A connection that is dropped while its packet
is handled has its receive handle freed under the loop that goes on with it.

**Sessions.**  What a connection does after its auth has succeeded, with a new
client or as one more connection of the client whose session id it sent, until
it is removed.  With `CERVER_HANDLER_TYPE_POLL` the poll thread receives from all
connections; with `CERVER_HANDLER_TYPE_THREADS` each has a thread, which runs in
the thpool as long as `thpool_is_full ()` says that one is left.  A descriptor is
named by its connection, so that its number is never used again; but a `Socket`
goes back to the pool of sockets and to the next connection, while the thread of
the old one may still read it (`holder`).  Session ids are what the generator may
return, equal ones included.  `crossed` is a history: the clients whose removal
overlapped with a registration or a join of the thread of those on hold.  What
remains of such a client does not agree, and `SessionsAgree` excepts it; it says
that nothing else is spoiled.

**Admins.**  Three threads: the one of the connections on hold authenticates and
registers, the admin poll thread walks, receives and removes, and one of the
user broadcasts.  The array and the list have a mutex each, so an operation on
one of them is a step.  `dlist_remove ()` finds an admin by its id, which is made
of the time and a random number: `Id` is what it may be.  `confused` says that an
admin was closed while it was registered, was joined while it was dropped, or
that another one was taken out of the list; what is left then does not agree.

**Lobbies.**  All packets of the players are handled by the poll thread and the
application calls the methods from there, so a handler is one step; beside it run
the threads of the lobbies.  A lobby is found by its id, which is made of the
time.  Nothing takes a lost client out of its lobbies.  `dlist_remove ()` returns what
it removed and `player_unregister_from_lobby ()` takes that for a failure
(`player.c:176`), so that the count of players stays when one leaves (`TakeOut`), goes
down when a player is unregistered who is not in the lobby (`UnregisterStranger`),
which may tear the lobby down under its players, and the last player leaves an empty
lobby, whose first player `lobby_leave ()` then reads (`LeaveCrashes`).  The poll array
of a lobby is doubled when it has no place that holds -1, and `realloc ()` does not
set the new places (`lobby.c:418`): `Grows` lets any number of them be free, up to an
array whose size of 16 bits (`FdsBits`) has wrapped to 0 and that is freed.  It is
assumed that none of those places holds the number of a client's descriptor, and
that the build does not log (`CERVER_DEBUG` off).

**Handlers.**  One thread and one queue for each app handler, the app error
handler and the custom handler, and the main thread, which a signal handler may
take into `cerver_teardown ()` at any moment.  What lies between an insertion
and its post is under the lock of the queue, which has one producer and one
consumer, so that a push or a pull is one step here.  The counters are read
without `handlers_lock`, as in the code; the last critical section of a thread
is two steps, because the cerver may be freed inside it (`UseFreed`).  The
packets of a handler are numbered, and `Track` is their sequence from the first
that was handled to the last in the queue.  `SpinHangs` is the loop at
`cerver.c:1789` as an optimising compiler may translate it: the counter is
neither volatile nor atomic and nothing is called in the loop, and gcc at `-O2`
reads it once.

**Lifecycle.**  One thread starts the cerver and polls in it, one shuts it down
or tears it down, and the detached threads run until they see that it does not
run.  Of what the teardown frees there are the cerver, the clients and the
connections on hold, each freed in one step and its pointer cleared in the next:
`poll ()` of a cleared pointer fails, and a poll that fails clears `isRunning`.
The handlers are a number of threads that are waited for; `Handlers` is about
how they end.

**ClientSide.**  One application thread, an update and a send thread for each
connection, and a handler thread.  `client_connection_end ()` is run by the
application and by the update thread itself.  It reads `updating` without the mutex
(`client.c:4095`), and the update thread resets the flag in one step (`UpdateFinish`)
and signals and unlocks in the next (`UpdateSignal`), so that the connection may be
deleted in between.  For a connection with a send queue `client_connection_end ()`
sleeps a second before the deletion, which is taken to be long enough for those two
calls.  `early` has the connections whose deletion was called before the update
thread had announced itself, that were deleted by `client_teardown_async ()`, which
does not wait, or that were seen not to update between the reset and the unlock.  A
thread that cannot be created leaves the connection without it.

**Events** has one type of each table, an action as what was given to it, and the
threads that use the table (`callers`), which are one or more.  The tables have no
lock: a change is the test of the entry, its deletion, the reset and the store of the
new one, each a step, and two changes may overlap (`overlap`).  A work in the thread of
the caller may itself register or unregister its type (`own`).  After an entry was
deleted twice, or while somebody had it, nothing more is modelled.

### Sums

A model checker run explores one module with its instance.  Modules that belong
together are checked by one run: `Threads`, `Serving`, `Packets`, `Tables` and
`Connecting` have
the variables of all of them and a variable `part`, which is chosen at the
beginning and never changes, and a behaviour is one of that part; the variables
of the others stay as they were made.  The properties of a part are renamed there
(`MapIsOwned == R!MapIsOwned`), and the theorem that a part has its property is
about the sum (`PartsSpec`), so it is about the very formula the run checks.  The
MC modules only give instances, choose where each part begins and add fairness.
The fairness conditions of the parts share slots (`Client(p)` of `MCThreads` is
fair to one thread of each part), which means the same as fairness for each,
because only one part ever moves.

## 3. Runs

`CHECK_DEADLOCK FALSE` is used where the system may really stop: when everything
bounded has been used up, after a deletion, or after a crash.

| run | instance | distinct states | what it shows |
|---|---|---|---|
| `thpool` | 2 threads of which 1 may fail to start, 2 clients of which 1 waits, 3 jobs | 95 533 | no job without a signal; wait is sound; `JobPool` is implemented; wait, destroy and init end |
| `threads` | a worker with 2 clients, 3 jobs, 2 stops; a queue of 2 handlers, 2 callers; 2 requesters of 3 jobs; a semaphore of 3 threads | 60 886 | order, idleness of a stopped worker, jobs get done, calls end; callers are answered with their own data; requests keep jobs; the semaphore implements its specification |
| `handlers` | 2 app handlers or 1, an error handler or none, each direct or not, 3 packets, threads that cannot be created; a cerver with 3 detached threads, or started twice with 2 | 130 711 | packets are handled once, in order, only while the cerver serves; start, threads and teardown are sound and end |
| `collections` | 3 lists of 3 data of which 2 compare equal; a tree of 6 ids; a table of 3 buckets and 4 keys | 151 098 | links and sequences, with 2 threads whose calls without the mutex overlap or do not; searches, balances, the map |
| `client` | 2 connections, one with a send queue, of which 1 is ever connected (`OneConnected`), 1 handler, 2 sends; a table that 1 or 2 threads and their works use, 2 registrations | 250 441 | no use after deletion, calls return, sends in order and none left behind; arguments are deleted once |
| `receive` | framing: header 2, maximum 5, sizes below, at and above both, buffers of 2, 3, 4 and 7; 2 packets and 2 receivers; a packet with 4 buffers of 1 or 2; 2 senders on a socket, header 2, data 2; files of 1 to 5 with buffers of 2 | 250 628 | framing, accounting, buffers, whole packets, file contents |
| `registry` | 4 connections over 2 descriptors, no thpool, no packet that asks for an end | 1 023 | the structures agree, every lost connection is cleaned up |
| `onhold` | 3 connections, 2 descriptors, 2 places, 2 tries, 2 bad packets; a registry with 1 worker, 3 connections, 2 descriptors, an array of 1 that grows; 3 connections of 2 clients with sessions, 1 thread in the thpool; 3 connections of 2 admins, or 2 and a broadcast; 2 clients, 2 lobbies of 2 players, poll arrays of 0 or 1 places whose sizes have 3 bits | 4 619 197 | ownership, limits, live map; what still holds when two threads register and remove; clients, admins and lobbies agree |
| `thpool_two_waiters` | 2 waiters | violation | one of two waiters sleeps for ever |
| `receive_cut` | header 3, buffers of 1 | violation | a header from three buffers has bytes that were not received |
| `registry_race` | 1 worker, 1 connection | violation | a client is freed while a worker registers it |
| `onhold_rogue` | 2 connections | violation | a connection that is being held is closed as a rogue one |

### Why the bounds are enough

Two waiters, two workers or two clients are what it takes for each race between
equals; a third thread in `Bsem` makes the case where a post wakes one waiter and
another takes the token.  Three jobs let a pull find none, one and several jobs.  Two
descriptors and three or four connections make the kernel reuse a number while another
is in use; three connections of two admins let one admin have two, and an array of two
let it be full.  Three connections of two clients let one client have two while the
other joins or leaves, and a thpool of one thread be full or not; equal session ids
are left to the poll thread.  Two app handlers and one of another kind are what the
counter that all of them share can get wrong, and a handler with two packets has a
pull that leaves one behind.  The sizes of `receive` lie below, at and above the
header and the maximum, and the buffers hold a part of a packet, exactly one, and more
than two.  Six ids make a tree in which both double rotations and the removal of an
inner node happen; three keys of one bucket are its first, inner and last.  Two
lobbies that may have one id, two clients and two players let one client be in both,
or in one twice; an array of one place that grows in three bits is enough to find
places, to find none, and to wrap.  Two threads and three lists let a merge of two
lists meet a change of either.  One connection at a time, with a queue or without,
meets every pair of threads of a connection; a second connected one would add only
what they do not share.  Two registrations let one replace the other, or two threads
replace the same entry.  Two starts are what it takes for an old thread to meet a new
cerver.  Where a proof exists the bound is only a bound of the check.

### Fairness

`Bsem` has strong fairness for the steps of a thread: a thread that asks for a
mutex again and again gets it, which every lock in use provides although POSIX
does not promise it.  The other modules need weak fairness only: a thread that
can go on goes on.  Nothing makes a client call, an owner stop or destroy, or a
peer send or leave, and nothing makes a thread begin to start, shut down or tear
down a cerver; once it has begun it goes on.  Of the detached threads of
`Lifecycle` it is enough that one that can go on does, because every one of them
has finitely many steps once the cerver stays stopped.  `ReceiveBuffer`,
`PacketData`, `PacketSend`, `PacketHandlers`, `FileReceive`, `OnHold`, `Sessions`,
`Admins`, `Lobbies`, `Events` and the collections are checked for safety only.

### Disagreements between code and documentation among the runs

* `thpool_wait ()` is woken by `pthread_cond_signal`: with two waiters one stays
  (`threads/thpool.c:185`).
* `cerver_receive_handle_buffer ()` completes a split header without looking at
  how much has been received (`handler.c:1711`).
* With a thpool a client is handled, and may be freed, while `cerver_accept ()`
  still registers it (`client.c:997`).
* The thread of the connections on hold closes a descriptor whose connection is
  being put on hold (`handler.c:1327`).

### Known and not among the runs

The models have these behaviours; no property that they would violate is
checked, and the properties that are checked hold in spite of them.

**What the properties stop at or except.**  Each of these is an action of a model and
contradicts a comment in the code; the property that would say so fails.
* The loop over a buffer is to "update buffer positions & values" (`handler.c:1595`),
  and goes on by the size in a packet that its handler, or a thread, has deleted
  (`WholePacketReused`; `RemainingExact` and `Framed` stop there).
* "We expect the packet version in the packet's data" (`handler.c:971`), but it is
  copied from `data_ptr`, NULL in every packet that was received (`handler.c:973`,
  `client.c:3305`, `auth.c:953`, `admin.c:1909`): `CopyVersion`; `PacketsAccounted`
  stops there.
* "The client is going to close its current connection but will remain in the cerver"
  (`handler.c:498`): the packet frees the receive handle that the loop goes on with
  (`handler.c:1675`; `ClosedIsRead`).  `NeverCrashes` is checked without such packets.
* `client_connection_end ()` is to "wait until connection has finished updating"
  (`client.c:4096`).  It reads `updating` without the mutex and may delete the mutex
  while the update thread holds it; `DeletedIsUnused` excepts the connection
  (`early`).
* `drop_after_trigger` is for "if we only want to trigger the event once" (`events.h`,
  line 70).  Without a lock two threads may both have read the entry, and delete its
  arguments twice (`events.c:209`); `ArgumentsDeletedOnce` is about changes that do
  not overlap.
* `player_unregister_from_lobby ()` is to "check if there are players left inside the
  lobby" and to "destroy the lobby" (`game/player.c:195`).  The removal is taken for a
  failure, so that the count does not go down and an empty lobby stays; `LobbiesAgree`
  does not tie the count to the players.
* `dlist_insert_at ()` "inserts the data in the double list in the specified pos (0
  indexed)" (`collections/dlist.h`, line 133), and at the start when that is the size
  (`collections/dlist.c:609`); `Implements` is checked without that position.

**Threads.**
* `thpool_init ()` ignores that a thread could not be created and spins.
  `thpool_destroy ()` may free the pool before its last thread has unlocked.
* A second `worker_stop ()` that begins before the worker has cleared the first
  request is cleared with it and never returns; hence the condition `~ stop` in
  `OwnerCallsEnd`.  A worker may be deleted while its thread cleans up.  The result of
  `worker_stop ()` and `worker_end ()` may tell of an error although they worked.
* `job_queue_stop ()` leaves the callers of `job_handler_wait ()` asleep.  The pool
  of handlers reads the end of its list outside the lock (`collections/pool.c:101`).
* There is one place for a requested job: overlapping requests overwrite each
  other, and a second job with the requested id overwrites the first one and leaves
  a token that answers the next request with nothing.

**Packets.**
* A packet that is only a header and whose header was split waits for the next
  byte of the stream; after a packet of invalid size the state stays `LOST`.
* `packet_check ()` returns true for a good packet, against its comment
  (`packets.c:1663`), and its callers take true for an error, which no packet lives
  to see.  A packet without a version is never deleted, nor is one of type `NONE`,
  `CERVER` or `GAME`, or one for a handler that does not exist.  The statistics are
  counted without a lock.
* `packet_send_tcp_actual ()` reports the last chunk only; the two ways of
  sending in pieces return success after a failure in the data;
  `connection_send_thread ()` sends without the write mutex.
* `packet_set_packet ()` and `packet_set_data ()` keep the flags that say that the
  buffer is a reference, and `packet_generate ()` frees a referenced packet.
* The rest of a file is reduced by the buffer size whatever `splice ()` moved
  (`files.c:1257`), and a file that came whole with its packet is reported as an
  error.

**Clients of a cerver.**
* A packet that disconnects the client frees the receive handle that the loop goes on
  with, as does the last failed try or bad packet of a connection on hold and an admin
  whose packet ends its connection; `connection_delete ()` frees the socket before it
  reads the descriptor to close, which may therefore leak.
* `next_client_id` is not protected, so that two clients may get one id.
* After a successful auth the packets left in the buffer are handled as if the
  connection were still on hold; after the last failed try `auth_try ()` does not
  report that the connection is gone.  `max_auth_tries` of the cerver is ignored in
  favour of a constant of the connection.
* A client is put in the poll array before the tree, so that it may be freed and then
  inserted.  A token joins a connection to a client that may be removed meanwhile; the
  connection is then freed with the client and stays in the array or in the map.
  Session ids are made of the second and a number below 8097: with two that are equal
  the wrong client is taken out of the tree.  Without auth there are no session ids,
  and all clients compare equal.
* With a thread for each connection there is no poll array, but a packet that
  disconnects the client takes its connections out of it (`handler.c:2748`).  Two
  threads that remove the last two connections of a client at the same time leave it
  in the tree without any.  A thread whose connection is gone may receive from the
  connection that got its socket.  A connection whose thread is queued in the thpool
  behind others waits as long as they live, and one whose thread cannot be created is
  never received from.
* Ids of admins are made of the time and a small random number: with two that are
  equal the wrong admin is taken out of the list (`admin.c:1009`).  An admin is in the
  poll array before the list, so that it may be closed as a rogue one and read without
  a socket (`handler.c:1350`).  A token may join a connection to an admin that is
  being dropped, and the result of its registration is not looked at. `max_admins` and
  the limits on connections and bad packets of admins are never tested.  The
  broadcasts walk over the list without its lock.
* `lobby_leave ()` of the last player reads the first player of the empty list; a
  player who is not in a lobby may be unregistered from it, which counts and may tear
  it down; the poll array of a lobby grows by places that are not set and may wrap to
  nothing (`lobby.c:418`), when its count stays; starting a lobby twice drops players
  that are not in the poll array of the cerver; ids of lobbies of one second are
  equal; lost clients stay players; `lobby_teardown ()` deletes the game data twice.

**Lifecycle.**
* `cerver_start ()` spins for ever with several app handlers if one of them is
  direct or missing, because only those with a thread are counted, and in an
  optimised build whenever the threads are not ready at once; hence the condition
  of `CallsEnd` in `Handlers` and its escape to `hung`.
* `cerver_teardown ()` with several app handlers waits for the error and custom
  handlers before it wakes them up; hence the other condition of `CallsEnd`.  With
  one app handler it may free the cerver while a thread is born, tests the flag
  for the first time, or still unlocks `handlers_lock`.
* Packets that are in a queue when the cerver stops are never handled, nor are
  those for an error or custom handler whose thread could not be created.
* A start that fails leaves `isRunning` true and the threads it has started
  (`cerver.c:2264`).  The failures of the hold thread and of the update threads of
  the admins are ignored.
* The teardown frees clients and connections on hold before it clears
  `isRunning` (`cerver.c:2618`); a poll that fails meanwhile clears it, and
  `cerver_shutdown ()` then does not close the socket.  Nobody waits for the
  detached threads; after a shutdown and a new start the old ones go on.

**The side that connects.**
* An update thread that ends its own connection waits for itself
  (`client.c:2792`); an application that does so at the same time deletes the
  connection under it.  A connection is closed before it is marked inactive, and
  may be deleted before its update thread has announced itself.
* The test of a timeout is a constant (`client.c:3913`), so that a failed receive
  is tried again for ever.
* No teardown wakes the send threads.  A connection started twice has two update
  threads.
* An event that runs in a thread of its own and is dropped after it was triggered
  has its arguments deleted while it runs; two registrations of one type at the same
  time lose an entry; a work that unregisters its own type leaves the trigger with an
  entry that is gone; `client_error_trigger ()` gives the
  method the whole error where it should give its arguments.

## 4. Proofs

All theorems are about the specification without fairness, for every value of
the constants that satisfies the assumptions of the module.

**Thpool_proofs.**  `Control` locates locks and jobs by the program counters and
is inductive together with the types (`DataOK`).  `CountersExact` adds one
cardinality step per transition in or out of the two regions.
`AcceptedWasAdded /\ JobsConserved` uses that a job is added once.  `OwedInv` is
what makes `WaitSound` provable: the waiting client is owed jobs that are
accepted, and once it has seen the queue empty, jobs that a thread holds or has
finished; with the exact counter being 0, nobody holds one.  `SignalCorrect` is
the argument that one token suffices.  `ThpoolImplements` combines these into the
step simulation of `JobPool`, `Close` included: at the end nobody is alive, so
nothing is running.

**Threads_proofs.**  For the worker, `Control` says that what the thread has read of
its state stays true as long as it relies on it, because only a stopped worker is
resumed; it implies `StoppedIsIdle`.  `OrderCorrect` is about the sequence `Track`,
the executed jobs, the held one and the queue: `TrackGrows` shows that a pull and an
execution only move the boundaries inside it, and that an insertion appends.  For the
semaphore, the types say that the mutex is held exactly between lock and unlock, and
`NoLostPost` is inductive with them; `BsemImplements` maps the token to `v = 1`, and a
waiter has finished when it sets `v` to 0, not when it returns.  For the handlers of a
queue, a caller is answered with its own data because a handler is in one place
(`HandlerInOnePlace`): in the pool, in the queue or with a thread of the queue, and
with at most one caller.  `HoldsHandler` says at which steps a thread has a handler,
`HasAlone` that the handler of a caller is out of the queue and its threads when the
caller has not pushed it yet or has its answer, `DoneIsAnswered` that `done` is that
of the last use, and `DataAreOwn` that two handlers never have the same data and no
handler has data that were deleted.  For the requests, while there is one at a time
and one job for it (`OneRequest`), `AsksAlone` says that the one place of the queue
belongs to the thread that is in the call, `TokenHasJob` that the token of the
semaphore and the job come and go together, and `OnePlace` that a pushed job is in one
place.  The first needs the others: a collected job frees the place, and a token that
was left behind would wake the next request without a job.  `RequestsKeepJobs`
follows, for jobs that are not the null pointer.

**Packets_proofs.**  *Framing.*  `IInv` relates every position to the boundary of the
last packet: inside the loop (`InLoop`) and between two buffers (`BetweenBuffers`).
These theorems assume `WholeHeaders`: a buffer completes a split header.  Without it
the framing is wrong, as `receive_cut` shows.  They speak of every packet up to the
first whose memory was used again before the loop read its size (`WholePacketReused`);
for that one and before it `FramedCorrect` says where the packet begins and that it
has the data that its header announces. *Handling.*  `HandleInv` follows a packet:
`Held`, that the packet of a receiver is its own; `Queued`, that the queue has packets
that nobody holds, each once; `Fates`, what may have become of a packet; and `Tally`,
that the counters add up as long as no two receivers have incremented one at once; a
packet whose version is read from NULL ends the behaviour.  *Buffers.*  `DataInv` says
what the two buffers of a packet are (`DataHeld`, `PacketHeld`), and that as long as
the packet is filled in one way every live buffer is one of them or the caller's
(`NothingLost`).  *Sending.*  `SendInv`: one sender has the mutex (`OneLocks`), so
that its bytes are together on the wire (`Together`) and at its end while it sends
(`AtEnd`), and what it has sent is what the buffers before its position add up to
(`Counted`).  `ReachPieces` turns the assumption that the pieces add up to the payload
into such sums; it replaces an induction over the pieces.  *Files.* `FileInv`: the
bytes in the file and then those in the pipe are strictly rising and lie before the
position in the stream (`Rising`), the position stays within the file (`Within`), and
without a short call they are exactly the first bytes of the file (`Exact`).

**Registry_proofs.**  For all workers, `IInv`: the connection that a thread works
on is live, has its descriptor and is no other thread's (`Held`, `Apart`) while the
thread is at a step that relies on it; each of those steps says which of the array
and the map have the descriptor (`Stages`); hence the map leads from a
descriptor to the live connection that owns it (`MapHasOwners`), a polled
descriptor is mapped unless it is being dropped (`PolledHasClient`), and is polled
once (`PolledOnce`).  `MapKnowsOwners` follows.  It assumes that what `realloc ()`
leaves is not the number of a descriptor (`Garbage \cap Fd = {}`): the array would
then poll a connection twice.  `SInv` is about the case `Sequential`, without
workers and with clients that leave by closing their socket, where
only the poll thread changes anything: `SequentialAgree` and
`SequentialNeverCrashes`.  What `Sequential` leaves out are the known faults: a
worker frees what is registered, as `registry_race` shows, and a packet that asks to
be closed or to disconnect frees what the loop goes on with
(`handler.c:1675`): with `Asks = {"close"}` `NeverCrashes` fails for one connection.

**Handlers_proofs.**  `IInv` has four parts.  `CountersExact`: as long as the
cerver exists, the two counters are the cardinalities of the sets of threads
inside the counted regions (`AliveSet`, `WorkingSet`).  `Flow` is what the main
thread may conclude at each of its steps; leaving the spin with all app handlers
alive, and the wait of the teardown with none, follow from the exact counter.
`Hands` says what a thread knows of its queue: while the cerver runs, a token or
an awake thread means that a packet is there, which is needed because a pull
that finds nothing would break the order.  `Numbered` is `InOrder` part by part:
handled packets, the held one and the queue are consecutive.  `LifeInv` is about
the start, the detached threads and the teardown: the teardown begins between two
calls of the thread that starts, which then starts nothing more (`EndIsLast`); the
threads of a start are created in turn (`TurnsInOrder`), and one that could not be
is noticed unless the code tolerates it (`ErrorsAreNoticed`); in the first start
an open socket has somebody who will close it (`OpenIsRunning`).
`PartsLifecycle` follows, for any kinds of threads and any number of starts.

**OnHold_proofs.**  `IInv` locates the connections.  `Made`: a live connection
has a descriptor, and one that was never made is nowhere.  `Mapped`: the map leads
from the descriptor of a connection that is live and not in the main structures.
`PollOwns`: what the poll thread is putting on hold is known to nobody else.
`HoldKnows` is what the on hold thread may conclude: a connection that is not in
the array is not in the map either, which is why it may free one without looking
at the map; it needs `PollOwns`, because the poll thread changes the same array
and the same map in between.  `HoldMapIsLive`, `OneOwner` and
`LimitsHold` follow, although two threads close descriptors of each other.
`PartsMapIsOwned` is `MapKnowsOwners` of `Registry_proofs` for the tables, with
garbage that is no descriptor, and any number of workers.
`PartsLobbiesAgree` rests on `LobbyInv`: `ListAgrees`, the ids of the listed lobbies
differ, because an id that is in the list already is not inserted a second time,
so that the removal of a listed lobby finds that lobby itself, and that of one which
is not listed takes another out, whose memory stays; `MembersAgree`, the count of a
live lobby is not zero, which is all that is left of it once a player is gone;
`ArraysAgree`, the cerver and the lobbies poll disjoint sets of clients, so that a
lobby which takes all its players counts none of them twice, whatever places its
array finds; and a lobby whose array has a size counts the descriptors in it.
`PartsAdminsAgree` rests on `AdminInv`, which follows the three threads between the
moments at which `AdminsAgree` speaks.  `Reached`: the admins that a broadcast has
not reached come after the one that it has, in a list without repetitions, whatever
is taken out or appended in between.  `MakerKnows`: an admin that the on hold
thread has made is in no list until it inserts it, and has one connection.
`WalkerKnows`: what the poll thread removes is listed until it takes it out, and a
connection that is closed without its admin leaves another one.  Until something
was confused, `OpensOwn` says that the descriptors of the connections differ,
`ListsLive` that an admin lives in the list or is being made or deleted, and
`PollsLive` that a connection is polled, once, unless it is not registered yet, is
being removed or did not fit (`Off`); `BusyApart` keeps the connections apart that
the two threads are busy with, without which the removal of one could take the
descriptor of the other.  Only the count needs none of that.

**Sessions_proofs.**  `PartsSessionsAgree` rests on `SessionInv`, which follows the
thread of the connections on hold and all threads that remove, of both handler types,
between the moments at which `SessionsAgree` speaks.  `ListsApart`: a live connection
is on hold or in the list of one client, once, and a client that does not live has
none, so that `client_delete ()` frees no connection of another client.  `HoldTells`:
the connection that the thread of those on hold is busy with is in the list of its
client or was freed, which is why the client that is looked up again by the descriptor
is the one that was joined.  `VictimsListed`: what a thread removes is in the list of
the client or was freed by another one.  These hold of every client.  The rest,
`Sound`, is said of a client until it is removed while the thread of those on hold is
busy with it, as `crossed` tells: a client that thread is busy with lives and nobody
removes it (`BusyLives`); the map leads from the connections of its list, and from no
other, to it, except for the one that is being registered or removed (`MapsTo`); with
one poll thread it has a connection until it is deleted (`HasOne`); and it is in the
tree unless it is being made or deleted (`InTree`), which needs that ids differ,
because `avl_remove_node ()` finds a client by its id.  `PollsListed`: what is polled
is what is in a list, except for the one connection that is being registered or
removed and those of a client that is dropped.  After a use of freed memory nothing is
said, and `SessionsAgree` speaks of no such state.

*The hash table*, which is the map of descriptors and that of those on hold, is
here with its keys, values and buckets for any number of them.  `TableImplements`
shows that `HashTable` implements `Dictionary`, its safety that `Implements` of the
run `collections` checks for four keys in three buckets.  `TableInv`: a node is in the
bucket of its key (without it a key that is inserted twice could be in two), a key has
one node, each bucket counts its nodes and the table its keys.  `NodeAppended` and
`NodeRemoved` say that a call changes the value of its own key and of no other, of
those that meet in the bucket too, and `BucketChanges` carries that over to the
table.  Two hypotheses: the null pointer is no value, which `htab_insert ()` refuses,
and the hash of a key is one of the buckets: it is a sum modulo their number, but the
sum is a fold over the bytes of the key, and what a fold computes is beyond the
prover.

**Connecting_proofs.**  *The client.*  `DeletedIsUnused` relates a deletion to program
counters of threads that the deleting one does not wait for by name, so `IInv` follows
the deletion from its call on: an update thread that runs has announced itself until
it resets its flag for the last time (`Announced`; between that and its unlock it
counts as `early` if it is overtaken), and `client_connection_end ()` waits for that
flag; the connection is not active once it has been closed and not in the list once it
has been removed (`Ending`), so that no teardown finds it as well; a thread that waits
for itself has removed its connection (`Waiting`), which is why the teardown may pass
over it (`TearingDown`); and what is deleted is not started again (`Started`,
`Deleted`). *Sending.*  `Numbered`: the packets in a queue are numbered on from the
last one that was sent, as long as the thread has not given up, so each pull takes the
next. *Events.*  `DeletedOnce`, as long as no two changes overlap: what was registered
was deleted, is in the table or about to be stored, and in one of these only
(`Accounted`); and one thread is in a change, which found the entry that it deletes
(`OneChanges`).  `UsedAlone`, for one thread whose works neither change the table nor
run in a thread of their own: the entry that the thread has read is still the one in
the table, and a work runs only while the thread waits for it, so a drop by the type
deletes the entry that was triggered.

Constants: `ThpoolAssumption`, `WorkerAssumption`, `ReceiveAssumption`,
`RegistryAssumption`, `OnHoldAssumption`, `HandlersAssumption`, and those of the
sums, `ThreadsAssumption`, `ServingAssumption`, `PacketsAssumption`,
`TablesAssumption`, `ConnectingAssumption`, say that names of
threads differ, that null pointers and flags are no names, that sets of threads
are finite and sizes are naturals; `TablesAssumption` also says that no session id is
the null pointer that stands for none.  `PacketsAssumption` also says that the pieces
of `packet_send_pieces ()` add up to the length its caller gives.

Only model-checked:
* everything with fairness (`Implements` as far as it is liveness, `CallsEnd`,
  `OwnerCallsEnd`, `WaitEnds`, `CleanedUp`, `LifecycleEnds`);
* `WellLinked`, `TreeSound` and the refinement of `SequenceLists`: `DoubleList`,
  `SearchTree` and their walks are recursive, which is beyond the prover.

## 5. What is not modelled

* The handler threads of clients and admins, which differ from those of a cerver
  in the flag they test; an empty place in the array of app handlers.
* Authentication of a client by the cerver that it connects to (`client.c`), and
  the reports and files of the requests between them.
* Game types, scores and the setters of all structures: no thread meets there.
* Memory beyond allocated and freed; the poll array is moved by `realloc`
  while `poll ()` may use it, which the models do not see.
* Strings, base64, sha-256, logs, configuration and thin layers over the
  operating system: they keep no state and a unit test reaches them.
* Tests, examples and benchmarks, which were read for how the library is used.

## 6. Plan

1. `Sessions` together with `Lobbies`: clients with several connections of which
   one is in a lobby.
2. The auth of a client by the cerver that it connects to (`client.c`).
