CONSTANTS
    p1 = p1
    p2 = p2
    t3 = t3
    k1 = k1
    h1 = h1
    h2 = h2
    Nil = Nil
    Freed = Freed
    Owner = Owner
    Pusher <- MCClients
    Caller <- MCClients
    Refusable <- MCClients
    Requester <- MCClients
    Waiter <- MCWaiter
    Consumer <- MCConsumer
    Handler <- MCHandler
    PoolInit <- MCPoolInit
    IdOf <- MCIdOf
    Calls = 1
    Self = Self
    NoActor = NoActor
    NJobs = 3
    MaxStops = 2
SPECIFICATION MCSpec
INVARIANTS
    InOrder
    StoppedIsIdle
    AnswersOwn
    RequestsKeepJobs
    NoLostPost
PROPERTIES
    OwnerCallsEnd
    CallsEnd
    Implements
\* A worker that has been ended does nothing more, and every thread may wait
\* for a post that nobody makes.
CHECK_DEADLOCK FALSE
