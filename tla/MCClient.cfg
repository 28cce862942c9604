CONSTANTS
    c1 = c1
    c2 = c2
    w1 = w1
    t1 = t1
    t2 = t2
    Nil = Nil
    Trigger = {t1, t2}
    Entry <- MCEntry
    Conn = {c1, c2}
    Queued = {c1}
    Worker = {w1}
    Inbox = 1
    Sends = 2
    Parts = {"client", "events"}
SPECIFICATION MCSpec
CONSTRAINT OneConnected
INVARIANTS
    DeletedIsUnused
    ArgumentsDeletedOnce
PROPERTIES
    CallsEnd
    SendsInOrder
CHECK_DEADLOCK FALSE
