\* The pool stops once it is deleted, and when a thread could not be created.
CHECK_DEADLOCK FALSE
SPECIFICATION Spec
CONSTANTS
    NoActor = NoActor
    NoJob = NoJob
    Owner = Owner
    Thread = {t1, t2}
    Client = {c1, c2}
    Waiter = {c1}
    Job = {j1, j2, j3}
    Unlucky = {t1}
INVARIANTS
    QueueIsSignalled
PROPERTIES
    WaitSound
    Implements
    CallsEnd
