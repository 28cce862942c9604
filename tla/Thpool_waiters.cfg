\* The pool stops once it is deleted.
CHECK_DEADLOCK FALSE
SPECIFICATION Spec
CONSTANTS
    NoActor = NoActor
    NoJob = NoJob
    Owner = Owner
    Thread = {t1, t2}
    Client = {c1, c2}
    Waiter = {c1, c2}
    Job = {j1, j2}
    Unlucky = {}
PROPERTY
    WaitEnds
