SPECIFICATION Spec
CONSTANTS
    P = P
    Workers = {}
    NConn = 4
    NFd = 2
    NSlots = 2
    Garbage = {}
    Asks = {}
INVARIANTS
    NeverCrashes
    Agree
PROPERTIES
    CleanedUp
