SPECIFICATION Spec
CONSTANTS
    P = P
    Workers = {w1}
    NConn = 1
    NFd = 1
    NSlots = 2
    Garbage = {}
    Asks = {}
INVARIANT NeverCrashes
