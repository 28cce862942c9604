CONSTANTS
    l1 = l1
    l2 = l2
    l3 = l3
    v1 = v1
    v2 = v2
    t1 = t1
    t2 = t2
    Nil = Nil
    AtSize = FALSE
SPECIFICATION Spec
SYMMETRY Symmetry
INVARIANTS
    WellLinked
    TreeSound
PROPERTIES
    Implements
CHECK_DEADLOCK FALSE
