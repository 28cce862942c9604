\* After the teardown, or when the start or the teardown hangs, nothing happens.
CHECK_DEADLOCK FALSE
SPECIFICATION MCSpec
CONSTANTS
    a1 = a1
    a2 = a2
    e = e
    Handler = {a1, a2, e}
    Config <- MCConfig
    Unlucky = {a1, e}
    Nobody = Nobody
    NPackets <- MCPackets
    Configs <- MCConfigs
    MayFail = {"hold", "update"}
INVARIANTS
    InOrder
    OnlyWhileServing
    LifecycleSound
PROPERTIES
    HandlersEnd
    LifecycleEnds
