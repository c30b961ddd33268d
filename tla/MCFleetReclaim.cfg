SPECIFICATION Spec
CONSTANTS
    Node = {1, 2}
    Nobody = Nobody
    s1 = s1
    Scope = {s1}
    Handler = {1}
    Home <- AllAtNode1
    Served = {}
    MayIsolate = FALSE
    MayRewind = FALSE
    TTL = 0
    Founded <- LedBy1
    Pins = {FALSE}
    Modes = {TRUE}
    MaxTime = 1
    MaxEvents = 6
INVARIANTS
    SingleGrantorMutex
