SPECIFICATION Spec
CONSTANTS
    Node = {1, 2}
    Nobody = Nobody
    s1 = s1
    Scope = {s1}
    Handler = {1, 2}
    Home <- OnePerNode
    Served = {2}
    MayIsolate = TRUE
    MayRewind = TRUE
    TTL = 0
    Founded <- HeldBy1
    Pins = {FALSE}
    Modes = {TRUE}
    MaxTime = 1
    MaxEvents = 3
INVARIANTS
    SoleGrantor
    AuthoritativeExcludes
    FreedByItsNumber
PROPERTIES GrantsOnFullView
CONSTRAINT Stories
ACTION_CONSTRAINT Digests
