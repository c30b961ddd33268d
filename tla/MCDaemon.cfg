SPECIFICATION PartsSpec
CONSTANTS
    Child = {k1, k2}
    Spawner = {s1}
    Run = {r1}
    NoRun = NoRun
    d1 = d1
    d2 = d2
    p1 = p1
    Data <- MCData
    Path <- MCPath
    Absent = Absent
    Torn = Torn
    Journals <- NoJournals
    MaxClaims = 2
    MaxBoots = 3
    MaxEdits = 0
    Caller = {t1, t2}
    t1 = t1
    nobody = nobody
    Client = {t1}
    MaxCodexTurns = 2
    MaxWire = 1
    MaxProcesses = 2
    MaxTurns = 2
    MaxModel = 1
    Requester = {t1}
    NoRequester = nobody
    MaxClaudeTurns = 2
    ToolTurns = {1}
    MaxFrames = 1
    Daemon = {m1, m2, m3}
    NoDaemon = NoDaemon
    Pid = {1, 2}
    Row = {i1}
    NoRow = NoRow
CONSTRAINT ConversationGoesOn
SYMMETRY Symmetry
INVARIANTS
    TypeOK
    GrantIsSafe
    NoTwoWriters
    MemoryIsDurable
    StopIsProven
    OneDaemonOwns
    EndedTurnsStayEnded
    TurnsStayInStep
PROPERTIES
    ClearedOnlyWhenQuiet
CHECK_DEADLOCK FALSE
