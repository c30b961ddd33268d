SPECIFICATION PartsSpec
CONSTANTS
    book = book
    f1 = f1
    i1 = i1
    i2 = i2
    i3 = i3
    ink = ink
    noId = noId
    noLimit = noLimit
    nothing = nothing
    s1 = s1
    s2 = s2
    w1 = w1
    w2 = w2
    web = web
    Node = {1, 2}
    Nobody = Nobody
    Scope = {sc}
    Caller = {call1, call2}
    Site <- MCSite
    CutOff <- MCCutOff
    MaxWritten = 4
    Capacity = 2
    Batch = 2
    Most = 2
    MaxTurns = 2
    MaxChunks = 5
    FollowUpLimit = 2
    MaxPrompts = 3
    MaxPanelTurns = 3
    MaxTroubles = 1
    Handler = {h1, h2}
    NoThread = NoThread
    Claim = {k1, k2}
    NoClaim = NoClaim
    Other = Other
    MaxLegs = 3
    MaxCrashes = 1
    CacheImage = {image1}
    CacheContext = {text1, text2}
    CacheSession = {chat1, chat2}
    NoCacheSession = NoCacheSession
    OrphanRetention = 1
    LongRetention = 1
    MaxCacheTime = 1
    MaxCacheFaults = 1
CONSTRAINT Bounds
INVARIANTS PartsTypeOK SettledOnce BubbleIsTrue NeverForks FanOutIsTruthful
PROPERTIES FollowUpsAreKept CacheKeepsPromises InterviewsGoOn
CHECK_DEADLOCK FALSE
