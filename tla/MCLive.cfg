SPECIFICATION PartsSpec
CONSTANTS
    a1 = a1
    c1 = c1
    c2 = c2
    d1 = d1
    h1 = h1
    k1 = k1
    noAsk = noAsk
    noClaim = noClaim
    noDispatch = noDispatch
    noThread = noThread
    other = other
    p1 = p1
    r1 = r1
    w1 = w1
    w2 = w2
    w3 = w3
    worker = worker
PROPERTIES TurnsAndClaimsEnd AskEnds TakenEndsForGood
CHECK_DEADLOCK FALSE
