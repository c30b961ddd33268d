SPECIFICATION ApplySpec
CONSTANTS
    p1 = p1
    p2 = p2
    d1 = d1
    d2 = d2
    r1 = r1
    Child = {}
    Spawner = {}
    Run = {r1}
    NoRun = NoRun
    Path = {p1, p2}
    Data = {d1, d2}
    Absent = Absent
    Torn = Torn
    Journals = {}
    MaxClaims = 1
    MaxBoots = 2
    MaxEdits = 2
    Proposals <- Mixed
PROPERTIES MutatesUnderJournal AppliesAtomically
CHECK_DEADLOCK FALSE
