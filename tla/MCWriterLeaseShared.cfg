\* Two threads inside the wrapped spawner at once, or the apply journal with
\* arbitrary file changes, or a claim bound to a run; crashes in all.
SPECIFICATION Spec
CONSTANTS
    Child = {k1, k2}
    Spawner = {s1, s2}
    Run = {r1}
    NoRun = NoRun
    d1 = d1
    d2 = d2
    p1 = p1
    Data <- MCData
    Path <- MCPath
    Absent = Absent
    Torn = Torn
    Journals <- MCJournals
    MaxClaims = 2
    MaxBoots = 2
    MaxEdits = 3
ACTION_CONSTRAINT OneOfThem
SYMMETRY Symmetry
INVARIANTS
    LiveChildIsKnown
PROPERTIES
    RefusalIsSticky
    JournalErasedWhole
CHECK_DEADLOCK FALSE
