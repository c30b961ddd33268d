SPECIFICATION Spec
CONSTANTS
    a1 = a1
    a2 = a2
    r1 = r1
    r2 = r2
    c1 = c1
    p1 = p1
    p2 = p2
    Ask = {a1, a2}
    NoAsk = NoAsk
    Handler = {h1, h2}
    Run = {r1, r2}
    Shapes <- MCShapes
    MaxEdits = 2
    MaxEnds = 1
SYMMETRY Symmetry
CONSTRAINT Focus
INVARIANT OwnRowDecides
CHECK_DEADLOCK FALSE
