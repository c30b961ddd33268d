SPECIFICATION Spec
CONSTANTS
    Handler = {h1, h2}
    Worker = worker
    NoThread = NoThread
    Claim = {c1, c2, c3}
    NoClaim = NoClaim
    Other = Other
    Ask = {a1}
    NoAsk = NoAsk
INVARIANT IdleCarriesNoToken
SYMMETRY Symmetry
CHECK_DEADLOCK FALSE
