SPECIFICATION DiffSpec
CONSTANTS
    f = f
    g = g
    u = u
    n = n
    x = x
    Ghost = Ghost
    Outside = Outside
    NoPath = NoPath
    Missing = Missing
    Blank = Blank
    MinusMinus = MinusMinus
    PlusPlus = PlusPlus
    Texts = {x, MinusMinus, PlusPlus}
    ProjectPaths = {f, g, u, n, Ghost}
    Tracked = {f, g}
    Requests <- MCRequests
INVARIANT AppliedAsMeant
CHECK_DEADLOCK FALSE
