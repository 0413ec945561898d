SPECIFICATION SetupSpec
CONSTANTS
    r1 = r1  r2 = r2  m1 = m1  m2 = m2  p1 = p1  p2 = p2
    Rows = {1, 2, 3, 4, 5}
    Fitting = {1, 2, 3, 4}
    Limit = 2  MaxPaths = 3  ListPages = 3  ListMoves = 2
    NoRuntime = NoRuntime  NoMsg = NoMsg
    Msgs = {m1, m2}
    Runtimes = {r1, r2}
    Pollers = {p1, p2}
    PageSize = 1
    MaxPages = 2
    PauseAt = 2
    Prunes = FALSE
    LocksAge = FALSE
    ReadErrors = FALSE
    MaxFeed = 2
    MaxMishaps = 1
SYMMETRY Symmetry
INVARIANTS TypeOK CursorCovers ListingSafety
PROPERTIES IsMailbox
