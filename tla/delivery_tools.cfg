SPECIFICATION MCSpec
CONSTANTS
    j1 = j1  j2 = j2  s1 = s1  here = here  there = there
    NoJob = NoJob
    Jobs = {j1, j2}
    Scopes = {s1}
    ScopeOf <- OneScope
    Targets = {here, there}
    OutsideEdits = TRUE
    PageSize = 2  MaxPages = 2  MaxSeq = 5  MaxLocal = 2
    MaxMishaps = 2
    Pids = {p1, p2, p3}
    NoPid = NoPid
    Room = 2  Segments = 2
    Unreadable = Unreadable
    MaxEvents = 7
    MaxFaults = 2
    MaxTrouble = 3
INVARIANTS TypeOK AckedIsStored NeverRerouted ScopeOrder CursorSafety AuditSafety RunnerSafety
PROPERTIES QuietWhileObserved IsChannel
SYMMETRY Symmetry
CHECK_DEADLOCK FALSE
