SPECIFICATION MCSpec
CONSTANTS
    h1 = h1  h2 = h2  h3 = h3  p1 = p1  p2 = p2  opA = opA  opB = opB  opN = opN
    Handles = {h1, h2}
    Procs = {p1, p2}
    ProcOf <- TwoProcesses
    Ops = {opA, opB, opN}
    MaxJobs = 2
    MaxSeq = 3
    InitialJournals <- Fresh
    Calls <- AllCalls
    LateCalls = FALSE
    LockAges = "crashed"
    x = x  y = y
    Msgs = {x, y}
    Posted <- MCPosted
    Grace = 1  Retention = 0  MaxTime = 3  MaxEvents = 1  MaxRuns = 2
    Pis = {x, y}
    Features = {"observation"}
    Edits <- MCEdits
    MaxUpsets = 1
INVARIANTS TypeOK PromisesKept NeverTorn  CleanupSafety PrivacySafety
PROPERTIES NewerKept
SYMMETRY Symmetry
CHECK_DEADLOCK FALSE
