SPECIFICATION LateSpec
CONSTANTS
    h1 = h1  h2 = h2  h3 = h3  p1 = p1  p2 = p2  opA = opA  opB = opB  opN = opN
    Handles = {h1, h2}
    Procs = {p1}
    ProcOf <- OneProcess
    Ops = {opA, opB}
    MaxJobs = 2
    MaxSeq = 3
    InitialJournals <- Fresh
    Calls <- ProductionCalls
    LateCalls = TRUE
    LockAges = "crashed"
INVARIANTS PromisesKept
CHECK_DEADLOCK FALSE
