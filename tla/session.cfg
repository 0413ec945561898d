SPECIFICATION MCSpec
CONSTANTS
    Sessions = {x, y}
    Leaves = {l1, l2, l3}
    Entries = {e1}
    NoSession = NoSession
    NoTree = NoTree
    MaxEpoch = 4
    MaxFaults = 2
    MaxWork = 1
    p1 = p1  p2 = p2  t1 = t1  t2 = t2  t3 = t3  r1 = r1  r2 = r2
    Proposals = {p1, p2}
    Targets = {t1, t2, t3}
    Actors = {x, y}
    NoDoc = NoDoc
    TargetsOf <- Sharing
    MaxCalls = 3
    Records = {r1, r2}
    Authorized = {r1}
    Keys = {x, y}
    Cap = 1  MaxKeys = 1  MaxCounts = 2  MaxInputs = 3  MaxQueries = 2
    MaxTurns = 1  MaxMoves = 5
INVARIANTS  NoStaleResult ResourcesFollowSession ProposalSafety 
PROPERTIES NothingErased
SYMMETRY Symmetry
CHECK_DEADLOCK FALSE
