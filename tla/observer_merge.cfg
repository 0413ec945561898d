SPECIFICATION MCSpec
CONSTANTS
    a = a  b = b  MaxHandoverOps = 2
    Sessions = {a, b}
    MaxEntries = 2  MaxOps = 2  MaxLives = 2  MaxGens = 1  MaxFaults = 0  MaxSwitches = 0
    Size <- Even
    InputBudget = 2  Framing = 0  MinBatch = 2  QueueCap = 1
INVARIANTS ClaimedWasSent
SYMMETRY Symmetry
CHECK_DEADLOCK FALSE
