SPECIFICATION MCSpec
CONSTANTS
    a = a  b = b  MaxHandoverOps = 2
    Sessions = {a, b}
    MaxEntries = 2  MaxOps = 2  MaxLives = 1  MaxGens = 1  MaxFaults = 0  MaxSwitches = 3
    Size <- FirstIsLarge
    InputBudget = 2  Framing = 0  MinBatch = 2  QueueCap = 1
INVARIANTS NeverDuplicated
SYMMETRY Symmetry
CHECK_DEADLOCK FALSE
