SPECIFICATION MCSpec
CONSTANTS
    a = a  b = b  MaxHandoverOps = 2
    Sessions = {a, b}
    MaxEntries = 2  MaxOps = 3  MaxLives = 2  MaxGens = 2  MaxFaults = 1  MaxSwitches = 2
    Size <- FirstIsLarge
    InputBudget = 2  Framing = 0  MinBatch = 2  QueueCap = 1
INVARIANTS TypeOK ConsumedIsAccounted BatchesDisjoint ModelCallSafety HandoverSafety
SYMMETRY Symmetry
CHECK_DEADLOCK FALSE
