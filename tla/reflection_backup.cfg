SPECIFICATION MCSpec
CONSTANTS
    r1 = r1  r2 = r2  r3 = r3  NoRun = NoRun
    Records = {r1, r2, r3}
    Large = {r3}
    Room = 2
    MinObservations = 2
    SeenCap = 2
    ProcessedCap = 2
    MaxAttempts = 2
    MaxNotes = 4
    MaxStarts = 4
    MaxFaults = 2
    MaxEntries = 3
    ChunkCap = 2
    MaxBackupFaults = 2
    MaxPlants = 2
INVARIANTS ReflectionSafety NoSecondSummary 
PROPERTIES BackupKeepsOthers
CHECK_DEADLOCK FALSE
