SPECIFICATION MCLiveSpec
CONSTANTS
    c1 = c1  c2 = c2  c3 = c3
    Callers = {c1, c2, c3}
    RunMayThrow = TRUE
    j1 = j1  j2 = j2  s1 = s1  s2 = s2  here = here
    NoJob = NoJob
INVARIANTS OneRun WaitersHaveRun
PROPERTIES ResolvedIsCovered EveryCallSettles EveryJobSettles
CHECK_DEADLOCK FALSE
