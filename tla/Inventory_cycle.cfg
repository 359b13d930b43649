\* Two overlapping attempts of one full cycle.
CONSTANTS
    c1 = c1  c2 = c2  p1 = p1  p2 = p2  k1 = k1  k2 = k2
    Callers = {c1, c2}
    Keys <- MCKeys
    Effects <- MCEffects
    Values <- MCValues
    Null = "null"
    NoKey = NoKey
    NoValue = NoValue
    OneAtATime = FALSE
    MaxAborts = 1
    Requests = {"r"}
    OpOf <- MCFullCycle
    Putaway = TRUE
    GrnTrail = TRUE
    Codes = {k1, k2}
    Items = 1
    Packages = {p1, p2}
    Refusable = {"PTCOMPLETE"}
    NoJob = NoJob
    MaxAttempts = 2
SPECIFICATION PipelineSpec
SYMMETRY Symmetry
INVARIANTS PipelineTypeOK Agreement RecordedNeverReruns StepsInOrder OneDocument DoneIsApplied
PROPERTIES WritesOnce
CHECK_DEADLOCK FALSE
