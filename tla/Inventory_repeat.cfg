\* An attempt of an inward receipt fails and is retried.
CONSTANTS
    c1 = c1  c2 = c2  p1 = p1  p2 = p2  k1 = k1  k2 = k2
    Callers = {c1, c2}
    Keys <- MCKeys
    Effects <- MCEffects
    Values <- MCValues
    Null = "null"
    NoKey = NoKey
    NoValue = NoValue
    OneAtATime = TRUE
    MaxAborts = 1
    Requests = {"r"}
    OpOf <- MCInward
    Putaway = FALSE
    GrnTrail = TRUE
    Codes = {k1, k2}
    Items = 1
    Packages = {p1, p2}
    Refusable = {}
    NoJob = NoJob
    MaxAttempts = 2
SPECIFICATION PipelineSpec
SYMMETRY Symmetry
INVARIANTS NeverTwice
CHECK_DEADLOCK FALSE
