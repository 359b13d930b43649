\* Two requests, one retry each, a full queue, one fault and a lost lock, or two lost locks.
CONSTANTS
    r1 = r1  r2 = r2
    Runs = {r1, r2}
    MaxRetries = 1
    MaxDepth = 1
    MaxStalls = 1
    NoJob = NoJob
    MaxFaults = 1
    MaxLosses = 2
SPECIFICATION MCSpec
INVARIANTS QueueTypeOK OpenRunHasJob
PROPERTIES EndedStaysEnded AcceptedEnds
CHECK_DEADLOCK FALSE
