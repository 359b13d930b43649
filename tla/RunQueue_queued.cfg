\* A full queue, and nothing that goes wrong.
CONSTANTS
    r1 = r1  r2 = r2
    Runs = {r1, r2}
    MaxRetries = 1
    MaxDepth = 1
    MaxStalls = 1
    NoJob = NoJob
    MaxFaults = 0
    MaxLosses = 0
SPECIFICATION QueueSpec
INVARIANTS QueuedRowHasJob
CHECK_DEADLOCK FALSE
