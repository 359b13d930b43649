\* The same two runs, and nothing that goes wrong.
CONSTANTS
    r1 = r1  r2 = r2
    Runs = {r1, r2}
    MaxRetries = 1
    MaxDepth = 3
    MaxStalls = 1
    NoJob = NoJob
    MaxFaults = 0
    MaxLosses = 0
    Orders = {"SO"}
    OrderOf <- MCOneOrder
    ReturnIn = {r1}
    Deliver = {r1}
SPECIFICATION ReturnSpec
PROPERTIES AdvancesWhatIsMissing
CHECK_DEADLOCK FALSE
