\* A run that returns the goods and one that only dispatches, for one order.
CONSTANTS
    r1 = r1  r2 = r2
    Runs = {r1, r2}
    MaxRetries = 1
    MaxDepth = 2
    MaxStalls = 1
    NoJob = NoJob
    MaxFaults = 1
    MaxLosses = 1
    Orders = {"SO"}
    OrderOf <- MCOneOrder
    ReturnIn = {r1}
    Deliver = {r1}
SPECIFICATION ReturnSpec
INVARIANTS ReturnTypeOK AllocatesOnce ReturnsOnce SucceededIsThere
CHECK_DEADLOCK FALSE
