\* One worker: two jobs of a pipeline, or one challan.
CONSTANTS
    o1 = o1  o2 = o2  u1 = u1  u2 = u2  w1 = w1  w2 = w2  w3 = w3
    f1 = f1  f2 = f2  f3 = f3  i1 = i1  c1 = c1  c2 = c2
    Queues <- MCQueues
    Orders = {o1, o2}
    Published = {o1}
    NoOrder = NoOrder
    Names = {"Master", "Master_IR"}
    Candidates = {"Master", "Master_IR"}
    Configured = "Master"
    Typed <- MCTyped
    MaxSos = 1
    MaxTabs = 2
    MaxRows = 3
    MaxJobs = 2
    MaxEdits = 1
    MaxFaults = 1
    Users = {u1, u2}
    Granted = {u1}
    Shared = shared
    NoBox = NoBox
    SalesOrders = {o1, o2}
    Warehouses = {w1, w2, w3}
    NoWarehouse = NoWarehouse
    UcWarehouse <- MCUcWarehouse
    Directory <- MCDirectory
    SameName <- MCSame
    Sheets <- MCSheets
    PartName <- MCPart
    MaxRuns = 2
    MaxMailEdits = 1
    MaxMailFaults = 1
    HopOrders = {o1, o2}
    Facilities = {f1, f2, f3}
    NoFacility = NoFacility
    Preferred <- MCPreferred
    Listed <- MCListed
    Opp = {f1, f2}
    Invoices = {i1}
    InvoicesOf <- MCInvoicesOf
    MaxHopRows = 2
    MaxHopJobs = 2
    MaxMoves = 1
    MaxHopFaults = 1
    Notes <- MCNotes
    NoNote = NoNote
    NoteCodes = {c1, c2}
    Prints = 3
    FirstPageRows = 2
    NextPageRows = 2
    FirstRoom = 64
    NextRoom = 60
    MaxChallans = 1
SPECIFICATION MCSpec
INVARIANTS JobsTypeOK OneRowPerOrder InvoiceOnItsRow KnownOnMaster MirrorKept JoinsOwnThread DraftedOnce  OwnAddress AnswersTrue RowsTellTruth RebuildIsFaithful
PROPERTIES KeepsOrders BillsOnce
CHECK_DEADLOCK FALSE
