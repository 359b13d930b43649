\* The API beside the worker: boots, user administration, Google grants.
CONSTANTS
    a1 = a1  a2 = a2  q1 = q1  q2 = q2
    api = api  worker = worker  m1 = m1  m2 = m2
    Api = api
    Processes = {api, worker}
    Files <- MCFiles
    MaxBootFails = 1
    Emails = {a1, a2}
    NoRow = NoRow
    Bootstrap = {a1}
    FirstUsers <- MCUsers
    Bodies <- MCBodies
    Requests = {q1, q2}
    MaxRequests = 3
    MaxStates = 1
SYMMETRY Symmetry
SPECIFICATION ApiSpec
INVARIANTS AdminRemains RoleIsFresh GrantsToAsker MigratesOnce
CHECK_DEADLOCK FALSE
