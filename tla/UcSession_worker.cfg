\* The worker as deployed: one job at a time, no scripted login.
CONSTANTS
    c1 = c1  c2 = c2  k1 = k1  k2 = k2  f1 = f1  f2 = f2  a1 = a1
    Callers = {c1, c2}
    Pingers = {c1, c2}
    Admins = {a1}
    Cookies = {k1, k2}
    Facilities = {f1, f2}
    NoCookie = NoCookie
    NoFacility = NoFacility
    Override = NoCookie
    OneJobAtATime = TRUE
    ScriptedLogin = FALSE
    RefusesSwitch = FALSE
    MaxRestarts = 1
    MaxFaults = 1
SPECIFICATION Spec
SYMMETRY Symmetry
INVARIANTS TypeOK AtMostOnce RetryRanWhereAsked VerdictOnUsedCookie
