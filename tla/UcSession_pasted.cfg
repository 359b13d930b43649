\* A cookie pasted while the old session's facility is cached.
CONSTANTS
    c1 = c1  c2 = c2  k1 = k1  k2 = k2  f1 = f1  f2 = f2  a1 = a1
    Callers = {c1}
    Pingers = {c1}
    Admins = {a1}
    Cookies = {k1, k2}
    Facilities = {f1, f2}
    NoCookie = NoCookie
    NoFacility = NoFacility
    Override = NoCookie
    OneJobAtATime = TRUE
    ScriptedLogin = FALSE
    RefusesSwitch = FALSE
    MaxRestarts = 0
    MaxFaults = 0
SPECIFICATION Spec
INVARIANTS RanWhereAsked
