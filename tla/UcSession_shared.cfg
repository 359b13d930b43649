\* Concurrent callers of one client, an env override and a scripted login.
CONSTANTS
    c1 = c1  c2 = c2  k1 = k1  k2 = k2  f1 = f1  f2 = f2  a1 = a1
    Callers = {c1, c2}
    Pingers = {c1, c2}
    Admins = {}
    Cookies = {k1, k2}
    Facilities = {f1, f2}
    NoCookie = NoCookie
    NoFacility = NoFacility
    Override = k1
    OneJobAtATime = FALSE
    ScriptedLogin = TRUE
    RefusesSwitch = TRUE
    MaxRestarts = 0
    MaxFaults = 1
SPECIFICATION Spec
INVARIANTS FacilityHonoured
