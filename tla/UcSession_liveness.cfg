\* Under fairness: calls end, a pasted cookie takes over.
CONSTANTS
    c1 = c1  c2 = c2  k1 = k1  k2 = k2  f1 = f1  f2 = f2  a1 = a1
    Callers = {c1, c2}
    Pingers = {c1, c2}
    Admins = {a1}
    Cookies = {k1, k2}
    Facilities = {f1}
    NoCookie = NoCookie
    NoFacility = NoFacility
    Override = NoCookie
    OneJobAtATime = TRUE
    ScriptedLogin = FALSE
    RefusesSwitch = FALSE
    MaxRestarts = 0
    MaxFaults = 1
SPECIFICATION FairSpec
PROPERTIES PasteHeals CallEnds
