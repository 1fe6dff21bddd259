\* One request and the expiry job, crashes included, under fairness.
SPECIFICATION FairSpec
CONSTANTS
    a1 = a1
    a2 = a2
    r1 = r1
    r2 = r2
    w1 = w1
    t1 = t1
    Action = {a1}
    Build = {a1}
    Install = {}
    Provisionable = {}
    Request = {r1}
    Worker = {w1}
    Token = {}
    ClientOutcome = {"success"}
    Transient = TRUE
    MaxCrashes = 2
CHECK_DEADLOCK FALSE
PROPERTIES ExpiredIsClosed
