\* One process at a time, two actions of different kinds.
SPECIFICATION SerialSpec
CONSTANTS
    a1 = a1
    a2 = a2
    r1 = r1
    r2 = r2
    w1 = w1
    t1 = t1
    Action = {a1, a2}
    Build = {a1}
    Install = {a2}
    Provisionable = {a1}
    Request = {r1}
    Worker = {w1}
    Token = {t1}
    ClientOutcome = {"success", "failure"}
    Transient = TRUE
    MaxCrashes = 1
CHECK_DEADLOCK FALSE
INVARIANTS TokensTriedByClose
PROPERTIES PromiseKept
