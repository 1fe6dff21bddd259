\* Two overlapping requests of every kind over one build action and one token.
SPECIFICATION Spec
CONSTANTS
    a1 = a1
    a2 = a2
    r1 = r1
    r2 = r2
    w1 = w1
    t1 = t1
    Action = {a1}
    Build = {a1}
    Install = {}
    Provisionable = {a1}
    Request = {r1, r2}
    Worker = {}
    Token = {t1}
    ClientOutcome = {"success"}
    Transient = FALSE
    MaxCrashes = 0
SYMMETRY RequestSymmetry
CHECK_DEADLOCK FALSE
INVARIANTS TypeOK ClosedHasOutcome
PROPERTIES ClosedIsPermanent FrozenOnceDrained
