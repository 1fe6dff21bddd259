\* The job beside one request; whichever of the two may die once.
SPECIFICATION FairSpec
CONSTANTS
    j1 = j1
    j2 = j2
    j3 = j3
    j4 = j4
    acc = acc
    r1 = r1
    r2 = r2
    w1 = w1
    Jti = {j1, j2, j3}
    Account = {acc}
    Request = {r1}
    Worker = {w1}
    Ttl = {9}
    Grace = 1
    MaxTime = 1
    MaxCrashes = 1
    None = None
CHECK_DEADLOCK FALSE
PROPERTY TwoTokensRemain
