\* Three tokens of one account, one request at a time beside the lifecycle job.
SPECIFICATION Spec
CONSTANTS
    j1 = j1
    j2 = j2
    j3 = j3
    j4 = j4
    acc = acc
    r1 = r1
    r2 = r2
    w1 = w1
    Jti = {j1, j2, j3}
    Account = {acc}
    Request = {r1}
    Worker = {w1}
    Ttl = {1, 9}
    Grace = 1
    MaxTime = 2
    MaxCrashes = 0
    None = None
SYMMETRY JtiSymmetry
CHECK_DEADLOCK FALSE
INVARIANTS TypeOK FlaggedIsBlocked
PROPERTIES RefusedForGood RotationIsFair
