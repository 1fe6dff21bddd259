\* Two overlapping writers, one of which may die.
SPECIFICATION Spec
CONSTANTS
    v1 = v1
    v2 = v2
    v3 = v3
    v4 = v4
    e1 = e1
    e2 = e2
    e3 = e3
    owns = owns
    plain = plain
    w1 = w1
    w2 = w2
    Vertex = {v1, v2, v3}
    Edge = {e1}
    Name = {owns, plain}
    OneToOne = {plain}
    Cascade = {owns}
    Deletable = {v1, v3}
    SameKey = {{v1, v3}}
    Seed = {v1, v2}
    Writer = {w1, w2}
    MaxFaults = 2
    None = None
SYMMETRY IdSymmetry
CHECK_DEADLOCK FALSE
INVARIANTS TypeOK StrandedByFaults
PROPERTIES GoneForGood
