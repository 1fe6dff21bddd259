\* One writer at a time over four vertices and three edges.
SPECIFICATION SerialSpec
CONSTANTS
    v1 = v1
    v2 = v2
    v3 = v3
    v4 = v4
    e1 = e1
    e2 = e2
    e3 = e3
    owns = owns
    plain = plain
    w1 = w1
    w2 = w2
    Vertex = {v1, v2, v3, v4}
    Edge = {e1, e2, e3}
    Name = {owns, plain}
    OneToOne = {plain}
    Cascade = {owns}
    Deletable = {v1, v2, v3, v4}
    SameKey = {{v3, v4}}
    Seed = {v1, v2, v3}
    Writer = {w1}
    MaxFaults = 0
    None = None
SYMMETRY IdSymmetry
CHECK_DEADLOCK FALSE
INVARIANTS WholeAtRest Unambiguous CascadeSparesShared Acyclic

