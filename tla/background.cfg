SPECIFICATION Spec
CONSTANTS
    Nodes = {n1, n2}
    Ttl = 12
    StartAges = {0, 7, 8}
    Latency = 0
    MaxTime = 24
    MaxFaults = 1
    NoDeadline = NoDeadline
    Slices = {"slice"}
    GraphKey = "graph"
    Writers = {w1, w2}
    Readers = {r1}
    MaxVersion = 3
    NoResponse = NoResponse
    Editors = {"e1", "e2"}
    IndexedVertices = {1, 2}
    MaxEdits = 2
    MaxReindex = 1
    Repositories = {"repo"}
    OpenshiftProjects = {"project"}
    Parts = {1, 2}
    Refreshes = {1, 2}
    Workers = {1, 2}
    MaxChanges = 1
    MaxSwitches = 1
    MaxSyncFaults = 1
    People = {"ann", "bob"}
    EdgeToRoles <- MCEdgeToRoles
    Holdings = {{}, {"developer"}, {"owner", "lead-developer"}}
    OldRoles = {"write", "triage"}
    MaxGrants = 1
    MaxGithubFaults = 1
    CollectionOf <- MCCollectionOf
    PossibleEdges <- MCPossibleEdges
CHECK_DEADLOCK FALSE
INVARIANTS TypesOK DeadlineNeverLate TokenStaysAlive NothingStale IndexIsCurrent SyncAtMeansSynced
    SyncedUsersMatch PermissionsFollowPaths RolePreviewIsTrue RefreshFindsTargets
PROPERTIES QueuedIsSynced
