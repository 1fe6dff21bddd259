\* Two intentions to close, three requests for a secret id, three intentions to open.
SPECIFICATION Spec
CONSTANTS
    Intentions = {"i1", "i2"}
    Finalizers = {"f1", "f2"}
    Scenarios <- MCScenarios
    MaxEmbedded = 2
    MaxApprovals = 1
    MaxApproved = 1
    NoBuild = NoBuild
    NoInstance = NoInstance
    NoIntention = NoIntention
    Provisions = {p1, p2, p3}
    Foreign = {0}
    MaxVaultFaults = 2
    CollectionOf <- MCCollectionOf
    PossibleEdges = {}
    Openers = {1, 2}
    Requests <- MCRequests
    Configured <- MCConfigured
    Changing <- MCChanging
    Missing = {"unknown"}
    MaxOpens = 3
    Unset = Unset
CHECK_DEADLOCK FALSE
INVARIANTS TypesOK OneCurrentBuild ClosedRefersToBuild OneInstance NewestSurvives
     PromotedWhereNamed
PROPERTIES RecordsKept InstallationIsLinked SupersededIsDestroyed
