CONSTANTS
    Providers = {p, q}
    Keys = {k}
    NoKey = NoKey
    Familiar = {p}
    Models = {m}
    Roles = {planner}
    Planner = planner
    Unset = Unset
    MaxAttempts = 2
    MaxOutside = 1
SPECIFICATION Spec
INVARIANTS
    TypeOK
    ConnectingMeansWaiting
    StoredKeyIsUsed
    ListsCurrent
    UnusableIsAnnounced
PROPERTIES
    FailureKeepsRoles
