CONSTANTS
    MaxPrompts = 3
    MaxClock = 2
    Routes <- AllRoutes
    InternalPlans = TRUE
    ApprovalCapacity = 2
SPECIFICATION FairSpec
INVARIANTS
    TypeOK
    FlagsFollowRun
    PlanGate
PROPERTIES
    CancelReachesLoop
