CONSTANTS
    MaxPrompts = 3
    MaxClock = 2
    Routes <- AllRoutes
    InternalPlans = FALSE
    ApprovalCapacity = 2
SPECIFICATION Spec
PROPERTIES
    QueuedWhileProcessing
