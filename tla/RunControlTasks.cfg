CONSTANTS
    MaxPrompts = 3
    MaxClock = 2
    Routes <- TaskRoutes
    InternalPlans = FALSE
    ApprovalCapacity = 2
SPECIFICATION FairSpec
INVARIANTS
    OneRun
    QuestionNotLost
PROPERTIES
    DecisionEndsWait
    QueueDrains
