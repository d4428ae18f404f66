CONSTANTS
    MaxPrompts = 1
    MaxClock = 2
    Routes <- PlanRoute
    InternalPlans = TRUE
    ApprovalCapacity = 2
SPECIFICATION Spec
INVARIANTS
    QuestionNotLost
