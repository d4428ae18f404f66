CONSTANTS
    c1 = c1
    c2 = c2
    a1 = a1
    a2 = a2
    Calls <- TwoCalls
    Agents <- TwoAgents
    SharedAgents = {a2}
    MaxIterations = 2
    MaxTools = 2
SPECIFICATION FairSpec
INVARIANTS
    TypeOK
    ToolCallsAnswered
    HistoryTrue
    RightPrompt
PROPERTIES
    CallsEnd
