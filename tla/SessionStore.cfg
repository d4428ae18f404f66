CONSTANTS
    Sessions = {s1, s2}
    Prompts = {a}
    Commands = {c}
    Unfinished = {u}
    Empty = Empty
    Limit = 2
    Models = {m1, m2}
    Roles = {r1, r2}
    Unset = Unset
    Zones <- SomeZones
    Second = 2
    MaxClock = 5
SPECIFICATION Spec
INVARIANTS
    TypeOK
    RecallIsSafe
    HistoryKept
    LatestIsLastChosen
    ReadInOrder
    NoOrphans
CHECK_DEADLOCK FALSE
