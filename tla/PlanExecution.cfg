CONSTANTS
    a = a
    b = b
    c = c
    d = d
    f = f
    out = out
    Ids <- MCIds
    Files = {f, out}
    Outside = {out}
    Plans <- MCPlans
    Editable = {d}
    MaxAttempts = 3
SPECIFICATION FairSpec
INVARIANTS
    TypeOK
    ReviewsCount
    DeadlockExact
    BoardTellsTruth
PROPERTIES
    DoneIsEarned
    KeepsPromise
    RunEnds
