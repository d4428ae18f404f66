CONSTANTS
    a = a
    b = b
    c = c
    d = d
    f = f
    out = out
    Ids <- MCIds
    Files = {f, out}
    Outside = {out}
    Plans <- MCPlans
    Editable = {d}
    MaxAttempts = 3
SPECIFICATION Spec
INVARIANT DeadlockMeansUnresolvable
