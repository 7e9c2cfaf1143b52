\* Two requests overlap on two attempts; the assessment opens and ends in between.
CONSTANTS
    Attempts = {a1, a2}
    Requests = {r1, r2}
    None = None
    StartsAt = 1
    EndsAt = 2
    Duration = 1
    Grace = 1
    MaxTime = 4
    MaxLog = 2
SYMMETRY Symmetry
SPECIFICATION Spec
INVARIANTS
    OneLiveUnlessRaced
    HistoryHasHead
    LogTellsEnd
    ClosedInTime
PROPERTY ImplementsGate
CHECK_DEADLOCK FALSE
