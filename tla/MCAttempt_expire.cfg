\* A submission and an expiry of the same attempt overlap.
CONSTANTS
    Attempts = {a1}
    Requests = {r1, r2}
    None = None
    StartsAt = 0
    EndsAt = 3
    Duration = 1
    Grace = 1
    MaxTime = 4
    MaxLog = 1
SPECIFICATION Spec
PROPERTY OnlyOpenExpire
CHECK_DEADLOCK FALSE
