\* One question and two surprises, or two questions and none.
CONSTANTS
    p1 = p1  p2 = p2
    t1 = t1  t2 = t2
    None = None
    Sse = Sse
    Problems = {p1, p2}
    FirstProblem = p1
    Turns = {t1, t2}
    MaxFailures = 2
    Chunks = 1
    MaxGets = 1
    MaxBatch = 2
    MaxSurprises = 2
SPECIFICATION Spec
INVARIANTS
    RestShowsThread
    LockExplained
    TextInOrder
SYMMETRY TurnSymmetry
CHECK_DEADLOCK FALSE
