\* Every fault may strike once: a submit, a run and a report, two workers with one slot.
CONSTANTS
    e1 = e1  e2 = e2  e3 = e3
    a1 = a1
    w1 = w1  w2 = w2
    Execs = {e1, e2, e3}
    Attempts = {a1}
    AttemptOf <- ThreeOfOne
    KindOf <- AllKinds
    Workers = {w1, w2}
    None = None
    Concurrency = 1
    MaxPending = 1
    MaxTries = 2
    Outcomes = {"AC"}
    Tabs = 2
    MaxVersion = 1
    Resettable = {a1}
    MaxFaults <- OneOfEach
SPECIFICATION Spec
INVARIANTS
    OneCarrier
    StrandedOnlyByFault
    FinishedIsFinal
SYMMETRY WorkerSymmetry
CHECK_DEADLOCK FALSE
