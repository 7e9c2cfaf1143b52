\* Three runs, two requests at once, room for one waiting execution; the
\* API, the worker and Redis may fail once each, nothing times out.
CONSTANTS
    e1 = e1  e2 = e2  e3 = e3
    a1 = a1
    w1 = w1  w2 = w2
    Execs = {e1, e2, e3}
    Attempts = {a1}
    AttemptOf <- ThreeOfOne
    KindOf <- ThreeRuns
    Workers = {w1}
    None = None
    Concurrency = 1
    MaxPending = 1
    MaxTries = 2
    Outcomes = {"AC"}
    Tabs = 2
    MaxVersion = 0
    Resettable = {a1}
    MaxFaults <- NoTimeouts
SPECIFICATION FairSpec
INVARIANT PendingOverrunBounded
PROPERTIES
    EveryExecutionFinishes
    SlotsComeBack
    ImplementsLedger
CHECK_DEADLOCK FALSE
