\* Turns and cancels, no faults.
CONSTANTS
    s1 = s1  s2 = s2  h1 = h1
    Turns = {s1, s2}
    Sockets = {s1, s2}
    None = None
    MaxTurns = 2
    Tabs = 1
    MaxFaults <- Calm
SPECIFICATION Spec
INVARIANT AnswerAssured
CHECK_DEADLOCK FALSE
