\* The same turns, one admitted at a time, with room for two questions.
CONSTANTS
    s1 = s1  s2 = s2  h1 = h1
    Turns = {s1, s2, h1}
    Sockets = {s1, s2}
    None = None
    MaxTurns = 2
    Tabs = 1
    MaxFaults <- Calm
SPECIFICATION FairSpec
INVARIANT HistoryInOrder
PROPERTIES
    RegistryReleased
    QuestionsSettle
CHECK_DEADLOCK FALSE
