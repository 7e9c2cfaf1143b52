\* Three questions, four tool calls in answers of one or two, three mishaps; a history
\* of five messages and turns of two rounds, so that both limits are met.
CONSTANTS
    None = None
    MaxIterations = 2
    MaxItems = 5
    MaxFailures = 2
    MaxBatch = 2
    MaxCalls = 4
    MaxQuestions = 3
    MaxMishaps = 3
SPECIFICATION Spec
INVARIANTS
    HistoryWellFormed
    ToolsToldTruly
PROPERTIES
    PanelUnlocks
CHECK_DEADLOCK FALSE
