\* Two socket turns and an HTTP turn under a quota of one question.
CONSTANTS
    s1 = s1  s2 = s2  h1 = h1
    Turns = {s1, s2, h1}
    Sockets = {s1, s2}
    None = None
    MaxTurns = 1
    Tabs = 2
    MaxFaults <- OneOfEach
SPECIFICATION Spec
INVARIANTS
    OneTurnUnlessRaced
    QuotaOverrunBounded
    NoAnswerLost
    AnswersNotRepeated
PROPERTY ImplementsQuestionLedger
CHECK_DEADLOCK FALSE
