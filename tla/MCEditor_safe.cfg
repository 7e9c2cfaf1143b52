\* Two edits or changes of language, calls in any order, one lost call or page.
CONSTANTS
    Langs = {py, cpp}
    FirstLang = py
    None = None
    MaxEdits = 2
    MaxCalls = 2
    MayFail = TRUE
SPECIFICATION Spec
CONSTRAINT BeforeStale
INVARIANTS
    MarkMeansStored
    WorkOnItsWay
PROPERTIES
    StoredTextAdvances
    ReopenedAsLeft
CHECK_DEADLOCK FALSE
