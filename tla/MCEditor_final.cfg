\* The three calls of Finish race.
CONSTANTS
    Langs = {py, cpp}
    FirstLang = py
    None = None
    MaxEdits = 1
    MaxCalls = 2
    MayFail = FALSE
SPECIFICATION Spec
INVARIANT FinalCode
CHECK_DEADLOCK FALSE
