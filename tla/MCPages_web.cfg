\* The exam page with a code and a report problem: two executions, a reload or a failure; the
\* closing dialog with two requests and a failure; two loads; the tabs and the countdown.
\* The pages of the staff: two pages open at the settings, rows and problems by twos.
CONSTANTS
    None = None
    code = code  report = report  table = table  notes = notes
    Coded = {code}  Reports = {report}  ExecKinds = {"run", "submit"}
    FirstProblem = code  Files <- FilesOf
    ProblemList <- CodeThenReport  Recorded <- SnapshotsOf
    Emails = {"a", "b"}  Tables <- TwoTables
    MaxPending = 1
    MaxExecutions = 2
    MaxSurprises = 1
    MaxListed = 2
    MaxLists = 2
    MaxMishaps = 1
    MaxSize = 2
    Slight = 1
    MaxOrphans = 1
    MaxOlder = 1
    MaxLoads = 2
    Deadlines = {8, 11}
    MaxLatency = 5
    Languages = 2
    MaxItems = 3
    MaxEdits = 2
    MaxFiles = 3
    MaxFileChanges = 4
    Admins = {A, B}
    MaxProviders = 2
    MaxChanges = 2
    MaxCalls = 2
    MaxRows = 2
    MaxSteps = 4
    Users = {u, v}
    MaxOthers = 2
    MaxVisits = 2
    MaxFormChanges = 2
    MaxSnapshots = 2
    MaxOpinions = 2
    MaxPosts = 2
    MaxReviewMishaps = 2
SPECIFICATION MCSpec
INVARIANTS
    BusyMeansWork
    ConsoleShowsNewest
    DialogTruthful
    WatchSound
    DeskSound
    
    SettingsSound
    CredentialsSound
    FormSound
    ReviewSound
CHECK_DEADLOCK FALSE
