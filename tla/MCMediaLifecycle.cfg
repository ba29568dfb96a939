CONSTANTS
    p1 = p1
    p2 = p2
    v1 = v1
    s1 = s1
    s2 = s2
    d1 = d1
    d2 = d2
    Photos = {p1}
    Videos = {v1}
    Poison = {}
    Unreadable = {}
    Previews = {p1}
    Pollers = {s1, s2}
    Deleters = {d1, d2}
    MaxAttempts = 2
    AnalysisResult = "COMPLETED"
    MaxFaults = 1
    None = None
SPECIFICATION Spec
SYMMETRY Symmetry
INVARIANTS
    TypeOK
    StatusesAgree
    ReadyIsComplete
    RowsAreBacked
    OnePollPerJob
    NoDuplicateRows
    WorkedAssetStays
    DeletedOriginalIsGone
PROPERTIES
    ImplementsJobs
    GivesUpLate
    FilesAreKept
