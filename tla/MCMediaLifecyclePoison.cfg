CONSTANTS
    p1 = p1
    p2 = p2
    v1 = v1
    s1 = s1
    s2 = s2
    d1 = d1
    d2 = d2
    Photos = {p1, p2}
    Videos = {}
    Poison = {p1}
    Unreadable = {}
    Previews = {}
    Pollers = {s1}
    Deleters = {}
    MaxAttempts = 2
    AnalysisResult = "COMPLETED"
    MaxFaults = 0
    None = None
SPECIFICATION FairSpec
PROPERTIES
    HealthyJobsEnd
