CONSTANTS
    r1 = r1
    r2 = r2
    r3 = r3
    r4 = r4
    k1 = k1
    k2 = k2
    Requests = {r1, r2, r3}
    Keys = {k1, k2}
    Executors = {"process"}
    Capacity = 2
    MaxRestarts = 0
    None = None
SPECIFICATION Spec
INVARIANTS
    CrashedPoolIsRestarted
