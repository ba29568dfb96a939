CONSTANTS
    r1 = r1
    r2 = r2
    c1 = c1
    c2 = c2
    c3 = c3
    Deliveries = {r1, r2}
    Calls = {c1, c2, c3}
    Legacy = FALSE
    HasThumbnail = TRUE
SPECIFICATION Spec
SYMMETRY Symmetry
INVARIANTS
    TypeOK
    RowsAreWhole
    AttemptsWereServed
    NothingLostAlone
