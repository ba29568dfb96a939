CONSTANTS
    k1 = k1
    k2 = k2
    k3 = k3
    small = small
    medium = medium
    large = large
    Keys = {k1, k2, k3}
    Values = {small, medium, large}
    SizeOf <- Sizes
    MaxBytes = 3
    None = None
SPECIFICATION Spec
SYMMETRY Symmetry
INVARIANTS
    TypeOK
    BytesAreCounted
    KeepsTheMostRecent
    NothingIsForgotten
PROPERTIES
    ImplementsContract
