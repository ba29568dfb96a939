CONSTANTS
    l1 = l1
    l2 = l2
    q1 = q1
    q2 = q2
    q3 = q3
    c1 = c1
    Logins = {l1, l2}
    Requests = {q1, q2, q3}
    Sockets = {c1}
    None = None
SPECIFICATION Spec
SYMMETRY Symmetry
INVARIANTS
    TypeOK
    LoginsAreUnique
    TokensReachTheirUser
