SPECIFICATION Spec
CONSTANTS
    Login = {s1}
    Claims = {c1}
    Row = {r1, r2, r3}
    Request = {q1, q2}
    MaxSecond = 1
    MaxFailures = 0
    None = None
SYMMETRY Symmetry
INVARIANTS
    LogoutEndsSession
CHECK_DEADLOCK FALSE
