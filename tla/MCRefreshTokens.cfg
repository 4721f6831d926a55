SPECIFICATION Spec
CONSTANTS
    Login = {s1, s2}
    Claims = {c1, c2}
    Row = {r1, r2, r3, r4}
    Request = {q1, q2}
    MaxSecond = 1
    MaxFailures = 1
    None = None
SYMMETRY Symmetry
INVARIANTS
    OneTokenPerSession
PROPERTIES
    SessionSpec
CHECK_DEADLOCK FALSE
