SPECIFICATION Spec
CONSTANTS
    Agent = {a1, a2}
    FullAccess = {a1}
    Contact = {c1}
    Transfer = {t1, t2}
    Request = {q1, q2}
    MaxFailures = 1
    None = None
SYMMETRY Symmetry
INVARIANTS
    AwayHoldsOnlyUnseen
    SecondActiveOnlyByOverlap
CHECK_DEADLOCK FALSE
