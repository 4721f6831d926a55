SPECIFICATION Spec
CONSTANTS
    Inbound = {i1, i2}
    Unknown = {i2}
    Contact = {c1, c2, c3}
    Message = {m1}
    Request = {q1, q2}
    MaxFailures = 1
    None = None
SYMMETRY Symmetry
INVARIANTS
    AckedIsStored
    UnreadIsFlagged
    ContactsBounded
    PendingHasJob
PROPERTIES
    LifeSpec
CHECK_DEADLOCK FALSE
