SPECIFICATION FairSpec
CONSTANTS
    Key = {hooks, profile, a1, a2}
    Dropped = {hooks}
    Kept = {a1, a2}
    Single = {a1, a2}
    Account = {a1, a2}
    Request = {q1, q2}
    MaxWrites = 2
    MaxFailures = 2
    None = None
INVARIANTS
    StaleHasCause
    OneDefault
PROPERTIES
    EventuallyFresh
CHECK_DEADLOCK FALSE
