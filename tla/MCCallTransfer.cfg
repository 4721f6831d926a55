SPECIFICATION Spec
CONSTANTS
    Agent = {a1, a2, visitor}
    Member = {a1, a2}
    Transfer = {t1, t2}
    Log = {l1, l2}
    Request = {q1, q2}
    MaxFailures = 1
    None = None
SYMMETRY Symmetry
INVARIANTS
    OneWinner
    LogAgentTookCall
    TakenIsRecorded
    LogsBounded
PROPERTIES
    MissedOnlyIfUnseen
    OfferSpec
CHECK_DEADLOCK FALSE
