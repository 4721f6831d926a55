SPECIFICATION Spec
CONSTANTS
    Recipient = {r1, r2}
    JobId = {j1, j2, j3, j4}
    Request = {q1, q2}
    Ops = {"start", "pause", "retry", "add"}
    Concurrency = 2
    Attempts = 2
    MaxFaults = 0
    MaxEvents = 0
SYMMETRY Symmetry
INVARIANTS
    CompletedLeavesNoneBehind
    NoRecipientForgotten
    FailedButSentHasCause
    CountersMatchRows
    PauseStopsSends
CHECK_DEADLOCK FALSE
