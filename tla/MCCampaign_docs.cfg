SPECIFICATION Spec
CONSTANTS
    Recipient = {r1}
    JobId = {j1, j2}
    Request = {q1, q2}
    Ops = {"start", "cancel", "add"}
    Concurrency = 2
    Attempts = 2
    MaxFaults = 0
    MaxEvents = 0
PROPERTY StartsOnlyDraftOrPaused
CHECK_DEADLOCK FALSE
