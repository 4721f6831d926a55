SPECIFICATION Spec
CONSTANTS
    Recipient = {r1}
    JobId = {j1, j2}
    Request = {q1, q2}
    Ops = {"start", "cancel", "retry", "add", "remove", "delete", "status"}
    Concurrency = 2
    Attempts = 2
    MaxFaults = 1
    MaxEvents = 1
SYMMETRY Symmetry
INVARIANTS
    SentMeansAccepted
    OneSendPerDelivery
    ScheduledHasNoRecipients
CHECK_DEADLOCK FALSE
