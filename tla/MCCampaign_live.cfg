SPECIFICATION OrderedSpec
CONSTANTS
    Recipient = {r1, r2}
    JobId = {1, 2}
    Request = {q1, q2}
    Ops = {"start", "add"}
    Concurrency = 2
    Attempts = 2
    MaxFaults = 1
    MaxEvents = 0
PROPERTIES
    RunEnds
    JobsEnd
CHECK_DEADLOCK FALSE
