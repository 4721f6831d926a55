SPECIFICATION FairSpec
CONSTANTS
    Dispatch = {d1, d2}
    Webhook = {w1, w2}
    Waiter = {x1}
    MaxConcurrent = 2
    MaxRetries = 2
INVARIANTS
    CounterExact
    QueueHasWaker
    HalfTheSlotsBusy
    NoWaiterForgotten
    ResultsComplete
PROPERTIES
    ReleasedWhenIdle
    PoolSpec
    CallsReturn
    PoolAllEnd
CHECK_DEADLOCK FALSE
