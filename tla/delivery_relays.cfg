SPECIFICATION Spec
CONSTANTS
    e1 = e1
    e2 = e2
    e3 = e3
    r1 = r1
    r2 = r2
    c1 = c1
    c2 = c2
    NoOne = NoOne
    Events = {e1, e2, e3}
    Relays = {r1, r2}
    Consumers = {c1}
    Poison = {e1}
    BatchSize = 2
    MaxAttempts = 1
    MaxFaults = 2
    MaxReplays = 0
    HasDlq = FALSE
INVARIANTS
    NoEventLost
    
    SentIsOnTopic
\* The system may stop: nothing to publish, nothing to consume.
CHECK_DEADLOCK FALSE
