SPECIFICATION FairSpec
CONSTANTS
    e1 = e1
    e2 = e2
    e3 = e3
    r1 = r1
    r2 = r2
    c1 = c1
    c2 = c2
    NoOne = NoOne
    Events = {e1, e2}
    Relays = {r1}
    Consumers = {c1, c2}
    Poison = {e1}
    BatchSize = 2
    MaxAttempts = 2
    MaxFaults = 1
    MaxReplays = 1
    HasDlq = TRUE
INVARIANTS
    NoPhantomEvent
    AppliedAtMostOnce
    OffsetCoversHandled
    OrderKept
    RetriesAbsorbFaults
PROPERTIES
    DeliversReliably
    EventuallySettled
\* The system may stop: nothing to publish, nothing to consume.
CHECK_DEADLOCK FALSE
