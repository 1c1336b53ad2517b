\* Two pollers, a crash or a shutdown, and a lost write.
SPECIFICATION FairSpec
CONSTANTS
    Event = {1, 2}
    Poller = {p1, p2}
    Batch = 2
    Lease = 2
    MaxAttempts = 3
    BaseBackoff = 2
    MaxBackoff = 3
    MaxFaults = 1
INVARIANTS
    TypeOK
    OneHolder
    ParkedForCause
    OutageSurvived
PROPERTIES
    EverySettles
    DeliversLikeQueue
\* When every event has been published or parked, the pollers rest.
CHECK_DEADLOCK FALSE
