\* Legs posted twice, reversals that race, rejected calls and an account opened later; lock
\* waits, deadlocks, retries and a fault.
SPECIFICATION FairSpec
CONSTANTS
    d1 = d1  d2 = d2  v1 = v1  v2 = v2  w1 = w1  y1 = y1  z1 = z1
    k1 = k1  k2 = k2  k3 = k3  k4 = k4
    alice = alice  bob = bob  fees = fees  settlement = settlement
    Post = {d1, d2, v1, v2, w1, y1, z1}
    Key = {k1, k2, k3, k4}
    Account = {alice, bob, fees, settlement}
    Starts <- AllStarts
    KeyOf <- KeysOf
    ParentOf <- ParentsOf
    EntriesOf <- LinesOf
    MaxInt = 3
    MaxTries = 2
    MaxFaults = 1
INVARIANTS
    CacheMatchesJournal
    PostedOnce
    AnswerIsTrue
    JournalBalanced
    LedgerInv
PROPERTIES
    IsSerial
    EveryCallAnswered
\* When every call has its answer the system rests.
CHECK_DEADLOCK FALSE
