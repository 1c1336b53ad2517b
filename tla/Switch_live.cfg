\* Crashes, lost replies and failed calls, more of them than delivery attempts;
\* a destination that exists, or never does.
SPECIFICATION FairSpec
CONSTANTS
    t1 = t1  t2 = t2  r1 = r1  r2 = r2
    alice = alice  bob = bob  ghost = ghost
    p1 = p1  p2 = p2  h1 = h1  h2 = h2
    Transfer <- OneTransfer
    Ref = {r1}
    Account = {alice, bob, ghost}
    RefOf <- OneRefOf
    SourceOf <- FromAlice
    DestOf <- ToBob
    InitialLedgers = {{alice, bob}, {alice}}
    OpenableAccounts = {}
    Poller = {p1}
    Handler = {h1}
    MaxAttempts = 2
    MaxFaults = 3
    MaxRows = 5
INVARIANTS
    MoneyInv
    ParkedOnlyByFaults
PROPERTIES
    EndsOrParked
    RestartRevives
\* When every transfer has ended and no request comes in, the system rests.
CHECK_DEADLOCK FALSE
