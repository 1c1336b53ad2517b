\* A crash between the settlement leg and the status, then an inconclusive status query.
SPECIFICATION Spec
CONSTANTS
    t1 = t1  t2 = t2  r1 = r1  r2 = r2
    alice = alice  bob = bob  ghost = ghost
    p1 = p1  p2 = p2  h1 = h1  h2 = h2
    Transfer <- OneTransfer
    Ref = {r1}
    Account = {alice, bob, ghost}
    RefOf <- OneRefOf
    SourceOf <- FromAlice
    DestOf <- ToBob
    InitialLedgers = {{alice, bob}}
    OpenableAccounts = {}
    Poller = {p1}
    Handler = {h1}
    MaxAttempts = 2
    MaxFaults = 1
    MaxRows = 5
INVARIANTS
    ReviewHoldsMoney
\* When every transfer has ended and no request comes in, the system rests.
CHECK_DEADLOCK FALSE
