\* Two transfers share a reference; the callback of the first finds the second.
SPECIFICATION Spec
CONSTANTS
    t1 = t1  t2 = t2  r1 = r1  r2 = r2
    alice = alice  bob = bob  ghost = ghost
    p1 = p1  p2 = p2  h1 = h1  h2 = h2
    Transfer <- TwoTransfers
    Ref = {r1, r2}
    Account = {alice, bob, ghost}
    RefOf <- SharedRef
    SourceOf <- SecondFromGhost
    DestOf <- BothToBob
    InitialLedgers = {{alice, bob}}
    OpenableAccounts = {}
    Poller = {p1}
    Handler = {h1, h2}
    MaxAttempts = 2
    MaxFaults = 0
    MaxRows = 5
INVARIANTS
    FailedMovedNoMoney
\* When every transfer has ended and no request comes in, the system rests.
CHECK_DEADLOCK FALSE
