\* Duplicates, a reused key and an invalid request; anything may fail anywhere.
SPECIFICATION FairSpec
CONSTANTS
    a1 = a1  a2 = a2  a3 = a3  b1 = b1  x1 = x1
    k1 = k1  k2 = k2  body = body  other = other  bad = bad
    Key = {k1, k2}
    Body = {body, other, bad}
    Invalid = {bad}
    Request <- Mixed
    KeyOf <- MixedKeys
    BodyOf <- MixedBodies
    FaultSteps <- Anywhere
    LossSteps <- Anywhere
    CrashSteps <- Anywhere
    MaxFaults = 2
INVARIANTS
    KeyHeldOnce
    AcceptedIsOwn
    IdemInv
PROPERTIES
    SuccessIsFinal
    AnsweredOrBlocked
\* When every client has its answer the system rests.
CHECK_DEADLOCK FALSE
