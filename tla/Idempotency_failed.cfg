\* The commit that creates the transfer is not acknowledged.
SPECIFICATION FairSpec
CONSTANTS
    a1 = a1  a2 = a2  a3 = a3  b1 = b1  x1 = x1
    k1 = k1  k2 = k2  body = body  other = other  bad = bad
    Key = {k1, k2}
    Body = {body, other, bad}
    Invalid = {bad}
    Request <- Same
    KeyOf <- SameKeys
    BodyOf <- SameBodies
    FaultSteps = {}
    LossSteps = {"create"}
    CrashSteps = {}
    MaxFaults = 1
PROPERTIES
    FailedKeyIsReleased
\* When every client has its answer the system rests.
CHECK_DEADLOCK FALSE
