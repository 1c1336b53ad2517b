\* Two legs and a lifecycle row written while two exports run.
SPECIFICATION Spec
CONSTANTS
    split = split  large = large  transfer = transfer
    alice = alice  carol = carol  bob = bob  dave = dave  fees = fees  settlement = settlement  merchant = merchant
    Leg = {split, large}
    Lifecycle = {transfer}
    Lines <- TwoLegs
    MaxInt = 4
    MaxTime = 2
    MaxExports = 2
SYMMETRY Alike
INVARIANTS
    SettledWindowIsComplete
    LaterExportAgrees
\* When all is written and exported, nothing is left to do.
CHECK_DEADLOCK FALSE
