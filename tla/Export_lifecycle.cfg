\* One export of a window that holds a lifecycle row of the switch.
SPECIFICATION Spec
CONSTANTS
    split = split  large = large  transfer = transfer
    alice = alice  carol = carol  bob = bob  dave = dave  fees = fees  settlement = settlement  merchant = merchant
    Leg = {split, large}
    Lifecycle = {transfer}
    Lines <- TwoLegs
    MaxInt = 4
    MaxTime = 2
    MaxExports = 1
INVARIANTS
    MapsEveryTransaction
CHECK_DEADLOCK FALSE
