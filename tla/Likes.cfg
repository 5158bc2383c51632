SPECIFICATION FairRowSpec
CONSTANTS
    Users = {a, b}
    Devices = {d1, d2}
    NoDevice = NoDevice
    MaxTaps = 2
    MaxDeaths = 1
INVARIANTS
    TogglesAddUp
PROPERTIES
    RowsSettle
CHECK_DEADLOCK FALSE
