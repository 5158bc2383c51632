SPECIFICATION Spec
CONSTANTS
    Files <- SomeFiles
    Commands <- CommandLines
    Requests = {33, 48}
    Plausible = 4
    Packets <- SomePackets
    MaxPackets = 2
INVARIANTS TypeOK EncodesTheSource RefusesOnlyUnreadable ClosesAll RangesTrue
PROPERTY Ends
CHECK_DEADLOCK FALSE
