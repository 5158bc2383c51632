SPECIFICATION Spec
CONSTANTS
    Wrap = 8
    FirstSeqs = {5}
    Arguments <- MCArguments
    Options <- MCOptions
    Strays <- MCStrays
    Port = 1234
    Type = 120
    MaxFaults = 1
    MaxStrays = 1
    MaxLate = 1
INVARIANTS RecordedInOrder TimelineTrue Paced
PROPERTIES Ends
CHECK_DEADLOCK FALSE
