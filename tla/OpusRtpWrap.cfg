SPECIFICATION Spec
CONSTANTS
    Wrap = 8
    FirstSeqs = {6}
    Arguments <- MCArguments
    Options <- MCOptions
    Strays <- MCStrays
    Port = 1234
    Type = 120
    MaxFaults = 0
    MaxStrays = 0
    MaxLate = 0
INVARIANT SkipsOnlyLate
CHECK_DEADLOCK FALSE
