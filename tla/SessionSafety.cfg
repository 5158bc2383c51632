SPECIFICATION Spec
CONSTANTS
    Accounts = {a, b}
    NoUser = NoUser
    MaxDepth = 4
    MaxCalls = 2
SYMMETRY Symmetry
CONSTRAINT Deep
INVARIANTS
    ScreensMatchUser
    PosterHasProfile
CHECK_DEADLOCK FALSE
