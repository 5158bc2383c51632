SPECIFICATION FairSpec
CONSTANTS
    PageSize = 3
    MaxPosts = 7
    MaxLoads = 3
INVARIANTS
    NoDuplicates
    NoHole
PROPERTIES
    NewestShown
CHECK_DEADLOCK FALSE
