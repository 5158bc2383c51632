SPECIFICATION Spec
CONSTANTS
    NbChannels = 2
    BaseLength <- Lengths
    Oversample <- Positions
    Multiple = 2
    BufferSize = 2
    StackAlloc = 2
    MaxWord = 80
    MaxElems = 60
    Ratios <- SomeRatios
    Chunks = {0, 3}
    MaxInput = 6
    MaxChanges = 2
INVARIANT ResetForgets
