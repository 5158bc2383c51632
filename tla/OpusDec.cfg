SPECIFICATION Spec
CONSTANTS
    FullRate = 4
    MinRate = 2
    MaxRate = 8
    BaseLength = 6
    Multiple = 2
    OutChunk = 2
    DrainChunk = 3
    MaxSize = 60
    Sources <- Chains
    Commands <- CommandLines
    Frames = {1, 3}
    MaxRead = 6
INVARIANTS TypeOK ExactLength DropsLessThanOne OneFormat 
PROPERTY Ends
CHECK_DEADLOCK FALSE
