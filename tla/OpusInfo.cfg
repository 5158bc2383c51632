SPECIFICATION InfoSpec
CONSTANTS
    HOLE = HOLE
    MISSING = MISSING
    Arguments <- MCArguments
    MaxDamage = 2
INVARIANTS SoundIsReported DamageIsSeen
CHECK_DEADLOCK FALSE
