SPECIFICATION FairSpec
CONSTANTS
    Rest = {w1}
    Rounds = {r1, r2}
    MaxCalls = 4
CHECK_DEADLOCK FALSE
INVARIANT SoundUntilCrowded
PROPERTIES   QuietAfterStop
