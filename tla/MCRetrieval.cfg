SPECIFICATION LiveSpec
CONSTANTS
    Ursulas = {u1, u2, u3, u4}
    Capsules = {c1, c2}
    Threshold = 3
    MaxAttempts = 2
CHECK_DEADLOCK FALSE
INVARIANTS NoCapsuleSentTwice ReachedMeansDecryptable 
 
