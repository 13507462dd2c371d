SPECIFICATION Spec
CONSTANTS
    Ursulas = {u1, u2, u3}
    Capsules = {c1, c2}
    Threshold = 2
    MaxAttempts = 1
SYMMETRY Symmetry
CHECK_DEADLOCK FALSE
INVARIANT FragmentsPreserved
