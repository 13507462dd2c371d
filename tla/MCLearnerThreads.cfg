SPECIFICATION Spec
CONSTANTS
    Peers = {p1}
    Foreign = {f}
    Threads = {t1, t2}
    MaxVersion = 2
    MaxBoots = 1
    MaxArchived = 1
    SaveMetadata = TRUE
    IncludeSelf = FALSE
SYMMETRY ThreadSymmetry
INVARIANT KnownIsStored
 
