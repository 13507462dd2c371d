SPECIFICATION Spec
CONSTANTS
    Peers = {p1, p2}
    Foreign = {}
    Threads = {t1}
    MaxVersion = 2
    MaxBoots = 1
    MaxArchived = 3
    SaveMetadata = TRUE
    IncludeSelf = TRUE
SYMMETRY Symmetry
INVARIANTS SensorSound StorageCoversKnown
PROPERTY SeedsOutrankStorage
