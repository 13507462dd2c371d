SPECIFICATION FairSpec
CONSTANTS
    Patience = 2
    MaxFaults = 2
    MaxChanges = 3
CHECK_DEADLOCK FALSE
INVARIANTS OneCommitmentInPool FreshOnlyIfNone
PROPERTIES ConfirmedInTheEnd TrackerEnds
