\* One report, one serial, two synchronisation runs that may overlap, a lost answer.
SPECIFICATION FairSpec
CONSTANTS
    Report = {p1}
    Serial = {s1}
    NoId = noId
    MaxRuns = 2
    MaxItems = 2
    MaxFaults = 1
INVARIANTS PendingCountIsExact
PROPERTIES KeepsDelivery DispatchInOrder QueuedIsDecided
CHECK_DEADLOCK FALSE
