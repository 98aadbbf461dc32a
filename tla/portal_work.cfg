\* Five screens of the portal at work: autosaves, offline reviews, administration, transitions, serials.
SPECIFICATION PortalSpec
CONSTANTS
    DrawerField = {"result"}
    ReviewSerial = {s1, s2}
    ListSerial = {"serial1"}
    SerialCount = 2
    MaxInputs = 2
    MaxOpenings = 2
    MaxTurns = 1
    MaxEvents = 5
    MaxCalls = 2
    MaxRefreshing = 2
    MaxBatches = 2
    ReviewUpsets = 1
    ListUpsets = 2
    MaxLost = 1
    MaxActs = 2
    MaxOthers = 1
    MaxFaults = 1
    MaxPulls = 1
SYMMETRY ReviewSymmetry
INVARIANTS DraftKept DraftForItsSerial AutosavesReadNewVersions ResubmittedAfterReview VerdictForItsBatch DeletionIsDecided  DeletedSerialIsDecided UnsyncedRowIsOwed
PROPERTIES EditOverSeen TransitionOnOfferedStatus
CHECK_DEADLOCK FALSE
