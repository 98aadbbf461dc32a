\* One device inspects two serials, nothing is lost and nobody else writes.
SPECIFICATION SerialListSpec
CONSTANTS
    Serial = {s1, s2}
    Explicit = {TRUE}
    MaxActs = 2
    MaxFaults = 0
    MaxOthers = 0
    MaxPulls = 0
    MaxUpsets = 0
INVARIANTS ReworkFollowsSaves
CHECK_DEADLOCK FALSE
