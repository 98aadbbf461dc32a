\* One device, nobody else writing and nothing lost: reviews made offline are delivered.
SPECIFICATION OfflineReviewSpec
CONSTANTS
    Scopes = {"report", "child"}
    Serial = {s1, s2}
    MaxBatches = 2
    MaxActs = 2
    MaxLost = 0
    MaxOthers = 0
    MaxUpsets = 0
INVARIANTS SoleWriterReconciles
CHECK_DEADLOCK FALSE
