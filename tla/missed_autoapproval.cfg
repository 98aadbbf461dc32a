\* Two approvals race over the last two batches.
SPECIFICATION InspectionSpec
CONSTANTS
    FirstChild = c1
    Handler = {h1, h2}
    Serial = {s1, s2}
    Child = {}
    Parent = parent
    Disposition = {pass, rework}
    Rework = rework
    NoData = noData
    Requests <- ReviewRequests
    Targets <- NoTargets
    MaxVersion = 9
    MaxRevision = 2
    MaxBatches = 2
PROPERTIES AutoApprovalNeverMissed
CHECK_DEADLOCK FALSE
