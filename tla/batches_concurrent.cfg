\* Two handlers submit and review two serials at the same time.
SPECIFICATION InspectionSpec
CONSTANTS
    FirstChild = c1
    Handler = {h1, h2}
    Serial = {s1, s2}
    Child = {}
    Parent = parent
    Disposition = {pass, rework}
    Rework = rework
    NoData = noData
    Requests <- ReviewRequests
    Targets <- NoTargets
    MaxVersion = 8
    MaxRevision = 2
    MaxBatches = 2
SYMMETRY HandlerSerialSymmetry
INVARIANTS NoStrandedSerial ApprovalOnRecord
CHECK_DEADLOCK FALSE
