\* One request at a time, every operation on a report and its child reports.
SPECIFICATION InspectionSpec
CONSTANTS
    FirstChild = c1
    Handler = {h1}
    Serial = {s1}
    Child = {c1}
    Parent = parent
    Disposition = {rework}
    Rework = rework
    NoData = noData
    Requests <- Operation
    Targets <- SequentialTargets
    MaxVersion = 8
    MaxRevision = 1
    MaxBatches = 2
PROPERTIES AutoApprovalNeverMissed AutoApprovalIsComplete  SubmittedSerialsAreLocked ChildMovesOnLastSubmit
CHECK_DEADLOCK FALSE
