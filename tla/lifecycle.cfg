\* Two handlers run transitions, patches and serial edits on a report of one serial.
SPECIFICATION Spec
CONSTANTS
    FirstChild = c1
    Handler = {h1, h2}
    Serial = {s1}
    Child = {}
    Parent = parent
    Disposition = {rework}
    Rework = rework
    NoData = noData
    Requests <- LifecycleRequests
    Targets <- AllTargets
    MaxVersion = 5
    MaxRevision = 2
    MaxBatches = 0
SYMMETRY HandlerSymmetry
INVARIANTS TypeOK
PROPERTIES TransitionJudgedCurrentStatus ReopenFreezesRevision
CHECK_DEADLOCK FALSE
