\* Submissions, reviews, edits and syncs race over new serials and over a child report.
SPECIFICATION ReworkSpec
CONSTANTS
    FirstChild = c1
    Handler = {h1, h2}
    Serial = {s1}
    Child = {c1}
    Parent = parent
    Disposition = {rework}
    Rework = rework
    NoData = noData
    Requests <- SyncAndReview
    Targets <- NoTargets
    MaxVersion = 7
    MaxRevision = 1
    MaxBatches = 2
SYMMETRY HandlerSymmetry
INVARIANTS ReviewInvariant
PROPERTIES StaleEditKeepsReview ChildApprovedWithItsBatches
CHECK_DEADLOCK FALSE
