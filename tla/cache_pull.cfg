\* Pulls that may overlap, one edit, one loss: the cache follows a changing server.
SPECIFICATION CachePullSpec
CONSTANTS
    Serials = {"s1"}
    Children = {}
    Pull = {p1, p2}
    NoPull = noPull
    PullsChildren = TRUE
    MaxRowVersion = 2
    MaxOverlapVersion = 1
    MaxEdits = 1
    MaxLosses = 1
PROPERTIES PullKeepsSeenWork CacheConverges
CHECK_DEADLOCK FALSE
