\* enable_overlapping_ranges: a reservation the reconciler judged an orphan
\* is released and claimed again before the reconciler deletes its name.
CONSTANTS
    wide = wide
    narrow = narrow
    p1 = p1
    p2 = p2
    p3 = p3
    Pods = {p1, p2}
    Pools = {wide, narrow}
    PoolRange <- MCPoolRangeSmall
    PodPool <- MCPodPool
    NoPod = NoPod
    EmptyPodRef = EmptyPodRef
    LegacyAllocations = {}
    DefaultNetworkPods = {}
    TaintEvictions = FALSE
    NoPool = NoPool
    NotLive = NotLive
    OverlappingRanges = TRUE
    DatastoreRetries = 2
    PodRefreshRetries = 3
    RefreshMayFail = FALSE
    ApiMayFail = FALSE

SPECIFICATION Spec

PROPERTY NoLostClaim
