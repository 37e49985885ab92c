\* An IPPool that already holds an allocation with an empty podref, in a
\* cluster with one pod of that pool and the reconciler's cron runs.
CONSTANTS
    wide = wide
    narrow = narrow
    p1 = p1
    p2 = p2
    p3 = p3
    Pods = {p1}
    Pools = {wide, narrow}
    PoolRange <- MCPoolRange
    PodPool <- MCPodPoolNarrow
    NoPod = NoPod
    EmptyPodRef = EmptyPodRef
    LegacyAllocations <- MCLegacyAllocations
    DefaultNetworkPods = {}
    TaintEvictions = FALSE
    NoPool = NoPool
    NotLive = NotLive
    OverlappingRanges = FALSE
    DatastoreRetries = 2
    PodRefreshRetries = 3
    RefreshMayFail = FALSE
    ApiMayFail = FALSE

SPECIFICATION Spec

PROPERTY StaleEntriesEventuallyRemoved
