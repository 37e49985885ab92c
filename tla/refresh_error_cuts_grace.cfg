\* GetPod may fail while a Pending pod is re-fetched: refreshPod returns
\* nil for an error as for a deleted pod.
CONSTANTS
    wide = wide
    narrow = narrow
    p1 = p1
    p2 = p2
    p3 = p3
    Pods = {p1, p2}
    Pools = {wide, narrow}
    PoolRange <- MCPoolRange
    PodPool <- MCPodPoolNarrow
    NoPod = NoPod
    EmptyPodRef = EmptyPodRef
    LegacyAllocations = {}
    DefaultNetworkPods = {}
    TaintEvictions = FALSE
    NoPool = NoPool
    NotLive = NotLive
    OverlappingRanges = FALSE
    DatastoreRetries = 2
    PodRefreshRetries = 3
    RefreshMayFail = TRUE
    ApiMayFail = FALSE

SPECIFICATION Spec

PROPERTY OrphanVerdictSound
