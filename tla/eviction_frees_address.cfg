\* The taint manager marks a running pod for eviction: the reconciler drops
\* it from the live pods and frees its address while it still holds it.
CONSTANTS
    wide = wide
    narrow = narrow
    p1 = p1
    p2 = p2
    p3 = p3
    Pods = {p1, p2}
    Pools = {wide, narrow}
    PoolRange <- MCPoolRange
    PodPool <- MCPodPoolNarrow
    NoPod = NoPod
    EmptyPodRef = EmptyPodRef
    LegacyAllocations = {}
    DefaultNetworkPods = {}
    TaintEvictions = TRUE
    NoPool = NoPool
    NotLive = NotLive
    OverlappingRanges = FALSE
    DatastoreRetries = 2
    PodRefreshRetries = 3
    RefreshMayFail = FALSE
    ApiMayFail = FALSE

SPECIFICATION Spec

PROPERTY AddressAssignmentRefined
