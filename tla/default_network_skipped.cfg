\* Pod p1's whereabouts attachment is its default network: multus marks
\* its network-status entry "default": true.
CONSTANTS
    wide = wide
    narrow = narrow
    p1 = p1
    p2 = p2
    p3 = p3
    Pods = {p1, p2}
    Pools = {wide, narrow}
    PoolRange <- MCPoolRange
    PodPool <- MCPodPoolNarrow
    NoPod = NoPod
    EmptyPodRef = EmptyPodRef
    LegacyAllocations = {}
    DefaultNetworkPods = {p1}
    TaintEvictions = FALSE
    NoPool = NoPool
    NotLive = NotLive
    OverlappingRanges = FALSE
    DatastoreRetries = 2
    PodRefreshRetries = 3
    RefreshMayFail = FALSE
    ApiMayFail = FALSE

SPECIFICATION Spec

PROPERTY OrphanVerdictSound
