\* The plugin and the reconciler, without overlapping ranges: the
\* reconciler's runs interleaved with ADD, DEL and pod life.
CONSTANTS
    wide = wide
    narrow = narrow
    p1 = p1
    p2 = p2
    p3 = p3
    Pods = {p1, p2}
    Pools = {wide, narrow}
    PoolRange <- MCPoolRange
    PodPool <- MCPodPoolNarrow
    NoPod = NoPod
    EmptyPodRef = EmptyPodRef
    LegacyAllocations = {}
    DefaultNetworkPods = {}
    TaintEvictions = TRUE
    NoPool = NoPool
    NotLive = NotLive
    OverlappingRanges = FALSE
    DatastoreRetries = 1
    PodRefreshRetries = 3
    RefreshMayFail = FALSE
    ApiMayFail = FALSE

SPECIFICATION Spec

INVARIANT TypeOK
PROPERTY NoLostReservation
PROPERTY OrphanVerdictSound
PROPERTY OrphansEventuallyCollected

