\* enable_overlapping_ranges: the reconciler lists the cluster-wide
\* reservations after the pods, so a pod created in between is not among
\* the live pods when its fresh reservation is judged.
CONSTANTS
    wide = wide
    narrow = narrow
    p1 = p1
    p2 = p2
    p3 = p3
    Pods = {p1, p2}
    Pools = {wide, narrow}
    PoolRange <- MCPoolRangeSmall
    PodPool <- MCPodPool
    NoPod = NoPod
    EmptyPodRef = EmptyPodRef
    LegacyAllocations = {}
    DefaultNetworkPods = {}
    TaintEvictions = FALSE
    NoPool = NoPool
    NotLive = NotLive
    OverlappingRanges = TRUE
    DatastoreRetries = 2
    PodRefreshRetries = 3
    RefreshMayFail = FALSE
    ApiMayFail = FALSE

SPECIFICATION Spec

PROPERTY OrphanVerdictSound
