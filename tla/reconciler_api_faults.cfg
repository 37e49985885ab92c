\* The plugin and the reconciler with enable_overlapping_ranges, and every
\* List, Update and Delete call of the reconciler may fail transiently.
CONSTANTS
    wide = wide
    narrow = narrow
    p1 = p1
    p2 = p2
    p3 = p3
    Pods = {p1, p2}
    Pools = {wide, narrow}
    PoolRange <- MCPoolRangeSmall
    PodPool <- MCPodPoolNarrow
    NoPod = NoPod
    EmptyPodRef = EmptyPodRef
    LegacyAllocations = {}
    DefaultNetworkPods = {}
    TaintEvictions = FALSE
    NoPool = NoPool
    NotLive = NotLive
    OverlappingRanges = TRUE
    DatastoreRetries = 1
    PodRefreshRetries = 3
    RefreshMayFail = FALSE
    ApiMayFail = TRUE

SPECIFICATION FaultSpec

INVARIANT TypeOK
PROPERTY NoLostReservation
PROPERTY OrphansEventuallyCollected
PROPERTY OrphanReservationsEventuallyDeleted

