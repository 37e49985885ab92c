\* The plugin and the reconciler with enable_overlapping_ranges: pods of two
\* overlapping pools, ledgers and cluster-wide reservations collected.
CONSTANTS
    wide = wide
    narrow = narrow
    p1 = p1
    p2 = p2
    p3 = p3
    Pods = {p1, p2}
    Pools = {wide, narrow}
    PoolRange <- MCPoolRangeSmall
    PodPool <- MCPodPool
    NoPod = NoPod
    EmptyPodRef = EmptyPodRef
    LegacyAllocations = {}
    DefaultNetworkPods = {}
    TaintEvictions = FALSE
    NoPool = NoPool
    NotLive = NotLive
    OverlappingRanges = TRUE
    DatastoreRetries = 1
    PodRefreshRetries = 3
    RefreshMayFail = FALSE
    ApiMayFail = FALSE

SPECIFICATION Spec

INVARIANT TypeOK
PROPERTY NoLostReservation
PROPERTY OrphansEventuallyCollected
PROPERTY OrphanReservationsEventuallyDeleted

