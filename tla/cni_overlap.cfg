\* The plugin alone, with enable_overlapping_ranges: concurrent ADD and DEL
\* requests of three pods over two overlapping pools.
CONSTANTS
    wide = wide
    narrow = narrow
    p1 = p1
    p2 = p2
    p3 = p3
    Pods = {p1, p2, p3}
    Pools = {wide, narrow}
    PoolRange <- MCPoolRange
    PodPool <- MCPodPool
    NoPod = NoPod
    EmptyPodRef = EmptyPodRef
    LegacyAllocations = {}
    DefaultNetworkPods = {}
    TaintEvictions = FALSE
    NoPool = NoPool
    NotLive = NotLive
    OverlappingRanges = TRUE
    DatastoreRetries = 2
    PodRefreshRetries = 3
    RefreshMayFail = FALSE
    ApiMayFail = FALSE

SPECIFICATION CNISpec

INVARIANT TypeOK
INVARIANT AddressOwnership
INVARIANT FailedAddLeavesNothing
PROPERTY NoLostReservation
PROPERTY AddressAssignmentRefined

\* Every request eventually returns and no more are started: the system stops.
CHECK_DEADLOCK FALSE
