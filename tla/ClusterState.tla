---------------------------- MODULE ClusterState ----------------------------
(***************************************************************************)
(* The state that the whereabouts CNI plugin and the whereabouts          *)
(* reconciler share through the Kubernetes API server:                    *)
(*   - the IPPool objects (one reservation ledger per range), each with   *)
(*     its metadata.resourceVersion, used for optimistic concurrency;     *)
(*   - the cluster-wide OverlappingRangeIPReservation objects, one per    *)
(*     IP address, named after the (normalized) address;                 *)
(*   - the pods, with their phase and the IPs their network-status        *)
(*     annotation publishes.                                              *)
(* An address is an integer; two pools whose ranges overlap share the     *)
(* integers of their common addresses.                                    *)
(***************************************************************************)
EXTENDS Naturals, FiniteSets

CONSTANTS
    Pods,       \* podRefs "<namespace>/<name>"; each pod has one attachment
    Pools,      \* IPPool objects
    PoolRange,  \* PoolRange[pl]: the addresses of pool pl's effective interval
    PodPool,    \* PodPool[p]: the pool pod p's attachment allocates from
    NoPod,      \* model value: no owner (a free slot, an absent object)
    EmptyPodRef, \* model value: the podref "" of an allocation that names no pod
    LegacyAllocations, \* the [pool, ip] slots already holding such an allocation
    TaintEvictions, \* whether the taint manager evicts pods
    DefaultNetworkPods \* pods whose whereabouts attachment is their default
                       \* network: multus marks its network-status entry
                       \* "default": true

ASSUME PoolRange \in [Pools -> SUBSET (Nat \ {0})]
ASSUME PodPool \in [Pods -> Pools]
ASSUME NoPod \notin Pods
ASSUME EmptyPodRef \notin Pods \cup {NoPod}
ASSUME TaintEvictions \in BOOLEAN
ASSUME DefaultNetworkPods \subseteq Pods

IPs == UNION {PoolRange[pl] : pl \in Pools}

\* 0 stands for "no address"; every address of a range is positive.
NoIP == 0

\* Phases of a pod object. "Absent": not yet created; "Gone": deleted from
\* the API server. A pod that is being deleted keeps its phase until it is
\* gone, as the API server reports it.
Phases == {"Absent", "Pending", "Running", "Gone"}

\* The podref of an IPAllocation: a pod's, or empty.
PodRefs == Pods \cup {EmptyPodRef}

ASSUME LegacyAllocations \subseteq [pool : Pools, ip : IPs]

\* IPPoolSpec.Allocations keyed by address: the owner's podRef, or NoPod.
Allocation == [IPs -> PodRefs \cup {NoPod}]

\* A pod object as the API server returns it: its status phase, the IPs
\* its network-status annotation lists for the whereabouts attachment, and
\* whether it carries the condition DisruptionTarget=True with reason
\* DeletionByTaintManager.
PodObject == [phase : Phases, ips : SUBSET IPs, evicting : BOOLEAN]

VARIABLES
    alloc,        \* alloc[pl]: IPPool pl's Spec.Allocations
    poolVersion,  \* poolVersion[pl]: IPPool pl's metadata.resourceVersion
    overlap,      \* overlap[ip]: Spec.PodRef of the OverlappingRangeIPReservation
                  \* named after ip, or NoPod when there is none
    pod           \* pod[p]: the pod object p

clusterVars == <<alloc, poolVersion, overlap, pod>>

ClusterTypeOK ==
    /\ alloc \in [Pools -> Allocation]
    /\ poolVersion \in [Pools -> Nat]
    /\ overlap \in [IPs -> Pods \cup {NoPod}]
    /\ pod \in [Pods -> PodObject]

\* The addresses a ledger reserves.
Reserved(a) == {ip \in DOMAIN a : a[ip] # NoPod}

\* A pod object that the API server still returns.
Exists(p) == pod[p].phase \in {"Pending", "Running"}

\* Mutant: an IPPool update sent without the resourceVersion test.
VersionUntested(pl, ver) == TRUE

\* The "test" operation on metadata.resourceVersion that guards every
\* IPPool update: the update applies only if the pool is still at the
\* version it was read at.
VersionMatches(pl, ver) == poolVersion[pl] = ver

\* No pod exists yet; the IPPools hold no allocation but the ones with an
\* empty podref that LegacyAllocations names.
ClusterInit ==
    /\ alloc = [pl \in Pools |-> [ip \in IPs |->
                  IF [pool |-> pl, ip |-> ip] \in LegacyAllocations
                  THEN EmptyPodRef ELSE NoPod]]
    /\ poolVersion = [pl \in Pools |-> 1]
    /\ overlap = [ip \in IPs |-> NoPod]
    /\ pod = [p \in Pods |-> [phase |-> "Absent", ips |-> {}, evicting |-> FALSE]]

=============================================================================
