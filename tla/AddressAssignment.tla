------------------------- MODULE AddressAssignment -------------------------
(***************************************************************************)
(* What the whereabouts plugin promises its callers, with no ledger, no   *)
(* CAS and no cluster-wide reservations: each pod is given at most one    *)
(* address of its pool's range, never one that a rival pod holds, and     *)
(* gives it back. Rivals are the pods of the same pool; with              *)
(* enable_overlapping_ranges every other pod is a rival, since pools      *)
(* whose ranges overlap share addresses (spec sections 2 and 4.4).        *)
(***************************************************************************)
CONSTANTS Pods, Pools, PoolRange, PodPool, OverlappingRanges

VARIABLE assigned  \* assigned[p]: the address ADD returned to pod p, or NoIP

NoAddress == 0

Rivals(p) ==
    IF OverlappingRanges THEN Pods \ {p}
    ELSE {q \in Pods \ {p} : PodPool[q] = PodPool[p]}

Init == assigned = [p \in Pods |-> NoAddress]

\* ADD returns ip to p.
Assign(p, ip) ==
    /\ assigned[p] = NoAddress
    /\ ip \in PoolRange[PodPool[p]]
    /\ \A q \in Rivals(p) : assigned[q] # ip
    /\ assigned' = [assigned EXCEPT ![p] = ip]

\* The pod stops using its address: DEL begins, or the pod is lost.
Unassign(p) ==
    /\ assigned[p] # NoAddress
    /\ assigned' = [assigned EXCEPT ![p] = NoAddress]

Next ==
    \E p \in Pods :
        \/ Unassign(p)
        \/ \E ip \in PoolRange[PodPool[p]] : Assign(p, ip)

Spec == Init /\ [][Next]_assigned

=============================================================================
