----------------------------- MODULE Whereabouts -----------------------------
(***************************************************************************)
(* The whole system: the CNI requests of every pod, the pods themselves,  *)
(* and the reconciler, interleaved over the shared cluster state.         *)
(***************************************************************************)
EXTENDS CNIPlugin, Reconciler

vars == <<alloc, poolVersion, overlap, pod, cni, rc>>

TypeOK == ClusterTypeOK /\ CNITypeOK /\ RTypeOK

Init == ClusterInit /\ CNIInit /\ RInit

Next ==
    \/ (CNINext \/ EnvNext) /\ UNCHANGED rc
    \/ RNext /\ UNCHANGED cni

Spec == Init /\ [][Next]_vars /\ CNIFairness /\ RFairness

\* The reconciler's API calls may fail; the failures are transient.
FaultSpec == Spec /\ RFaultFairness

\* The plugin alone: no reconciler is deployed.
CNISpec == Init /\ [][(CNINext \/ EnvNext) /\ UNCHANGED rc]_vars /\ CNIFairness

-----------------------------------------------------------------------------
(* Properties *)

\* Pod p holds an entry of some ledger / some cluster-wide reservation.
HoldsEntry(p) == \E pl \in Pools : p \in {alloc[pl][ip] : ip \in IPs}
HoldsReservation(p) == p \in {overlap[ip] : ip \in IPs}

\* An ADD that returns an error leaves nothing behind: the pod holds no
\* entry of any ledger and no cluster-wide reservation. The request may
\* get there after committing an entry whose Claim conflicted and was
\* rolled back, and then exhausting DatastoreRetries against concurrent
\* writers of its pool, or finding the range exhausted (storage.go's
\* retry bound, spec 4.3/4.4). A leftover entry would keep the address
\* reserved for a pod that has no address.
FailedAddLeavesNothing ==
    \A p \in Pods : cni[p].pc = "failed" => ~HoldsEntry(p) /\ ~HoldsReservation(p)

\* A pod whose ADD returned an address (and whose DEL has not started)
\* holds that address in its pool's ledger and, with overlapping ranges,
\* the cluster-wide reservation of it. This is what makes the address the
\* pod's alone: no other pod of the pool, and with overlapping ranges no
\* pod of any pool, can be handed it. It rests on the IPPool update's
\* resourceVersion test (AddWrite) and on the Claim/rollback protocol
\* (AddClaim, AddRollback) under concurrent requests.
AddressOwnership ==
    \A p \in Pods :
        cni[p].pc = "added" =>
            /\ alloc[PodPool[p]][cni[p].ip] = p
            /\ OverlappingRanges => overlap[cni[p].ip] = p

\* No write loses a reservation: an entry of a ledger disappears or changes
\* owner only in a step of its owner's own request (rollback or DEL), or in
\* a reconciler step that writes a pool whose listing showed that entry and
\* judged it an orphan. A stale IPPool update, by a CNI request or by
\* ReconcileIPPools, would break it.
NoLostReservation ==
    [][\A pl \in Pools, ip \in IPs :
         LET owner == alloc[pl][ip] IN
         (owner # NoPod /\ alloc'[pl][ip] # owner) =>
            \/ cni'[owner] # cni[owner]
            \/ /\ UNCHANGED cni
               /\ rc.pools[pl][ip] = owner
               /\ ip \in rc.orphans[pl]]_vars

\* No deletion steals a cluster-wide reservation: the reservation of an
\* address disappears or changes owner only in a step of its owner's own
\* request, or when the reconciler deletes it after judging that very
\* reservation, of that owner, an orphan. ReconcileOverlappingIPAddresses
\* deletes by name what it listed earlier (DeleteOverlap(ipKey)): if the
\* name was released and claimed again in between, it would break this.
NoLostClaim ==
    [][\A ip \in IPs :
         LET owner == overlap[ip] IN
         (owner # NoPod /\ overlap'[ip] # owner) =>
            \/ cni'[owner] # cni[owner]
            \/ /\ UNCHANGED cni
               /\ [ip |-> ip, pod |-> owner] \in rc.overlapOrphans]_vars

\* Check c is judged an orphan in this step.
NewlyOrphaned(c) ==
    IF c.pool # NoPool
    THEN c.ip \in rc'.orphans[c.pool] \ rc.orphans[c.pool]
    ELSE [ip |-> c.ip, pod |-> c.pod] \in rc'.overlapOrphans \ rc.overlapOrphans

\* The reconciler judges a reservation an orphan only when, as it judges,
\* its pod is gone, is being evicted by the taint manager (spec 4.5 step
\* 2), or does not list the address (the glossary's orphan). The
\* verdict of isOrphanedIP rests on a pod listing taken earlier, and on
\* GetPod re-fetches of a Pending pod.
OrphanVerdictSound ==
    [][\A c \in rc.todo :
         NewlyOrphaned(c) =>
             (~Exists(c.pod) \/ pod[c.pod].evicting \/ c.ip \notin pod[c.pod].ips)]_vars

\* A pod that is gone while it still holds a ledger entry (its DEL was lost
\* with its node, or never finished) eventually holds none: the
\* reconciler's cron runs collect every entry of it, in every pool.
OrphansEventuallyCollected ==
    \A p \in Pods : (pod[p].phase = "Gone" /\ HoldsEntry(p)) ~> ~HoldsEntry(p)

\* A pod that is gone while a cluster-wide reservation still names it
\* eventually has none: the reconciler deletes the orphaned reservations.
OrphanReservationsEventuallyDeleted ==
    \A p \in Pods :
        (pod[p].phase = "Gone" /\ HoldsReservation(p)) ~> ~HoldsReservation(p)

\* The allocation of slot (pl, ip) names no pod the API server returns.
NamesNoLivePod(pl, ip) ==
    LET ref == alloc[pl][ip] IN
    ref # NoPod /\ ~(ref \in Pods /\ Exists(ref))

\* Every allocation whose podref has no live pod is eventually removed
\* (spec section 6: "the next reconciler run removes them"; section 4.5
\* step 3), whatever that podref is. findOrphanedIPsPerPool skips an
\* allocation with an empty podref before judging it.
StaleEntriesEventuallyRemoved ==
    \A pl \in Pools, ip \in IPs :
        NamesNoLivePod(pl, ip) ~> ~NamesNoLivePod(pl, ip)

\* Refinement mapping: a pod holds the address its ADD returned until DEL
\* begins or the pod is lost.
Assigned == [p \in Pods |-> IF cni[p].pc = "added" THEN cni[p].ip ELSE NoIP]

AA == INSTANCE AddressAssignment WITH assigned <- Assigned

\* The plugin implements its promise (AddressAssignment): every address an
\* ADD returns lies in the pod's range and is held by no rival pod, the
\* pods of its pool or, with enable_overlapping_ranges, of any pool. It
\* rests on the IPPool CAS (AddWrite), on Claim and rollback (AddClaim,
\* AddRollback), and, with the reconciler, on the reconciler never freeing
\* an address that a pod still uses.
AddressAssignmentRefined == AA!Spec

\* A run of the reconciler that ends has written every pool in which it
\* found orphans and deleted every orphaned cluster-wide reservation it
\* found: the specification makes the per-pool updates independent of one
\* another (section 4.5, step 5) and always runs step 6.
EveryOrphanAttempted ==
    rc.pc = "idle" => rc.pending = {} /\ rc.overlapOrphans = {}

=============================================================================
