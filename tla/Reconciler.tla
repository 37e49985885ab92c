----------------------------- MODULE Reconciler -----------------------------
(***************************************************************************)
(* The whereabouts IP reconciler (pkg/reconciler): a cron job that lists  *)
(* the IPPools, then the pods, judges every reservation against the live  *)
(* pods (re-fetching a Pending pod that does not show the address), then  *)
(* lists the cluster-wide reservations and judges them the same way,     *)
(* then writes each pool without its orphans and deletes the orphaned     *)
(* cluster-wide reservations. Every API call is a step of its own; the    *)
(* CNI requests and the pods move between them.                           *)
(***************************************************************************)
EXTENDS ClusterState

CONSTANTS
    PodRefreshRetries,  \* storage.PodRefreshRetries
    RefreshMayFail,     \* whether GetPod may fail with a transient error
    ApiMayFail,         \* whether the List, Update and Delete calls may fail
    NoPool,             \* model value: a check of a cluster-wide reservation
    NotLive             \* model value: a podRef absent from liveWhereaboutsPods

ASSUME PodRefreshRetries \in Nat \ {0}
ASSUME RefreshMayFail \in BOOLEAN
ASSUME ApiMayFail \in BOOLEAN
ASSUME NoPool \notin Pools

VARIABLE rc  \* the ReconcileLooper of the current run

\* podWrapper: what the reconciler keeps of a pod.
PodWrapper == [phase : {"Pending", "Running"}, ips : SUBSET IPs]

\* A reservation to judge: an entry of an IPPool's allocations, or (pool
\* NoPool) an OverlappingRangeIPReservation.
Check == [pool : Pools \cup {NoPool}, ip : IPs, pod : Pods]
NoCheck == [pool |-> NoPool, ip |-> NoIP, pod |-> NoPod]

\* Where the run is: "idle" between cron firings; "listPods", "findPools",
\* "findOverlaps" inside NewReconcileLooperWithClient; "reconcilePools" in
\* ReconcileIPPools; "reconcileOverlaps" in ReconcileOverlappingIPAddresses.
RPhases == {"idle", "listPods", "findPools", "findOverlaps",
            "reconcilePools", "reconcileOverlaps"}

RTypeOK ==
    rc \in [pc : RPhases,
            pools : [Pools -> Allocation],       \* ipPools, as listed
            versions : [Pools -> Nat],           \* their resourceVersions
            live : [Pods -> PodWrapper \cup {NotLive}],  \* liveWhereaboutsPods
            todo : SUBSET Check,                 \* reservations not yet judged
            cur : Check \cup {NoCheck},          \* the Pending pod being re-fetched
            retries : 0..(PodRefreshRetries - 1),  \* GetPods done
            orphans : [Pools -> SUBSET IPs],     \* orphanedIPs
            overlapOrphans : SUBSET [ip : IPs, pod : Pods], \* orphanedClusterWideIPs
            pending : SUBSET Pools]              \* orphanedIPs not yet written

\* The looper between runs: nothing listed. What a run that ended left
\* unwritten (pending, overlapOrphans) stays visible until the next run.
RIdle(pending, overlapOrphans) ==
    [pc |-> "idle",
     pools |-> [pl \in Pools |-> [ip \in IPs |-> NoPod]],
     versions |-> [pl \in Pools |-> 0],
     live |-> [p \in Pods |-> NotLive],
     todo |-> {}, cur |-> NoCheck, retries |-> 0,
     orphans |-> [pl \in Pools |-> {}],
     overlapOrphans |-> overlapOrphans, pending |-> pending]

RInit == rc = RIdle({}, {})

-----------------------------------------------------------------------------
(* Helpers of wrappedPod.go *)

\* getFlatIPSet: the IPs of the network-status entries that are not the
\* pod's default network; an entry marked "default" is skipped.
FlatIPSet(p) == IF p \in DefaultNetworkPods THEN {} ELSE pod[p].ips

\* wrapPod: the pod's phase and its flat IP set.
WrapPod(p) == [phase |-> pod[p].phase, ips |-> FlatIPSet(p)]

\* getPodRefsServedByWhereabouts: the podRefs of all listed reservations.
PodRefsServedByWhereabouts(pools) ==
    UNION {{pools[pl][ip] : ip \in Reserved(pools[pl])} : pl \in Pools}

\* indexPods: the listed pods whose podRef some reservation names, except
\* those isPodMarkedForDeletion finds evicted by the taint manager.
IndexPods(refs) ==
    [p \in Pods |-> IF Exists(p) /\ p \in refs /\ ~pod[p].evicting
                    THEN WrapPod(p) ELSE NotLive]

\* isIpOnPod
IsIpOnPod(w, ip) == ip \in w.ips

-----------------------------------------------------------------------------
(* The run *)

\* The cron job fires: ReconcileIPs builds a looper, which lists the IPPools.
ListIPPools ==
    /\ rc.pc = "idle"
    /\ rc' = [RIdle({}, {}) EXCEPT !.pc = "listPods", !.pools = alloc,
                                    !.versions = poolVersion]
    /\ UNCHANGED clusterVars

\* ListPods and indexPods; findOrphanedIPsPerPool then judges every entry
\* of every listed pool but those with an empty podref, which it logs and
\* skips.
ListPods ==
    /\ rc.pc = "listPods"
    /\ rc' = [rc EXCEPT !.pc = "findPools",
                        !.live = IndexPods(PodRefsServedByWhereabouts(rc.pools)),
                        !.todo = {c \in Check : /\ c.pool \in Pools
                                                /\ rc.pools[c.pool][c.ip] # EmptyPodRef
                                                /\ rc.pools[c.pool][c.ip] = c.pod}]
    /\ UNCHANGED clusterVars

\* The verdict on check c: an orphan is appended to orphanedIPs or to
\* orphanedClusterWideIPs.
Judged(c, orphan) ==
    rc' = [rc EXCEPT
             !.todo = @ \ {c}, !.cur = NoCheck, !.retries = 0,
             !.orphans = IF orphan /\ c.pool # NoPool
                         THEN [@ EXCEPT ![c.pool] = @ \cup {c.ip}] ELSE @,
             !.overlapOrphans = IF orphan /\ c.pool = NoPool
                                THEN @ \cup {[ip |-> c.ip, pod |-> c.pod]} ELSE @]

\* Mutant: no grace for a Pending pod; it is judged on the listing alone.
IsOrphanedIPNoRefresh(c) ==
    LET w == rc.live[c.pod] IN
    /\ rc.pc \in {"findPools", "findOverlaps"}
    /\ rc.cur = NoCheck
    /\ c \in rc.todo
    /\ \/ /\ w = NotLive
          /\ Judged(c, TRUE)
       \/ /\ w # NotLive
          /\ Judged(c, ~IsIpOnPod(w, c.ip))
    /\ UNCHANGED clusterVars

\* Mutant: a podRef missing from the pod listing is given the benefit of
\* the doubt, as if its pod held the address.
IsOrphanedIPKeepsUnlisted(c) ==
    LET w == rc.live[c.pod] IN
    /\ rc.pc \in {"findPools", "findOverlaps"}
    /\ rc.cur = NoCheck
    /\ c \in rc.todo
    /\ \/ /\ w = NotLive
          /\ Judged(c, FALSE)
       \/ /\ w # NotLive
          /\ IsIpOnPod(w, c.ip)
          /\ Judged(c, FALSE)
       \/ /\ w # NotLive
          /\ ~IsIpOnPod(w, c.ip)
          /\ w.phase # "Pending"
          /\ Judged(c, TRUE)
       \/ /\ w # NotLive
          /\ ~IsIpOnPod(w, c.ip)
          /\ w.phase = "Pending"
          /\ rc' = [rc EXCEPT !.cur = c, !.retries = 0]
    /\ UNCHANGED clusterVars

\* isOrphanedIP(podRef, ip) against liveWhereaboutsPods (TRUE in the code
\* means the pod holds the address). A Pending pod that does not show the
\* address enters the re-fetch loop.
IsOrphanedIP(c) ==
    LET w == rc.live[c.pod] IN
    /\ rc.pc \in {"findPools", "findOverlaps"}
    /\ rc.cur = NoCheck
    /\ c \in rc.todo
    /\ \/ /\ w = NotLive
          /\ Judged(c, TRUE)
       \/ /\ w # NotLive
          /\ IsIpOnPod(w, c.ip)
          /\ Judged(c, FALSE)
       \/ /\ w # NotLive
          /\ ~IsIpOnPod(w, c.ip)
          /\ w.phase # "Pending"
          /\ Judged(c, TRUE)
       \/ /\ w # NotLive
          /\ ~IsIpOnPod(w, c.ip)
          /\ w.phase = "Pending"
          /\ rc' = [rc EXCEPT !.cur = c, !.retries = 0]
    /\ UNCHANGED clusterVars

\* Mutant: the loop bound off by one, one GetPod too many.
MoreRefreshesOffByOne(r) == r <= PodRefreshRetries

\* The re-fetch loop goes on after the r-th GetPod: retries < PodRefreshRetries.
MoreRefreshes(r) == r < PodRefreshRetries

\* One turn of the re-fetch loop: refreshPod (GetPod) returns nil when the
\* pod is gone or the call fails, which judges the reservation an orphan; a
\* pod out of Pending ends the loop and is judged on this last look; a
\* Pending pod showing the address keeps it; after PodRefreshRetries looks
\* at a Pending pod without the address, it is an orphan.
RefreshPod ==
    LET c == rc.cur
        r == rc.retries + 1
    IN
    /\ rc.pc \in {"findPools", "findOverlaps"}
    /\ c # NoCheck
    /\ \/ /\ ~Exists(c.pod) \/ RefreshMayFail
          /\ Judged(c, TRUE)
       \/ /\ Exists(c.pod)
          /\ pod[c.pod].phase # "Pending"
          /\ Judged(c, ~IsIpOnPod(WrapPod(c.pod), c.ip))
       \/ /\ Exists(c.pod)
          /\ pod[c.pod].phase = "Pending"
          /\ IsIpOnPod(WrapPod(c.pod), c.ip)
          /\ Judged(c, FALSE)
       \/ /\ Exists(c.pod)
          /\ pod[c.pod].phase = "Pending"
          /\ ~IsIpOnPod(WrapPod(c.pod), c.ip)
          /\ IF MoreRefreshes(r)
             THEN rc' = [rc EXCEPT !.retries = r]
             ELSE Judged(c, TRUE)
    /\ UNCHANGED clusterVars

\* findClusterWideIPReservations: ListOverlappingIPs, once every pool entry
\* is judged; each reservation is judged by the same isOrphanedIP.
ListOverlappingIPs ==
    /\ rc.pc = "findPools"
    /\ rc.todo = {}
    /\ rc.cur = NoCheck
    /\ rc' = [rc EXCEPT !.pc = "findOverlaps",
                        !.todo = {[pool |-> NoPool, ip |-> ip, pod |-> overlap[ip]] :
                                    ip \in {i \in IPs : overlap[i] # NoPod}}]
    /\ UNCHANGED clusterVars

\* Mutant: ReconcileIPs returns once the pools are written, without
\* calling ReconcileOverlappingIPAddresses.
ContinueSkipsOverlaps(pending, overlapOrphans) ==
    IF pending = {} THEN RIdle({}, {})
    ELSE [rc EXCEPT !.pc = "reconcilePools",
                    !.pending = pending, !.overlapOrphans = overlapOrphans]

\* The looper once the pools in pending are still to be written and the
\* reservations in overlapOrphans still to be deleted: ReconcileIPPools,
\* then ReconcileOverlappingIPAddresses, then the run returns.
Continue(pending, overlapOrphans) ==
    IF pending = {} /\ overlapOrphans = {} THEN RIdle({}, {})
    ELSE [rc EXCEPT !.pc = IF pending # {} THEN "reconcilePools"
                           ELSE "reconcileOverlaps",
                    !.pending = pending, !.overlapOrphans = overlapOrphans]

\* The looper is built; ReconcileIPs calls ReconcileIPPools.
StartReconcile ==
    LET pending == {pl \in Pools : rc.orphans[pl] # {}} IN
    /\ rc.pc = "findOverlaps"
    /\ rc.todo = {}
    /\ rc.cur = NoCheck
    /\ rc' = Continue(pending, rc.overlapOrphans)
    /\ UNCHANGED clusterVars

\* Mutant: a conflicting update retried with the same computed list on
\* the pool's fresh resourceVersion.
UpdatePoolBlindRetry(pl) ==
    LET new == [ip \in IPs |-> IF ip \in rc.orphans[pl] THEN NoPod
                               ELSE rc.pools[pl][ip]]
    IN
    /\ rc.pc = "reconcilePools"
    /\ pl \in rc.pending
    /\ alloc' = [alloc EXCEPT ![pl] = new]
    /\ poolVersion' = [poolVersion EXCEPT ![pl] = @ + 1]
    /\ rc' = Continue(rc.pending \ {pl}, rc.overlapOrphans)
    /\ UNCHANGED <<overlap, pod>>

\* ReconcileIPPools, one pool: Update with the listed allocations minus the
\* orphans, tested against the listed resourceVersion. A failed update
\* returns an error: ReconcileIPs reports it and the run ends.
UpdatePool(pl) ==
    LET new == [ip \in IPs |-> IF ip \in rc.orphans[pl] THEN NoPod
                               ELSE rc.pools[pl][ip]]
    IN
    /\ rc.pc = "reconcilePools"
    /\ pl \in rc.pending
    /\ \/ /\ VersionMatches(pl, rc.versions[pl])
          /\ alloc' = [alloc EXCEPT ![pl] = new]
          /\ poolVersion' = [poolVersion EXCEPT ![pl] = @ + 1]
          /\ rc' = Continue(rc.pending \ {pl}, rc.overlapOrphans)
       \/ /\ ~VersionMatches(pl, rc.versions[pl])
          /\ rc' = RIdle(rc.pending \ {pl}, rc.overlapOrphans)
          /\ UNCHANGED <<alloc, poolVersion>>
    /\ UNCHANGED <<overlap, pod>>

\* ReconcileIPPools, one pool: the Update call fails for another reason
\* than the resourceVersion test (a timeout, an unavailable API server);
\* the run ends as on a conflict.
UpdatePoolFails(pl) ==
    /\ ApiMayFail
    /\ rc.pc = "reconcilePools"
    /\ pl \in rc.pending
    /\ rc' = RIdle(rc.pending \ {pl}, rc.overlapOrphans)
    /\ UNCHANGED clusterVars

\* ReconcileIPPools, one pool: the Update reaches the API server and is
\* applied, but its RequestTimeout context expires before the answer
\* arrives. The client sees an error: the run ends as on a conflict, with
\* the pool already written and the remaining pools and every reservation
\* deletion skipped.
UpdatePoolTimesOut(pl) ==
    LET new == [ip \in IPs |-> IF ip \in rc.orphans[pl] THEN NoPod
                               ELSE rc.pools[pl][ip]]
    IN
    /\ ApiMayFail
    /\ rc.pc = "reconcilePools"
    /\ pl \in rc.pending
    /\ VersionMatches(pl, rc.versions[pl])
    /\ alloc' = [alloc EXCEPT ![pl] = new]
    /\ poolVersion' = [poolVersion EXCEPT ![pl] = @ + 1]
    /\ rc' = RIdle(rc.pending \ {pl}, rc.overlapOrphans)
    /\ UNCHANGED <<overlap, pod>>

\* ReconcileOverlappingIPAddresses, one reservation: DeleteOverlappingIP by
\* name, whatever reservation has that name now.
DeleteOverlappingIP(o) ==
    /\ rc.pc = "reconcileOverlaps"
    /\ o \in rc.overlapOrphans
    /\ overlap' = [overlap EXCEPT ![o.ip] = NoPod]
    /\ rc' = Continue({}, rc.overlapOrphans \ {o})
    /\ UNCHANGED <<alloc, poolVersion, pod>>

\* DeleteOverlappingIP fails: the name is collected among the failures,
\* the loop goes on with the next reservation, and the run returns the
\* collected error once all are tried.
DeleteOverlappingIPFails(o) ==
    /\ ApiMayFail
    /\ rc.pc = "reconcileOverlaps"
    /\ o \in rc.overlapOrphans
    /\ rc' = Continue({}, rc.overlapOrphans \ {o})
    /\ UNCHANGED clusterVars

\* ListIPPools, ListPods or ListOverlappingIPs returns an error:
\* NewReconcileLooperWithClient returns no looper, ReconcileIPs reports the
\* error and the run ends having written nothing. The orphans already
\* found in the pools are dropped with the looper.
ListFails ==
    /\ ApiMayFail
    /\ \/ rc.pc \in {"idle", "listPods"}
       \/ rc.pc = "findPools" /\ rc.todo = {} /\ rc.cur = NoCheck
    /\ rc' = RIdle({}, {})
    /\ UNCHANGED clusterVars

RNext ==
    \/ ListIPPools \/ ListPods \/ ListOverlappingIPs \/ StartReconcile
    \/ \E c \in rc.todo : IsOrphanedIP(c)
    \/ RefreshPod
    \/ \E pl \in Pools : UpdatePool(pl)
    \/ \E o \in rc.overlapOrphans : DeleteOverlappingIP(o)
    \/ ListFails
    \/ \E pl \in Pools : UpdatePoolFails(pl)
    \/ \E pl \in Pools : UpdatePoolTimesOut(pl)
    \/ \E o \in rc.overlapOrphans : DeleteOverlappingIPFails(o)

\* The cron scheduler fires the job again and again, and a run goes on
\* until it returns: the reconciler's steps are weakly fair.
RFairness == WF_<<clusterVars, rc>>(RNext)

\* With API errors, a call may fail each time the run reaches it: the
\* successful outcome of every call is only intermittently enabled. The
\* errors are transient (spec section 5: every call carries a deadline and
\* a later attempt may succeed), so a call tried again and again
\* eventually succeeds: strong fairness on the successful outcomes.
RFaultFairness ==
    /\ SF_<<clusterVars, rc>>(ListIPPools)
    /\ SF_<<clusterVars, rc>>(ListPods)
    /\ SF_<<clusterVars, rc>>(ListOverlappingIPs)
    /\ SF_<<clusterVars, rc>>(\E pl \in Pools : UpdatePool(pl))
    /\ SF_<<clusterVars, rc>>(\E o \in rc.overlapOrphans : DeleteOverlappingIP(o))

=============================================================================
