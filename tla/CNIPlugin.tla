----------------------------- MODULE CNIPlugin -----------------------------
(***************************************************************************)
(* The whereabouts CNI plugin as kubelet runs it for each pod attachment: *)
(* ADD allocates an address through the IPPool compare-and-swap loop and, *)
(* with enable_overlapping_ranges, claims the cluster-wide reservation of *)
(* that address; DEL releases both. The plugin's allocation code is not   *)
(* part of this source tree: these actions are modelled from the          *)
(* specification (sections 4.3, 4.4 and 7). The pod's life around the     *)
(* requests (creation, the network-status annotation multus publishes,    *)
(* start, deletion, loss of its node) is the environment of the plugin.   *)
(***************************************************************************)
EXTENDS IPAllocator

CONSTANTS
    OverlappingRanges,  \* enable_overlapping_ranges
    DatastoreRetries    \* storage.DatastoreRetries: CAS attempts per request

ASSUME OverlappingRanges \in BOOLEAN
ASSUME DatastoreRetries \in Nat \ {0}

VARIABLE cni  \* cni[p]: the CNI request kubelet is running for pod p

\* Steps of a pod's requests. "none": no request yet; "read", "write",
\* "claim", "rollback": inside ADD; "added": ADD returned an address;
\* "failed": ADD returned an error; "del", "delOverlap": inside DEL;
\* "deleted": DEL returned; "lost": the node died, no request will run.
AddSteps == {"read", "write", "claim", "rollback"}
CNISteps == {"none", "added", "failed", "del", "delOverlap", "deleted", "lost"}
                \cup AddSteps

CNITypeOK ==
    cni \in [Pods -> [pc : CNISteps,
                      snap : Allocation,         \* the IPPool read by GetIPPool
                      ver : Nat,                 \* its resourceVersion
                      ip : IPs \cup {NoIP},      \* the address chosen / released
                      skip : SUBSET IPs,         \* the do-not-pick set
                      attempts : 0..DatastoreRetries]]

CNIInit ==
    cni = [p \in Pods |-> [pc |-> "none", snap |-> [ip \in IPs |-> NoPod],
                           ver |-> 0, ip |-> NoIP, skip |-> {}, attempts |-> 0]]

-----------------------------------------------------------------------------
(* ADD *)

\* GetIPPool: read the pod's pool and its resourceVersion.
AddRead(p) ==
    LET pl == PodPool[p] IN
    /\ cni[p].pc = "read"
    /\ cni' = [cni EXCEPT ![p].pc = "write", ![p].snap = alloc[pl],
                          ![p].ver = poolVersion[pl]]
    /\ UNCHANGED clusterVars

\* Mutant: the retry bound checked one attempt late.
RetriesExhaustedLate(attempts) == attempts + 1 > DatastoreRetries

\* The CAS loop gives up after DatastoreRetries attempts.
RetriesExhausted(attempts) == attempts + 1 >= DatastoreRetries

\* AssignIP over the snapshot, then IPPool Update guarded by the
\* resourceVersion read: an exhausted range fails the request, a changed
\* version sends the request back to read, until DatastoreRetries attempts.
AddWrite(p) ==
    LET pl == PodPool[p]
        r  == cni[p]
        ip == AssignIP(PoolRange[pl], r.snap, r.skip, p)
    IN
    /\ r.pc = "write"
    /\ \/ /\ ip = NoIP
          /\ cni' = [cni EXCEPT ![p].pc = "failed"]
          /\ UNCHANGED <<alloc, poolVersion>>
       \/ /\ ip # NoIP
          /\ VersionMatches(pl, r.ver)
          /\ alloc' = [alloc EXCEPT ![pl] = [r.snap EXCEPT ![ip] = p]]
          /\ poolVersion' = [poolVersion EXCEPT ![pl] = @ + 1]
          /\ cni' = [cni EXCEPT ![p].pc = IF OverlappingRanges THEN "claim"
                                                              ELSE "added",
                                ![p].ip = ip]
       \/ /\ ip # NoIP
          /\ ~VersionMatches(pl, r.ver)
          /\ cni' = [cni EXCEPT ![p].attempts = @ + 1,
                                ![p].pc = IF RetriesExhausted(r.attempts)
                                          THEN "failed" ELSE "read"]
          /\ UNCHANGED <<alloc, poolVersion>>
    /\ UNCHANGED <<overlap, pod>>

\* Mutant: Claim that overwrites a reservation of another pod.
ClaimOverwrites(p, ip) == TRUE

\* Claim succeeds (Claimed or AlreadyOwned) when no reservation of the
\* address exists or it names this pod; otherwise it is a Conflict.
ClaimAccepted(p, ip) == overlap[ip] \in {NoPod, p}

\* OverlapStore.Claim: create the reservation named after the address.
\* Claimed or AlreadyOwned end ADD; Conflict puts the address in the
\* do-not-pick set and rolls the ledger entry back.
AddClaim(p) ==
    LET ip == cni[p].ip IN
    /\ cni[p].pc = "claim"
    /\ \/ /\ ClaimAccepted(p, ip)
          /\ overlap' = [overlap EXCEPT ![ip] = p]
          /\ cni' = [cni EXCEPT ![p].pc = "added"]
       \/ /\ ~ClaimAccepted(p, ip)
          /\ cni' = [cni EXCEPT ![p].pc = "rollback", ![p].skip = @ \cup {ip}]
          /\ UNCHANGED overlap
    /\ UNCHANGED <<alloc, poolVersion, pod>>

\* Mutant: the compensating update forgotten; the request re-reads the
\* pool with its own entry still in it.
AddRollbackForgotten(p) ==
    /\ cni[p].pc = "rollback"
    /\ cni' = [cni EXCEPT ![p].pc = "read", ![p].ip = NoIP]
    /\ UNCHANGED clusterVars

\* The compensating IPPool update that removes the request's entry, then a
\* fresh allocator pass. A CAS loop whose mutation only removes the
\* request's own entry has the effect of its one successful attempt, so it
\* is one step.
AddRollback(p) ==
    LET pl == PodPool[p] IN
    /\ cni[p].pc = "rollback"
    /\ alloc' = [alloc EXCEPT ![pl] = DeallocateIP(@, p)]
    /\ poolVersion' = [poolVersion EXCEPT ![pl] = @ + 1]
    /\ cni' = [cni EXCEPT ![p].pc = "read", ![p].ip = NoIP]
    /\ UNCHANGED <<overlap, pod>>

-----------------------------------------------------------------------------
(* DEL; the pod object goes away when DEL returns. *)

Removed(p) == pod' = [pod EXCEPT ![p].phase = "Gone"]

\* DeallocateIP through the IPPool CAS loop (one step, as for the
\* rollback). An attachment without a reservation ends DEL successfully and
\* leaves the cluster-wide reservations alone.
DelLedger(p) ==
    LET pl == PodPool[p]
        ip == OwnedIP(alloc[pl], p)
    IN
    /\ cni[p].pc = "del"
    /\ \/ /\ ip = NoIP
          /\ cni' = [cni EXCEPT ![p].pc = "deleted"]
          /\ Removed(p)
          /\ UNCHANGED <<alloc, poolVersion>>
       \/ /\ ip # NoIP
          /\ alloc' = [alloc EXCEPT ![pl] = DeallocateIP(@, p)]
          /\ poolVersion' = [poolVersion EXCEPT ![pl] = @ + 1]
          /\ IF OverlappingRanges
             THEN /\ cni' = [cni EXCEPT ![p].pc = "delOverlap", ![p].ip = ip]
                  /\ UNCHANGED pod
             ELSE /\ cni' = [cni EXCEPT ![p].pc = "deleted"]
                  /\ Removed(p)
    /\ UNCHANGED overlap

\* OverlapStore.Release: delete the reservation named after the address,
\* whoever it names.
DelOverlap(p) ==
    /\ cni[p].pc = "delOverlap"
    /\ overlap' = [overlap EXCEPT ![cni[p].ip] = NoPod]
    /\ cni' = [cni EXCEPT ![p].pc = "deleted"]
    /\ Removed(p)
    /\ UNCHANGED <<alloc, poolVersion>>

-----------------------------------------------------------------------------
(* The environment: kubelet, multus and the nodes. *)

\* A pod is created and kubelet runs ADD for its attachment.
CreatePod(p) ==
    /\ pod[p].phase = "Absent"
    /\ pod' = [pod EXCEPT ![p].phase = "Pending"]
    /\ cni' = [cni EXCEPT ![p].pc = "read"]
    /\ UNCHANGED <<alloc, poolVersion, overlap>>

\* Multus writes the address ADD returned into the network-status annotation.
PublishNetworkStatus(p) ==
    /\ cni[p].pc = "added"
    /\ pod[p].phase = "Pending"
    /\ pod[p].ips = {}
    /\ pod' = [pod EXCEPT ![p].ips = {cni[p].ip}]
    /\ UNCHANGED <<alloc, poolVersion, overlap, cni>>

\* The containers start.
StartPod(p) ==
    /\ pod[p].phase = "Pending"
    /\ pod[p].ips # {}
    /\ pod' = [pod EXCEPT ![p].phase = "Running"]
    /\ UNCHANGED <<alloc, poolVersion, overlap, cni>>

\* The pod is deleted; kubelet runs DEL once ADD has returned.
DeletePod(p) ==
    /\ Exists(p)
    /\ cni[p].pc \in {"added", "failed"}
    /\ cni' = [cni EXCEPT ![p].pc = "del"]
    /\ UNCHANGED clusterVars

\* The pod's node dies in the middle of, or after, its requests: the pod
\* object is force-deleted and no request of it runs again.
NodeLost(p) ==
    /\ Exists(p)
    /\ cni[p].pc \notin {"none", "deleted", "lost"}
    /\ pod' = [pod EXCEPT ![p].phase = "Gone"]
    /\ cni' = [cni EXCEPT ![p].pc = "lost"]
    /\ UNCHANGED <<alloc, poolVersion, overlap>>

\* The taint manager marks the pod for eviction (DisruptionTarget,
\* DeletionByTaintManager); the pod goes on running until it is deleted.
MarkForEviction(p) ==
    /\ TaintEvictions
    /\ Exists(p)
    /\ ~pod[p].evicting
    /\ pod' = [pod EXCEPT ![p].evicting = TRUE]
    /\ UNCHANGED <<alloc, poolVersion, overlap, cni>>

CNINext ==
    \E p \in Pods :
        \/ AddRead(p) \/ AddWrite(p) \/ AddClaim(p) \/ AddRollback(p)
        \/ DelLedger(p) \/ DelOverlap(p)

EnvNext ==
    \E p \in Pods :
        \/ CreatePod(p) \/ PublishNetworkStatus(p) \/ StartPod(p)
        \/ DeletePod(p) \/ NodeLost(p) \/ MarkForEviction(p)

\* Kubelet runs every request it has started to completion unless the node
\* dies: each step of a request is weakly fair. The environment is not.
CNIFairness == \A p \in Pods :
    WF_<<clusterVars, cni>>(AddRead(p) \/ AddWrite(p) \/ AddClaim(p)
                            \/ AddRollback(p) \/ DelLedger(p) \/ DelOverlap(p))

=============================================================================
