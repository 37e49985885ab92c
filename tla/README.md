# TLA+ models of whereabouts

These modules model the whereabouts IPAM system with TLC. They cover:

- the reconciler, which collects orphaned IP reservations (`src/pkg/reconciler`);
- the CNI plugin's ADD and DEL requests, which allocate and release addresses;
- the Kubernetes objects through which the two interact.

## The system

| Part | Code | What it does |
|---|---|---|
| IPPool | `pkg/api/.../ippool_types.go` | One object per range. `Spec.Allocations` is the ledger: address offset → podRef. Writes are compare-and-swap on `metadata.resourceVersion`. |
| OverlappingRangeIPReservation | `overlappingrangeipreservation_types.go` | One cluster-wide object per address, named after the address. With `enable_overlapping_ranges` it makes an address unique across pools whose ranges overlap. |
| CNI plugin | not in this tree (spec 4.3, 4.4) | ADD runs a CAS loop over the pool: read, `AssignIP`, Update. It gives up after `DatastoreRetries`. It then claims the cluster-wide reservation. On Conflict it rolls the ledger entry back and retries with the address in a do-not-pick set. DEL releases the ledger entry, then the reservation. |
| Reconciler | `pkg/reconciler/{ip,iploop,wrappedPod}.go` | A cron job; `ReconcileIPs` runs it. Its steps, in order: 1. List IPPools. 2. List pods, indexed to the podRefs the pools name. 3. Judge every ledger entry with `isOrphanedIP`, re-fetching a Pending pod that lacks the address up to `PodRefreshRetries` times. 4. List the cluster-wide reservations and judge them the same way. 5. Write each pool without its orphans. 6. Delete the orphaned reservations. |
| controlloop main | `cmd/controlloop/controlloop.go` | Starts the pod controller and the cron scheduler that runs `ReconcileIPs`. Logs each run's result. |

The CNI plugin and the reconciler share only API objects. The reconciler sees a pod's address through the pod's network-status annotation, which multus writes after ADD returns.

## Modules

- **`ClusterState`** holds the shared state.
  - `alloc[pl]` is a pool's ledger, keyed by address, holding a podRef, `EmptyPodRef` (an `IPAllocation` whose podref is empty) or `NoPod`. The constant `LegacyAllocations` names the slots that hold an empty-podref allocation initially; no modelled writer creates one.
  - `poolVersion[pl]` is the pool's resourceVersion.
  - `overlap[ip]` is the podRef of the reservation named `ip`, or `NoPod`.
  - `pod[p]` has `[phase, ips, evicting]`. The phase is one of `Absent`, `Pending`, `Running`, `Gone`. `ips` is the set of addresses the annotation lists for the whereabouts attachment. The constant `DefaultNetworkPods` names the pods whose whereabouts attachment is their default network; multus marks that network-status entry `"default": true`. `evicting` is the taint manager's `DisruptionTarget`/`DeletionByTaintManager` condition.
  - `VersionMatches` is the resourceVersion test that guards every IPPool update.
  - Addresses are integers. Two pools whose ranges overlap share integers.
- **`IPAllocator`** gives `AssignIP` and `DeallocateIP` as pure operators. It is modelled from the spec. `AssignIP` returns the podRef's existing address if it has one; otherwise the lowest free address not in the do-not-pick set.
- **`CNIPlugin`** (modelled from the spec) holds `cni[p]`, the request kubelet runs for pod `p`.
  - Its fields are the step, the pool snapshot, the version read, the chosen address, the do-not-pick set and the attempt count.
  - ADD actions: `AddRead`, `AddWrite` (success, exhausted range, or version conflict with retry bound), `AddClaim` (Claimed/AlreadyOwned or Conflict) and `AddRollback`.
  - DEL actions: `DelLedger` and `DelOverlap`.
  - The environment: `CreatePod`, `PublishNetworkStatus`, `StartPod`, `DeletePod`, `MarkForEviction` (enabled by the constant `TaintEvictions`), and `NodeLost`. `NodeLost` kills a pod in the middle of, or after, its requests; no DEL ever runs for it.
- **`Reconciler`** is translated from the source. `rc` is the `ReconcileLooper` of the current run plus a program counter. The fields are:
  - the pools and versions as listed;
  - `live` (`liveWhereaboutsPods`);
  - `todo` (the reservations not yet judged);
  - `cur` and `retries` (the Pending pod being re-fetched);
  - `orphans` and `overlapOrphans` (`orphanedIPs`, `orphanedClusterWideIPs`);
  - `pending` (pools not yet written).

  Each API call of the run is one action:

  | Action | Code |
  |---|---|
  | `ListIPPools` | `ListIPPools` |
  | `ListPods` | `ListPods` + `indexPods` |
  | `IsOrphanedIP` | one reservation judged against the listing |
  | `RefreshPod` | one `GetPod` of the re-fetch loop |
  | `ListOverlappingIPs` | `findClusterWideIPReservations` |
  | `StartReconcile` | hand-off to `ReconcileIPPools` |
  | `UpdatePool` | one `Pool.Update`; failure ends the run |
  | `DeleteOverlappingIP` | one deletion by name |
  | `ListFails` | `ListIPPools`, `ListPods` or `ListOverlappingIPs` returns an error: no looper, nothing written |
  | `UpdatePoolFails` | `Pool.Update` fails for a reason other than the version test; the run ends |
  | `UpdatePoolTimesOut` | `Pool.Update` is applied, but its `RequestTimeout` deadline expires first; the run ends as on a failure |
  | `DeleteOverlappingIPFails` | the deletion fails; the name is collected and the loop goes on |

  `WrapPod` uses `FlatIPSet` (`getFlatIPSet`). It drops the addresses of a pod in `DefaultNetworkPods`, because the code skips network-status entries marked default.

  The four failure actions are enabled only when the constant `ApiMayFail` is TRUE. `ListPods` leaves allocations with an empty podref out of the checks, as `findOrphanedIPsPerPool` skips them (`iploop.go:90`).

  When a run ends, the looper is discarded (`RIdle`). Only what it left unwritten stays visible, for `EveryOrphanAttempted`.
- **`AddressAssignment`** is the abstract specification of what the plugin promises, with no ledger, CAS or reservations. Each pod is given at most one address of its pool's range, never one a rival holds, and later gives it back. Rivals are the pods of its pool or, with `enable_overlapping_ranges`, every other pod.
  - `Whereabouts` instantiates it with the refinement mapping `assigned <- Assigned`.
  - `Assigned[p]` is the address `cni[p]` returned while the request is in `added`, otherwise none.
- **`Whereabouts`** composes the CNI requests, the environment and the reconciler, interleaved, and states the properties.
- **`MCWhereabouts`** is the model-checking instance. It has two pools, `wide` and `narrow`. The narrow range is a prefix of the wide one, as in the plugin's 192.168.22.0/24 and /28 tests. It defines the range and pod-to-pool assignments the cfgs choose between.

## Properties

- **`AddressOwnership`** (invariant). A pod whose ADD returned an address holds it in its pool's ledger. With overlapping ranges it also holds the cluster-wide reservation.
- **`FailedAddLeavesNothing`** (invariant). An ADD that returned an error holds no ledger entry and no cluster-wide reservation. It may get there after a committed entry whose Claim conflicted was rolled back, and the retries were then exhausted against concurrent writers. A rollback that forgets its compensating update leaves the address reserved for a pod that has none.
- **`NoLostReservation`** (action property). A ledger entry disappears or changes owner only in one of two ways:
  - a step of its owner's own request;
  - a reconciler step that writes a pool whose listing showed that entry and judged it orphan.

  A stale write, by CNI or by the reconciler, breaks it.
- **`NoLostClaim`** (action property). The same for the cluster-wide reservations: one disappears only in a step of its owner's request, or when the reconciler deletes it after judging that reservation, of that owner, orphan.
- **`AddressAssignmentRefined`** (refinement, `AA!Spec`). The plugin implements `AddressAssignment`.
- **`OrphanVerdictSound`** (action property). When the reconciler judges a reservation orphan, its pod is gone, is being evicted by the taint manager (spec 4.5 step 2), or does not list the address. This is the spec's definition of orphan, checked at the moment of the verdict.
- **`OrphansEventuallyCollected`** and **`OrphanReservationsEventuallyDeleted`** (liveness). A pod that is gone while it still holds a ledger entry, or a cluster-wide reservation, eventually holds none.
- **`StaleEntriesEventuallyRemoved`** (liveness). Every allocation whose podref names no live pod, an empty podref included, is eventually removed (spec section 6).
- **`EveryOrphanAttempted`** (invariant). A run that has ended wrote every pool in which it found orphans and deleted every orphaned reservation it found (spec 4.5 steps 5 and 6).

## Runs

| run | cfg | expect | shows |
|---|---|---|---|
| `cni_overlap` | 3 pods (1 wide, 2 narrow), ranges 1..3 / 1..2, overlapping on, no reconciler (`CNISpec`) | pass | The plugin refines `AddressAssignment`. Concurrent ADDs in one pool and across overlapping pools never hand out one address twice. No CAS write loses an entry. Covers conflicts, retries up to the bound, Claim conflicts and rollback, DEL and node loss. A failed ADD leaves nothing behind. |
| `reconciler_ledger` | 2 narrow pods, narrow range 1..2, overlapping off, taint evictions on | pass | The reconciler racing CNI writes to the same pool, and pods marked for eviction. Its update never erases a live entry, every verdict is sound, and lost pods' entries are collected. |
| `reconciler_overlap` | 2 pods (1 wide, 1 narrow), ranges 1..2 / 1..1, overlapping on | pass | The entries and reservations of pods lost anywhere in ADD or DEL are eventually removed. This includes a pod lost between the ledger commit and the claim. |
| `reconciler_api_faults` | 2 narrow pods, ranges 1..2 / 1..1, overlapping on, `ApiMayFail = TRUE`, `FaultSpec` | pass | With every List, Update and Delete call able to fail, and an Update able to time out after the server applied it, no reservation is lost, and lost pods' entries and reservations are still eventually removed, provided calls retried again and again eventually succeed. |
| `overlap_record_race` | as `reconciler_overlap` | violation of `OrphanVerdictSound` | The listing-order bug below. |
| `refresh_error_cuts_grace` | as `reconciler_ledger`, `RefreshMayFail = TRUE` | violation of `OrphanVerdictSound` | A `GetPod` error is taken for a deleted pod. |
| `pool_failure_aborts_run` | 2 narrow pods, overlapping on | violation of `EveryOrphanAttempted` | One failed pool update ends the run. |
| `pending_grace_duplicate` | as `reconciler_ledger`, no evictions | violation of `AddressAssignmentRefined` | With the reconciler, two pods of a pool can be handed one address (finding 4). |
| `overlap_delete_by_name` | as `reconciler_overlap` | violation of `NoLostClaim` | A deletion by name removes a reservation claimed again in the meantime (finding 5). |
| `default_network_skipped` | as `reconciler_ledger`, `DefaultNetworkPods = {p1}`, no evictions | violation of `OrphanVerdictSound` | The allocation of a running pod on its default network is judged orphan (finding 7). |
| `eviction_frees_address` | as `pending_grace_duplicate`, taint evictions on | violation of `AddressAssignmentRefined` | A pod marked for eviction loses its entry while it holds the address, and another pod is handed it (finding 8). |
| `empty_podref_leak` | 1 narrow pod, one empty-podref allocation at narrow address 2 | violation of `StaleEntriesEventuallyRemoved` | The empty-podref allocation is never removed (finding 6). |

**Bounds.**
- Two pools, with one overlapping address in the small configuration, are the least that make a cross-pool Claim conflict possible.
- Two pods in one pool are the least that make a ledger CAS conflict possible.
- `DatastoreRetries` is 2 in the CNI run. In the reconciler runs it is 1, so a request that loses one CAS race fails. That reaches the "retries exhausted" path without multiplying the state space.
- `PodRefreshRetries` is the code's 3.
- Three pods cannot be checked with the reconciler within minutes: 2 pods already reach about 600,000 states with the reconciler's listings.
- In `reconciler_api_faults` both pods share the narrow pool's single address. The pods still race for it, ledger entries and cluster-wide reservations are both collected, and every failure action fires. With one pod in each pool the run takes about 11 minutes (659,118 states), which is too long to keep.
- Across the passing runs every action and every disjunct fires.

**Fairness.**
- Each CNI request step is weakly fair. Kubelet runs a started request to completion unless the node dies, and `NodeLost` is not fair.
- The reconciler's steps are weakly fair as one action. The cron scheduler fires again and again, and a run goes on until it returns.
- In `FaultSpec` (the `reconciler_api_faults` run) the successful outcome of each API call (`ListIPPools`, `ListPods`, `ListOverlappingIPs`, `UpdatePool`, `DeleteOverlappingIP`) is also strongly fair (`RFaultFairness`). A failure can happen every time the run reaches a call, so its success is only intermittently enabled and weak fairness would not force it. The assumption is that API errors are transient: a call tried again and again eventually gets through. Without it no collection property can hold, since every run could fail at its first listing.
- The environment (pod creation, publication, start, deletion, node loss) has no fairness: pods may stay Pending forever.
- The spec (section 5) says reconciler runs do not overlap, so the model has one looper.

## Findings

1. **Cluster-wide reservations are judged against an older pod listing** (`iploop.go:77`, `:244`). `findClusterWideIPReservations` lists the reservations after the pools and pods were listed. `indexPods` kept only the podRefs found in the pool listing. A pod whose ADD commits and claims between those listings is not in `liveWhereaboutsPods`, so its fresh reservation is judged orphan and deleted while the pod runs with the address. After that, a pod of an overlapping pool can be given the same address.
2. **A `GetPod` error ends the Pending grace** (`iploop.go:124`, `:157`). `refreshPod` returns nil for any error, which `isOrphanedIP` treats as a deleted pod.
3. **A failed pool update aborts the run** (`iploop.go:216`, `ip.go:34`). The spec makes the per-pool updates independent and always runs the reservation deletions.

4. **The Pending grace can expire before the annotation appears** (`iploop.go:121`). After three re-fetches, a Pending pod that does not list its address is judged orphan and its entry is removed. This happens although ADD returned the address to it, so the next ADD of the pool is handed the same address. The spec adopts the fixed grace but promises uniqueness, and nothing bounds the annotation's delay. The model has no clock, so any delay exceeds the window.
5. **Reservations are deleted by name, whoever they now name** (spec line 97; `iploop.go:257`). The failing sequence:
   1. A pod's DEL has released its ledger entry.
   2. The reconciler no longer finds the pod's podRef in a pool, so it deletes the pod's reservation.
   3. Another pod claims the address.
   4. The first pod's release deletes the new owner's reservation.

   After that, a third request can claim an address that is in use.
6. **An allocation with an empty podref is never collected** (`iploop.go:90`). `findOrphanedIPsPerPool` logs it and skips it. The spec says every reservation whose podRef has no live pod is removed by the next run. The slot stays reserved for good, so the pool permanently loses that address.

7. **Addresses of a pod's default network are ignored** (`wrappedPod.go:104`). `getFlatIPSet` skips every network-status entry marked default ("we're only after multus secondary interfaces"). If whereabouts serves a pod's default network, `isOrphanedIP` judges the allocation of a Running pod that lists the address an orphan. The pool update then frees an address still in use. The spec calls a reservation orphan only if the annotation does not list the address, and it does not confine whereabouts to secondary networks.

8. **A pod marked for eviction loses its address while it still holds it** (`wrappedPod.go:66`). `indexPods` drops every pod with condition `DisruptionTarget=True`, reason `DeletionByTaintManager`, as spec 4.5 step 2 says. `isOrphanedIP` then judges its reservations orphans, and `ReconcileIPPools` frees them. The taint manager sets the condition before the pod's graceful termination, and the pod's DEL has not run. The next ADD of the pool is handed the address while the evicted pod still holds it. The spec's overview promises a unique address, and collects only the reservations of pods that no longer exist. The counterexample is 13 steps long, with no Pending re-fetch in it.

## Not modelled

- **Address arithmetic.** Offsets and exclusions are not in this tree, and addresses are integers. The name of a cluster-wide reservation and its conversion back to an address (`iploop.go:240`) are therefore not modelled: the reconciler matches a reservation to its address directly. The name is written by the plugin's normalization, which is not in this tree. The spec's plain `:` to `-` rule cannot be what the plugin does for an IPv6 text ending in `:`, since a name ending in `-` is not a valid object name, yet `whereabouts_test.go:263` allocates such an address. A check of the round trip against the spec's rule would check the spec against itself.
- **The allocator on its own.** `AssignIP` and `DeallocateIP` are modelled from the spec and used by the plugin's ADD and DEL. They are not checked against a second definition: with no allocator code in this tree, two renderings of the same spec rule agree by construction.
- **Annotation content.** Malformed network-status annotations are not modelled. In the code one yields the same empty set as an annotation that lists nothing, and no writer in this tree produces one. Of the pod's conditions, only the taint manager's eviction condition is modelled.
- **Time.** The 250 ms spacing of the Pending grace cannot be modelled. Removing the entry of a pod that publishes its address after the window is therefore allowed by the model; only the verdict's soundness at the moment of judgement is checked.
- **Where an empty podref comes from.** No code in this tree writes an allocation without a podref. The model starts from such a ledger (`LegacyAllocations`) rather than model a writer that is not here.
- **Concurrent reconciler runs.** The cron job's singleton setting lives in `NewConfigWatcher`, which is not in this tree. The spec says runs do not overlap, and the model follows it.
- **Pod-name reuse.** A StatefulSet pod recreated under the same podRef after its node was lost is not modelled. Spec 4.2 returns an existing reservation only for the same podRef, ifName and containerID, and DEL matches on containerID and ifName. A faithful model would carry the containerID in every ledger entry and reservation, and a generation in every pod. The CNI and reconciler state spaces, already at minutes for two pods, would not survive it. The stale verdict it would expose is of the same kind as findings 1 and 5.
- **Other components.** The pod controller's code and the NodeSlicePool types have no code here. The e2e tooling is test code.
