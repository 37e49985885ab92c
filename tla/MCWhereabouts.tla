---------------------------- MODULE MCWhereabouts ----------------------------
(***************************************************************************)
(* Model-checking instance: two pools whose ranges overlap, as           *)
(* 192.168.22.0/24 and 192.168.22.0/28 of the plugin's tests (the narrow  *)
(* one is a prefix of the wide one), and pods allocating from both.       *)
(***************************************************************************)
EXTENDS Whereabouts

CONSTANTS wide, narrow, p1, p2, p3

\* Addresses 1..3 of the wide range, 1..2 of the narrow one: the narrow
\* pool can be exhausted, and its addresses are also the wide pool's.
MCPoolRange == [pl \in Pools |-> IF pl = wide THEN 1..3 ELSE 1..2]

\* Addresses 1..2 of the wide range, 1 of the narrow one: the least that
\* still makes the wide pool's first choice collide with the narrow pool's.
MCPoolRangeSmall == [pl \in Pools |-> IF pl = wide THEN 1..2 ELSE 1..1]

\* One pod of the wide pool, the others of the narrow pool.
MCPodPool == [p \in Pods |-> IF p = p1 THEN wide ELSE narrow]

\* Every pod of the narrow pool: its requests and the reconciler's writes
\* race on one ledger.
MCPodPoolNarrow == [p \in Pods |-> narrow]

\* The last address of the narrow pool holds an allocation with an empty
\* podref.
MCLegacyAllocations == {[pool |-> narrow, ip |-> 2]}

=============================================================================
