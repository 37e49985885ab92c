---------------------------- MODULE IPAllocator ----------------------------
(***************************************************************************)
(* The allocator: a pure function from a pool's range and reservations to *)
(* the address a request gets (allocate.AssignIP) and to the reservations *)
(* left after a release (allocate.DeallocateIP). Its code is not part of  *)
(* this source tree; it is modelled from the specification (section 4.2): *)
(* the lowest free address of the effective interval wins, and a request  *)
(* whose podRef already holds an address of the pool gets that address   *)
(* back.                                                                  *)
(***************************************************************************)
EXTENDS ClusterState

LOCAL FS == INSTANCE FiniteSetsExt

\* The address pod p already holds in ledger a, or NoIP.
OwnedIP(a, p) ==
    IF \E ip \in DOMAIN a : a[ip] = p
    THEN CHOOSE ip \in DOMAIN a : a[ip] = p
    ELSE NoIP

\* Mutant: the range's end computed one past the last address.
AssignIPPastEnd(range, a, skip, p) ==
    LET free == (range \cup {FS!Max(range) + 1}) \ (Reserved(a) \cup skip)
    IN  IF OwnedIP(a, p) # NoIP THEN OwnedIP(a, p)
        ELSE IF free = {} THEN NoIP
        ELSE FS!Min(free)

\* AssignIP(range, reservelist, ...): the address pod p gets from ledger a
\* over the addresses range, never one of skip (the addresses a cluster-wide
\* reservation refused to this request); NoIP is the AssignmentError of an
\* exhausted range.
AssignIP(range, a, skip, p) ==
    LET free == range \ (Reserved(a) \cup skip)
    IN  IF OwnedIP(a, p) # NoIP THEN OwnedIP(a, p)
        ELSE IF free = {} THEN NoIP
        ELSE FS!Min(free)

\* DeallocateIP(reservelist, containerID, ifName): the ledger without the
\* reservation of pod p's attachment.
DeallocateIP(a, p) == [ip \in DOMAIN a |-> IF a[ip] = p THEN NoPod ELSE a[ip]]

=============================================================================
