--------------------------- MODULE RouteOwnership ---------------------------
(***************************************************************************)
(* What the routing table promises the cluster, without leases, tasks or   *)
(* messages: a key has at most one owner, it is never taken from an owner  *)
(* in favour of another, and a session that ended acquires nothing and     *)
(* does not keep what it held.                                             *)
(***************************************************************************)
CONSTANTS Keys, Sessions, NoSession

VARIABLES
    holder,   \* the session each key routes to, or NoSession
    ended     \* sessions that are over

ownershipVars == <<holder, ended>>

OwnershipInit ==
    /\ holder = [k \in Keys |-> NoSession]
    /\ ended = {}

\* A live session gets a free key.
Acquire(k, s) ==
    /\ holder[k] = NoSession
    /\ s \notin ended
    /\ holder' = [holder EXCEPT ![k] = s]
    /\ UNCHANGED ended

\* Keys become free, by release or because their leases ran out together.
Free(K) ==
    /\ holder' = [k \in Keys |-> IF k \in K THEN NoSession ELSE holder[k]]
    /\ UNCHANGED ended

\* Sessions end, one at a time or with their node; what they hold stays behind.
End(S) ==
    /\ ended' = ended \cup S
    /\ UNCHANGED holder

OwnershipNext ==
    \/ \E k \in Keys, s \in Sessions : Acquire(k, s)
    \/ \E K \in SUBSET Keys : Free(K)
    \/ \E S \in SUBSET Sessions : End(S)

OwnershipSpec == OwnershipInit /\ [][OwnershipNext]_ownershipVars

\* What an ended session left behind becomes free.
LeftoversAreFreed ==
    \A k \in Keys, s \in Sessions :
        (holder[k] = s /\ s \in ended) ~> (holder[k] # s)

OwnershipFairSpec == OwnershipSpec /\ LeftoversAreFreed
=============================================================================
