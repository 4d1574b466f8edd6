--------------------------- MODULE MCProvisioning --------------------------
(* Instances of Provisioning for TLC.  Tenant ids and keys are numbers, so *)
(* that the random draws can be taken in increasing order.                 *)
EXTENDS Provisioning, TLC

(* UUIDs are interchangeable: it is enough to look at the behaviours that  *)
(* draw ids and keys in order.  Every step that draws another id or key    *)
(* has a twin, equal up to renaming, that satisfies this constraint.       *)
DrawnInOrder ==
    /\ \A t, u \in Tenants : u < t /\ Stored(t) => Stored(u)
    /\ \A k, l \in Keys : l < k /\ keyOwner[k] # NoTenant
                          => keyOwner[l] # NoTenant

(* Addresses and requests are interchangeable too. *)
Symmetry == Permutations(Hosts) \cup Permutations(Requests)
=============================================================================
