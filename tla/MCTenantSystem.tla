--------------------------- MODULE MCTenantSystem --------------------------
(* Instances of TenantSystem for TLC; tenant ids and keys are numbers. *)
EXTENDS TenantSystem, TLC

(* UUIDs are drawn in increasing order, as in MCProvisioning. *)
DrawnInOrder ==
    /\ \A t, u \in Tenants : u < t /\ Stored(t) => Stored(u)
    /\ \A k, l \in Keys : l < k /\ keyOwner[k] # NoTenant
                          => keyOwner[l] # NoTenant
=============================================================================
