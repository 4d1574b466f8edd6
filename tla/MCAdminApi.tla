----------------------------- MODULE MCAdminApi ----------------------------
(* Instances of AdminApi for TLC; API keys are numbers. *)
EXTENDS AdminApi, TLC

(* Keys are UUIDs: it is enough to look at the behaviours that draw them   *)
(* in increasing order.                                                    *)
DrawnInOrder ==
    \A k, l \in Keys : l < k /\ keyOwner[k] # NoTenant
                       => keyOwner[l] # NoTenant

Symmetry == Permutations(Tenants) \cup Permutations(Hosts)
                \cup Permutations(Handlers)
=============================================================================
