------------------------------ MODULE MCProxy ------------------------------
(* Instances of Proxy for TLC; API keys are numbers. *)
EXTENDS Proxy

(* Keys are UUIDs: it is enough to look at the behaviours that draw them   *)
(* in increasing order.                                                    *)
DrawnInOrder ==
    \A k, l \in Keys : l < k /\ keyOwner[k] # NoTenant
                       => keyOwner[l] # NoTenant
=============================================================================
