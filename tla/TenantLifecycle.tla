-------------------------- MODULE TenantLifecycle --------------------------
(***************************************************************************)
(* What creating a tenant promises, without queue, worker, handlers or     *)
(* faults: a tenant is accepted with a key of its own, it is activated     *)
(* only when a backend of its own that accepts this key runs, its backend  *)
(* is not taken away while it is active, and a tenant given up stays so.   *)
(* Provisioning implements it (ProvisioningProofs).                        *)
(***************************************************************************)
CONSTANTS Tenants, Keys, Hosts, NoKey, NoHost

VARIABLES
    phase,            \* "none", "pending", "active" or "failed"
    key,              \* the API key of every tenant
    backend           \* the instance of every tenant: its address and key

vars == <<phase, key, backend>>

NoBackend == [host |-> NoHost, key |-> NoKey]

Init == /\ phase   = [t \in Tenants |-> "none"]
        /\ key     = [t \in Tenants |-> NoKey]
        /\ backend = [t \in Tenants |-> NoBackend]

Accept(t) ==
    /\ phase[t] = "none"
    /\ \E k \in Keys : /\ \A u \in Tenants : key[u] # k
                       /\ key' = [key EXCEPT ![t] = k]
    /\ phase' = [phase EXCEPT ![t] = "pending"]
    /\ UNCHANGED backend

StartBackend(t) ==
    /\ phase[t] = "pending"
    /\ backend[t] = NoBackend
    /\ \E h \in Hosts :
         /\ \A u \in Tenants : backend[u].host # h
         /\ backend' = [backend EXCEPT ![t] = [host |-> h, key |-> key[t]]]
    /\ UNCHANGED <<phase, key>>

StopBackend(t) ==
    /\ phase[t] = "pending"
    /\ backend' = [backend EXCEPT ![t] = NoBackend]
    /\ UNCHANGED <<phase, key>>

Activate(t) ==
    /\ phase[t] = "pending"
    /\ backend[t].host # NoHost
    /\ backend[t].key = key[t]
    /\ phase' = [phase EXCEPT ![t] = "active"]
    /\ UNCHANGED <<key, backend>>

(* An active tenant may still be given up: a write that reported an error  *)
(* had been applied.                                                       *)
GiveUp(t) ==
    /\ phase[t] \in {"pending", "active"}
    /\ phase' = [phase EXCEPT ![t] = "failed"]
    /\ UNCHANGED <<key, backend>>

Next == \E t \in Tenants : \/ Accept(t) \/ StartBackend(t) \/ StopBackend(t)
                           \/ Activate(t) \/ GiveUp(t)

Spec == Init /\ [][Next]_vars
=============================================================================
