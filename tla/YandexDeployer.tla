--------------------------- MODULE YandexDeployer --------------------------
(***************************************************************************)
(* The ServiceDeployer port as YandexServiceDeployer implements it: one    *)
(* virtual machine per tenant, named by the tenant id, driven through the  *)
(* yc command line.  vm is the state of the cloud, which outlives the      *)
(* proxy.  An address is free again once its instance is deleted, so the   *)
(* cloud may give it to another tenant's instance.                         *)
(***************************************************************************)
EXTENDS TenantStorage

CONSTANTS
    DeployOutcomes,   \* outcomes of "yc compute instance create..." and
                      \* "... get": "ok", "err" (nothing happened), "lost"
                      \* (it happened, the command still reported failure)
    DeleteOutcomes    \* the same for "yc compute instance delete"

ASSUME DeployerAssumption ==
    /\ DeployOutcomes \subseteq {"ok", "err", "lost"}
    /\ DeleteOutcomes \subseteq {"ok", "err", "lost"}

VARIABLE vm           \* for every tenant its instance, or NoVM

Instance == [host : Hosts \cup {NoHost}, key : Keys \cup {NoKey}]
NoVM     == [host |-> NoHost, key |-> NoKey]

Running(t)  == vm[t].host # NoHost
FreeHosts   == {h \in Hosts : \A t \in Tenants : vm[t].host # h}

DeployerTypeOK == vm \in [Tenants -> Instance]
DeployerInit   == vm = [t \in Tenants |-> NoVM]

----------------------------------------------------------------------------
(* createComputeInstanceWithConfig up to "create-with-container": the      *)
(* instance gets an address and ROOM_SERVICE_API_KEY = k.  The command    *)
(* fails for an instance name in use and without an address to give.       *)
CreateRejected(t)   == Running(t) \/ FreeHosts = {}
CreateFails(t, out) == out # "ok" \/ CreateRejected(t)

CreateInstance(t, k, out) ==
    IF out = "err" \/ CreateRejected(t)
    THEN UNCHANGED vm
    ELSE \E h \in FreeHosts :
            vm' = [vm EXCEPT ![t] = [host |-> h, key |-> k]]

(* "yc compute instance get" and parseInstanceIP, 30 seconds later. *)
AddressFails(t, out) == out # "ok" \/ ~Running(t)
Address(t) == vm[t].host

(* DeleteServices: deleteComputeInstance under a 30 second timeout.  It    *)
(* reports an error when the instance does not exist.  The command asks    *)
(* for the deletion and does not wait; a deletion accepted counts as done. *)
ServicesDeleteFails(t, out) == out # "ok" \/ ~Running(t)

DeleteServices(t, out) ==
    vm' = IF out = "err" THEN vm ELSE [vm EXCEPT ![t] = NoVM]

(* CheckHealth answers true only for an instance that exists and runs. *)
MayBeHealthy(t) == Running(t)
=============================================================================
