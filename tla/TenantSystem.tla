---------------------------- MODULE TenantSystem ---------------------------
(***************************************************************************)
(* The writers of the tenants table and of the cloud, running together as  *)
(* cmd/proxy starts them: POST /tenants with its worker (Provisioning),    *)
(* the admin handlers for existing tenants (AdminApi) and the health check *)
(* (HealthCheck).  They share the table, the keys and the cloud and keep   *)
(* everything else to themselves; no lock orders their reads and writes.   *)
(*                                                                         *)
(* The parts are composed for what only their meeting can break.  Restarts *)
(* and Stop are explored by Provisioning and HealthCheck on their own, and *)
(* an instance that exists answers its checks (InstanceChanges is left to  *)
(* HealthCheck).                                                           *)
(***************************************************************************)
EXTENDS YandexDeployer, Sequences

CONSTANTS
    Requests, Worker, QueueCap, ReturnsAPIKey, MayCrash, MayCancel,
    Handlers, PatchStatuses, PatchHosts, MayExpire,
    Slots, Flaky, BatchMayExpire, MayStop

(* What Provisioning, AdminApi and HealthCheck assume of their constants.  *)
ASSUME SystemAssumption ==
    /\ Worker \notin Requests
    /\ QueueCap \in Nat \ {0}
    /\ {ReturnsAPIKey, MayCrash, MayCancel} \subseteq BOOLEAN
    /\ PatchStatuses \subseteq Statuses
    /\ PatchHosts \subseteq Hosts
    /\ MayExpire \in BOOLEAN
    /\ Slots \in Nat \ {0}
    /\ {Flaky, BatchMayExpire, MayStop} \subseteq BOOLEAN

VARIABLES
    queue, pc, ptr, seen, deployed, orphan, cancelled,
    op,
    loop, running, stopping, ctxDone, batchDone, late, copy, check, failures,
    down,
    alone             \* history: handlers that have had their tenant to
                      \* themselves since they read its row

P == INSTANCE Provisioning
A == INSTANCE AdminApi
H == INSTANCE HealthCheck
W == INSTANCE TableWriters WITH WrittenStatuses <- Statuses

provisioningVars == <<queue, pc, ptr, seen, deployed, orphan, cancelled>>
adminVars        == <<op>>
healthVars       == <<loop, running, stopping, ctxDone, batchDone, late, copy,
                      check, failures, down>>
vars == <<storageVars, vm, provisioningVars, adminVars, healthVars, alone>>

(* An empty table: every tenant the handlers and the health check meet was *)
(* created by a request.                                                   *)
Init ==
    /\ P!Init
    /\ H!HealthInit
    /\ op = [h \in Handlers |-> A!Idle]
    /\ alone = {}

----------------------------------------------------------------------------
(* Somebody else is at work on the tenant of a handler: another handler,   *)
(* the worker or a request, the queue, the health check.                   *)
Shared(h) ==
    LET t == op[h].id IN
    \/ \E g \in Handlers \ {h} : op[g].id = t
    \/ \E a \in P!Actors : ptr[a].id = t
    \/ \E i \in 1 .. Len(queue) : queue[i].id = t
    \/ check[t] # "none"

Watch ==
    alone' = {h \in Handlers : /\ op'[h].step # "idle"
                               /\ op[h].step = "idle" \/ h \in alone
                               /\ ~Shared(h)'}

WorkerStep ==
    /\ P!WorkerProgress \/ P!ServicesReady(Worker)
    /\ UNCHANGED <<adminVars, healthVars>>
    /\ Watch

CreateStep(r) ==
    /\ \/ P!CreateTenantAsync(r) \/ P!HandlerProgress(r)
       \/ P!ServicesReady(r)     \/ P!Cancel(r)
    /\ UNCHANGED <<adminVars, healthVars>>
    /\ Watch

AdminStep ==
    /\ A!Next
    /\ UNCHANGED <<provisioningVars, healthVars>>
    /\ Watch

LoopStep ==
    /\ H!Start \/ H!LoopStep
    /\ UNCHANGED <<provisioningVars, adminVars>>
    /\ Watch

CheckStep(t) ==
    /\ H!CheckStep(t)
    /\ UNCHANGED <<provisioningVars, adminVars>>
    /\ Watch

Next ==
    \/ WorkerStep
    \/ \E r \in Requests : CreateStep(r)
    \/ AdminStep
    \/ LoopStep
    \/ \E t \in Tenants : CheckStep(t)

(* As in HealthCheck: the timers fire and the checks return.  Nothing is   *)
(* assumed of the requests, nor of the worker.                             *)
Fairness == WF_vars(LoopStep) /\ \A t \in Tenants : WF_vars(CheckStep(t))

Spec     == Init /\ [][Next]_vars
FairSpec == Spec /\ Fairness

----------------------------------------------------------------------------
(* The types each part expects, of what it shares with the others too. *)
TypeOK == P!TypeOK /\ A!TypeOK /\ H!TypeOK /\ alone \subseteq Handlers

(* Everybody who writes the table does so within what TableWriters says of *)
(* the writers, and so within what the proxy was checked against.          *)
ImplementsWriters == W!TableSpec

(* A call is routed to the address of its tenant's row, and addresses are  *)
(* handed out again once their instance is gone.  Whoever wrote the row    *)
(* last, an instance of another tenant that meanwhile lives at the address *)
(* does not take the key of the call for its own.                          *)
MisroutedIsRefused ==
    \A t, u \in Tenants :
        /\ t # u
        /\ tenants[t].host # NoHost
        /\ tenants[t].host = vm[u].host
        => tenants[t].key # vm[u].key

(* "Delete tenant infrastructure (VMs) to stop costs": no instance runs    *)
(* behind a deleted row, also when the worker is still provisioning the    *)
(* tenant or the health check is about to write it.                        *)
DeletedHasNoInstance ==
    \A t \in Tenants : tenants[t].status = "deleted" => ~Running(t)

(* A tenant waits for an instance from its insert until the deploy command *)
(* returns; one that is stored and neither waits nor has an instance has   *)
(* none to come.                                                           *)
Awaited(t) ==
    \/ \E i \in 1 .. Len(queue) : queue[i].id = t
    \/ \E a \in P!Actors : /\ pc[a] \in {"enqueue", "mark", "markWrite", "deploy"}
                           /\ ptr[a].id = t

Gone(t) == Stored(t) /\ ~Running(t) /\ ~Awaited(t)

(* Action property: whatever stale pointer, copy or row the writers still  *)
(* hold, an instance that was deleted, or whose deployment failed, is      *)
(* never deployed again: deletion and cleanup are final.                   *)
GoneStays == [][\A t \in Tenants : Gone(t) => Gone(t)']_vars

(* "Delete tenant infrastructure (VMs) to stop costs", after the row was   *)
(* marked: a DELETE takes the instance away only while the row tells the   *)
(* proxy and the health check to leave the tenant alone, unless somebody   *)
(* else works on the tenant: a PUT, another DELETE, the worker's last      *)
(* write and a running health check put another status over the mark.      *)
DestroyedWhileMarked ==
    \A h \in alone : op[h].step = "destroy"
                     => tenants[op[h].id].status = "deleting"

(* A key that was drawn and that neither a row nor anybody's copy of a row *)
(* has any more.                                                           *)
Held(k) ==
    \/ \E t \in Tenants : tenants[t].key = k \/ copy[t].key = k
    \/ \E h \in Handlers : op[h].row.key = k
    \/ \E a \in P!Actors : ptr[a].row.key = k
    \/ \E i \in 1 .. Len(queue) : queue[i].row.key = k
    \/ seen.key = k

Dead(k) == keyOwner[k] # NoTenant /\ ~Held(k)

(* Action property.  "Old API key is immediately invalidated" holds of the *)
(* UPDATE of RegenerateAPIKey alone: a PUT, a DELETE, the worker and the   *)
(* health check that read the row before it write the old key back.  Once  *)
(* the last such copy is gone the old key is invalid for good: it resolves *)
(* to nobody, whatever is created, deleted or regenerated afterwards.      *)
OldKeyInvalid == [][\A k \in Keys : Dead(k) => Dead(k)']_vars

(* A DELETE that meets the worker, the health check or another DELETE      *)
(* leaves rows that are served although their instance is gone.            *)
Zombie(t) ==
    /\ tenants[t].status = "active"
    /\ tenants[t].host # NoHost
    /\ ~Running(t)

(* The health check takes such a row out of service, unless somebody else  *)
(* does so first.                                                          *)
ZombieIsFound == \A t \in Tenants : Zombie(t) ~> ~Zombie(t)
=============================================================================
