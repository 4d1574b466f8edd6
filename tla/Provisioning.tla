---------------------------- MODULE Provisioning ---------------------------
(***************************************************************************)
(* tenant.Service: POST /tenants inserts a row and queues it, one worker   *)
(* goroutine takes tenants off the queue, deploys an instance for each and *)
(* writes the outcome back.  When the queue is full the request handler    *)
(* provisions synchronously, under the request's own context.              *)
(*                                                                         *)
(* An actor is the worker or the handler of one request.  Both run         *)
(* provisionTenantServices; every call that leaves the process (a SQL      *)
(* statement, a yc command) is a step of its own, so anything may happen   *)
(* between two of them.                                                    *)
(***************************************************************************)
EXTENDS YandexDeployer, Sequences

CONSTANTS
    Requests,         \* POST /tenants requests, one handler each
    Worker,           \* the provisioningWorker goroutine
    QueueCap,         \* capacity of provisioningQueue (100 in the code)
    ReturnsAPIKey,    \* the deployer fills Application.APIKey (Yandex does,
                      \* Railway leaves it empty)
    MayCrash,         \* the process may stop and start again
    MayCancel         \* a client may go away before its answer

ASSUME ProvisioningAssumption ==
    /\ Worker \notin Requests
    /\ QueueCap \in Nat \ {0}
    /\ ReturnsAPIKey \in BOOLEAN
    /\ MayCrash \in BOOLEAN
    /\ MayCancel \in BOOLEAN

VARIABLES
    queue,            \* provisioningQueue: pointers to ports.Tenant values
    pc,               \* where every actor stands
    ptr,              \* the ports.Tenant an actor works on: id and fields
    seen,             \* the row updateTenantStatus read back
    deployed,         \* the address in the actor's TenantDeployment
    orphan,           \* the tenant a request inserted before its fallback
    cancelled         \* requests whose context is done

provisioningVars == <<queue, pc, ptr, seen, deployed, orphan, cancelled>>
vars == <<storageVars, vm, provisioningVars>>

Actors  == Requests \cup {Worker}
Pointer == [id : Tenants \cup {NoTenant}, row : Row]
Nobody  == [id |-> NoTenant, row |-> NoRow]

RequestSteps == {"idle", "enqueue", "fallback", "rollback"}
AnsweredAt   == {"accepted", "created", "failed", "gone"}
DeploySteps  == {"deploy", "address", "wait", "cleanup", "save"}
WorkerSteps  == {"idle", "mark", "markWrite", "failRead", "failWrite"}

TypeOK ==
    /\ StorageTypeOK
    /\ DeployerTypeOK
    /\ queue \in Seq(Pointer)
    /\ Len(queue) <= QueueCap
    /\ pc \in [Actors -> RequestSteps \cup AnsweredAt \cup DeploySteps
                           \cup WorkerSteps]
    /\ pc[Worker] \in WorkerSteps \cup DeploySteps
    /\ \A r \in Requests : pc[r] \in RequestSteps \cup AnsweredAt
                                       \cup DeploySteps
    /\ ptr \in [Actors -> Pointer]
    /\ seen \in Row
    /\ deployed \in [Actors -> Hosts \cup {NoHost}]
    /\ orphan \in [Requests -> Tenants \cup {NoTenant}]
    /\ cancelled \subseteq Requests

Init ==
    /\ StorageInit
    /\ DeployerInit
    /\ queue = <<>>
    /\ pc = [a \in Actors |-> "idle"]
    /\ ptr = [a \in Actors |-> Nobody]
    /\ seen = NoRow
    /\ deployed = [a \in Actors |-> NoHost]
    /\ orphan = [r \in Requests |-> NoTenant]
    /\ cancelled = {}

----------------------------------------------------------------------------
(* A call under a finished context returns an error and does nothing.      *)
Under(a, outcomes) == IF a \in cancelled THEN {"err"} ELSE outcomes

Goto(a, step) == pc' = [pc EXCEPT ![a] = step]

(* An actor that is done with its tenant drops the pointer. *)
Finish(a, step) ==
    /\ Goto(a, step)
    /\ ptr' = [ptr EXCEPT ![a] = Nobody]
    /\ deployed' = [deployed EXCEPT ![a] = NoHost]

----------------------------------------------------------------------------
(* CreateTenantAsync, up to the insert. *)
CreateTenantAsync(r) ==
    /\ pc[r] = "idle"
    /\ \E t \in Tenants, k \in Keys, out \in Under(r, StorageOutcomes) :
         LET row == NewRow("provisioning", k) IN
         /\ InsertTenant(t, row, out)
         /\ Goto(r, IF InsertFails(t, row, out) THEN "failed" ELSE "enqueue")
         /\ ptr' = IF InsertFails(t, row, out)
                   THEN ptr
                   ELSE [ptr EXCEPT ![r] = [id |-> t, row |-> row]]
    /\ UNCHANGED <<vm, queue, seen, deployed, orphan, cancelled>>

HasRoomMutant == Len(queue) <= QueueCap
HasRoom       == Len(queue) < QueueCap

(* Mutant: a handler that queued its tenant does not return, and goes on   *)
(* to provision it itself.                                                 *)
EnqueueMutant(r) ==
    /\ pc[r] = "enqueue"
    /\ \/ /\ HasRoom
          /\ queue' = Append(queue, ptr[r])
          /\ Goto(r, "deploy")
          /\ UNCHANGED <<ptr, orphan>>
       \/ /\ ~HasRoom
          /\ orphan' = [orphan EXCEPT ![r] = ptr[r].id]
          /\ Goto(r, "fallback")
          /\ ptr' = [ptr EXCEPT ![r] = Nobody]
          /\ UNCHANGED queue
    /\ UNCHANGED <<storageVars, vm, seen, deployed, cancelled>>

(* The select of CreateTenantAsync: the queue takes the pointer, or it is  *)
(* full and the handler starts over with a tenant of its own.              *)
Enqueue(r) ==
    /\ pc[r] = "enqueue"
    /\ ptr' = [ptr EXCEPT ![r] = Nobody]
    /\ \/ /\ HasRoom
          /\ queue' = Append(queue, ptr[r])
          /\ Goto(r, "accepted")
          /\ UNCHANGED orphan
       \/ /\ ~HasRoom
          /\ orphan' = [orphan EXCEPT ![r] = ptr[r].id]
          /\ Goto(r, "fallback")
          /\ UNCHANGED queue
    /\ UNCHANGED <<storageVars, vm, seen, deployed, cancelled>>

(* CreateTenantWithProvisioning, up to the insert: no status is set, so    *)
(* the row is "active" before anything runs.                               *)
CreateTenantWithProvisioning(r) ==
    /\ pc[r] = "fallback"
    /\ \E t \in Tenants, k \in Keys, out \in Under(r, StorageOutcomes) :
         LET row == NewRow("", k) IN
         /\ InsertTenant(t, row, out)
         /\ Goto(r, IF InsertFails(t, row, out) THEN "failed" ELSE "deploy")
         /\ ptr' = IF InsertFails(t, row, out)
                   THEN ptr
                   ELSE [ptr EXCEPT ![r] = [id |-> t, row |-> row]]
    /\ UNCHANGED <<vm, queue, seen, deployed, orphan, cancelled>>

(* The client disconnects: the request context is done. *)
Cancel(r) ==
    /\ MayCancel
    /\ r \notin cancelled
    /\ pc[r] \notin AnsweredAt \cup {"idle"}
    /\ cancelled' = cancelled \cup {r}
    /\ UNCHANGED <<storageVars, vm, queue, pc, ptr, seen, deployed, orphan>>

----------------------------------------------------------------------------
(* The worker receives the next tenant. *)
Take ==
    /\ pc[Worker] = "idle"
    /\ queue # <<>>
    /\ ptr' = [ptr EXCEPT ![Worker] = Head(queue)]
    /\ queue' = Tail(queue)
    /\ Goto(Worker, "mark")
    /\ UNCHANGED <<storageVars, vm, seen, deployed, orphan, cancelled>>

(* updateTenantStatus: GetTenant, then UpdateTenant of the row it read.    *)
(* "creating_services" changes ProvisioningStatus alone, which no column   *)
(* holds: the write stores the row as it was read.                         *)
ReadForStatus(from, found, missing) ==
    /\ pc[Worker] = from
    /\ \E out \in StorageOutcomes \ {"lost"} :
         IF GetTenantFails(ptr[Worker].id, out)
         THEN /\ missing
              /\ UNCHANGED seen
         ELSE /\ Goto(Worker, found)
              /\ seen' = tenants[ptr[Worker].id]
              /\ UNCHANGED <<ptr, deployed>>
    /\ UNCHANGED <<storageVars, vm, queue, orphan, cancelled>>

MarkRead ==
    ReadForStatus("mark", "markWrite",
                  Goto(Worker, "deploy") /\ UNCHANGED <<ptr, deployed>>)

MarkWrite ==
    /\ pc[Worker] = "markWrite"
    /\ \E out \in StorageOutcomes : UpdateTenant(ptr[Worker].id, seen, out)
    /\ seen' = NoRow
    /\ Goto(Worker, "deploy")
    /\ UNCHANGED <<vm, queue, ptr, deployed, orphan, cancelled>>

(* updateTenantStatus(id, "failed", err). *)
FailRead == ReadForStatus("failRead", "failWrite", Finish(Worker, "idle"))

FailedRowMutant == seen
FailedRow       == [seen EXCEPT !.status = "provisioning_failed"]

FailWrite ==
    /\ pc[Worker] = "failWrite"
    /\ \E out \in StorageOutcomes :
         UpdateTenant(ptr[Worker].id, FailedRow, out)
    /\ seen' = NoRow
    /\ Finish(Worker, "idle")
    /\ UNCHANGED <<vm, queue, orphan, cancelled>>

----------------------------------------------------------------------------
(* provisionTenantServices, for the worker and for a request. *)
Deploy(a) ==
    /\ pc[a] = "deploy"
    /\ \E out \in Under(a, DeployOutcomes) :
         /\ CreateInstance(ptr[a].id, ptr[a].row.key, out)
         /\ Goto(a, IF CreateFails(ptr[a].id, out) THEN "cleanup"
                                                   ELSE "address")
    /\ UNCHANGED <<storageVars, queue, ptr, seen, deployed, orphan, cancelled>>

(* DeployTenant reads the address and returns; the pointer takes the API   *)
(* key of the deployment.                                                  *)
GetAddress(a) ==
    /\ pc[a] = "address"
    /\ \E out \in Under(a, DeployOutcomes \ {"lost"}) :
         IF AddressFails(ptr[a].id, out)
         THEN /\ Goto(a, "cleanup")
              /\ UNCHANGED <<ptr, deployed>>
         ELSE /\ Goto(a, "wait")
              /\ deployed' = [deployed EXCEPT ![a] = Address(ptr[a].id)]
              /\ ptr' = IF ReturnsAPIKey THEN ptr
                        ELSE [ptr EXCEPT ![a].row.key = NoKey]
    /\ UNCHANGED <<storageVars, vm, queue, seen, orphan, cancelled>>

(* waitForTenantServices: some check of the next five minutes answers      *)
(* healthy, or the timeout (or the caller's context) ends the wait.        *)
ServicesReady(a) ==
    /\ pc[a] = "wait"
    /\ a \notin cancelled
    /\ MayBeHealthy(ptr[a].id)
    /\ Goto(a, "save")
    /\ UNCHANGED <<storageVars, vm, queue, ptr, seen, deployed, orphan,
                   cancelled>>

(* Mutant: the wait has no deadline. *)
ServicesTimeoutMutant(a) == pc[a] = "wait" /\ UNCHANGED vars

ServicesTimeout(a) ==
    /\ pc[a] = "wait"
    /\ Goto(a, "cleanup")
    /\ UNCHANGED <<storageVars, vm, queue, ptr, seen, deployed, orphan,
                   cancelled>>

(* Mutant: the instance of a failed deployment is not deleted. *)
CleanupMutant(a) ==
    /\ pc[a] = "cleanup"
    /\ Goto(a, IF a = Worker THEN "failRead" ELSE "rollback")
    /\ UNCHANGED <<storageVars, vm, queue, ptr, seen, deployed, orphan,
                   cancelled>>

(* Mutant: a deployment that failed is tried again. *)
CleanupRetries(a) ==
    /\ pc[a] = "cleanup"
    /\ \E out \in Under(a, DeleteOutcomes) : DeleteServices(ptr[a].id, out)
    /\ Goto(a, "deploy")
    /\ UNCHANGED <<storageVars, queue, ptr, seen, deployed, orphan, cancelled>>

(* DeleteServices after a failure; its own error is only logged. *)
Cleanup(a) ==
    /\ pc[a] = "cleanup"
    /\ \E out \in Under(a, DeleteOutcomes) : DeleteServices(ptr[a].id, out)
    /\ Goto(a, IF a = Worker THEN "failRead" ELSE "rollback")
    /\ UNCHANGED <<storageVars, queue, ptr, seen, deployed, orphan, cancelled>>

----------------------------------------------------------------------------
(* The worker's last write: the whole row of its pointer. *)
(* Mutant: the key of the deployment is not copied into the row. *)
ReadyRowMutant == [status |-> "active", key |-> NoKey, host |-> deployed[Worker]]

ReadyRow == [ptr[Worker].row EXCEPT !.host   = deployed[Worker],
                                    !.status = "active"]

(* Mutant: a failed save cleans up like a failed deployment. *)
SaveReadyMutant ==
    /\ pc[Worker] = "save"
    /\ \E out \in StorageOutcomes :
         /\ UpdateTenant(ptr[Worker].id, ReadyRow, out)
         /\ IF UpdateFails(ptr[Worker].id, ReadyRow, out)
            THEN /\ Goto(Worker, "cleanup")
                 /\ UNCHANGED <<ptr, deployed>>
            ELSE Finish(Worker, "idle")
    /\ UNCHANGED <<vm, queue, seen, orphan, cancelled>>

SaveReady ==
    /\ pc[Worker] = "save"
    /\ \E out \in StorageOutcomes :
         /\ UpdateTenant(ptr[Worker].id, ReadyRow, out)
         /\ IF UpdateFails(ptr[Worker].id, ReadyRow, out)
            THEN /\ Goto(Worker, "failRead")
                 /\ UNCHANGED <<ptr, deployed>>
            ELSE Finish(Worker, "idle")
    /\ UNCHANGED <<vm, queue, seen, orphan, cancelled>>

(* The request's last write; a failure answers 500 and undoes nothing. *)
CreatedRow(r) == [ptr[r].row EXCEPT !.host = deployed[r]]

SaveCreated(r) ==
    /\ pc[r] = "save"
    /\ \E out \in Under(r, StorageOutcomes) :
         /\ UpdateTenant(ptr[r].id, CreatedRow(r), out)
         /\ Finish(r, IF UpdateFails(ptr[r].id, CreatedRow(r), out)
                      THEN "failed" ELSE "created")
    /\ UNCHANGED <<vm, queue, seen, orphan, cancelled>>

(* Mutant: a failed synchronous creation keeps its row. *)
RollbackMutant(r) ==
    /\ pc[r] = "rollback"
    /\ Finish(r, "failed")
    /\ UNCHANGED <<storageVars, vm, queue, seen, orphan, cancelled>>

(* "Rollback tenant creation": the soft delete; its error is only logged. *)
Rollback(r) ==
    /\ pc[r] = "rollback"
    /\ \E out \in Under(r, StorageOutcomes) : DeleteTenant(ptr[r].id, out)
    /\ Finish(r, "failed")
    /\ UNCHANGED <<vm, queue, seen, orphan, cancelled>>

----------------------------------------------------------------------------
(* The process stops (shutdown exits without draining) and starts again:   *)
(* the table and the cloud remain, the queue and the goroutines do not.    *)
Crash ==
    /\ MayCrash
    /\ queue' = <<>>
    /\ pc' = [a \in Actors |->
                IF a = Worker THEN "idle"
                ELSE IF pc[a] \in AnsweredAt \cup {"idle"} THEN pc[a]
                ELSE "gone"]
    /\ ptr' = [a \in Actors |-> Nobody]
    /\ seen' = NoRow
    /\ deployed' = [a \in Actors |-> NoHost]
    /\ UNCHANGED <<storageVars, vm, orphan, cancelled>>

----------------------------------------------------------------------------
WorkerProgress ==
    \/ Take \/ MarkRead \/ MarkWrite \/ FailRead \/ FailWrite \/ SaveReady
    \/ Deploy(Worker) \/ GetAddress(Worker) \/ ServicesTimeout(Worker)
    \/ Cleanup(Worker)

HandlerProgress(r) ==
    \/ Enqueue(r) \/ CreateTenantWithProvisioning(r)
    \/ Deploy(r) \/ GetAddress(r) \/ ServicesTimeout(r)
    \/ Cleanup(r) \/ SaveCreated(r) \/ Rollback(r)

Next == \/ WorkerProgress
        \/ \E r \in Requests : HandlerProgress(r) \/ CreateTenantAsync(r)
                                 \/ Cancel(r)
        \/ \E a \in Actors : ServicesReady(a)
        \/ Crash

(* Goroutines that can run do run, and every external call returns (the    *)
(* storage calls and yc commands are assumed to answer in finite time).    *)
(* That an instance ever becomes healthy is not assumed.                   *)
Fairness == /\ WF_vars(WorkerProgress)
            /\ \A r \in Requests : WF_vars(HandlerProgress(r))

Spec     == Init /\ [][Next]_vars
FairSpec == Spec /\ Fairness

----------------------------------------------------------------------------
(* Safety *)

QueuedIds   == {queue[i].id : i \in 1 .. Len(queue)}
HandledIds  == {ptr[a].id : a \in Actors}
OrphanIds   == {orphan[r] : r \in Requests}

(* A tenant is provisioned by one actor at a time: its pointer is in the   *)
(* queue once or held by one goroutine, never both.  CreateTenantAsync     *)
(* either queues the pointer or starts over with another tenant, and the   *)
(* worker receives what it provisions.                                     *)
ExclusiveOwnership ==
    /\ \A i, j \in 1 .. Len(queue) : queue[i].id = queue[j].id => i = j
    /\ \A a \in Actors : ptr[a].id \notin QueuedIds
    /\ \A a, b \in Actors :
         ptr[a].id = ptr[b].id /\ ptr[a].id # NoTenant => a = b

OwnKey(t, k) == k = NoKey \/ keyOwner[k] = t

(* The key in a row, in a pointer on its way to be written and in an       *)
(* instance's environment was generated for that very tenant, so that      *)
(* GetTenantByAPIKey never resolves one tenant's key to another tenant.    *)
KeyOwnership ==
    /\ \A t \in Tenants : OwnKey(t, tenants[t].key) /\ OwnKey(t, vm[t].key)
    /\ \A a \in Actors : ptr[a].id # NoTenant
                            => OwnKey(ptr[a].id, ptr[a].row.key)
    /\ \A i \in 1 .. Len(queue) : OwnKey(queue[i].id, queue[i].row.key)

(* An active row with an address leads to the tenant's own running         *)
(* instance, and the instance accepts the key of the row: neither a failed *)
(* write, nor a cleanup, nor a crash leaves a row that routes elsewhere.   *)
ActiveIsServable ==
    \A t \in Tenants :
        tenants[t].status = "active" /\ tenants[t].host # NoHost
        => vm[t] = [host |-> tenants[t].host, key |-> tenants[t].key]

(* Instances cost money: one that runs is being provisioned by somebody or *)
(* serves the row that names its address.  provisionTenantServices cleans  *)
(* up on every error path.                                                 *)
NoLeakedInstance ==
    \A t \in Tenants : Running(t) =>
        \/ t \in HandledIds
        \/ /\ tenants[t].status = "active"
           /\ tenants[t].host = vm[t].host

(* A row says "provisioning" only while somebody is going to settle it,    *)
(* apart from the rows the full queue made a request give up.              *)
ProvisioningIsHandled ==
    \A t \in Tenants : tenants[t].status = "provisioning" =>
        t \in QueuedIds \cup HandledIds \cup OrphanIds

(* "Queue full, handle synchronously": every row that says "provisioning"  *)
(* is queued or in somebody's hands, those of a full queue included.       *)
FallbackKeepsTheTenant ==
    \A t \in Tenants : tenants[t].status = "provisioning" =>
        t \in QueuedIds \cup HandledIds

(* A row that is active without an address is a synchronous creation that  *)
(* is still running: when it fails the rollback takes the row away.        *)
ActiveWithoutAddressIsTransient ==
    \A t \in Tenants :
        tenants[t].status = "active" /\ tenants[t].host = NoHost
        => t \in HandledIds

(* Action property: the key a client got with its answer stays the key of  *)
(* the row, and an address once published is not replaced, whatever the    *)
(* worker and the handlers write later.                                    *)
PublishedStays ==
    [][\A t \in Tenants : Stored(t) =>
         /\ tenants'[t].key = tenants[t].key
         /\ tenants[t].host # NoHost => tenants'[t].host = tenants[t].host]_vars

(* Refinement: for whoever looks at the table and the cloud, creation is   *)
(* the lifecycle of TenantLifecycle.  A row without an address counts as   *)
(* pending even when the synchronous path stores it as "active".           *)
PhaseOf(row) ==
    CASE row.status = "none" -> "none"
      [] row.status \in {"provisioning_failed", "deleted"} -> "failed"
      [] row.status = "active" /\ row.host # NoHost -> "active"
      [] OTHER -> "pending"

Lifecycle == INSTANCE TenantLifecycle
             WITH phase   <- [t \in Tenants |-> PhaseOf(tenants[t])],
                  key     <- [t \in Tenants |-> tenants[t].key],
                  backend <- vm

(* Every behaviour of the queue, the worker and the handlers, with all     *)
(* their faults, is one the abstract lifecycle allows.                     *)
ImplementsLifecycle == Lifecycle!Spec

----------------------------------------------------------------------------
(* Liveness *)

(* Every queued tenant is settled: it becomes active or is marked failed,  *)
(* also when deployments fail or instances never get healthy.              *)
QueuedSettles ==
    \A t \in Tenants :
        t \in QueuedIds ~> tenants[t].status \in {"active", "provisioning_failed"}

(* Every request that inserted its row is answered. *)
RequestAnswered ==
    \A r \in Requests : pc[r] = "enqueue" ~> pc[r] \in AnsweredAt
=============================================================================
