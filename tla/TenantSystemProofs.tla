------------------------- MODULE TenantSystemProofs -------------------------
(***************************************************************************)
(* The writers of the tenants table together: no mix of their stale copies *)
(* makes an instance accept the key of another tenant's row, leaves an     *)
(* instance running behind a deleted row, brings back a key that nobody    *)
(* has any more, or writes what TableWriters does not allow; and a DELETE  *)
(* that has its tenant to itself works under its mark.                     *)
(*                                                                         *)
(* PP and HP are the proofs of two of the parts: what a step of the worker *)
(* or of a request, and a step of the health check, keep of their own      *)
(* invariants was proved there and is cited.  What is left to prove is     *)
(* what each part keeps of the others' invariants.                         *)
(***************************************************************************)
EXTENDS TenantSystem, SequenceTheorems, TLAPS

PP == INSTANCE ProvisioningProofs
HP == INSTANCE HealthCheckProofs

Actors == Requests \cup {Worker}

OwnKey(t, k) == k = NoKey \/ keyOwner[k] = t

(* An instance has a key, and so has every tenant that waits for one. *)
InstancesHaveKeys ==
    /\ \A t \in Tenants : Running(t) => vm[t].key \in Keys
    /\ \A p \in PP!Waiting : p.row.key \in Keys

(* The copies of the admin handlers. *)
AdminInv ==
    /\ op \in [Handlers -> A!Operation]
    /\ \A h \in Handlers : op[h].step # "idle"
                             => /\ op[h].id \in Tenants
                                /\ OwnKey(op[h].id, op[h].row.key)
    /\ \A h \in Handlers : op[h].step \in {"save", "mark"}
                             => op[h].row.status # "none"

(* The copies of the health check. *)
HealthInv == HP!IInv /\ \A t \in Tenants : OwnKey(t, copy[t].key)

SInv == /\ PP!IInv /\ InstancesHaveKeys /\ AdminInv /\ HealthInv
        /\ alone \subseteq Handlers

----------------------------------------------------------------------------
(* The parts speak of the same table and the same cloud. *)

LEMMA SameSets ==
  /\ A!Idle = [step |-> "idle", id |-> NoTenant, row |-> NoRow,
               expired |-> FALSE]
  /\ PP!Row = Row /\ A!Row = Row /\ HP!Row = Row /\ H!Row = Row /\ P!Row = Row
  /\ PP!NoRow = NoRow /\ A!NoRow = NoRow /\ HP!NoRow = NoRow
  /\ H!NoRow = NoRow /\ P!NoRow = NoRow
  /\ PP!Instance = Instance /\ A!Instance = Instance /\ HP!Instance = Instance
  /\ PP!NoVM = NoVM /\ A!NoVM = NoVM /\ P!NoVM = NoVM
  /\ A!Statuses = Statuses
BY DEF Row, PP!Row, A!Row, HP!Row, H!Row, P!Row,
       Statuses, PP!Statuses, A!Statuses, HP!Statuses, H!Statuses, P!Statuses,
       NoRow, PP!NoRow, A!NoRow, HP!NoRow, H!NoRow, P!NoRow,
       Instance, PP!Instance, A!Instance, HP!Instance,
       NoVM, PP!NoVM, A!NoVM, P!NoVM, A!Idle

LEMMA SameStatements ==
  ASSUME NEW t, NEW row, NEW k, NEW out
  PROVE  /\ P!InsertTenant(t, row, out) <=> InsertTenant(t, row, out)
         /\ P!UpdateTenant(t, row, out) <=> UpdateTenant(t, row, out)
         /\ A!UpdateTenant(t, row, out) <=> UpdateTenant(t, row, out)
         /\ H!UpdateTenant(t, row, out) <=> UpdateTenant(t, row, out)
         /\ P!DeleteTenant(t, out) <=> DeleteTenant(t, out)
         /\ A!DeleteTenant(t, out) <=> DeleteTenant(t, out)
         /\ A!WriteNewKey(t, k, out) <=> WriteNewKey(t, k, out)
         /\ P!CreateInstance(t, k, out) <=> CreateInstance(t, k, out)
         /\ P!DeleteServices(t, out) <=> DeleteServices(t, out)
         /\ A!DeleteServices(t, out) <=> DeleteServices(t, out)
BY DEF P!storageVars, A!storageVars, H!storageVars, storageVars, P!Stored,
       A!Stored, H!Stored, Stored, P!KeyTaken, A!KeyTaken, H!KeyTaken,
       KeyTaken, P!UpdateRejected, A!UpdateRejected, H!UpdateRejected,
       UpdateRejected, P!UpdateTenant, A!UpdateTenant, H!UpdateTenant,
       UpdateTenant,
       P!DeleteTenant, A!DeleteTenant, DeleteTenant, P!DeleteServices,
       A!DeleteServices, DeleteServices, P!NoVM, A!NoVM, NoVM,
       P!InsertTenant, InsertTenant, P!InsertRejected, InsertRejected,
       P!FreshID, FreshID, P!FreshKey, FreshKey, A!WriteNewKey, WriteNewKey, A!FreshKey, P!CreateInstance,
       CreateInstance, P!CreateRejected, CreateRejected, P!FreeHosts, FreeHosts,
       P!Running, Running

(* Every step of the worker and of the requests is one of Provisioning, a  *)
(* step of the loop and its checks is one of HealthCheck.                  *)
LEMMA IsProvisioning ==
  /\ P!WorkerProgress => PP!WorkerProgress
  /\ \A a : P!ServicesReady(a) => PP!ServicesReady(a)
  /\ \A r : /\ P!HandlerProgress(r) => PP!HandlerProgress(r)
            /\ P!CreateTenantAsync(r) => PP!CreateTenantAsync(r)
            /\ P!Cancel(r) => PP!Cancel(r)
<1> USE DEF P!storageVars, PP!storageVars, P!Goto, PP!Goto, P!Finish, PP!Finish,
            P!Nobody, PP!Nobody, P!NoRow, PP!NoRow, P!Under, PP!Under,
            P!UpdateTenant, PP!UpdateTenant, P!UpdateRejected,
            PP!UpdateRejected, P!UpdateFails, PP!UpdateFails, P!KeyTaken,
            PP!KeyTaken, P!Stored, PP!Stored, P!Running, PP!Running
<1>1. /\ P!Take => PP!Take
      /\ P!MarkRead => PP!MarkRead
      /\ P!FailRead => PP!FailRead
  BY DEF P!Take, PP!Take, P!ReadForStatus, PP!ReadForStatus, P!MarkRead,
         PP!MarkRead, P!FailRead, PP!FailRead, P!GetTenantFails,
         PP!GetTenantFails
<1>2. /\ P!MarkWrite => PP!MarkWrite
      /\ P!FailWrite => PP!FailWrite
      /\ P!SaveReady => PP!SaveReady
  BY DEF P!MarkWrite, PP!MarkWrite, P!FailedRow, PP!FailedRow, P!FailWrite,
         PP!FailWrite, P!ReadyRow, PP!ReadyRow, P!SaveReady, PP!SaveReady
<1>3. ASSUME NEW a PROVE P!Deploy(a) => PP!Deploy(a)
  BY DEF P!Deploy, PP!Deploy, P!CreateInstance, PP!CreateInstance,
         P!CreateRejected, PP!CreateRejected, P!CreateFails, PP!CreateFails,
         P!FreeHosts, PP!FreeHosts
<1>4. ASSUME NEW a PROVE P!GetAddress(a) => PP!GetAddress(a)
  BY DEF P!GetAddress, PP!GetAddress, P!AddressFails, PP!AddressFails,
         P!Address, PP!Address
<1>5. ASSUME NEW a
      PROVE  /\ P!ServicesReady(a) => PP!ServicesReady(a)
             /\ P!ServicesTimeout(a) => PP!ServicesTimeout(a)
             /\ P!Cleanup(a) => PP!Cleanup(a)
  BY DEF P!ServicesReady, PP!ServicesReady, P!MayBeHealthy, PP!MayBeHealthy,
         P!ServicesTimeout, PP!ServicesTimeout, P!Cleanup, PP!Cleanup,
         P!DeleteServices, PP!DeleteServices, P!NoVM, PP!NoVM
<1>6. ASSUME NEW r
      PROVE  /\ P!Enqueue(r) => PP!Enqueue(r)
             /\ P!SaveCreated(r) => PP!SaveCreated(r)
             /\ P!Rollback(r) => PP!Rollback(r)
             /\ P!Cancel(r) => PP!Cancel(r)
  BY DEF P!Enqueue, PP!Enqueue, P!HasRoom, PP!HasRoom, P!SaveCreated,
         PP!SaveCreated, P!CreatedRow, PP!CreatedRow, P!Rollback, PP!Rollback,
         P!DeleteTenant, PP!DeleteTenant, P!Cancel, PP!Cancel,
         P!AnsweredAt, PP!AnsweredAt
<1>7. ASSUME NEW r
      PROVE  /\ P!CreateTenantAsync(r) => PP!CreateTenantAsync(r)
             /\ P!CreateTenantWithProvisioning(r)
                  => PP!CreateTenantWithProvisioning(r)
  BY DEF P!CreateTenantAsync, PP!CreateTenantAsync,
         P!CreateTenantWithProvisioning, PP!CreateTenantWithProvisioning,
         P!NewRow, PP!NewRow, P!InsertTenant, PP!InsertTenant,
         P!InsertFails, PP!InsertFails, P!InsertRejected, PP!InsertRejected,
         P!FreshID, PP!FreshID, P!FreshKey, PP!FreshKey
<1> QED
  BY <1>1, <1>2, <1>3, <1>4, <1>5, <1>6, <1>7
     DEF P!WorkerProgress, PP!WorkerProgress, P!HandlerProgress,
         PP!HandlerProgress

LEMMA IsHealthCheck ==
  /\ H!Start => HP!Start
  /\ H!LoopStep => HP!LoopStep
  /\ \A t \in Tenants : H!CheckStep(t) => HP!CheckStep(t)
<1> USE DEF H!storageVars, HP!storageVars, H!NoRow, HP!NoRow,
            H!Running, HP!Running
<1>1. H!Start => HP!Start
  BY DEF H!Start, HP!Start
<1>2. H!BeginBatch => HP!BeginBatch
  BY DEF H!BeginBatch, HP!BeginBatch, H!ToCheck, HP!ToCheck
<1>3. H!EndBatch => HP!EndBatch
  BY DEF H!EndBatch, HP!EndBatch
<1>4. H!Exit => HP!Exit
  BY DEF H!Exit, HP!Exit
<1>5. ASSUME NEW t \in Tenants PROVE H!Acquire(t) => HP!Acquire(t)
  BY DEF H!Acquire, HP!Acquire, H!Checking, HP!Checking,
         H!Cardinality, HP!Cardinality
<1>6. ASSUME NEW t \in Tenants PROVE H!ProbeHealthy(t) => HP!ProbeHealthy(t)
  BY DEF H!ProbeHealthy, HP!ProbeHealthy, H!MayPass, HP!MayPass,
         H!Release, HP!Release
<1>7. ASSUME NEW t \in Tenants PROVE H!ProbeFailed(t) => HP!ProbeFailed(t)
  BY DEF H!ProbeFailed, HP!ProbeFailed, H!MayMiss, HP!MayMiss, H!MayPass,
         HP!MayPass, H!Counted, HP!Counted, H!Threshold, HP!Threshold,
         H!Release, HP!Release
<1>8. ASSUME NEW t \in Tenants, NEW from, NEW status
      PROVE  H!Mark(t, from, status) => HP!Mark(t, from, status)
  BY DEF H!Mark, HP!Mark, H!WriteOutcomes, HP!WriteOutcomes, H!Release,
         HP!Release, H!UpdateTenant, HP!UpdateTenant, H!UpdateRejected,
         HP!UpdateRejected, H!KeyTaken, HP!KeyTaken, H!Stored, HP!Stored
<1>9. ASSUME NEW t \in Tenants
      PROVE  /\ H!MarkTenantUnhealthy(t) => HP!MarkTenantUnhealthy(t)
             /\ H!MarkTenantHealthy(t) => HP!MarkTenantHealthy(t)
  BY <1>8 DEF H!MarkTenantUnhealthy, HP!MarkTenantUnhealthy,
              H!MarkTenantHealthy, HP!MarkTenantHealthy
<1> QED
  BY <1>1, <1>2, <1>3, <1>4, <1>5, <1>6, <1>7, <1>9
     DEF H!LoopStep, HP!LoopStep, H!CheckStep, HP!CheckStep

----------------------------------------------------------------------------
(* What every statement keeps of the table: rows stay, a key stays with    *)
(* the tenant it was drawn for, and no row gets the key of another.        *)
RowsOwn == \A t \in Tenants : OwnKey(t, tenants[t].key)

TableKeeps ==
    /\ StorageTypeOK'
    /\ \A u \in Tenants : Stored(u) => Stored(u)'
    /\ \A u \in Tenants, k \in Keys : keyOwner[k] = u => keyOwner'[k] = u
    /\ \A u \in Tenants : \/ tenants'[u].key = NoKey
                           \/ keyOwner'[tenants'[u].key] = u

LEMMA NothingKeeps ==
  ASSUME StorageTypeOK, RowsOwn, UNCHANGED storageVars
  PROVE  TableKeeps
BY DEF TableKeeps, RowsOwn, OwnKey, storageVars, StorageTypeOK, Stored

LEMMA UpdateKeeps ==
  ASSUME StorageTypeOK, RowsOwn, NEW t \in Tenants, NEW row \in Row, NEW out,
         row.status # "none", OwnKey(t, row.key), UpdateTenant(t, row, out)
  PROVE  /\ TableKeeps
         /\ \A u \in Tenants : \/ tenants'[u] = tenants[u]
                               \/ u = t /\ tenants'[u] = row
<1>1. /\ keyOwner' = keyOwner
      /\ tenants' \in [Tenants -> Row]
      /\ \A u \in Tenants : \/ tenants'[u] = tenants[u]
                            \/ u = t /\ tenants'[u] = row
  BY DEF UpdateTenant, StorageTypeOK
<1> QED
  BY <1>1 DEF TableKeeps, StorageTypeOK, Stored, RowsOwn, OwnKey

LEMMA DeleteKeeps ==
  ASSUME StorageTypeOK, RowsOwn, NEW t \in Tenants, NEW out,
         DeleteTenant(t, out)
  PROVE  /\ TableKeeps
         /\ \A u \in Tenants : u # t => tenants'[u] = tenants[u]
<1>1. PICK row \in Row : row = tenants[t]
  BY DEF StorageTypeOK
<1>2. PICK gone \in Row : /\ gone = [row EXCEPT !.status = "deleted"]
                          /\ gone.status = "deleted" /\ gone.key = row.key
  <2>1. /\ [row EXCEPT !.status = "deleted"] \in Row
        /\ [row EXCEPT !.status = "deleted"].status = "deleted"
        /\ [row EXCEPT !.status = "deleted"].key = row.key
    BY DEF Row, Statuses
  <2> QED
    BY <2>1
<1>3. /\ keyOwner' = keyOwner
      /\ tenants' \in [Tenants -> Row]
      /\ \A u \in Tenants : \/ tenants'[u] = tenants[u]
                            \/ u = t /\ tenants'[u] = gone
  BY <1>1, <1>2 DEF DeleteTenant, StorageTypeOK
<1> QED
  BY <1>1, <1>2, <1>3 DEF TableKeeps, StorageTypeOK, Stored, RowsOwn, OwnKey

LEMMA RekeyKeeps ==
  ASSUME StorageTypeOK, RowsOwn, NEW t \in Tenants, NEW k \in Keys, NEW out,
         WriteNewKey(t, k, out)
  PROVE  /\ TableKeeps
         /\ \A u \in Tenants : tenants'[u].status = tenants[u].status
<1> USE StorageAssumption
<1>1. CASE UNCHANGED storageVars
  BY <1>1, NothingKeeps DEF storageVars
<1>2. CASE /\ tenants'  = [tenants EXCEPT ![t].key = k]
           /\ keyOwner' = [keyOwner EXCEPT ![k] = t]
  <2>1. PICK row \in Row : row = tenants[t]
    BY DEF StorageTypeOK
  <2>2. PICK new \in Row : /\ new = [row EXCEPT !.key = k]
                           /\ new.key = k /\ new.status = row.status
    <3>1. /\ [row EXCEPT !.key = k] \in Row
          /\ [row EXCEPT !.key = k].key = k
          /\ [row EXCEPT !.key = k].status = row.status
      BY DEF Row
    <3> QED
      BY <3>1
  <2>3. /\ tenants' \in [Tenants -> Row]
        /\ \A u \in Tenants : tenants'[u] = IF u = t THEN new ELSE tenants[u]
    BY <1>2, <2>1, <2>2 DEF StorageTypeOK
  <2>4. /\ keyOwner' \in [Keys -> Tenants \cup {NoTenant}]
        /\ \A l \in Keys : keyOwner'[l] = IF l = k THEN t ELSE keyOwner[l]
        /\ keyOwner[k] = NoTenant
    BY <1>2 DEF StorageTypeOK, WriteNewKey, FreshKey
  <2>5. \A u \in Tenants : tenants[u].key \in Keys \cup {NoKey}
    BY DEF StorageTypeOK, Row
  <2>6. StorageTypeOK'
    BY <2>3, <2>4 DEF StorageTypeOK
  <2>7. \A u \in Tenants : tenants'[u].status = tenants[u].status
    BY <2>1, <2>2, <2>3
  <2>8. \A u \in Tenants, l \in Keys : keyOwner[l] = u => keyOwner'[l] = u
    BY <2>4
  <2>9. \A u \in Tenants : \/ tenants'[u].key = NoKey
                           \/ keyOwner'[tenants'[u].key] = u
    <3> SUFFICES ASSUME NEW u \in Tenants
                 PROVE  \/ tenants'[u].key = NoKey
                        \/ keyOwner'[tenants'[u].key] = u
      OBVIOUS
    <3>1. CASE u = t
      BY <2>2, <2>3, <2>4, <3>1
    <3>2. CASE u # t
      <4>1. tenants'[u] = tenants[u]
        BY <2>3, <3>2
      <4>2. tenants[u].key = NoKey \/ keyOwner[tenants[u].key] = u
        BY DEF RowsOwn, OwnKey
      <4> QED
        BY <2>5, <2>8, <4>1, <4>2
    <3> QED
      BY <3>1, <3>2
  <2> QED
    BY <2>6, <2>7, <2>8, <2>9 DEF TableKeeps, Stored
<1> QED
  BY <1>1, <1>2 DEF WriteNewKey

(* What the parts need to know of each other's step. *)
LEMMA Known ==
  ASSUME SInv
  PROVE  /\ StorageTypeOK /\ DeployerTypeOK /\ RowsOwn
         /\ \A u \in Tenants : OwnKey(u, vm[u].key)
         /\ \A h \in Handlers : op[h] \in A!Operation /\ op[h].row \in Row
BY SameSets
   DEF SInv, AdminInv, PP!IInv, PP!TypeOK, PP!StorageTypeOK, StorageTypeOK,
       PP!DeployerTypeOK, DeployerTypeOK, PP!KeyOwnership, PP!OwnKey, OwnKey,
       RowsOwn, A!Operation

----------------------------------------------------------------------------
(* A step of an admin handler, seen by the others: it reads a row, moves   *)
(* on with its copy or answers; it may take an instance away, and what it  *)
(* marks deleted is what its copy or its own cleanup allows.               *)
Reads(h) ==
    /\ op'[h].step \in {"save", "mark", "rekey"}
    /\ op'[h].id \in Tenants /\ Stored(op'[h].id)
    /\ op'[h].row.key \in {tenants[op'[h].id].key, NoKey}
    /\ op'[h].step # "rekey" => op'[h].row.status # "none"
    /\ op'[h].step = "mark" => op'[h].row.status = "deleting"
    /\ op'[h].row.status = "deleted" =>
         "deleted" \in PatchStatuses \/ tenants[op'[h].id].status = "deleted"
    /\ tenants' = tenants /\ keyOwner' = keyOwner /\ vm' = vm

Moves(h) ==
    /\ op[h].step # "idle"
    /\ op'[h].id = op[h].id /\ op'[h].row = op[h].row
    /\ op'[h].step \in {op[h].step, "destroy", "revert", "remove"}
    /\ op'[h].step = "remove" =>
         \/ op[h].step = "remove"
         \/ Running(op[h].id) /\ vm'[op[h].id] = NoVM

Deletes(h, t) ==
    /\ op[h].step # "idle" /\ op[h].id = t
    /\ op[h].step = "remove" \/ op[h].row.status = "deleted"

AdminTurn(h) ==
    /\ op' \in [Handlers -> A!Operation]
    /\ \A g \in Handlers \ {h} : /\ op'[g].step = op[g].step
                                 /\ op'[g].id = op[g].id
                                 /\ op'[g].row = op[g].row
    /\ op'[h].step = "idle" \/ Reads(h) \/ Moves(h)
    /\ TableKeeps
    /\ \A t \in Tenants : tenants'[t].status = "deleted"
                            => tenants[t].status = "deleted" \/ Deletes(h, t)
    /\ DeployerTypeOK'
    /\ \A t \in Tenants : vm'[t] = vm[t] \/ vm'[t] = NoVM

LEMMA SameCloud ==
  ASSUME SInv, vm' = vm
  PROVE  DeployerTypeOK'
BY Known DEF DeployerTypeOK

LEMMA ReadIsTurn ==
  ASSUME SInv, NEW h \in Handlers, NEW t \in Tenants,
         NEW step \in {"save", "mark", "rekey"}, NEW row \in Row,
         A!Fetch(h, t, step, row),
         row.key \in {tenants[t].key, NoKey},
         step # "rekey" => row.status # "none",
         step = "mark" => row.status = "deleting",
         row.status = "deleted" =>
             "deleted" \in PatchStatuses \/ tenants[t].status = "deleted"
  PROVE  AdminTurn(h) /\ Reads(h)
<1>0. op \in [Handlers -> A!Operation]
  BY DEF SInv, AdminInv
<1>1. /\ tenants' = tenants /\ keyOwner' = keyOwner /\ vm' = vm
      /\ Stored(t)
  BY DEF A!Fetch, A!storageVars, A!Stored, Stored
<1>2. /\ op' = [op EXCEPT ![h] = [step |-> step, id |-> t, row |-> row,
                                  expired |-> FALSE]]
      /\ [step |-> step, id |-> t, row |-> row, expired |-> FALSE]
           \in A!Operation
  BY SameSets DEF A!Fetch, A!Operation, A!HandlerSteps
<1>3. /\ op'[h].step = step /\ op'[h].id = t /\ op'[h].row = row
      /\ \A g \in Handlers \ {h} : op'[g] = op[g]
  BY <1>0, <1>2
<1>4. op' \in [Handlers -> A!Operation]
  BY <1>0, <1>2
<1>5. Reads(h)
  BY <1>1, <1>3 DEF Reads
<1>6. TableKeeps
  BY <1>1, Known, NothingKeeps DEF storageVars
<1> QED
  BY <1>1, <1>3, <1>4, <1>5, <1>6, SameCloud DEF AdminTurn

(* The handler answers, goes to another step, or loses its context. *)
LEMMA MoveEffect ==
  ASSUME op \in [Handlers -> A!Operation], NEW h \in Handlers,
         NEW step \in A!HandlerSteps,
         \/ op' = [op EXCEPT ![h] = A!Idle]
         \/ op' = [op EXCEPT ![h].step = step]
         \/ op' = [op EXCEPT ![h].expired = TRUE] /\ step = op[h].step
  PROVE  /\ op' \in [Handlers -> A!Operation]
         /\ \A g \in Handlers \ {h} : op'[g] = op[g]
         /\ \/ op'[h] = A!Idle /\ op'[h].step = "idle"
            \/ /\ op'[h].step = step
               /\ op'[h].id = op[h].id /\ op'[h].row = op[h].row
<1>1. PICK p \in A!Operation : p = op[h]
  OBVIOUS
<1>2. PICK q : /\ op' = [op EXCEPT ![h] = q]
               /\ \/ q = A!Idle
                  \/ q = [p EXCEPT !.step = step]
                  \/ q = [p EXCEPT !.expired = TRUE] /\ step = p.step
  BY <1>1
<1>3. /\ q \in A!Operation
      /\ \/ q = A!Idle /\ q.step = "idle"
         \/ q.step = step /\ q.id = p.id /\ q.row = p.row
  <2>1. CASE q = A!Idle
    <3>1. NoRow \in Row
      BY DEF NoRow, Row
    <3> QED
      BY <2>1, <3>1, SameSets DEF A!Operation, A!HandlerSteps
  <2>2. CASE q = [p EXCEPT !.step = step]
    BY <2>2 DEF A!Operation
  <2>3. CASE q = [p EXCEPT !.expired = TRUE] /\ step = p.step
    BY <2>3 DEF A!Operation
  <2> QED
    BY <1>2, <2>1, <2>2, <2>3
<1> QED
  BY <1>1, <1>2, <1>3

LEMMA ReadTurn ==
  ASSUME SInv, NEW h \in Handlers,
         A!UpdateFetch(h) \/ A!DeleteFetch(h) \/ A!RegenerateFetch(h)
  PROVE  AdminTurn(h) /\ Reads(h)
<1>1. \A t \in Tenants : tenants[t] \in Row
  BY Known DEF StorageTypeOK
<1>2. CASE A!UpdateFetch(h)
  <2>1. PICK t \in Tenants, s \in PatchStatuses \cup {""},
             a \in PatchHosts \cup {NoHost} :
          A!Fetch(h, t, "save", A!Patched(tenants[t], s, a))
    BY <1>2 DEF A!UpdateFetch
  <2>2. PICK r \in Row : r = tenants[t] /\ r.status # "none"
    BY <1>1, <2>1 DEF A!Fetch, A!Stored
  <2>3. s # "" => s \in Statuses /\ s # "none"
    BY SystemAssumption DEF Statuses
  <2>4. /\ A!Patched(r, s, a) \in Row
        /\ A!Patched(r, s, a).key = r.key
        /\ A!Patched(r, s, a).status = IF s = "" THEN r.status ELSE s
    BY <2>3, SystemAssumption DEF A!Patched, Row
  <2>5. PICK row \in Row :
          /\ A!Fetch(h, t, "save", row)
          /\ row.key = tenants[t].key
          /\ row.status # "none"
          /\ row.status = "deleted" =>
               "deleted" \in PatchStatuses \/ tenants[t].status = "deleted"
    BY <2>1, <2>2, <2>3, <2>4
  <2> QED
    BY <2>5, ReadIsTurn
<1>3. CASE A!DeleteFetch(h)
  <2>1. PICK t \in Tenants :
          A!Fetch(h, t, "mark", [tenants[t] EXCEPT !.status = "deleting"])
    BY <1>3 DEF A!DeleteFetch
  <2>2. PICK r \in Row : r = tenants[t]
    BY <1>1
  <2>3. /\ [r EXCEPT !.status = "deleting"] \in Row
        /\ [r EXCEPT !.status = "deleting"].key = r.key
        /\ [r EXCEPT !.status = "deleting"].status = "deleting"
    BY DEF Row, Statuses
  <2>4. PICK row \in Row : /\ A!Fetch(h, t, "mark", row)
                           /\ row.key = tenants[t].key
                           /\ row.status = "deleting"
    BY <2>1, <2>2, <2>3
  <2> QED
    BY <2>4, ReadIsTurn
<1>4. CASE A!RegenerateFetch(h)
  <2>1. PICK t \in Tenants : A!Fetch(h, t, "rekey", NoRow)
    BY <1>4, SameSets DEF A!RegenerateFetch
  <2>2. PICK row \in Row : /\ A!Fetch(h, t, "rekey", row)
                           /\ row.key = NoKey /\ row.status = "none"
    <3>1. NoRow \in Row /\ NoRow.key = NoKey /\ NoRow.status = "none"
      BY DEF NoRow, Row
    <3> QED
      BY <2>1, <3>1
  <2> QED
    BY <2>2, ReadIsTurn
<1> QED
  BY <1>2, <1>3, <1>4

(* A PUT, a mark or a revert writes its copy, with another status perhaps. *)
LEMMA WriteIsTurn ==
  ASSUME SInv, NEW h \in Handlers, NEW row \in Row, NEW out,
         op[h].step # "idle",
         row.key = op[h].row.key, row.status # "none",
         row.status = "deleted" => op[h].row.status = "deleted",
         A!UpdateTenant(op[h].id, row, out),
         vm' = vm,
         \/ op' = [op EXCEPT ![h] = A!Idle]
         \/ op' = [op EXCEPT ![h].step = "destroy"]
  PROVE  AdminTurn(h)
<1>0. op \in [Handlers -> A!Operation]
  BY DEF SInv, AdminInv
<1>1. PICK t \in Tenants : t = op[h].id /\ OwnKey(t, row.key)
  BY DEF SInv, AdminInv
<1>2. UpdateTenant(t, row, out)
  BY <1>1, SameStatements
<1>3. /\ TableKeeps
      /\ \A u \in Tenants : \/ tenants'[u] = tenants[u]
                            \/ u = t /\ tenants'[u] = row
  BY <1>1, <1>2, Known, UpdateKeeps
<1>4. PICK step \in A!HandlerSteps : step = "destroy"
  BY DEF A!HandlerSteps
<1>5. /\ op' \in [Handlers -> A!Operation]
      /\ \A g \in Handlers \ {h} : op'[g] = op[g]
      /\ \/ op'[h].step = "idle"
         \/ /\ op'[h].step = step
            /\ op'[h].id = op[h].id /\ op'[h].row = op[h].row
  BY <1>0, <1>4, MoveEffect
<1>6. op'[h].step = "idle" \/ Moves(h)
  BY <1>4, <1>5 DEF Moves
<1>7. \A u \in Tenants : tenants'[u].status = "deleted"
                           => tenants[u].status = "deleted" \/ Deletes(h, u)
  BY <1>1, <1>3 DEF Deletes
<1> QED
  BY <1>0, <1>3, <1>5, <1>6, <1>7, SameCloud DEF AdminTurn

LEMMA WriteTurn ==
  ASSUME SInv, NEW h \in Handlers,
         A!UpdateSave(h) \/ A!DeleteMark(h) \/ A!DeleteRevert(h)
  PROVE  AdminTurn(h)
<1>0. PICK r \in Row : r = op[h].row
  BY Known
<1>1. op[h].step \in {"save", "mark"} => r.status # "none"
  BY <1>0 DEF SInv, AdminInv
<1>2. CASE A!UpdateSave(h)
  <2>1. PICK out : A!UpdateTenant(op[h].id, r, out)
    BY <1>0, <1>2 DEF A!UpdateSave
  <2>2. /\ op[h].step = "save" /\ vm' = vm
        /\ op' = [op EXCEPT ![h] = A!Idle]
    BY <1>2 DEF A!UpdateSave, A!Answer
  <2> QED
    BY <1>0, <1>1, <2>1, <2>2, WriteIsTurn
<1>3. CASE A!DeleteMark(h)
  <2>1. PICK out : A!UpdateTenant(op[h].id, r, out)
    BY <1>0, <1>3 DEF A!DeleteMark
  <2>2. /\ op[h].step = "mark" /\ vm' = vm
        /\ \/ op' = [op EXCEPT ![h] = A!Idle]
           \/ op' = [op EXCEPT ![h].step = "destroy"]
    BY <1>3 DEF A!DeleteMark, A!Answer, A!Goto
  <2> QED
    BY <1>0, <1>1, <2>1, <2>2, WriteIsTurn
<1>4. CASE A!DeleteRevert(h)
  <2>1. PICK row \in Row : /\ row = [r EXCEPT !.status = "active"]
                           /\ row.status = "active" /\ row.key = r.key
    <3>1. /\ [r EXCEPT !.status = "active"] \in Row
          /\ [r EXCEPT !.status = "active"].key = r.key
          /\ [r EXCEPT !.status = "active"].status = "active"
      BY DEF Row, Statuses
    <3> QED
      BY <3>1
  <2>2. PICK out : A!UpdateTenant(op[h].id, row, out)
    BY <1>0, <1>4, <2>1 DEF A!DeleteRevert, A!RevertedRow
  <2>3. /\ op[h].step = "revert" /\ vm' = vm
        /\ op' = [op EXCEPT ![h] = A!Idle]
    BY <1>4 DEF A!DeleteRevert, A!Answer
  <2> QED
    BY <1>0, <2>1, <2>2, <2>3, WriteIsTurn
<1> QED
  BY <1>2, <1>3, <1>4

(* The instance goes. *)
LEMMA InfrastructureTurn ==
  ASSUME SInv, NEW h \in Handlers, A!DeleteInfrastructure(h)
  PROVE  AdminTurn(h)
<1>0. op \in [Handlers -> A!Operation]
  BY DEF SInv, AdminInv
<1>1. op[h].step = "destroy" /\ UNCHANGED storageVars
  BY DEF A!DeleteInfrastructure, A!storageVars, storageVars
<1>2. PICK t \in Tenants : t = op[h].id
  BY <1>1 DEF SInv, AdminInv
<1>3. PICK out :
        /\ vm' = IF out = "err" THEN vm ELSE [vm EXCEPT ![t] = NoVM]
        /\ op' = [op EXCEPT ![h].step =
                    IF out # "ok" \/ ~Running(t) THEN "revert" ELSE "remove"]
  BY <1>2, SameSets
     DEF A!DeleteInfrastructure, A!DeleteServices, A!Goto,
         A!ServicesDeleteFails, A!Running, Running
<1>4. PICK step \in A!HandlerSteps :
        /\ op' = [op EXCEPT ![h].step = step]
        /\ step \in {"revert", "remove"}
        /\ step = "remove" => out = "ok" /\ Running(t)
  BY <1>3 DEF A!HandlerSteps
<1>5. /\ \A u \in Tenants : vm'[u] = vm[u] \/ vm'[u] = NoVM
      /\ out = "ok" => vm'[t] = NoVM
      /\ DeployerTypeOK'
  <2>1. NoVM \in Instance
    BY DEF NoVM, Instance
  <2> QED
    BY <1>3, <2>1, Known DEF DeployerTypeOK
<1>6. /\ op' \in [Handlers -> A!Operation]
      /\ \A g \in Handlers \ {h} : op'[g] = op[g]
      /\ \/ op'[h].step = "idle"
         \/ /\ op'[h].step = step
            /\ op'[h].id = op[h].id /\ op'[h].row = op[h].row
  BY <1>0, <1>4, MoveEffect
<1>7. op'[h].step = "idle" \/ Moves(h)
  BY <1>1, <1>2, <1>4, <1>5, <1>6 DEF Moves
<1>8. TableKeeps
  BY <1>1, Known, NothingKeeps
<1>9. tenants' = tenants
  BY <1>1 DEF storageVars
<1> QED
  BY <1>0, <1>1, <1>5, <1>6, <1>7, <1>8, <1>9 DEF AdminTurn

(* The last steps of a DELETE and of a new key; a context that ends. *)
LEMMA LastTurn ==
  ASSUME SInv, NEW h \in Handlers,
         A!DeleteRow(h) \/ A!RegenerateWrite(h) \/ A!Expire(h)
  PROVE  AdminTurn(h)
<1>0. op \in [Handlers -> A!Operation]
  BY DEF SInv, AdminInv
<1>1. op[h].step # "idle" /\ vm' = vm
  BY DEF A!DeleteRow, A!RegenerateWrite, A!Expire
<1>2. PICK t \in Tenants : t = op[h].id
  BY <1>1 DEF SInv, AdminInv
<1>3. PICK step \in A!HandlerSteps : step = op[h].step
  BY <1>0 DEF A!Operation
<1>4. \/ op' = [op EXCEPT ![h] = A!Idle]
      \/ op' = [op EXCEPT ![h].expired = TRUE]
  BY DEF A!DeleteRow, A!RegenerateWrite, A!Expire, A!Answer
<1>5. /\ op' \in [Handlers -> A!Operation]
      /\ \A g \in Handlers \ {h} : op'[g] = op[g]
      /\ \/ op'[h].step = "idle"
         \/ /\ op'[h].step = step
            /\ op'[h].id = op[h].id /\ op'[h].row = op[h].row
  BY <1>0, <1>3, <1>4, MoveEffect
<1>6. op'[h].step = "idle" \/ Moves(h)
  BY <1>1, <1>3, <1>5 DEF Moves
<1>7. /\ TableKeeps
      /\ \A u \in Tenants : tenants'[u].status = "deleted"
                              => tenants[u].status = "deleted" \/ Deletes(h, u)
  <2>1. CASE A!DeleteRow(h)
    <3>1. PICK out : DeleteTenant(t, out)
      BY <1>2, <2>1, SameStatements DEF A!DeleteRow
    <3>2. op[h].step = "remove"
      BY <2>1 DEF A!DeleteRow
    <3> QED
      BY <1>2, <3>1, <3>2, Known, DeleteKeeps DEF Deletes
  <2>2. CASE A!RegenerateWrite(h)
    <3>1. PICK k \in Keys : \E out : A!WriteNewKey(t, k, out)
      BY <1>2, <2>2 DEF A!RegenerateWrite
    <3>2. PICK out : WriteNewKey(t, k, out)
      BY <3>1, SameStatements
    <3> QED
      BY <3>2, Known, RekeyKeeps
  <2>3. CASE A!Expire(h)
    <3>1. UNCHANGED storageVars
      BY <2>3 DEF A!Expire, A!storageVars, storageVars
    <3> QED
      BY <3>1, Known, NothingKeeps DEF storageVars
  <2> QED
    BY <2>1, <2>2, <2>3
<1> QED
  BY <1>1, <1>5, <1>6, <1>7, SameCloud DEF AdminTurn

LEMMA AdminStepIsTurn ==
  ASSUME SInv, AdminStep
  PROVE  \E h \in Handlers : AdminTurn(h)
BY ReadTurn, WriteTurn, InfrastructureTurn, LastTurn DEF AdminStep, A!Next

----------------------------------------------------------------------------
(* A step of the health check, seen by the others: a row it writes has the *)
(* status "unhealthy" or "active", and its copies are of the table.        *)
HealthTurn ==
    /\ HP!IInv'
    /\ \A t \in Tenants : \/ copy'[t].key = NoKey
                          \/ copy'[t].key = copy[t].key
                          \/ copy'[t].key = tenants[t].key
    /\ TableKeeps
    /\ \A t \in Tenants : tenants'[t].status = "deleted"
                            => tenants[t].status = "deleted"
    /\ vm' = vm

LEMMA HealthMachine ==
  ASSUME SInv,
         H!Start \/ H!LoopStep \/ (\E t \in Tenants : H!CheckStep(t))
  PROVE  HP!IInv'
<1>1. [HP!Next]_(HP!vars)
  BY IsHealthCheck DEF HP!Next
<1> QED
  BY <1>1, HP!Inductive, StorageAssumption, DeployerAssumption,
     SystemAssumption DEF SInv, HealthInv

LEMMA HealthCopies ==
  ASSUME SInv
  PROVE  \A t \in Tenants : copy[t] \in Row /\ OwnKey(t, copy[t].key)
BY SameSets DEF SInv, HealthInv, HP!IInv, HP!TypeOK

LEMMA MarkTurn ==
  ASSUME SInv, NEW t \in Tenants,
         H!MarkTenantUnhealthy(t) \/ H!MarkTenantHealthy(t)
  PROVE  /\ TableKeeps /\ vm' = vm
         /\ \A u \in Tenants : \/ copy'[u] = copy[u]
                               \/ copy'[u].key = NoKey
         /\ \A u \in Tenants : tenants'[u].status = "deleted"
                                 => tenants[u].status = "deleted"
<1>1. PICK s \in {"unhealthy", "active"}, from \in {"markUnhealthy", "markHealthy"} :
         H!Mark(t, from, s)
  BY DEF H!MarkTenantUnhealthy, H!MarkTenantHealthy
<1>2. PICK c \in Row : c = copy[t] /\ OwnKey(t, c.key)
  BY HealthCopies
<1>3. PICK row \in Row : /\ row = [c EXCEPT !.status = s]
                         /\ row.status = s /\ row.key = c.key
  <2>1. /\ [c EXCEPT !.status = s] \in Row
        /\ [c EXCEPT !.status = s].status = s
        /\ [c EXCEPT !.status = s].key = c.key
    BY DEF Row, Statuses
  <2> QED
    BY <2>1
<1>4. PICK out : H!UpdateTenant(t, row, out)
  BY <1>1, <1>2, <1>3 DEF H!Mark
<1>5. UpdateTenant(t, row, out)
  BY <1>4, SameStatements
<1>6. /\ TableKeeps
      /\ \A u \in Tenants : \/ tenants'[u] = tenants[u]
                            \/ u = t /\ tenants'[u] = row
  BY <1>2, <1>3, <1>5, Known, UpdateKeeps
<1>7. \A u \in Tenants : copy'[u] = copy[u] \/ copy'[u] = NoRow
  BY <1>1, SameSets DEF H!Mark, H!Release, SInv, HealthInv, HP!IInv, HP!TypeOK
<1>8. vm' = vm
  BY <1>1 DEF H!Mark
<1>9. \A u \in Tenants : tenants'[u].status = "deleted"
                           => tenants[u].status = "deleted"
  <2>1. row.status # "deleted"
    BY <1>3
  <2> QED
    BY <1>6, <2>1
<1>10. NoRow.key = NoKey
  BY DEF NoRow
<1> QED
  BY <1>6, <1>7, <1>8, <1>9, <1>10

LEMMA QuietHealthTurn ==
  ASSUME SInv,
         \/ H!Start \/ H!LoopStep
         \/ \E t \in Tenants : H!Acquire(t) \/ H!ProbeHealthy(t) \/ H!ProbeFailed(t)
  PROVE  /\ UNCHANGED storageVars /\ vm' = vm
         /\ \A u \in Tenants : \/ copy'[u] = copy[u] \/ copy'[u] = tenants[u]
                               \/ copy'[u].key = NoKey
<1>1. /\ UNCHANGED storageVars /\ vm' = vm
      /\ \/ copy' = copy
         \/ copy' = [u \in Tenants |-> IF H!ToCheck(u) THEN tenants[u] ELSE NoRow]
         \/ \E t \in Tenants : copy' = [copy EXCEPT ![t] = NoRow]
  BY SameSets
     DEF H!Start, H!LoopStep, H!BeginBatch, H!EndBatch, H!Exit, H!Acquire,
         H!ProbeHealthy, H!ProbeFailed, H!Release, H!storageVars, storageVars
<1>2. copy \in [Tenants -> Row]
  BY SameSets DEF SInv, HealthInv, HP!IInv, HP!TypeOK
<1> QED
  BY <1>1, <1>2 DEF NoRow

LEMMA HealthStepIsTurn ==
  ASSUME SInv, LoopStep \/ (\E t \in Tenants : CheckStep(t))
  PROVE  HealthTurn
<1>1. H!Start \/ H!LoopStep \/ (\E t \in Tenants : H!CheckStep(t))
  BY DEF LoopStep, CheckStep
<1>2. HP!IInv'
  BY <1>1, HealthMachine
<1>3. CASE \E t \in Tenants : H!MarkTenantUnhealthy(t) \/ H!MarkTenantHealthy(t)
  BY <1>2, <1>3, MarkTurn DEF HealthTurn
<1>4. CASE \/ H!Start \/ H!LoopStep
           \/ \E t \in Tenants : H!Acquire(t) \/ H!ProbeHealthy(t) \/ H!ProbeFailed(t)
  <2>1. /\ UNCHANGED storageVars /\ vm' = vm
        /\ \A u \in Tenants : \/ copy'[u] = copy[u] \/ copy'[u] = tenants[u]
                              \/ copy'[u].key = NoKey
    BY <1>4, QuietHealthTurn
  <2>2. TableKeeps
    BY <2>1, Known, NothingKeeps
  <2> QED
    BY <1>2, <2>1, <2>2 DEF HealthTurn, storageVars
<1> QED
  BY <1>1, <1>3, <1>4 DEF H!CheckStep

----------------------------------------------------------------------------
(* A step of the worker or of a request, seen by the others. *)
LEMMA ProvisioningMachine ==
  ASSUME SInv, WorkerStep \/ (\E r \in Requests : CreateStep(r))
  PROVE  PP!IInv' /\ PP!Turn /\ TableKeeps /\ UNCHANGED <<adminVars, healthVars>>
<1> USE StorageAssumption, DeployerAssumption, SystemAssumption
<1>1. [PP!Next]_(PP!vars)
  BY IsProvisioning DEF WorkerStep, CreateStep, PP!Next, PP!Actors
<1>2. PP!IInv
  BY DEF SInv
<1>3. PP!TypeOK' /\ PP!PointersAreStored' /\ PP!ExclusiveOwnership'
      /\ PP!KeyOwnership' /\ PP!SeenIsOwn'
  BY <1>1, <1>2, PP!TypeStep, PP!PointerStep, PP!ExclusiveStep, PP!KeyStep
<1>4. PP!IInv'
  BY <1>3 DEF PP!IInv
<1>5. PP!Turn
  BY <1>1, <1>2, PP!TurnStep
<1>6. TableKeeps
  <2>1. /\ \A u \in Tenants : PP!Stored(u) => PP!Stored(u)'
        /\ \A u \in Tenants, k \in Keys \cup {NoKey} :
              PP!OwnKey(u, k) => PP!OwnKey(u, k)'
    BY <1>1, <1>2, PP!StorageStep
  <2>2. StorageTypeOK'
    BY <1>3, SameSets DEF PP!TypeOK, PP!StorageTypeOK, StorageTypeOK
  <2>3. \A u \in Tenants : \/ tenants'[u].key = NoKey
                           \/ keyOwner'[tenants'[u].key] = u
    BY <1>3 DEF PP!KeyOwnership, PP!OwnKey
  <2>4. \A u \in Tenants : Stored(u) => Stored(u)'
    BY <2>1 DEF PP!Stored, Stored
  <2>5. \A u \in Tenants, k \in Keys : keyOwner[k] = u => keyOwner'[k] = u
    BY <2>1 DEF PP!OwnKey
  <2> QED
    BY <2>2, <2>3, <2>4, <2>5 DEF TableKeeps
<1>7. UNCHANGED <<adminVars, healthVars>>
  BY DEF WorkerStep, CreateStep
<1> QED
  BY <1>4, <1>5, <1>6, <1>7

LEMMA ProvisioningKeepsKeys ==
  ASSUME SInv, PP!Turn
  PROVE  InstancesHaveKeys'
<1> USE StorageAssumption
<1>1. /\ \A t \in Tenants : vm[t].host # NoHost => vm[t].key \in Keys
      /\ \A p \in PP!Waiting : p.row.key \in Keys
  BY DEF SInv, InstancesHaveKeys, Running
<1>2. PP!WaitingTurn /\ PP!CloudTurn
  BY DEF PP!Turn
<1>3. \A p : p \in PP!Waiting' => p.row.key \in Keys
  BY <1>1, <1>2 DEF PP!WaitingTurn
<1>4. \A t \in Tenants : vm'[t].host # NoHost => vm'[t].key \in Keys
  <2> SUFFICES ASSUME NEW t \in Tenants, vm'[t].host # NoHost
               PROVE  vm'[t].key \in Keys
    OBVIOUS
  <2>1. \/ vm'[t] = vm[t] \/ vm'[t] = NoVM
        \/ \E p \in PP!Waiting : p.id = t /\ vm'[t].key = p.row.key
    BY <1>2, SameSets DEF PP!CloudTurn
  <2>2. NoVM.host = NoHost
    BY DEF NoVM
  <2> QED
    BY <1>1, <2>1, <2>2
<1> QED
  BY <1>3, <1>4 DEF InstancesHaveKeys, Running

(* The others take instances away and write rows with their tenant's own   *)
(* key: the worker, the requests and the queue do not notice.              *)
LEMMA OthersKeepProvisioning ==
  ASSUME SInv, UNCHANGED provisioningVars, TableKeeps,
         \A t \in Tenants : vm'[t] = vm[t] \/ vm'[t] = NoVM,
         DeployerTypeOK'
  PROVE  PP!IInv' /\ InstancesHaveKeys'
<1> USE StorageAssumption
<1>1. PP!IInv
  BY DEF SInv
<1>2. /\ queue' = queue /\ pc' = pc /\ ptr' = ptr /\ seen' = seen
      /\ deployed' = deployed /\ orphan' = orphan /\ cancelled' = cancelled
  BY DEF provisioningVars
<1>3. PP!TypeOK'
  BY <1>1, <1>2, SameSets
     DEF PP!IInv, PP!TypeOK, TableKeeps, StorageTypeOK, PP!StorageTypeOK,
         DeployerTypeOK, PP!DeployerTypeOK
<1>4. PP!PointersAreStored'
  <2>1. \A p : PP!GoodPointer(p) => PP!GoodPointer(p)'
    BY DEF PP!GoodPointer, PP!Stored, TableKeeps, Stored
  <2> QED
    BY <1>1, <1>2, <2>1 DEF PP!IInv, PP!PointersAreStored, PP!Actors
<1>5. PP!ExclusiveOwnership'
  BY <1>1, <1>2
     DEF PP!IInv, PP!ExclusiveOwnership, PP!QueuedIds, PP!Actors
<1>6. \A u \in Tenants, k \in Keys \cup {NoKey} : OwnKey(u, k) => OwnKey(u, k)'
  BY DEF TableKeeps, OwnKey
<1>7. \A p \in PP!Pointer :
         p.id # NoTenant /\ OwnKey(p.id, p.row.key)
         => p.row.key = NoKey \/ keyOwner'[p.row.key] = p.id
  BY <1>6, SameSets DEF PP!Pointer, Row, OwnKey
<1>8. PP!KeyOwnership'
  <2>1. \A t \in Tenants : OwnKey(t, tenants[t].key)'
    BY DEF TableKeeps, OwnKey
  <2>2. \A t \in Tenants : OwnKey(t, vm[t].key)'
    <3>1. \A t \in Tenants : vm[t].key \in Keys \cup {NoKey} /\ OwnKey(t, vm[t].key)
      BY Known DEF DeployerTypeOK, Instance
    <3>2. NoVM.key = NoKey
      BY DEF NoVM
    <3> QED
      BY <1>6, <3>1, <3>2 DEF OwnKey
  <2>3. \A a \in PP!Actors : ptr[a].id # NoTenant =>
            ptr[a].row.key = NoKey \/ keyOwner'[ptr[a].row.key] = ptr[a].id
    BY <1>1, <1>7 DEF PP!IInv, PP!TypeOK, PP!KeyOwnership, PP!OwnKey, OwnKey
  <2>4. \A i \in 1 .. Len(queue) :
            \/ queue[i].row.key = NoKey
            \/ keyOwner'[queue[i].row.key] = queue[i].id
    <3>1. \A i \in 1 .. Len(queue) :
             /\ queue[i] \in PP!Pointer /\ queue[i].id # NoTenant
             /\ OwnKey(queue[i].id, queue[i].row.key)
      BY <1>1 DEF PP!IInv, PP!TypeOK, PP!PointersAreStored, PP!GoodPointer,
                  PP!KeyOwnership, PP!OwnKey, OwnKey
    <3> QED
      BY <1>7, <3>1
  <2> QED
    BY <1>2, <2>1, <2>2, <2>3, <2>4
       DEF PP!KeyOwnership, PP!OwnKey, OwnKey, PP!Actors
<1>9. PP!SeenIsOwn'
  BY <1>1, <1>2, <1>6, SameSets
     DEF PP!IInv, PP!SeenIsOwn, PP!OwnKey, OwnKey, PP!TypeOK,
         PP!PointersAreStored, PP!GoodPointer, PP!Holding, PP!Actors, Row
<1>10. InstancesHaveKeys'
  <2>1. PP!Waiting' = PP!Waiting
    BY <1>2 DEF PP!Waiting, PP!Actors, PP!Fresh
  <2>2. NoVM.host = NoHost
    BY DEF NoVM
  <2> QED
    BY <2>1, <2>2 DEF SInv, InstancesHaveKeys, Running
<1> QED
  BY <1>3, <1>4, <1>5, <1>8, <1>9, <1>10 DEF PP!IInv

LEMMA OthersKeepAdmin ==
  ASSUME SInv, UNCHANGED adminVars, TableKeeps
  PROVE  AdminInv'
<1>1. op' = op
  BY DEF adminVars
<1>2. \A u \in Tenants, k \in Keys \cup {NoKey} : OwnKey(u, k) => OwnKey(u, k)'
  BY DEF TableKeeps, OwnKey
<1>3. \A h \in Handlers : op[h].row.key \in Keys \cup {NoKey}
  BY Known DEF Row
<1> QED
  BY <1>1, <1>2, <1>3 DEF SInv, AdminInv, OwnKey

LEMMA OthersKeepHealth ==
  ASSUME SInv, UNCHANGED healthVars, TableKeeps, DeployerTypeOK'
  PROVE  HealthInv'
<1>1. /\ loop' = loop /\ running' = running /\ stopping' = stopping
      /\ ctxDone' = ctxDone /\ batchDone' = batchDone /\ late' = late
      /\ copy' = copy /\ check' = check /\ failures' = failures /\ down' = down
  BY DEF healthVars
<1>2. HP!IInv
  BY DEF SInv, HealthInv
<1>3. HP!TypeOK'
  BY <1>1, <1>2, SameSets
     DEF HP!IInv, HP!TypeOK, TableKeeps, StorageTypeOK, HP!StorageTypeOK,
         DeployerTypeOK, HP!DeployerTypeOK
<1>4. HP!MarkIsDue' /\ HP!BatchEndsWithService'
  BY <1>1, <1>2 DEF HP!IInv, HP!MarkIsDue, HP!BatchEndsWithService
<1>5. \A t \in Tenants : OwnKey(t, copy[t].key)'
  BY <1>1, HealthCopies DEF TableKeeps, OwnKey, Row
<1> QED
  BY <1>3, <1>4, <1>5 DEF HealthInv, HP!IInv

LEMMA AdminTurnKeeps ==
  ASSUME SInv, NEW h \in Handlers, AdminTurn(h)
  PROVE  AdminInv' /\ DeployerTypeOK'
<1>1. /\ op' \in [Handlers -> A!Operation]
      /\ \A g \in Handlers \ {h} : /\ op'[g].step = op[g].step
                                   /\ op'[g].id = op[g].id
                                   /\ op'[g].row = op[g].row
      /\ op'[h].step = "idle" \/ Reads(h) \/ Moves(h)
      /\ TableKeeps
  BY DEF AdminTurn
<1>2. \A u \in Tenants, k \in Keys \cup {NoKey} : OwnKey(u, k) => OwnKey(u, k)'
  BY <1>1 DEF TableKeeps, OwnKey
<1>3. \A g \in Handlers :
         /\ op[g].row.key \in Keys \cup {NoKey}
         /\ op[g].step # "idle" => /\ op[g].id \in Tenants
                                   /\ OwnKey(op[g].id, op[g].row.key)
         /\ op[g].step \in {"save", "mark"} => op[g].row.status # "none"
  BY Known DEF Row, SInv, AdminInv
<1>4. ASSUME NEW g \in Handlers, op'[g].step # "idle"
      PROVE  /\ op'[g].id \in Tenants
             /\ \/ op'[g].row.key = NoKey
                \/ keyOwner'[op'[g].row.key] = op'[g].id
             /\ op'[g].step \in {"save", "mark"} => op'[g].row.status # "none"
  <2>1. CASE g = h /\ Reads(h)
    <3>1. PICK t \in Tenants : t = op'[h].id
      BY <2>1 DEF Reads
    <3>2. tenants[t].key = NoKey \/ keyOwner'[tenants[t].key] = t
      BY <1>1, <2>1 DEF Reads, TableKeeps
    <3> QED
      BY <2>1, <3>1, <3>2 DEF Reads
  <2>2. CASE g = h /\ Moves(h)
    BY <1>2, <1>3, <2>2 DEF Moves, OwnKey
  <2>3. CASE g # h
    BY <1>1, <1>2, <1>3, <1>4, <2>3 DEF OwnKey
  <2> QED
    BY <1>1, <1>4, <2>1, <2>2, <2>3
<1>5. AdminInv'
  BY <1>1, <1>4 DEF AdminInv, OwnKey
<1> QED
  BY <1>5 DEF AdminTurn

LEMMA SStep == SInv /\ [Next]_vars => SInv'
<1> SUFFICES ASSUME SInv, [Next]_vars PROVE SInv'
  OBVIOUS
<1>0. alone' \subseteq Handlers
  BY DEF SInv, Next, WorkerStep, CreateStep, AdminStep, LoopStep, CheckStep,
         Watch, vars
<1>1. CASE WorkerStep \/ (\E r \in Requests : CreateStep(r))
  <2>1. PP!IInv' /\ PP!Turn /\ TableKeeps /\ UNCHANGED <<adminVars, healthVars>>
    BY <1>1, ProvisioningMachine
  <2>2. DeployerTypeOK'
    BY <2>1, SameSets
       DEF PP!IInv, PP!TypeOK, PP!DeployerTypeOK, DeployerTypeOK
  <2>3. InstancesHaveKeys'
    BY <2>1, ProvisioningKeepsKeys
  <2>4. AdminInv' /\ HealthInv'
    BY <2>1, <2>2, OthersKeepAdmin, OthersKeepHealth
  <2> QED
    BY <1>0, <2>1, <2>3, <2>4 DEF SInv
<1>2. CASE AdminStep
  <2>1. PICK h \in Handlers : AdminTurn(h)
    BY <1>2, AdminStepIsTurn
  <2>2. UNCHANGED provisioningVars /\ UNCHANGED healthVars
    BY <1>2 DEF AdminStep
  <2>3. AdminInv' /\ DeployerTypeOK'
    BY <2>1, AdminTurnKeeps
  <2>4. TableKeeps /\ \A t \in Tenants : vm'[t] = vm[t] \/ vm'[t] = NoVM
    BY <2>1 DEF AdminTurn
  <2>5. PP!IInv' /\ InstancesHaveKeys'
    BY <2>2, <2>3, <2>4, OthersKeepProvisioning
  <2>6. HealthInv'
    BY <2>2, <2>3, <2>4, OthersKeepHealth
  <2> QED
    BY <1>0, <2>3, <2>5, <2>6 DEF SInv
<1>3. CASE LoopStep \/ (\E t \in Tenants : CheckStep(t))
  <2>1. UNCHANGED provisioningVars /\ UNCHANGED adminVars
    BY <1>3 DEF LoopStep, CheckStep
  <2>2. HealthTurn
    BY <1>3, HealthStepIsTurn
  <2>3. /\ HP!IInv' /\ TableKeeps /\ vm' = vm
        /\ \A t \in Tenants : \/ copy'[t].key = NoKey
                              \/ copy'[t].key = copy[t].key
                              \/ copy'[t].key = tenants[t].key
    BY <2>2 DEF HealthTurn
  <2>4. DeployerTypeOK'
    BY <2>3, SameCloud
  <2>5. PP!IInv' /\ InstancesHaveKeys'
    BY <2>1, <2>3, <2>4, OthersKeepProvisioning
  <2>6. AdminInv'
    BY <2>1, <2>3, OthersKeepAdmin
  <2>7. \A t \in Tenants : OwnKey(t, copy[t].key)'
    <3> SUFFICES ASSUME NEW t \in Tenants
                 PROVE  copy'[t].key = NoKey \/ keyOwner'[copy'[t].key] = t
      BY DEF OwnKey
    <3>1. \/ copy'[t].key = NoKey
          \/ copy'[t].key \in Keys /\ keyOwner[copy'[t].key] = t
      BY <2>3, HealthCopies, Known DEF RowsOwn, OwnKey, StorageTypeOK, Row
    <3> QED
      BY <2>3, <3>1 DEF TableKeeps
  <2>8. HealthInv'
    BY <2>3, <2>7 DEF HealthInv
  <2> QED
    BY <1>0, <2>5, <2>6, <2>8 DEF SInv
<1>4. CASE UNCHANGED vars
  <2>1. /\ UNCHANGED storageVars /\ vm' = vm
        /\ UNCHANGED provisioningVars
        /\ UNCHANGED adminVars /\ UNCHANGED healthVars
    BY <1>4 DEF vars
  <2>2. TableKeeps
    BY <2>1, Known, NothingKeeps
  <2> QED
    BY <1>0, <2>1, <2>2, SameCloud, OthersKeepProvisioning, OthersKeepAdmin,
       OthersKeepHealth DEF SInv
<1> QED
  BY <1>1, <1>2, <1>3, <1>4 DEF Next

LEMMA SInit == Init => SInv
<1> SUFFICES ASSUME Init PROVE SInv
  OBVIOUS
<1> USE StorageAssumption, DeployerAssumption, SystemAssumption
<1>1. P!Init /\ H!HealthInit
      /\ op = [h \in Handlers |-> A!Idle] /\ alone = {}
  BY DEF Init
<1>2. PP!Init
  BY <1>1 DEF P!Init, PP!Init, P!StorageInit, PP!StorageInit, P!DeployerInit,
              PP!DeployerInit, P!NoRow, PP!NoRow, P!NoVM, PP!NoVM, P!Actors,
              PP!Actors, P!Nobody, PP!Nobody
<1>3. PP!IInv
  BY <1>2, PP!InitIInv
<1>4. /\ queue = <<>> /\ \A a \in PP!Actors : pc[a] = "idle"
      /\ \A t \in Tenants : vm[t] = NoVM
  BY <1>2, SameSets DEF PP!Init, PP!DeployerInit
<1>5. InstancesHaveKeys
  <2>1. \A p : p \notin PP!Waiting
    BY <1>4 DEF PP!Waiting, PP!Fresh
  <2> QED
    BY <1>4, <2>1 DEF InstancesHaveKeys, Running, NoVM
<1>6. NoRow \in Row /\ NoRow.key = NoKey
  BY DEF NoRow, Row
<1>7. AdminInv
  <2>1. A!Idle \in A!Operation /\ A!Idle.step = "idle"
    BY <1>6, SameSets DEF A!Operation, A!HandlerSteps
  <2> QED
    BY <1>1, <2>1 DEF AdminInv
<1>8. HP!TypeOK
  <2>1. HP!StorageTypeOK /\ HP!DeployerTypeOK
    BY <1>3, SameSets
       DEF PP!IInv, PP!TypeOK, HP!StorageTypeOK, HP!DeployerTypeOK,
           PP!StorageTypeOK, PP!DeployerTypeOK
  <2>2. copy = [t \in Tenants |-> NoRow] /\ copy \in [Tenants -> Row]
    BY <1>1, <1>6, SameSets DEF H!HealthInit
  <2>3. /\ loop \in HP!LoopSteps /\ check \in [Tenants -> HP!CheckSteps]
        /\ failures \in [Tenants -> 0 .. HP!Threshold]
    BY <1>1 DEF H!HealthInit, HP!LoopSteps, HP!CheckSteps, HP!Threshold
  <2>4. {running, stopping, ctxDone, batchDone} \subseteq BOOLEAN
    BY <1>1 DEF H!HealthInit
  <2>5. down \subseteq Tenants /\ late \subseteq Tenants
    BY <1>1 DEF H!HealthInit
  <2> QED
    BY <2>1, <2>2, <2>3, <2>4, <2>5, SameSets DEF HP!TypeOK
<1>9. HealthInv
  <2>1. HP!MarkIsDue /\ HP!BatchEndsWithService
    BY <1>1 DEF H!HealthInit, HP!MarkIsDue, HP!BatchEndsWithService
  <2>2. \A t \in Tenants : copy[t].key = NoKey
    BY <1>1, <1>6, SameSets DEF H!HealthInit
  <2> QED
    BY <1>8, <2>1, <2>2 DEF HealthInv, HP!IInv, OwnKey
<1> QED
  BY <1>1, <1>3, <1>5, <1>7, <1>9 DEF SInv

LEMMA InductiveSInv == Spec => []SInv
BY SInit, SStep, PTL DEF Spec

(* Types: the writers share the table and the cloud, and whatever they do  *)
(* to it in whichever order, rows, instances, copies and the queue keep    *)
(* their types.                                                            *)
THEOREM TypeCorrect == Spec => []TypeOK
<1>1. SInv => TypeOK
  <2> SUFFICES ASSUME SInv PROVE TypeOK
    OBVIOUS
  <2>1. P!TypeOK
    BY DEF SInv, PP!IInv, PP!TypeOK, P!TypeOK, PP!StorageTypeOK,
           P!StorageTypeOK, PP!DeployerTypeOK, P!DeployerTypeOK, PP!Pointer,
           P!Pointer, PP!Actors, P!Actors, PP!RequestSteps, P!RequestSteps,
           PP!AnsweredAt, P!AnsweredAt, PP!DeploySteps, P!DeploySteps,
           PP!WorkerSteps, P!WorkerSteps, PP!Row, P!Row, PP!Statuses,
           P!Statuses, PP!Instance, P!Instance
  <2>2. A!TypeOK
    BY Known, SameSets
       DEF SInv, AdminInv, A!TypeOK, A!StorageTypeOK, A!DeployerTypeOK,
           StorageTypeOK, DeployerTypeOK
  <2>3. H!TypeOK
    BY DEF SInv, HealthInv, HP!IInv, HP!TypeOK, H!TypeOK, HP!StorageTypeOK,
           H!StorageTypeOK, HP!DeployerTypeOK, H!DeployerTypeOK, HP!LoopSteps,
           H!LoopSteps, HP!CheckSteps, H!CheckSteps, HP!Threshold, H!Threshold,
           HP!Row, H!Row, HP!Statuses, H!Statuses, HP!Instance, H!Instance
  <2> QED
    BY <2>1, <2>2, <2>3 DEF TypeOK, SInv
<1> QED
  BY <1>1, InductiveSInv, PTL

(* Whoever wrote a row last, and whatever address it names: an instance of *)
(* another tenant at that address does not accept the row's key, for every *)
(* instance has a key, and every key one tenant.                           *)
THEOREM MisroutedAreRefused == Spec => []MisroutedIsRefused
<1>1. SInv => MisroutedIsRefused
  <2> SUFFICES ASSUME SInv, NEW t \in Tenants, NEW u \in Tenants, t # u,
                      tenants[t].host # NoHost, tenants[t].host = vm[u].host,
                      tenants[t].key = vm[u].key
               PROVE  FALSE
    BY DEF MisroutedIsRefused
  <2>1. vm[u].key \in Keys
    BY DEF SInv, InstancesHaveKeys, Running
  <2>2. OwnKey(t, tenants[t].key) /\ OwnKey(u, vm[u].key)
    BY Known DEF RowsOwn
  <2> QED
    BY <2>1, <2>2, StorageAssumption DEF OwnKey
<1> QED
  BY <1>1, InductiveSInv, PTL

(* What Provisioning and AdminApi promise alone survives their meeting: no *)
(* tenant is provisioned twice, though handlers and the health check write *)
(* its row meanwhile, and no stale row they write carries a foreign key.   *)
THEOREM PartsKeepTheirPromises ==
  Spec => [](P!ExclusiveOwnership /\ P!KeyOwnership /\ A!KeyOwnership)
<1>1. SInv => P!ExclusiveOwnership /\ P!KeyOwnership /\ A!KeyOwnership
  <2> SUFFICES ASSUME SInv
               PROVE  P!ExclusiveOwnership /\ P!KeyOwnership /\ A!KeyOwnership
    OBVIOUS
  <2>1. P!ExclusiveOwnership
    BY DEF SInv, PP!IInv, PP!ExclusiveOwnership, P!ExclusiveOwnership,
           PP!Actors, P!Actors, PP!QueuedIds, P!QueuedIds
  <2>2. P!KeyOwnership
    BY DEF SInv, PP!IInv, PP!KeyOwnership, P!KeyOwnership, PP!OwnKey,
           P!OwnKey, PP!Actors, P!Actors
  <2>3. A!KeyOwnership
    BY <2>2 DEF SInv, AdminInv, P!KeyOwnership, P!OwnKey, A!KeyOwnership,
                A!OwnKey, OwnKey
  <2> QED
    BY <2>1, <2>2, <2>3
<1> QED
  BY <1>1, InductiveSInv, PTL

----------------------------------------------------------------------------
(* Instances that are gone. *)
LEMMA AwaitedWaits ==
  /\ \A t : Awaited(t) <=> \E p \in PP!Waiting : p.id = t
  /\ \A t : Awaited(t)' <=> \E p : p \in PP!Waiting' /\ p.id = t
BY DEF Awaited, PP!Waiting, PP!Fresh, P!Actors, PP!Actors

LEMMA GoneIs ==
  \A t : Gone(t) <=> /\ Stored(t) /\ vm[t].host = NoHost
                     /\ \A p \in PP!Waiting : p.id # t
BY AwaitedWaits DEF Gone, Running

(* The worker and the requests deploy for tenants that wait, and only an   *)
(* insert makes a tenant wait.                                             *)
LEMMA TurnKeepsGone ==
  ASSUME PP!Turn, TableKeeps, NEW t \in Tenants, Gone(t)
  PROVE  Gone(t)'
<1>1. /\ Stored(t) /\ vm[t].host = NoHost
      /\ \A p \in PP!Waiting : p.id # t
  BY GoneIs
<1>2. \A p : p \in PP!Waiting' => p.id # t
  BY <1>1 DEF PP!Turn, PP!WaitingTurn, PP!Stored, Stored
<1>3. vm'[t].host = NoHost
  <2>1. vm'[t] = vm[t] \/ vm'[t] = NoVM
    BY <1>1, SameSets DEF PP!Turn, PP!CloudTurn
  <2> QED
    BY <1>1, <2>1 DEF NoVM
<1>4. Stored(t)'
  BY <1>1 DEF TableKeeps
<1>5. ~Awaited(t)'
  BY <1>2, AwaitedWaits
<1> QED
  BY <1>3, <1>4, <1>5 DEF Gone, Running

(* Nobody else deploys. *)
LEMMA OthersKeepGone ==
  ASSUME UNCHANGED provisioningVars, TableKeeps,
         \A u \in Tenants : vm'[u] = vm[u] \/ vm'[u] = NoVM,
         NEW t \in Tenants, Gone(t)
  PROVE  Gone(t)'
<1>1. Awaited(t)' <=> Awaited(t)
  BY DEF provisioningVars, Awaited, P!Actors
<1>2. NoVM.host = NoHost
  BY DEF NoVM
<1> QED
  BY <1>1, <1>2 DEF TableKeeps, Gone, Running

(* Who writes a row and who takes instances away, one step after another.  *)
LEMMA Steps ==
  ASSUME SInv, [Next]_vars
  PROVE  \/ PP!Turn /\ TableKeeps /\ UNCHANGED adminVars
         \/ \E h \in Handlers : AdminTurn(h) /\ UNCHANGED provisioningVars
         \/ HealthTurn /\ UNCHANGED provisioningVars /\ UNCHANGED adminVars
         \/ /\ UNCHANGED storageVars /\ vm' = vm /\ TableKeeps
            /\ UNCHANGED provisioningVars /\ UNCHANGED adminVars
<1>1. CASE WorkerStep \/ (\E r \in Requests : CreateStep(r))
  BY <1>1, ProvisioningMachine
<1>2. CASE AdminStep
  BY <1>2, AdminStepIsTurn DEF AdminStep
<1>3. CASE LoopStep \/ (\E t \in Tenants : CheckStep(t))
  BY <1>3, HealthStepIsTurn DEF LoopStep, CheckStep
<1>4. CASE UNCHANGED vars
  BY <1>4, Known, NothingKeeps DEF vars
<1> QED
  BY <1>1, <1>2, <1>3, <1>4 DEF Next

LEMMA GoneStep ==
  ASSUME SInv, [Next]_vars, NEW t \in Tenants, Gone(t)
  PROVE  Gone(t)'
<1>1. CASE PP!Turn /\ TableKeeps
  BY <1>1, TurnKeepsGone
<1>2. CASE \E h \in Handlers : AdminTurn(h) /\ UNCHANGED provisioningVars
  BY <1>2, OthersKeepGone DEF AdminTurn
<1>3. CASE HealthTurn /\ UNCHANGED provisioningVars
  BY <1>3, OthersKeepGone DEF HealthTurn
<1>4. CASE TableKeeps /\ vm' = vm /\ UNCHANGED provisioningVars
  BY <1>4, OthersKeepGone
<1> QED
  BY <1>1, <1>2, <1>3, <1>4, Steps

(* No step of anybody brings an instance back, nor a wait for one: not the *)
(* worker's retries, a stale copy written back, a new key or a regained    *)
(* health.                                                                 *)
THEOREM GoneForGood == Spec => GoneStays
<1>1. SInv /\ [Next]_vars => [\A t \in Tenants : Gone(t) => Gone(t)']_vars
  BY GoneStep
<1> QED
  BY <1>1, InductiveSInv, PTL DEF Spec, GoneStays

----------------------------------------------------------------------------
(* Instances behind deleted rows.                                          *)
(*                                                                         *)
(* A PUT may write any status, and a failed synchronous creation marks its *)
(* row deleted although its cleanup failed; without the two, a row is      *)
(* marked deleted only when its tenant is gone.                            *)
Thorough == "err" \notin DeleteOutcomes /\ "deleted" \notin PatchStatuses

(* A tenant waits until it has an instance. *)
RunningNoLonger ==
    \A t \in Tenants : Running(t) => Stored(t) /\ ~Awaited(t)

DeletedAreGone ==
    \A t \in Tenants : tenants[t].status = "deleted" => Gone(t)

(* A rollback, unless its client left and its writes fail, follows the     *)
(* cleanup; no row that is going to be written back says "deleted".        *)
CreatorsKnow ==
    /\ \A a \in PP!Actors \ cancelled, t \in Tenants :
          pc[a] = "rollback" /\ ptr[a].id = t => Gone(t)
    /\ pc[Worker] = "markWrite" => seen.status # "deleted"
    /\ \A r \in Requests : ptr[r].row.status # "deleted"

HandlersKnow ==
    \A h \in Handlers, t \in Tenants : Deletes(h, t) => Gone(t)

DInv == RunningNoLonger /\ DeletedAreGone /\ CreatorsKnow /\ HandlersKnow

(* The pointers in flight name tenants with a row. *)
LEMMA WaitingAreStored ==
  ASSUME SInv, NEW p \in PP!Waiting
  PROVE  p.id \in Tenants /\ Stored(p.id)
<1>1. PP!PointersAreStored /\ PP!TypeOK
  BY DEF SInv, PP!IInv
<1>2. PP!Fresh \subseteq PP!Holding
  BY DEF PP!Fresh, PP!Holding, PP!DeploySteps
<1> QED
  BY <1>1, <1>2
     DEF PP!PointersAreStored, PP!GoodPointer, PP!Waiting, PP!Stored, Stored

LEMMA CreatorsTurn ==
  ASSUME Thorough, SInv, DInv, PP!Turn, TableKeeps, UNCHANGED adminVars
  PROVE  DInv'
<1>0. /\ RunningNoLonger /\ DeletedAreGone /\ CreatorsKnow /\ HandlersKnow
  BY DEF DInv
<1>1. \A t \in Tenants : Gone(t) => Gone(t)'
  BY TurnKeepsGone
<1>2. RunningNoLonger'
  <2> SUFFICES ASSUME NEW t \in Tenants, vm'[t].host # NoHost
               PROVE  Stored(t)' /\ ~Awaited(t)'
    BY DEF RunningNoLonger, Running
  <2>1. NoVM.host = NoHost
    BY DEF NoVM
  <2>2. CASE vm'[t] = vm[t]
    <3>1. Stored(t) /\ \A p \in PP!Waiting : p.id # t
      BY <1>0, <2>2, AwaitedWaits DEF RunningNoLonger, Running
    <3>2. \A p : p \in PP!Waiting' => p.id # t
      BY <3>1 DEF PP!Turn, PP!WaitingTurn, PP!Stored, Stored
    <3> QED
      BY <3>1, <3>2, AwaitedWaits DEF TableKeeps
  <2>3. CASE \E p \in PP!Waiting : /\ p.id = t
                                   /\ \A q : q \in PP!Waiting' => q.id # t
    BY <2>3, WaitingAreStored, AwaitedWaits DEF TableKeeps
  <2> QED
    BY <2>1, <2>2, <2>3, SameSets DEF PP!Turn, PP!CloudTurn
<1>3. DeletedAreGone'
  <2> SUFFICES ASSUME NEW t \in Tenants, tenants'[t].status = "deleted"
               PROVE  Gone(t)
    BY <1>1 DEF DeletedAreGone
  <2> QED
    BY <1>0 DEF PP!Turn, PP!DeletedTurn, DeletedAreGone, CreatorsKnow
<1>4. CreatorsKnow'
  <2>1. ASSUME NEW a \in PP!Actors, a \notin cancelled', pc'[a] = "rollback",
               NEW t \in Tenants, ptr'[a].id = t
        PROVE  Gone(t)'
    <3>1. a \notin cancelled
      BY <2>1 DEF PP!Turn
    <3>2. CASE pc[a] = "rollback" /\ ptr'[a] = ptr[a]
      BY <1>0, <1>1, <2>1, <3>1, <3>2 DEF CreatorsKnow
    <3>3. CASE /\ a \in Requests /\ ptr'[a] = ptr[a] /\ PP!Stored(ptr[a].id)
               /\ "err" \notin PP!Under(a, DeleteOutcomes) => vm'[ptr[a].id] = NoVM
               /\ \A q : q \in PP!Waiting' => q.id # ptr[a].id
      <4>1. t = ptr[a].id
        BY <2>1, <3>3
      <4>2. vm'[t].host = NoHost
        BY <3>1, <3>3, <4>1 DEF PP!Under, Thorough, NoVM
      <4>3. Stored(t)'
        BY <3>3, <4>1 DEF PP!Stored, Stored, TableKeeps
      <4>4. ~Awaited(t)'
        BY <3>3, <4>1, AwaitedWaits
      <4> QED
        BY <4>2, <4>3, <4>4 DEF Gone, Running
    <3> QED
      BY <2>1, <3>2, <3>3, SameSets DEF PP!Turn, PP!RollbackTurn
  <2>2. pc'[Worker] = "markWrite" => seen'.status # "deleted"
    <3>1. CASE pc[Worker] = "markWrite" /\ seen' = seen
      BY <1>0, <3>1 DEF CreatorsKnow
    <3>2. CASE ptr[Worker] \in PP!Waiting /\ seen' = tenants[ptr[Worker].id]
      <4>1. ptr[Worker].id \in Tenants /\ ~Gone(ptr[Worker].id)
        BY <3>2, WaitingAreStored, GoneIs
      <4> QED
        BY <1>0, <3>2, <4>1 DEF DeletedAreGone
    <3> QED
      BY <3>1, <3>2 DEF PP!Turn, PP!SeenTurn
  <2>3. \A r \in Requests : ptr'[r].row.status # "deleted"
    BY <1>0 DEF PP!Turn, PP!CopyTurn, CreatorsKnow
  <2> QED
    BY <2>1, <2>2, <2>3 DEF CreatorsKnow, PP!Actors
<1>5. HandlersKnow'
  BY <1>0, <1>1 DEF HandlersKnow, Deletes, adminVars
<1> QED
  BY <1>2, <1>3, <1>4, <1>5 DEF DInv

(* A handler marks a row deleted when its cleanup went through, or copies  *)
(* a mark that is there.                                                   *)
LEMMA HandlersTurn ==
  ASSUME Thorough, SInv, DInv, NEW h \in Handlers, AdminTurn(h),
         UNCHANGED provisioningVars
  PROVE  DInv'
<1>0. /\ RunningNoLonger /\ DeletedAreGone /\ CreatorsKnow /\ HandlersKnow
  BY DEF DInv
<1>1. /\ TableKeeps /\ \A t \in Tenants : vm'[t] = vm[t] \/ vm'[t] = NoVM
      /\ op'[h].step = "idle" \/ Reads(h) \/ Moves(h)
      /\ \A g \in Handlers \ {h} : /\ op'[g].step = op[g].step
                                   /\ op'[g].id = op[g].id
                                   /\ op'[g].row = op[g].row
  BY DEF AdminTurn
<1>2. \A t \in Tenants : Gone(t) => Gone(t)'
  BY <1>1, OthersKeepGone
<1>3. \A t : Awaited(t)' <=> Awaited(t)
  BY DEF provisioningVars, Awaited, P!Actors
<1>4. NoVM.host = NoHost
  BY DEF NoVM
<1>5. RunningNoLonger'
  BY <1>0, <1>1, <1>3, <1>4 DEF RunningNoLonger, Running, TableKeeps
<1>6. DeletedAreGone'
  <2> SUFFICES ASSUME NEW t \in Tenants, tenants'[t].status = "deleted"
               PROVE  Gone(t)
    BY <1>2 DEF DeletedAreGone
  <2>1. tenants[t].status = "deleted" \/ Deletes(h, t)
    BY DEF AdminTurn
  <2> QED
    BY <1>0, <2>1 DEF DeletedAreGone, HandlersKnow
<1>7. CreatorsKnow'
  BY <1>0, <1>2 DEF CreatorsKnow, provisioningVars, PP!Actors
<1>8. HandlersKnow'
  <2> SUFFICES ASSUME NEW g \in Handlers, NEW t \in Tenants,
                      op'[g].step # "idle", op'[g].id = t,
                      op'[g].step = "remove" \/ op'[g].row.status = "deleted"
               PROVE  Gone(t)'
    BY DEF HandlersKnow, Deletes
  <2>1. CASE g # h
    BY <1>0, <1>1, <1>2, <2>1 DEF HandlersKnow, Deletes
  <2>2. CASE g = h /\ Reads(h)
    <3>1. tenants[t].status = "deleted"
      BY <2>2 DEF Reads, Thorough
    <3> QED
      BY <1>0, <1>2, <3>1 DEF DeletedAreGone
  <2>3. CASE g = h /\ Moves(h)
    <3>1. CASE Deletes(h, t)
      BY <1>0, <1>2, <3>1 DEF HandlersKnow
    <3>2. CASE ~Deletes(h, t)
      <4>1. op[h].id = t /\ Running(t) /\ vm'[t] = NoVM
        BY <2>3, <3>2 DEF Moves, Deletes
      <4>2. Stored(t)' /\ ~Awaited(t)'
        BY <1>0, <1>1, <1>3, <4>1 DEF RunningNoLonger, TableKeeps
      <4> QED
        BY <1>4, <4>1, <4>2 DEF Gone, Running
    <3> QED
      BY <3>1, <3>2
  <2> QED
    BY <1>1, <2>1, <2>2, <2>3
<1> QED
  BY <1>5, <1>6, <1>7, <1>8 DEF DInv

(* The health check deletes nothing; nor does a step of nobody. *)
LEMMA OthersTurn ==
  ASSUME DInv, UNCHANGED provisioningVars, UNCHANGED adminVars, TableKeeps,
         vm' = vm,
         \A t \in Tenants : tenants'[t].status = "deleted"
                              => tenants[t].status = "deleted"
  PROVE  DInv'
<1>0. /\ RunningNoLonger /\ DeletedAreGone /\ CreatorsKnow /\ HandlersKnow
  BY DEF DInv
<1>1. \A t \in Tenants : Gone(t) => Gone(t)'
  BY OthersKeepGone
<1>2. \A t : Awaited(t)' <=> Awaited(t)
  BY DEF provisioningVars, Awaited, P!Actors
<1>3. RunningNoLonger'
  BY <1>0, <1>2 DEF RunningNoLonger, Running, TableKeeps
<1>4. DeletedAreGone'
  BY <1>0, <1>1 DEF DeletedAreGone
<1>5. CreatorsKnow'
  BY <1>0, <1>1 DEF CreatorsKnow, provisioningVars, PP!Actors
<1>6. HandlersKnow'
  BY <1>0, <1>1 DEF HandlersKnow, Deletes, adminVars
<1> QED
  BY <1>3, <1>4, <1>5, <1>6 DEF DInv

LEMMA DStep ==
  ASSUME Thorough, SInv, DInv, [Next]_vars
  PROVE  DInv'
<1>1. CASE PP!Turn /\ TableKeeps /\ UNCHANGED adminVars
  BY <1>1, CreatorsTurn
<1>2. CASE \E h \in Handlers : AdminTurn(h) /\ UNCHANGED provisioningVars
  BY <1>2, HandlersTurn
<1>3. CASE HealthTurn /\ UNCHANGED provisioningVars /\ UNCHANGED adminVars
  BY <1>3, OthersTurn DEF HealthTurn
<1>4. CASE /\ UNCHANGED storageVars /\ vm' = vm /\ TableKeeps
           /\ UNCHANGED provisioningVars /\ UNCHANGED adminVars
  BY <1>4, OthersTurn DEF storageVars
<1> QED
  BY <1>1, <1>2, <1>3, <1>4, Steps

LEMMA DInit == Init => DInv
<1> SUFFICES ASSUME Init PROVE DInv
  OBVIOUS
<1>1. /\ \A t \in Tenants : vm[t] = NoVM /\ tenants[t] = NoRow
      /\ \A a \in PP!Actors : pc[a] = "idle" /\ ptr[a].row = NoRow
      /\ \A h \in Handlers : op[h].step = "idle"
  BY SameSets
     DEF Init, P!Init, P!StorageInit, P!DeployerInit, P!Nobody, P!Actors,
         PP!Actors
<1> QED
  BY <1>1
     DEF DInv, RunningNoLonger, Running, NoVM, DeletedAreGone, NoRow,
         CreatorsKnow, PP!Actors, HandlersKnow, Deletes

LEMMA InductiveDInv == ASSUME Thorough PROVE Spec => []DInv
<1>1. SInv /\ DInv /\ [Next]_vars => DInv'
  BY DStep
<1> QED
  BY <1>1, DInit, InductiveSInv, PTL DEF Spec

(* No order of creations, deletions, key changes and health checks, with   *)
(* stale copies, lost writes, clients that leave and contexts that end,    *)
(* leaves an instance running behind a deleted row.                        *)
THEOREM DeletedHaveNoInstance ==
  ASSUME Thorough PROVE Spec => []DeletedHasNoInstance
<1>1. DInv => DeletedHasNoInstance
  BY DEF DInv, DeletedAreGone, Gone, DeletedHasNoInstance
<1> QED
  BY <1>1, InductiveDInv, PTL

----------------------------------------------------------------------------
(***************************************************************************)
(* What a step writes to the table, statement by statement, and where the  *)
(* keys it writes come from.                                               *)
(***************************************************************************)

Inserts(t) ==
    \E k \in Keys, status \in {"provisioning", ""} :
        \E out : InsertTenant(t, NewRow(status, k), out)

(* An UPDATE stores somebody's copy of the row, with a key of its tenant.  *)
Copied(t, row) ==
    /\ row.status # "none"
    /\ OwnKey(t, row.key)
    /\ row.key = NoKey \/ Held(row.key)

Writes(t) ==
    \/ \E row \in Row : Copied(t, row) /\ \E out : UpdateTenant(t, row, out)
    \/ \E out : DeleteTenant(t, out)
    \/ \E k \in Keys : \E out : WriteNewKey(t, k, out)

(* A key that a step may store: one that is stored or copied somewhere, or *)
(* one that was never drawn before.                                        *)
Available(k) == k = NoKey \/ Held(k) \/ keyOwner[k] = NoTenant

LEMMA RowsOf ==
  ASSUME SInv
  PROVE  /\ tenants \in [Tenants -> Row]
         /\ \A u \in Tenants : /\ tenants[u].key \in Keys \cup {NoKey}
                               /\ Available(tenants[u].key)
BY Known DEF StorageTypeOK, Row, Available, Held

LEMMA UpdateIsWritten ==
  ASSUME SInv, NEW t \in Tenants, NEW row \in Row, NEW out,
         Copied(t, row), UpdateTenant(t, row, out)
  PROVE  /\ UNCHANGED storageVars \/ W!TableStep(t)
         /\ \A u \in Tenants : u # t => tenants'[u] = tenants[u]
         /\ \A u \in Tenants : Available(tenants'[u].key)
<1>1. /\ keyOwner' = keyOwner
      /\ \/ tenants' = tenants
         \/ tenants' = [tenants EXCEPT ![t] = row] /\ ~UpdateRejected(t, row)
  BY DEF UpdateTenant
<1>2. CASE tenants' = tenants
  BY <1>1, <1>2, RowsOf DEF storageVars
<1>3. CASE tenants' = [tenants EXCEPT ![t] = row] /\ ~UpdateRejected(t, row)
  <2>1. PICK s \in Statuses, h \in Hosts \cup {NoHost}, k \in Keys \cup {NoKey} :
           row = [status |-> s, key |-> k, host |-> h] /\ k = row.key
    BY DEF Copied, Row
  <2>2. W!UpdateTenant(t, row, "ok") /\ W!Stored(t) /\ W!OwnKey(t, k)
    BY <1>1, <1>3, <2>1
       DEF UpdateRejected, KeyTaken, Stored, W!UpdateTenant, W!UpdateRejected,
           W!KeyTaken, W!Stored, Copied, OwnKey, W!OwnKey
  <2>3. W!RowWritten(t)
    BY <2>1, <2>2 DEF W!RowWritten
  <2> QED
    BY <1>3, <2>3, RowsOf DEF W!TableStep, Available, Copied
<1> QED
  BY <1>1, <1>2, <1>3

LEMMA DeleteIsWritten ==
  ASSUME SInv, NEW t \in Tenants, NEW out, DeleteTenant(t, out)
  PROVE  /\ UNCHANGED storageVars \/ W!TableStep(t)
         /\ \A u \in Tenants : u # t => tenants'[u] = tenants[u]
         /\ \A u \in Tenants : Available(tenants'[u].key)
<1>1. /\ keyOwner' = keyOwner
      /\ \/ tenants' = tenants
         \/ Stored(t) /\ tenants' = [tenants EXCEPT ![t].status = "deleted"]
  BY DEF DeleteTenant
<1>2. CASE tenants' = tenants
  BY <1>1, <1>2, RowsOf DEF storageVars
<1>3. CASE Stored(t) /\ tenants' = [tenants EXCEPT ![t].status = "deleted"]
  <2>1. W!RowWritten(t)
    BY <1>1, <1>3 DEF W!RowWritten, W!Stored, Stored, Statuses
  <2>2. PICK r \in Row : r = tenants[t]
    BY RowsOf
  <2>3. [r EXCEPT !.status = "deleted"].key = r.key
    BY DEF Row
  <2>4. \A u \in Tenants : /\ u # t => tenants'[u] = tenants[u]
                           /\ tenants'[u].key = tenants[u].key
    BY <1>3, <2>2, <2>3, RowsOf
  <2> QED
    BY <2>1, <2>4, RowsOf DEF W!TableStep
<1> QED
  BY <1>1, <1>2, <1>3

LEMMA RekeyIsWritten ==
  ASSUME SInv, NEW t \in Tenants, NEW k \in Keys, NEW out, WriteNewKey(t, k, out)
  PROVE  /\ UNCHANGED storageVars \/ W!TableStep(t)
         /\ \A u \in Tenants : u # t => tenants'[u] = tenants[u]
         /\ \A u \in Tenants : Available(tenants'[u].key)
<1>1. \/ UNCHANGED storageVars
      \/ /\ Stored(t) /\ ~KeyTaken(t, k)
         /\ tenants'  = [tenants EXCEPT ![t].key = k]
         /\ keyOwner' = [keyOwner EXCEPT ![k] = t]
  BY DEF WriteNewKey
<1>2. CASE UNCHANGED storageVars
  BY <1>2, RowsOf DEF storageVars
<1>3. CASE /\ Stored(t) /\ ~KeyTaken(t, k)
           /\ tenants'  = [tenants EXCEPT ![t].key = k]
           /\ keyOwner' = [keyOwner EXCEPT ![k] = t]
  <2>1. W!WriteNewKey(t, k, "ok")
    BY <1>3 DEF WriteNewKey, FreshKey, Stored, KeyTaken, W!WriteNewKey,
                W!FreshKey, W!Stored, W!KeyTaken
  <2>2. PICK r \in Row : r = tenants[t]
    BY RowsOf
  <2>3. [r EXCEPT !.key = k].key = k
    BY DEF Row
  <2>4. \A u \in Tenants : /\ u # t => tenants'[u] = tenants[u]
                           /\ u = t => tenants'[u].key = k
    BY <1>3, <2>2, <2>3, RowsOf
  <2>5. Available(k)
    BY DEF WriteNewKey, FreshKey, Available
  <2> QED
    BY <2>1, <2>4, <2>5, RowsOf DEF W!TableStep, W!KeyReplaced
<1> QED
  BY <1>1, <1>2, <1>3

LEMMA InsertIsWritten ==
  ASSUME SInv, NEW t \in Tenants, Inserts(t)
  PROVE  /\ UNCHANGED storageVars \/ W!TableStep(t)
         /\ ~Stored(t)
         /\ \A u \in Tenants : u # t => tenants'[u] = tenants[u]
         /\ \A u \in Tenants : Available(tenants'[u].key)
<1>1. PICK k \in Keys, s \in {"provisioning", ""} :
         \E out : InsertTenant(t, NewRow(s, k), out)
  BY DEF Inserts, InsertTenant
<1>2. PICK out : InsertTenant(t, NewRow(s, k), out)
  BY <1>1 DEF InsertTenant
<1>3. PICK row : row = NewRow(s, k) /\ row = W!NewRow(s, k) /\ row.key = k
  <2>1. NewRow(s, k) = W!NewRow(s, k) /\ NewRow(s, k).key = k
    BY DEF NewRow, W!NewRow
  <2> QED
    BY <2>1
<1>4. /\ ~Stored(t) /\ keyOwner[k] = NoTenant
      /\ \/ UNCHANGED storageVars
         \/ /\ ~InsertRejected(t, row)
            /\ tenants'  = [tenants EXCEPT ![t] = row]
            /\ keyOwner' = [keyOwner EXCEPT ![k] = t]
  BY <1>2, <1>3 DEF InsertTenant, FreshID, FreshKey
<1>5. CASE UNCHANGED storageVars
  BY <1>4, <1>5, RowsOf DEF storageVars
<1>6. CASE /\ ~InsertRejected(t, row)
           /\ tenants'  = [tenants EXCEPT ![t] = row]
           /\ keyOwner' = [keyOwner EXCEPT ![k] = t]
  <2>1. W!InsertTenant(t, row, "ok")
    BY <1>3, <1>4, <1>6
       DEF InsertRejected, KeyTaken, Stored, W!InsertTenant, W!FreshID,
           W!FreshKey, W!Stored, W!InsertRejected, W!KeyTaken
  <2>2. W!Inserted(t)
    BY <1>3, <2>1 DEF W!Inserted
  <2> QED
    BY <1>3, <1>4, <1>6, <2>2, RowsOf DEF W!TableStep, Available
<1> QED
  BY <1>4, <1>5, <1>6

LEMMA WritesAreWritten ==
  ASSUME SInv, NEW t \in Tenants, Writes(t)
  PROVE  /\ UNCHANGED storageVars \/ W!TableStep(t)
         /\ \A u \in Tenants : u # t => tenants'[u] = tenants[u]
         /\ \A u \in Tenants : Available(tenants'[u].key)
<1>1. CASE \E row \in Row : Copied(t, row) /\ \E out : UpdateTenant(t, row, out)
  <2>1. PICK row \in Row : Copied(t, row) /\ \E out : UpdateTenant(t, row, out)
    BY <1>1 DEF UpdateTenant
  <2>2. PICK out : UpdateTenant(t, row, out)
    BY <2>1 DEF UpdateTenant
  <2> QED
    BY <2>1, <2>2, UpdateIsWritten
<1>2. CASE \E out : DeleteTenant(t, out)
  <2>1. PICK out : DeleteTenant(t, out)
    BY <1>2 DEF DeleteTenant
  <2> QED
    BY <2>1, DeleteIsWritten
<1>3. CASE \E k \in Keys : \E out : WriteNewKey(t, k, out)
  <2>1. PICK k \in Keys : \E out : WriteNewKey(t, k, out)
    BY <1>3 DEF WriteNewKey
  <2>2. PICK out : WriteNewKey(t, k, out)
    BY <2>1 DEF WriteNewKey
  <2> QED
    BY <2>2, RekeyIsWritten
<1> QED
  BY <1>1, <1>2, <1>3 DEF Writes, UpdateTenant, DeleteTenant, WriteNewKey

(* The health check writes the row of a tenant it is checking. *)
LEMMA CheckWrites ==
  ASSUME SInv, NEW t \in Tenants, H!CheckStep(t)
  PROVE  UNCHANGED storageVars \/ (check[t] # "none" /\ Writes(t))
<1>1. CASE H!MarkTenantUnhealthy(t) \/ H!MarkTenantHealthy(t)
  <2>1. PICK s \in {"unhealthy", "active"}, from \in {"markUnhealthy", "markHealthy"} :
           H!Mark(t, from, s)
    BY <1>1 DEF H!MarkTenantUnhealthy, H!MarkTenantHealthy
  <2>2. PICK c \in Row : c = copy[t] /\ OwnKey(t, c.key)
    BY HealthCopies
  <2>3. PICK row \in Row : /\ row = [c EXCEPT !.status = s]
                           /\ row.status = s /\ row.key = c.key
    <3>1. /\ [c EXCEPT !.status = s] \in Row
          /\ [c EXCEPT !.status = s].status = s
          /\ [c EXCEPT !.status = s].key = c.key
      BY DEF Row, Statuses
    <3> QED
      BY <3>1
  <2>4. PICK out : H!UpdateTenant(t, row, out)
    BY <2>1, <2>2, <2>3 DEF H!Mark
  <2>5. UpdateTenant(t, row, out)
    BY <2>4, SameStatements
  <2>6. Copied(t, row)
    BY <2>2, <2>3 DEF Copied, Held
  <2>7. check[t] # "none"
    BY <2>1 DEF H!Mark
  <2> QED
    BY <2>5, <2>6, <2>7 DEF Writes
<1>2. CASE H!Acquire(t) \/ H!ProbeHealthy(t) \/ H!ProbeFailed(t)
  BY <1>2, QuietHealthTurn
<1> QED
  BY <1>1, <1>2 DEF H!CheckStep

(* An admin handler writes the row of the tenant it fetched. *)
LEMMA HandlerWrites ==
  ASSUME SInv, NEW h \in Handlers,
         \/ A!UpdateSave(h) \/ A!DeleteMark(h) \/ A!DeleteRevert(h)
         \/ A!DeleteInfrastructure(h)
         \/ A!DeleteRow(h) \/ A!RegenerateWrite(h) \/ A!Expire(h)
  PROVE  UNCHANGED storageVars \/ (op[h].id \in Tenants /\ Writes(op[h].id))
<1>0. PICK r \in Row : r = op[h].row
  BY Known
<1>1. op[h].step # "idle"
  BY DEF A!UpdateSave, A!DeleteMark, A!DeleteRevert, A!DeleteInfrastructure,
         A!DeleteRow, A!RegenerateWrite, A!Expire
<1>2. PICK t \in Tenants : t = op[h].id /\ OwnKey(t, r.key)
  BY <1>0, <1>1 DEF SInv, AdminInv
<1>3. r.key = NoKey \/ Held(r.key)
  BY <1>0 DEF Held
<1>4. CASE A!UpdateSave(h) \/ A!DeleteMark(h)
  <2>1. PICK out : A!UpdateTenant(t, r, out)
    BY <1>0, <1>2, <1>4 DEF A!UpdateSave, A!DeleteMark
  <2>2. UpdateTenant(t, r, out)
    BY <2>1, SameStatements
  <2>3. op[h].step \in {"save", "mark"}
    BY <1>4 DEF A!UpdateSave, A!DeleteMark
  <2>4. Copied(t, r)
    BY <1>0, <1>2, <1>3, <2>3 DEF Copied, SInv, AdminInv
  <2> QED
    BY <1>2, <2>2, <2>4 DEF Writes
<1>5. CASE A!DeleteRevert(h)
  <2>1. PICK row \in Row : /\ row = [r EXCEPT !.status = "active"]
                           /\ row.status = "active" /\ row.key = r.key
    <3>1. /\ [r EXCEPT !.status = "active"] \in Row
          /\ [r EXCEPT !.status = "active"].status = "active"
          /\ [r EXCEPT !.status = "active"].key = r.key
      BY DEF Row, Statuses
    <3> QED
      BY <3>1
  <2>2. PICK out : A!UpdateTenant(t, row, out)
    BY <1>0, <1>2, <1>5, <2>1 DEF A!DeleteRevert, A!RevertedRow
  <2>3. UpdateTenant(t, row, out)
    BY <2>2, SameStatements
  <2>4. Copied(t, row)
    BY <1>2, <1>3, <2>1 DEF Copied
  <2> QED
    BY <1>2, <2>3, <2>4 DEF Writes
<1>6. CASE A!DeleteRow(h)
  <2>1. PICK out : DeleteTenant(t, out)
    BY <1>2, <1>6, SameStatements DEF A!DeleteRow
  <2> QED
    BY <1>2, <2>1 DEF Writes
<1>7. CASE A!RegenerateWrite(h)
  <2>1. PICK k \in Keys : \E out : A!WriteNewKey(t, k, out)
    BY <1>2, <1>7 DEF A!RegenerateWrite
  <2>2. PICK out : WriteNewKey(t, k, out)
    BY <2>1, SameStatements
  <2> QED
    BY <1>2, <2>2 DEF Writes
<1>8. CASE A!DeleteInfrastructure(h) \/ A!Expire(h)
  BY <1>8 DEF A!DeleteInfrastructure, A!Expire, A!storageVars, storageVars
<1> QED
  BY <1>4, <1>5, <1>6, <1>7, <1>8

(* What a handler does to its copy; the instance is up for deletion once   *)
(* the row carries the copy. *)
LEMMA HandlerMoves ==
  ASSUME SInv, NEW h \in Handlers,
         \/ A!UpdateSave(h) \/ A!DeleteMark(h) \/ A!DeleteRevert(h)
         \/ A!DeleteInfrastructure(h)
         \/ A!DeleteRow(h) \/ A!RegenerateWrite(h) \/ A!Expire(h)
  PROVE  /\ \A g \in Handlers \ {h} : op'[g] = op[g]
         /\ \/ op'[h] = A!Idle
            \/ /\ op[h].step # "idle"
               /\ op'[h].id = op[h].id /\ op'[h].row = op[h].row
               /\ op'[h].step = "mark" => op[h].step = "mark"
               /\ op'[h].step = "destroy" =>
                    \/ op[h].step = "destroy" /\ UNCHANGED storageVars
                    \/ op[h].step = "mark" /\ tenants'[op[h].id] = op[h].row
<1>0. op \in [Handlers -> A!Operation]
  BY DEF SInv, AdminInv
<1>1. CASE A!UpdateSave(h) \/ A!DeleteRevert(h) \/ A!DeleteRow(h) \/ A!RegenerateWrite(h)
  <2>1. op' = [op EXCEPT ![h] = A!Idle]
    BY <1>1 DEF A!UpdateSave, A!DeleteRevert, A!DeleteRow, A!RegenerateWrite, A!Answer
  <2> QED
    BY <1>0, <2>1
<1>2. CASE A!Expire(h)
  <2>1. PICK step \in A!HandlerSteps : step = op[h].step /\ step # "idle"
    BY <1>0, <1>2 DEF A!Operation, A!Expire
  <2>2. op' = [op EXCEPT ![h].expired = TRUE] /\ UNCHANGED storageVars
    BY <1>2 DEF A!Expire, A!storageVars, storageVars
  <2>3. /\ \A g \in Handlers \ {h} : op'[g] = op[g]
        /\ \/ op'[h] = A!Idle
           \/ /\ op'[h].step = step
              /\ op'[h].id = op[h].id /\ op'[h].row = op[h].row
    BY <1>0, <2>1, <2>2, MoveEffect
  <2> QED
    BY <2>1, <2>2, <2>3
<1>3. CASE A!DeleteInfrastructure(h)
  <2>1. PICK step \in {"revert", "remove"} : op' = [op EXCEPT ![h].step = step]
    BY <1>3 DEF A!DeleteInfrastructure, A!Goto
  <2>2. op[h].step = "destroy" /\ step \in A!HandlerSteps
    BY <1>3, <2>1 DEF A!DeleteInfrastructure, A!HandlerSteps
  <2>3. /\ \A g \in Handlers \ {h} : op'[g] = op[g]
        /\ \/ op'[h] = A!Idle
           \/ /\ op'[h].step = step
              /\ op'[h].id = op[h].id /\ op'[h].row = op[h].row
    BY <1>0, <2>1, <2>2, MoveEffect
  <2> QED
    BY <2>1, <2>2, <2>3
<1>4. CASE A!DeleteMark(h)
  <2>1. PICK t \in Tenants, r \in Row : t = op[h].id /\ r = op[h].row
    BY <1>4, Known DEF A!DeleteMark, SInv, AdminInv
  <2>2. PICK out : /\ A!UpdateTenant(t, r, out)
                   /\ IF A!UpdateFails(t, r, out)
                      THEN op' = [op EXCEPT ![h] = A!Idle]
                      ELSE op' = [op EXCEPT ![h].step = "destroy"]
    BY <1>4, <2>1 DEF A!DeleteMark, A!Answer, A!Goto
  <2>3. PICK step \in A!HandlerSteps : step = "destroy"
    BY DEF A!HandlerSteps
  <2>4. op[h].step = "mark"
    BY <1>4 DEF A!DeleteMark
  <2>5. CASE op' = [op EXCEPT ![h] = A!Idle]
    BY <1>0, <2>5
  <2>6. CASE op' = [op EXCEPT ![h].step = "destroy"] /\ ~A!UpdateFails(t, r, out)
    <3>1. tenants' = [tenants EXCEPT ![t] = r]
      BY <2>2, <2>6 DEF A!UpdateTenant, A!UpdateFails
    <3>2. /\ \A g \in Handlers \ {h} : op'[g] = op[g]
          /\ \/ op'[h] = A!Idle
             \/ /\ op'[h].step = step
                /\ op'[h].id = op[h].id /\ op'[h].row = op[h].row
      BY <1>0, <2>3, <2>6, MoveEffect
    <3>3. tenants'[t] = r
      BY <3>1, RowsOf
    <3> QED
      BY <2>1, <2>3, <2>4, <3>2, <3>3
  <2> QED
    BY <2>2, <2>5, <2>6
<1> QED
  BY <1>1, <1>2, <1>3, <1>4

(* What the worker and the requests hold. *)
LEMMA PointersKnown ==
  ASSUME SInv
  PROVE  /\ ptr \in [Actors -> PP!Pointer]
         /\ queue \in Seq(PP!Pointer)
         /\ seen \in Row
         /\ \A a \in Actors : /\ ptr[a].row \in Row
                              /\ deployed[a] \in Hosts \cup {NoHost}
         /\ \A a \in Actors : pc[a] \in PP!Holding =>
                /\ ptr[a].id \in Tenants /\ ptr[a].row.status # "none"
                /\ OwnKey(ptr[a].id, ptr[a].row.key)
         /\ pc[Worker] \in {"markWrite", "failWrite"} =>
                /\ seen.status # "none" /\ OwnKey(ptr[Worker].id, seen.key)
<1>1. PP!TypeOK /\ PP!PointersAreStored /\ PP!KeyOwnership /\ PP!SeenIsOwn
  BY DEF SInv, PP!IInv
<1>2. /\ ptr \in [Actors -> PP!Pointer] /\ queue \in Seq(PP!Pointer)
      /\ seen \in Row /\ deployed \in [Actors -> Hosts \cup {NoHost}]
  BY <1>1, SameSets DEF PP!TypeOK, PP!Actors, Actors
<1>3. \A a \in Actors : ptr[a].row \in Row
  BY <1>2, SameSets DEF PP!Pointer
<1>4. \A a \in Actors : pc[a] \in PP!Holding =>
         /\ ptr[a].id \in Tenants /\ ptr[a].row.status # "none"
         /\ OwnKey(ptr[a].id, ptr[a].row.key)
  BY <1>1, StorageAssumption
     DEF PP!PointersAreStored, PP!GoodPointer, PP!KeyOwnership, PP!OwnKey,
         OwnKey, PP!Actors, Actors
<1>5. pc[Worker] \in {"markWrite", "failWrite"} =>
         /\ seen.status # "none" /\ OwnKey(ptr[Worker].id, seen.key)
  BY <1>1 DEF PP!PointersAreStored, PP!SeenIsOwn, PP!OwnKey, OwnKey
<1> QED
  BY <1>2, <1>3, <1>4, <1>5

CreatorStep ==
    \/ P!WorkerProgress \/ P!ServicesReady(Worker)
    \/ \E r \in Requests : \/ P!CreateTenantAsync(r) \/ P!HandlerProgress(r)
                           \/ P!ServicesReady(r) \/ P!Cancel(r)

(* An insert is for an id without a row; an UPDATE and the rollback are    *)
(* for the tenant of the actor's pointer.                                  *)
LEMMA InsertingWrites ==
  ASSUME NEW r \in Requests,
         P!CreateTenantAsync(r) \/ P!CreateTenantWithProvisioning(r)
  PROVE  \E t \in Tenants : Inserts(t)
<1>1. PICK s \in {"provisioning", ""}, t \in Tenants, k \in Keys :
         \E out : P!InsertTenant(t, P!NewRow(s, k), out)
  BY DEF P!CreateTenantAsync, P!CreateTenantWithProvisioning, P!InsertTenant
<1>2. PICK out : P!InsertTenant(t, P!NewRow(s, k), out)
  BY <1>1 DEF P!InsertTenant
<1>3. PICK row : row = NewRow(s, k) /\ row = P!NewRow(s, k)
  <2>1. NewRow(s, k) = P!NewRow(s, k)
    BY DEF NewRow, P!NewRow
  <2> QED
    BY <2>1
<1>4. P!InsertTenant(t, row, out)
  BY <1>2, <1>3
<1>5. InsertTenant(t, row, out)
  BY <1>4, SameStatements
<1>6. InsertTenant(t, NewRow(s, k), out)
  BY <1>3, <1>5
<1> QED
  BY <1>6 DEF Inserts, InsertTenant

LEMMA UpdatingWrites ==
  ASSUME SInv, NEW a \in Actors, pc[a] \in PP!Holding,
         NEW row \in Row, NEW out,
         P!UpdateTenant(ptr[a].id, row, out), row.status # "none",
         \/ row.key = ptr[a].row.key
         \/ row.key = seen.key /\ OwnKey(ptr[a].id, seen.key)
  PROVE  ptr[a].id \in Tenants /\ Writes(ptr[a].id)
<1>1. PICK t \in Tenants : t = ptr[a].id /\ OwnKey(t, ptr[a].row.key)
  BY PointersKnown
<1>2. P!UpdateTenant(t, row, out)
  BY <1>1
<1>3. UpdateTenant(t, row, out)
  BY <1>2, SameStatements
<1>4. row.key = NoKey \/ Held(row.key)
  BY DEF Held, P!Actors, Actors
<1>5. Copied(t, row)
  BY <1>1, <1>4 DEF Copied
<1> QED
  BY <1>1, <1>3, <1>5 DEF Writes

LEMMA CreatorWrites ==
  ASSUME SInv, CreatorStep
  PROVE  \/ UNCHANGED storageVars
         \/ \E t \in Tenants : Inserts(t)
         \/ \E a \in Actors : ptr[a].id \in Tenants /\ Writes(ptr[a].id)
<1>0. Worker \in Actors /\ \A r \in Requests : r \in Actors
  BY DEF Actors
<1>1. CASE \E r \in Requests :
             P!CreateTenantAsync(r) \/ P!CreateTenantWithProvisioning(r)
  BY <1>1, InsertingWrites
<1>2. CASE P!MarkWrite
  <2>1. pc[Worker] = "markWrite" /\ pc[Worker] \in PP!Holding
    BY <1>2 DEF P!MarkWrite, PP!Holding
  <2>2. PICK out : P!UpdateTenant(ptr[Worker].id, seen, out)
    BY <1>2 DEF P!MarkWrite, P!UpdateTenant
  <2>3. PICK row \in Row : row = seen /\ row.key = seen.key /\ row.status # "none"
                           /\ OwnKey(ptr[Worker].id, seen.key)
    BY <2>1, PointersKnown
  <2>4. P!UpdateTenant(ptr[Worker].id, row, out)
    BY <2>2, <2>3
  <2> QED
    BY <1>0, <2>1, <2>3, <2>4, UpdatingWrites
<1>3. CASE P!FailWrite
  <2>1. pc[Worker] = "failWrite" /\ pc[Worker] \in PP!Holding
    BY <1>3 DEF P!FailWrite, PP!Holding
  <2>2. PICK out : P!UpdateTenant(ptr[Worker].id, P!FailedRow, out)
    BY <1>3 DEF P!FailWrite, P!UpdateTenant
  <2>3. PICK row \in Row : row = P!FailedRow /\ row.key = seen.key
                           /\ row.status = "provisioning_failed"
                           /\ OwnKey(ptr[Worker].id, seen.key)
    <3>1. /\ P!FailedRow \in Row /\ P!FailedRow.key = seen.key
          /\ P!FailedRow.status = "provisioning_failed"
      BY PointersKnown DEF P!FailedRow, Row, Statuses
    <3> QED
      BY <2>1, <3>1, PointersKnown
  <2>4. P!UpdateTenant(ptr[Worker].id, row, out)
    BY <2>2, <2>3
  <2> QED
    BY <1>0, <2>1, <2>3, <2>4, UpdatingWrites
<1>4. CASE P!SaveReady
  <2>1. pc[Worker] = "save" /\ pc[Worker] \in PP!Holding
    BY <1>4 DEF P!SaveReady, PP!Holding, PP!DeploySteps
  <2>2. PICK out : P!UpdateTenant(ptr[Worker].id, P!ReadyRow, out)
    BY <1>4 DEF P!SaveReady, P!UpdateTenant
  <2>3. PICK row \in Row : row = P!ReadyRow /\ row.key = ptr[Worker].row.key
                           /\ row.status = "active"
    <3>1. ptr[Worker].row \in Row /\ deployed[Worker] \in Hosts \cup {NoHost}
      BY <1>0, PointersKnown
    <3>2. /\ P!ReadyRow \in Row /\ P!ReadyRow.key = ptr[Worker].row.key
          /\ P!ReadyRow.status = "active"
      BY <3>1 DEF P!ReadyRow, Row, Statuses
    <3> QED
      BY <3>2
  <2>4. P!UpdateTenant(ptr[Worker].id, row, out)
    BY <2>2, <2>3
  <2> QED
    BY <1>0, <2>1, <2>3, <2>4, UpdatingWrites
<1>5. ASSUME NEW r \in Requests, P!SaveCreated(r)
      PROVE  ptr[r].id \in Tenants /\ Writes(ptr[r].id)
  <2>1. pc[r] = "save" /\ pc[r] \in PP!Holding /\ r \in Actors
    BY <1>0, <1>5 DEF P!SaveCreated, PP!Holding, PP!DeploySteps
  <2>2. PICK out : P!UpdateTenant(ptr[r].id, P!CreatedRow(r), out)
    BY <1>5 DEF P!SaveCreated, P!UpdateTenant
  <2>3. PICK row \in Row : row = P!CreatedRow(r) /\ row.key = ptr[r].row.key
                           /\ row.status # "none"
    <3>1. /\ ptr[r].row \in Row /\ deployed[r] \in Hosts \cup {NoHost}
          /\ ptr[r].row.status # "none"
      BY <2>1, PointersKnown
    <3>2. /\ P!CreatedRow(r) \in Row /\ P!CreatedRow(r).key = ptr[r].row.key
          /\ P!CreatedRow(r).status = ptr[r].row.status
      BY <3>1 DEF P!CreatedRow, Row
    <3> QED
      BY <3>1, <3>2
  <2>4. P!UpdateTenant(ptr[r].id, row, out)
    BY <2>2, <2>3
  <2> QED
    BY <2>1, <2>3, <2>4, UpdatingWrites
<1>6. ASSUME NEW r \in Requests, P!Rollback(r)
      PROVE  ptr[r].id \in Tenants /\ Writes(ptr[r].id)
  <2>1. pc[r] \in PP!Holding /\ r \in Actors
    BY <1>0, <1>6 DEF P!Rollback, PP!Holding
  <2>2. PICK t \in Tenants : t = ptr[r].id
    BY <2>1, PointersKnown
  <2>3. PICK out : DeleteTenant(t, out)
    BY <1>6, <2>2, SameStatements DEF P!Rollback, DeleteTenant
  <2> QED
    BY <2>2, <2>3 DEF Writes
<1>7. CASE \/ P!Take \/ P!MarkRead \/ P!FailRead
           \/ \E a \in Actors : \/ P!Deploy(a) \/ P!GetAddress(a) \/ P!Cleanup(a)
                                \/ P!ServicesReady(a) \/ P!ServicesTimeout(a)
           \/ \E r \in Requests : P!Enqueue(r) \/ P!Cancel(r)
  BY <1>7
     DEF P!Take, P!MarkRead, P!FailRead, P!ReadForStatus, P!Deploy,
         P!GetAddress, P!Cleanup, P!ServicesReady, P!ServicesTimeout,
         P!Enqueue, P!Cancel, P!storageVars, storageVars
<1> QED
  BY <1>0, <1>1, <1>2, <1>3, <1>4, <1>5, <1>6, <1>7
     DEF CreatorStep, P!WorkerProgress, P!HandlerProgress

(* The copies of the worker and of the requests come from each other, from *)
(* the table or from an insert. *)
LEMMA CopiesAvailable ==
  ASSUME SInv
  PROVE  /\ \A a \in Actors : Available(ptr[a].row.key)
         /\ \A i \in 1 .. Len(queue) : Available(queue[i].row.key)
         /\ \A t \in Tenants : Available(tenants[t].key) /\ Available(copy[t].key)
         /\ \A h \in Handlers : Available(op[h].row.key)
         /\ Available(seen.key)
BY DEF Available, Held, P!Actors, Actors

LEMMA PointerReplaced ==
  ASSUME SInv, NEW a \in Actors, NEW p,
         Available(p.row.key), ptr' = [ptr EXCEPT ![a] = p]
  PROVE  \A b \in Actors : Available(ptr'[b].row.key)
BY PointersKnown, CopiesAvailable

LEMMA NobodyAvailable ==
  /\ Available(P!Nobody.row.key) /\ Available(NoRow.key)
BY SameSets DEF P!Nobody, NoRow, Available

LEMMA QueueAppended ==
  ASSUME SInv, NEW a \in Actors, queue' = Append(queue, ptr[a])
  PROVE  \A i \in 1 .. Len(queue') : Available(queue'[i].row.key)
<1>1. queue \in Seq(PP!Pointer) /\ ptr[a] \in PP!Pointer
  BY PointersKnown
<1>2. /\ Len(queue') = Len(queue) + 1 /\ Len(queue) \in Nat
      /\ \A i \in 1 .. Len(queue) : queue'[i] = queue[i]
      /\ queue'[Len(queue) + 1] = ptr[a]
  BY <1>1
<1>3. ASSUME NEW i \in 1 .. Len(queue')
      PROVE  i \in 1 .. Len(queue) \/ i = Len(queue) + 1
  BY <1>2
<1> QED
  BY <1>2, <1>3, CopiesAvailable

LEMMA QueueTaken ==
  ASSUME SInv, queue # <<>>, queue' = Tail(queue)
  PROVE  /\ \A i \in 1 .. Len(queue') : Available(queue'[i].row.key)
         /\ Available(Head(queue).row.key)
<1>1. queue \in Seq(PP!Pointer)
  BY PointersKnown
<1>2. /\ Len(queue) \in Nat \ {0} /\ Len(queue') = Len(queue) - 1
      /\ Head(queue) = queue[1]
      /\ \A i \in 1 .. Len(queue') : queue'[i] = queue[i + 1]
  BY <1>1
<1>3. 1 \in 1 .. Len(queue)
  BY <1>2
<1>4. \A i \in 1 .. Len(queue') : i + 1 \in 1 .. Len(queue)
  BY <1>2
<1> QED
  BY <1>2, <1>3, <1>4, CopiesAvailable

LEMMA CreatorCopies ==
  ASSUME SInv, CreatorStep
  PROVE  /\ \A a \in Actors : Available(ptr'[a].row.key)
         /\ \A i \in 1 .. Len(queue') : Available(queue'[i].row.key)
         /\ Available(seen'.key)
<1>0. Worker \in Actors /\ \A r \in Requests : r \in Actors
  BY DEF Actors
<1>1. ASSUME NEW r \in Requests,
             P!CreateTenantAsync(r) \/ P!CreateTenantWithProvisioning(r)
      PROVE  \A a \in Actors : Available(ptr'[a].row.key)
  <2>1. PICK s \in {"provisioning", ""}, t \in Tenants, k \in Keys :
           /\ keyOwner[k] = NoTenant
           /\ \/ ptr' = ptr
              \/ ptr' = [ptr EXCEPT ![r] = [id |-> t, row |-> P!NewRow(s, k)]]
    BY <1>1 DEF P!CreateTenantAsync, P!CreateTenantWithProvisioning,
                P!InsertTenant, P!FreshKey, P!NewRow
  <2>2. PICK p : p = [id |-> t, row |-> P!NewRow(s, k)]
    OBVIOUS
  <2>3. Available(p.row.key)
    BY <2>1, <2>2 DEF P!NewRow, Available
  <2> QED
    BY <1>0, <2>1, <2>2, <2>3, PointerReplaced, CopiesAvailable
<1>2. ASSUME NEW r \in Requests, P!Enqueue(r)
      PROVE  /\ \A a \in Actors : Available(ptr'[a].row.key)
             /\ \A i \in 1 .. Len(queue') : Available(queue'[i].row.key)
  <2>1. ptr' = [ptr EXCEPT ![r] = P!Nobody]
    BY <1>2 DEF P!Enqueue
  <2>2. queue' = queue \/ queue' = Append(queue, ptr[r])
    BY <1>2 DEF P!Enqueue
  <2> QED
    BY <1>0, <2>1, <2>2, PointerReplaced, NobodyAvailable, QueueAppended,
       CopiesAvailable
<1>3. ASSUME P!Take
      PROVE  /\ \A a \in Actors : Available(ptr'[a].row.key)
             /\ \A i \in 1 .. Len(queue') : Available(queue'[i].row.key)
  <2>1. queue # <<>> /\ queue' = Tail(queue)
    BY <1>3 DEF P!Take
  <2>2. PICK p : p = Head(queue) /\ ptr' = [ptr EXCEPT ![Worker] = p]
    BY <1>3 DEF P!Take
  <2> QED
    BY <1>0, <2>1, <2>2, QueueTaken, PointerReplaced
<1>4. ASSUME P!MarkRead \/ P!FailRead
      PROVE  /\ \A a \in Actors : Available(ptr'[a].row.key)
             /\ Available(seen'.key)
  <2>1. ptr' = ptr \/ ptr' = [ptr EXCEPT ![Worker] = P!Nobody]
    BY <1>4 DEF P!MarkRead, P!FailRead, P!ReadForStatus, P!Finish
  <2>2. seen' = seen \/ (P!Stored(ptr[Worker].id) /\ seen' = tenants[ptr[Worker].id])
    BY <1>4 DEF P!MarkRead, P!FailRead, P!ReadForStatus, P!GetTenantFails
  <2>3. ptr[Worker].id \in Tenants
    BY <1>0, <1>4, PointersKnown
       DEF P!MarkRead, P!FailRead, P!ReadForStatus, PP!Holding
  <2> QED
    BY <1>0, <2>1, <2>2, <2>3, PointerReplaced, NobodyAvailable, CopiesAvailable
<1>5. ASSUME P!MarkWrite \/ P!FailWrite \/ P!SaveReady
      PROVE  /\ \A a \in Actors : Available(ptr'[a].row.key)
             /\ Available(seen'.key)
  <2>1. ptr' = ptr \/ ptr' = [ptr EXCEPT ![Worker] = P!Nobody]
    BY <1>5 DEF P!MarkWrite, P!FailWrite, P!SaveReady, P!Finish
  <2>2. seen' = seen \/ seen' = NoRow
    BY <1>5, SameSets DEF P!MarkWrite, P!FailWrite, P!SaveReady
  <2> QED
    BY <1>0, <2>1, <2>2, PointerReplaced, NobodyAvailable, CopiesAvailable
<1>6. ASSUME NEW r \in Requests, P!SaveCreated(r) \/ P!Rollback(r)
      PROVE  \A a \in Actors : Available(ptr'[a].row.key)
  <2>1. ptr' = [ptr EXCEPT ![r] = P!Nobody]
    BY <1>6 DEF P!SaveCreated, P!Rollback, P!Finish
  <2> QED
    BY <1>0, <2>1, PointerReplaced, NobodyAvailable
<1>7. ASSUME NEW a \in Actors, P!GetAddress(a)
      PROVE  \A b \in Actors : Available(ptr'[b].row.key)
  <2>1. ptr' = ptr \/ ptr' = [ptr EXCEPT ![a].row.key = NoKey]
    BY <1>7 DEF P!GetAddress
  <2>2. PICK q \in PP!Pointer : q = ptr[a]
    BY PointersKnown
  <2>3. PICK p : p = [q EXCEPT !.row.key = NoKey]
    OBVIOUS
  <2>4. p.row.key = NoKey
    BY <2>2, <2>3, SameSets DEF PP!Pointer, Row
  <2>5. ptr' = ptr \/ ptr' = [ptr EXCEPT ![a] = p]
    BY <2>1, <2>2, <2>3
  <2> QED
    BY <2>4, <2>5, PointerReplaced, CopiesAvailable DEF Available
<1>8. CASE \/ P!MarkRead \/ P!FailRead \/ P!MarkWrite \/ P!FailWrite
           \/ P!SaveReady
  <2>1. queue' = queue
    BY <1>8 DEF P!MarkRead, P!FailRead, P!ReadForStatus, P!MarkWrite,
                P!FailWrite, P!SaveReady
  <2> QED
    BY <1>4, <1>5, <1>8, <2>1, CopiesAvailable
<1>9. CASE \/ P!Take
           \/ \E r \in Requests : \/ P!CreateTenantAsync(r) \/ P!Enqueue(r)
                                  \/ P!CreateTenantWithProvisioning(r)
                                  \/ P!SaveCreated(r) \/ P!Rollback(r)
  <2>1. seen' = seen
    BY <1>9 DEF P!Take, P!CreateTenantAsync, P!CreateTenantWithProvisioning,
                P!Enqueue, P!SaveCreated, P!Rollback
  <2>2. queue' = queue \/ P!Take \/ \E r \in Requests : P!Enqueue(r)
    BY <1>9 DEF P!CreateTenantAsync, P!CreateTenantWithProvisioning,
                P!SaveCreated, P!Rollback
  <2> QED
    BY <1>1, <1>2, <1>3, <1>6, <1>9, <2>1, <2>2, CopiesAvailable
<1>10. CASE \E a \in Actors :
              \/ P!Deploy(a) \/ P!GetAddress(a) \/ P!Cleanup(a)
              \/ P!ServicesReady(a) \/ P!ServicesTimeout(a)
  <2>1. queue' = queue /\ seen' = seen
    BY <1>10 DEF P!Deploy, P!GetAddress, P!Cleanup, P!ServicesReady,
                 P!ServicesTimeout
  <2>2. ptr' = ptr \/ \E a \in Actors : P!GetAddress(a)
    BY <1>10 DEF P!Deploy, P!Cleanup, P!ServicesReady, P!ServicesTimeout
  <2> QED
    BY <1>7, <2>1, <2>2, CopiesAvailable
<1>11. CASE \E r \in Requests : P!Cancel(r)
  BY <1>11, CopiesAvailable DEF P!Cancel
<1> QED
  BY <1>0, <1>8, <1>9, <1>10, <1>11
     DEF CreatorStep, P!WorkerProgress, P!HandlerProgress

(* Who wrote, and what became of the copies, step by step. *)
HandlerStep(h) ==
    \/ A!UpdateSave(h) \/ A!DeleteMark(h) \/ A!DeleteRevert(h)
    \/ A!DeleteInfrastructure(h)
    \/ A!DeleteRow(h) \/ A!RegenerateWrite(h) \/ A!Expire(h)

WriterStep ==
    \/ CreatorStep /\ UNCHANGED <<adminVars, healthVars>>
    \/ /\ UNCHANGED <<provisioningVars, healthVars>>
       /\ \E h \in Handlers : HandlerStep(h) \/ (AdminTurn(h) /\ Reads(h))
    \/ /\ UNCHANGED <<provisioningVars, adminVars>>
       /\ H!Start \/ H!LoopStep \/ \E t \in Tenants : H!CheckStep(t)
       /\ HealthTurn
    \/ UNCHANGED <<storageVars, provisioningVars, adminVars, healthVars>>

LEMMA WhoSteps ==
  ASSUME SInv, [Next]_vars
  PROVE  WriterStep
<1>1. CASE WorkerStep \/ (\E r \in Requests : CreateStep(r))
  BY <1>1 DEF WorkerStep, CreateStep, CreatorStep, WriterStep
<1>2. CASE AdminStep
  <2>1. PICK h \in Handlers :
           \/ A!UpdateFetch(h) \/ A!DeleteFetch(h) \/ A!RegenerateFetch(h)
           \/ HandlerStep(h)
    BY <1>2 DEF AdminStep, A!Next, HandlerStep
  <2>2. HandlerStep(h) \/ (AdminTurn(h) /\ Reads(h))
    BY <2>1, ReadTurn
  <2> QED
    BY <1>2, <2>2 DEF AdminStep, WriterStep
<1>3. CASE LoopStep \/ (\E t \in Tenants : CheckStep(t))
  <2>1. HealthTurn
    BY <1>3, HealthStepIsTurn
  <2> QED
    BY <1>3, <2>1 DEF LoopStep, CheckStep, WriterStep
<1>4. CASE UNCHANGED vars
  BY <1>4 DEF vars, WriterStep
<1> QED
  BY <1>1, <1>2, <1>3, <1>4 DEF Next

(* Whose row a step may write. *)
LEMMA StepWrites ==
  ASSUME SInv, WriterStep
  PROVE  \/ UNCHANGED storageVars
         \/ \E t \in Tenants : Inserts(t) /\ UNCHANGED adminVars
         \/ \E a \in Actors : /\ ptr[a].id \in Tenants /\ Writes(ptr[a].id)
                              /\ UNCHANGED adminVars
         \/ \E t \in Tenants : check[t] # "none" /\ Writes(t) /\ UNCHANGED adminVars
         \/ \E h \in Handlers : /\ op[h].id \in Tenants /\ Writes(op[h].id)
                                /\ HandlerStep(h)
<1>1. CASE CreatorStep /\ UNCHANGED <<adminVars, healthVars>>
  BY <1>1, CreatorWrites
<1>2. CASE \E h \in Handlers : HandlerStep(h) \/ (AdminTurn(h) /\ Reads(h))
  <2>1. PICK h \in Handlers : HandlerStep(h) \/ (AdminTurn(h) /\ Reads(h))
    BY <1>2
  <2>2. CASE HandlerStep(h)
    BY <2>2, HandlerWrites DEF HandlerStep
  <2>3. CASE Reads(h)
    BY <2>3 DEF Reads, storageVars
  <2> QED
    BY <2>1, <2>2, <2>3
<1>3. CASE /\ UNCHANGED <<provisioningVars, adminVars>>
           /\ H!Start \/ H!LoopStep \/ \E t \in Tenants : H!CheckStep(t)
  <2>1. CASE H!Start \/ H!LoopStep
    BY <2>1, QuietHealthTurn
  <2>2. CASE \E t \in Tenants : H!CheckStep(t)
    BY <1>3, <2>2, CheckWrites
  <2> QED
    BY <1>3, <2>1, <2>2
<1> QED
  BY <1>1, <1>2, <1>3 DEF WriterStep

(* Whatever stale copies there are, the table changes as TableWriters says *)
(* it may: this is what the proxy was checked and proved against.          *)
THEOREM WritersAreRefined == Spec => ImplementsWriters
<1>1. Init => W!StorageInit
  BY DEF Init, P!Init, P!StorageInit, W!StorageInit, P!NoRow, W!NoRow
<1>2. SInv /\ [Next]_vars => [W!TableNext]_(W!storageVars)
  <2> SUFFICES ASSUME SInv, [Next]_vars
               PROVE  UNCHANGED storageVars \/ \E t \in Tenants : W!TableStep(t)
    BY DEF storageVars, W!storageVars, W!TableNext
  <2>1. \/ UNCHANGED storageVars
        \/ \E t \in Tenants : Inserts(t) \/ Writes(t)
    BY StepWrites, WhoSteps
  <2> QED
    BY <2>1, InsertIsWritten, WritesAreWritten
<1> QED
  BY <1>1, <1>2, InductiveSInv, PTL DEF Spec, ImplementsWriters, W!TableSpec

----------------------------------------------------------------------------
(* Keys nobody has any more. *)
LEMMA TableAvailable ==
  ASSUME SInv, WriterStep
  PROVE  \A t \in Tenants : Available(tenants'[t].key)
<1>1. CASE UNCHANGED storageVars
  BY <1>1, CopiesAvailable DEF storageVars
<1>2. CASE \E t \in Tenants : Inserts(t) \/ Writes(t)
  BY <1>2, InsertIsWritten, WritesAreWritten
<1> QED
  BY <1>1, <1>2, StepWrites

LEMMA StepAvailable ==
  ASSUME SInv, WriterStep
  PROVE  /\ \A a \in Actors : Available(ptr'[a].row.key)
         /\ \A i \in 1 .. Len(queue') : Available(queue'[i].row.key)
         /\ \A t \in Tenants : Available(tenants'[t].key) /\ Available(copy'[t].key)
         /\ \A h \in Handlers : Available(op'[h].row.key)
         /\ Available(seen'.key)
<1>1. \A t \in Tenants : Available(tenants'[t].key)
  BY TableAvailable
<1>2. CASE CreatorStep /\ UNCHANGED <<adminVars, healthVars>>
  BY <1>1, <1>2, CreatorCopies, CopiesAvailable DEF adminVars, healthVars
<1>3. CASE /\ UNCHANGED <<provisioningVars, healthVars>>
           /\ \E h \in Handlers : HandlerStep(h) \/ (AdminTurn(h) /\ Reads(h))
  <2>1. PICK h \in Handlers : HandlerStep(h) \/ (AdminTurn(h) /\ Reads(h))
    BY <1>3
  <2>2. A!Idle.row.key = NoKey
    BY SameSets DEF NoRow
  <2>3. \A g \in Handlers : Available(op'[g].row.key)
    <3>1. CASE HandlerStep(h)
      <4>1. /\ \A g \in Handlers \ {h} : op'[g] = op[g]
            /\ op'[h] = A!Idle \/ op'[h].row = op[h].row
        BY <3>1, HandlerMoves DEF HandlerStep
      <4> QED
        BY <2>2, <4>1, CopiesAvailable DEF Available
    <3>2. CASE AdminTurn(h) /\ Reads(h)
      <4>1. /\ \A g \in Handlers \ {h} : op'[g].row = op[g].row
            /\ op'[h].id \in Tenants
            /\ op'[h].row.key \in {tenants[op'[h].id].key, NoKey}
        BY <3>2 DEF AdminTurn, Reads
      <4> QED
        BY <4>1, CopiesAvailable DEF Available
    <3> QED
      BY <2>1, <3>1, <3>2
  <2> QED
    BY <1>1, <1>3, <2>3, CopiesAvailable DEF provisioningVars, healthVars
<1>4. CASE UNCHANGED <<provisioningVars, adminVars>> /\ HealthTurn
  <2>1. \A t \in Tenants : Available(copy'[t].key)
    BY <1>4, CopiesAvailable DEF HealthTurn, Available
  <2> QED
    BY <1>1, <1>4, <2>1, CopiesAvailable DEF provisioningVars, adminVars
<1>5. CASE UNCHANGED <<storageVars, provisioningVars, adminVars, healthVars>>
  BY <1>5, CopiesAvailable
     DEF storageVars, provisioningVars, adminVars, healthVars
<1> QED
  BY <1>2, <1>3, <1>4, <1>5 DEF WriterStep

(* Once the last copy of a replaced key is gone, the key is invalid for    *)
(* good: the writers store keys that somebody has, or new ones.            *)
THEOREM OldKeysStayDead == Spec => OldKeyInvalid
<1>1. SInv /\ [Next]_vars => [\A k \in Keys : Dead(k) => Dead(k)']_vars
  <2> SUFFICES ASSUME SInv, [Next]_vars, NEW k \in Keys, Dead(k)
               PROVE  keyOwner'[k] # NoTenant /\ ~Held(k)'
    BY DEF Dead
  <2>1. keyOwner[k] # NoTenant /\ ~Held(k) /\ k # NoKey
    BY StorageAssumption DEF Dead
  <2>2. ~Available(k)
    BY <2>1 DEF Available
  <2>3. ~Held(k)'
    BY <2>2, StepAvailable, WhoSteps DEF Held, P!Actors, Actors
  <2>4. keyOwner[k] \in Tenants
    BY <2>1, Known DEF StorageTypeOK
  <2>5. keyOwner'[k] # NoTenant
    <3>1. TableKeeps
      BY Steps DEF AdminTurn, HealthTurn
    <3> QED
      BY <2>4, <3>1, StorageAssumption DEF TableKeeps
  <2> QED
    BY <2>3, <2>5
<1> QED
  BY <1>1, InductiveSInv, PTL DEF Spec, OldKeyInvalid

----------------------------------------------------------------------------
(* The mark of a DELETE: it is stored when the instance is about to go, and *)
(* while the handler has the tenant to itself nobody else writes the row.   *)
MarkInv ==
    /\ \A h \in Handlers : op[h].step # "idle" => Stored(op[h].id)
    /\ \A h \in Handlers : op[h].step = "mark" => op[h].row.status = "deleting"
    /\ \A h \in alone : op[h].step # "idle" /\ ~Shared(h)
    /\ DestroyedWhileMarked

LEMMA OperationChanges ==
  ASSUME SInv, WriterStep, NEW h \in Handlers, op'[h].step # "idle"
  PROVE  \/ /\ op[h].step # "idle"
            /\ op'[h].id = op[h].id /\ op'[h].row = op[h].row
            /\ op'[h].step = "mark" => op[h].step = "mark"
            /\ op'[h].step = "destroy" =>
                 \/ op[h].step = "destroy"
                 \/ op[h].step = "mark" /\ tenants'[op[h].id] = op[h].row
         \/ Reads(h)
<1>1. CASE UNCHANGED adminVars
  BY <1>1 DEF adminVars
<1>2. CASE \E g \in Handlers : HandlerStep(g) \/ (AdminTurn(g) /\ Reads(g))
  <2>1. PICK g \in Handlers : HandlerStep(g) \/ (AdminTurn(g) /\ Reads(g))
    BY <1>2
  <2>2. CASE HandlerStep(g)
    <3>1. A!Idle.step = "idle"
      BY SameSets
    <3> QED
      BY <2>2, <3>1, HandlerMoves DEF HandlerStep
  <2>3. CASE AdminTurn(g) /\ Reads(g)
    BY <2>3 DEF AdminTurn
  <2> QED
    BY <2>1, <2>2, <2>3
<1> QED
  BY <1>1, <1>2 DEF WriterStep

LEMMA WatchedSteps ==
  ASSUME SInv, MarkInv, [Next]_vars, NEW h \in alone'
  PROVE  /\ h \in Handlers /\ op'[h].step # "idle" /\ ~Shared(h)'
         /\ op[h].step = "idle" \/ h \in alone
<1>1. CASE Watch
  BY <1>1 DEF Watch
<1>2. CASE UNCHANGED vars
  <2>1. /\ UNCHANGED provisioningVars /\ UNCHANGED adminVars
        /\ UNCHANGED healthVars /\ alone' = alone
    BY <1>2 DEF vars
  <2>2. Shared(h)' <=> Shared(h)
    BY <2>1 DEF Shared, provisioningVars, adminVars, healthVars, P!Actors
  <2> QED
    BY <2>1, <2>2 DEF SInv, MarkInv, adminVars
<1> QED
  BY <1>1, <1>2 DEF Next, WorkerStep, CreateStep, AdminStep, LoopStep, CheckStep

(* Nobody else writes the row of a DELETE that has its tenant to itself.   *)
LEMMA MarkStays ==
  ASSUME SInv, MarkInv, WriterStep, NEW h \in alone,
         op[h].step = "destroy", op'[h].step = "destroy"
  PROVE  tenants'[op[h].id] = tenants[op[h].id]
<1>1. /\ h \in Handlers /\ ~Shared(h) /\ Stored(op[h].id)
  BY DEF SInv, MarkInv
<1>2. PICK u \in Tenants : u = op[h].id
  BY <1>1 DEF SInv, AdminInv
<1>3. /\ Stored(u) /\ check[u] = "none"
      /\ \A a \in Actors : ptr[a].id # u
      /\ \A g \in Handlers \ {h} : op[g].id # u
  BY <1>1, <1>2 DEF Shared, P!Actors, Actors
<1>4. CASE UNCHANGED storageVars
  BY <1>4 DEF storageVars
<1>5. CASE \E t \in Tenants : Inserts(t)
  BY <1>2, <1>3, <1>5, InsertIsWritten
<1>6. CASE \E a \in Actors : ptr[a].id \in Tenants /\ Writes(ptr[a].id)
  <2>1. PICK a \in Actors : ptr[a].id \in Tenants /\ Writes(ptr[a].id)
    BY <1>6
  <2> QED
    BY <1>2, <1>3, <2>1, WritesAreWritten
<1>7. CASE \E t \in Tenants : check[t] # "none" /\ Writes(t)
  BY <1>2, <1>3, <1>7, WritesAreWritten
<1>8. CASE \E g \in Handlers : /\ op[g].id \in Tenants /\ Writes(op[g].id)
                               /\ HandlerStep(g)
  <2>1. PICK g \in Handlers : /\ op[g].id \in Tenants /\ Writes(op[g].id)
                              /\ HandlerStep(g)
    BY <1>8
  <2>2. CASE g # h
    BY <1>2, <1>3, <2>1, <2>2, WritesAreWritten
  <2>3. CASE g = h
    <3>1. A!Idle.step = "idle"
      BY SameSets
    <3>2. UNCHANGED storageVars
      BY <2>1, <2>3, <3>1, HandlerMoves DEF HandlerStep
    <3> QED
      BY <3>2 DEF storageVars
  <2> QED
    BY <2>2, <2>3
<1> QED
  BY <1>4, <1>5, <1>6, <1>7, <1>8, StepWrites

LEMMA MarkStep ==
  ASSUME SInv, MarkInv, [Next]_vars
  PROVE  MarkInv'
<1>0. WriterStep /\ TableKeeps
  BY WhoSteps, Steps DEF AdminTurn, HealthTurn
<1>1. \A h \in Handlers : op'[h].step # "idle"
                            => tenants'[op'[h].id].status # "none"
  <2> SUFFICES ASSUME NEW h \in Handlers, op'[h].step # "idle"
               PROVE  tenants'[op'[h].id].status # "none"
    OBVIOUS
  <2>1. CASE op[h].step # "idle" /\ op'[h].id = op[h].id
    <3>1. PICK u \in Tenants : u = op[h].id /\ Stored(u)
      BY <2>1 DEF SInv, AdminInv, MarkInv
    <3> QED
      BY <1>0, <2>1, <3>1 DEF TableKeeps, Stored
  <2>2. CASE Reads(h)
    BY <2>2 DEF Reads, Stored
  <2> QED
    BY <1>0, <2>1, <2>2, OperationChanges
<1>2. \A h \in Handlers : op'[h].step = "mark" => op'[h].row.status = "deleting"
  <2> SUFFICES ASSUME NEW h \in Handlers, op'[h].step = "mark"
               PROVE  op'[h].row.status = "deleting"
    OBVIOUS
  <2> QED
    BY <1>0, OperationChanges DEF MarkInv, Reads
<1>3. \A h \in alone' : op'[h].step # "idle" /\ ~Shared(h)'
  BY WatchedSteps
<1>4. \A h \in alone' : op'[h].step = "destroy"
                          => tenants'[op'[h].id].status = "deleting"
  <2> SUFFICES ASSUME NEW h \in alone', op'[h].step = "destroy"
               PROVE  tenants'[op'[h].id].status = "deleting"
    OBVIOUS
  <2>1. h \in Handlers /\ (op[h].step = "idle" \/ h \in alone)
    BY WatchedSteps
  <2>2. /\ op'[h].id = op[h].id
        /\ \/ op[h].step = "destroy"
           \/ op[h].step = "mark" /\ tenants'[op[h].id] = op[h].row
    BY <1>0, <2>1, OperationChanges DEF Reads
  <2>3. CASE op[h].step = "destroy"
    BY <1>0, <2>1, <2>2, <2>3, MarkStays DEF MarkInv, DestroyedWhileMarked
  <2>4. CASE op[h].step = "mark" /\ tenants'[op[h].id] = op[h].row
    BY <2>1, <2>2, <2>4 DEF MarkInv
  <2> QED
    BY <2>2, <2>3, <2>4
<1> QED
  BY <1>1, <1>2, <1>3, <1>4 DEF MarkInv, DestroyedWhileMarked, Stored

(* A DELETE that nobody disturbs takes the instance away from a row that   *)
(* says "deleting": it starts on a stored mark, and to overwrite the mark  *)
(* the worker, the health check or another handler has to be at work on    *)
(* the tenant in between.                                                  *)
THEOREM DestroyedUnderMark == Spec => []DestroyedWhileMarked
<1>1. Init => MarkInv
  <2> SUFFICES ASSUME Init PROVE MarkInv
    OBVIOUS
  <2>1. \A h \in Handlers : op[h].step = "idle"
    BY SameSets DEF Init
  <2> QED
    BY <2>1 DEF Init, MarkInv, DestroyedWhileMarked
<1>2. SInv /\ MarkInv /\ [Next]_vars => MarkInv'
  BY MarkStep
<1>3. MarkInv => DestroyedWhileMarked
  BY DEF MarkInv
<1> QED
  BY <1>1, <1>2, <1>3, InductiveSInv, PTL DEF Spec
=============================================================================
