------------------------ MODULE ProvisioningProofs -------------------------
(***************************************************************************)
(* Proofs about Provisioning, for any numbers of tenants, keys, addresses  *)
(* and requests, any queue capacity and any mix of faults.                 *)
(*                                                                         *)
(* The inductive invariant adds to the types and the two safety properties *)
(* what the code relies on without saying it: a pointer in flight names a  *)
(* row that was inserted (so an id drawn afresh is in nobody's hands), and *)
(* the copy that updateTenantStatus writes back carries its own tenant's   *)
(* key.                                                                    *)
(***************************************************************************)
EXTENDS Provisioning, SequenceTheorems, TLAPS

(* Steps at which an actor holds the pointer of a tenant. *)
Holding == {"enqueue", "rollback", "mark", "markWrite", "failRead",
            "failWrite"} \cup DeploySteps

(* A pointer names an inserted row and carries a real status. *)
GoodPointer(p) ==
    /\ p.id \in Tenants
    /\ Stored(p.id)
    /\ p.row.status # "none"

PointersAreStored ==
    /\ \A a \in Actors : pc[a] \in Holding => ptr[a].id # NoTenant
    /\ \A a \in Actors : ptr[a].id # NoTenant => GoodPointer(ptr[a])
    /\ \A i \in 1 .. Len(queue) : GoodPointer(queue[i])
    /\ pc[Worker] \in {"markWrite", "failWrite"} => seen.status # "none"

SeenIsOwn ==
    pc[Worker] \in {"markWrite", "failWrite"}
    => OwnKey(ptr[Worker].id, seen.key)

IInv == /\ TypeOK
        /\ PointersAreStored
        /\ ExclusiveOwnership
        /\ KeyOwnership
        /\ SeenIsOwn

----------------------------------------------------------------------------
(* What the storage and the cloud operations do to a typed state. *)

(* A key nobody was given before is in no row: the UNIQUE constraint never *)
(* refuses an insert.                                                      *)
LEMMA InsertedIs ==
    ASSUME StorageTypeOK, KeyOwnership, NEW t \in Tenants,
           NEW row, row.key \in Keys, NEW out, InsertTenant(t, row, out)
    PROVE  /\ ~Stored(t) /\ keyOwner[row.key] = NoTenant
           /\ IF out = "err"
              THEN tenants' = tenants /\ keyOwner' = keyOwner
              ELSE /\ tenants' = [tenants EXCEPT ![t] = row]
                   /\ keyOwner' = [keyOwner EXCEPT ![row.key] = t]
           /\ InsertFails(t, row, out) <=> out # "ok"
<1>1. ~Stored(t) /\ keyOwner[row.key] = NoTenant
  BY DEF InsertTenant, FreshID, FreshKey
<1>2. \A u \in Tenants : tenants[u].key # row.key
  BY <1>1, StorageAssumption DEF KeyOwnership, OwnKey
<1>3. ~InsertRejected(t, row)
  BY <1>1, <1>2 DEF InsertRejected, KeyTaken
<1> QED
  BY <1>1, <1>3 DEF InsertTenant, InsertFails, storageVars

LEMMA InsertEffect ==
    ASSUME StorageTypeOK, KeyOwnership, NEW t \in Tenants, NEW row \in Row,
           NEW out, row.key \in Keys, row.status # "none",
           InsertTenant(t, row, out)
    PROVE  /\ StorageTypeOK'
           /\ ~Stored(t)
           /\ \A u \in Tenants : Stored(u) => tenants'[u] = tenants[u]
           /\ \A u \in Tenants : \/ tenants'[u] = tenants[u]
                                 \/ u = t /\ tenants'[u] = row
                                          /\ keyOwner'[row.key] = t
           /\ \A u \in Tenants, k \in Keys \cup {NoKey} :
                  OwnKey(u, k) => OwnKey(u, k)'
           /\ out # "err" => Stored(t)' /\ keyOwner'[row.key] = t
  BY InsertedIs, StorageAssumption
     DEF StorageTypeOK, Stored, OwnKey, storageVars, Row

LEMMA UpdateEffect ==
    ASSUME StorageTypeOK, NEW t \in Tenants, NEW row \in Row, NEW out,
           row.status # "none", UpdateTenant(t, row, out)
    PROVE  /\ StorageTypeOK'
           /\ keyOwner' = keyOwner
           /\ \A u \in Tenants : Stored(u) <=> Stored(u)'
           /\ \A u \in Tenants : \/ tenants'[u] = tenants[u]
                                 \/ u = t /\ tenants'[u] = row
  BY DEF StorageTypeOK, UpdateTenant, UpdateRejected, Stored, Row

LEMMA DeleteEffect ==
    ASSUME StorageTypeOK, NEW t \in Tenants, NEW out, DeleteTenant(t, out)
    PROVE  /\ StorageTypeOK'
           /\ keyOwner' = keyOwner
           /\ \A u \in Tenants : Stored(u) <=> Stored(u)'
           /\ \A u \in Tenants : tenants'[u].key = tenants[u].key
  BY DEF StorageTypeOK, DeleteTenant, Stored, Row, Statuses

LEMMA CreateEffect ==
    ASSUME DeployerTypeOK, NEW t \in Tenants, NEW k \in Keys \cup {NoKey},
           NEW out, CreateInstance(t, k, out)
    PROVE  /\ DeployerTypeOK'
           /\ \A u \in Tenants : \/ vm'[u] = vm[u]
                                 \/ u = t /\ vm'[u].key = k
  BY DEF DeployerTypeOK, CreateInstance, Instance, FreeHosts

LEMMA DeleteServicesEffect ==
    ASSUME DeployerTypeOK, NEW t \in Tenants, NEW out, DeleteServices(t, out)
    PROVE  /\ DeployerTypeOK'
           /\ \A u \in Tenants : vm'[u] = vm[u] \/ vm'[u].key = NoKey
  BY DEF DeployerTypeOK, DeleteServices, Instance, NoVM
----------------------------------------------------------------------------
(* Facts about typed states used at every step. *)

LEMMA NewRowType ==
    ASSUME NEW k \in Keys, NEW s \in {"provisioning", ""}
    PROVE  /\ NewRow(s, k) \in Row
           /\ NewRow(s, k).key = k
           /\ NewRow(s, k).status # "none"
  BY DEF NewRow, Row, Statuses

LEMMA HeldPointer ==
    ASSUME TypeOK, PointersAreStored, NEW a \in Actors, pc[a] \in Holding
    PROVE  /\ ptr[a] \in Pointer
           /\ ptr[a].id \in Tenants
           /\ ptr[a].row \in Row
           /\ ptr[a].row.key \in Keys \cup {NoKey}
           /\ ptr[a].row.status # "none"
           /\ Stored(ptr[a].id)
  BY DEF TypeOK, PointersAreStored, GoodPointer, Pointer, Row

LEMMA NobodyType == Nobody \in Pointer /\ Nobody.id = NoTenant /\ NoRow \in Row
  BY DEF Nobody, Pointer, NoRow, Row

(* The two inserts of a request fail when the statement does. *)
LEMMA CreatedIs ==
  ASSUME IInv, NEW r \in Requests
  PROVE  /\ CreateTenantAsync(r) =>
              \E t \in Tenants, k \in Keys, out \in Under(r, StorageOutcomes) :
                /\ InsertTenant(t, NewRow("provisioning", k), out)
                /\ Goto(r, IF out = "ok" THEN "enqueue" ELSE "failed")
                /\ ptr' = IF out = "ok"
                          THEN [ptr EXCEPT ![r] =
                                  [id |-> t, row |-> NewRow("provisioning", k)]]
                          ELSE ptr
         /\ CreateTenantWithProvisioning(r) =>
              \E t \in Tenants, k \in Keys, out \in Under(r, StorageOutcomes) :
                /\ InsertTenant(t, NewRow("", k), out)
                /\ Goto(r, IF out = "ok" THEN "deploy" ELSE "failed")
                /\ ptr' = IF out = "ok"
                          THEN [ptr EXCEPT ![r] =
                                  [id |-> t, row |-> NewRow("", k)]]
                          ELSE ptr
<1>1. StorageTypeOK /\ KeyOwnership
  BY DEF IInv, TypeOK
<1>2. ASSUME NEW t \in Tenants, NEW k \in Keys, NEW out,
             NEW s \in {"provisioning", ""}, InsertTenant(t, NewRow(s, k), out)
      PROVE  InsertFails(t, NewRow(s, k), out) <=> out # "ok"
  BY <1>1, <1>2, NewRowType, InsertedIs
<1>3. CreateTenantAsync(r) =>
        \E t \in Tenants, k \in Keys, out \in Under(r, StorageOutcomes) :
          /\ InsertTenant(t, NewRow("provisioning", k), out)
          /\ Goto(r, IF out = "ok" THEN "enqueue" ELSE "failed")
          /\ ptr' = IF out = "ok"
                    THEN [ptr EXCEPT ![r] =
                            [id |-> t, row |-> NewRow("provisioning", k)]]
                    ELSE ptr
  <2> SUFFICES ASSUME CreateTenantAsync(r) PROVE
        \E t \in Tenants, k \in Keys, out \in Under(r, StorageOutcomes) :
          /\ InsertTenant(t, NewRow("provisioning", k), out)
          /\ Goto(r, IF out = "ok" THEN "enqueue" ELSE "failed")
          /\ ptr' = IF out = "ok"
                    THEN [ptr EXCEPT ![r] =
                            [id |-> t, row |-> NewRow("provisioning", k)]]
                    ELSE ptr
    OBVIOUS
  <2>1. PICK t \in Tenants, k \in Keys, out \in Under(r, StorageOutcomes) :
          LET row == NewRow("provisioning", k) IN
          /\ InsertTenant(t, row, out)
          /\ Goto(r, IF InsertFails(t, row, out) THEN "failed" ELSE "enqueue")
          /\ ptr' = IF InsertFails(t, row, out)
                    THEN ptr
                    ELSE [ptr EXCEPT ![r] = [id |-> t, row |-> row]]
    BY DEF CreateTenantAsync
  <2>2. InsertFails(t, NewRow("provisioning", k), out) <=> out # "ok"
    BY <1>2, <2>1
  <2> QED
    BY <2>1, <2>2
<1>4. CreateTenantWithProvisioning(r) =>
        \E t \in Tenants, k \in Keys, out \in Under(r, StorageOutcomes) :
          /\ InsertTenant(t, NewRow("", k), out)
          /\ Goto(r, IF out = "ok" THEN "deploy" ELSE "failed")
          /\ ptr' = IF out = "ok"
                    THEN [ptr EXCEPT ![r] = [id |-> t, row |-> NewRow("", k)]]
                    ELSE ptr
  <2> SUFFICES ASSUME CreateTenantWithProvisioning(r) PROVE
        \E t \in Tenants, k \in Keys, out \in Under(r, StorageOutcomes) :
          /\ InsertTenant(t, NewRow("", k), out)
          /\ Goto(r, IF out = "ok" THEN "deploy" ELSE "failed")
          /\ ptr' = IF out = "ok"
                    THEN [ptr EXCEPT ![r] = [id |-> t, row |-> NewRow("", k)]]
                    ELSE ptr
    OBVIOUS
  <2>1. PICK t \in Tenants, k \in Keys, out \in Under(r, StorageOutcomes) :
          LET row == NewRow("", k) IN
          /\ InsertTenant(t, row, out)
          /\ Goto(r, IF InsertFails(t, row, out) THEN "failed" ELSE "deploy")
          /\ ptr' = IF InsertFails(t, row, out)
                    THEN ptr
                    ELSE [ptr EXCEPT ![r] = [id |-> t, row |-> row]]
    BY DEF CreateTenantWithProvisioning
  <2>2. InsertFails(t, NewRow("", k), out) <=> out # "ok"
    BY <1>2, <2>1
  <2> QED
    BY <2>1, <2>2
<1> QED
  BY <1>3, <1>4

LEMMA TypeStep == IInv /\ [Next]_vars => TypeOK'
<1> SUFFICES ASSUME IInv, [Next]_vars PROVE TypeOK'
  OBVIOUS
<1> USE ProvisioningAssumption, StorageAssumption
<1> USE DEF Actors
<1>0. TypeOK /\ PointersAreStored
  BY DEF IInv
<1>1. ASSUME NEW r \in Requests, CreateTenantAsync(r) PROVE TypeOK'
  <2>1. PICK t \in Tenants, k \in Keys, out \in Under(r, StorageOutcomes) :
          /\ InsertTenant(t, NewRow("provisioning", k), out)
          /\ Goto(r, IF out = "ok" THEN "enqueue" ELSE "failed")
          /\ ptr' = IF out = "ok"
                    THEN [ptr EXCEPT ![r] =
                            [id |-> t, row |-> NewRow("provisioning", k)]]
                    ELSE ptr
    BY <1>1, CreatedIs
  <2>2. StorageTypeOK'
    BY <1>0, <2>1, NewRowType, InsertEffect DEF TypeOK, IInv
  <2>3. ptr' \in [Actors -> Pointer]
    BY <1>0, <2>1, NewRowType DEF TypeOK, Pointer
  <2>4. QED
    BY <1>0, <1>1, <2>1, <2>2, <2>3
       DEF CreateTenantAsync, TypeOK, DeployerTypeOK, Goto, RequestSteps, AnsweredAt
<1>2. ASSUME NEW r \in Requests, Enqueue(r) PROVE TypeOK'
  <2>1. ptr' \in [Actors -> Pointer]
    BY <1>0, <1>2, NobodyType DEF Enqueue, TypeOK
  <2>2. queue' \in Seq(Pointer) /\ Len(queue') <= QueueCap
    <3>1. ptr[r] \in Pointer /\ queue \in Seq(Pointer) /\ Len(queue) <= QueueCap
      BY <1>0 DEF TypeOK
    <3>2. CASE queue' = queue
      BY <3>1, <3>2
    <3>3. CASE Len(queue) < QueueCap /\ queue' = Append(queue, ptr[r])
      BY <3>1, <3>3
    <3>4. QED
      BY <1>2, <3>2, <3>3 DEF Enqueue, HasRoom
  <2>3. orphan' \in [Requests -> Tenants \cup {NoTenant}]
    BY <1>0, <1>2 DEF Enqueue, TypeOK, Pointer
  <2>4. QED
    BY <1>0, <1>2, <2>1, <2>2, <2>3
       DEF Enqueue, TypeOK, StorageTypeOK, storageVars, DeployerTypeOK, Goto,
           RequestSteps, AnsweredAt
<1>3. ASSUME NEW r \in Requests, CreateTenantWithProvisioning(r) PROVE TypeOK'
  <2>1. PICK t \in Tenants, k \in Keys, out \in Under(r, StorageOutcomes) :
          /\ InsertTenant(t, NewRow("", k), out)
          /\ Goto(r, IF out = "ok" THEN "deploy" ELSE "failed")
          /\ ptr' = IF out = "ok"
                    THEN [ptr EXCEPT ![r] = [id |-> t, row |-> NewRow("", k)]]
                    ELSE ptr
    BY <1>3, CreatedIs
  <2>2. StorageTypeOK'
    BY <1>0, <2>1, NewRowType, InsertEffect DEF TypeOK, IInv
  <2>3. ptr' \in [Actors -> Pointer]
    BY <1>0, <2>1, NewRowType DEF TypeOK, Pointer
  <2>4. QED
    BY <1>0, <1>3, <2>1, <2>2, <2>3
       DEF CreateTenantWithProvisioning, TypeOK, DeployerTypeOK, Goto,
           RequestSteps, AnsweredAt, DeploySteps
<1>4. ASSUME NEW r \in Requests, Cancel(r) PROVE TypeOK'
  BY <1>0, <1>4 DEF Cancel, TypeOK, StorageTypeOK, storageVars, DeployerTypeOK
<1>5. CASE Take
  <2>1. Head(queue) \in Pointer /\ Tail(queue) \in Seq(Pointer)
        /\ Len(Tail(queue)) <= QueueCap
    BY <1>0, <1>5 DEF Take, TypeOK
  <2>2. QED
    BY <1>0, <1>5, <2>1
       DEF Take, TypeOK, StorageTypeOK, storageVars, DeployerTypeOK, Goto,
           WorkerSteps
<1>6. CASE MarkRead
  <2>1. ptr[Worker].id \in Tenants
    BY <1>0, <1>6, HeldPointer DEF MarkRead, ReadForStatus, Holding
  <2>2. QED
    BY <1>0, <1>6, <2>1
       DEF MarkRead, ReadForStatus, TypeOK, StorageTypeOK, storageVars,
           DeployerTypeOK, Goto, WorkerSteps, DeploySteps
<1>7. CASE MarkWrite
  <2>1. ptr[Worker].id \in Tenants /\ seen \in Row /\ seen.status # "none"
    BY <1>0, <1>7, HeldPointer DEF MarkWrite, Holding, TypeOK, PointersAreStored
  <2>2. StorageTypeOK'
    BY <1>0, <1>7, <2>1, UpdateEffect DEF MarkWrite, TypeOK
  <2>3. QED
    BY <1>0, <1>7, <2>2, NobodyType
       DEF MarkWrite, TypeOK, DeployerTypeOK, Goto, WorkerSteps, DeploySteps
<1>8. CASE FailRead
  <2>1. ptr[Worker].id \in Tenants
    BY <1>0, <1>8, HeldPointer DEF FailRead, ReadForStatus, Holding
  <2>2. QED
    BY <1>0, <1>8, <2>1, NobodyType
       DEF FailRead, ReadForStatus, TypeOK, StorageTypeOK, storageVars,
           DeployerTypeOK, Goto, Finish, WorkerSteps, DeploySteps
<1>9. CASE FailWrite
  <2>1. ptr[Worker].id \in Tenants
    BY <1>0, <1>9, HeldPointer DEF FailWrite, Holding
  <2>2. FailedRow \in Row
    BY <1>0 DEF TypeOK, FailedRow, Row, Statuses
  <2>3. StorageTypeOK'
    BY <1>0, <1>9, <2>1, <2>2, UpdateEffect
       DEF FailWrite, FailedRow, TypeOK, Row
  <2>4. QED
    BY <1>0, <1>9, <2>3, NobodyType
       DEF FailWrite, TypeOK, DeployerTypeOK, Goto, Finish, WorkerSteps
<1>10. ASSUME NEW a \in Actors, Deploy(a) PROVE TypeOK'
  <2>1. DeployerTypeOK'
    BY <1>0, <1>10, HeldPointer, CreateEffect DEF Deploy, Holding, DeploySteps, TypeOK
  <2>2. QED
    BY <1>0, <1>10, <2>1
       DEF Deploy, TypeOK, StorageTypeOK, storageVars, Goto, DeploySteps
<1>11. ASSUME NEW a \in Actors, GetAddress(a) PROVE TypeOK'
  <2>1. ptr[a] \in Pointer /\ ptr[a].id \in Tenants /\ ptr[a].row \in Row
    BY <1>0, <1>11, HeldPointer DEF GetAddress, Holding, DeploySteps
  <2>2. Address(ptr[a].id) \in Hosts \cup {NoHost}
    BY <1>0, <2>1 DEF TypeOK, DeployerTypeOK, Address, Instance
  <2>3. [ptr EXCEPT ![a].row.key = NoKey] \in [Actors -> Pointer]
    BY <1>0, <2>1 DEF TypeOK, Pointer, Row
  <2>4. QED
    BY <1>0, <1>11, <2>2, <2>3
       DEF GetAddress, TypeOK, StorageTypeOK, storageVars, DeployerTypeOK,
           Goto, DeploySteps
<1>12. ASSUME NEW a \in Actors, ServicesReady(a) \/ ServicesTimeout(a)
       PROVE  TypeOK'
  BY <1>0, <1>12
     DEF ServicesReady, ServicesTimeout, TypeOK, StorageTypeOK, storageVars,
         DeployerTypeOK, Goto, DeploySteps
<1>13. ASSUME NEW a \in Actors, Cleanup(a) PROVE TypeOK'
  <2>1. DeployerTypeOK'
    BY <1>0, <1>13, HeldPointer, DeleteServicesEffect
       DEF Cleanup, Holding, DeploySteps, TypeOK
  <2>2. QED
    BY <1>0, <1>13, <2>1
       DEF Cleanup, TypeOK, StorageTypeOK, storageVars, Goto, DeploySteps,
           WorkerSteps, RequestSteps
<1>14. CASE SaveReady
  <2>1. ptr[Worker].id \in Tenants /\ ReadyRow \in Row
        /\ ReadyRow.status # "none"
    BY <1>0, <1>14, HeldPointer
       DEF SaveReady, Holding, DeploySteps, ReadyRow, TypeOK, Row, Statuses
  <2>2. StorageTypeOK'
    BY <1>0, <1>14, <2>1, UpdateEffect DEF SaveReady, TypeOK
  <2>3. QED
    BY <1>0, <1>14, <2>2, NobodyType
       DEF SaveReady, TypeOK, DeployerTypeOK, Goto, Finish, WorkerSteps
<1>15. ASSUME NEW r \in Requests, SaveCreated(r) PROVE TypeOK'
  <2>1. ptr[r].id \in Tenants /\ CreatedRow(r) \in Row
        /\ CreatedRow(r).status # "none"
    BY <1>0, <1>15, HeldPointer
       DEF SaveCreated, Holding, DeploySteps, CreatedRow, TypeOK, Row
  <2>2. StorageTypeOK'
    BY <1>0, <1>15, <2>1, UpdateEffect DEF SaveCreated, TypeOK
  <2>3. QED
    BY <1>0, <1>15, <2>2, NobodyType
       DEF SaveCreated, TypeOK, DeployerTypeOK, Goto, Finish, AnsweredAt
<1>16. ASSUME NEW r \in Requests, Rollback(r) PROVE TypeOK'
  <2>1. StorageTypeOK'
    BY <1>0, <1>16, HeldPointer, DeleteEffect DEF Rollback, Holding, TypeOK
  <2>2. QED
    BY <1>0, <1>16, <2>1, NobodyType
       DEF Rollback, TypeOK, DeployerTypeOK, Goto, Finish, AnsweredAt
<1>17. CASE Crash
  BY <1>0, <1>17, NobodyType
     DEF Crash, TypeOK, StorageTypeOK, storageVars, DeployerTypeOK,
         WorkerSteps, AnsweredAt, RequestSteps
<1>18. CASE UNCHANGED vars
  BY <1>0, <1>18
     DEF vars, provisioningVars, storageVars, TypeOK, StorageTypeOK,
         DeployerTypeOK
<1>19. QED
  BY <1>1, <1>2, <1>3, <1>4, <1>5, <1>6, <1>7, <1>8, <1>9, <1>10, <1>11,
     <1>12, <1>13, <1>14, <1>15, <1>16, <1>17, <1>18
     DEF Next, WorkerProgress, HandlerProgress

----------------------------------------------------------------------------
(* No step takes a row away, and no step gives a key to a second tenant. *)

LEMMA StorageStep ==
    IInv /\ [Next]_vars
    => /\ \A u \in Tenants : Stored(u) => Stored(u)'
       /\ \A u \in Tenants, k \in Keys \cup {NoKey} :
             OwnKey(u, k) => OwnKey(u, k)'
<1> DEFINE Keeps ==
      /\ \A u \in Tenants : Stored(u) => Stored(u)'
      /\ \A u \in Tenants, k \in Keys \cup {NoKey} :
            OwnKey(u, k) => OwnKey(u, k)'
<1> SUFFICES ASSUME IInv, [Next]_vars PROVE Keeps
  OBVIOUS
<1>0. TypeOK /\ PointersAreStored /\ StorageTypeOK
  BY DEF IInv, TypeOK
<1>1. ASSUME UNCHANGED storageVars PROVE Keeps
  BY <1>1 DEF storageVars, Stored, OwnKey
<1>2. ASSUME NEW t \in Tenants, NEW k \in Keys, NEW out,
             NEW s \in {"provisioning", ""}, InsertTenant(t, NewRow(s, k), out)
      PROVE  Keeps
  <2>1. /\ \A u \in Tenants : Stored(u) => tenants'[u] = tenants[u]
        /\ \A u \in Tenants, l \in Keys \cup {NoKey} :
              OwnKey(u, l) => OwnKey(u, l)'
    BY <1>0, <1>2, NewRowType, InsertEffect DEF IInv
  <2>2. QED
    BY <2>1 DEF Stored
<1>3. ASSUME NEW t \in Tenants, NEW row \in Row, NEW out,
             row.status # "none", UpdateTenant(t, row, out)
      PROVE  Keeps
  BY <1>0, <1>3, UpdateEffect DEF OwnKey
<1>4. ASSUME NEW t \in Tenants, NEW out, DeleteTenant(t, out) PROVE Keeps
  BY <1>0, <1>4, DeleteEffect DEF OwnKey
<1>5. ASSUME NEW r \in Requests, CreateTenantAsync(r) PROVE Keeps
  BY <1>2, <1>5 DEF CreateTenantAsync
<1>6. ASSUME NEW r \in Requests, CreateTenantWithProvisioning(r) PROVE Keeps
  BY <1>2, <1>6 DEF CreateTenantWithProvisioning
<1>7. CASE MarkWrite
  <2>1. ptr[Worker].id \in Tenants /\ seen \in Row /\ seen.status # "none"
    BY <1>0, <1>7, HeldPointer
       DEF MarkWrite, Holding, TypeOK, PointersAreStored, Actors
  <2>2. QED
    BY <1>3, <1>7, <2>1 DEF MarkWrite
<1>8. CASE FailWrite
  <2>1. ptr[Worker].id \in Tenants
    BY <1>0, <1>8, HeldPointer DEF FailWrite, Holding, Actors
  <2>2. FailedRow \in Row /\ FailedRow.status # "none"
    BY <1>0 DEF TypeOK, FailedRow, Row, Statuses
  <2>3. QED
    BY <1>3, <1>8, <2>1, <2>2 DEF FailWrite
<1>9. CASE SaveReady
  <2>1. ptr[Worker].id \in Tenants /\ ReadyRow \in Row
        /\ ReadyRow.status # "none"
    BY <1>0, <1>9, HeldPointer
       DEF SaveReady, Holding, DeploySteps, ReadyRow, TypeOK, Row, Statuses,
           Actors
  <2>2. QED
    BY <1>3, <1>9, <2>1 DEF SaveReady
<1>10. ASSUME NEW r \in Requests, SaveCreated(r) PROVE Keeps
  <2>1. ptr[r].id \in Tenants /\ CreatedRow(r) \in Row
        /\ CreatedRow(r).status # "none"
    BY <1>0, <1>10, HeldPointer
       DEF SaveCreated, Holding, DeploySteps, CreatedRow, TypeOK, Row, Actors
  <2>2. QED
    BY <1>3, <1>10, <2>1 DEF SaveCreated
<1>11. ASSUME NEW r \in Requests, Rollback(r) PROVE Keeps
  BY <1>0, <1>4, <1>11, HeldPointer DEF Rollback, Holding, Actors
<1>12. ASSUME \/ \E r \in Requests : Enqueue(r) \/ Cancel(r)
              \/ Take \/ MarkRead \/ FailRead \/ Crash
              \/ \E a \in Actors : \/ Deploy(a) \/ GetAddress(a) \/ Cleanup(a)
                                   \/ ServicesReady(a) \/ ServicesTimeout(a)
              \/ UNCHANGED vars
       PROVE  UNCHANGED storageVars
  BY <1>12 DEF Enqueue, Cancel, Take, MarkRead, FailRead, ReadForStatus, Crash,
               Deploy, GetAddress, Cleanup, ServicesReady, ServicesTimeout, vars
<1>13. QED
  BY <1>1, <1>5, <1>6, <1>7, <1>8, <1>9, <1>10, <1>11, <1>12
     DEF Next, WorkerProgress, HandlerProgress, Actors

----------------------------------------------------------------------------
(* Pointers in flight keep naming inserted rows. *)

LEMMA PointerStep == IInv /\ [Next]_vars => PointersAreStored'
<1> SUFFICES ASSUME IInv, [Next]_vars PROVE PointersAreStored'
  OBVIOUS
<1> USE ProvisioningAssumption, StorageAssumption
<1>0. TypeOK /\ PointersAreStored /\ StorageTypeOK
  BY DEF IInv, TypeOK
<1>1. /\ ptr \in [Actors -> Pointer] /\ queue \in Seq(Pointer)
      /\ \A a \in Actors : a \in DOMAIN pc /\ a \in DOMAIN ptr
  BY <1>0 DEF TypeOK
<1> DEFINE StillGood(p) == /\ p.id \in Tenants
                           /\ tenants'[p.id].status # "none"
                           /\ p.row.status # "none"
<1>2. \A p : GoodPointer(p) => StillGood(p)
  BY StorageStep DEF GoodPointer, Stored
<1>3. Nobody.id = NoTenant /\ NoTenant \notin Tenants
  BY NobodyType
<1> DEFINE Pointers == \A b \in Actors : \/ ptr'[b] = ptr[b]
                                         \/ ptr'[b] = Nobody
                                         \/ StillGood(ptr'[b])
           Queue == \/ queue' = queue
                    \/ queue' = <<>>
                    \/ queue # <<>> /\ queue' = Tail(queue)
                    \/ \E r \in Requests : pc[r] = "enqueue"
                                           /\ queue' = Append(queue, ptr[r])
           Held == \A b \in Actors : pc'[b] \in Holding => ptr'[b].id # NoTenant
           Seen == pc'[Worker] \in {"markWrite", "failWrite"}
                   => seen'.status # "none"
<1> HIDE DEF StillGood
<1>4. Pointers => \A b \in Actors : ptr'[b].id # NoTenant
                                    => StillGood(ptr'[b])
  BY <1>0, <1>2, <1>3 DEF PointersAreStored
<1>5. Queue => \A i \in 1 .. Len(queue') : StillGood(queue'[i])
  <2>1. \A i \in 1 .. Len(queue) : StillGood(queue[i])
    BY <1>0, <1>2 DEF PointersAreStored
  <2>2. CASE queue # <<>> /\ queue' = Tail(queue)
    <3>1. /\ Len(queue') = Len(queue) - 1
          /\ \A i \in 1 .. Len(queue') : queue'[i] = queue[i + 1]
                                         /\ i + 1 \in 1 .. Len(queue)
      BY <1>1, <2>2
    <3>2. QED
      BY <2>1, <3>1
  <2>3. ASSUME NEW r \in Requests, pc[r] = "enqueue",
               queue' = Append(queue, ptr[r])
        PROVE  \A i \in 1 .. Len(queue') : StillGood(queue'[i])
    <3>1. StillGood(ptr[r])
      BY <1>0, <1>2, <2>3 DEF PointersAreStored, Holding, Actors
    <3>2. ptr[r] \in Pointer
      BY <1>1 DEF Actors
    <3>3. /\ Len(queue') = Len(queue) + 1
          /\ \A i \in 1 .. Len(queue) : queue'[i] = queue[i]
          /\ queue'[Len(queue) + 1] = ptr[r]
      BY <1>1, <2>3, <3>2
    <3>4. QED
      BY <1>1, <2>1, <3>1, <3>3
  <2>4. CASE queue' = <<>>
    BY <2>4
  <2>5. QED
    BY <2>1, <2>2, <2>3, <2>4
<1>6. SUFFICES Pointers /\ Queue /\ Held /\ Seen
  BY <1>4, <1>5 DEF PointersAreStored, GoodPointer, Stored, StillGood
<1> USE DEF Actors
<1>7. /\ \A b \in Actors : pc[b] \in Holding => ptr[b].id # NoTenant
      /\ pc[Worker] \in {"markWrite", "failWrite"} => seen.status # "none"
  BY <1>0 DEF PointersAreStored
<1>8. ASSUME NEW r \in Requests, NEW s \in {"provisioning", ""},
             NEW t \in Tenants, NEW k \in Keys, NEW out,
             NEW next \in {"enqueue", "deploy"},
             InsertTenant(t, NewRow(s, k), out),
             Goto(r, IF out = "ok" THEN next ELSE "failed"),
             ptr' = IF out = "ok"
                    THEN [ptr EXCEPT ![r] = [id |-> t, row |-> NewRow(s, k)]]
                    ELSE ptr,
             UNCHANGED <<queue, seen>>
      PROVE  Pointers /\ Queue /\ Held /\ Seen
  <2>1. NewRow(s, k).status # "none" /\ (out = "ok" => Stored(t)')
    <3>1. /\ NewRow(s, k) \in Row /\ NewRow(s, k).key \in Keys
          /\ NewRow(s, k).status # "none"
      BY NewRowType
    <3>2. out # "err" => Stored(t)'
      BY <1>0, <1>8, <3>1, InsertEffect DEF IInv
    <3>3. QED
      BY <3>1, <3>2
  <2>2. Pointers
    <3>1. CASE out = "ok"
      <4>1. /\ ptr'[r] = [id |-> t, row |-> NewRow(s, k)]
            /\ \A b \in Actors : b # r => ptr'[b] = ptr[b]
        BY <1>1, <1>8, <3>1
      <4>2. StillGood([id |-> t, row |-> NewRow(s, k)])
        BY <2>1, <3>1 DEF StillGood, Stored
      <4>3. QED
        BY <4>1, <4>2
    <3>2. CASE out # "ok"
      BY <1>8, <3>2
    <3>3. QED
      BY <3>1, <3>2
  <2>3. Held /\ Seen
    BY <1>1, <1>3, <1>7, <1>8
       DEF Goto, Holding, DeploySteps
  <2>4. QED
    BY <1>8, <2>2, <2>3
<1>9. ASSUME NEW r \in Requests, CreateTenantAsync(r)
      PROVE  Pointers /\ Queue /\ Held /\ Seen
  BY <1>8, <1>9, CreatedIs DEF CreateTenantAsync
<1>10. ASSUME NEW r \in Requests, CreateTenantWithProvisioning(r)
       PROVE  Pointers /\ Queue /\ Held /\ Seen
  BY <1>8, <1>10, CreatedIs DEF CreateTenantWithProvisioning
<1>11. ASSUME NEW r \in Requests, Enqueue(r)
       PROVE  Pointers /\ Queue /\ Held /\ Seen
  BY <1>1, <1>7, <1>11 DEF Enqueue, Goto, Holding, DeploySteps
<1>12. ASSUME NEW r \in Requests, Cancel(r)
       PROVE  Pointers /\ Queue /\ Held /\ Seen
  BY <1>7, <1>12 DEF Cancel
<1>13. CASE Take
  <2>1. Head(queue) = queue[1] /\ 1 \in 1 .. Len(queue)
    BY <1>1, <1>13 DEF Take
  <2>2. StillGood(Head(queue)) /\ Head(queue).id # NoTenant
    BY <1>0, <1>2, <1>3, <2>1 DEF PointersAreStored, GoodPointer
  <2>3. QED
    BY <1>1, <1>7, <1>13, <2>2 DEF Take, Goto, Holding, DeploySteps
<1>14. CASE MarkRead \/ FailRead
  <2>1. /\ pc[Worker] \in {"mark", "failRead"}
        /\ queue' = queue
        /\ \/ Goto(Worker, "deploy") /\ pc[Worker] = "mark"
              /\ UNCHANGED <<ptr, seen>>
           \/ Finish(Worker, "idle") /\ UNCHANGED seen
           \/ /\ Goto(Worker, "markWrite") \/ Goto(Worker, "failWrite")
              /\ UNCHANGED ptr
              /\ Stored(ptr[Worker].id)
              /\ seen' = tenants[ptr[Worker].id]
    BY <1>14 DEF MarkRead, FailRead, ReadForStatus, GetTenantFails
  <2>2. Pointers /\ Queue
    BY <1>1, <2>1 DEF Finish
  <2>3. Held /\ Seen
    BY <1>1, <1>3, <1>7, <2>1 DEF Finish, Goto, Holding, DeploySteps, Stored
  <2>4. QED
    BY <2>2, <2>3
<1>15. CASE MarkWrite
  BY <1>1, <1>7, <1>15 DEF MarkWrite, Goto, Holding, DeploySteps
<1>16. ASSUME NEW a \in Actors, NEW next \in AnsweredAt \cup {"idle"},
              Finish(a, next), queue' = queue,
              seen' = seen \/ a = Worker
       PROVE  Pointers /\ Queue /\ Held /\ Seen
  BY <1>1, <1>7, <1>16 DEF Finish, Goto, Holding, DeploySteps, AnsweredAt
<1>17. CASE FailWrite
  BY <1>16, <1>17 DEF FailWrite
<1>18. ASSUME NEW a \in Actors, NEW next \in Holding \ {"markWrite", "failWrite"},
              pc[a] \in Holding, Goto(a, next), UNCHANGED <<ptr, queue, seen>>
       PROVE  Pointers /\ Queue /\ Held /\ Seen
  BY <1>1, <1>7, <1>18 DEF Goto
<1>19. ASSUME NEW a \in Actors,
              Deploy(a) \/ ServicesReady(a) \/ ServicesTimeout(a) \/ Cleanup(a)
       PROVE  Pointers /\ Queue /\ Held /\ Seen
  <2>1. PICK next \in Holding \ {"markWrite", "failWrite"} :
          pc[a] \in Holding /\ Goto(a, next) /\ UNCHANGED <<ptr, queue, seen>>
    BY <1>19
       DEF Deploy, ServicesReady, ServicesTimeout, Cleanup, Holding, DeploySteps
  <2>2. QED
    BY <1>18, <2>1
<1>20. ASSUME NEW a \in Actors, GetAddress(a)
       PROVE  Pointers /\ Queue /\ Held /\ Seen
  <2>1. /\ pc[a] = "address" /\ queue' = queue /\ seen' = seen
        /\ Goto(a, "cleanup") \/ Goto(a, "wait")
        /\ ptr' = ptr \/ ptr' = [ptr EXCEPT ![a].row.key = NoKey]
    BY <1>20 DEF GetAddress
  <2>2. CASE ptr' = ptr
    BY <1>18, <2>1, <2>2 DEF Holding, DeploySteps
  <2>3. CASE ptr' = [ptr EXCEPT ![a].row.key = NoKey]
    <3>1. /\ ptr'[a].id = ptr[a].id
          /\ ptr'[a].row.status = ptr[a].row.status
          /\ \A b \in Actors : b # a => ptr'[b] = ptr[b]
      BY <1>1, <2>3 DEF Pointer, Row
    <3>2. StillGood(ptr[a])
      BY <1>0, <1>2, <1>7, <2>1 DEF PointersAreStored, Holding, DeploySteps
    <3>3. Pointers
      BY <3>1, <3>2 DEF StillGood
    <3>4. Held /\ Seen
      BY <1>1, <1>7, <2>1, <3>1 DEF Goto, Holding, DeploySteps
    <3>5. QED
      BY <2>1, <3>3, <3>4
  <2>4. QED
    BY <2>1, <2>2, <2>3
<1>21. CASE SaveReady
  <2>1. CASE Finish(Worker, "idle")
    BY <1>16, <1>21, <2>1 DEF SaveReady
  <2>2. CASE Goto(Worker, "failRead") /\ UNCHANGED <<ptr, deployed>>
    BY <1>18, <1>21, <2>2 DEF SaveReady, Holding, DeploySteps
  <2>3. QED
    BY <1>21, <2>1, <2>2 DEF SaveReady
<1>22. ASSUME NEW r \in Requests, SaveCreated(r) \/ Rollback(r)
       PROVE  Pointers /\ Queue /\ Held /\ Seen
  BY <1>16, <1>22 DEF SaveCreated, Rollback, AnsweredAt
<1>23. CASE Crash
  BY <1>3, <1>23 DEF Crash, AnsweredAt, Holding, DeploySteps
<1>24. CASE UNCHANGED vars
  BY <1>7, <1>24 DEF vars, provisioningVars
<1>25. QED
  BY <1>9, <1>10, <1>11, <1>12, <1>13, <1>14, <1>15, <1>17, <1>19, <1>20,
     <1>21, <1>22, <1>23, <1>24
     DEF Next, WorkerProgress, HandlerProgress

----------------------------------------------------------------------------
(* One owner per tenant: pointers move, and a new one has a fresh id. *)

LEMMA ExclusiveStep == IInv /\ [Next]_vars => ExclusiveOwnership'
<1> SUFFICES ASSUME IInv, [Next]_vars PROVE ExclusiveOwnership'
  OBVIOUS
<1> USE ProvisioningAssumption, StorageAssumption DEF Actors
<1>0. TypeOK /\ PointersAreStored /\ ExclusiveOwnership /\ StorageTypeOK
  BY DEF IInv, TypeOK
<1>1. ptr \in [Actors -> Pointer] /\ queue \in Seq(Pointer)
  BY <1>0 DEF TypeOK
<1>2. Nobody.id = NoTenant /\ NoTenant \notin Tenants
  BY NobodyType
<1>3. /\ \A i, j \in 1 .. Len(queue) : queue[i].id = queue[j].id => i = j
      /\ \A a \in Actors, i \in 1 .. Len(queue) : ptr[a].id # queue[i].id
      /\ \A a, b \in Actors : ptr[a].id = ptr[b].id /\ ptr[a].id # NoTenant
                              => a = b
      /\ \A i \in 1 .. Len(queue) : queue[i].id \in Tenants
                                    /\ Stored(queue[i].id)
      /\ \A a \in Actors : ptr[a].id # NoTenant => Stored(ptr[a].id)
  BY <1>0 DEF ExclusiveOwnership, QueuedIds, PointersAreStored, GoodPointer
<1> DEFINE Exclusive ==
      /\ \A i, j \in 1 .. Len(queue') : queue'[i].id = queue'[j].id => i = j
      /\ \A a \in Actors, i \in 1 .. Len(queue') : ptr'[a].id # queue'[i].id
      /\ \A a, b \in Actors : ptr'[a].id = ptr'[b].id /\ ptr'[a].id # NoTenant
                              => a = b
<1>4. SUFFICES Exclusive
  BY DEF ExclusiveOwnership, QueuedIds
<1>5. ASSUME queue' = queue,
             \A a \in Actors : ptr'[a].id \in {ptr[a].id, NoTenant}
      PROVE  Exclusive
  BY <1>2, <1>3, <1>5
<1>6. ASSUME queue' = <<>>, \A a \in Actors : ptr'[a].id = NoTenant
      PROVE  Exclusive
  BY <1>6
<1>7. ASSUME NEW r \in Requests, NEW s \in {"provisioning", ""},
             NEW t \in Tenants, NEW k \in Keys, NEW out,
             InsertTenant(t, NewRow(s, k), out),
             ptr' = IF out = "ok"
                    THEN [ptr EXCEPT ![r] = [id |-> t, row |-> NewRow(s, k)]]
                    ELSE ptr,
             queue' = queue
      PROVE  Exclusive
  <2>1. ~Stored(t)
    BY <1>7 DEF InsertTenant, FreshID
  <2>2. CASE out = "ok"
    <3>1. ptr'[r].id = t /\ \A a \in Actors : a # r => ptr'[a] = ptr[a]
      BY <1>1, <1>7, <2>2
    <3>2. /\ \A i \in 1 .. Len(queue) : queue[i].id # t
          /\ \A a \in Actors : ptr[a].id # t
      BY <1>2, <1>3, <2>1
    <3>3. ASSUME NEW a \in Actors, NEW i \in 1 .. Len(queue)
          PROVE  ptr'[a].id # queue[i].id
      <4>1. CASE a = r
        BY <3>1, <3>2, <4>1
      <4>2. CASE a # r
        <5>1. ptr[a].id # queue[i].id
          BY <1>3
        <5>2. QED
          BY <3>1, <4>2, <5>1
      <4>3. QED
        BY <4>1, <4>2
    <3>4. \A a, b \in Actors : ptr'[a].id = ptr'[b].id /\ ptr'[a].id # NoTenant
                               => a = b
      BY <1>3, <3>1, <3>2
    <3>5. QED
      BY <1>3, <1>7, <3>3, <3>4
  <2>3. CASE out # "ok"
    BY <1>5, <1>7, <2>3
  <2>4. QED
    BY <2>2, <2>3
<1>8. ASSUME NEW r \in Requests,
             CreateTenantAsync(r) \/ CreateTenantWithProvisioning(r)
      PROVE  Exclusive
  BY <1>7, <1>8, CreatedIs DEF CreateTenantAsync, CreateTenantWithProvisioning
<1>9. ASSUME NEW r \in Requests, Enqueue(r) PROVE Exclusive
  <2>1. /\ ptr'[r].id = NoTenant
        /\ \A a \in Actors : a # r => ptr'[a] = ptr[a]
    BY <1>1, <1>2, <1>9 DEF Enqueue
  <2>2. CASE queue' = queue
    BY <1>5, <2>1, <2>2
  <2>3. CASE queue' = Append(queue, ptr[r])
    <3>1. /\ Len(queue') = Len(queue) + 1
          /\ \A i \in 1 .. Len(queue) : queue'[i] = queue[i]
          /\ queue'[Len(queue) + 1] = ptr[r]
      BY <1>1, <2>3
    <3>2. ptr[r].id # NoTenant
      BY <1>0, <1>9 DEF PointersAreStored, Enqueue, Holding
    <3>3. \A i \in 1 .. Len(queue') : i \in 1 .. Len(queue)
                                      \/ i = Len(queue) + 1
      BY <1>1, <3>1
    <3>4. \A i \in 1 .. Len(queue) : queue'[i].id # ptr[r].id
      BY <1>3, <3>1
    <3>5. \A i, j \in 1 .. Len(queue') : queue'[i].id = queue'[j].id => i = j
      BY <1>3, <3>1, <3>3, <3>4
    <3>6. \A a \in Actors, i \in 1 .. Len(queue') : ptr'[a].id # queue'[i].id
      <4>1. \A i \in 1 .. Len(queue') : queue'[i].id # NoTenant
        BY <1>2, <1>3, <3>1, <3>2, <3>3
      <4>2. ASSUME NEW a \in Actors, a # r, NEW i \in 1 .. Len(queue')
            PROVE  ptr'[a].id # queue'[i].id
        BY <1>3, <2>1, <3>1, <3>2, <3>3, <4>2
      <4>3. QED
        BY <2>1, <4>1, <4>2
    <3>7. QED
      BY <1>3, <2>1, <3>5, <3>6
  <2>4. QED
    BY <1>9, <2>2, <2>3 DEF Enqueue
<1>10. CASE Take
  <2>1. /\ ptr'[Worker] = queue[1]
        /\ \A a \in Actors : a # Worker => ptr'[a] = ptr[a]
        /\ 1 \in 1 .. Len(queue)
    BY <1>1, <1>10 DEF Take
  <2>2. /\ Len(queue') = Len(queue) - 1
        /\ \A i \in 1 .. Len(queue') : /\ queue'[i] = queue[i + 1]
                                       /\ i + 1 \in 1 .. Len(queue)
                                       /\ i + 1 # 1
    BY <1>1, <1>10 DEF Take
  <2>3. \A i, j \in 1 .. Len(queue') : queue'[i].id = queue'[j].id => i = j
    <3>1. SUFFICES ASSUME NEW i \in 1 .. Len(queue'), NEW j \in 1 .. Len(queue'),
                          queue'[i].id = queue'[j].id
                   PROVE  i = j
      OBVIOUS
    <3>2. i + 1 = j + 1
      BY <1>3, <2>2, <3>1
    <3>3. QED
      BY <3>2
  <2>4. \A a \in Actors : \A i \in 1 .. Len(queue') : ptr'[a].id # queue'[i].id
    <3>1. SUFFICES ASSUME NEW a \in Actors, NEW i \in 1 .. Len(queue')
                   PROVE  ptr'[a].id # queue'[i].id
      OBVIOUS
    <3>2. CASE a = Worker
      BY <1>3, <2>1, <2>2, <3>2
    <3>3. CASE a # Worker
      BY <1>3, <2>1, <2>2, <3>3
    <3>4. QED
      BY <3>2, <3>3
  <2>5. \A a, b \in Actors : ptr'[a].id = ptr'[b].id /\ ptr'[a].id # NoTenant
                             => a = b
    BY <1>3, <2>1
  <2>6. QED
    BY <2>3, <2>4, <2>5
<1>11. ASSUME NEW a \in Actors, NEW next, Finish(a, next), queue' = queue
       PROVE  Exclusive
  BY <1>1, <1>2, <1>5, <1>11 DEF Finish
<1>12. CASE MarkRead \/ FailRead
  <2>1. queue' = queue /\ (ptr' = ptr \/ Finish(Worker, "idle"))
    BY <1>12 DEF MarkRead, FailRead, ReadForStatus
  <2>2. QED
    BY <1>5, <1>11, <2>1
<1>13. CASE FailWrite \/ SaveReady
  <2>1. queue' = queue /\ (ptr' = ptr \/ Finish(Worker, "idle"))
    BY <1>13 DEF FailWrite, SaveReady
  <2>2. QED
    BY <1>5, <1>11, <2>1
<1>14. ASSUME NEW r \in Requests, SaveCreated(r) \/ Rollback(r)
       PROVE  Exclusive
  BY <1>11, <1>14 DEF SaveCreated, Rollback
<1>15. ASSUME NEW a \in Actors, GetAddress(a) PROVE Exclusive
  <2>1. /\ queue' = queue
        /\ ptr' = ptr \/ ptr' = [ptr EXCEPT ![a].row.key = NoKey]
    BY <1>15 DEF GetAddress
  <2>2. \A b \in Actors : ptr'[b].id = ptr[b].id
    <3>1. CASE ptr' = ptr
      BY <3>1
    <3>2. CASE ptr' = [ptr EXCEPT ![a].row.key = NoKey]
      <4>1. /\ ptr'[a].id = ptr[a].id
            /\ \A b \in Actors : b # a => ptr'[b] = ptr[b]
        BY <1>1, <3>2 DEF Pointer
      <4>2. QED
        BY <4>1
    <3>3. QED
      BY <2>1, <3>1, <3>2
  <2>3. QED
    BY <1>5, <2>1, <2>2
<1>16. ASSUME \/ \E r \in Requests : Cancel(r)
              \/ \E a \in Actors : \/ Deploy(a) \/ Cleanup(a)
                                   \/ ServicesReady(a) \/ ServicesTimeout(a)
              \/ MarkWrite
              \/ UNCHANGED vars
       PROVE  queue' = queue /\ ptr' = ptr
  BY <1>16 DEF Cancel, Deploy, Cleanup, ServicesReady, ServicesTimeout,
               MarkWrite, vars, provisioningVars
<1>17. CASE Crash
  BY <1>2, <1>6, <1>17 DEF Crash
<1>18. QED
  BY <1>5, <1>8, <1>9, <1>10, <1>12, <1>13, <1>14, <1>15, <1>16, <1>17
     DEF Next, WorkerProgress, HandlerProgress

----------------------------------------------------------------------------
(* Keys stay with the tenant they were generated for. *)

LEMMA KeyStep == IInv /\ [Next]_vars => KeyOwnership' /\ SeenIsOwn'
<1> SUFFICES ASSUME IInv, [Next]_vars PROVE KeyOwnership' /\ SeenIsOwn'
  OBVIOUS
<1> USE ProvisioningAssumption, StorageAssumption DEF Actors
<1>0. /\ TypeOK /\ PointersAreStored /\ KeyOwnership /\ SeenIsOwn
      /\ StorageTypeOK /\ DeployerTypeOK
  BY DEF IInv, TypeOK
<1>1. /\ ptr \in [Actors -> Pointer] /\ queue \in Seq(Pointer) /\ seen \in Row
      /\ \A a \in Actors : a \in DOMAIN pc
  BY <1>0 DEF TypeOK
<1> DEFINE StillOwn(u, k) == k = NoKey \/ keyOwner'[k] = u
           Rows  == \A t \in Tenants : StillOwn(t, tenants'[t].key)
           VMs   == \A t \in Tenants : StillOwn(t, vm'[t].key)
           Ptrs  == \A a \in Actors : ptr'[a].id # NoTenant
                                      => StillOwn(ptr'[a].id, ptr'[a].row.key)
           Queue == \A i \in 1 .. Len(queue') :
                       StillOwn(queue'[i].id, queue'[i].row.key)
           Seen  == pc'[Worker] \in {"markWrite", "failWrite"}
                    => StillOwn(ptr'[Worker].id, seen'.key)
<1>2. SUFFICES Rows /\ VMs /\ Ptrs /\ Queue /\ Seen
  BY DEF KeyOwnership, SeenIsOwn, OwnKey
(* What was owned before the step is owned after it. *)
<1>3. /\ \A t \in Tenants : StillOwn(t, tenants[t].key)
      /\ \A t \in Tenants : StillOwn(t, vm[t].key)
      /\ \A a \in Actors : ptr[a].id # NoTenant
                           => StillOwn(ptr[a].id, ptr[a].row.key)
      /\ \A i \in 1 .. Len(queue) : StillOwn(queue[i].id, queue[i].row.key)
      /\ pc[Worker] \in {"markWrite", "failWrite"}
         => StillOwn(ptr[Worker].id, seen.key)
  <2>1. \A u \in Tenants, k \in Keys \cup {NoKey} :
            OwnKey(u, k) => StillOwn(u, k)
    BY StorageStep DEF OwnKey
  <2>2. /\ \A t \in Tenants : tenants[t].key \in Keys \cup {NoKey}
        /\ \A t \in Tenants : vm[t].key \in Keys \cup {NoKey}
        /\ \A a \in Actors : ptr[a].row.key \in Keys \cup {NoKey}
                             /\ ptr[a].id \in Tenants \cup {NoTenant}
        /\ \A i \in 1 .. Len(queue) : queue[i].row.key \in Keys \cup {NoKey}
        /\ seen.key \in Keys \cup {NoKey}
    <3>1. \A row \in Row : row.key \in Keys \cup {NoKey}
      BY DEF Row
    <3>2. \A p \in Pointer : p.row \in Row /\ p.id \in Tenants \cup {NoTenant}
      BY DEF Pointer
    <3>3. \A t \in Tenants : tenants[t] \in Row /\ vm[t] \in Instance
      BY <1>0 DEF StorageTypeOK, DeployerTypeOK
    <3>4. \A i \in 1 .. Len(queue) : queue[i] \in Pointer
      BY <1>1
    <3>5. \A t \in Tenants : vm[t].key \in Keys \cup {NoKey}
      BY <3>3 DEF Instance
    <3>6. QED
      BY <1>1, <3>1, <3>2, <3>3, <3>4, <3>5
  <2>3. /\ \A i \in 1 .. Len(queue) : queue[i].id \in Tenants
        /\ pc[Worker] \in {"markWrite", "failWrite"}
           => ptr[Worker].id \in Tenants
    BY <1>0, HeldPointer DEF PointersAreStored, GoodPointer, Holding
  <2>4. QED
    BY <1>0, <2>1, <2>2, <2>3 DEF KeyOwnership, SeenIsOwn
<1> HIDE DEF StillOwn
<1>4. \A u : StillOwn(u, NoKey)
  BY DEF StillOwn
<1>5. Nobody.id = NoTenant /\ Nobody.row = NoRow /\ NoRow.key = NoKey
  BY DEF Nobody, NoRow
(* The parts of the state, one at a time. *)
<1>6. ASSUME tenants' = tenants PROVE Rows
  BY <1>3, <1>6
<1>7. ASSUME NEW t \in Tenants, NEW row \in Row, NEW out, row.status # "none",
             UpdateTenant(t, row, out), StillOwn(t, row.key)
      PROVE  Rows
  BY <1>0, <1>3, <1>7, UpdateEffect
<1>8. ASSUME vm' = vm PROVE VMs
  BY <1>3, <1>8
<1>9. ASSUME queue' = queue \/ queue' = <<>> PROVE Queue
  BY <1>3, <1>9
<1>10. ASSUME \A a \in Actors : ptr'[a] = ptr[a] \/ ptr'[a] = Nobody
       PROVE  Ptrs
  BY <1>3, <1>5, <1>10
<1>11. ASSUME NEW a \in Actors, NEW next, Finish(a, next)
       PROVE  Ptrs
  BY <1>1, <1>10, <1>11 DEF Finish
<1>12. ASSUME NEW a \in Actors, NEW next, next \notin {"markWrite", "failWrite"},
              Goto(a, next), seen' = seen \/ a = Worker,
              ptr'[Worker] = ptr[Worker] \/ a = Worker
       PROVE  Seen
  BY <1>1, <1>3, <1>12 DEF Goto
<1>13. ASSUME NEW r \in Requests, NEW s \in {"provisioning", ""},
              NEW t \in Tenants, NEW k \in Keys, NEW out,
              NEW next \in {"enqueue", "deploy"},
              InsertTenant(t, NewRow(s, k), out),
              Goto(r, IF out = "ok" THEN next ELSE "failed"),
              ptr' = IF out = "ok"
                     THEN [ptr EXCEPT ![r] = [id |-> t, row |-> NewRow(s, k)]]
                     ELSE ptr,
              UNCHANGED <<vm, queue, seen>>
       PROVE  Rows /\ VMs /\ Ptrs /\ Queue /\ Seen
  <2>1. /\ NewRow(s, k) \in Row /\ NewRow(s, k).key = k
        /\ NewRow(s, k).key \in Keys /\ NewRow(s, k).status # "none"
    BY NewRowType
  <2>2. /\ \A u \in Tenants : \/ tenants'[u] = tenants[u]
                              \/ u = t /\ tenants'[u] = NewRow(s, k)
                                       /\ keyOwner'[k] = t
        /\ out # "err" => keyOwner'[k] = t
    <3>1. InsertTenant(t, NewRow(s, k), out)
      BY <1>13
    <3>2. /\ \A u \in Tenants :
                \/ tenants'[u] = tenants[u]
                \/ u = t /\ tenants'[u] = NewRow(s, k)
                         /\ keyOwner'[NewRow(s, k).key] = t
          /\ out # "err" => keyOwner'[NewRow(s, k).key] = t
      BY <1>0, <2>1, <3>1, InsertEffect DEF IInv
    <3>3. QED
      BY <2>1, <3>2
  <2>3. Rows
    BY <1>3, <2>1, <2>2 DEF StillOwn
  <2>4. Ptrs
    <3>1. CASE out = "ok"
      <4>1. /\ ptr'[r] = [id |-> t, row |-> NewRow(s, k)]
            /\ \A a \in Actors : a # r => ptr'[a] = ptr[a]
        BY <1>1, <1>13, <3>1
      <4>2. StillOwn(t, NewRow(s, k).key)
        BY <2>1, <2>2, <3>1 DEF StillOwn
      <4>3. ptr'[r].id = t /\ ptr'[r].row = NewRow(s, k)
        BY <1>1, <1>13, <3>1
      <4>4. StillOwn(ptr'[r].id, ptr'[r].row.key)
        BY <4>2, <4>3
      <4>5. ASSUME NEW a \in Actors, a # r, ptr'[a].id # NoTenant
            PROVE  StillOwn(ptr'[a].id, ptr'[a].row.key)
        BY <1>3, <4>1, <4>5
      <4>6. QED
        BY <4>4, <4>5
    <3>2. CASE out # "ok"
      BY <1>10, <1>13, <3>2
    <3>3. QED
      BY <3>1, <3>2
  <2>5. Seen
    <3>1. ptr'[Worker] = ptr[Worker]
      BY <1>1, <1>13
    <3>2. QED
      BY <1>12, <1>13, <3>1
  <2>6. QED
    BY <1>8, <1>9, <1>13, <2>3, <2>4, <2>5
<1>14. ASSUME NEW r \in Requests, CreateTenantAsync(r)
       PROVE  Rows /\ VMs /\ Ptrs /\ Queue /\ Seen
  BY <1>13, <1>14, CreatedIs DEF CreateTenantAsync
<1>15. ASSUME NEW r \in Requests, CreateTenantWithProvisioning(r)
       PROVE  Rows /\ VMs /\ Ptrs /\ Queue /\ Seen
  BY <1>13, <1>15, CreatedIs DEF CreateTenantWithProvisioning
<1>16. ASSUME NEW r \in Requests, Enqueue(r)
       PROVE  Rows /\ VMs /\ Ptrs /\ Queue /\ Seen
  <2>1. ptr' = [ptr EXCEPT ![r] = Nobody] /\ UNCHANGED <<storageVars, vm, seen>>
        /\ (Goto(r, "accepted") \/ Goto(r, "fallback"))
    BY <1>16 DEF Enqueue
  <2>2. Rows /\ VMs
    BY <1>6, <1>8, <2>1 DEF storageVars
  <2>3. Ptrs
    BY <1>1, <1>10, <2>1
  <2>4. Queue
    <3>1. CASE queue' = Append(queue, ptr[r])
      <4>1. /\ Len(queue') = Len(queue) + 1
            /\ \A i \in 1 .. Len(queue) : queue'[i] = queue[i]
            /\ queue'[Len(queue) + 1] = ptr[r]
        BY <1>1, <3>1
      <4>2. \A i \in 1 .. Len(queue') : i \in 1 .. Len(queue)
                                        \/ i = Len(queue) + 1
        BY <1>1, <4>1
      <4>3. ptr[r].id # NoTenant
        BY <1>0, <1>16 DEF PointersAreStored, Enqueue, Holding
      <4>4. QED
        BY <1>3, <4>1, <4>2, <4>3
    <3>2. QED
      BY <1>9, <1>16, <3>1 DEF Enqueue
  <2>5. Seen
    <3>1. ptr'[Worker] = ptr[Worker]
      BY <1>1, <2>1
    <3>2. QED
      BY <1>12, <2>1, <3>1
  <2>6. QED
    BY <2>2, <2>3, <2>4, <2>5
<1>17. CASE Take
  <2>1. /\ ptr'[Worker] = queue[1]
        /\ \A a \in Actors : a # Worker => ptr'[a] = ptr[a]
        /\ 1 \in 1 .. Len(queue)
    BY <1>1, <1>17 DEF Take
  <2>2. Ptrs
    BY <1>3, <2>1
  <2>3. Queue
    <3>1. \A i \in 1 .. Len(queue') : /\ queue'[i] = queue[i + 1]
                                      /\ i + 1 \in 1 .. Len(queue)
      BY <1>1, <1>17 DEF Take
    <3>2. QED
      BY <1>3, <3>1
  <2>4. Rows /\ VMs /\ Seen
    BY <1>6, <1>8, <1>12, <1>17 DEF Take, storageVars
  <2>5. QED
    BY <2>2, <2>3, <2>4
<1>18. CASE MarkRead \/ FailRead
  <2>1. /\ pc[Worker] \in {"mark", "failRead"}
        /\ UNCHANGED <<storageVars, vm, queue>>
        /\ \/ Goto(Worker, "deploy") /\ ptr' = ptr
           \/ Finish(Worker, "idle")
           \/ ptr' = ptr /\ seen' = tenants[ptr[Worker].id]
    BY <1>18 DEF MarkRead, FailRead, ReadForStatus
  <2>2. Rows /\ VMs /\ Queue
    BY <1>6, <1>8, <1>9, <2>1 DEF storageVars
  <2>3. Ptrs
    BY <1>10, <1>11, <2>1
  <2>4. Seen
    <3>1. ptr[Worker].id \in Tenants
      BY <1>0, <2>1, HeldPointer DEF Holding
    <3>2. CASE ptr' = ptr /\ seen' = tenants[ptr[Worker].id]
      BY <1>3, <3>1, <3>2
    <3>3. QED
      BY <1>12, <2>1, <3>2 DEF Finish
  <2>5. QED
    BY <2>2, <2>3, <2>4
<1>19. CASE MarkWrite
  <2>1. /\ ptr[Worker].id \in Tenants /\ seen.status # "none"
        /\ StillOwn(ptr[Worker].id, seen.key)
    BY <1>0, <1>3, <1>19, HeldPointer DEF MarkWrite, PointersAreStored, Holding
  <2>2. Rows
    BY <1>1, <1>7, <1>19, <2>1 DEF MarkWrite
  <2>3. Seen
    BY <1>12, <1>19 DEF MarkWrite
  <2>4. QED
    BY <1>8, <1>9, <1>10, <1>19, <2>2, <2>3 DEF MarkWrite
<1>20. CASE FailWrite
  <2>1. ptr[Worker].id \in Tenants /\ StillOwn(ptr[Worker].id, seen.key)
    BY <1>0, <1>3, <1>20, HeldPointer DEF FailWrite, Holding
  <2>2. FailedRow \in Row /\ FailedRow.status # "none"
        /\ FailedRow.key = seen.key
    BY <1>1 DEF FailedRow, Row, Statuses
  <2>3. Rows
    BY <1>7, <1>20, <2>1, <2>2 DEF FailWrite
  <2>4. Seen
    BY <1>12, <1>20 DEF FailWrite, Finish
  <2>5. QED
    BY <1>8, <1>9, <1>11, <1>20, <2>3, <2>4 DEF FailWrite
<1>21. ASSUME NEW a \in Actors, Deploy(a)
       PROVE  Rows /\ VMs /\ Ptrs /\ Queue /\ Seen
  <2>1. PICK out : CreateInstance(ptr[a].id, ptr[a].row.key, out)
    BY <1>21 DEF Deploy
  <2>2. /\ ptr[a].id \in Tenants /\ ptr[a].row.key \in Keys \cup {NoKey}
        /\ ptr[a].id # NoTenant
    BY <1>0, <1>21, HeldPointer DEF Deploy, Holding, DeploySteps
  <2>3. VMs
    BY <1>0, <1>3, <2>1, <2>2, CreateEffect
  <2>4. Seen
    BY <1>12, <1>21 DEF Deploy
  <2>5. QED
    BY <1>6, <1>9, <1>10, <1>21, <2>3, <2>4 DEF Deploy, storageVars
<1>22. ASSUME NEW a \in Actors, Cleanup(a)
       PROVE  Rows /\ VMs /\ Ptrs /\ Queue /\ Seen
  <2>1. ptr[a].id \in Tenants
    BY <1>0, <1>22, HeldPointer DEF Cleanup, Holding, DeploySteps
  <2>2. VMs
    BY <1>0, <1>3, <1>4, <1>22, <2>1, DeleteServicesEffect DEF Cleanup
  <2>3. Seen
    BY <1>12, <1>22 DEF Cleanup
  <2>4. QED
    BY <1>6, <1>9, <1>10, <1>22, <2>2, <2>3 DEF Cleanup, storageVars
<1>23. ASSUME NEW a \in Actors, ServicesReady(a) \/ ServicesTimeout(a)
       PROVE  Rows /\ VMs /\ Ptrs /\ Queue /\ Seen
  <2>1. Seen
    BY <1>12, <1>23 DEF ServicesReady, ServicesTimeout
  <2>2. QED
    BY <1>6, <1>8, <1>9, <1>10, <1>23, <2>1
       DEF ServicesReady, ServicesTimeout, storageVars
<1>24. ASSUME NEW a \in Actors, GetAddress(a)
       PROVE  Rows /\ VMs /\ Ptrs /\ Queue /\ Seen
  <2>1. /\ UNCHANGED <<storageVars, vm, queue, seen>>
        /\ Goto(a, "cleanup") \/ Goto(a, "wait")
        /\ ptr' = ptr \/ ptr' = [ptr EXCEPT ![a].row.key = NoKey]
    BY <1>24 DEF GetAddress
  <2>2. \A b \in Actors : b # a => ptr'[b] = ptr[b]
    BY <1>1, <2>1
  <2>3. Ptrs
    <3>1. CASE ptr' = [ptr EXCEPT ![a].row.key = NoKey]
      <4>1. ptr'[a].row.key = NoKey
        BY <1>1, <3>1 DEF Pointer, Row
      <4>2. QED
        BY <1>3, <1>4, <2>2, <4>1
    <3>2. QED
      BY <1>10, <2>1, <3>1
  <2>4. Rows /\ VMs /\ Queue
    BY <1>6, <1>8, <1>9, <2>1 DEF storageVars
  <2>5. Seen
    BY <1>12, <2>1, <2>2
  <2>6. QED
    BY <2>3, <2>4, <2>5
<1>25. CASE SaveReady
  <2>1. /\ ptr[Worker].id \in Tenants /\ ptr[Worker].id # NoTenant
        /\ ReadyRow \in Row /\ ReadyRow.status # "none"
        /\ ReadyRow.key = ptr[Worker].row.key
    <3>1. /\ ptr[Worker].id \in Tenants /\ ptr[Worker].row \in Row
          /\ deployed[Worker] \in Hosts \cup {NoHost}
      BY <1>0, <1>25, HeldPointer
         DEF SaveReady, Holding, DeploySteps, TypeOK
    <3>2. QED
      BY <3>1 DEF ReadyRow, Row, Statuses
  <2>2. Rows
    BY <1>3, <1>7, <1>25, <2>1 DEF SaveReady
  <2>3. Ptrs
    BY <1>10, <1>11, <1>25 DEF SaveReady
  <2>4. Seen
    BY <1>12, <1>25 DEF SaveReady, Finish
  <2>5. QED
    BY <1>8, <1>9, <1>25, <2>2, <2>3, <2>4 DEF SaveReady
<1>26. ASSUME NEW r \in Requests, NEW next \in AnsweredAt, Finish(r, next),
              UNCHANGED <<vm, queue, seen>>
       PROVE  VMs /\ Ptrs /\ Queue /\ Seen
  <2>1. ptr'[Worker] = ptr[Worker]
    BY <1>1, <1>26 DEF Finish
  <2>2. Seen
    BY <1>12, <1>26, <2>1 DEF Finish, AnsweredAt
  <2>3. QED
    BY <1>8, <1>9, <1>11, <1>26, <2>2
<1>27. ASSUME NEW r \in Requests, SaveCreated(r)
       PROVE  Rows /\ VMs /\ Ptrs /\ Queue /\ Seen
  <2>1. /\ ptr[r].id \in Tenants /\ ptr[r].id # NoTenant
        /\ CreatedRow(r) \in Row /\ CreatedRow(r).status # "none"
        /\ CreatedRow(r).key = ptr[r].row.key
    BY <1>0, <1>27, HeldPointer
       DEF SaveCreated, Holding, DeploySteps, CreatedRow, TypeOK, Row
  <2>2. Rows
    BY <1>3, <1>7, <1>27, <2>1 DEF SaveCreated
  <2>3. QED
    BY <1>26, <1>27, <2>2 DEF SaveCreated, AnsweredAt
<1>28. ASSUME NEW r \in Requests, Rollback(r)
       PROVE  Rows /\ VMs /\ Ptrs /\ Queue /\ Seen
  <2>1. ptr[r].id \in Tenants
    BY <1>0, <1>28, HeldPointer DEF Rollback, Holding
  <2>2. Rows
    BY <1>0, <1>3, <1>28, <2>1, DeleteEffect DEF Rollback
  <2>3. QED
    BY <1>26, <1>28, <2>2 DEF Rollback, AnsweredAt
<1>29. CASE Crash
  <2>1. Ptrs
    BY <1>10, <1>29 DEF Crash
  <2>2. QED
    BY <1>6, <1>8, <1>9, <1>29, <2>1 DEF Crash, storageVars
<1>30. ASSUME UNCHANGED vars \/ \E r \in Requests : Cancel(r)
       PROVE  Rows /\ VMs /\ Ptrs /\ Queue /\ Seen
  <2>1. UNCHANGED <<storageVars, vm, queue, ptr, seen, pc>>
    BY <1>30 DEF Cancel, vars, provisioningVars
  <2>2. Seen
    BY <1>3, <2>1
  <2>3. QED
    BY <1>6, <1>8, <1>9, <1>10, <2>1, <2>2 DEF storageVars
<1>31. QED
  BY <1>14, <1>15, <1>16, <1>17, <1>18, <1>19, <1>20, <1>21, <1>22, <1>23,
     <1>24, <1>25, <1>27, <1>28, <1>29, <1>30
     DEF Next, WorkerProgress, HandlerProgress

----------------------------------------------------------------------------
LEMMA InitIInv == Init => IInv
<1> SUFFICES ASSUME Init PROVE IInv
  OBVIOUS
<1> USE ProvisioningAssumption, StorageAssumption, NobodyType
        DEF Actors, Init, StorageInit, DeployerInit
<1>1. TypeOK
  BY DEF TypeOK, StorageTypeOK, DeployerTypeOK, Instance, NoVM, RequestSteps,
         WorkerSteps
<1>2. PointersAreStored
  BY DEF PointersAreStored, Holding, DeploySteps
<1>3. ExclusiveOwnership
  BY DEF ExclusiveOwnership, QueuedIds
<1>4. KeyOwnership /\ SeenIsOwn
  BY DEF KeyOwnership, SeenIsOwn, OwnKey, NoRow, NoVM
<1>5. QED
  BY <1>1, <1>2, <1>3, <1>4 DEF IInv

LEMMA Inductive == Spec => []IInv
<1>1. IInv /\ [Next]_vars => IInv'
  BY TypeStep, PointerStep, ExclusiveStep, KeyStep DEF IInv
<1>2. QED
  BY InitIInv, <1>1, PTL DEF Spec

(* Every variable keeps its type: the queue never exceeds its capacity,    *)
(* the worker and the handlers stay within their own steps.                *)
THEOREM TypeCorrect == Spec => []TypeOK
<1>1. IInv => TypeOK
  BY DEF IInv
<1>2. QED
  BY Inductive, <1>1, PTL

(* However requests, faults and crashes interleave, no tenant is           *)
(* provisioned by two goroutines, nor queued twice.                        *)
THEOREM OwnershipIsExclusive == Spec => []ExclusiveOwnership
<1>1. IInv => ExclusiveOwnership
  BY DEF IInv
<1>2. QED
  BY Inductive, <1>1, PTL

(* No row, pointer or instance ever carries a key generated for another    *)
(* tenant.                                                                 *)
THEOREM KeysAreOwn == Spec => []KeyOwnership
<1>1. IInv => KeyOwnership
  BY DEF IInv
<1>2. QED
  BY Inductive, <1>1, PTL

----------------------------------------------------------------------------
(***************************************************************************)
(* Provisioning implements TenantLifecycle, with any number of requests,   *)
(* tenants, keys and addresses, and with every fault: writes that fail or  *)
(* are lost, ambiguous commands of the cloud, clients that leave and       *)
(* restarts.  With it come the two properties about active rows.           *)
(*                                                                         *)
(* Needed is a deployer that returns the API key it deployed with, as the  *)
(* Yandex deployer does (ReturnsAPIKey).  The last part proves, for a      *)
(* database that answers and a process that goes on (Reliable), that       *)
(* failed deployments leave nothing behind.                                *)
(***************************************************************************)
(* The statuses of a row somebody still has to settle. *)
Pending == {"provisioning", "active"}

(* A pointer carries the key of its row, which nobody has settled.         *)
InHand(p) ==
    /\ tenants[p.id].key = p.row.key
    /\ tenants[p.id].status \in Pending
    /\ p.row.host = NoHost

Queued(p) == InHand(p) /\ tenants[p.id].host = NoHost

(* What an actor at a step knows of its tenant p, with d as the address in *)
(* its deployment and s as the row it read: only the worker's failed last  *)
(* write may have published an address already.                            *)
Good(step, p, d, s) ==
    /\ InHand(p)
    /\ step \notin {"failRead", "failWrite"} => tenants[p.id].host = NoHost
    /\ step \in {"address", "wait", "save"} =>
         Running(p.id) /\ vm[p.id].key = p.row.key
    /\ step \in {"wait", "save"} => d = vm[p.id].host
    /\ step \in {"markWrite", "failWrite"} => s = tenants[p.id]

(* An instance that is gone left nothing. *)
CloudIsClean == \A t \in Tenants : ~Running(t) => vm[t] = NoVM

LInv ==
    /\ \A i \in 1 .. Len(queue) : Queued(queue[i])
    /\ \A a \in Actors :
         pc[a] \in Holding => Good(pc[a], ptr[a], deployed[a], seen)
    /\ \A r \in Requests : pc[r] \in DeploySteps => ptr[r].row.status = "active"
    /\ CloudIsClean
    /\ ActiveIsServable

----------------------------------------------------------------------------
LEMMA InitLInv == Init => LInv
<1> SUFFICES ASSUME Init PROVE LInv
  OBVIOUS
<1>1. Len(queue) = 0
  BY DEF Init
<1>2. \A a \in Actors : pc[a] = "idle"
  BY DEF Init
<1>3. \A t \in Tenants : tenants[t].status = "none" /\ vm[t] = NoVM
  BY DEF Init, StorageInit, DeployerInit, NoRow
<1> QED
  BY <1>1, <1>2, <1>3
  DEF LInv, Holding, DeploySteps, Actors, CloudIsClean, ActiveIsServable

(* The tenant of an actor is nobody else's. *)
LEMMA HeldAlone ==
  ASSUME IInv, NEW a \in Actors, pc[a] \in Holding
  PROVE  /\ \A b \in Actors \ {a} : ptr[b].id # ptr[a].id
         /\ \A i \in 1 .. Len(queue) : queue[i].id # ptr[a].id
BY DEF IInv, PointersAreStored, ExclusiveOwnership, QueuedIds

(* A step of one actor that touches one tenant, which is nobody else's. *)
LEMMA ActorMoves ==
  ASSUME IInv, LInv, NEW a \in Actors, NEW t \in Tenants,
         \A u \in Tenants \ {t} : tenants'[u] = tenants[u] /\ vm'[u] = vm[u],
         queue' = queue,
         \A b \in Actors \ {a} : /\ pc'[b] = pc[b] /\ ptr'[b] = ptr[b]
                                 /\ deployed'[b] = deployed[b],
         a # Worker => seen' = seen,
         \A b \in Actors \ {a} : pc[b] \in Holding => ptr[b].id # t,
         \A i \in 1 .. Len(queue) : queue[i].id # t,
         pc'[a] \in Holding => Good(pc[a], ptr[a], deployed[a], seen)',
         a \in Requests /\ pc'[a] \in DeploySteps
           => ptr'[a].row.status = "active",
         ~Running(t)' => vm'[t] = NoVM,
         tenants'[t].status = "active" /\ tenants'[t].host # NoHost
           => vm'[t] = [host |-> tenants'[t].host, key |-> tenants'[t].key]
  PROVE  LInv'
<1>0. TypeOK /\ PointersAreStored
  BY DEF IInv
<1>1. ASSUME NEW i \in 1 .. Len(queue') PROVE Queued(queue[i])'
  <2>1. Queued(queue[i]) /\ queue[i].id \in Tenants \ {t}
    BY <1>0 DEF LInv, PointersAreStored, GoodPointer
  <2> QED
    BY <2>1 DEF Queued, InHand
<1>2. ASSUME NEW b \in Actors, pc'[b] \in Holding
      PROVE  Good(pc[b], ptr[b], deployed[b], seen)'
  <2>1. CASE b = a
    BY <1>2, <2>1
  <2>2. CASE b # a
    <3>1. pc'[b] = pc[b] /\ ptr'[b] = ptr[b] /\ deployed'[b] = deployed[b]
      BY <2>2
    <3>2. Good(pc[b], ptr[b], deployed[b], seen) /\ ptr[b].id \in Tenants \ {t}
      BY <1>0, <1>2, <2>2, <3>1 DEF LInv, PointersAreStored, GoodPointer
    <3>3. pc[b] \in {"markWrite", "failWrite"} => b = Worker /\ seen' = seen
      BY <1>0, <2>2 DEF TypeOK, Actors, RequestSteps, AnsweredAt, DeploySteps
    <3> QED
      BY <3>1, <3>2, <3>3 DEF Good, InHand, Running
  <2> QED
    BY <2>1, <2>2
<1>3. ASSUME NEW r \in Requests, pc'[r] \in DeploySteps
      PROVE  ptr'[r].row.status = "active"
  BY <1>3 DEF LInv, Actors
<1>4. CloudIsClean'
  BY DEF LInv, CloudIsClean, Running
<1>5. ActiveIsServable'
  BY DEF LInv, ActiveIsServable
<1> QED
  BY <1>1, <1>2, <1>3, <1>4, <1>5 DEF LInv

(* A step that leaves the table and the cloud alone. *)
LEMMA QuietMoves ==
  ASSUME IInv, LInv, NEW a \in Actors,
         tenants' = tenants, vm' = vm, queue' = queue,
         \A b \in Actors \ {a} : /\ pc'[b] = pc[b] /\ ptr'[b] = ptr[b]
                                 /\ deployed'[b] = deployed[b],
         a # Worker => seen' = seen,
         pc'[a] \in Holding => Good(pc[a], ptr[a], deployed[a], seen)',
         a \in Requests /\ pc'[a] \in DeploySteps
           => ptr'[a].row.status = "active"
  PROVE  LInv'
<1>0. TypeOK /\ PointersAreStored
  BY DEF IInv
<1>1. \A i \in 1 .. Len(queue') : Queued(queue[i])'
  BY DEF LInv, Queued, InHand
<1>2. ASSUME NEW b \in Actors, pc'[b] \in Holding
      PROVE  Good(pc[b], ptr[b], deployed[b], seen)'
  <2>1. CASE b = a
    BY <1>2, <2>1
  <2>2. CASE b # a
    <3>1. pc'[b] = pc[b] /\ ptr'[b] = ptr[b] /\ deployed'[b] = deployed[b]
      BY <2>2
    <3>2. Good(pc[b], ptr[b], deployed[b], seen)
      BY <1>2, <3>1 DEF LInv
    <3>3. pc[b] \in {"markWrite", "failWrite"} => b = Worker /\ seen' = seen
      BY <1>0, <2>2 DEF TypeOK, Actors, RequestSteps, AnsweredAt, DeploySteps
    <3> QED
      BY <3>1, <3>2, <3>3 DEF Good, InHand, Running
  <2> QED
    BY <2>1, <2>2
<1>3. ASSUME NEW r \in Requests, pc'[r] \in DeploySteps
      PROVE  ptr'[r].row.status = "active"
  BY <1>3 DEF LInv, Actors
<1>4. CloudIsClean' /\ ActiveIsServable'
  BY DEF LInv, CloudIsClean, ActiveIsServable, Running
<1> QED
  BY <1>1, <1>2, <1>3, <1>4 DEF LInv

----------------------------------------------------------------------------
(* The actions of the requests. *)

LEMMA InsertStep ==
  ASSUME IInv, LInv, NEW r \in Requests,
         CreateTenantAsync(r) \/ CreateTenantWithProvisioning(r)
  PROVE  LInv'
<1>0. TypeOK /\ PointersAreStored /\ StorageTypeOK
  BY DEF IInv, TypeOK
<1>1. PICK s \in {"provisioning", ""}, step \in {"enqueue", "deploy"},
           t \in Tenants, k \in Keys, out \in Under(r, StorageOutcomes) :
        /\ s = "" <=> step = "deploy"
        /\ InsertTenant(t, NewRow(s, k), out)
        /\ Goto(r, IF out = "ok" THEN step ELSE "failed")
        /\ ptr' = IF out = "ok"
                  THEN [ptr EXCEPT ![r] = [id |-> t, row |-> NewRow(s, k)]]
                  ELSE ptr
  <2>1. CASE CreateTenantAsync(r)
    <3>1. PICK t \in Tenants, k \in Keys, out \in Under(r, StorageOutcomes) :
            /\ InsertTenant(t, NewRow("provisioning", k), out)
            /\ Goto(r, IF out = "ok" THEN "enqueue" ELSE "failed")
            /\ ptr' = IF out = "ok"
                      THEN [ptr EXCEPT ![r] =
                              [id |-> t, row |-> NewRow("provisioning", k)]]
                      ELSE ptr
      BY <2>1, CreatedIs
    <3>2. ("provisioning" = "") <=> ("enqueue" = "deploy")
      OBVIOUS
    <3> QED
      BY <3>1, <3>2
  <2>2. CASE CreateTenantWithProvisioning(r)
    <3>1. PICK t \in Tenants, k \in Keys, out \in Under(r, StorageOutcomes) :
            /\ InsertTenant(t, NewRow("", k), out)
            /\ Goto(r, IF out = "ok" THEN "deploy" ELSE "failed")
            /\ ptr' = IF out = "ok"
                      THEN [ptr EXCEPT ![r] = [id |-> t, row |-> NewRow("", k)]]
                      ELSE ptr
      BY <2>2, CreatedIs
    <3> QED
      BY <3>1
  <2> QED
    BY <2>1, <2>2
<1>2. /\ vm' = vm /\ queue' = queue /\ seen' = seen /\ deployed' = deployed
      /\ pc[r] \notin DeploySteps
  BY DEF CreateTenantAsync, CreateTenantWithProvisioning, DeploySteps
<1>3. PICK row \in Row :
        /\ row = NewRow(s, k) /\ row.key = k /\ row.host = NoHost
        /\ row.status \in Pending
        /\ step = "deploy" => row.status = "active"
  BY <1>1, NewRowType DEF NewRow, Pending
<1>4. /\ ~Stored(t)
      /\ \A u \in Tenants \ {t} : tenants'[u] = tenants[u]
      /\ tenants'[t] = IF out = "err" THEN tenants[t] ELSE row
  <2>1. KeyOwnership /\ InsertTenant(t, row, out) /\ row.key \in Keys
    BY <1>1, <1>3 DEF IInv
  <2>2. /\ ~Stored(t)
        /\ IF out = "err"
           THEN tenants' = tenants
           ELSE tenants' = [tenants EXCEPT ![t] = row]
    BY <1>0, <2>1, InsertedIs
  <2> QED
    BY <1>0, <2>2 DEF StorageTypeOK
<1>5. /\ \A b \in Actors \ {r} : pc[b] \in Holding => ptr[b].id # t
      /\ \A i \in 1 .. Len(queue) : queue[i].id # t
  BY <1>0, <1>4 DEF PointersAreStored, GoodPointer
<1>6. /\ out = "ok" => pc'[r] = step
      /\ out # "ok" => pc'[r] = "failed"
      /\ \A b \in Actors \ {r} : /\ pc'[b] = pc[b] /\ ptr'[b] = ptr[b]
                                 /\ deployed'[b] = deployed[b]
      /\ out = "ok" => ptr'[r].id = t /\ ptr'[r].row = row
  BY <1>0, <1>1, <1>2, <1>3 DEF Goto, TypeOK, Actors
<1>7. pc'[r] \in Holding => Good(pc[r], ptr[r], deployed[r], seen)'
  <2> SUFFICES ASSUME pc'[r] \in Holding
               PROVE  Good(pc[r], ptr[r], deployed[r], seen)'
    OBVIOUS
  <2>1. out = "ok" /\ pc'[r] = step
    BY <1>6 DEF Holding, DeploySteps
  <2>2. ptr'[r].id = t /\ ptr'[r].row = row /\ tenants'[t] = row
    BY <1>4, <1>6, <2>1
  <2> QED
    BY <1>1, <1>3, <2>1, <2>2 DEF Good, InHand
<1>8. pc'[r] \in DeploySteps => ptr'[r].row.status = "active"
  BY <1>1, <1>3, <1>6 DEF DeploySteps
<1>9. ~Running(t)' => vm'[t] = NoVM
  BY <1>2 DEF LInv, CloudIsClean, Running
<1>10. tenants'[t].host = NoHost \/ tenants'[t].status # "active"
  BY <1>3, <1>4 DEF Stored
<1>11. /\ \A u \in Tenants \ {t} : tenants'[u] = tenants[u] /\ vm'[u] = vm[u]
       /\ r \in Actors
  BY <1>2, <1>4 DEF Actors
<1>12. queue' = queue /\ seen' = seen
  BY <1>2
<1>13. \A b \in Actors \ {r} : /\ pc'[b] = pc[b] /\ ptr'[b] = ptr[b]
                                /\ deployed'[b] = deployed[b]
  BY <1>6
<1> QED
  BY <1>5, <1>7, <1>8, <1>9, <1>10, <1>11, <1>12, <1>13, ActorMoves
  DEF Good, InHand, Running

LEMMA EnqueueStep ==
  ASSUME IInv, LInv, NEW r \in Requests, Enqueue(r)
  PROVE  LInv'
<1>0. TypeOK /\ PointersAreStored
  BY DEF IInv
<1>1. /\ tenants' = tenants /\ vm' = vm /\ seen' = seen
      /\ deployed' = deployed /\ pc[r] = "enqueue"
  BY DEF Enqueue, storageVars
<1>2. /\ pc'[r] \in {"accepted", "fallback"}
      /\ \A b \in Actors \ {r} : pc'[b] = pc[b] /\ ptr'[b] = ptr[b]
  BY <1>0 DEF Enqueue, Goto, TypeOK, Actors
<1>3. ASSUME NEW i \in 1 .. Len(queue') PROVE Queued(queue[i])'
  <2>1. Queued(ptr[r])
    BY <1>1 DEF LInv, Good, Queued, Holding, Actors
  <2>2. queue'[i] = ptr[r] \/ \E j \in 1 .. Len(queue) : queue'[i] = queue[j]
    <3>1. ptr[r] \in Pointer /\ queue \in Seq(Pointer)
      BY <1>0 DEF TypeOK, Actors
    <3>2. queue' = queue \/ queue' = Append(queue, ptr[r])
      BY DEF Enqueue
    <3>3. CASE queue' = queue
      BY <3>3
    <3>4. CASE queue' = Append(queue, ptr[r])
      BY <3>1, <3>4
    <3> QED
      BY <3>2, <3>3, <3>4
  <2>3. PICK p : p = queue'[i] /\ Queued(p)
    BY <2>1, <2>2 DEF LInv
  <2> QED
    BY <1>1, <2>3 DEF Queued, InHand
<1>4. ASSUME NEW b \in Actors, pc'[b] \in Holding
      PROVE  Good(pc[b], ptr[b], deployed[b], seen)'
  <2>1. b # r
    BY <1>2, <1>4 DEF Holding, DeploySteps
  <2>2. Good(pc[b], ptr[b], deployed[b], seen)
    BY <1>2, <1>4, <2>1 DEF LInv
  <2> QED
    BY <1>1, <1>2, <2>1, <2>2 DEF Good, InHand, Running
<1>5. ASSUME NEW q \in Requests, pc'[q] \in DeploySteps
      PROVE  ptr'[q].row.status = "active"
  BY <1>2, <1>5 DEF LInv, DeploySteps, Actors
<1>6. CloudIsClean' /\ ActiveIsServable'
  BY <1>1 DEF LInv, CloudIsClean, ActiveIsServable, Running
<1> QED
  BY <1>3, <1>4, <1>5, <1>6 DEF LInv

(* The fields of an actor that is done. *)
LEMMA FinishEffect ==
  ASSUME TypeOK, NEW a \in Actors, NEW step, Finish(a, step)
  PROVE  /\ pc'[a] = step
         /\ \A b \in Actors \ {a} : /\ pc'[b] = pc[b] /\ ptr'[b] = ptr[b]
                                    /\ deployed'[b] = deployed[b]
BY DEF Finish, Goto, TypeOK

LEMMA GotoEffect ==
  ASSUME TypeOK, NEW a \in Actors, NEW step, Goto(a, step)
  PROVE  /\ pc'[a] = step
         /\ \A b \in Actors \ {a} : pc'[b] = pc[b]
BY DEF Goto, TypeOK

LEMMA RollbackStep ==
  ASSUME IInv, LInv, NEW r \in Requests, Rollback(r)
  PROVE  LInv'
<1>0. TypeOK /\ PointersAreStored /\ StorageTypeOK /\ r \in Actors
  BY DEF IInv, TypeOK, Actors
<1>1. pc[r] = "rollback" /\ pc[r] \in Holding
  BY DEF Rollback, Holding
<1>2. PICK t \in Tenants : t = ptr[r].id
  BY <1>0, <1>1, HeldPointer
<1>3. PICK out \in Under(r, StorageOutcomes) : DeleteTenant(t, out)
  BY <1>2 DEF Rollback
<1>4. /\ vm' = vm /\ queue' = queue /\ seen' = seen
      /\ Finish(r, "failed")
  BY DEF Rollback
<1>5. tenants[t].host = NoHost
  BY <1>0, <1>1, <1>2 DEF LInv, Good
<1>6. /\ \A u \in Tenants \ {t} : tenants'[u] = tenants[u] /\ vm'[u] = vm[u]
      /\ tenants'[t].host = NoHost
  BY <1>0, <1>3, <1>4, <1>5 DEF DeleteTenant, StorageTypeOK, Row
<1>7. ~Running(t)' => vm'[t] = NoVM
  BY <1>4 DEF LInv, CloudIsClean, Running
<1>8. /\ pc'[r] = "failed"
      /\ \A b \in Actors \ {r} : /\ pc'[b] = pc[b] /\ ptr'[b] = ptr[b]
                                 /\ deployed'[b] = deployed[b]
  BY <1>0, <1>4, FinishEffect
<1>9. pc'[r] \notin Holding /\ pc'[r] \notin DeploySteps
  BY <1>8 DEF Holding, DeploySteps
<1>10. /\ \A b \in Actors \ {r} : pc[b] \in Holding => ptr[b].id # t
       /\ \A i \in 1 .. Len(queue) : queue[i].id # t
  BY <1>0, <1>1, <1>2, HeldAlone
<1> QED
  BY <1>0, <1>4, <1>6, <1>7, <1>8, <1>9, <1>10, ActorMoves

LEMMA SaveCreatedStep ==
  ASSUME IInv, LInv, NEW r \in Requests, SaveCreated(r)
  PROVE  LInv'
<1>0. TypeOK /\ PointersAreStored /\ StorageTypeOK /\ r \in Actors
  BY DEF IInv, TypeOK, Actors
<1>1. pc[r] = "save" /\ pc[r] \in Holding /\ pc[r] \in DeploySteps
  BY DEF SaveCreated, Holding, DeploySteps
<1>2. PICK t \in Tenants, p \in Pointer : p = ptr[r] /\ t = p.id
  BY <1>0, <1>1, HeldPointer
<1>3. PICK row : row = [p.row EXCEPT !.host = deployed[r]]
  OBVIOUS
<1>4. PICK out \in Under(r, StorageOutcomes) :
        /\ UpdateTenant(t, row, out)
        /\ Finish(r, IF UpdateFails(t, row, out) THEN "failed" ELSE "created")
  BY <1>2, <1>3 DEF SaveCreated, CreatedRow
<1>5. vm' = vm /\ queue' = queue /\ seen' = seen
  BY DEF SaveCreated
<1>6. /\ Good("save", p, deployed[r], seen)
      /\ p.row.status = "active"
  BY <1>0, <1>1, <1>2 DEF LInv
<1>7. vm[t] = [host |-> row.host, key |-> row.key] /\ tenants[t].host = NoHost
  <2>1. /\ vm[t] \in Instance /\ vm[t].host = deployed[r]
        /\ vm[t].key = p.row.key
    BY <1>0, <1>2, <1>6 DEF Good, TypeOK, DeployerTypeOK
  <2>2. row.host = deployed[r] /\ row.key = p.row.key
    BY <1>2, <1>3 DEF Pointer, Row
  <2> QED
    BY <1>2, <1>6, <2>1, <2>2 DEF Good, Instance
<1>8. /\ \A u \in Tenants \ {t} : tenants'[u] = tenants[u] /\ vm'[u] = vm[u]
      /\ tenants'[t] = tenants[t] \/ tenants'[t] = row
  BY <1>0, <1>4, <1>5 DEF UpdateTenant, StorageTypeOK
<1>9. ~Running(t)' => vm'[t] = NoVM
  BY <1>5 DEF LInv, CloudIsClean, Running
<1>10. tenants'[t].status = "active" /\ tenants'[t].host # NoHost
       => vm'[t] = [host |-> tenants'[t].host, key |-> tenants'[t].key]
  BY <1>5, <1>7, <1>8
<1>11. /\ pc'[r] \in {"failed", "created"}
       /\ \A b \in Actors \ {r} : /\ pc'[b] = pc[b] /\ ptr'[b] = ptr[b]
                                  /\ deployed'[b] = deployed[b]
  BY <1>0, <1>4, FinishEffect
<1>12. pc'[r] \notin Holding /\ pc'[r] \notin DeploySteps
  BY <1>11 DEF Holding, DeploySteps
<1>13. /\ \A b \in Actors \ {r} : pc[b] \in Holding => ptr[b].id # t
       /\ \A i \in 1 .. Len(queue) : queue[i].id # t
  BY <1>0, <1>1, <1>2, HeldAlone
<1> QED
  BY <1>0, <1>5, <1>8, <1>9, <1>10, <1>11, <1>12, <1>13, ActorMoves

----------------------------------------------------------------------------
(* The worker's own actions. *)

LEMMA TakeStep ==
  ASSUME IInv, LInv, Take
  PROVE  LInv'
<1>0. TypeOK /\ PointersAreStored /\ Worker \in Actors /\ Worker \notin Requests
  BY ProvisioningAssumption DEF IInv, Actors
<1>1. /\ tenants' = tenants /\ vm' = vm /\ seen' = seen
      /\ deployed' = deployed
  BY DEF Take, storageVars
<1>2. /\ queue \in Seq(Pointer) /\ queue # <<>>
      /\ queue' = Tail(queue)
  BY <1>0 DEF Take, TypeOK
<1>3. /\ pc'[Worker] = "mark" /\ ptr'[Worker] = queue[1]
      /\ \A b \in Actors \ {Worker} : pc'[b] = pc[b] /\ ptr'[b] = ptr[b]
  BY <1>0, <1>2 DEF Take, Goto, TypeOK
<1>4. Len(queue) \in Nat /\ Len(queue) >= 1 /\ Queued(queue[1])
  BY <1>2 DEF LInv
<1>5. ASSUME NEW i \in 1 .. Len(queue') PROVE Queued(queue[i])'
  <2>1. i + 1 \in 1 .. Len(queue) /\ queue'[i] = queue[i + 1]
    BY <1>2, <1>4
  <2>2. PICK p : p = queue'[i] /\ Queued(p)
    BY <2>1 DEF LInv
  <2> QED
    BY <1>1, <2>2 DEF Queued, InHand
<1>6. ASSUME NEW b \in Actors, pc'[b] \in Holding
      PROVE  Good(pc[b], ptr[b], deployed[b], seen)'
  <2>1. CASE b = Worker
    <3>1. PICK p : p = ptr'[b] /\ Queued(p)
      BY <1>3, <1>4, <2>1
    <3> QED
      BY <1>1, <1>3, <2>1, <3>1 DEF Good, Queued, InHand
  <2>2. CASE b # Worker
    <3>1. Good(pc[b], ptr[b], deployed[b], seen)
      BY <1>3, <1>6, <2>2 DEF LInv
    <3> QED
      BY <1>1, <1>3, <2>2, <3>1 DEF Good, InHand, Running
  <2> QED
    BY <2>1, <2>2
<1>7. \A r \in Requests : pc'[r] \in DeploySteps => ptr'[r].row.status = "active"
  BY <1>0, <1>3 DEF LInv, Actors
<1>8. CloudIsClean' /\ ActiveIsServable'
  BY <1>1 DEF LInv, CloudIsClean, ActiveIsServable, Running
<1> QED
  BY <1>5, <1>6, <1>7, <1>8 DEF LInv

(* The reads of updateTenantStatus. *)
LEMMA ReadStep ==
  ASSUME IInv, LInv, MarkRead \/ FailRead
  PROVE  LInv'
<1>0. /\ TypeOK /\ PointersAreStored
      /\ Worker \in Actors /\ Worker \notin Requests
  BY ProvisioningAssumption DEF IInv, Actors
<1>1. /\ tenants' = tenants /\ vm' = vm /\ queue' = queue
      /\ pc[Worker] \in {"mark", "failRead"} /\ pc[Worker] \in Holding
  BY DEF MarkRead, FailRead, ReadForStatus, storageVars, Holding
<1>2. PICK p \in Pointer : p = ptr[Worker] /\ InHand(p)
  BY <1>0, <1>1, HeldPointer DEF LInv, Good
<1>3. pc[Worker] = "mark" => tenants[p.id].host = NoHost
  BY <1>0, <1>1, <1>2 DEF LInv, Good
<1>4. \/ Finish(Worker, "idle")
      \/ /\ Goto(Worker, "deploy") /\ ptr' = ptr /\ deployed' = deployed
         /\ pc[Worker] = "mark"
      \/ /\ Goto(Worker, "markWrite") /\ ptr' = ptr /\ deployed' = deployed
         /\ pc[Worker] = "mark" /\ seen' = tenants[p.id]
      \/ /\ Goto(Worker, "failWrite") /\ ptr' = ptr /\ deployed' = deployed
         /\ seen' = tenants[p.id]
  BY <1>2 DEF MarkRead, FailRead, ReadForStatus
<1>5. \A b \in Actors \ {Worker} : /\ pc'[b] = pc[b] /\ ptr'[b] = ptr[b]
                                   /\ deployed'[b] = deployed[b]
  BY <1>0, <1>4, FinishEffect, GotoEffect
<1>6. pc'[Worker] \in Holding => Good(pc[Worker], ptr[Worker], deployed[Worker], seen)'
  <2>1. CASE Finish(Worker, "idle")
    BY <1>0, <2>1, FinishEffect DEF Holding, DeploySteps
  <2>2. CASE ~Finish(Worker, "idle")
    <3>1. /\ ptr'[Worker] = p
          /\ \/ pc'[Worker] = "deploy" /\ pc[Worker] = "mark"
             \/ /\ pc'[Worker] = "markWrite" /\ pc[Worker] = "mark"
                /\ seen' = tenants[p.id]
             \/ pc'[Worker] = "failWrite" /\ seen' = tenants[p.id]
      BY <1>0, <1>2, <1>4, <2>2, GotoEffect
    <3> QED
      BY <1>1, <1>2, <1>3, <3>1 DEF Good, InHand
  <2> QED
    BY <2>1, <2>2
<1> QED
  BY <1>0, <1>1, <1>5, <1>6, QuietMoves DEF Good, InHand, Running

(* The write of "creating_services" stores the row as it was read. *)
LEMMA MarkWriteIsQuiet ==
  ASSUME IInv, LInv, MarkWrite
  PROVE  tenants' = tenants
<1>0. /\ TypeOK /\ PointersAreStored /\ StorageTypeOK /\ Worker \in Actors
  BY DEF IInv, TypeOK, Actors
<1>1. pc[Worker] = "markWrite" /\ pc[Worker] \in Holding
  BY DEF MarkWrite, Holding
<1>2. PICK t \in Tenants : t = ptr[Worker].id
  BY <1>0, <1>1, HeldPointer
<1>3. seen = tenants[t]
  BY <1>0, <1>1, <1>2 DEF LInv, Good
<1>4. \E out : UpdateTenant(t, tenants[t], out)
  BY <1>2, <1>3 DEF MarkWrite
<1>5. [tenants EXCEPT ![t] = tenants[t]] = tenants
  BY <1>0, <1>2 DEF StorageTypeOK
<1> QED
  BY <1>4, <1>5 DEF UpdateTenant

LEMMA MarkWriteStep ==
  ASSUME IInv, LInv, MarkWrite
  PROVE  LInv'
<1>0. TypeOK /\ Worker \in Actors /\ Worker \notin Requests
  BY ProvisioningAssumption DEF IInv, Actors
<1>1. pc[Worker] = "markWrite" /\ pc[Worker] \in Holding
  BY DEF MarkWrite, Holding
<1>2. Good("markWrite", ptr[Worker], deployed[Worker], seen)
  BY <1>0, <1>1 DEF LInv
<1>3. /\ tenants' = tenants /\ vm' = vm /\ queue' = queue /\ ptr' = ptr
      /\ deployed' = deployed /\ Goto(Worker, "deploy")
  BY MarkWriteIsQuiet DEF MarkWrite
<1>4. /\ pc'[Worker] = "deploy"
      /\ \A b \in Actors \ {Worker} : /\ pc'[b] = pc[b] /\ ptr'[b] = ptr[b]
                                      /\ deployed'[b] = deployed[b]
  BY <1>0, <1>3, GotoEffect
<1>5. Good(pc[Worker], ptr[Worker], deployed[Worker], seen)'
  BY <1>2, <1>3, <1>4 DEF Good, InHand
<1> QED
  BY <1>0, <1>3, <1>4, <1>5, QuietMoves DEF Good, InHand, Running

LEMMA FailWriteStep ==
  ASSUME IInv, LInv, FailWrite
  PROVE  LInv'
<1>0. /\ TypeOK /\ PointersAreStored /\ StorageTypeOK
      /\ Worker \in Actors /\ Worker \notin Requests
  BY ProvisioningAssumption DEF IInv, TypeOK, Actors
<1>1. pc[Worker] = "failWrite" /\ pc[Worker] \in Holding
  BY DEF FailWrite, Holding
<1>2. PICK t \in Tenants : t = ptr[Worker].id
  BY <1>0, <1>1, HeldPointer
<1>3. PICK row : row = [seen EXCEPT !.status = "provisioning_failed"]
  OBVIOUS
<1>4. row.status = "provisioning_failed"
  BY <1>0, <1>3 DEF TypeOK, Row
<1>5. PICK out \in StorageOutcomes : UpdateTenant(t, row, out)
  BY <1>2, <1>3 DEF FailWrite, FailedRow
<1>6. vm' = vm /\ queue' = queue /\ Finish(Worker, "idle")
  BY DEF FailWrite
<1>7. /\ \A u \in Tenants \ {t} : tenants'[u] = tenants[u] /\ vm'[u] = vm[u]
      /\ tenants'[t] = tenants[t] \/ tenants'[t] = row
  BY <1>0, <1>5, <1>6 DEF UpdateTenant, StorageTypeOK
<1>8. ~Running(t)' => vm'[t] = NoVM
  BY <1>6 DEF LInv, CloudIsClean, Running
<1>9. tenants'[t].status = "active" /\ tenants'[t].host # NoHost
      => vm'[t] = [host |-> tenants'[t].host, key |-> tenants'[t].key]
  BY <1>4, <1>6, <1>7 DEF LInv, ActiveIsServable
<1>10. /\ pc'[Worker] = "idle"
       /\ \A b \in Actors \ {Worker} : /\ pc'[b] = pc[b] /\ ptr'[b] = ptr[b]
                                       /\ deployed'[b] = deployed[b]
  BY <1>0, <1>6, FinishEffect
<1>11. pc'[Worker] \notin Holding
  BY <1>10 DEF Holding, DeploySteps
<1>12. /\ \A b \in Actors \ {Worker} : pc[b] \in Holding => ptr[b].id # t
       /\ \A i \in 1 .. Len(queue) : queue[i].id # t
  BY <1>0, <1>1, <1>2, HeldAlone
<1> QED
  BY <1>0, <1>6, <1>7, <1>8, <1>9, <1>10, <1>11, <1>12, ActorMoves

LEMMA SaveReadyStep ==
  ASSUME IInv, LInv, SaveReady
  PROVE  LInv'
<1>0. /\ TypeOK /\ PointersAreStored /\ StorageTypeOK
      /\ Worker \in Actors /\ Worker \notin Requests
  BY ProvisioningAssumption DEF IInv, TypeOK, Actors
<1>1. pc[Worker] = "save" /\ pc[Worker] \in Holding
  BY DEF SaveReady, Holding, DeploySteps
<1>2. PICK t \in Tenants, p \in Pointer : p = ptr[Worker] /\ t = p.id
  BY <1>0, <1>1, HeldPointer
<1>3. PICK row : row = [p.row EXCEPT !.host = deployed[Worker],
                                     !.status = "active"]
  OBVIOUS
<1>4. PICK out \in StorageOutcomes :
        /\ UpdateTenant(t, row, out)
        /\ IF UpdateFails(t, row, out)
           THEN /\ Goto(Worker, "failRead")
                /\ ptr' = ptr /\ deployed' = deployed
           ELSE Finish(Worker, "idle")
  BY <1>2, <1>3 DEF SaveReady, ReadyRow
<1>5. vm' = vm /\ queue' = queue /\ seen' = seen
  BY DEF SaveReady
<1>6. Good("save", p, deployed[Worker], seen)
  BY <1>0, <1>1, <1>2 DEF LInv
<1>7. /\ row.host = deployed[Worker] /\ row.key = p.row.key
      /\ row.status = "active"
  BY <1>2, <1>3 DEF Pointer, Row
<1>8. vm[t] = [host |-> row.host, key |-> row.key] /\ tenants[t].host = NoHost
  BY <1>0, <1>2, <1>6, <1>7 DEF Good, TypeOK, DeployerTypeOK, Instance
<1>9. /\ \A u \in Tenants \ {t} : tenants'[u] = tenants[u] /\ vm'[u] = vm[u]
      /\ tenants'[t] = tenants[t] \/ tenants'[t] = row
  BY <1>0, <1>4, <1>5 DEF UpdateTenant, StorageTypeOK
<1>10. ~Running(t)' => vm'[t] = NoVM
  BY <1>5 DEF LInv, CloudIsClean, Running
<1>11. tenants'[t].status = "active" /\ tenants'[t].host # NoHost
       => vm'[t] = [host |-> tenants'[t].host, key |-> tenants'[t].key]
  BY <1>5, <1>8, <1>9
<1>12. /\ pc'[Worker] \in {"idle", "failRead"}
       /\ pc'[Worker] = "failRead" => ptr'[Worker] = p
       /\ \A b \in Actors \ {Worker} : /\ pc'[b] = pc[b] /\ ptr'[b] = ptr[b]
                                       /\ deployed'[b] = deployed[b]
  BY <1>0, <1>2, <1>4, FinishEffect, GotoEffect
<1>13. pc'[Worker] \in Holding => Good(pc[Worker], ptr[Worker], deployed[Worker], seen)'
  <2> SUFFICES ASSUME pc'[Worker] \in Holding
               PROVE  Good(pc[Worker], ptr[Worker], deployed[Worker], seen)'
    OBVIOUS
  <2>1. pc'[Worker] = "failRead" /\ ptr'[Worker] = p
    BY <1>12 DEF Holding, DeploySteps
  <2>2. /\ tenants'[t].key = p.row.key /\ tenants'[t].status \in Pending
        /\ p.row.host = NoHost
    BY <1>2, <1>6, <1>7, <1>9 DEF Good, InHand, Pending
  <2> QED
    BY <1>2, <2>1, <2>2 DEF Good, InHand
<1>14. /\ \A b \in Actors \ {Worker} : pc[b] \in Holding => ptr[b].id # t
       /\ \A i \in 1 .. Len(queue) : queue[i].id # t
  BY <1>0, <1>1, <1>2, HeldAlone
<1> QED
  BY <1>0, <1>5, <1>9, <1>10, <1>11, <1>12, <1>13, <1>14, ActorMoves
  DEF Good, InHand, Running

----------------------------------------------------------------------------
(* provisionTenantServices, by the worker or by a request. *)

LEMMA DeployStep ==
  ASSUME IInv, LInv, NEW a \in Actors, Deploy(a)
  PROVE  LInv'
<1>0. TypeOK /\ PointersAreStored /\ DeployerTypeOK
  BY DEF IInv, TypeOK
<1>1. pc[a] = "deploy" /\ pc[a] \in Holding /\ pc[a] \in DeploySteps
  BY DEF Deploy, Holding, DeploySteps
<1>2. PICK t \in Tenants, p \in Pointer : p = ptr[a] /\ t = p.id
  BY <1>0, <1>1, HeldPointer
<1>3. PICK out \in Under(a, DeployOutcomes) :
        /\ CreateInstance(t, p.row.key, out)
        /\ Goto(a, IF CreateFails(t, out) THEN "cleanup" ELSE "address")
  BY <1>2 DEF Deploy
<1>4. /\ tenants' = tenants /\ queue' = queue /\ seen' = seen
      /\ ptr' = ptr /\ deployed' = deployed
  BY DEF Deploy, storageVars
<1>5. Good("deploy", p, deployed[a], seen)
  BY <1>1, <1>2 DEF LInv
<1>6. /\ InHand(p) /\ tenants[t].host = NoHost
  BY <1>2, <1>5 DEF Good
<1>7. /\ \A u \in Tenants \ {t} : vm'[u] = vm[u]
      /\ vm'[t] = vm[t] \/ vm'[t].host # NoHost
      /\ ~CreateFails(t, out) => vm'[t].host # NoHost /\ vm'[t].key = p.row.key
  <2>1. CASE out = "err" \/ CreateRejected(t)
    BY <1>3, <2>1 DEF CreateInstance, CreateFails
  <2>2. CASE ~(out = "err" \/ CreateRejected(t))
    <3>1. PICK h \in Hosts :
            vm' = [vm EXCEPT ![t] = [host |-> h, key |-> p.row.key]]
      BY <1>3, <2>2 DEF CreateInstance, FreeHosts
    <3>2. vm'[t] = [host |-> h, key |-> p.row.key] /\ h # NoHost
      BY <1>0, <3>1, StorageAssumption DEF DeployerTypeOK
    <3> QED
      BY <1>0, <3>1, <3>2 DEF DeployerTypeOK
  <2> QED
    BY <2>1, <2>2
<1>8. ~Running(t)' => vm'[t] = NoVM
  BY <1>7 DEF LInv, CloudIsClean, Running
<1>9. tenants'[t].host = NoHost
  BY <1>4, <1>6
<1>10. /\ pc'[a] = IF CreateFails(t, out) THEN "cleanup" ELSE "address"
       /\ \A b \in Actors \ {a} : pc'[b] = pc[b]
  BY <1>0, <1>3, GotoEffect
<1>11. Good(pc[a], ptr[a], deployed[a], seen)'
  <2>1. InHand(p)' /\ tenants'[t].host = NoHost
    BY <1>4, <1>6 DEF InHand
  <2>2. pc'[a] \in {"cleanup", "address"}
    BY <1>10
  <2>3. pc'[a] = "address" => vm'[t].host # NoHost /\ vm'[t].key = p.row.key
    BY <1>7, <1>10
  <2> QED
    BY <1>2, <1>4, <2>1, <2>2, <2>3 DEF Good, InHand, Running
<1>12. a \in Requests => ptr'[a].row.status = "active"
  BY <1>1, <1>4 DEF LInv
<1>13. /\ \A b \in Actors \ {a} : pc[b] \in Holding => ptr[b].id # t
       /\ \A i \in 1 .. Len(queue) : queue[i].id # t
  BY <1>0, <1>1, <1>2, HeldAlone
<1>14. \A b \in Actors \ {a} : /\ pc'[b] = pc[b] /\ ptr'[b] = ptr[b]
                                /\ deployed'[b] = deployed[b]
  BY <1>4, <1>10
<1>15. \A u \in Tenants \ {t} : tenants'[u] = tenants[u] /\ vm'[u] = vm[u]
  BY <1>4, <1>7
<1> QED
  BY <1>4, <1>8, <1>9, <1>11, <1>12, <1>13, <1>14, <1>15, ActorMoves
  DEF Good, InHand, Running

(* The address is the machine's, and the key stays the row's. *)
LEMMA AddressStep ==
  ASSUME ReturnsAPIKey, IInv, LInv, NEW a \in Actors, GetAddress(a)
  PROVE  LInv'
<1>0. TypeOK /\ PointersAreStored
  BY DEF IInv
<1>1. pc[a] = "address" /\ pc[a] \in Holding /\ pc[a] \in DeploySteps
  BY DEF GetAddress, Holding, DeploySteps
<1>2. /\ tenants' = tenants /\ vm' = vm /\ queue' = queue /\ seen' = seen
      /\ ptr' = ptr
      /\ \/ Goto(a, "cleanup") /\ deployed' = deployed
         \/ /\ Goto(a, "wait")
            /\ deployed' = [deployed EXCEPT ![a] = vm[ptr[a].id].host]
  BY DEF GetAddress, storageVars, Address
<1>3. Good("address", ptr[a], deployed[a], seen)
  BY <1>1 DEF LInv
<1>4. \A b \in Actors \ {a} : /\ pc'[b] = pc[b] /\ ptr'[b] = ptr[b]
                               /\ deployed'[b] = deployed[b]
  BY <1>0, <1>2, GotoEffect DEF TypeOK
<1>5. \/ pc'[a] = "cleanup"
      \/ pc'[a] = "wait" /\ deployed'[a] = vm[ptr[a].id].host
  BY <1>0, <1>2, GotoEffect DEF TypeOK
<1>6. Good(pc[a], ptr[a], deployed[a], seen)'
  BY <1>2, <1>3, <1>5 DEF Good, InHand, Running
<1>7. a \in Requests => ptr'[a].row.status = "active"
  BY <1>1, <1>2 DEF LInv
<1> QED
  BY <1>2, <1>4, <1>6, <1>7, QuietMoves DEF Good, InHand, Running

(* waitForTenantServices ends, with or without a healthy instance. *)
LEMMA WaitStep ==
  ASSUME IInv, LInv, NEW a \in Actors, ServicesReady(a) \/ ServicesTimeout(a)
  PROVE  LInv'
<1>0. TypeOK
  BY DEF IInv
<1>1. pc[a] = "wait" /\ pc[a] \in Holding /\ pc[a] \in DeploySteps
  BY DEF ServicesReady, ServicesTimeout, Holding, DeploySteps
<1>2. /\ tenants' = tenants /\ vm' = vm /\ queue' = queue /\ seen' = seen
      /\ ptr' = ptr /\ deployed' = deployed
      /\ Goto(a, "save") \/ Goto(a, "cleanup")
  BY DEF ServicesReady, ServicesTimeout, storageVars
<1>3. Good("wait", ptr[a], deployed[a], seen)
  BY <1>1 DEF LInv
<1>4. /\ pc'[a] \in {"save", "cleanup"}
      /\ \A b \in Actors \ {a} : /\ pc'[b] = pc[b] /\ ptr'[b] = ptr[b]
                                  /\ deployed'[b] = deployed[b]
  BY <1>0, <1>2, GotoEffect
<1>5. Good(pc[a], ptr[a], deployed[a], seen)'
  BY <1>2, <1>3, <1>4 DEF Good, InHand, Running
<1>6. a \in Requests => ptr'[a].row.status = "active"
  BY <1>1, <1>2 DEF LInv
<1> QED
  BY <1>2, <1>4, <1>5, <1>6, QuietMoves DEF Good, InHand, Running

(* The instance goes while the row has published no address. *)
LEMMA CleanupStep ==
  ASSUME IInv, LInv, NEW a \in Actors, Cleanup(a)
  PROVE  LInv'
<1>0. TypeOK /\ PointersAreStored /\ DeployerTypeOK
  BY DEF IInv, TypeOK
<1>1. pc[a] = "cleanup" /\ pc[a] \in Holding
  BY DEF Cleanup, Holding, DeploySteps
<1>2. PICK t \in Tenants, p \in Pointer : p = ptr[a] /\ t = p.id
  BY <1>0, <1>1, HeldPointer
<1>3. PICK out : DeleteServices(t, out)
  BY <1>2 DEF Cleanup
<1>4. /\ tenants' = tenants /\ queue' = queue /\ seen' = seen
      /\ ptr' = ptr /\ deployed' = deployed
      /\ Goto(a, "failRead") \/ Goto(a, "rollback")
  BY DEF Cleanup, storageVars
<1>5. Good("cleanup", p, deployed[a], seen)
  BY <1>1, <1>2 DEF LInv
<1>6. InHand(p) /\ tenants[t].host = NoHost
  BY <1>2, <1>5 DEF Good
<1>7. /\ \A u \in Tenants \ {t} : tenants'[u] = tenants[u] /\ vm'[u] = vm[u]
      /\ vm'[t] = vm[t] \/ vm'[t] = NoVM
  BY <1>0, <1>3, <1>4 DEF DeleteServices, DeployerTypeOK
<1>8. ~Running(t)' => vm'[t] = NoVM
  BY <1>7 DEF LInv, CloudIsClean, Running
<1>9. /\ pc'[a] \in {"failRead", "rollback"}
      /\ \A b \in Actors \ {a} : /\ pc'[b] = pc[b] /\ ptr'[b] = ptr[b]
                                  /\ deployed'[b] = deployed[b]
  BY <1>0, <1>4, GotoEffect
<1>10. Good(pc[a], ptr[a], deployed[a], seen)' /\ tenants'[t].host = NoHost
  BY <1>2, <1>4, <1>6, <1>9 DEF Good, InHand
<1>11. pc'[a] \notin DeploySteps
  BY <1>9 DEF DeploySteps
<1>12. /\ \A b \in Actors \ {a} : pc[b] \in Holding => ptr[b].id # t
       /\ \A i \in 1 .. Len(queue) : queue[i].id # t
  BY <1>0, <1>1, <1>2, HeldAlone
<1> QED
  BY <1>4, <1>7, <1>8, <1>9, <1>10, <1>11, <1>12, ActorMoves
  DEF Good, InHand, Running

----------------------------------------------------------------------------
(* What touches neither a row nor a machine. *)

LEMMA IdleStep ==
  ASSUME LInv, \/ \E r \in Requests : Cancel(r)
               \/ UNCHANGED vars
  PROVE  LInv'
<1>1. /\ tenants' = tenants /\ vm' = vm /\ queue' = queue /\ pc' = pc
      /\ ptr' = ptr /\ seen' = seen /\ deployed' = deployed
  BY DEF Cancel, vars, storageVars, provisioningVars
<1>2. \A i \in 1 .. Len(queue') : Queued(queue[i])'
  BY <1>1 DEF LInv, Queued, InHand
<1>3. \A a \in Actors : pc'[a] \in Holding
                        => Good(pc[a], ptr[a], deployed[a], seen)'
  BY <1>1 DEF LInv, Good, InHand, Running
<1>4. /\ \A r \in Requests : pc'[r] \in DeploySteps => ptr'[r].row.status = "active"
      /\ CloudIsClean' /\ ActiveIsServable'
  BY <1>1 DEF LInv, CloudIsClean, ActiveIsServable, Running
<1> QED
  BY <1>2, <1>3, <1>4 DEF LInv

LEMMA CrashStep ==
  ASSUME IInv, LInv, Crash
  PROVE  LInv'
<1>1. tenants' = tenants /\ vm' = vm /\ Len(queue') = 0
  BY DEF Crash, storageVars
<1>2. \A a \in Actors : pc'[a] \notin Holding /\ pc'[a] \notin DeploySteps
  BY DEF Crash, AnsweredAt, Holding, DeploySteps
<1>3. CloudIsClean' /\ ActiveIsServable'
  BY <1>1 DEF LInv, CloudIsClean, ActiveIsServable, Running
<1> QED
  BY <1>1, <1>2, <1>3 DEF LInv, Actors

LEMMA StepLInv ==
  ASSUME ReturnsAPIKey, IInv, LInv, [Next]_vars
  PROVE  LInv'
<1>1. \A r \in Requests : r \in Actors
  BY DEF Actors
<1>2. Worker \in Actors
  BY DEF Actors
<1>3. CASE WorkerProgress
  BY <1>2, <1>3, TakeStep, ReadStep, MarkWriteStep, FailWriteStep,
     SaveReadyStep, DeployStep, AddressStep, WaitStep, CleanupStep
  DEF WorkerProgress
<1>4. ASSUME NEW r \in Requests, HandlerProgress(r) \/ CreateTenantAsync(r)
      PROVE  LInv'
  BY <1>1, <1>4, EnqueueStep, InsertStep, DeployStep, AddressStep, WaitStep,
     CleanupStep, SaveCreatedStep, RollbackStep
  DEF HandlerProgress
<1>5. CASE (\E r \in Requests : Cancel(r)) \/ UNCHANGED vars
  BY <1>5, IdleStep
<1>6. ASSUME NEW a \in Actors, ServicesReady(a) PROVE LInv'
  BY <1>6, WaitStep
<1>7. CASE Crash
  BY <1>7, CrashStep
<1> QED
  BY <1>3, <1>4, <1>5, <1>6, <1>7 DEF Next

LEMMA InductiveLInv == ASSUME ReturnsAPIKey PROVE Spec => [](IInv /\ LInv)
<1>1. IInv /\ LInv /\ [Next]_vars => LInv'
  BY StepLInv
<1>2. QED
  BY InitLInv, Inductive, <1>1, PTL DEF Spec

(* An active row with an address leads to the tenant's own running         *)
(* instance, which accepts the key of the row, whatever writes, commands,  *)
(* clients and restarts do in between.                                     *)
THEOREM ActiveRowsAreServable ==
  ASSUME ReturnsAPIKey PROVE Spec => []ActiveIsServable
<1>1. LInv => ActiveIsServable
  BY DEF LInv
<1>2. QED
  BY InductiveLInv, <1>1, PTL

----------------------------------------------------------------------------
(* What a step does to the table and the cloud, in six kinds. *)

Accepted(t) ==
    /\ ~Stored(t)
    /\ vm' = vm
    /\ \E k \in Keys, s \in Pending :
         /\ \A u \in Tenants : tenants[u].key # k
         /\ tenants' = [tenants EXCEPT ![t] =
                           [status |-> s, key |-> k, host |-> NoHost]]

Unsettled(t) == tenants[t].status \in Pending /\ tenants[t].host = NoHost

Started(t) ==
    /\ Unsettled(t)
    /\ tenants' = tenants
    /\ vm[t] = NoVM
    /\ \E h \in FreeHosts :
         vm' = [vm EXCEPT ![t] = [host |-> h, key |-> tenants[t].key]]

Stopped(t) ==
    /\ Unsettled(t)
    /\ tenants' = tenants
    /\ vm' = [vm EXCEPT ![t] = NoVM]

Activated(t) ==
    /\ Unsettled(t)
    /\ Running(t) /\ vm[t].key = tenants[t].key
    /\ tenants' = [tenants EXCEPT ![t] =
         [status |-> "active", key |-> tenants[t].key, host |-> vm[t].host]]
    /\ vm' = vm

GivenUp(t) ==
    /\ tenants[t].status \in Pending
    /\ \E row \in Row :
         /\ row.status \in {"provisioning_failed", "deleted"}
         /\ row.key = tenants[t].key /\ row.host = tenants[t].host
         /\ tenants' = [tenants EXCEPT ![t] = row]
    /\ vm' = vm

Quiet == tenants' = tenants /\ vm' = vm

Change ==
    \/ Quiet
    \/ \E t \in Tenants : \/ Accepted(t) \/ Started(t) \/ Stopped(t)
                          \/ Activated(t) \/ GivenUp(t)

LEMMA InsertChange ==
  ASSUME IInv, NEW r \in Requests,
         CreateTenantAsync(r) \/ CreateTenantWithProvisioning(r)
  PROVE  Change
<1>0. StorageTypeOK /\ KeyOwnership
  BY DEF IInv, TypeOK
<1>1. PICK s \in {"provisioning", ""}, t \in Tenants, k \in Keys,
           out \in Under(r, StorageOutcomes) : InsertTenant(t, NewRow(s, k), out)
  BY DEF CreateTenantAsync, CreateTenantWithProvisioning
<1>2. vm' = vm
  BY DEF CreateTenantAsync, CreateTenantWithProvisioning
<1>3. PICK q \in Pending :
        NewRow(s, k) = [status |-> q, key |-> k, host |-> NoHost]
  BY DEF NewRow, Pending
<1>4. ~Stored(t) /\ keyOwner[k] = NoTenant
  BY <1>1, NewRowType DEF InsertTenant, FreshID, FreshKey
<1>5. \A u \in Tenants : tenants[u].key # k
  BY <1>0, <1>4, StorageAssumption DEF KeyOwnership, OwnKey
<1>6. \/ tenants' = tenants
      \/ tenants' = [tenants EXCEPT ![t] =
                       [status |-> q, key |-> k, host |-> NoHost]]
  <2>1. NewRow(s, k).key \in Keys
    BY NewRowType
  <2>2. IF out = "err"
        THEN tenants' = tenants
        ELSE tenants' = [tenants EXCEPT ![t] = NewRow(s, k)]
    BY <1>0, <1>1, <2>1, InsertedIs
  <2> QED
    BY <1>3, <2>2
<1>7. CASE tenants' = tenants
  BY <1>2, <1>7 DEF Change, Quiet
<1>8. CASE tenants' # tenants
  <2>1. Accepted(t)
    BY <1>2, <1>4, <1>5, <1>6, <1>8 DEF Accepted
  <2> QED
    BY <2>1 DEF Change
<1> QED
  BY <1>7, <1>8

LEMMA DeployChange ==
  ASSUME IInv, LInv, NEW a \in Actors, Deploy(a)
  PROVE  Change
<1>0. TypeOK /\ PointersAreStored
  BY DEF IInv
<1>1. pc[a] = "deploy" /\ pc[a] \in Holding
  BY DEF Deploy, Holding, DeploySteps
<1>2. PICK t \in Tenants : t = ptr[a].id
  BY <1>0, <1>1, HeldPointer
<1>3. PICK out : CreateInstance(t, ptr[a].row.key, out)
  BY <1>2 DEF Deploy
<1>4. tenants' = tenants
  BY DEF Deploy, storageVars
<1>5. Unsettled(t) /\ ptr[a].row.key = tenants[t].key
  BY <1>1, <1>2 DEF LInv, Good, InHand, Unsettled
<1>6. CASE vm' = vm
  BY <1>4, <1>6 DEF Change, Quiet
<1>7. CASE vm' # vm
  <2>1. ~Running(t) /\ \E h \in FreeHosts :
          vm' = [vm EXCEPT ![t] = [host |-> h, key |-> tenants[t].key]]
    BY <1>3, <1>5, <1>7 DEF CreateInstance, CreateRejected
  <2>2. vm[t] = NoVM
    BY <2>1 DEF LInv, CloudIsClean
  <2>3. Started(t)
    BY <1>4, <1>5, <2>1, <2>2 DEF Started
  <2> QED
    BY <2>3 DEF Change
<1> QED
  BY <1>6, <1>7

LEMMA CleanupChange ==
  ASSUME IInv, LInv, NEW a \in Actors, Cleanup(a)
  PROVE  Change
<1>0. TypeOK /\ PointersAreStored
  BY DEF IInv
<1>1. pc[a] = "cleanup" /\ pc[a] \in Holding
  BY DEF Cleanup, Holding, DeploySteps
<1>2. PICK t \in Tenants : t = ptr[a].id
  BY <1>0, <1>1, HeldPointer
<1>3. tenants' = tenants /\ (vm' = vm \/ vm' = [vm EXCEPT ![t] = NoVM])
  BY <1>2 DEF Cleanup, DeleteServices, storageVars
<1>4. Unsettled(t)
  BY <1>1, <1>2 DEF LInv, Good, InHand, Unsettled
<1>5. Quiet \/ Stopped(t)
  BY <1>3, <1>4 DEF Quiet, Stopped
<1> QED
  BY <1>5 DEF Change

(* The last write of the worker or of a request. *)
LEMMA SaveChange ==
  ASSUME IInv, LInv, SaveReady \/ \E r \in Requests : SaveCreated(r)
  PROVE  Change
<1>0. TypeOK /\ PointersAreStored
  BY DEF IInv
<1>1. PICK a \in Actors :
        /\ pc[a] = "save"
        /\ \E row :
             /\ \/ row = [ptr[a].row EXCEPT !.host = deployed[a],
                                           !.status = "active"]
                \/ /\ a \in Requests
                   /\ row = [ptr[a].row EXCEPT !.host = deployed[a]]
             /\ \E out : UpdateTenant(ptr[a].id, row, out)
  BY DEF SaveReady, SaveCreated, ReadyRow, CreatedRow, Actors
<1>2. pc[a] \in Holding /\ pc[a] \in DeploySteps
  BY <1>1 DEF Holding, DeploySteps
<1>3. PICK t \in Tenants, p \in Pointer : p = ptr[a] /\ t = p.id
  BY <1>0, <1>2, HeldPointer
<1>4. Good("save", p, deployed[a], seen)
  BY <1>1, <1>2, <1>3 DEF LInv
<1>5. /\ Unsettled(t) /\ Running(t) /\ vm[t].key = tenants[t].key
      /\ p.row.key = tenants[t].key /\ deployed[a] = vm[t].host
  BY <1>3, <1>4 DEF Good, InHand, Unsettled
<1>6. a \in Requests => p.row.status = "active"
  BY <1>2, <1>3 DEF LInv
<1>7. PICK row :
        /\ \/ row = [p.row EXCEPT !.host = deployed[a], !.status = "active"]
           \/ a \in Requests /\ row = [p.row EXCEPT !.host = deployed[a]]
        /\ \E out : UpdateTenant(t, row, out)
  BY <1>1, <1>3
<1>8. row = [status |-> "active", key |-> tenants[t].key, host |-> vm[t].host]
  BY <1>3, <1>5, <1>6, <1>7 DEF Pointer, Row
<1>9. \/ tenants' = tenants
      \/ tenants' = [tenants EXCEPT ![t] =
           [status |-> "active", key |-> tenants[t].key, host |-> vm[t].host]]
  BY <1>7, <1>8 DEF UpdateTenant
<1>10. vm' = vm
  BY DEF SaveReady, SaveCreated
<1>11. Quiet \/ Activated(t)
  BY <1>5, <1>9, <1>10 DEF Quiet, Activated
<1> QED
  BY <1>11 DEF Change

LEMMA FailWriteChange ==
  ASSUME IInv, LInv, FailWrite
  PROVE  Change
<1>0. TypeOK /\ PointersAreStored /\ Worker \in Actors
  BY DEF IInv, Actors
<1>1. pc[Worker] = "failWrite" /\ pc[Worker] \in Holding
  BY DEF FailWrite, Holding
<1>2. PICK t \in Tenants : t = ptr[Worker].id
  BY <1>0, <1>1, HeldPointer
<1>3. tenants[t].status \in Pending /\ seen = tenants[t] /\ seen \in Row
  BY <1>0, <1>1, <1>2 DEF LInv, Good, InHand, TypeOK
<1>4. /\ FailedRow \in Row /\ FailedRow.status = "provisioning_failed"
      /\ FailedRow.key = tenants[t].key /\ FailedRow.host = tenants[t].host
  BY <1>3 DEF FailedRow, Row, Statuses
<1>5. vm' = vm /\ \E out : UpdateTenant(t, FailedRow, out)
  BY <1>2 DEF FailWrite
<1>6. Quiet \/ GivenUp(t)
  BY <1>3, <1>4, <1>5 DEF UpdateTenant, Quiet, GivenUp
<1> QED
  BY <1>6 DEF Change

LEMMA RollbackChange ==
  ASSUME IInv, LInv, NEW r \in Requests, Rollback(r)
  PROVE  Change
<1>0. TypeOK /\ PointersAreStored /\ StorageTypeOK /\ r \in Actors
  BY DEF IInv, TypeOK, Actors
<1>1. pc[r] = "rollback" /\ pc[r] \in Holding
  BY DEF Rollback, Holding
<1>2. PICK t \in Tenants : t = ptr[r].id
  BY <1>0, <1>1, HeldPointer
<1>3. tenants[t].status \in Pending /\ tenants[t] \in Row
  BY <1>0, <1>1, <1>2 DEF LInv, Good, InHand, StorageTypeOK
<1>4. PICK row : row = [tenants[t] EXCEPT !.status = "deleted"]
  OBVIOUS
<1>5. /\ row \in Row /\ row.status = "deleted"
      /\ row.key = tenants[t].key /\ row.host = tenants[t].host
  BY <1>3, <1>4 DEF Row, Statuses
<1>6. /\ vm' = vm
      /\ \/ tenants' = tenants
         \/ tenants' = [tenants EXCEPT ![t] = row]
  BY <1>0, <1>2, <1>4 DEF Rollback, DeleteTenant, StorageTypeOK
<1>7. Quiet \/ GivenUp(t)
  BY <1>3, <1>5, <1>6 DEF Quiet, GivenUp
<1> QED
  BY <1>7 DEF Change

LEMMA StepChanges ==
  ASSUME IInv, LInv, [Next]_vars
  PROVE  Change
<1>1. Worker \in Actors /\ \A r \in Requests : r \in Actors
  BY DEF Actors
<1>2. CASE Take \/ MarkRead \/ FailRead \/ Crash \/ UNCHANGED vars
  BY <1>2 DEF Take, MarkRead, FailRead, ReadForStatus, Crash, vars,
     storageVars, Change, Quiet
<1>3. CASE MarkWrite
  BY <1>3, MarkWriteIsQuiet DEF MarkWrite, Change, Quiet
<1>4. ASSUME NEW a \in Actors,
             GetAddress(a) \/ ServicesReady(a) \/ ServicesTimeout(a)
      PROVE  Change
  BY <1>4 DEF GetAddress, ServicesReady, ServicesTimeout, storageVars, Change,
     Quiet
<1>5. ASSUME NEW r \in Requests, Enqueue(r) \/ Cancel(r)
      PROVE  Change
  BY <1>5 DEF Enqueue, Cancel, storageVars, Change, Quiet
<1>6. CASE WorkerProgress
  BY <1>1, <1>2, <1>3, <1>4, <1>6, FailWriteChange, SaveChange,
     DeployChange, CleanupChange
  DEF WorkerProgress
<1>7. ASSUME NEW r \in Requests, HandlerProgress(r) \/ CreateTenantAsync(r)
      PROVE  Change
  BY <1>1, <1>4, <1>5, <1>7, InsertChange, DeployChange, CleanupChange,
     SaveChange, RollbackChange
  DEF HandlerProgress
<1> QED
  BY <1>2, <1>4, <1>5, <1>6, <1>7 DEF Next

----------------------------------------------------------------------------
(* The key a client got stays the key of the row, and an address once      *)
(* published is not replaced.                                              *)
THEOREM PublishedRowsStay ==
  ASSUME ReturnsAPIKey PROVE Spec => PublishedStays
<1>1. IInv /\ Change =>
        \A t \in Tenants : Stored(t) =>
          /\ tenants'[t].key = tenants[t].key
          /\ tenants[t].host # NoHost => tenants'[t].host = tenants[t].host
  <2> SUFFICES ASSUME IInv, Change, NEW t \in Tenants, Stored(t)
               PROVE  /\ tenants'[t].key = tenants[t].key
                      /\ tenants[t].host # NoHost
                           => tenants'[t].host = tenants[t].host
    OBVIOUS
  <2>0. tenants \in [Tenants -> Row]
    BY DEF IInv, TypeOK, StorageTypeOK
  <2>1. CASE Quiet
    BY <2>1 DEF Quiet
  <2>2. ASSUME NEW u \in Tenants, Accepted(u)
        PROVE  tenants'[t] = tenants[t]
    BY <2>0, <2>2 DEF Accepted
  <2>3. ASSUME NEW u \in Tenants, Started(u) \/ Stopped(u)
        PROVE  tenants'[t] = tenants[t]
    BY <2>3 DEF Started, Stopped
  <2>4. ASSUME NEW u \in Tenants, Activated(u) \/ GivenUp(u)
        PROVE  \/ tenants'[t] = tenants[t]
               \/ /\ tenants'[t].key = tenants[t].key
                  /\ tenants[t].host \in {NoHost, tenants'[t].host}
    BY <2>0, <2>4 DEF Activated, GivenUp, Unsettled
  <2> QED
    BY <2>1, <2>2, <2>3, <2>4 DEF Change
<1>2. IInv /\ LInv /\ [Next]_vars =>
        [\A t \in Tenants : Stored(t) =>
          /\ tenants'[t].key = tenants[t].key
          /\ tenants[t].host # NoHost => tenants'[t].host = tenants[t].host]_vars
  BY <1>1, StepChanges
<1>3. QED
  BY InductiveLInv, <1>2, PTL DEF Spec, PublishedStays

----------------------------------------------------------------------------
(* The refinement. *)

LEMMA PhaseIs ==
  ASSUME NEW row
  PROVE  /\ row.status = "none" => PhaseOf(row) = "none"
         /\ row.status \in Pending /\ row.host = NoHost
              => PhaseOf(row) = "pending"
         /\ row.status = "provisioning" => PhaseOf(row) = "pending"
         /\ row.status = "active" /\ row.host # NoHost
              => PhaseOf(row) = "active"
         /\ row.status \in {"provisioning_failed", "deleted"}
              => PhaseOf(row) = "failed"
BY DEF PhaseOf, Pending

LEMMA ChangeIsAbstract ==
  ASSUME IInv, Change
  PROVE  [Lifecycle!Next]_(Lifecycle!vars)
<1>0. tenants \in [Tenants -> Row] /\ vm \in [Tenants -> Instance]
  BY DEF IInv, TypeOK, StorageTypeOK, DeployerTypeOK
<1>1. CASE Quiet
  BY <1>1 DEF Quiet, Lifecycle!vars
<1>2. ASSUME NEW t \in Tenants, Accepted(t)
      PROVE  Lifecycle!Accept(t)
  <2>1. PICK row :
          /\ row.status \in Pending /\ row.host = NoHost
          /\ row.key \in Keys
          /\ \A u \in Tenants : tenants[u].key # row.key
          /\ tenants' = [tenants EXCEPT ![t] = row]
    BY <1>2 DEF Accepted
  <2>2. PhaseOf(tenants[t]) = "none" /\ PhaseOf(row) = "pending"
    BY <1>2, <2>1, PhaseIs DEF Accepted, Stored
  <2>3. /\ tenants'[t] = row
        /\ \A u \in Tenants \ {t} : tenants'[u] = tenants[u]
    BY <1>0, <2>1
  <2>4. vm' = vm
    BY <1>2 DEF Accepted
  <2>5. \A u \in Tenants :
          /\ PhaseOf(tenants'[u]) =
               IF u = t THEN "pending" ELSE PhaseOf(tenants[u])
          /\ tenants'[u].key = IF u = t THEN row.key ELSE tenants[u].key
    BY <2>1, <2>2, <2>3
  <2> QED
    BY <2>1, <2>2, <2>4, <2>5 DEF Lifecycle!Accept
<1>3. ASSUME NEW t \in Tenants, Started(t)
      PROVE  Lifecycle!StartBackend(t)
  <2>1. PhaseOf(tenants[t]) = "pending"
    BY <1>3, PhaseIs DEF Started, Unsettled
  <2> QED
    BY <1>0, <1>3, <2>1
    DEF Started, FreeHosts, NoVM, Lifecycle!StartBackend, Lifecycle!NoBackend
<1>4. ASSUME NEW t \in Tenants, Stopped(t)
      PROVE  Lifecycle!StopBackend(t)
  <2>1. PhaseOf(tenants[t]) = "pending"
    BY <1>4, PhaseIs DEF Stopped, Unsettled
  <2> QED
    BY <1>0, <1>4, <2>1
    DEF Stopped, NoVM, Lifecycle!StopBackend, Lifecycle!NoBackend
<1>5. ASSUME NEW t \in Tenants, Activated(t)
      PROVE  Lifecycle!Activate(t)
  <2>1. PICK row : /\ row.status = "active" /\ row.key = tenants[t].key
                   /\ row.host = vm[t].host
                   /\ tenants' = [tenants EXCEPT ![t] = row]
    BY <1>5 DEF Activated
  <2>2. PhaseOf(tenants[t]) = "pending" /\ PhaseOf(row) = "active"
    BY <1>5, <2>1, PhaseIs DEF Activated, Unsettled, Running
  <2>3. /\ tenants'[t] = row
        /\ \A u \in Tenants \ {t} : tenants'[u] = tenants[u]
    BY <1>0, <2>1
  <2>4. vm' = vm /\ vm[t].host # NoHost /\ vm[t].key = tenants[t].key
    BY <1>5 DEF Activated, Running
  <2>5. \A u \in Tenants :
          /\ PhaseOf(tenants'[u]) =
               IF u = t THEN "active" ELSE PhaseOf(tenants[u])
          /\ tenants'[u].key = tenants[u].key
    BY <2>1, <2>2, <2>3
  <2> QED
    BY <2>2, <2>4, <2>5 DEF Lifecycle!Activate
<1>6. ASSUME NEW t \in Tenants, GivenUp(t)
      PROVE  Lifecycle!GiveUp(t)
  <2>1. PICK row \in Row :
          /\ row.status \in {"provisioning_failed", "deleted"}
          /\ row.key = tenants[t].key
          /\ tenants' = [tenants EXCEPT ![t] = row]
    BY <1>6 DEF GivenUp
  <2>2. /\ PhaseOf(tenants[t]) \in {"pending", "active"}
        /\ PhaseOf(row) = "failed"
    BY <1>6, <2>1, PhaseIs DEF GivenUp, Pending
  <2>3. /\ tenants'[t] = row
        /\ \A u \in Tenants \ {t} : tenants'[u] = tenants[u]
    BY <1>0, <2>1
  <2>4. vm' = vm
    BY <1>6 DEF GivenUp
  <2>5. \A u \in Tenants :
          /\ PhaseOf(tenants'[u]) =
               IF u = t THEN "failed" ELSE PhaseOf(tenants[u])
          /\ tenants'[u].key = tenants[u].key
    BY <2>1, <2>2, <2>3
  <2> QED
    BY <2>2, <2>4, <2>5 DEF Lifecycle!GiveUp
<1> QED
  BY <1>1, <1>2, <1>3, <1>4, <1>5, <1>6 DEF Change, Lifecycle!Next

(* Queue, worker, handlers and all their faults are, to whoever looks at   *)
(* the table and the cloud, the lifecycle of TenantLifecycle.              *)
THEOREM Refinement ==
  ASSUME ReturnsAPIKey PROVE Spec => ImplementsLifecycle
<1>1. Init => Lifecycle!Init
  <2> SUFFICES ASSUME Init PROVE Lifecycle!Init
    OBVIOUS
  <2>1. \A t \in Tenants : tenants[t] = NoRow /\ vm = [u \in Tenants |-> NoVM]
    BY DEF Init, StorageInit, DeployerInit
  <2>2. vm = [u \in Tenants |-> NoVM]
    BY DEF Init, DeployerInit
  <2>3. PhaseOf(NoRow) = "none" /\ NoRow.key = NoKey
    BY PhaseIs DEF NoRow
  <2> QED
    BY <2>1, <2>2, <2>3 DEF Lifecycle!Init, Lifecycle!NoBackend, NoVM
<1>2. IInv /\ LInv /\ [Next]_vars => [Lifecycle!Next]_(Lifecycle!vars)
  BY StepChanges, ChangeIsAbstract
<1>3. QED
  BY InductiveLInv, <1>1, <1>2, PTL DEF Spec, ImplementsLifecycle, Lifecycle!Spec

----------------------------------------------------------------------------
(* Where the database answers, clients wait and nothing restarts, nothing  *)
(* is left behind: whatever deployments do, every error path settles its   *)
(* row and removes its machine.                                            *)

Reliable ==
    /\ ReturnsAPIKey
    /\ StorageOutcomes \subseteq {"ok"}
    /\ "err" \notin DeleteOutcomes
    /\ ~MayCrash
    /\ ~MayCancel

(* Steps of an actor whose tenant has no machine. *)
Bare == {"enqueue", "mark", "markWrite", "deploy", "failRead", "failWrite",
         "rollback"}

(* The three properties, of one tenant. *)
Kept(t) ==
    /\ Running(t) => \/ t \in HandledIds
                     \/ /\ tenants[t].status = "active"
                        /\ tenants[t].host = vm[t].host
    /\ tenants[t].status = "provisioning" =>
         t \in QueuedIds \cup HandledIds \cup OrphanIds
    /\ tenants[t].status = "active" /\ tenants[t].host = NoHost =>
         t \in HandledIds

RInv ==
    /\ cancelled = {}
    /\ \A t \in Tenants : Stored(t) => tenants[t].key \in Keys
    /\ \A i \in 1 .. Len(queue) : ~Running(queue[i].id)
    /\ \A a \in Actors : pc[a] \in Bare => ~Running(ptr[a].id)
    /\ \A a \in Actors : pc[a] \notin Holding => ptr[a].id = NoTenant
    /\ \A r \in Requests :
         pc[r] = "enqueue" => tenants[ptr[r].id].status = "provisioning"
    /\ \A r \in Requests : pc[r] \in {"idle", "enqueue"} => orphan[r] = NoTenant
    /\ \A t \in Tenants : Kept(t)

LEMMA InitRInv == Init => RInv
<1> SUFFICES ASSUME Init PROVE RInv
  OBVIOUS
<1>1. Len(queue) = 0 /\ cancelled = {}
  BY DEF Init
<1>2. \A a \in Actors : pc[a] = "idle" /\ ptr[a].id = NoTenant
  BY DEF Init, Nobody
<1>3. \A t \in Tenants : tenants[t].status = "none" /\ vm[t].host = NoHost
  BY DEF Init, StorageInit, DeployerInit, NoRow, NoVM
<1>4. \A r \in Requests : orphan[r] = NoTenant
  BY DEF Init
<1> QED
  BY <1>1, <1>2, <1>3, <1>4 DEF RInv, Bare, Stored, Running, Kept, Actors

(* A write of the row's own key is not refused. *)
LEMMA NotRefused ==
  ASSUME IInv, RInv, NEW t \in Tenants, Stored(t), NEW row,
         row.key = tenants[t].key
  PROVE  ~UpdateRejected(t, row)
<1>1. KeyOwnership /\ tenants[t].key \in Keys
  BY DEF IInv, RInv
<1>2. ASSUME NEW u \in Tenants \ {t}, Stored(u), tenants[u].key = row.key
      PROVE  FALSE
  BY <1>1, <1>2, StorageAssumption DEF KeyOwnership, OwnKey
<1> QED
  BY <1>2 DEF UpdateRejected, KeyTaken

LEMMA BareHolds == Bare \subseteq Holding
BY DEF Bare, Holding, DeploySteps

(* A step of one actor and its tenant. *)
LEMMA HandMoves ==
  ASSUME IInv, RInv, NEW a \in Actors, NEW t \in Tenants,
         \A u \in Tenants \ {t} : tenants'[u] = tenants[u] /\ vm'[u] = vm[u],
         queue' = queue, orphan' = orphan, cancelled' = cancelled,
         \A b \in Actors \ {a} : pc'[b] = pc[b] /\ ptr'[b] = ptr[b],
         \A b \in Actors \ {a} : pc[b] \in Holding => ptr[b].id # t,
         \A i \in 1 .. Len(queue) : queue[i].id # t,
         ptr[a].id \in {t, NoTenant},
         Stored(t)' => tenants'[t].key \in Keys,
         pc'[a] \in Bare => ~Running(ptr[a].id)',
         pc'[a] \notin Holding => ptr'[a].id = NoTenant,
         pc'[a] = "enqueue" => tenants'[ptr'[a].id].status = "provisioning",
         a \in Requests /\ pc'[a] \in {"idle", "enqueue"} => orphan[a] = NoTenant,
         Kept(t)'
  PROVE  RInv'
<1>0. TypeOK /\ PointersAreStored
  BY DEF IInv
<1>1. \A u \in Tenants : Stored(u)' => tenants'[u].key \in Keys
  BY DEF RInv, Stored
<1>2. \A i \in 1 .. Len(queue') : ~Running(queue[i].id)'
  BY <1>0 DEF RInv, PointersAreStored, GoodPointer, Running
<1>3. ASSUME NEW b \in Actors \ {a}, pc'[b] \in Holding
      PROVE  ptr[b].id \in Tenants \ {t}
  BY <1>0, <1>3 DEF PointersAreStored, GoodPointer
<1>4. ASSUME NEW b \in Actors, pc'[b] \in Bare PROVE ~Running(ptr[b].id)'
  <2>1. CASE b = a
    BY <1>4, <2>1
  <2>2. CASE b # a
    <3>1. pc'[b] \in Holding /\ pc'[b] = pc[b] /\ ptr'[b] = ptr[b]
      BY <1>4, <2>2, BareHolds
    <3>2. ptr[b].id \in Tenants \ {t}
      BY <1>3, <2>2, <3>1
    <3>3. ~Running(ptr[b].id)
      BY <1>4, <3>1 DEF RInv
    <3> QED
      BY <3>1, <3>2, <3>3 DEF Running
  <2> QED
    BY <2>1, <2>2
<1>5. \A b \in Actors : pc'[b] \notin Holding => ptr'[b].id = NoTenant
  BY DEF RInv
<1>6. ASSUME NEW r \in Requests, pc'[r] = "enqueue"
      PROVE  tenants'[ptr'[r].id].status = "provisioning"
  <2>1. r \in Actors /\ pc'[r] \in Holding
    BY <1>6 DEF Actors, Holding
  <2>2. CASE r = a
    BY <1>6, <2>2
  <2>3. CASE r # a
    <3>1. ptr[r].id \in Tenants \ {t}
      BY <1>3, <2>1, <2>3
    <3>2. tenants[ptr[r].id].status = "provisioning" /\ ptr'[r] = ptr[r]
      BY <1>6, <2>1, <2>3 DEF RInv
    <3> QED
      BY <3>1, <3>2
  <2> QED
    BY <2>2, <2>3
<1>7. ASSUME NEW u \in Tenants PROVE Kept(u)'
  <2>1. CASE u = t
    BY <2>1
  <2>2. CASE u # t
    <3>1. u \in HandledIds => u \in HandledIds'
      BY <2>2, StorageAssumption DEF HandledIds
    <3>2. QueuedIds' = QueuedIds /\ OrphanIds' = OrphanIds
      BY DEF QueuedIds, OrphanIds
    <3>3. tenants'[u] = tenants[u] /\ vm'[u] = vm[u] /\ Kept(u)
      BY <2>2 DEF RInv
    <3> QED
      BY <3>1, <3>2, <3>3 DEF Kept, Running
  <2> QED
    BY <2>1, <2>2
<1>8. \A r \in Requests :
        pc'[r] \in {"idle", "enqueue"} => orphan'[r] = NoTenant
  BY DEF RInv, Actors
<1> QED
  BY <1>1, <1>2, <1>4, <1>5, <1>6, <1>7, <1>8 DEF RInv

(* A tenant that stays in its actor's hands. *)
LEMMA StaysInHand ==
  ASSUME IInv, RInv, NEW a \in Actors, pc[a] \in Holding,
         tenants' = tenants, ptr' = ptr,
         \A u \in Tenants \ {ptr[a].id} : vm'[u] = vm[u],
         queue' = queue, orphan' = orphan, cancelled' = cancelled,
         \A b \in Actors \ {a} : pc'[b] = pc[b],
         pc'[a] \in Holding, pc'[a] # "enqueue",
         pc'[a] \in Bare => ~Running(ptr[a].id)'
  PROVE  RInv'
<1>0. TypeOK /\ PointersAreStored
  BY DEF IInv
<1>1. PICK t \in Tenants : t = ptr[a].id
  BY <1>0, HeldPointer
<1>2. t \in HandledIds'
  BY <1>1 DEF HandledIds
<1>3. Kept(t)'
  BY <1>2 DEF Kept
<1>4. /\ \A b \in Actors \ {a} : pc[b] \in Holding => ptr[b].id # t
      /\ \A i \in 1 .. Len(queue) : queue[i].id # t
  BY <1>1, HeldAlone
<1>5. Stored(t)' => tenants'[t].key \in Keys
  BY DEF RInv, Stored
<1>6. pc'[a] # "idle"
  BY DEF Holding, DeploySteps
<1> QED
  BY <1>1, <1>3, <1>4, <1>5, <1>6, HandMoves DEF Running

LEMMA InsertKeeps ==
  ASSUME Reliable, IInv, RInv, NEW r \in Requests,
         CreateTenantAsync(r) \/ CreateTenantWithProvisioning(r)
  PROVE  RInv'
<1>0. TypeOK /\ PointersAreStored /\ StorageTypeOK /\ r \in Actors
  BY DEF IInv, TypeOK, Actors
<1>1. PICK s \in {"provisioning", ""}, step \in {"enqueue", "deploy"},
           t \in Tenants, k \in Keys, out \in Under(r, StorageOutcomes) :
        /\ step = "enqueue" => s = "provisioning" /\ pc[r] = "idle"
        /\ InsertTenant(t, NewRow(s, k), out)
        /\ Goto(r, IF out = "ok" THEN step ELSE "failed")
        /\ ptr' = IF out = "ok"
                  THEN [ptr EXCEPT ![r] = [id |-> t, row |-> NewRow(s, k)]]
                  ELSE ptr
  <2>1. CASE CreateTenantAsync(r)
    BY <2>1, CreatedIs DEF CreateTenantAsync
  <2>2. CASE CreateTenantWithProvisioning(r)
    BY <2>2, CreatedIs
  <2> QED
    BY <2>1, <2>2
<1>2. /\ vm' = vm /\ queue' = queue /\ orphan' = orphan
      /\ cancelled' = cancelled /\ pc[r] \in {"idle", "fallback"}
  BY DEF CreateTenantAsync, CreateTenantWithProvisioning
<1>3. out = "ok"
  BY DEF RInv, Under, Reliable
<1>4. PICK row : /\ row = NewRow(s, k) /\ row.key = k
                 /\ s = "provisioning" => row.status = "provisioning"
  <2>1. NewRow(s, k).key = k
    BY NewRowType
  <2>2. s = "provisioning" => NewRow(s, k).status = "provisioning"
    BY DEF NewRow
  <2> QED
    BY <2>1, <2>2
<1>5. /\ ~Stored(t)
      /\ \A u \in Tenants \ {t} : tenants'[u] = tenants[u]
      /\ tenants'[t] = row
  <2>1. KeyOwnership /\ InsertTenant(t, row, out) /\ row.key \in Keys
    BY <1>1, <1>4 DEF IInv
  <2>2. /\ ~Stored(t)
        /\ IF out = "err"
           THEN tenants' = tenants
           ELSE tenants' = [tenants EXCEPT ![t] = row]
    BY <1>0, <2>1, InsertedIs
  <2> QED
    BY <1>0, <1>3, <2>2 DEF StorageTypeOK
<1>6. ~Running(t)
  <2>1. t \notin HandledIds
    BY <1>0, <1>5, StorageAssumption
    DEF HandledIds, PointersAreStored, GoodPointer
  <2>2. tenants[t].status # "active"
    BY <1>5 DEF Stored
  <2> QED
    BY <2>1, <2>2 DEF RInv, Kept
<1>7. /\ \A b \in Actors \ {r} : pc[b] \in Holding => ptr[b].id # t
      /\ \A i \in 1 .. Len(queue) : queue[i].id # t
  BY <1>0, <1>5 DEF PointersAreStored, GoodPointer
<1>8. /\ pc'[r] = step /\ ptr'[r].id = t
      /\ \A b \in Actors \ {r} : pc'[b] = pc[b] /\ ptr'[b] = ptr[b]
  BY <1>0, <1>1, <1>3 DEF Goto, TypeOK
<1>9. ptr[r].id = NoTenant
  BY <1>0, <1>2 DEF RInv, Holding, DeploySteps
<1>10. ~Running(ptr[r].id)'
  BY <1>2, <1>6, <1>8 DEF Running
<1>11. Kept(t)'
  <2>1. t \in HandledIds'
    BY <1>0, <1>8 DEF HandledIds
  <2> QED
    BY <2>1 DEF Kept
<1>12. step \in Holding
  BY <1>1 DEF Holding, DeploySteps
<1>13. step = "enqueue" => /\ tenants'[ptr'[r].id].status = "provisioning"
                           /\ orphan[r] = NoTenant
  BY <1>1, <1>4, <1>5, <1>8 DEF RInv
<1>14. \A u \in Tenants \ {t} : tenants'[u] = tenants[u] /\ vm'[u] = vm[u]
  BY <1>2, <1>5
<1>15. tenants'[t].key \in Keys /\ step # "idle"
  BY <1>1, <1>4, <1>5
<1> QED
  BY <1>0, <1>2, <1>7, <1>8, <1>9, <1>10, <1>11, <1>12, <1>13, <1>14, <1>15,
     HandMoves DEF Running

LEMMA EnqueueKeeps ==
  ASSUME IInv, RInv, NEW r \in Requests, Enqueue(r)
  PROVE  RInv'
<1>0. TypeOK /\ PointersAreStored /\ r \in Actors
  BY DEF IInv, Actors
<1>1. /\ tenants' = tenants /\ vm' = vm /\ cancelled' = cancelled
      /\ pc[r] = "enqueue"
  BY DEF Enqueue, storageVars
<1>2. /\ pc'[r] \in {"accepted", "fallback"} /\ ptr'[r].id = NoTenant
      /\ \A b \in Actors \ {r} : pc'[b] = pc[b] /\ ptr'[b] = ptr[b]
  BY <1>0 DEF Enqueue, Goto, TypeOK, Nobody
<1>3. PICK p \in Pointer : /\ p = ptr[r] /\ p.id \in Tenants /\ ~Running(p.id)
                           /\ tenants[p.id].status = "provisioning"
  BY <1>0, <1>1, HeldPointer DEF RInv, Bare, Holding
<1>4. orphan \in [Requests -> Tenants \cup {NoTenant}] /\ orphan[r] = NoTenant
  BY <1>0, <1>1 DEF TypeOK, RInv
<1>5. \/ queue' = Append(queue, p) /\ orphan' = orphan
      \/ queue' = queue /\ orphan' = [orphan EXCEPT ![r] = p.id]
  BY <1>3 DEF Enqueue
<1>6. queue \in Seq(Pointer)
  BY <1>0 DEF TypeOK
<1>7. /\ \A i \in 1 .. Len(queue') : queue'[i].id = p.id \/ queue'[i].id \in QueuedIds
      /\ QueuedIds \subseteq QueuedIds'
      /\ queue' = queue \/ p.id \in QueuedIds'
  <2>1. CASE queue' = queue
    BY <2>1 DEF QueuedIds
  <2>2. CASE queue' = Append(queue, p)
    <3>1. /\ Len(queue) \in Nat /\ Len(queue') = Len(queue) + 1
          /\ queue'[Len(queue) + 1] = p
          /\ \A i \in 1 .. Len(queue) : queue'[i] = queue[i]
      BY <1>6, <2>2
    <3>2. Len(queue) + 1 \in 1 .. Len(queue')
      BY <3>1
    <3>3. \A i \in 1 .. Len(queue) : i \in 1 .. Len(queue')
      BY <3>1
    <3>4. \A i \in 1 .. Len(queue') : i \in 1 .. Len(queue) \/ i = Len(queue) + 1
      BY <3>1
    <3> QED
      BY <3>1, <3>2, <3>3, <3>4 DEF QueuedIds
  <2> QED
    BY <1>5, <2>1, <2>2
<1>8. \A i \in 1 .. Len(queue') : ~Running(queue[i].id)'
  BY <1>1, <1>3, <1>7 DEF RInv, QueuedIds, Running
<1>9. OrphanIds \ {NoTenant} \subseteq OrphanIds'
  BY <1>4, <1>5 DEF OrphanIds
<1>10. ASSUME NEW u \in Tenants PROVE Kept(u)'
  <2>1. Kept(u)
    BY DEF RInv
  <2>2. CASE u = p.id
    <3>1. u \in QueuedIds' \cup OrphanIds'
      BY <1>4, <1>5, <1>7, <2>2 DEF OrphanIds, QueuedIds
    <3> QED
      BY <1>1, <1>3, <2>2, <3>1 DEF Kept, Running
  <2>3. CASE u # p.id
    <3>1. u \in HandledIds => u \in HandledIds'
      BY <1>2, <1>3, <2>3 DEF HandledIds
    <3>2. u \in QueuedIds \cup OrphanIds => u \in QueuedIds' \cup OrphanIds'
      BY <1>7, <1>9, StorageAssumption
    <3> QED
      BY <1>1, <2>1, <3>1, <3>2 DEF Kept, Running
  <2> QED
    BY <2>2, <2>3
<1>11. /\ pc'[r] \notin Bare /\ pc'[r] \notin {"idle", "enqueue"}
       /\ \A q \in Requests : q # r => orphan'[q] = orphan[q]
  BY <1>2, <1>4, <1>5 DEF Bare
<1>12. \A b \in Actors : pc'[b] \in Bare => ~Running(ptr[b].id)'
  BY <1>1, <1>2, <1>11 DEF RInv, Running
<1>13. \A b \in Actors : pc'[b] \notin Holding => ptr'[b].id = NoTenant
  BY <1>2 DEF RInv
<1>14. \A q \in Requests :
         /\ pc'[q] = "enqueue" => tenants'[ptr'[q].id].status = "provisioning"
         /\ pc'[q] \in {"idle", "enqueue"} => orphan'[q] = NoTenant
  BY <1>1, <1>2, <1>11 DEF RInv, Actors
<1>15. \A t \in Tenants : Stored(t)' => tenants'[t].key \in Keys
  BY <1>1 DEF RInv, Stored
<1> QED
  BY <1>1, <1>8, <1>10, <1>12, <1>13, <1>14, <1>15 DEF RInv

LEMMA TakeKeeps ==
  ASSUME IInv, RInv, Take
  PROVE  RInv'
<1>0. /\ TypeOK /\ PointersAreStored
      /\ Worker \in Actors /\ Worker \notin Requests
  BY ProvisioningAssumption DEF IInv, Actors
<1>1. /\ tenants' = tenants /\ vm' = vm /\ cancelled' = cancelled
      /\ orphan' = orphan /\ pc[Worker] = "idle"
  BY DEF Take, storageVars
<1>2. /\ queue \in Seq(Pointer) /\ queue # <<>> /\ queue' = Tail(queue)
  BY <1>0 DEF Take, TypeOK
<1>3. /\ pc'[Worker] = "mark" /\ ptr'[Worker] = queue[1]
      /\ \A b \in Actors \ {Worker} : pc'[b] = pc[b] /\ ptr'[b] = ptr[b]
  BY <1>0, <1>2 DEF Take, Goto, TypeOK
<1>4. /\ Len(queue) \in Nat /\ Len(queue) >= 1
      /\ Len(queue') = Len(queue) - 1
      /\ \A i \in 1 .. Len(queue') : queue'[i] = queue[i + 1]
  BY <1>2
<1>5. \A i \in 1 .. Len(queue') : ~Running(queue[i].id)'
  <2> SUFFICES ASSUME NEW i \in 1 .. Len(queue') PROVE ~Running(queue[i].id)'
    OBVIOUS
  <2>1. i + 1 \in 1 .. Len(queue) /\ queue'[i] = queue[i + 1]
    BY <1>4
  <2>2. PICK p : p = queue'[i] /\ ~Running(p.id)
    BY <2>1 DEF RInv
  <2> QED
    BY <1>1, <2>2 DEF Running
<1>6. \A u \in QueuedIds : u = queue[1].id \/ u \in QueuedIds'
  <2> SUFFICES ASSUME NEW i \in 1 .. Len(queue), i # 1
               PROVE  queue[i].id \in QueuedIds'
    BY DEF QueuedIds
  <2>1. i - 1 \in 1 .. Len(queue') /\ queue'[i - 1] = queue[i]
    BY <1>4
  <2> QED
    BY <2>1 DEF QueuedIds
<1>7. ptr[Worker].id = NoTenant
  BY <1>0, <1>1 DEF RInv, Holding, DeploySteps
<1>8. ASSUME NEW u \in Tenants PROVE Kept(u)'
  <2>1. Kept(u)
    BY DEF RInv
  <2>2. u \in HandledIds => u \in HandledIds'
    BY <1>3, <1>7, StorageAssumption DEF HandledIds
  <2>3. u = queue[1].id => u \in HandledIds'
    BY <1>0, <1>3 DEF HandledIds
  <2>4. OrphanIds' = OrphanIds
    BY <1>1 DEF OrphanIds
  <2> QED
    BY <1>1, <1>6, <2>1, <2>2, <2>3, <2>4 DEF Kept, Running
<1>9. ~Running(ptr[Worker].id)'
  <2>1. PICK p : p = queue[1] /\ ~Running(p.id)
    BY <1>4 DEF RInv
  <2> QED
    BY <1>1, <1>3, <2>1 DEF Running
<1>10. \A b \in Actors : pc'[b] \in Bare => ~Running(ptr[b].id)'
  BY <1>1, <1>3, <1>9 DEF RInv, Running
<1>11. \A b \in Actors : pc'[b] \notin Holding => ptr'[b].id = NoTenant
  <2>1. "mark" \in Holding
    BY DEF Holding
  <2> QED
    BY <1>3, <2>1 DEF RInv
<1>12. \A q \in Requests :
         /\ pc'[q] = "enqueue" => tenants'[ptr'[q].id].status = "provisioning"
         /\ pc'[q] \in {"idle", "enqueue"} => orphan'[q] = NoTenant
  BY <1>0, <1>1, <1>3 DEF RInv, Actors
<1>13. \A t \in Tenants : Stored(t)' => tenants'[t].key \in Keys
  BY <1>1 DEF RInv, Stored
<1> QED
  BY <1>1, <1>5, <1>8, <1>10, <1>11, <1>12, <1>13 DEF RInv

LEMMA HoldKeeps ==
  ASSUME Reliable, IInv, LInv, RInv, NEW a \in Actors,
         \/ Deploy(a) \/ GetAddress(a)
         \/ ServicesReady(a) \/ ServicesTimeout(a)
  PROVE  RInv'
<1>0. TypeOK /\ PointersAreStored
  BY DEF IInv
<1>1. pc[a] \in Holding
  BY DEF Deploy, GetAddress, ServicesReady, ServicesTimeout, Holding, DeploySteps
<1>2. PICK step \in {"cleanup", "address", "wait", "save"} : Goto(a, step)
  BY DEF Deploy, GetAddress, ServicesReady, ServicesTimeout
<1>3. /\ tenants' = tenants /\ ptr' = ptr /\ queue' = queue
      /\ orphan' = orphan /\ cancelled' = cancelled
  BY DEF Deploy, GetAddress, ServicesReady, ServicesTimeout, storageVars,
     Reliable
<1>4. \A u \in Tenants \ {ptr[a].id} : vm'[u] = vm[u]
  <2>1. vm \in [Tenants -> Instance]
    BY <1>0 DEF TypeOK, DeployerTypeOK
  <2>2. CASE Deploy(a)
    BY <2>1, <2>2 DEF Deploy, CreateInstance
  <2>3. CASE ~Deploy(a)
    BY <2>3 DEF GetAddress, ServicesReady, ServicesTimeout
  <2> QED
    BY <2>2, <2>3
<1>5. step \in Holding /\ step \notin Bare /\ step # "enqueue"
  BY <1>2 DEF Holding, DeploySteps, Bare
<1>6. pc'[a] = step /\ \A b \in Actors \ {a} : pc'[b] = pc[b]
  BY <1>0, <1>2, GotoEffect
<1> QED
  BY <1>1, <1>3, <1>4, <1>5, <1>6, StaysInHand DEF Running

LEMMA CleanupKeeps ==
  ASSUME Reliable, IInv, RInv, NEW a \in Actors, Cleanup(a)
  PROVE  RInv'
<1>0. TypeOK /\ PointersAreStored /\ DeployerTypeOK
  BY DEF IInv, TypeOK
<1>1. pc[a] \in Holding
  BY DEF Cleanup, Holding, DeploySteps
<1>2. PICK t \in Tenants : t = ptr[a].id
  BY <1>0, <1>1, HeldPointer
<1>3. PICK step \in {"failRead", "rollback"} : Goto(a, step)
  BY DEF Cleanup
<1>4. /\ tenants' = tenants /\ ptr' = ptr /\ queue' = queue
      /\ orphan' = orphan /\ cancelled' = cancelled
  BY DEF Cleanup, storageVars
<1>5. PICK out \in Under(a, DeleteOutcomes) : DeleteServices(t, out)
  BY <1>2 DEF Cleanup
<1>6. out # "err"
  BY <1>5 DEF Under, RInv, Reliable
<1>7. vm'[t].host = NoHost /\ \A u \in Tenants \ {t} : vm'[u] = vm[u]
  BY <1>0, <1>5, <1>6 DEF DeleteServices, DeployerTypeOK, NoVM
<1>8. step \in Holding /\ step # "enqueue"
  BY <1>3 DEF Holding
<1>9. pc'[a] = step /\ \A b \in Actors \ {a} : pc'[b] = pc[b]
  BY <1>0, <1>3, GotoEffect
<1>10. ~Running(ptr[a].id)'
  BY <1>2, <1>4, <1>7 DEF Running
<1> QED
  BY <1>1, <1>2, <1>4, <1>7, <1>8, <1>9, <1>10, StaysInHand DEF Running

(* The reads of updateTenantStatus find the row. *)
LEMMA ReadKeeps ==
  ASSUME Reliable, IInv, RInv, MarkRead \/ FailRead
  PROVE  RInv'
<1>0. TypeOK /\ PointersAreStored /\ Worker \in Actors
  BY DEF IInv, Actors
<1>1. pc[Worker] \in Holding /\ pc[Worker] \in Bare
  BY DEF MarkRead, FailRead, ReadForStatus, Holding, Bare
<1>2. Stored(ptr[Worker].id) /\ ~Running(ptr[Worker].id)
  BY <1>0, <1>1, HeldPointer DEF RInv
<1>3. PICK step \in {"markWrite", "failWrite"} : Goto(Worker, step) /\ ptr' = ptr
  BY <1>2 DEF MarkRead, FailRead, ReadForStatus, GetTenantFails, Reliable
<1>4. /\ tenants' = tenants /\ vm' = vm /\ queue' = queue
      /\ orphan' = orphan /\ cancelled' = cancelled
  BY DEF MarkRead, FailRead, ReadForStatus, storageVars
<1>5. step \in Holding /\ step # "enqueue"
  BY <1>3 DEF Holding
<1>6. pc'[Worker] = step /\ \A b \in Actors \ {Worker} : pc'[b] = pc[b]
  BY <1>0, <1>3, GotoEffect
<1>7. ~Running(ptr[Worker].id)'
  BY <1>2, <1>3, <1>4 DEF Running
<1> QED
  BY <1>0, <1>1, <1>3, <1>4, <1>5, <1>6, <1>7, StaysInHand DEF Running

LEMMA MarkWriteKeeps ==
  ASSUME IInv, LInv, RInv, MarkWrite
  PROVE  RInv'
<1>0. TypeOK /\ Worker \in Actors
  BY DEF IInv, Actors
<1>1. pc[Worker] \in Holding /\ pc[Worker] \in Bare /\ "deploy" \in Holding
  BY DEF MarkWrite, Holding, Bare, DeploySteps
<1>2. /\ tenants' = tenants /\ vm' = vm /\ queue' = queue /\ ptr' = ptr
      /\ orphan' = orphan /\ cancelled' = cancelled /\ Goto(Worker, "deploy")
  BY MarkWriteIsQuiet DEF MarkWrite
<1>3. pc'[Worker] = "deploy" /\ \A b \in Actors \ {Worker} : pc'[b] = pc[b]
  BY <1>0, <1>2, GotoEffect
<1>4. ~Running(ptr[Worker].id)'
  BY <1>0, <1>1, <1>2 DEF RInv, Running
<1> QED
  BY <1>0, <1>1, <1>2, <1>3, <1>4, StaysInHand DEF Running

(* An actor lets go of a tenant that is settled. *)
LEMMA Settles ==
  ASSUME IInv, RInv, NEW a \in Actors, pc[a] \in Holding,
         NEW step \in {"idle", "created", "failed"}, Finish(a, step),
         a \in Requests => step # "idle",
         vm' = vm, queue' = queue, orphan' = orphan, cancelled' = cancelled,
         NEW t \in Tenants, t = ptr[a].id,
         \A u \in Tenants \ {t} : tenants'[u] = tenants[u],
         tenants'[t].key = tenants[t].key,
         Running(t) => /\ tenants'[t].status = "active"
                       /\ tenants'[t].host = vm[t].host,
         tenants'[t].status # "provisioning",
         tenants'[t].status = "active" => tenants'[t].host # NoHost
  PROVE  RInv'
<1>0. TypeOK /\ PointersAreStored
  BY DEF IInv
<1>1. /\ pc'[a] = step /\ ptr'[a].id = NoTenant
      /\ \A b \in Actors \ {a} : pc'[b] = pc[b] /\ ptr'[b] = ptr[b]
  BY <1>0 DEF Finish, Goto, TypeOK, Nobody
<1>2. step \notin Bare /\ step # "enqueue"
  BY DEF Bare
<1>3. Kept(t)'
  BY DEF Kept, Running
<1>4. tenants'[t].key \in Keys
  BY <1>0, HeldPointer DEF RInv
<1>5. /\ \A b \in Actors \ {a} : pc[b] \in Holding => ptr[b].id # t
      /\ \A i \in 1 .. Len(queue) : queue[i].id # t
  BY HeldAlone
<1> QED
  BY <1>1, <1>2, <1>3, <1>4, <1>5, HandMoves DEF Running

LEMMA FailWriteKeeps ==
  ASSUME Reliable, IInv, LInv, RInv, FailWrite
  PROVE  RInv'
<1>0. /\ TypeOK /\ PointersAreStored /\ StorageTypeOK
      /\ Worker \in Actors /\ Worker \notin Requests
  BY ProvisioningAssumption DEF IInv, TypeOK, Actors
<1>1. pc[Worker] = "failWrite" /\ pc[Worker] \in Holding /\ pc[Worker] \in Bare
  BY DEF FailWrite, Holding, Bare
<1>2. PICK t \in Tenants : t = ptr[Worker].id /\ Stored(t)
  BY <1>0, <1>1, HeldPointer
<1>3. ~Running(t) /\ seen = tenants[t] /\ seen \in Row
  BY <1>0, <1>1, <1>2 DEF RInv, LInv, Good, TypeOK
<1>4. PICK row : row = FailedRow
  OBVIOUS
<1>5. row.status = "provisioning_failed" /\ row.key = tenants[t].key
  BY <1>3, <1>4 DEF FailedRow, Row
<1>6. tenants' = [tenants EXCEPT ![t] = row]
  <2>1. UpdateTenant(t, row, "ok")
    BY <1>2, <1>4 DEF FailWrite, Reliable
  <2>2. ~UpdateRejected(t, row)
    BY <1>2, <1>5, NotRefused
  <2> QED
    BY <2>1, <2>2 DEF UpdateTenant
<1>7. /\ vm' = vm /\ queue' = queue /\ orphan' = orphan
      /\ cancelled' = cancelled /\ Finish(Worker, "idle")
  BY DEF FailWrite
<1>8. tenants'[t] = row /\ \A u \in Tenants \ {t} : tenants'[u] = tenants[u]
  BY <1>0, <1>6 DEF StorageTypeOK
<1>9. /\ tenants'[t].key = tenants[t].key
      /\ tenants'[t].status = "provisioning_failed"
  BY <1>5, <1>8
<1> QED
  BY <1>0, <1>1, <1>2, <1>3, <1>7, <1>8, <1>9, Settles

(* The last write is accepted, and publishes the machine's address. *)
LEMMA SaveKeeps ==
  ASSUME Reliable, IInv, LInv, RInv,
         SaveReady \/ \E r \in Requests : SaveCreated(r)
  PROVE  RInv'
<1>0. /\ TypeOK /\ PointersAreStored /\ StorageTypeOK
      /\ Worker \in Actors /\ Worker \notin Requests
  BY ProvisioningAssumption DEF IInv, TypeOK, Actors
<1>1. PICK a \in Actors :
        /\ pc[a] = "save"
        /\ \E row, step :
             /\ \/ /\ row = [ptr[a].row EXCEPT !.host = deployed[a],
                                              !.status = "active"]
                   /\ a = Worker /\ step = "idle"
                \/ /\ row = [ptr[a].row EXCEPT !.host = deployed[a]]
                   /\ a \in Requests /\ step = "created"
             /\ UpdateTenant(ptr[a].id, row, "ok")
             /\ UpdateFails(ptr[a].id, row, "ok") \/ Finish(a, step)
  <2>1. CASE SaveReady
    BY <1>0, <2>1 DEF SaveReady, ReadyRow, Reliable
  <2>2. ASSUME NEW r \in Requests, SaveCreated(r)
        PROVE  /\ pc[r] = "save" /\ r \in Actors
               /\ UpdateTenant(ptr[r].id, CreatedRow(r), "ok")
               /\ UpdateFails(ptr[r].id, CreatedRow(r), "ok")
                  \/ Finish(r, "created")
    BY <2>2 DEF SaveCreated, Reliable, Under, RInv, Actors
  <2> QED
    BY <2>1, <2>2 DEF CreatedRow
<1>2. pc[a] \in Holding /\ pc[a] \in DeploySteps
  BY <1>1 DEF Holding, DeploySteps
<1>3. PICK t \in Tenants, p \in Pointer : p = ptr[a] /\ t = p.id /\ Stored(t)
  BY <1>0, <1>2, HeldPointer
<1>4. Good("save", p, deployed[a], seen)
  BY <1>1, <1>2, <1>3 DEF LInv
<1>5. /\ Running(t) /\ p.row.key = tenants[t].key /\ deployed[a] = vm[t].host
  BY <1>3, <1>4 DEF Good, InHand
<1>6. a \in Requests => p.row.status = "active"
  BY <1>2, <1>3 DEF LInv
<1>7. PICK step \in {"idle", "created"} :
        /\ a \in Requests => step # "idle"
        /\ \E row :
             /\ row.status = "active" /\ row.key = tenants[t].key
             /\ row.host = vm[t].host
             /\ UpdateTenant(t, row, "ok")
             /\ UpdateFails(t, row, "ok") \/ Finish(a, step)
  BY <1>0, <1>1, <1>3, <1>5, <1>6 DEF Pointer, Row
<1>8. PICK row : /\ row.status = "active" /\ row.key = tenants[t].key
                 /\ row.host = vm[t].host
                 /\ UpdateTenant(t, row, "ok")
                 /\ UpdateFails(t, row, "ok") \/ Finish(a, step)
  BY <1>7
<1>9. Finish(a, step) /\ tenants' = [tenants EXCEPT ![t] = row]
  <2>1. ~UpdateRejected(t, row)
    BY <1>3, <1>8, NotRefused
  <2> QED
    BY <1>8, <2>1 DEF UpdateFails, UpdateTenant
<1>10. /\ vm' = vm /\ queue' = queue /\ orphan' = orphan
       /\ cancelled' = cancelled
  BY DEF SaveReady, SaveCreated
<1>11. tenants'[t] = row /\ \A u \in Tenants \ {t} : tenants'[u] = tenants[u]
  BY <1>0, <1>9 DEF StorageTypeOK
<1>12. /\ tenants'[t].key = tenants[t].key /\ tenants'[t].status = "active"
       /\ tenants'[t].host = vm[t].host /\ tenants'[t].host # NoHost
  BY <1>5, <1>8, <1>11 DEF Running
<1> QED
  BY <1>2, <1>3, <1>7, <1>9, <1>10, <1>11, <1>12, Settles

LEMMA RollbackKeeps ==
  ASSUME Reliable, IInv, RInv, NEW r \in Requests, Rollback(r)
  PROVE  RInv'
<1>0. TypeOK /\ PointersAreStored /\ StorageTypeOK /\ r \in Actors
  BY DEF IInv, TypeOK, Actors
<1>1. pc[r] = "rollback" /\ pc[r] \in Holding /\ pc[r] \in Bare
  BY DEF Rollback, Holding, Bare
<1>2. PICK t \in Tenants : t = ptr[r].id /\ Stored(t)
  BY <1>0, <1>1, HeldPointer
<1>3. ~Running(t)
  BY <1>0, <1>1, <1>2 DEF RInv
<1>4. DeleteTenant(t, "ok")
  BY <1>2 DEF Rollback, Reliable, Under, RInv
<1>5. /\ vm' = vm /\ queue' = queue /\ orphan' = orphan
      /\ cancelled' = cancelled /\ Finish(r, "failed")
  BY DEF Rollback
<1>6. /\ tenants'[t].key = tenants[t].key /\ tenants'[t].status = "deleted"
      /\ \A u \in Tenants \ {t} : tenants'[u] = tenants[u]
  BY <1>0, <1>2, <1>4 DEF DeleteTenant, StorageTypeOK, Row
<1> QED
  BY <1>0, <1>1, <1>2, <1>3, <1>5, <1>6, Settles

LEMMA StepRInv ==
  ASSUME Reliable, IInv, LInv, RInv, [Next]_vars
  PROVE  RInv'
<1>1. Worker \in Actors /\ \A r \in Requests : r \in Actors
  BY DEF Actors
<1>2. CASE WorkerProgress
  BY <1>1, <1>2, TakeKeeps, ReadKeeps, MarkWriteKeeps, FailWriteKeeps,
     SaveKeeps, HoldKeeps, CleanupKeeps
  DEF WorkerProgress
<1>3. ASSUME NEW r \in Requests, HandlerProgress(r) \/ CreateTenantAsync(r)
      PROVE  RInv'
  BY <1>1, <1>3, EnqueueKeeps, InsertKeeps, HoldKeeps, CleanupKeeps, SaveKeeps,
     RollbackKeeps
  DEF HandlerProgress
<1>4. ASSUME NEW a \in Actors, ServicesReady(a) PROVE RInv'
  BY <1>4, HoldKeeps
<1>5. ~Crash /\ \A r \in Requests : ~Cancel(r)
  BY DEF Reliable, Crash, Cancel
<1>6. CASE UNCHANGED vars
  BY <1>6 DEF vars, storageVars, provisioningVars, RInv, Stored, Running, Kept,
     HandledIds, QueuedIds, OrphanIds
<1> QED
  BY <1>2, <1>3, <1>4, <1>5, <1>6 DEF Next

LEMMA InductiveRInv == ASSUME Reliable PROVE Spec => []RInv
<1>1. Spec => [](IInv /\ LInv)
  BY InductiveLInv DEF Reliable
<1>2. IInv /\ LInv /\ RInv /\ [Next]_vars => RInv'
  BY StepRInv
<1>3. QED
  BY InitRInv, <1>1, <1>2, PTL DEF Spec

(* On every error path of a deployment the machine is removed: one that    *)
(* runs is being provisioned or serves the row that names its address.     *)
THEOREM NoInstanceLeaks == ASSUME Reliable PROVE Spec => []NoLeakedInstance
<1>1. RInv => NoLeakedInstance
  BY DEF RInv, Kept, NoLeakedInstance
<1>2. QED
  BY InductiveRInv, <1>1, PTL

(* A row in "provisioning" is queued or in somebody's hands, unless a full *)
(* queue made its request give it up.                                      *)
THEOREM RowsAreHandled == ASSUME Reliable PROVE Spec => []ProvisioningIsHandled
<1>1. RInv => ProvisioningIsHandled
  BY DEF RInv, Kept, ProvisioningIsHandled
<1>2. QED
  BY InductiveRInv, <1>1, PTL

(* A row that is active without an address belongs to a synchronous        *)
(* creation in progress, which publishes the address or rolls it back.     *)
THEOREM EmptyAddressIsTransient ==
  ASSUME Reliable PROVE Spec => []ActiveWithoutAddressIsTransient
<1>1. RInv => ActiveWithoutAddressIsTransient
  BY DEF RInv, Kept, ActiveWithoutAddressIsTransient
<1>2. QED
  BY InductiveRInv, <1>1, PTL

----------------------------------------------------------------------------
(***************************************************************************)
(* What a step of the worker or of a request may do, for whoever else      *)
(* writes the same table and the same cloud.                               *)
(***************************************************************************)

(* The steps at which a tenant still waits for its instance, and the       *)
(* pointers that do.                                                       *)
Fresh == {"enqueue", "mark", "markWrite", "deploy"}

Waiting == {queue[i] : i \in 1 .. Len(queue)}
             \cup {ptr[a] : a \in {b \in Actors : pc[b] \in Fresh}}

(* Only a tenant that was just inserted starts to wait. *)
WaitingTurn ==
    \A p : p \in Waiting' => \/ p \in Waiting
                             \/ p.id \in Tenants /\ ~Stored(p.id) /\ p.row.key \in Keys

(* An instance appears for a tenant that waited, and waits no more. *)
CloudTurn ==
    \A t \in Tenants :
        \/ vm'[t] = vm[t] \/ vm'[t] = NoVM
        \/ \E p \in Waiting : /\ p.id = t /\ vm'[t].key = p.row.key
                              /\ \A q : q \in Waiting' => q.id # t

(* A row is marked deleted by a rollback whose client still waits, or by a *)
(* copy that says so.                                                      *)
DeletedTurn ==
    \A t \in Tenants : tenants'[t].status = "deleted" =>
        \/ tenants[t].status = "deleted"
        \/ \E a \in Actors \ cancelled : pc[a] = "rollback" /\ ptr[a].id = t
        \/ pc[Worker] = "markWrite" /\ seen.status = "deleted"
        \/ \E r \in Requests : ptr[r].row.status = "deleted"

(* Only a cleanup leads to the rollback. *)
RollbackTurn ==
    \A a \in Actors : pc'[a] = "rollback" =>
        \/ pc[a] = "rollback" /\ ptr'[a] = ptr[a]
        \/ /\ a \in Requests /\ ptr[a].id \in Tenants /\ ptr'[a] = ptr[a]
           /\ Stored(ptr[a].id)
           /\ "err" \notin Under(a, DeleteOutcomes) => vm'[ptr[a].id] = NoVM
           /\ \A q : q \in Waiting' => q.id # ptr[a].id

(* The row the worker is about to write back is one that it read while its *)
(* tenant was waiting. *)
SeenTurn ==
    pc'[Worker] = "markWrite" =>
        \/ pc[Worker] = "markWrite" /\ seen' = seen
        \/ ptr[Worker] \in Waiting /\ seen' = tenants[ptr[Worker].id]

(* A request never carries a deleted row. *)
CopyTurn ==
    \A r \in Requests : \/ ptr'[r].row.status = ptr[r].row.status
                        \/ ptr'[r].row.status # "deleted"

Turn == /\ WaitingTurn /\ CloudTurn /\ DeletedTurn /\ RollbackTurn
        /\ SeenTurn /\ CopyTurn /\ cancelled \subseteq cancelled'

----------------------------------------------------------------------------
(* One actor moves on with its tenant, which waits no longer or as before. *)
LEMMA MoveTurn ==
  ASSUME IInv, NEW a \in Actors, NEW step, NEW p,
         queue' = queue,
         pc' = [pc EXCEPT ![a] = step],
         ptr' = [ptr EXCEPT ![a] = p],
         step \in Fresh => pc[a] \in Fresh /\ p = ptr[a],
         p.row.status \in {ptr[a].row.status, "none"},
         a = Worker \/ seen' = seen,
         step = "markWrite" => a = Worker /\ seen' = tenants[ptr[a].id],
         cancelled' = cancelled
  PROVE  /\ WaitingTurn /\ SeenTurn /\ CopyTurn
         /\ step # "rollback" => RollbackTurn
<1> USE ProvisioningAssumption DEF Actors
<1>1. /\ \A b \in Actors : pc'[b] = IF b = a THEN step ELSE pc[b]
      /\ \A b \in Actors : ptr'[b] = IF b = a THEN p ELSE ptr[b]
  BY DEF IInv, TypeOK
<1>2. \A q : q \in Waiting' => q \in Waiting
  BY <1>1 DEF Waiting
<1>3. WaitingTurn
  BY <1>2 DEF WaitingTurn
<1>4. SeenTurn
  BY <1>1 DEF SeenTurn, Waiting, Fresh
<1>5. CopyTurn
  BY <1>1 DEF CopyTurn
<1>6. step # "rollback" => RollbackTurn
  BY <1>1 DEF RollbackTurn
<1> QED
  BY <1>3, <1>4, <1>5, <1>6

(* A move that writes neither the table nor the cloud. *)
LEMMA QuietTurn ==
  ASSUME tenants' = tenants, vm' = vm
  PROVE  CloudTurn /\ DeletedTurn
BY DEF CloudTurn, DeletedTurn

LEMMA NobodyWaits ==
  /\ Nobody.row.status = "none"
  /\ \A r \in Row : r.status \in Statuses \cup {"none"}
BY DEF Nobody, NoRow, Row

----------------------------------------------------------------------------
LEMMA InsertTurn ==
  ASSUME IInv, NEW r \in Requests, NEW t \in Tenants, NEW row \in Row, NEW out,
         NEW step, row.key \in Keys, row.status \notin {"none", "deleted"},
         InsertTenant(t, row, out),
         step \notin {"rollback", "markWrite"},
         out # "ok" => step \notin Fresh,
         pc' = [pc EXCEPT ![r] = step],
         ptr' = IF out = "ok" THEN [ptr EXCEPT ![r] = [id |-> t, row |-> row]]
                              ELSE ptr,
         queue' = queue, vm' = vm, seen' = seen, cancelled' = cancelled
  PROVE  Turn
<1> USE ProvisioningAssumption DEF Actors
<1>0. TypeOK /\ StorageTypeOK /\ ptr \in [Actors -> Pointer]
  BY DEF IInv, TypeOK
<1>1. /\ ~Stored(t)
      /\ \A u \in Tenants : tenants'[u] = tenants[u] \/ tenants'[u] = row
  BY <1>0, InsertEffect DEF IInv
<1>2. /\ \A b \in Actors : pc'[b] = IF b = r THEN step ELSE pc[b]
      /\ \A b \in Actors : b # r => ptr'[b] = ptr[b]
      /\ \/ ptr'[r] = ptr[r] /\ step \notin Fresh
         \/ ptr'[r].id = t /\ ptr'[r].row = row
  BY <1>0 DEF TypeOK
<1>3. WaitingTurn
  BY <1>1, <1>2 DEF WaitingTurn, Waiting
<1>4. SeenTurn /\ RollbackTurn
  BY <1>2 DEF SeenTurn, RollbackTurn
<1>5. CopyTurn
  BY <1>2 DEF CopyTurn
<1>6. CloudTurn /\ DeletedTurn
  BY <1>1 DEF CloudTurn, DeletedTurn
<1> QED
  BY <1>3, <1>4, <1>5, <1>6 DEF Turn

LEMMA CreateTurn ==
  ASSUME IInv, NEW r \in Requests,
         CreateTenantAsync(r) \/ CreateTenantWithProvisioning(r)
  PROVE  Turn
<1>1. /\ queue' = queue /\ vm' = vm /\ seen' = seen /\ cancelled' = cancelled
  BY DEF CreateTenantAsync, CreateTenantWithProvisioning
<1>2. \A k \in Keys, s \in {"provisioning", ""} :
         /\ NewRow(s, k) \in Row /\ NewRow(s, k).key = k
         /\ NewRow(s, k).status \notin {"none", "deleted"}
  BY NewRowType DEF NewRow
<1>3. CASE CreateTenantAsync(r)
  <2>1. PICK t \in Tenants, k \in Keys, out \in Under(r, StorageOutcomes) :
           /\ InsertTenant(t, NewRow("provisioning", k), out)
           /\ pc' = [pc EXCEPT ![r] = IF out = "ok" THEN "enqueue" ELSE "failed"]
           /\ ptr' = IF out = "ok"
                     THEN [ptr EXCEPT ![r] = [id |-> t, row |-> NewRow("provisioning", k)]]
                     ELSE ptr
    BY <1>3, CreatedIs DEF Goto
  <2>2. PICK row \in Row : row = NewRow("provisioning", k) /\ row.key = k
                           /\ row.status \notin {"none", "deleted"}
    BY <1>2
  <2>3. PICK step : /\ step = (IF out = "ok" THEN "enqueue" ELSE "failed")
                    /\ step \notin {"rollback", "markWrite"}
                    /\ out # "ok" => step \notin Fresh
    BY DEF Fresh
  <2> QED
    BY <1>1, <2>1, <2>2, <2>3, InsertTurn
<1>4. CASE CreateTenantWithProvisioning(r)
  <2>1. PICK t \in Tenants, k \in Keys, out \in Under(r, StorageOutcomes) :
           /\ InsertTenant(t, NewRow("", k), out)
           /\ pc' = [pc EXCEPT ![r] = IF out = "ok" THEN "deploy" ELSE "failed"]
           /\ ptr' = IF out = "ok"
                     THEN [ptr EXCEPT ![r] = [id |-> t, row |-> NewRow("", k)]]
                     ELSE ptr
    BY <1>4, CreatedIs DEF Goto
  <2>2. PICK row \in Row : row = NewRow("", k) /\ row.key = k
                           /\ row.status \notin {"none", "deleted"}
    BY <1>2
  <2>3. PICK step : /\ step = (IF out = "ok" THEN "deploy" ELSE "failed")
                    /\ step \notin {"rollback", "markWrite"}
                    /\ out # "ok" => step \notin Fresh
    BY DEF Fresh
  <2> QED
    BY <1>1, <2>1, <2>2, <2>3, InsertTurn
<1> QED
  BY <1>3, <1>4

(* The pointer goes from the request to the queue, and to the worker.      *)
LEMMA EnqueueTurn ==
  ASSUME IInv, NEW r \in Requests, Enqueue(r)
  PROVE  Turn
<1> USE ProvisioningAssumption DEF Actors
<1>0. /\ TypeOK /\ ptr \in [Actors -> Pointer] /\ queue \in Seq(Pointer)
      /\ pc[r] = "enqueue" /\ pc[r] \in Fresh
  BY DEF IInv, TypeOK, Enqueue, Fresh
<1>1. /\ tenants' = tenants /\ vm' = vm /\ seen' = seen /\ cancelled' = cancelled
  BY DEF Enqueue, storageVars
<1>2. PICK step \in {"accepted", "fallback"} :
         /\ pc' = [pc EXCEPT ![r] = step]
         /\ queue' = queue \/ queue' = Append(queue, ptr[r])
  BY DEF Enqueue, Goto
<1>3. /\ \A b \in Actors : pc'[b] = IF b = r THEN step ELSE pc[b]
      /\ \A b \in Actors : ptr'[b] = IF b = r THEN Nobody ELSE ptr[b]
  BY <1>0, <1>2 DEF TypeOK, Enqueue
<1>4. \A i \in 1 .. Len(queue') :
         \/ i \in 1 .. Len(queue) /\ queue'[i] = queue[i]
         \/ queue'[i] = ptr[r]
  BY <1>0, <1>2
<1>5. \A q : q \in Waiting' => q \in Waiting
  BY <1>0, <1>3, <1>4 DEF Waiting, Fresh
<1>6. WaitingTurn
  BY <1>5 DEF WaitingTurn
<1>7. SeenTurn /\ RollbackTurn
  BY <1>1, <1>3 DEF SeenTurn, RollbackTurn
<1>8. CopyTurn
  BY <1>3, NobodyWaits DEF CopyTurn
<1> QED
  BY <1>1, <1>6, <1>7, <1>8, QuietTurn DEF Turn

LEMMA TakeTurn ==
  ASSUME IInv, Take
  PROVE  Turn
<1> USE ProvisioningAssumption DEF Actors
<1>0. /\ TypeOK /\ ptr \in [Actors -> Pointer] /\ queue \in Seq(Pointer)
      /\ queue # <<>>
  BY DEF IInv, TypeOK, Take
<1>1. /\ tenants' = tenants /\ vm' = vm /\ cancelled' = cancelled
      /\ seen' = seen /\ queue' = Tail(queue)
  BY DEF Take, storageVars
<1>2. /\ \A b \in Actors : pc'[b] = IF b = Worker THEN "mark" ELSE pc[b]
      /\ \A b \in Actors : ptr'[b] = IF b = Worker THEN Head(queue) ELSE ptr[b]
  BY <1>0 DEF TypeOK, Take, Goto
<1>3. /\ Len(queue) \in Nat /\ Len(queue) # 0 /\ Len(queue') = Len(queue) - 1
      /\ \A i \in 1 .. Len(queue') : queue'[i] = queue[i + 1]
      /\ Head(queue) = queue[1]
  BY <1>0, <1>1
<1>4. \A q : q \in Waiting' => q \in Waiting
  BY <1>2, <1>3 DEF Waiting
<1>5. WaitingTurn
  BY <1>4 DEF WaitingTurn
<1>6. SeenTurn /\ RollbackTurn
  BY <1>2 DEF SeenTurn, RollbackTurn
<1>7. CopyTurn
  BY <1>2 DEF CopyTurn
<1> QED
  BY <1>1, <1>5, <1>6, <1>7, QuietTurn DEF Turn

(* The worker reads the row of its tenant. *)
LEMMA ReadTurn ==
  ASSUME IInv, MarkRead \/ FailRead
  PROVE  Turn
<1> USE ProvisioningAssumption DEF Actors
<1>1. /\ tenants' = tenants /\ vm' = vm /\ cancelled' = cancelled /\ queue' = queue
  BY DEF MarkRead, FailRead, ReadForStatus, storageVars
<1>2. PICK step, p :
         /\ pc' = [pc EXCEPT ![Worker] = step]
         /\ ptr' = [ptr EXCEPT ![Worker] = p]
         /\ step \in Fresh => pc[Worker] \in Fresh /\ p = ptr[Worker]
         /\ p.row.status \in {ptr[Worker].row.status, "none"}
         /\ step = "markWrite" => seen' = tenants[ptr[Worker].id]
         /\ step # "rollback"
  <2>0. ptr = [ptr EXCEPT ![Worker] = ptr[Worker]]
    BY DEF IInv, TypeOK
  <2>1. CASE MarkRead
    <3>1. PICK step \in {"markWrite", "deploy"} :
             /\ pc' = [pc EXCEPT ![Worker] = step]
             /\ step = "markWrite" => seen' = tenants[ptr[Worker].id]
      BY <2>1 DEF MarkRead, ReadForStatus, Goto
    <3>2. ptr' = ptr /\ pc[Worker] \in Fresh
      BY <2>1 DEF MarkRead, ReadForStatus, Fresh
    <3> QED
      BY <2>0, <3>1, <3>2
  <2>2. CASE FailRead
    <3>1. \/ pc' = [pc EXCEPT ![Worker] = "failWrite"] /\ ptr' = ptr
          \/ /\ pc' = [pc EXCEPT ![Worker] = "idle"]
             /\ ptr' = [ptr EXCEPT ![Worker] = Nobody]
      BY <2>2 DEF FailRead, ReadForStatus, Goto, Finish
    <3> QED
      BY <2>0, <3>1, NobodyWaits DEF Fresh
  <2> QED
    BY <2>1, <2>2
<1>3. /\ WaitingTurn /\ SeenTurn /\ CopyTurn /\ RollbackTurn
  BY <1>1, <1>2, MoveTurn
<1> QED
  BY <1>1, <1>3, QuietTurn DEF Turn

(* An actor writes a copy of its row and moves on. *)
LEMMA WriteTurn ==
  ASSUME IInv, NEW a \in Actors, NEW t \in Tenants, NEW row \in Row, NEW out,
         row.status # "none", UpdateTenant(t, row, out),
         \/ row.status # "deleted"
         \/ pc[Worker] = "markWrite" /\ row = seen
         \/ a \in Requests /\ row.status = ptr[a].row.status,
         NEW step, NEW p,
         vm' = vm, queue' = queue, cancelled' = cancelled,
         pc' = [pc EXCEPT ![a] = step],
         ptr' = [ptr EXCEPT ![a] = p],
         step \in Fresh => pc[a] \in Fresh /\ p = ptr[a],
         p.row.status \in {ptr[a].row.status, "none"},
         a = Worker \/ seen' = seen,
         step \notin {"markWrite", "rollback"}
  PROVE  Turn
<1>1. WaitingTurn /\ SeenTurn /\ CopyTurn /\ RollbackTurn
  BY MoveTurn
<1>2. CloudTurn
  BY DEF CloudTurn
<1>3. \A u \in Tenants : tenants'[u] = tenants[u] \/ tenants'[u] = row
  BY UpdateEffect DEF IInv, TypeOK
<1>4. DeletedTurn
  BY <1>3 DEF DeletedTurn
<1> QED
  BY <1>1, <1>2, <1>4 DEF Turn

LEMMA FinishIs ==
  ASSUME IInv, NEW a \in Actors, NEW step, Finish(a, step)
  PROVE  pc' = [pc EXCEPT ![a] = step] /\ ptr' = [ptr EXCEPT ![a] = Nobody]
BY DEF Finish, Goto

LEMMA WorkerWriteTurn ==
  ASSUME IInv, MarkWrite \/ FailWrite \/ SaveReady
  PROVE  Turn
<1> USE ProvisioningAssumption DEF Actors
<1>0. /\ TypeOK /\ PointersAreStored /\ seen \in Row
      /\ ptr = [ptr EXCEPT ![Worker] = ptr[Worker]]
  BY DEF IInv, TypeOK
<1>1. pc[Worker] \in Holding
  BY DEF MarkWrite, FailWrite, SaveReady, Holding, DeploySteps
<1>2. PICK t \in Tenants : t = ptr[Worker].id
  BY <1>0, <1>1, HeldPointer
<1>3. /\ vm' = vm /\ queue' = queue /\ cancelled' = cancelled
  BY DEF MarkWrite, FailWrite, SaveReady
<1>4. CASE MarkWrite
  <2>1. PICK out \in StorageOutcomes : UpdateTenant(t, seen, out)
    BY <1>2, <1>4 DEF MarkWrite
  <2>2. /\ pc[Worker] = "markWrite" /\ seen.status # "none"
        /\ pc' = [pc EXCEPT ![Worker] = "deploy"]
        /\ ptr' = [ptr EXCEPT ![Worker] = ptr[Worker]]
        /\ pc[Worker] \in Fresh
    BY <1>0, <1>4 DEF MarkWrite, Goto, PointersAreStored, Fresh
  <2>3. PICK row \in Row : row = seen
    BY <1>0
  <2>4. PICK step, p : step = "deploy" /\ p = ptr[Worker]
    OBVIOUS
  <2>5. /\ UpdateTenant(t, row, out)
        /\ row.status # "none" /\ row = seen /\ pc[Worker] = "markWrite"
        /\ pc' = [pc EXCEPT ![Worker] = step]
        /\ ptr' = [ptr EXCEPT ![Worker] = p]
        /\ step \in Fresh => pc[Worker] \in Fresh /\ p = ptr[Worker]
        /\ p.row.status \in {ptr[Worker].row.status, "none"}
        /\ step \notin {"markWrite", "rollback"}
    BY <2>1, <2>2, <2>3, <2>4
  <2> QED
    BY <1>3, <2>5, WriteTurn
<1>5. CASE FailWrite
  <2>1. PICK out \in StorageOutcomes : UpdateTenant(t, FailedRow, out)
    BY <1>2, <1>5 DEF FailWrite
  <2>2. PICK row \in Row : row = FailedRow /\ row.status = "provisioning_failed"
    <3>1. FailedRow \in Row /\ FailedRow.status = "provisioning_failed"
      BY <1>0 DEF FailedRow, Row, Statuses
    <3> QED
      BY <3>1
  <2>3. /\ pc' = [pc EXCEPT ![Worker] = "idle"]
        /\ ptr' = [ptr EXCEPT ![Worker] = Nobody]
    BY <1>5, FinishIs DEF FailWrite
  <2>4. PICK step, p : step = "idle" /\ p = Nobody
    OBVIOUS
  <2>5. step \notin Fresh /\ step \notin {"markWrite", "rollback"}
    BY <2>4 DEF Fresh
  <2>6. /\ UpdateTenant(t, row, out)
        /\ row.status # "none" /\ row.status # "deleted"
        /\ pc' = [pc EXCEPT ![Worker] = step]
        /\ ptr' = [ptr EXCEPT ![Worker] = p]
        /\ p.row.status \in {ptr[Worker].row.status, "none"}
    BY <2>1, <2>2, <2>3, <2>4, NobodyWaits
  <2> QED
    BY <1>3, <2>5, <2>6, WriteTurn
<1>6. CASE SaveReady
  <2>1. PICK out \in StorageOutcomes : UpdateTenant(t, ReadyRow, out)
    BY <1>2, <1>6 DEF SaveReady
  <2>2. PICK row \in Row : row = ReadyRow /\ row.status = "active"
    <3>1. ptr[Worker].row \in Row /\ deployed[Worker] \in Hosts \cup {NoHost}
      BY <1>0, <1>1, HeldPointer DEF TypeOK
    <3>2. ReadyRow \in Row /\ ReadyRow.status = "active"
      BY <3>1 DEF ReadyRow, Row, Statuses
    <3> QED
      BY <3>2
  <2>3. PICK step, p :
          /\ pc' = [pc EXCEPT ![Worker] = step]
          /\ ptr' = [ptr EXCEPT ![Worker] = p]
          /\ step \in {"failRead", "idle"}
          /\ p.row.status \in {ptr[Worker].row.status, "none"}
    <3>1. \/ pc' = [pc EXCEPT ![Worker] = "failRead"] /\ ptr' = ptr
          \/ Finish(Worker, "idle")
      BY <1>6 DEF SaveReady, Goto
    <3> QED
      BY <1>0, <3>1, FinishIs, NobodyWaits
  <2>4. step \notin Fresh /\ step \notin {"markWrite", "rollback"}
    BY <2>3 DEF Fresh
  <2> QED
    BY <1>0, <1>3, <2>1, <2>2, <2>3, <2>4, WriteTurn
<1> QED
  BY <1>4, <1>5, <1>6

LEMMA SaveCreatedTurn ==
  ASSUME IInv, NEW r \in Requests, SaveCreated(r)
  PROVE  Turn
<1> USE ProvisioningAssumption DEF Actors
<1>0. TypeOK /\ PointersAreStored /\ pc[r] \in Holding
  BY DEF IInv, SaveCreated, Holding, DeploySteps
<1>1. PICK t \in Tenants : t = ptr[r].id /\ ptr[r].row \in Row
                           /\ ptr[r].row.status # "none"
  BY <1>0, HeldPointer
<1>2. /\ vm' = vm /\ queue' = queue /\ cancelled' = cancelled /\ seen' = seen
  BY DEF SaveCreated
<1>3. PICK out : UpdateTenant(t, CreatedRow(r), out)
  BY <1>1 DEF SaveCreated
<1>4. PICK row \in Row : row = CreatedRow(r) /\ row.status = ptr[r].row.status
  <2>1. deployed[r] \in Hosts \cup {NoHost}
    BY <1>0 DEF TypeOK
  <2>2. CreatedRow(r) \in Row /\ CreatedRow(r).status = ptr[r].row.status
    BY <1>1, <2>1 DEF CreatedRow, Row
  <2> QED
    BY <2>2
<1>5. PICK step \in {"failed", "created"} :
         /\ pc' = [pc EXCEPT ![r] = step]
         /\ ptr' = [ptr EXCEPT ![r] = Nobody]
  BY FinishIs DEF SaveCreated, Finish, Goto
<1>6. step \notin Fresh /\ step \notin {"markWrite", "rollback"}
  BY <1>5 DEF Fresh
<1> QED
  BY <1>1, <1>2, <1>3, <1>4, <1>5, <1>6, NobodyWaits, WriteTurn

LEMMA RollbackIsTurn ==
  ASSUME IInv, NEW r \in Requests, Rollback(r)
  PROVE  Turn
<1> USE ProvisioningAssumption DEF Actors
<1>0. TypeOK /\ PointersAreStored /\ pc[r] = "rollback" /\ pc[r] \in Holding
  BY DEF IInv, Rollback, Holding
<1>1. PICK t \in Tenants : t = ptr[r].id
  BY <1>0, HeldPointer
<1>2. /\ vm' = vm /\ queue' = queue /\ cancelled' = cancelled /\ seen' = seen
      /\ pc' = [pc EXCEPT ![r] = "failed"] /\ ptr' = [ptr EXCEPT ![r] = Nobody]
  BY FinishIs DEF Rollback
<1>3. WaitingTurn /\ SeenTurn /\ CopyTurn /\ RollbackTurn
  <2>1. PICK step, p : step = "failed" /\ p = Nobody
    OBVIOUS
  <2>2. step \notin Fresh /\ step \notin {"markWrite", "rollback"}
    BY <2>1 DEF Fresh
  <2>3. /\ pc' = [pc EXCEPT ![r] = step]
        /\ ptr' = [ptr EXCEPT ![r] = p]
        /\ p.row.status \in {ptr[r].row.status, "none"}
    BY <1>2, <2>1, NobodyWaits
  <2> QED
    BY <1>2, <2>2, <2>3, MoveTurn
<1>4. \A u \in Tenants : u # t => tenants'[u] = tenants[u]
  BY <1>0, <1>1 DEF Rollback, DeleteTenant, TypeOK, StorageTypeOK
<1>5. DeletedTurn
  <2>1. r \in cancelled => tenants' = tenants
    BY DEF Rollback, Under, DeleteTenant
  <2> QED
    BY <1>0, <1>1, <1>4, <2>1 DEF DeletedTurn
<1>6. CloudTurn
  BY <1>2 DEF CloudTurn
<1> QED
  BY <1>2, <1>3, <1>5, <1>6 DEF Turn

(* The steps between the instance and the row: the address, the wait.      *)
LEMMA WaitTurn ==
  ASSUME IInv, NEW a \in Actors,
         GetAddress(a) \/ ServicesReady(a) \/ ServicesTimeout(a)
  PROVE  Turn
<1> USE ProvisioningAssumption DEF Actors
<1>0. TypeOK /\ ptr = [ptr EXCEPT ![a] = ptr[a]] /\ ptr[a] \in Pointer
  BY DEF IInv, TypeOK
<1>1. /\ tenants' = tenants /\ vm' = vm /\ queue' = queue
      /\ cancelled' = cancelled /\ seen' = seen
  BY DEF GetAddress, ServicesReady, ServicesTimeout, storageVars
<1>2. PICK step \in {"cleanup", "wait", "save"} : pc' = [pc EXCEPT ![a] = step]
  BY DEF GetAddress, ServicesReady, ServicesTimeout, Goto
<1>3. PICK p : ptr' = [ptr EXCEPT ![a] = p]
               /\ p.row.status = ptr[a].row.status
  <2>1. CASE ptr' = ptr
    BY <1>0, <2>1
  <2>2. CASE ptr' # ptr
    <3>1. ptr' = [ptr EXCEPT ![a].row.key = NoKey]
      BY <2>2 DEF GetAddress, ServicesReady, ServicesTimeout
    <3>2. PICK q : q = [ptr[a] EXCEPT !.row.key = NoKey]
      OBVIOUS
    <3>3. q.row.status = ptr[a].row.status
      BY <1>0, <3>2 DEF Pointer, Row
    <3>4. ptr' = [ptr EXCEPT ![a] = q]
      BY <1>0, <3>1, <3>2
    <3> QED
      BY <3>3, <3>4
  <2> QED
    BY <2>1, <2>2
<1>4. step \notin Fresh /\ step \notin {"markWrite", "rollback"}
  BY <1>2 DEF Fresh
<1>5. WaitingTurn /\ SeenTurn /\ CopyTurn /\ RollbackTurn
  BY <1>1, <1>2, <1>3, <1>4, MoveTurn
<1> QED
  BY <1>1, <1>5, QuietTurn DEF Turn

(* Nobody else has the pointer of a tenant that leaves its waiting.        *)
LEMMA NotWaiting ==
  ASSUME IInv, NEW a \in Actors, ptr[a].id # NoTenant,
         NEW step, step \notin Fresh,
         queue' = queue, ptr' = ptr, pc' = [pc EXCEPT ![a] = step]
  PROVE  \A q : q \in Waiting' => q.id # ptr[a].id
<1> USE ProvisioningAssumption DEF Actors
<1>1. \A b \in Actors : pc'[b] = IF b = a THEN step ELSE pc[b]
  BY DEF IInv, TypeOK
<1>2. \A i \in 1 .. Len(queue) : queue[i].id # ptr[a].id
  BY DEF IInv, ExclusiveOwnership, QueuedIds
<1>3. \A b \in Actors : b # a => ptr[b].id # ptr[a].id
  BY DEF IInv, ExclusiveOwnership
<1> QED
  BY <1>1, <1>2, <1>3 DEF Waiting

LEMMA DeployTurn ==
  ASSUME IInv, NEW a \in Actors, Deploy(a)
  PROVE  Turn
<1> USE ProvisioningAssumption DEF Actors
<1>0. /\ TypeOK /\ DeployerTypeOK /\ PointersAreStored
      /\ pc[a] \in Holding /\ pc[a] \in Fresh
      /\ ptr = [ptr EXCEPT ![a] = ptr[a]]
  BY DEF IInv, TypeOK, Deploy, Holding, DeploySteps, Fresh
<1>1. PICK t \in Tenants, k \in Keys \cup {NoKey} :
         t = ptr[a].id /\ k = ptr[a].row.key /\ t # NoTenant
  BY <1>0, HeldPointer, StorageAssumption
<1>2. /\ tenants' = tenants /\ queue' = queue /\ ptr' = ptr /\ seen' = seen
      /\ cancelled' = cancelled
  BY DEF Deploy, storageVars
<1>3. PICK step \in {"cleanup", "address"} : pc' = [pc EXCEPT ![a] = step]
  BY DEF Deploy, Goto
<1>4. step \notin Fresh /\ step \notin {"markWrite", "rollback"}
  BY <1>3 DEF Fresh
<1>5. WaitingTurn /\ SeenTurn /\ CopyTurn /\ RollbackTurn
  BY <1>0, <1>2, <1>3, <1>4, MoveTurn
<1>6. \A u \in Tenants : vm'[u] = vm[u] \/ (u = t /\ vm'[u].key = k)
  <2>1. PICK out : CreateInstance(t, k, out)
    BY <1>1 DEF Deploy
  <2> QED
    BY <1>0, <2>1, CreateEffect
<1>7. ptr[a] \in Waiting
  BY <1>0 DEF Waiting
<1>8. \A q : q \in Waiting' => q.id # t
  BY <1>1, <1>2, <1>3, <1>4, NotWaiting
<1>9. CloudTurn
  BY <1>1, <1>6, <1>7, <1>8 DEF CloudTurn
<1>10. DeletedTurn
  BY <1>2 DEF DeletedTurn
<1> QED
  BY <1>2, <1>5, <1>9, <1>10 DEF Turn

LEMMA CleanupTurn ==
  ASSUME IInv, NEW a \in Actors, Cleanup(a)
  PROVE  Turn
<1> USE ProvisioningAssumption DEF Actors
<1>0. /\ TypeOK /\ PointersAreStored /\ pc[a] \in Holding
      /\ ptr = [ptr EXCEPT ![a] = ptr[a]]
  BY DEF IInv, TypeOK, Cleanup, Holding, DeploySteps
<1>1. PICK t \in Tenants : t = ptr[a].id /\ t # NoTenant /\ Stored(t)
  BY <1>0, HeldPointer, StorageAssumption
<1>2. /\ tenants' = tenants /\ queue' = queue /\ ptr' = ptr /\ seen' = seen
      /\ cancelled' = cancelled
  BY DEF Cleanup, storageVars
<1>3. PICK step : /\ step = IF a = Worker THEN "failRead" ELSE "rollback"
                  /\ pc' = [pc EXCEPT ![a] = step]
  BY DEF Cleanup, Goto
<1>4. step \notin Fresh /\ step # "markWrite"
  BY <1>3 DEF Fresh
<1>5. WaitingTurn /\ SeenTurn /\ CopyTurn /\ (step # "rollback" => RollbackTurn)
  BY <1>0, <1>2, <1>3, <1>4, MoveTurn
<1>6. PICK out \in Under(a, DeleteOutcomes) :
         vm' = IF out = "err" THEN vm ELSE [vm EXCEPT ![t] = NoVM]
  BY <1>1 DEF Cleanup, DeleteServices
<1>7. /\ CloudTurn
      /\ "err" \notin Under(a, DeleteOutcomes) => vm'[t] = NoVM
  BY <1>0, <1>6 DEF CloudTurn, TypeOK, DeployerTypeOK
<1>8. \A q : q \in Waiting' => q.id # t
  BY <1>1, <1>2, <1>3, <1>4, NotWaiting
<1>9. RollbackTurn
  <2>1. \A b \in Actors : pc'[b] = IF b = a THEN step ELSE pc[b]
    BY <1>0, <1>3 DEF TypeOK
  <2> QED
    BY <1>1, <1>2, <1>3, <1>7, <1>8, <2>1 DEF RollbackTurn
<1>10. DeletedTurn
  BY <1>2 DEF DeletedTurn
<1> QED
  BY <1>2, <1>5, <1>7, <1>9, <1>10 DEF Turn

LEMMA OtherTurn ==
  ASSUME IInv, Crash \/ (\E r \in Requests : Cancel(r)) \/ UNCHANGED vars
  PROVE  Turn
<1> USE ProvisioningAssumption DEF Actors
<1>1. CASE Crash
  <2>1. /\ tenants' = tenants /\ vm' = vm /\ cancelled' = cancelled
        /\ queue' = <<>>
        /\ \A a \in Actors : ptr'[a] = Nobody
    BY <1>1 DEF Crash, storageVars
  <2>2. \A a \in Actors : pc'[a] \in {"idle", "gone"} \cup AnsweredAt
    BY <1>1 DEF Crash
  <2>3. \A q : q \notin Waiting'
    BY <2>1, <2>2 DEF Waiting, Fresh, AnsweredAt
  <2>4. WaitingTurn /\ SeenTurn /\ RollbackTurn
    BY <2>2, <2>3 DEF WaitingTurn, SeenTurn, RollbackTurn, AnsweredAt
  <2>5. CopyTurn
    BY <2>1, NobodyWaits DEF CopyTurn
  <2> QED
    BY <2>1, <2>4, <2>5, QuietTurn DEF Turn
<1>2. CASE (\E r \in Requests : Cancel(r)) \/ UNCHANGED vars
  <2>1. /\ tenants' = tenants /\ vm' = vm /\ queue' = queue /\ pc' = pc
        /\ ptr' = ptr /\ seen' = seen
        /\ cancelled \subseteq cancelled'
    BY <1>2 DEF Cancel, vars, storageVars, provisioningVars
  <2>2. WaitingTurn /\ SeenTurn /\ RollbackTurn /\ CopyTurn
    BY <2>1 DEF WaitingTurn, SeenTurn, RollbackTurn, CopyTurn, Waiting
  <2> QED
    BY <2>1, <2>2, QuietTurn DEF Turn
<1> QED
  BY <1>1, <1>2

LEMMA TurnStep == IInv /\ [Next]_vars => Turn
<1> SUFFICES ASSUME IInv, [Next]_vars PROVE Turn
  OBVIOUS
<1> USE DEF Actors
<1>1. CASE WorkerProgress
  BY <1>1, TakeTurn, ReadTurn, WorkerWriteTurn, DeployTurn, WaitTurn,
     CleanupTurn DEF WorkerProgress
<1>2. ASSUME NEW r \in Requests, HandlerProgress(r) PROVE Turn
  BY <1>2, EnqueueTurn, CreateTurn, DeployTurn, WaitTurn, CleanupTurn,
     SaveCreatedTurn, RollbackIsTurn DEF HandlerProgress
<1>3. ASSUME NEW r \in Requests, CreateTenantAsync(r) PROVE Turn
  BY <1>3, CreateTurn
<1>4. ASSUME NEW a \in Actors, ServicesReady(a) PROVE Turn
  BY <1>4, WaitTurn
<1>5. CASE Crash \/ (\E r \in Requests : Cancel(r)) \/ UNCHANGED vars
  BY <1>5, OtherTurn
<1> QED
  BY <1>1, <1>2, <1>3, <1>4, <1>5 DEF Next
=============================================================================
