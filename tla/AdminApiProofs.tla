--------------------------- MODULE AdminApiProofs --------------------------
(***************************************************************************)
(* The admin handlers, for any number of requests and tenants, any sets of *)
(* keys and addresses and any mix of failing writes and expired contexts.  *)
(*                                                                         *)
(* None of the properties is inductive by itself: each needs to know what  *)
(* the copies that the handlers carry from one statement to the next still *)
(* have to do with the table.                                              *)
(***************************************************************************)
EXTENDS AdminApi, TLAPS

(* The handlers that carry a copy they, or their revert, will write. *)
Carries(h) == op[h].step \in {"save", "mark", "destroy", "revert", "remove"}

(* Rows are never empty, neither in the table nor in a copy. *)
RowsAreReal ==
    /\ \A h \in Handlers : op[h].step # "idle" => op[h].id \in Tenants
    /\ \A t \in Tenants : tenants[t].status # "none" /\ tenants[t].key \in Keys
    /\ \A h \in Handlers :
         Carries(h) => op[h].row.status # "none" /\ op[h].row.key \in Keys

(* A PUT may ask for any status, "deleted" included, and leaves the        *)
(* instance running then: nothing about instances holds with such a PUT.   *)
NoDeletePatch == "deleted" \notin PatchStatuses

(* A copy of a deleted row, and a DELETE past its cleanup, belong to a     *)
(* tenant without an instance.                                             *)
DeletedIsDown ==
    NoDeletePatch =>
        /\ DeletedHasNoInstance
        /\ \A h \in Handlers :
             /\ op[h].step # "idle" /\ op[h].row.status = "deleted"
                => ~Running(op[h].id)
             /\ op[h].step = "remove" => ~Running(op[h].id)

(* A DELETE about to mark carries the mark. *)
MarkIsSet ==
    \A h \in Handlers : op[h].step = "mark" => op[h].row.status = "deleting"

IInv ==
    /\ TypeOK
    /\ RowsAreReal
    /\ KeyOwnership
    /\ DeletedIsDown
    /\ MarkIsSet

----------------------------------------------------------------------------
LEMMA NoRowType == NoRow \in Row /\ NoRow.key = NoKey /\ NoRow.status = "none"
BY DEF NoRow, Row

LEMMA IdleType ==
  /\ Idle \in Operation
  /\ Idle.step = "idle" /\ Idle.id = NoTenant /\ Idle.row = NoRow
BY NoRowType DEF Idle, Operation, HandlerSteps

LEMMA InitIInv == Init => IInv
<1> SUFFICES ASSUME Init PROVE IInv
  OBVIOUS
<1> USE StorageAssumption, IdleType, NoRowType
<1>1. \A h \in Handlers : op[h] = Idle
  BY DEF Init
<1>2. \A t \in Tenants : tenants[t].key \in Keys /\ keyOwner[tenants[t].key] = t
  <2> SUFFICES ASSUME NEW t \in Tenants
               PROVE  tenants[t].key \in Keys /\ keyOwner[tenants[t].key] = t
    OBVIOUS
  <2> DEFINE k == tenants[t].key
             u == CHOOSE u \in Tenants : tenants[u].key = k
  <2>1. k \in Keys
    BY DEF Init
  <2>2. u \in Tenants /\ tenants[u].key = k
    OBVIOUS
  <2>3. u = t
    BY <2>2 DEF Init
  <2>4. keyOwner[k] = u
    BY <2>1, <2>2 DEF Init
  <2> QED
    BY <2>1, <2>3, <2>4
<1>3. \A t \in Tenants : /\ tenants[t].status # "none"
                         /\ tenants[t].status # "deleted"
  BY DEF Init, SettledTenant
<1>4. TypeOK
  <2>1. keyOwner \in [Keys -> Tenants \cup {NoTenant}]
    BY DEF Init
  <2>2. op \in [Handlers -> Operation]
    BY DEF Init
  <2> QED
    BY <2>1, <2>2 DEF Init, TypeOK, StorageTypeOK, DeployerTypeOK
<1>5. RowsAreReal
  BY <1>1, <1>2, <1>3 DEF RowsAreReal, Carries
<1>6. KeyOwnership
  BY <1>1, <1>2 DEF KeyOwnership, OwnKey
<1>7. DeletedIsDown
  BY <1>1, <1>3 DEF DeletedIsDown, DeletedHasNoInstance
<1>8. MarkIsSet
  BY <1>1 DEF MarkIsSet
<1> QED
  BY <1>4, <1>5, <1>6, <1>7, <1>8 DEF IInv

----------------------------------------------------------------------------
(* A request reads its row. *)
LEMMA FetchStep ==
  ASSUME IInv, NEW h \in Handlers, NEW t \in Tenants,
         NEW step \in {"save", "mark", "rekey"}, NEW row \in Row,
         Fetch(h, t, step, row),
         row.key \in {tenants[t].key, NoKey},
         step # "rekey" => row.status # "none" /\ row.key = tenants[t].key,
         step = "mark" => row.status = "deleting",
         NoDeletePatch /\ row.status = "deleted"
           => tenants[t].status = "deleted"
  PROVE  IInv'
<1> USE StorageAssumption
<1>0. /\ TypeOK /\ RowsAreReal /\ KeyOwnership /\ DeletedIsDown
      /\ MarkIsSet
  BY DEF IInv
<1>1. tenants' = tenants /\ keyOwner' = keyOwner /\ vm' = vm
  BY DEF Fetch, storageVars
<1>2. /\ op' \in [Handlers -> Operation]
      /\ op'[h].step = step /\ op'[h].id = t /\ op'[h].row = row
      /\ \A g \in Handlers \ {h} : op'[g] = op[g]
  <2> DEFINE p == [step |-> step, id |-> t, row |-> row, expired |-> FALSE]
  <2>1. p \in Operation
    BY DEF Operation, HandlerSteps
  <2>2. op' = [op EXCEPT ![h] = p]
    BY DEF Fetch
  <2> QED
    BY <1>0, <2>1, <2>2 DEF TypeOK
<1>3. TypeOK'
  BY <1>0, <1>1, <1>2 DEF TypeOK, StorageTypeOK, DeployerTypeOK
<1>4. RowsAreReal'
  BY <1>0, <1>1, <1>2 DEF RowsAreReal, Carries
<1>5. KeyOwnership'
  BY <1>0, <1>1, <1>2 DEF KeyOwnership, OwnKey
<1>6. DeletedIsDown'
  BY <1>0, <1>1, <1>2 DEF DeletedIsDown, DeletedHasNoInstance, Running
<1>7. MarkIsSet'
  BY <1>0, <1>1, <1>2 DEF MarkIsSet
<1> QED
  BY <1>3, <1>4, <1>5, <1>6, <1>7 DEF IInv

----------------------------------------------------------------------------
(* What a handler does to its own operation: it answers, or it goes on to  *)
(* another step with the same tenant and copy.                             *)
Moves(h, steps) ==
    \/ op' = [op EXCEPT ![h] = Idle]
    \/ \E s \in steps : op' = [op EXCEPT ![h].step = s]

LEMMA MoveEffect ==
  ASSUME TypeOK, NEW h \in Handlers, NEW steps \in SUBSET HandlerSteps,
         Moves(h, steps)
  PROVE  /\ op' \in [Handlers -> Operation]
         /\ \A g \in Handlers \ {h} : op'[g] = op[g]
         /\ \/ op'[h] = Idle
            \/ /\ op'[h].step \in steps
               /\ op'[h].id = op[h].id /\ op'[h].row = op[h].row
<1>1. CASE op' = [op EXCEPT ![h] = Idle]
  BY <1>1, IdleType DEF TypeOK
<1>2. ASSUME NEW s \in steps, op' = [op EXCEPT ![h].step = s]
      PROVE  /\ op' \in [Handlers -> Operation]
             /\ \A g \in Handlers \ {h} : op'[g] = op[g]
             /\ op'[h].step = s
             /\ op'[h].id = op[h].id /\ op'[h].row = op[h].row
  <2>1. PICK p \in Operation : p = op[h]
    BY DEF TypeOK
  <2>2. /\ [p EXCEPT !.step = s] \in Operation
        /\ [p EXCEPT !.step = s].step = s
        /\ [p EXCEPT !.step = s].id = p.id
        /\ [p EXCEPT !.step = s].row = p.row
    BY DEF Operation
  <2>3. op' = [op EXCEPT ![h] = [p EXCEPT !.step = s]]
    BY <1>2, <2>1
  <2> QED
    BY <2>1, <2>2, <2>3 DEF TypeOK
<1> QED
  BY <1>1, <1>2 DEF Moves

(* A PUT, a mark or a revert writes its copy, with another status perhaps. *)
LEMMA WriteStep ==
  ASSUME IInv, NEW h \in Handlers, op[h].step \in {"save", "mark", "revert"},
         NEW row \in Row, row.key = op[h].row.key, row.status # "none",
         NoDeletePatch /\ row.status = "deleted" => ~Running(op[h].id),
         NEW out, UpdateTenant(op[h].id, row, out),
         vm' = vm,
         Moves(h, {"destroy"})
  PROVE  IInv'
<1> USE StorageAssumption, IdleType, NoRowType
<1>0. /\ TypeOK /\ RowsAreReal /\ KeyOwnership /\ DeletedIsDown
      /\ MarkIsSet
  BY DEF IInv
<1>1. PICK t \in Tenants : t = op[h].id
  BY <1>0 DEF RowsAreReal
<1>2. Carries(h) /\ op[h].step # "idle"
  BY DEF Carries
<1>3. row.key \in Keys /\ keyOwner[row.key] = t
  BY <1>0, <1>1, <1>2 DEF RowsAreReal, KeyOwnership, OwnKey
<1>4. /\ keyOwner' = keyOwner
      /\ tenants' = tenants \/ tenants' = [tenants EXCEPT ![t] = row]
  BY <1>1 DEF UpdateTenant
<1>5. /\ StorageTypeOK'
      /\ \A u \in Tenants : \/ tenants'[u] = tenants[u]
                            \/ u = t /\ tenants'[u] = row
  BY <1>0, <1>4 DEF TypeOK, StorageTypeOK
<1>6. /\ op' \in [Handlers -> Operation]
      /\ \A g \in Handlers \ {h} : op'[g] = op[g]
      /\ \/ op'[h] = Idle
         \/ /\ op'[h].step = "destroy"
            /\ op'[h].id = t /\ op'[h].row = op[h].row
  BY <1>0, <1>1, MoveEffect DEF HandlerSteps
<1>7. TypeOK'
  BY <1>0, <1>5, <1>6 DEF TypeOK, DeployerTypeOK
<1>8. RowsAreReal'
  BY <1>0, <1>1, <1>2, <1>3, <1>5, <1>6 DEF RowsAreReal, Carries
<1>9. KeyOwnership'
  BY <1>0, <1>1, <1>2, <1>3, <1>4, <1>5, <1>6 DEF KeyOwnership, OwnKey
<1>10. DeletedIsDown'
  BY <1>0, <1>1, <1>2, <1>5, <1>6
     DEF DeletedIsDown, DeletedHasNoInstance, Running
<1>11. MarkIsSet'
  BY <1>0, <1>6 DEF MarkIsSet
<1> QED
  BY <1>7, <1>8, <1>9, <1>10, <1>11 DEF IInv

(* The instance goes. *)
LEMMA InfrastructureStep ==
  ASSUME IInv, NEW h \in Handlers, DeleteInfrastructure(h)
  PROVE  IInv'
<1> USE StorageAssumption, IdleType, NoRowType
<1>0. /\ TypeOK /\ RowsAreReal /\ KeyOwnership /\ DeletedIsDown
      /\ MarkIsSet
  BY DEF IInv
<1>1. PICK t \in Tenants : t = op[h].id
  BY <1>0 DEF RowsAreReal, DeleteInfrastructure
<1>2. tenants' = tenants /\ keyOwner' = keyOwner
      /\ op[h].step = "destroy"
  BY DEF DeleteInfrastructure, storageVars
<1>3. PICK out :
        /\ DeleteServices(t, out)
        /\ Goto(h, IF ServicesDeleteFails(t, out) THEN "revert" ELSE "remove")
  BY <1>1 DEF DeleteInfrastructure
<1>4. NoVM \in Instance /\ NoVM.host = NoHost
  BY DEF NoVM, Instance
<1>5. /\ DeployerTypeOK'
      /\ \A u \in Tenants : vm[u].host = NoHost => vm'[u].host = NoHost
      /\ out # "err" => vm'[t].host = NoHost
  BY <1>0, <1>3, <1>4 DEF TypeOK, DeployerTypeOK, DeleteServices, Running
<1>6. Moves(h, {"revert", "remove"})
  BY <1>3 DEF Moves, Goto
<1>7. /\ op' \in [Handlers -> Operation]
      /\ \A g \in Handlers \ {h} : op'[g] = op[g]
      /\ \/ op'[h] = Idle
         \/ /\ op'[h].step \in {"revert", "remove"}
            /\ op'[h].id = t /\ op'[h].row = op[h].row
  BY <1>0, <1>1, <1>6, MoveEffect DEF HandlerSteps
<1>8. op'[h].step = "remove" => vm'[t].host = NoHost
  <2>1. op'[h].step = IF ServicesDeleteFails(t, out) THEN "revert" ELSE "remove"
    BY <1>0, <1>3 DEF Goto, TypeOK, Operation
  <2> QED
    BY <1>5, <2>1 DEF ServicesDeleteFails
<1>9. TypeOK'
  BY <1>0, <1>2, <1>5, <1>7 DEF TypeOK, StorageTypeOK
<1>10. RowsAreReal'
  BY <1>0, <1>2, <1>7 DEF RowsAreReal, Carries
<1>11. KeyOwnership'
  BY <1>0, <1>1, <1>2, <1>7 DEF KeyOwnership, OwnKey
<1>12. DeletedIsDown'
  <2> SUFFICES ASSUME NoDeletePatch
               PROVE  /\ DeletedHasNoInstance'
                      /\ \A g \in Handlers : op'[g].step # "idle" =>
                           /\ op'[g].row.status = "deleted"
                                => vm'[op'[g].id].host = NoHost
                           /\ op'[g].step = "remove"
                                => vm'[op'[g].id].host = NoHost
    BY <1>7, NoRowType DEF DeletedIsDown, Running, NoDeletePatch
  <2>1. DeletedHasNoInstance'
    BY <1>0, <1>2, <1>5 DEF DeletedIsDown, DeletedHasNoInstance, Running
  <2>2. ASSUME NEW g \in Handlers, op'[g].step # "idle"
        PROVE  /\ op'[g].row.status = "deleted" => vm'[op'[g].id].host = NoHost
               /\ op'[g].step = "remove" => vm'[op'[g].id].host = NoHost
    <3>1. CASE g = h
      BY <1>0, <1>1, <1>2, <1>5, <1>7, <1>8, <2>2, <3>1
         DEF DeletedIsDown, Running
    <3>2. CASE g # h
      <4>1. op'[g] = op[g] /\ op[g].id \in Tenants
        BY <1>0, <1>7, <2>2, <3>2 DEF RowsAreReal
      <4> QED
        BY <1>0, <1>5, <2>2, <4>1 DEF DeletedIsDown, Running
    <3> QED
      BY <3>1, <3>2
  <2> QED
    BY <2>1, <2>2
<1>13. MarkIsSet'
  BY <1>0, <1>2, <1>7 DEF MarkIsSet
<1> QED
  BY <1>9, <1>10, <1>11, <1>12, <1>13 DEF IInv

(* The row is marked deleted; no handler reads the status column alone. *)
LEMMA DeleteRowStep ==
  ASSUME IInv, NEW h \in Handlers, DeleteRow(h)
  PROVE  IInv'
<1> USE StorageAssumption, IdleType, NoRowType
<1>0. /\ TypeOK /\ RowsAreReal /\ KeyOwnership /\ DeletedIsDown
      /\ MarkIsSet
  BY DEF IInv
<1>1. PICK t \in Tenants : t = op[h].id
  BY <1>0 DEF RowsAreReal, DeleteRow
<1>2. /\ op[h].step = "remove" /\ (NoDeletePatch => ~Running(t))
      /\ vm' = vm
      /\ op' = [op EXCEPT ![h] = Idle]
  BY <1>0, <1>1 DEF DeleteRow, Answer, DeletedIsDown
<1>3. PICK out : DeleteTenant(t, out)
  BY <1>1 DEF DeleteRow
<1>4. /\ StorageTypeOK' /\ keyOwner' = keyOwner
      /\ \A u \in Tenants : /\ tenants'[u].key = tenants[u].key
                            /\ \/ tenants'[u] = tenants[u]
                               \/ u = t /\ tenants'[u].status = "deleted"
  BY <1>0, <1>3 DEF TypeOK, StorageTypeOK, DeleteTenant, Row, Statuses
<1>5. /\ op' \in [Handlers -> Operation] /\ op'[h] = Idle
      /\ \A g \in Handlers \ {h} : op'[g] = op[g]
  BY <1>0, <1>2 DEF TypeOK
<1>6. TypeOK'
  BY <1>0, <1>2, <1>4, <1>5 DEF TypeOK, DeployerTypeOK
<1>7. RowsAreReal'
  BY <1>0, <1>4, <1>5 DEF RowsAreReal, Carries
<1>8. KeyOwnership'
  BY <1>0, <1>4, <1>5 DEF KeyOwnership, OwnKey
<1>9. DeletedIsDown'
  BY <1>0, <1>2, <1>4, <1>5 DEF DeletedIsDown, DeletedHasNoInstance, Running
<1>10. MarkIsSet'
  BY <1>0, <1>5 DEF MarkIsSet
<1> QED
  BY <1>6, <1>7, <1>8, <1>9, <1>10 DEF IInv

----------------------------------------------------------------------------
(* A new key. *)
LEMMA RekeyStep ==
  ASSUME IInv, NEW h \in Handlers, RegenerateWrite(h)
  PROVE  IInv'
<1> USE StorageAssumption, IdleType, NoRowType
<1>0. /\ TypeOK /\ RowsAreReal /\ KeyOwnership /\ DeletedIsDown
      /\ MarkIsSet
  BY DEF IInv
<1>1. PICK t \in Tenants : t = op[h].id
  BY <1>0 DEF RowsAreReal, RegenerateWrite
<1>2. /\ vm' = vm /\ op' = [op EXCEPT ![h] = Idle]
  BY DEF RegenerateWrite, Answer
<1>3. PICK k \in Keys, out \in Under(h, StorageOutcomes) : WriteNewKey(t, k, out)
  BY <1>1 DEF RegenerateWrite
<1>4. Stored(t) /\ tenants[t].key \in Keys /\ keyOwner[tenants[t].key] = t
  BY <1>0 DEF RowsAreReal, Stored, KeyOwnership, OwnKey
<1>5. keyOwner[k] = NoTenant
  BY <1>3 DEF WriteNewKey, FreshKey
<1>6. \/ tenants' = tenants /\ keyOwner' = keyOwner
      \/ /\ tenants' = [tenants EXCEPT ![t].key = k]
         /\ keyOwner' = [keyOwner EXCEPT ![k] = t]
  BY <1>3, <1>4 DEF WriteNewKey, storageVars
<1>7. /\ StorageTypeOK'
      /\ \A u \in Tenants : /\ tenants'[u].status = tenants[u].status
                            /\ \/ tenants'[u] = tenants[u]
                               \/ u = t /\ tenants'[u].key = k /\ keyOwner'[k] = t
      /\ \A l \in Keys : keyOwner[l] # NoTenant => keyOwner'[l] = keyOwner[l]
  BY <1>0, <1>5, <1>6 DEF TypeOK, StorageTypeOK, Row
<1>8. /\ op' \in [Handlers -> Operation] /\ op'[h] = Idle
      /\ \A g \in Handlers \ {h} : op'[g] = op[g]
  BY <1>0, <1>2 DEF TypeOK
<1>10. TypeOK'
  BY <1>0, <1>2, <1>7, <1>8 DEF TypeOK, DeployerTypeOK
<1>11. RowsAreReal'
  BY <1>0, <1>7, <1>8 DEF RowsAreReal, Carries
<1>12. \A u \in Tenants, l \in Keys : keyOwner[l] = u => keyOwner'[l] = u
  BY <1>7
<1>13. KeyOwnership'
  <2>1. \A u \in Tenants : OwnKey(u, tenants[u].key)'
    BY <1>0, <1>7, <1>12 DEF RowsAreReal, KeyOwnership, OwnKey
  <2>2. ASSUME NEW g \in Handlers \ {h}, op[g].step # "idle"
        PROVE  OwnKey(op[g].id, op[g].row.key)'
    <3>1. /\ op[g].id \in Tenants /\ op'[g] = op[g]
          /\ op[g].row.key \in Keys \cup {NoKey}
          /\ OwnKey(op[g].id, op[g].row.key)
      BY <1>0, <1>8, <2>2 DEF RowsAreReal, TypeOK, Operation, Row, KeyOwnership
    <3> QED
      BY <1>12, <3>1 DEF OwnKey
  <2> QED
    BY <1>8, <2>1, <2>2 DEF KeyOwnership
<1>14. DeletedIsDown'
  BY <1>0, <1>2, <1>7, <1>8 DEF DeletedIsDown, DeletedHasNoInstance, Running
<1>15. MarkIsSet'
  BY <1>0, <1>8 DEF MarkIsSet
<1> QED
  BY <1>10, <1>11, <1>13, <1>14, <1>15 DEF IInv

(* A context ends. *)
LEMMA ExpireStep ==
  ASSUME IInv, NEW h \in Handlers, Expire(h)
  PROVE  IInv'
<1>0. /\ TypeOK /\ RowsAreReal /\ KeyOwnership /\ DeletedIsDown
      /\ MarkIsSet
  BY DEF IInv
<1>1. /\ tenants' = tenants /\ keyOwner' = keyOwner /\ vm' = vm
     
  BY DEF Expire, storageVars
<1>2. /\ op' \in [Handlers -> Operation]
      /\ \A g \in Handlers :
           /\ op'[g].step = op[g].step /\ op'[g].id = op[g].id
           /\ op'[g].row = op[g].row
  <2>1. PICK p \in Operation : p = op[h]
    BY <1>0 DEF TypeOK
  <2>2. /\ [p EXCEPT !.expired = TRUE] \in Operation
        /\ [p EXCEPT !.expired = TRUE].step = p.step
        /\ [p EXCEPT !.expired = TRUE].id = p.id
        /\ [p EXCEPT !.expired = TRUE].row = p.row
    BY DEF Operation
  <2>3. op' = [op EXCEPT ![h] = [p EXCEPT !.expired = TRUE]]
    BY <2>1 DEF Expire
  <2> QED
    BY <1>0, <2>1, <2>2, <2>3 DEF TypeOK
<1>3. TypeOK'
  BY <1>0, <1>1, <1>2 DEF TypeOK, StorageTypeOK, DeployerTypeOK
<1>4. RowsAreReal' /\ KeyOwnership'
  BY <1>0, <1>1, <1>2 DEF RowsAreReal, Carries, KeyOwnership, OwnKey
<1>5. DeletedIsDown'
  BY <1>0, <1>1, <1>2 DEF DeletedIsDown, DeletedHasNoInstance, Running
<1>6. MarkIsSet'
  BY <1>0, <1>2 DEF MarkIsSet
<1> QED
  BY <1>3, <1>4, <1>5, <1>6 DEF IInv

----------------------------------------------------------------------------
(* The actions, as instances of the steps above. *)

LEMMA ReadSteps ==
  ASSUME IInv, NEW h \in Handlers,
         UpdateFetch(h) \/ DeleteFetch(h) \/ RegenerateFetch(h)
  PROVE  IInv'
<1>1. \A t \in Tenants : tenants[t] \in Row /\ tenants[t].status # "none"
  BY DEF IInv, TypeOK, StorageTypeOK, RowsAreReal
<1>2. CASE UpdateFetch(h)
  <2>1. PICK t \in Tenants, s \in PatchStatuses \cup {""},
             a \in PatchHosts \cup {NoHost} :
          Fetch(h, t, "save", Patched(tenants[t], s, a))
    BY <1>2 DEF UpdateFetch
  <2>2. PICK r \in Row : r = tenants[t] /\ r.status # "none"
    BY <1>1
  <2>3. s # "" => /\ s \in Statuses /\ s # "none"
                  /\ NoDeletePatch => s # "deleted"
    BY AdminAssumption DEF NoDeletePatch, Statuses
  <2>4. /\ Patched(r, s, a) \in Row
        /\ Patched(r, s, a).key = r.key
        /\ Patched(r, s, a).status = IF s = "" THEN r.status ELSE s
    BY <2>3, AdminAssumption DEF Patched, Row
  <2> QED
    BY <2>1, <2>2, <2>3, <2>4, FetchStep
<1>3. CASE DeleteFetch(h)
  <2>1. PICK t \in Tenants :
          Fetch(h, t, "mark", [tenants[t] EXCEPT !.status = "deleting"])
    BY <1>3 DEF DeleteFetch
  <2>2. PICK r \in Row : r = tenants[t]
    BY <1>1
  <2>3. /\ [r EXCEPT !.status = "deleting"] \in Row
        /\ [r EXCEPT !.status = "deleting"].key = r.key
        /\ [r EXCEPT !.status = "deleting"].status = "deleting"
    BY DEF Row, Statuses
  <2> QED
    BY <2>1, <2>2, <2>3, FetchStep
<1>4. CASE RegenerateFetch(h)
  <2>1. PICK t \in Tenants : Fetch(h, t, "rekey", NoRow)
    BY <1>4 DEF RegenerateFetch
  <2> QED
    BY <2>1, NoRowType, FetchStep
<1> QED
  BY <1>2, <1>3, <1>4

LEMMA WriteSteps ==
  ASSUME IInv, NEW h \in Handlers,
         UpdateSave(h) \/ DeleteMark(h) \/ DeleteRevert(h)
  PROVE  IInv'
<1>1. op[h] \in Operation /\ op[h].row \in Row
  BY DEF IInv, TypeOK, Operation
<1>2. op[h].step \in {"save", "mark", "revert"} => op[h].row.status # "none"
  BY DEF IInv, RowsAreReal, Carries
<1>3. op' = [op EXCEPT ![h] = Idle] => op'[h].step = "idle"
  BY IdleType DEF IInv, TypeOK
<1>4. CASE UpdateSave(h)
  <2>1. PICK out : UpdateTenant(op[h].id, op[h].row, out)
    BY <1>4 DEF UpdateSave
  <2>2. /\ op[h].step = "save" /\ vm' = vm
        /\ op' = [op EXCEPT ![h] = Idle]
    BY <1>4 DEF UpdateSave, Answer
  <2>3. NoDeletePatch /\ op[h].row.status = "deleted" => ~Running(op[h].id)
    BY <2>2 DEF IInv, DeletedIsDown
  <2> QED
    BY <1>1, <1>2, <1>3, <2>1, <2>2, <2>3, WriteStep DEF Moves
<1>5. CASE DeleteMark(h)
  <2>1. PICK out :
          /\ UpdateTenant(op[h].id, op[h].row, out)
          /\ IF UpdateFails(op[h].id, op[h].row, out)
             THEN Answer(h) ELSE Goto(h, "destroy")
    BY <1>5 DEF DeleteMark
  <2>2. op[h].step = "mark" /\ vm' = vm
    BY <1>5 DEF DeleteMark
  <2>3. op[h].row.status # "deleted"
    BY <2>2 DEF IInv, MarkIsSet
  <2>4. Moves(h, {"destroy"})
    BY <2>1 DEF Moves, Answer, Goto
  <2> QED
    BY <1>1, <1>2, <2>1, <2>2, <2>3, <2>4, WriteStep
<1>6. CASE DeleteRevert(h)
  <2>1. PICK out : UpdateTenant(op[h].id, RevertedRow(h), out)
    BY <1>6 DEF DeleteRevert
  <2>2. /\ op[h].step = "revert" /\ vm' = vm
        /\ op' = [op EXCEPT ![h] = Idle]
    BY <1>6 DEF DeleteRevert, Answer
  <2>3. PICK r \in Row : r = op[h].row
    BY <1>1
  <2>4. /\ [r EXCEPT !.status = "active"] \in Row
        /\ [r EXCEPT !.status = "active"].key = r.key
        /\ [r EXCEPT !.status = "active"].status = "active"
    BY DEF Row, Statuses
  <2> QED
    BY <1>3, <2>1, <2>2, <2>3, <2>4, WriteStep DEF Moves, RevertedRow
<1> QED
  BY <1>4, <1>5, <1>6

LEMMA Inductive == IInv /\ [Next]_vars => IInv'
<1> SUFFICES ASSUME IInv, [Next]_vars PROVE IInv'
  OBVIOUS
<1>1. ASSUME NEW h \in Handlers,
             UpdateFetch(h) \/ DeleteFetch(h) \/ RegenerateFetch(h)
      PROVE  IInv'
  BY <1>1, ReadSteps
<1>2. ASSUME NEW h \in Handlers,
             UpdateSave(h) \/ DeleteMark(h) \/ DeleteRevert(h)
      PROVE  IInv'
  BY <1>2, WriteSteps
<1>3. ASSUME NEW h \in Handlers, DeleteInfrastructure(h) PROVE IInv'
  BY <1>3, InfrastructureStep
<1>4. ASSUME NEW h \in Handlers, DeleteRow(h) PROVE IInv'
  BY <1>4, DeleteRowStep
<1>5. ASSUME NEW h \in Handlers, RegenerateWrite(h) PROVE IInv'
  BY <1>5, RekeyStep
<1>6. ASSUME NEW h \in Handlers, Expire(h) PROVE IInv'
  BY <1>6, ExpireStep
<1>7. CASE UNCHANGED vars
  <2>1. UNCHANGED <<tenants, keyOwner, vm, op>>
    BY <1>7 DEF vars, storageVars, adminVars
  <2>2. TypeOK' /\ RowsAreReal' /\ KeyOwnership'
    BY <2>1 DEF IInv, TypeOK, StorageTypeOK, DeployerTypeOK, RowsAreReal,
                Carries, KeyOwnership, OwnKey
  <2>3. DeletedIsDown' /\ MarkIsSet'
    BY <2>1 DEF IInv, DeletedIsDown, DeletedHasNoInstance, Running, MarkIsSet
  <2> QED
    BY <2>2, <2>3 DEF IInv
<1> QED
  BY <1>1, <1>2, <1>3, <1>4, <1>5, <1>6, <1>7 DEF Next

----------------------------------------------------------------------------
(* Types: rows, instances and the requests' copies keep their types.       *)
THEOREM TypeCorrect == Spec => []TypeOK
<1>1. IInv => TypeOK
  BY DEF IInv
<1> QED
  BY <1>1, InitIInv, Inductive, PTL DEF Spec

(* updateTenant, deleteTenant, regenerateAPIKey: stale copies written back *)
(* in any order leave every tenant with keys of its own.                   *)
THEOREM KeysStayOwn == Spec => []KeyOwnership
<1>1. IInv => KeyOwnership
  BY DEF IInv
<1> QED
  BY <1>1, InitIInv, Inductive, PTL DEF Spec

(* deleteTenant: no order of several requests, failed writes and expired   *)
(* contexts leaves an instance behind a deleted row.                       *)
THEOREM DeletedAreDown ==
  ASSUME NoDeletePatch
  PROVE  Spec => []DeletedHasNoInstance
<1>1. IInv => DeletedHasNoInstance
  BY DEF IInv, DeletedIsDown
<1> QED
  BY <1>1, InitIInv, Inductive, PTL DEF Spec
=============================================================================
