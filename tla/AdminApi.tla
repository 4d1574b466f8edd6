------------------------------ MODULE AdminApi -----------------------------
(***************************************************************************)
(* The handlers of the admin API that change an existing tenant: PUT       *)
(* (updateTenant), DELETE (deleteTenant) and POST regenerate-key           *)
(* (regenerateAPIKey).  Each reads the row, works on that copy, and writes *)
(* it back later: every call that leaves the process is a step of its own, *)
(* and any number of requests for one tenant may be between their steps.   *)
(*                                                                         *)
(* The worker and the health check write the same rows.  What the handlers *)
(* promise of a tenant they share with those two, the end of an old key    *)
(* and the mark of a deletion, is stated and checked in TenantSystem.      *)
(*                                                                         *)
(* A handler serves one request after the other.  Ownership checks (user   *)
(* against admin) only refuse requests and are left out: the requests here *)
(* are those that pass them.                                               *)
(***************************************************************************)
EXTENDS YandexDeployer

CONSTANTS
    Handlers,         \* goroutines that serve requests
    PatchStatuses,    \* statuses a PUT may ask for
    PatchHosts,       \* addresses a PUT may ask for
    MayExpire         \* a request context may end early: the client leaves,
                      \* or the 30 s (DELETE) or 5 s (regenerate) pass

ASSUME AdminAssumption ==
    /\ PatchStatuses \subseteq Statuses
    /\ PatchHosts \subseteq Hosts
    /\ MayExpire \in BOOLEAN

VARIABLES
    op                \* what every handler is doing

adminVars == <<op>>
vars == <<storageVars, vm, adminVars>>

HandlerSteps == {"idle", "save", "mark", "destroy", "revert", "remove", "rekey"}

(* row is the copy the handler will write, expired says that the request's *)
(* context is done.                                                        *)
Operation == [step    : HandlerSteps,
              id      : Tenants \cup {NoTenant},
              row     : Row,
              expired : BOOLEAN]

Idle == [step |-> "idle", id |-> NoTenant, row |-> NoRow, expired |-> FALSE]

TypeOK ==
    /\ StorageTypeOK
    /\ DeployerTypeOK
    /\ op \in [Handlers -> Operation]

(* A tenant as provisioning leaves it: served, suspended by an operator,   *)
(* or given up without an instance.                                        *)
SettledTenant(t) ==
    \/ /\ tenants[t].status \in {"active", "suspended"}
       /\ vm[t] = [host |-> tenants[t].host, key |-> tenants[t].key]
       /\ Running(t)
    \/ /\ tenants[t].status = "provisioning_failed"
       /\ tenants[t].host = NoHost
       /\ ~Running(t)

Init ==
    /\ tenants \in [Tenants -> Row]
    /\ vm \in [Tenants -> Instance]
    /\ \A t \in Tenants : tenants[t].key \in Keys /\ SettledTenant(t)
    /\ \A t, u \in Tenants : t # u => /\ tenants[t].key # tenants[u].key
                                      /\ Running(t) => vm[t].host # vm[u].host
    /\ keyOwner = [k \in Keys |->
                     IF \E t \in Tenants : tenants[t].key = k
                     THEN CHOOSE t \in Tenants : tenants[t].key = k
                     ELSE NoTenant]
    /\ op = [h \in Handlers |-> Idle]

----------------------------------------------------------------------------
Under(h, outcomes) == IF op[h].expired THEN {"err"} ELSE outcomes

Goto(h, step) == op' = [op EXCEPT ![h].step = step]
Answer(h)     == op' = [op EXCEPT ![h] = Idle]

(* GetTenant of the row the handler will work on.  A failed read answers   *)
(* 404 and changes nothing.                                                *)
Fetch(h, t, step, row) ==
    /\ op[h].step = "idle"
    /\ Stored(t)
    /\ op' = [op EXCEPT ![h] = [step |-> step, id |-> t, row |-> row,
                                expired |-> FALSE]]
    /\ UNCHANGED <<storageVars, vm>>

(* The fields of a PUT that are not empty replace those of the copy.       *)
Patched(row, status, host) ==
    [row EXCEPT !.status = IF status = "" THEN @ ELSE status,
                !.host   = IF host = NoHost THEN @ ELSE host]

UpdateFetch(h) ==
    \E t \in Tenants, s \in PatchStatuses \cup {""},
       a \in PatchHosts \cup {NoHost} :
        Fetch(h, t, "save", Patched(tenants[t], s, a))

UpdateSave(h) ==
    /\ op[h].step = "save"
    /\ \E out \in Under(h, StorageOutcomes) :
         UpdateTenant(op[h].id, op[h].row, out)
    /\ Answer(h)
    /\ UNCHANGED vm

----------------------------------------------------------------------------
(* Mutant: the instance is deleted before the row is marked. *)
DeleteFetchMutant(h) ==
    \E t \in Tenants :
        Fetch(h, t, "destroy", [tenants[t] EXCEPT !.status = "deleting"])

DeleteFetch(h) ==
    \E t \in Tenants :
        Fetch(h, t, "mark", [tenants[t] EXCEPT !.status = "deleting"])

DeleteMark(h) ==
    /\ op[h].step = "mark"
    /\ \E out \in Under(h, StorageOutcomes) :
         /\ UpdateTenant(op[h].id, op[h].row, out)
         /\ IF UpdateFails(op[h].id, op[h].row, out)
            THEN Answer(h)
            ELSE Goto(h, "destroy")
    /\ UNCHANGED vm

(* Mutant: an error of DeleteServices is only logged. *)
DeleteInfrastructureMutant(h) ==
    /\ op[h].step = "destroy"
    /\ \E out \in Under(h, DeleteOutcomes) : DeleteServices(op[h].id, out)
    /\ Goto(h, "remove")
    /\ UNCHANGED storageVars

DeleteInfrastructure(h) ==
    /\ op[h].step = "destroy"
    /\ \E out \in Under(h, DeleteOutcomes) :
         /\ DeleteServices(op[h].id, out)
         /\ Goto(h, IF ServicesDeleteFails(op[h].id, out) THEN "revert"
                                                          ELSE "remove")
    /\ UNCHANGED storageVars

(* Mutant: the revert writes "running", a status nobody else knows. *)
RevertedRowMutant(h) == [op[h].row EXCEPT !.status = "running"]

(* "Revert status back to previous state": the copy, with status "active"; *)
(* the error of the write is dropped.                                      *)
RevertedRow(h) == [op[h].row EXCEPT !.status = "active"]

DeleteRevert(h) ==
    /\ op[h].step = "revert"
    /\ \E out \in Under(h, StorageOutcomes) :
         UpdateTenant(op[h].id, RevertedRow(h), out)
    /\ Answer(h)
    /\ UNCHANGED vm

DeleteRow(h) ==
    /\ op[h].step = "remove"
    /\ \E out \in Under(h, StorageOutcomes) : DeleteTenant(op[h].id, out)
    /\ Answer(h)
    /\ UNCHANGED vm

----------------------------------------------------------------------------
(* The handler's GetTenant and the one inside RegenerateAPIKey; neither    *)
(* copy is used, and rows never disappear.                                 *)
RegenerateFetch(h) ==
    \E t \in Tenants : Fetch(h, t, "rekey", NoRow)

RegenerateWrite(h) ==
    /\ op[h].step = "rekey"
    /\ \E k \in Keys, out \in Under(h, StorageOutcomes) :
         WriteNewKey(op[h].id, k, out)
    /\ Answer(h)
    /\ UNCHANGED vm

----------------------------------------------------------------------------
Expire(h) ==
    /\ MayExpire
    /\ op[h].step # "idle"
    /\ ~op[h].expired
    /\ op' = [op EXCEPT ![h].expired = TRUE]
    /\ UNCHANGED <<storageVars, vm>>

Next ==
    \E h \in Handlers :
        \/ UpdateFetch(h)     \/ UpdateSave(h)
        \/ DeleteFetch(h)     \/ DeleteMark(h)   \/ DeleteInfrastructure(h)
        \/ DeleteRevert(h)    \/ DeleteRow(h)
        \/ RegenerateFetch(h) \/ RegenerateWrite(h)
        \/ Expire(h)

Spec == Init /\ [][Next]_vars

----------------------------------------------------------------------------
(* Safety *)

OwnKey(t, k) == k = NoKey \/ keyOwner[k] = t

(* Whatever mix of stale copies the handlers write back, a row carries a   *)
(* key that was generated for that tenant: an API key never resolves to    *)
(* another tenant.                                                         *)
KeyOwnership ==
    /\ \A t \in Tenants : OwnKey(t, tenants[t].key)
    /\ \A h \in Handlers : op[h].step # "idle" => OwnKey(op[h].id, op[h].row.key)

(* deleteTenant removes the instance "to stop costs" before it marks the   *)
(* row deleted: no order of several requests leaves an instance running    *)
(* behind a deleted row.                                                   *)
DeletedHasNoInstance ==
    \A t \in Tenants : tenants[t].status = "deleted" => ~Running(t)
=============================================================================
