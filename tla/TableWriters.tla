---------------------------- MODULE TableWriters ---------------------------
(***************************************************************************)
(* What the rest of the program may do to the tenants table, as somebody   *)
(* who only reads it sees it.  The worker, the requests, the admin         *)
(* handlers and the health check write back whole rows they read minutes   *)
(* earlier, so a write may bring back any status, any address and any key  *)
(* the tenant ever had: the address may turn empty again when a DELETE is  *)
(* reverted, and an old key may return.  Two things a write cannot do:     *)
(* give a row a key that was drawn for another tenant, and take a row      *)
(* away.  TenantSystem, where those writers are modelled step by step,     *)
(* implements this module (ImplementsWriters there).                       *)
(***************************************************************************)
EXTENDS TenantStorage

CONSTANT WrittenStatuses   \* statuses that writes after the insert may store

ASSUME WritersAssumption == WrittenStatuses \subseteq Statuses

(* CreateTenant, from the queue's path or the synchronous one. *)
Inserted(t) ==
    \E k \in Keys, status \in {"provisioning", ""} :
        InsertTenant(t, NewRow(status, k), "ok")

(* UpdateTenant with somebody's copy, or the soft delete. *)
OwnKey(t, k) == k = NoKey \/ keyOwner[k] = t

RowWritten(t) ==
    /\ Stored(t)
    /\ \/ \E s \in WrittenStatuses, h \in Hosts \cup {NoHost},
            k \in {j \in Keys \cup {NoKey} : OwnKey(t, j)} :
              UpdateTenant(t, [status |-> s, key |-> k, host |-> h], "ok")
       \/ /\ "deleted" \in WrittenStatuses
          /\ tenants' = [tenants EXCEPT ![t].status = "deleted"]
          /\ UNCHANGED keyOwner

(* RegenerateAPIKey *)
KeyReplaced(t) == \E k \in Keys : WriteNewKey(t, k, "ok")

TableStep(t) == Inserted(t) \/ RowWritten(t) \/ KeyReplaced(t)

TableNext == \E t \in Tenants : TableStep(t)

TableSpec == StorageInit /\ [][TableNext]_storageVars
=============================================================================
