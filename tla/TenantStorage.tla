--------------------------- MODULE TenantStorage ---------------------------
(***************************************************************************)
(* The tenants table behind ports.TenantStorage, as the PostgreSQL adapter *)
(* reads and writes it.  Every statement of the adapter is atomic (one SQL *)
(* statement, autocommit); what a CALLER does between two statements is    *)
(* not, and is modelled by the modules that extend this one.               *)
(*                                                                         *)
(* A row keeps the three columns the properties tell apart: status, the    *)
(* API key and the address ("host" stands for the pair host:port).  The    *)
(* columns user_id, name, email, plan, max_rooms, max_rps and the          *)
(* timestamps travel with the row and decide nothing here.  The fields     *)
(* ProvisioningStatus and ProvisioningError of ports.Tenant are absent     *)
(* because no statement of the adapter stores or loads them.               *)
(***************************************************************************)
EXTENDS Naturals, FiniteSets

CONSTANTS
    Tenants,          \* tenant ids that generateTenantID may draw
    Keys,             \* API keys that generateAPIKey may draw
    Hosts,            \* addresses a cloud instance may get
    NoTenant,         \* no tenant: a key nobody was given, an empty pointer
    NoKey,            \* the empty API key ""
    NoHost,           \* the empty address "", port 0
    StorageOutcomes   \* what a write may do: "ok", "err" (nothing written,
                      \* error returned), "lost" (written, error returned:
                      \* the connection broke after the commit)

ASSUME StorageAssumption ==
    /\ NoTenant \notin Tenants
    /\ NoKey \notin Keys
    /\ NoHost \notin Hosts
    /\ StorageOutcomes \subseteq {"ok", "err", "lost"}

VARIABLES
    tenants,          \* the table: the row of every id, NoRow where absent
    keyOwner          \* for every key, the tenant it was generated for

storageVars == <<tenants, keyOwner>>

(* "unhealthy" is written by the health check only. *)
Statuses == {"provisioning", "provisioning_failed", "active", "suspended",
             "unhealthy", "deleting", "deleted"}

Row == [status : Statuses \cup {"none"},
        key    : Keys \cup {NoKey},
        host   : Hosts \cup {NoHost}]

NoRow == [status |-> "none", key |-> NoKey, host |-> NoHost]

Stored(t) == tenants[t].status # "none"

StorageTypeOK ==
    /\ tenants  \in [Tenants -> Row]
    /\ keyOwner \in [Keys -> Tenants \cup {NoTenant}]

StorageInit ==
    /\ tenants  = [t \in Tenants |-> NoRow]
    /\ keyOwner = [k \in Keys |-> NoTenant]

----------------------------------------------------------------------------
(* generateTenantID, generateAPIKey: ids and keys are UUIDs, so an insert  *)
(* draws an id without a row and a key nobody was given before.            *)
FreshID(t) == ~Stored(t)

(* Mutant: keys that may repeat. *)
FreshKeyMutant(k) == TRUE
FreshKey(k)       == keyOwner[k] = NoTenant

(* The UNIQUE constraint on tenants.api_key, also of the dead rows. *)
KeyTaken(t, k) == \E u \in Tenants \ {t} : Stored(u) /\ tenants[u].key = k

(* The row CreateTenant inserts; an empty status becomes "active". *)
NewRow(status, k) ==
    [status |-> IF status = "" THEN "active" ELSE status,
     key    |-> k,
     host   |-> NoHost]

(* The PRIMARY KEY and the UNIQUE constraint refuse a row; an error of the *)
(* INSERT is all that CreateTenant returns then.                           *)
InsertRejected(t, row)   == Stored(t) \/ KeyTaken(t, row.key)
InsertFails(t, row, out) == out # "ok" \/ InsertRejected(t, row)

(* Mutant: keys that may repeat, and no UNIQUE constraint to notice. *)
InsertTenantMutant(t, row, out) ==
    /\ FreshID(t)
    /\ IF out = "err"
       THEN UNCHANGED storageVars
       ELSE /\ tenants'  = [tenants EXCEPT ![t] = row]
            /\ keyOwner' = [keyOwner EXCEPT ![row.key] = t]

InsertTenant(t, row, out) ==
    /\ FreshID(t)
    /\ FreshKey(row.key)
    /\ IF out = "err" \/ InsertRejected(t, row)
       THEN UNCHANGED storageVars
       ELSE /\ tenants'  = [tenants EXCEPT ![t] = row]
            /\ keyOwner' = [keyOwner EXCEPT ![row.key] = t]

(* UPDATE ... WHERE id writes the whole row of the caller's copy. *)
UpdateRejected(t, row) == ~Stored(t) \/ KeyTaken(t, row.key)

UpdateFails(t, row, out) == out # "ok" \/ UpdateRejected(t, row)

UpdateTenant(t, row, out) ==
    /\ tenants' = IF out = "err" \/ UpdateRejected(t, row)
                  THEN tenants
                  ELSE [tenants EXCEPT ![t] = row]
    /\ UNCHANGED keyOwner

(* The soft delete sets the status column alone. *)
DeleteFails(t, out) == out # "ok" \/ ~Stored(t)

(* Mutant: DELETE FROM, which takes the row away. *)
DeleteTenantMutant(t, out) ==
    /\ tenants' = IF out = "err" \/ ~Stored(t)
                  THEN tenants
                  ELSE [tenants EXCEPT ![t] = NoRow]
    /\ UNCHANGED keyOwner

DeleteTenant(t, out) ==
    /\ tenants' = IF out = "err" \/ ~Stored(t)
                  THEN tenants
                  ELSE [tenants EXCEPT ![t].status = "deleted"]
    /\ UNCHANGED keyOwner

(* The UPDATE of RegenerateAPIKey, which writes the key column alone; the  *)
(* GetTenant before it is the caller's step.                               *)
WriteNewKey(t, k, out) ==
    /\ FreshKey(k)
    /\ IF out = "err" \/ ~Stored(t) \/ KeyTaken(t, k)
       THEN UNCHANGED storageVars
       ELSE /\ tenants'  = [tenants EXCEPT ![t].key = k]
            /\ keyOwner' = [keyOwner EXCEPT ![k] = t]

(* GetTenant returns the row whatever its status; GetTenantByAPIKey too.   *)
GetTenantFails(t, out) == out # "ok" \/ ~Stored(t)

GetTenantByAPIKey(k) == {t \in Tenants : Stored(t) /\ tenants[t].key = k}
=============================================================================
