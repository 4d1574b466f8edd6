---------------------------- MODULE HealthCheck ----------------------------
(***************************************************************************)
(* healthcheck.Service: one loop that, after a delay and then on every     *)
(* tick, lists the tenants, checks the served ones concurrently (a         *)
(* semaphore bounds how many at a time) and writes "unhealthy" after three *)
(* failures in a row or "active" after a success.  A write stores the      *)
(* whole row of the batch's copy, which may be minutes old.                *)
(***************************************************************************)
EXTENDS YandexDeployer

CONSTANTS
    Slots,            \* capacity of the semaphore (10 in the code)
    Flaky,            \* CheckHealth may fail for an instance that is up
    BatchMayExpire,   \* a batch may exceed its 5 minutes
    MayStop           \* Stop may be called

ASSUME HealthAssumption ==
    /\ Slots \in Nat \ {0}
    /\ {Flaky, BatchMayExpire, MayStop} \subseteq BOOLEAN

Threshold == 3        \* "Hardcoded to 3 for now"

VARIABLES
    loop,             \* the goroutine of run
    running,          \* the field of the same name, under mu
    stopping,         \* Stop is waiting for the goroutine
    ctxDone,          \* the service's context is cancelled
    batchDone,        \* the batch's context is done (cancelled or expired)
    late,             \* tenants whose write was in flight at that moment
    copy,             \* the batch's copy of every row, NoRow if not checked
    check,            \* where the goroutine of every tenant stands
    failures,         \* consecutiveFailures, counted up to Threshold
    down              \* instances that exist and do not answer

healthVars == <<loop, running, stopping, ctxDone, batchDone, late,
                copy, check, failures, down>>
vars == <<storageVars, vm, healthVars>>

LoopSteps  == {"off", "delay", "tick", "batch", "exited"}
CheckSteps == {"none", "queued", "probe", "markUnhealthy", "markHealthy"}

TypeOK ==
    /\ StorageTypeOK
    /\ DeployerTypeOK
    /\ loop \in LoopSteps
    /\ {running, stopping, ctxDone, batchDone} \subseteq BOOLEAN
    /\ late \subseteq Tenants
    /\ copy \in [Tenants -> Row]
    /\ check \in [Tenants -> CheckSteps]
    /\ failures \in [Tenants -> 0 .. Threshold]
    /\ down \subseteq Tenants

HealthInit ==
    /\ loop = "off"
    /\ running = FALSE
    /\ stopping = FALSE
    /\ ctxDone = FALSE
    /\ batchDone = FALSE
    /\ late = {}
    /\ copy = [t \in Tenants |-> NoRow]
    /\ check = [t \in Tenants |-> "none"]
    /\ failures = [t \in Tenants |-> 0]
    /\ down = {}

(* Tenants as provisioning leaves them, with an address and an instance.   *)
Init ==
    /\ HealthInit
    /\ tenants \in [Tenants -> Row]
    /\ vm \in [Tenants -> Instance]
    /\ \A t \in Tenants :
         /\ tenants[t].status \in {"active", "suspended"}
         /\ tenants[t].key \in Keys
         /\ Running(t)
         /\ vm[t] = [host |-> tenants[t].host, key |-> tenants[t].key]
    /\ \A t, u \in Tenants : t # u => /\ tenants[t].key # tenants[u].key
                                      /\ vm[t].host # vm[u].host
    /\ keyOwner = [k \in Keys |->
                     IF \E t \in Tenants : tenants[t].key = k
                     THEN CHOOSE t \in Tenants : tenants[t].key = k
                     ELSE NoTenant]

----------------------------------------------------------------------------
(* A Start after a Stop spawns a goroutine that finds the context done; a  *)
(* Start while the goroutine of a Stop that timed out still runs is not    *)
(* modelled (nothing calls Start twice).                                   *)
Start ==
    /\ ~running
    /\ loop \in {"off", "exited"}
    /\ running' = TRUE
    /\ loop' = "delay"
    /\ UNCHANGED <<storageVars, vm, stopping, ctxDone, batchDone, late, copy,
                   check, failures, down>>

(* The batch's context ends.  The checks that stand before their write may *)
(* have sent it: the UPDATE they sent may still be applied.                *)
CancelBatch ==
    /\ batchDone' = TRUE
    /\ late' = IF batchDone THEN late
               ELSE {t \in Tenants : check[t] \in {"markUnhealthy", "markHealthy"}}

(* Stop cancels the context, waits for the goroutine for at most 10        *)
(* seconds and returns.                                                    *)
StopSignal ==
    /\ MayStop
    /\ running
    /\ ~stopping
    /\ stopping' = TRUE
    /\ ctxDone' = TRUE
    /\ CancelBatch
    /\ UNCHANGED <<storageVars, vm, loop, running, copy, check, failures, down>>

StopReturn ==
    /\ stopping
    /\ stopping' = FALSE
    /\ running' = FALSE
    /\ UNCHANGED <<storageVars, vm, loop, ctxDone, batchDone, late, copy, check,
                   failures, down>>

(* run: a select between the timer and the context, either when both are   *)
(* ready.                                                                  *)
Exit ==
    /\ loop \in {"delay", "tick"}
    /\ ctxDone
    /\ loop' = "exited"
    /\ UNCHANGED <<storageVars, vm, running, stopping, ctxDone, batchDone, late,
                   copy, check, failures, down>>

ToCheck(t) == /\ tenants[t].status \in {"active", "unhealthy"}
              /\ tenants[t].host # NoHost

(* checkAllTenants up to the spawning of the checks. *)
BeginBatch ==
    /\ loop \in {"delay", "tick"}
    /\ batchDone' = ctxDone
    /\ \/ /\ ~ctxDone
          /\ loop' = "batch"
          /\ \E t \in Tenants : ToCheck(t)
          /\ copy' = [t \in Tenants |-> IF ToCheck(t) THEN tenants[t] ELSE NoRow]
          /\ check' = [t \in Tenants |-> IF ToCheck(t) THEN "queued" ELSE "none"]
       \/ /\ \/ ctxDone \/ "err" \in StorageOutcomes
             \/ \A t \in Tenants : ~ToCheck(t)
          /\ loop' = "tick"
          /\ UNCHANGED <<copy, check>>
    /\ late' = {}
    /\ UNCHANGED <<storageVars, vm, running, stopping, ctxDone, failures, down>>

(* wg.Wait *)
EndBatch ==
    /\ loop = "batch"
    /\ \A t \in Tenants : check[t] = "none"
    /\ loop' = "tick"
    /\ UNCHANGED <<storageVars, vm, running, stopping, ctxDone, batchDone, late,
                   copy, check, failures, down>>

ExpireBatch ==
    /\ BatchMayExpire
    /\ loop = "batch"
    /\ ~batchDone
    /\ CancelBatch
    /\ UNCHANGED <<storageVars, vm, loop, running, stopping, ctxDone, copy,
                   check, failures, down>>

----------------------------------------------------------------------------
Checking == {t \in Tenants : check[t] \notin {"none", "queued"}}

Acquire(t) ==
    /\ check[t] = "queued"
    /\ Cardinality(Checking) < Slots
    /\ check' = [check EXCEPT ![t] = "probe"]
    /\ UNCHANGED <<storageVars, vm, loop, running, stopping, ctxDone, batchDone,
                   late, copy, failures, down>>

(* CheckHealth answers: an error for an instance that does not exist and   *)
(* under a done context, "not healthy" for one that is down.               *)
MayPass(t) == ~batchDone /\ Running(t) /\ t \notin down
MayMiss(t) == ~MayPass(t) \/ Flaky

(* The mark functions return, and the slot is free again. *)
Release(t) ==
    /\ check' = [check EXCEPT ![t] = "none"]
    /\ copy' = [copy EXCEPT ![t] = NoRow]

(* Mutant: a success does not reset the counter. *)
ProbeHealthyMutant(t) ==
    /\ check[t] = "probe"
    /\ MayPass(t)
    /\ IF copy[t].status = "unhealthy"
       THEN /\ check' = [check EXCEPT ![t] = "markHealthy"]
            /\ UNCHANGED copy
       ELSE Release(t)
    /\ UNCHANGED <<storageVars, vm, loop, running, stopping, ctxDone, batchDone,
                   late, failures, down>>

(* Mutant: only failures are written back. *)
ProbeHealthyForgets(t) ==
    /\ check[t] = "probe"
    /\ MayPass(t)
    /\ failures' = [failures EXCEPT ![t] = 0]
    /\ Release(t)
    /\ UNCHANGED <<storageVars, vm, loop, running, stopping, ctxDone, batchDone,
                   late, down>>

(* checkTenantHealth after a success. *)
ProbeHealthy(t) ==
    /\ check[t] = "probe"
    /\ MayPass(t)
    /\ failures' = [failures EXCEPT ![t] = 0]
    /\ IF copy[t].status = "unhealthy"
       THEN /\ check' = [check EXCEPT ![t] = "markHealthy"]
            /\ UNCHANGED copy
       ELSE Release(t)
    /\ UNCHANGED <<storageVars, vm, loop, running, stopping, ctxDone, batchDone,
                   late, down>>

(* ... and after an error or the answer "not healthy".  The count of the   *)
(* code goes on; beyond Threshold it decides nothing.                      *)
CountedMutant(t) == failures[t]

Counted(t) == IF failures[t] < Threshold THEN failures[t] + 1 ELSE Threshold

ProbeFailed(t) ==
    /\ check[t] = "probe"
    /\ MayMiss(t)
    /\ failures' = [failures EXCEPT ![t] = Counted(t)]
    /\ IF Counted(t) >= Threshold /\ copy[t].status # "unhealthy"
       THEN /\ check' = [check EXCEPT ![t] = "markUnhealthy"]
            /\ UNCHANGED copy
       ELSE Release(t)
    /\ UNCHANGED <<storageVars, vm, loop, running, stopping, ctxDone, batchDone,
                   late, down>>

(* Mutant: the writes do not run under the batch's context. *)
WriteOutcomesMutant(t) == StorageOutcomes

(* A write under the batch's context: once that is done it returns an      *)
(* error and sends nothing, but what it had sent may be applied.           *)
WriteOutcomes(t) ==
    IF ~batchDone THEN StorageOutcomes
    ELSE IF t \in late THEN {"err", "lost"}
    ELSE {"err"}

(* markTenantUnhealthy, markTenantHealthy: an error is only logged. *)
Mark(t, from, status) ==
    /\ check[t] = from
    /\ \E out \in WriteOutcomes(t) :
         UpdateTenant(t, [copy[t] EXCEPT !.status = status], out)
    /\ Release(t)
    /\ UNCHANGED <<vm, loop, running, stopping, ctxDone, batchDone, late,
                   failures, down>>

MarkTenantUnhealthy(t) == Mark(t, "markUnhealthy", "unhealthy")

MarkTenantHealthyMutant(t) == Mark(t, "markHealthy", "healthy")
MarkTenantHealthy(t)       == Mark(t, "markHealthy", "active")

----------------------------------------------------------------------------
(* An instance stops answering, or answers again. *)
InstanceChanges(t) ==
    /\ Running(t)
    /\ down' = IF t \in down THEN down \ {t} ELSE down \cup {t}
    /\ UNCHANGED <<storageVars, vm, loop, running, stopping, ctxDone, batchDone,
                   late, copy, check, failures>>

CheckStep(t) == \/ Acquire(t) \/ ProbeHealthy(t) \/ ProbeFailed(t)
                \/ MarkTenantUnhealthy(t) \/ MarkTenantHealthy(t)

LoopStep == BeginBatch \/ EndBatch \/ Exit

Next ==
    \/ Start \/ StopSignal \/ StopReturn \/ LoopStep \/ ExpireBatch
    \/ \E t \in Tenants : CheckStep(t) \/ InstanceChanges(t)

(* The timers fire and every goroutine that can run does: each check has   *)
(* its own 30 second timeout, so none holds its slot forever.              *)
Fairness == /\ WF_vars(Start)
            /\ WF_vars(LoopStep)
            /\ \A t \in Tenants : WF_vars(CheckStep(t))

Spec     == Init /\ [][Next]_vars
FairSpec == Spec /\ Fairness

----------------------------------------------------------------------------
(* Safety *)

(* Action property: a status follows the failure counter, also when checks *)
(* of a stopped or expired batch fail and their writes are lost: it turns  *)
(* "unhealthy" only after three failures without a success in between, and *)
(* back to "active" only when the last check succeeded.                    *)
StatusFollowsCounter ==
    [][\A t \in Tenants :
          tenants'[t].status # tenants[t].status
          => \/ /\ tenants'[t].status = "unhealthy"
                /\ failures[t] = Threshold
             \/ /\ tenants'[t].status = "active"
                /\ failures[t] = 0]_vars

(* Action property: once Stop was called the loop starts no write, even    *)
(* when Stop gave up waiting for a batch in flight: the rows that still    *)
(* change are those whose UPDATE had been sent before.                     *)
StoppedStartsNoWrite ==
    [][ctxDone => \A t \in Tenants : tenants'[t] # tenants[t] => t \in late]_vars

(* Liveness: an instance that stays down is found out, one that stays up   *)
(* is served again, however many tenants compete for the slots and         *)
(* whatever its instance did before.                                       *)
DownIsMarked ==
    \A t \in Tenants :
        <>[](t \in down) => <>[](tenants[t].status \in {"unhealthy", "suspended"})

UpIsRestored ==
    \A t \in Tenants :
        <>[](t \notin down) => <>[](tenants[t].status # "unhealthy")
=============================================================================
