------------------------- MODULE HealthCheckProofs -------------------------
(***************************************************************************)
(* What the health check may write, for any number of tenants and slots,   *)
(* flaky checks, expired batches, lost writes and a Stop at any moment.    *)
(***************************************************************************)
EXTENDS HealthCheck, TLAPS

(* A check about to write has the count that made it do so.  Only the      *)
(* tenant's own check moves its counter, and it is the one that waits.     *)
MarkIsDue ==
    \A t \in Tenants :
        /\ check[t] = "markUnhealthy" => failures[t] = Threshold
        /\ check[t] = "markHealthy" => failures[t] = 0

(* The context of a batch derives from the service's. *)
BatchEndsWithService == ctxDone => batchDone

IInv == TypeOK /\ MarkIsDue /\ BatchEndsWithService

----------------------------------------------------------------------------
LEMMA InitIInv == Init => IInv
<1> SUFFICES ASSUME Init PROVE IInv
  OBVIOUS
<1> USE DEF Init, HealthInit
<1>1. keyOwner \in [Keys -> Tenants \cup {NoTenant}]
  OBVIOUS
<1>2. NoRow \in Row
  BY DEF NoRow, Row
<1>3. TypeOK
  <2>1. StorageTypeOK /\ DeployerTypeOK
    BY <1>1 DEF StorageTypeOK, DeployerTypeOK
  <2>2. {running, stopping, ctxDone, batchDone} \subseteq BOOLEAN
    OBVIOUS
  <2>3. loop \in LoopSteps /\ copy \in [Tenants -> Row] /\ down \subseteq Tenants
      /\ late \subseteq Tenants
    BY <1>2 DEF LoopSteps
  <2>4. check \in [Tenants -> CheckSteps] /\ failures \in [Tenants -> 0 .. Threshold]
    BY DEF CheckSteps, Threshold
  <2> QED
    BY <2>1, <2>2, <2>3, <2>4 DEF TypeOK
<1>4. MarkIsDue /\ BatchEndsWithService
  BY DEF MarkIsDue, BatchEndsWithService
<1> QED
  BY <1>3, <1>4 DEF IInv

(* UpdateTenant writes a whole row or nothing, and nothing under "err". *)
LEMMA UpdateEffect ==
  ASSUME StorageTypeOK, NEW t \in Tenants, NEW row \in Row, NEW out,
         UpdateTenant(t, row, out)
  PROVE  /\ StorageTypeOK'
         /\ tenants' = tenants \/ tenants' = [tenants EXCEPT ![t] = row]
         /\ out = "err" => UNCHANGED storageVars
BY DEF UpdateTenant, StorageTypeOK, storageVars

LEMMA CopyWithStatus ==
  ASSUME TypeOK, NEW t \in Tenants, NEW s \in Statuses
  PROVE  /\ [copy[t] EXCEPT !.status = s] \in Row
         /\ [copy[t] EXCEPT !.status = s].status = s
<1>1. PICK r \in Row : r = copy[t]
  BY DEF TypeOK
<1>2. [r EXCEPT !.status = s] \in Row /\ [r EXCEPT !.status = s].status = s
  BY DEF Row
<1> QED
  BY <1>1, <1>2

(* A write of a check: the status of its tenant alone, and nothing that    *)
(* was not in flight once the batch is over.                               *)
LEMMA MarkEffect ==
  ASSUME IInv, NEW t \in Tenants, NEW from, NEW s \in Statuses,
         Mark(t, from, s)
  PROVE  /\ StorageTypeOK'
         /\ \A u \in Tenants :
              tenants'[u].status # tenants[u].status =>
                  u = t /\ tenants'[u].status = s
         /\ \A u \in Tenants : tenants'[u] # tenants[u] => u = t
         /\ batchDone /\ t \notin late => UNCHANGED storageVars
<1> DEFINE row == [copy[t] EXCEPT !.status = s]
<1>1. PICK out \in WriteOutcomes(t) : UpdateTenant(t, row, out)
  BY DEF Mark
<1>2. row \in Row /\ row.status = s
  BY CopyWithStatus DEF IInv
<1>3. StorageTypeOK
  BY DEF IInv, TypeOK
<1> HIDE DEF row
<1>4. /\ StorageTypeOK'
      /\ tenants' = tenants \/ tenants' = [tenants EXCEPT ![t] = row]
      /\ out = "err" => UNCHANGED storageVars
  BY <1>1, <1>2, <1>3, UpdateEffect
<1>5. batchDone /\ t \notin late => out = "err"
  BY <1>1 DEF WriteOutcomes
<1> QED
  BY <1>2, <1>3, <1>4, <1>5 DEF StorageTypeOK

LEMMA MarkStep ==
  ASSUME IInv, NEW t \in Tenants, NEW from, NEW s \in Statuses,
         Mark(t, from, s)
  PROVE  IInv'
<1>1. StorageTypeOK'
  BY MarkEffect
<1>2. NoRow \in Row
  BY DEF NoRow, Row
<1>3. /\ check' = [check EXCEPT ![t] = "none"]
      /\ copy' = [copy EXCEPT ![t] = NoRow]
      /\ UNCHANGED <<vm, loop, running, stopping, ctxDone, batchDone, late,
                     failures, down>>
  BY DEF Mark, Release
<1>4. TypeOK'
  BY <1>1, <1>2, <1>3 DEF IInv, TypeOK, DeployerTypeOK, CheckSteps
<1>5. MarkIsDue' /\ BatchEndsWithService'
  BY <1>3 DEF IInv, TypeOK, MarkIsDue, BatchEndsWithService
<1> QED
  BY <1>4, <1>5 DEF IInv

(* The other steps of a check do not touch the table. *)
LEMMA ProbeStep ==
  ASSUME IInv, NEW t \in Tenants,
         Acquire(t) \/ ProbeHealthy(t) \/ ProbeFailed(t)
  PROVE  IInv' /\ UNCHANGED storageVars
<1> USE DEF Threshold
<1>1. /\ UNCHANGED storageVars
      /\ UNCHANGED <<vm, loop, running, stopping, ctxDone, batchDone, late,
                     down>>
  BY DEF Acquire, ProbeHealthy, ProbeFailed
<1>2. StorageTypeOK' /\ DeployerTypeOK'
  BY <1>1 DEF IInv, TypeOK, StorageTypeOK, DeployerTypeOK, storageVars
<1>3. NoRow \in Row
  BY DEF NoRow, Row
<1>4. copy' \in [Tenants -> Row]
  BY <1>3 DEF IInv, TypeOK, Acquire, ProbeHealthy, ProbeFailed, Release
<1>5. failures \in [Tenants -> 0 .. Threshold] /\ check \in [Tenants -> CheckSteps]
      /\ MarkIsDue
  BY DEF IInv, TypeOK
<1>6. PICK n \in 0 .. Threshold, s \in CheckSteps :
         /\ failures' = [failures EXCEPT ![t] = n]
         /\ check' = [check EXCEPT ![t] = s]
         /\ s = "markUnhealthy" => n = Threshold
         /\ s = "markHealthy" => n = 0
  <2>1. CASE Acquire(t)
    BY <1>5, <2>1 DEF Acquire, CheckSteps
  <2>2. CASE ProbeHealthy(t)
    BY <1>5, <2>2 DEF ProbeHealthy, Release, CheckSteps
  <2>3. CASE ProbeFailed(t)
    <3>1. Counted(t) \in 0 .. Threshold
      BY <1>5 DEF Counted
    <3>2. failures' = [failures EXCEPT ![t] = Counted(t)]
      BY <2>3 DEF ProbeFailed
    <3>3. \/ check' = [check EXCEPT ![t] = "none"]
          \/ /\ check' = [check EXCEPT ![t] = "markUnhealthy"]
             /\ Counted(t) >= Threshold
      BY <2>3 DEF ProbeFailed, Release
    <3>4. Counted(t) >= Threshold => Counted(t) = Threshold
      BY <3>1
    <3> QED
      BY <3>1, <3>2, <3>3, <3>4 DEF CheckSteps
  <2> QED
    BY <2>1, <2>2, <2>3
<1>7. TypeOK'
  BY <1>1, <1>2, <1>4, <1>5, <1>6 DEF IInv, TypeOK
<1>8. MarkIsDue'
  BY <1>5, <1>6 DEF MarkIsDue
<1>9. BatchEndsWithService'
  BY <1>1 DEF IInv, BatchEndsWithService
<1> QED
  BY <1>1, <1>7, <1>8, <1>9 DEF IInv

(* Start, Stop, the ends of a batch and the instances. *)
LEMMA SilentStep ==
  ASSUME IInv, \/ Start \/ StopSignal \/ StopReturn \/ Exit \/ EndBatch
               \/ ExpireBatch \/ (\E t \in Tenants : InstanceChanges(t))
  PROVE  IInv' /\ UNCHANGED storageVars
<1>1. UNCHANGED storageVars /\ UNCHANGED <<vm, copy, check, failures>>
  BY DEF Start, StopSignal, StopReturn, Exit, EndBatch, ExpireBatch,
         InstanceChanges
<1>2. /\ loop' \in LoopSteps
      /\ {running', stopping', ctxDone', batchDone'} \subseteq BOOLEAN
      /\ down' \subseteq Tenants /\ late' \subseteq Tenants
  BY DEF IInv, TypeOK, LoopSteps, Start, StopSignal, StopReturn, Exit,
         EndBatch, ExpireBatch, CancelBatch, InstanceChanges
<1>3. StorageTypeOK' /\ DeployerTypeOK'
  BY <1>1 DEF IInv, TypeOK, StorageTypeOK, DeployerTypeOK, storageVars
<1>4. TypeOK'
  BY <1>1, <1>2, <1>3 DEF IInv, TypeOK
<1>5. MarkIsDue'
  BY <1>1 DEF IInv, MarkIsDue
<1>6. BatchEndsWithService'
  BY DEF IInv, BatchEndsWithService, Start, StopSignal, StopReturn, Exit,
         EndBatch, ExpireBatch, CancelBatch, InstanceChanges
<1> QED
  BY <1>1, <1>4, <1>5, <1>6 DEF IInv

LEMMA BeginStep ==
  ASSUME IInv, BeginBatch
  PROVE  IInv' /\ UNCHANGED storageVars
<1>1. /\ UNCHANGED storageVars
      /\ UNCHANGED <<vm, running, stopping, ctxDone, failures, down>>
      /\ batchDone' = ctxDone /\ late' = {}
  BY DEF BeginBatch
<1>2. StorageTypeOK' /\ DeployerTypeOK'
  BY <1>1 DEF IInv, TypeOK, StorageTypeOK, DeployerTypeOK, storageVars
<1>3. NoRow \in Row /\ \A t \in Tenants : tenants[t] \in Row
  BY DEF IInv, TypeOK, StorageTypeOK, NoRow, Row
<1>4. copy' \in [Tenants -> Row] /\ loop' \in LoopSteps
  BY <1>3 DEF IInv, TypeOK, LoopSteps, BeginBatch
<1>5. \/ check' = check
      \/ check' = [t \in Tenants |-> IF ToCheck(t) THEN "queued" ELSE "none"]
  BY DEF BeginBatch
<1>6. check' \in [Tenants -> CheckSteps] /\ MarkIsDue'
  BY <1>1, <1>5 DEF IInv, TypeOK, CheckSteps, MarkIsDue
<1>7. TypeOK'
  BY <1>1, <1>2, <1>4, <1>6 DEF IInv, TypeOK
<1>8. BatchEndsWithService'
  BY <1>1 DEF BatchEndsWithService
<1> QED
  BY <1>1, <1>6, <1>7, <1>8 DEF IInv

(* Every step is silent or a write of one check. *)
LEMMA StepKinds ==
  ASSUME IInv, Next
  PROVE  \/ IInv' /\ UNCHANGED storageVars
         \/ \E t \in Tenants : MarkTenantUnhealthy(t) \/ MarkTenantHealthy(t)
<1>1. CASE \/ Start \/ StopSignal \/ StopReturn \/ Exit \/ EndBatch
           \/ ExpireBatch \/ (\E t \in Tenants : InstanceChanges(t))
  BY <1>1, SilentStep
<1>2. CASE BeginBatch
  BY <1>2, BeginStep
<1>3. ASSUME NEW t \in Tenants, CheckStep(t)
      PROVE  \/ IInv' /\ UNCHANGED storageVars
             \/ MarkTenantUnhealthy(t) \/ MarkTenantHealthy(t)
  BY <1>3, ProbeStep DEF CheckStep
<1> QED
  BY <1>1, <1>2, <1>3 DEF Next, LoopStep

LEMMA StatusesWritten == {"unhealthy", "active"} \subseteq Statuses
BY DEF Statuses

LEMMA Inductive == IInv /\ [Next]_vars => IInv'
<1> SUFFICES ASSUME IInv, [Next]_vars PROVE IInv'
  OBVIOUS
<1>1. CASE Next
  <2>1. ASSUME NEW t \in Tenants, MarkTenantUnhealthy(t) \/ MarkTenantHealthy(t)
        PROVE  IInv'
    BY <2>1, MarkStep, StatusesWritten DEF MarkTenantUnhealthy, MarkTenantHealthy
  <2> QED
    BY <1>1, <2>1, StepKinds
<1>2. CASE UNCHANGED vars
  BY <1>2 DEF vars, healthVars, storageVars, IInv, TypeOK, StorageTypeOK,
              DeployerTypeOK, MarkIsDue, BatchEndsWithService
<1> QED
  BY <1>1, <1>2

----------------------------------------------------------------------------
(* Types: rows, copies and checks keep their types and no counter passes   *)
(* the threshold.                                                          *)
THEOREM TypeCorrect == Spec => []TypeOK
<1>1. IInv => TypeOK
  BY DEF IInv
<1> QED
  BY <1>1, InitIInv, Inductive, PTL DEF Spec

(* markTenantUnhealthy and markTenantHealthy: a status turns "unhealthy"   *)
(* only on three failures in a row and "active" only on a success,         *)
(* whatever the other checks, Stop and the end of the batch do meanwhile.  *)
THEOREM StatusesFollowCounters == Spec => StatusFollowsCounter
<1>1. IInv /\ [Next]_vars
      => [\A t \in Tenants :
            tenants'[t].status # tenants[t].status
            => \/ /\ tenants'[t].status = "unhealthy"
                  /\ failures[t] = Threshold
               \/ /\ tenants'[t].status = "active"
                  /\ failures[t] = 0]_vars
  <2> SUFFICES ASSUME IInv, Next, NEW t \in Tenants,
                      tenants'[t].status # tenants[t].status
               PROVE  \/ /\ tenants'[t].status = "unhealthy"
                         /\ failures[t] = Threshold
                      \/ /\ tenants'[t].status = "active"
                         /\ failures[t] = 0
    OBVIOUS
  <2>1. PICK u \in Tenants : MarkTenantUnhealthy(u) \/ MarkTenantHealthy(u)
    BY StepKinds DEF storageVars
  <2>2. CASE MarkTenantUnhealthy(u)
    <3>1. t = u /\ tenants'[t].status = "unhealthy"
      BY <2>2, MarkEffect, StatusesWritten DEF MarkTenantUnhealthy
    <3>2. check[u] = "markUnhealthy"
      BY <2>2 DEF MarkTenantUnhealthy, Mark
    <3> QED
      BY <3>1, <3>2 DEF IInv, MarkIsDue
  <2>3. CASE MarkTenantHealthy(u)
    <3>1. t = u /\ tenants'[t].status = "active"
      BY <2>3, MarkEffect, StatusesWritten DEF MarkTenantHealthy
    <3>2. check[u] = "markHealthy"
      BY <2>3 DEF MarkTenantHealthy, Mark
    <3> QED
      BY <3>1, <3>2 DEF IInv, MarkIsDue
  <2> QED
    BY <2>1, <2>2, <2>3
<1> QED
  BY <1>1, InitIInv, Inductive, PTL DEF Spec, StatusFollowsCounter

(* Stop: once the context is cancelled no write starts, also when Stop     *)
(* gave up waiting for a batch in flight; the rows that change are those   *)
(* whose write had been sent by then.                                      *)
THEOREM StoppedIsSilent == Spec => StoppedStartsNoWrite
<1>1. IInv /\ [Next]_vars
      => [ctxDone => \A t \in Tenants :
             tenants'[t] # tenants[t] => t \in late]_vars
  <2> SUFFICES ASSUME IInv, Next, ctxDone, NEW t \in Tenants,
                      tenants'[t] # tenants[t]
               PROVE  t \in late
    OBVIOUS
  <2>1. batchDone
    BY DEF IInv, BatchEndsWithService
  <2>2. PICK u \in Tenants : MarkTenantUnhealthy(u) \/ MarkTenantHealthy(u)
    BY StepKinds DEF storageVars
  <2>3. t = u /\ (u \notin late => UNCHANGED storageVars)
    BY <2>1, <2>2, MarkEffect, StatusesWritten
       DEF MarkTenantUnhealthy, MarkTenantHealthy
  <2> QED
    BY <2>3 DEF storageVars
<1> QED
  BY <1>1, InitIInv, Inductive, PTL DEF Spec, StoppedStartsNoWrite
=============================================================================
