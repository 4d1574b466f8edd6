--------------------------- MODULE RailwayDeployer -------------------------
(***************************************************************************)
(* The ServiceDeployer port as RailwayServiceDeployer implements it: five  *)
(* services per tenant, created one GraphQL request at a time, and the way *)
(* provisionTenantServices drives it (deploy, wait, clean up).             *)
(*                                                                         *)
(* A service has an id that Railway draws and a name the proxy chose       *)
(* (tenant, tenant-mongo, tenant-redis); names need not be unique.         *)
(***************************************************************************)
EXTENDS Naturals, FiniteSets

CONSTANTS
    Tenants,          \* tenants being deployed, each by one actor
    ServiceIds,       \* ids that Railway may draw
    NoService,        \* no service, and the id ""
    MaxRetries,       \* of setEnvironmentVariables (3 in the code)
    Outcomes          \* of a request: "ok", "err" (not executed), "lost"
                      \* (executed, the answer did not arrive), "refused"
                      \* (HTTP 200 that carries a GraphQL error: not
                      \* executed, and taken for a success)

ASSUME RailwayAssumption ==
    /\ NoService \notin ServiceIds
    /\ MaxRetries \in Nat \ {0}
    /\ Outcomes \subseteq {"ok", "err", "lost", "refused"}

VARIABLES
    services,         \* the services of the Railway project
    drawn,            \* ids drawn so far
    dep,              \* how far the deployment of every tenant is
    untracked         \* history: services that a lost answer or a failed
                      \* deletion left behind
vars == <<services, drawn, dep, untracked>>

Kinds == {"mongo", "redis", "app"}

(* mongo and redis are the services an application was pointed to. *)
Service == [tenant : Tenants, kind : Kinds, configured : BOOLEAN,
            mongo : ServiceIds \cup {NoService},
            redis : ServiceIds \cup {NoService}]

ASSUME NoServiceAssumption == NoService \notin Service

Steps == {"idle", "mongo", "redis", "mongo2", "redis2", "app", "env",
          "backoff", "undo", "wait", "list", "delete", "ready", "ended"}

(* tries counts the failures in RetryWithBackoff, todo has the kinds whose *)
(* names are still to be deleted.                                          *)
Deployment == [step : Steps,
               mongo : ServiceIds \cup {NoService},
               redis : ServiceIds \cup {NoService},
               app   : ServiceIds \cup {NoService},
               tries : 0 .. MaxRetries,
               todo  : SUBSET Kinds]

NotStarted == [step |-> "idle", mongo |-> NoService, redis |-> NoService,
               app |-> NoService, tries |-> 0, todo |-> {}]

Exists(s) == services[s] # NoService

TypeOK ==
    /\ services \in [ServiceIds -> Service \cup {NoService}]
    /\ drawn \subseteq ServiceIds
    /\ dep \in [Tenants -> Deployment]
    /\ untracked \subseteq ServiceIds

Init ==
    /\ services = [s \in ServiceIds |-> NoService]
    /\ drawn = {}
    /\ dep = [t \in Tenants |-> NotStarted]
    /\ untracked = {}

----------------------------------------------------------------------------
Goto(t, step) == dep' = [dep EXCEPT ![t].step = step]

Executed(out) == out \in {"ok", "lost"}
Succeeds(out) == out \in {"ok", "refused"}   \* makeRequest returns no error

(* The kinds of the tenant's services.  GetStatus takes the services whose *)
(* name CONTAINS the tenant's id; ids carry a UUID, so none contains       *)
(* another.                                                                *)
KindsOf(t) == {services[s].kind : s \in {i \in ServiceIds :
                                           Exists(i) /\ services[i].tenant = t}}

----------------------------------------------------------------------------
(* DeployTenant, called by the worker or the synchronous handler. *)
StartDeployment(t) ==
    /\ dep[t].step = "idle"
    /\ Goto(t, "mongo")
    /\ UNCHANGED <<services, drawn, untracked>>

(* One serviceCreate request.  An error ends the deployment; an answer is  *)
(* kept as the id, also when it carries none.                              *)
Create(t, from, kind, to) ==
    /\ dep[t].step = from
    /\ \E s \in ServiceIds \ drawn, out \in Outcomes :
         /\ drawn' = IF Executed(out) THEN drawn \cup {s} ELSE drawn
         /\ services' = IF Executed(out)
                        THEN [services EXCEPT ![s] =
                                [tenant |-> t, kind |-> kind,
                                 configured |-> FALSE,
                                 mongo |-> NoService, redis |-> NoService]]
                        ELSE services
         /\ untracked' = IF out = "lost" THEN untracked \cup {s} ELSE untracked
         /\ dep' = [dep EXCEPT ![t] =
                      IF Succeeds(out)
                      THEN [@ EXCEPT !.step = to,
                              ![kind] = IF out = "ok" THEN s ELSE NoService]
                      ELSE [@ EXCEPT !.step = "list"]]

DeployDatabase(t) == Create(t, "mongo", "mongo", "redis")
DeployCache(t)    == Create(t, "redis", "redis", "mongo2")

(* DeployApplication deploys both again ("get existing database and cache  *)
(* URLs") and points the application to this second pair.                  *)
DatabaseAgain(t) == Create(t, "mongo2", "mongo", "redis2")
CacheAgain(t)    == Create(t, "redis2", "redis", "app")

(* CreateRoomService: the service, then its environment. *)
CreateRoomService(t) == Create(t, "app", "app", "env")

(* setEnvironmentVariables, an attempt of RetryWithBackoff. *)
SetEnvironment(t) ==
    /\ dep[t].step = "env"
    /\ \E out \in Outcomes :
         /\ services' = IF Executed(out) /\ dep[t].app # NoService
                        THEN [services EXCEPT ![dep[t].app] =
                                [@ EXCEPT !.configured = TRUE,
                                          !.mongo = dep[t].mongo,
                                          !.redis = dep[t].redis]]
                        ELSE services
         /\ Goto(t, IF Succeeds(out) THEN "wait" ELSE "backoff")
    /\ UNCHANGED <<drawn, untracked>>

(* Mutants: one attempt too many; the attempts are not counted.            *)
BackoffOnceMore(t) ==
    /\ dep[t].step = "backoff"
    /\ dep' = [dep EXCEPT ![t] =
                 [@ EXCEPT !.step = IF dep[t].tries = MaxRetries THEN "undo"
                                                                ELSE "env",
                           !.tries = dep[t].tries + 1]]
    /\ UNCHANGED <<services, drawn, untracked>>
BackoffForever(t) ==
    /\ dep[t].step = "backoff"
    /\ Goto(t, "env")
    /\ UNCHANGED <<services, drawn, untracked>>

(* The timer comes after every failure, the last one included. *)
Backoff(t) ==
    /\ dep[t].step = "backoff"
    /\ dep' = [dep EXCEPT ![t] =
                 [@ EXCEPT !.step = IF dep[t].tries + 1 = MaxRetries THEN "undo"
                                                                    ELSE "env",
                           !.tries = dep[t].tries + 1]]
    /\ UNCHANGED <<services, drawn, untracked>>

(* Mutants: the service is addressed by its name, as DeleteServices does;  *)
(* the error of the environment is not returned after the cleanup.         *)
UndoByName(t) ==
    /\ dep[t].step = "undo"
    /\ Goto(t, "list")
    /\ UNCHANGED <<services, drawn, untracked>>
UndoGoesOn(t) ==
    /\ dep[t].step = "undo"
    /\ services' = [services EXCEPT ![dep[t].app] = NoService]
    /\ Goto(t, "wait")
    /\ UNCHANGED <<drawn, untracked>>

(* CreateRoomService takes its service down again; DeleteService reports   *)
(* no error.                                                               *)
Undo(t) ==
    /\ dep[t].step = "undo"
    /\ \E out \in Outcomes :
         LET gone == IF dep[t].app = NoService THEN {} ELSE {dep[t].app} IN
         IF Executed(out)
         THEN /\ services' = [s \in ServiceIds |->
                                IF s \in gone THEN NoService ELSE services[s]]
              /\ UNCHANGED untracked
         ELSE /\ untracked' = untracked \cup gone
              /\ UNCHANGED services
    /\ Goto(t, "list")
    /\ UNCHANGED drawn

----------------------------------------------------------------------------
(* waitForTenantServices.  CheckHealth holds when the tenant has services  *)
(* and the latest deployment of each is up, which Railway decides.         *)
ServicesReady(t) ==
    /\ dep[t].step = "wait"
    /\ KindsOf(t) # {}
    /\ Goto(t, "ready")
    /\ UNCHANGED <<services, drawn, untracked>>

ServicesTimeout(t) ==
    /\ dep[t].step = "wait"
    /\ Goto(t, "list")
    /\ UNCHANGED <<services, drawn, untracked>>

(* A DELETE request of the admin API. *)
Remove(t) ==
    /\ dep[t].step = "ready"
    /\ Goto(t, "list")
    /\ UNCHANGED <<services, drawn, untracked>>

(* DeleteServices.  getTenantServices collects the NAMES of the services;  *)
(* without an answer, or without an answer that lists any, nothing is      *)
(* deleted.                                                                *)
ListServices(t) ==
    /\ dep[t].step = "list"
    /\ \E found \in {{}, KindsOf(t)} :
         dep' = [dep EXCEPT ![t] =
                   [@ EXCEPT !.step = IF found = {} THEN "ended" ELSE "delete",
                             !.todo = found]]
    /\ UNCHANGED <<services, drawn, untracked>>

(* Each name is sent as the id of serviceDelete.  Names are no ids, so the *)
(* request finds no service, and its error is swallowed.                   *)
DeleteNamed(t) ==
    /\ dep[t].step = "delete"
    /\ \E k \in dep[t].todo :
         dep' = [dep EXCEPT ![t] =
                   [@ EXCEPT !.step = IF dep[t].todo = {k} THEN "ended"
                                                           ELSE "delete",
                             !.todo = dep[t].todo \ {k}]]
    /\ UNCHANGED <<services, drawn, untracked>>

----------------------------------------------------------------------------
CreateStep(t) ==
    \/ DeployDatabase(t) \/ DeployCache(t) \/ DatabaseAgain(t)
    \/ CacheAgain(t) \/ CreateRoomService(t)

(* What the deploying goroutine does by itself once it was started. *)
Progress(t) ==
    \/ CreateStep(t) \/ SetEnvironment(t) \/ Backoff(t) \/ Undo(t)
    \/ ServicesReady(t) \/ ServicesTimeout(t)
    \/ ListServices(t) \/ DeleteNamed(t)

Next == \E t \in Tenants : StartDeployment(t) \/ Progress(t) \/ Remove(t)

(* Every request is answered or times out after 30 seconds, and every      *)
(* timer fires.                                                            *)
Fairness == \A t \in Tenants : WF_vars(Progress(t))

Spec     == Init /\ [][Next]_vars
FairSpec == Spec /\ Fairness

----------------------------------------------------------------------------
(* Safety *)

(* A room service without its environment (it would start without a key    *)
(* and a database) is still being set up or taken down, unless an answer   *)
(* was lost: no sequence of failed attempts leaves one running.            *)
NoHalfConfiguredApp ==
    \A s \in ServiceIds :
        /\ Exists(s)
        /\ services[s].kind = "app"
        /\ ~services[s].configured
        => \/ s \in untracked
           \/ /\ dep[services[s].tenant].app = s
              /\ dep[services[s].tenant].step \in {"env", "backoff", "undo"}

(* A deployment that is reported ready has its application, configured     *)
(* with a database and a cache of the same tenant that exist, although     *)
(* CheckHealth never looks at which services are up.                       *)
ReadyIsComplete ==
    \A t \in Tenants :
        dep[t].step = "ready" =>
            LET app == dep[t].app IN
            /\ app # NoService
            /\ Exists(app) /\ services[app].configured
            /\ \A k \in {"mongo", "redis"} :
                 LET store == services[app][k] IN
                 /\ store # NoService
                 /\ Exists(store)
                 /\ services[store].tenant = t /\ services[store].kind = k

(* Liveness: a deployment that was started is ready or cleaned up some     *)
(* day, also when no service ever comes up.                                *)
DeployEnds ==
    \A t \in Tenants :
        dep[t].step \notin {"idle", "ready", "ended"}
        ~> dep[t].step \in {"ready", "ended"}
=============================================================================
