---------------------------- MODULE RailwayProofs --------------------------
(***************************************************************************)
(* Deployments on Railway, for any number of tenants and service ids and   *)
(* any number of attempts.                                                 *)
(*                                                                         *)
(* The two properties about services need every GraphQL error to be seen   *)
(* as one (NoRefusal): the client takes an answer with status 200 for a    *)
(* success whatever it says, and with such answers they do not hold.       *)
(***************************************************************************)
EXTENDS RailwayDeployer, TLAPS

NoRefusal == "refused" \notin Outcomes

(* The steps after a service was created. *)
AfterApp   == {"env", "backoff", "undo", "wait", "ready"}
AfterCache == {"mongo2", "redis2", "app"} \cup AfterApp
AfterStore == {"redis"} \cup AfterCache

(* The steps at which an attempt is left. *)
Trying == {"idle", "mongo", "redis", "mongo2", "redis2", "app", "env", "backoff"}

IsService(s, t, kind) ==
    /\ s \in ServiceIds
    /\ Exists(s)
    /\ services[s].tenant = t
    /\ services[s].kind = kind

(* What the deployment d of t knows about the services. *)
Knows(t, d) ==
    /\ d.mongo # NoService => IsService(d.mongo, t, "mongo")
    /\ d.redis # NoService => IsService(d.redis, t, "redis")
    /\ d.step \in AfterApp /\ d.app # NoService => IsService(d.app, t, "app")
    /\ NoRefusal =>
         /\ d.step \in AfterStore => d.mongo # NoService
         /\ d.step \in AfterCache => d.redis # NoService
         /\ d.step \in AfterApp => d.app # NoService
         /\ d.step \in {"wait", "ready"} =>
              /\ services[d.app].configured
              /\ services[d.app].mongo = d.mongo
              /\ services[d.app].redis = d.redis

IInv ==
    /\ TypeOK
    /\ \A s \in ServiceIds : Exists(s) => s \in drawn
    /\ \A t \in Tenants : dep[t].step \in Trying => dep[t].tries < MaxRetries
    /\ \A t \in Tenants : Knows(t, dep[t])
    /\ NoRefusal => NoHalfConfiguredApp

----------------------------------------------------------------------------
LEMMA NotStartedType == NotStarted \in Deployment
BY RailwayAssumption DEF NotStarted, Deployment, Steps

LEMMA InitIInv == Init => IInv
<1> SUFFICES ASSUME Init PROVE IInv
  OBVIOUS
<1> USE RailwayAssumption
<1>1. TypeOK
  BY NotStartedType DEF Init, TypeOK
<1>2. \A s \in ServiceIds : ~Exists(s)
  BY DEF Init, Exists
<1>3. \A t \in Tenants : /\ dep[t].step = "idle" /\ dep[t].tries = 0
                         /\ dep[t].mongo = NoService /\ dep[t].redis = NoService
  BY DEF Init, NotStarted
<1>4. \A t \in Tenants : Knows(t, dep[t])
  BY <1>3 DEF Knows, AfterStore, AfterCache, AfterApp
<1>5. NoHalfConfiguredApp
  BY <1>2 DEF NoHalfConfiguredApp
<1> QED
  BY <1>1, <1>2, <1>3, <1>4, <1>5 DEF IInv

(* Whatever happens to the services of one tenant, the others still know   *)
(* theirs.                                                                 *)
LEMMA OthersKnow ==
  ASSUME TypeOK, NEW t \in Tenants, NEW d \in Deployment, Knows(t, d),
         \A s \in ServiceIds : Exists(s) /\ services[s].tenant = t
                               => services'[s] = services[s]
  PROVE  Knows(t, d)'
BY DEF Knows, IsService, Exists, AfterStore, AfterCache, AfterApp

(* A step of one tenant's deployment. *)
LEMMA DeploymentMoves ==
  ASSUME IInv, NEW t \in Tenants, NEW d \in Deployment,
         dep' = [dep EXCEPT ![t] = d],
         services' \in [ServiceIds -> Service \cup {NoService}],
         drawn' \subseteq ServiceIds, untracked' \subseteq ServiceIds,
         \A s \in ServiceIds : Exists(s)' => s \in drawn',
         d.step \in Trying => d.tries < MaxRetries,
         Knows(t, d)',
         \A s \in ServiceIds : Exists(s) /\ services[s].tenant # t
                               => services'[s] = services[s],
         \A s \in ServiceIds : Exists(s)' => \/ services'[s] = services[s]
                                             \/ services'[s].tenant = t,
         untracked \subseteq untracked',
         ASSUME NEW s \in ServiceIds, NoRefusal, Exists(s)',
                services'[s].tenant = t, services'[s].kind = "app",
                ~services'[s].configured
         PROVE  \/ s \in untracked'
                \/ d.app = s /\ d.step \in {"env", "backoff", "undo"}
  PROVE  IInv'
<1>1. TypeOK'
  BY DEF IInv, TypeOK
<1>2. dep'[t] = d /\ \A u \in Tenants \ {t} : dep'[u] = dep[u]
  BY DEF IInv, TypeOK
<1>3. \A u \in Tenants : dep'[u].step \in Trying => dep'[u].tries < MaxRetries
  BY <1>2 DEF IInv
<1>4. ASSUME NEW u \in Tenants PROVE Knows(u, dep[u])'
  <2>1. CASE u = t
    BY <1>2, <1>4, <2>1 DEF Knows, IsService, Exists
  <2>2. CASE u # t
    <3>1. PICK e \in Deployment : e = dep[u] /\ e = dep'[u]
      BY <1>2, <2>2 DEF IInv, TypeOK
    <3>2. Knows(u, e) /\ TypeOK
      BY <1>4, <3>1 DEF IInv
    <3>3. Knows(u, e)'
      BY <2>2, <3>2, OthersKnow
    <3> QED
      BY <3>1, <3>3 DEF Knows, IsService, Exists
  <2> QED
    BY <2>1, <2>2
<1>5. ASSUME NoRefusal PROVE NoHalfConfiguredApp'
  <2> SUFFICES ASSUME NEW s \in ServiceIds, Exists(s)',
                      services'[s].kind = "app", ~services'[s].configured
               PROVE  \/ s \in untracked'
                      \/ /\ dep'[services'[s].tenant].app = s
                         /\ dep'[services'[s].tenant].step
                              \in {"env", "backoff", "undo"}
    BY DEF NoHalfConfiguredApp, Exists
  <2>1. CASE services'[s].tenant = t
    BY <1>2, <1>5, <2>1
  <2>2. CASE services'[s].tenant # t
    <3>1. services'[s] = services[s] /\ Exists(s)
      BY <2>2 DEF Exists
    <3>2. services[s].tenant \in Tenants \ {t}
      BY <2>2, <3>1 DEF IInv, TypeOK, Service, Exists
    <3> QED
      BY <1>2, <1>5, <3>1, <3>2 DEF IInv, NoHalfConfiguredApp
  <2> QED
    BY <2>1, <2>2
<1> QED
  BY <1>1, <1>3, <1>4, <1>5 DEF IInv, Exists

(* A step that leaves the services alone and, while an application is set  *)
(* up or taken down, goes on with the same one.                            *)
LEMMA QuietStep ==
  ASSUME IInv, NEW t \in Tenants, NEW d \in Deployment,
         dep' = [dep EXCEPT ![t] = d],
         services' = services, drawn' = drawn, untracked' = untracked,
         d.step \in Trying => d.tries < MaxRetries,
         Knows(t, d),
         NoRefusal /\ dep[t].step \in {"env", "backoff", "undo"} =>
             d.app = dep[t].app /\ d.step \in {"env", "backoff", "undo"}
  PROVE  IInv'
<1>1. ASSUME NEW s \in ServiceIds, NoRefusal, Exists(s)',
             services'[s].tenant = t, services'[s].kind = "app",
             ~services'[s].configured
      PROVE  \/ s \in untracked'
             \/ d.app = s /\ d.step \in {"env", "backoff", "undo"}
  BY <1>1 DEF IInv, NoHalfConfiguredApp, Exists
<1>2. Knows(t, d)'
  BY DEF Knows, IsService, Exists
<1>3. /\ services' \in [ServiceIds -> Service \cup {NoService}]
      /\ drawn' \subseteq ServiceIds /\ untracked' \subseteq ServiceIds
      /\ untracked \subseteq untracked'
      /\ \A s \in ServiceIds : Exists(s)' => s \in drawn'
  BY DEF IInv, TypeOK, Exists
<1> QED
  BY <1>1, <1>2, <1>3, DeploymentMoves

(* The deployment at another step. *)
LEMMA StepEffect ==
  ASSUME NEW d \in Deployment, NEW s \in Steps
  PROVE  LET e == [d EXCEPT !.step = s] IN
         /\ e \in Deployment
         /\ e.step = s /\ e.mongo = d.mongo /\ e.redis = d.redis
         /\ e.app = d.app /\ e.tries = d.tries
BY DEF Deployment

LEMMA GotoStep ==
  ASSUME IInv, NEW t \in Tenants, NEW s \in Steps, Goto(t, s),
         services' = services, drawn' = drawn, untracked' = untracked,
         s \in Trying => dep[t].step \in Trying,
         s \in AfterStore => dep[t].step \in AfterStore,
         s \in AfterCache => dep[t].step \in AfterCache,
         s \in AfterApp => dep[t].step \in AfterApp,
         s \in {"wait", "ready"} => dep[t].step \in {"wait", "ready"},
         dep[t].step \in {"env", "backoff", "undo"} =>
             s \in {"env", "backoff", "undo"}
  PROVE  IInv'
<1>1. PICK e \in Deployment : e = dep[t]
  BY DEF IInv, TypeOK
<1>2. PICK d : d = [e EXCEPT !.step = s]
  OBVIOUS
<1>3. /\ d \in Deployment /\ d.step = s /\ d.mongo = e.mongo
      /\ d.redis = e.redis /\ d.app = e.app /\ d.tries = e.tries
  BY <1>2, StepEffect
<1>4. dep' = [dep EXCEPT ![t] = d]
  BY <1>1, <1>2 DEF Goto
<1>5. d.step \in Trying => d.tries < MaxRetries
  BY <1>1, <1>3 DEF IInv
<1>6. Knows(t, d)
  <2>1. Knows(t, e)
    BY <1>1 DEF IInv
  <2> QED
    BY <1>1, <1>3, <2>1 DEF Knows, IsService
<1> QED
  BY <1>1, <1>3, <1>4, <1>5, <1>6, QuietStep

----------------------------------------------------------------------------
(* The actions. *)

LEMMA QuietActions ==
  ASSUME IInv, NEW t \in Tenants,
         \/ StartDeployment(t) \/ ServicesReady(t) \/ ServicesTimeout(t)
         \/ Remove(t)
  PROVE  IInv'
<1> USE DEF Steps, Trying, AfterStore, AfterCache, AfterApp
<1>1. CASE StartDeployment(t)
  BY <1>1, GotoStep DEF StartDeployment
<1>2. CASE ServicesReady(t)
  BY <1>2, GotoStep DEF ServicesReady
<1>3. CASE ServicesTimeout(t)
  BY <1>3, GotoStep DEF ServicesTimeout
<1>4. CASE Remove(t)
  BY <1>4, GotoStep DEF Remove
<1> QED
  BY <1>1, <1>2, <1>3, <1>4

(* DeleteServices: names are listed and sent, and nothing changes. *)
LEMMA DeleteActions ==
  ASSUME IInv, NEW t \in Tenants, ListServices(t) \/ DeleteNamed(t)
  PROVE  IInv'
<1>1. PICK e \in Deployment : e = dep[t]
  BY DEF IInv, TypeOK
<1>2. PICK s \in {"ended", "delete"}, todo \in SUBSET Kinds :
        dep' = [dep EXCEPT ![t] = [e EXCEPT !.step = s, !.todo = todo]]
  <2>1. CASE ListServices(t)
    <3>1. KindsOf(t) \in SUBSET Kinds
      BY DEF KindsOf, IInv, TypeOK, Service, Exists
    <3>2. PICK found \in {{}, KindsOf(t)} :
            dep' = [dep EXCEPT ![t] =
                     [e EXCEPT !.step = IF found = {} THEN "ended" ELSE "delete",
                               !.todo = found]]
      BY <1>1, <2>1 DEF ListServices
    <3> QED
      BY <3>1, <3>2
  <2>2. CASE DeleteNamed(t)
    <3>1. PICK k \in e.todo :
            dep' = [dep EXCEPT ![t] =
                     [e EXCEPT !.step = IF e.todo = {k} THEN "ended"
                                                        ELSE "delete",
                               !.todo = e.todo \ {k}]]
      BY <1>1, <2>2 DEF DeleteNamed
    <3>2. e.todo \ {k} \in SUBSET Kinds
      BY DEF Deployment
    <3> QED
      BY <3>1, <3>2
  <2> QED
    BY <2>1, <2>2
<1>3. PICK p : p = [e EXCEPT !.step = s]
  OBVIOUS
<1>4. /\ p \in Deployment /\ p.step = s /\ p.mongo = e.mongo
      /\ p.redis = e.redis /\ p.app = e.app /\ p.tries = e.tries
  <2>1. s \in Steps
    BY DEF Steps
  <2> QED
    BY <1>3, <2>1, StepEffect
<1>5. PICK d : d = [p EXCEPT !.todo = todo]
  OBVIOUS
<1>6. /\ d \in Deployment /\ d.step = s /\ d.mongo = e.mongo
      /\ d.redis = e.redis /\ d.app = e.app /\ d.tries = e.tries
  BY <1>4, <1>5 DEF Deployment
<1>7. dep' = [dep EXCEPT ![t] = d]
  BY <1>2, <1>3, <1>5
<1>8. Knows(t, d)
  <2>1. Knows(t, e)
    BY <1>1 DEF IInv
  <2> QED
    BY <1>6, <2>1 DEF Knows, IsService, AfterStore, AfterCache, AfterApp
<1>9. /\ services' = services /\ drawn' = drawn /\ untracked' = untracked
      /\ dep[t].step \in {"list", "delete"}
  BY DEF ListServices, DeleteNamed
<1> QED
  BY <1>6, <1>7, <1>8, <1>9, QuietStep DEF Trying

(* RetryWithBackoff counts its failures. *)
LEMMA BackoffStep ==
  ASSUME IInv, NEW t \in Tenants, Backoff(t)
  PROVE  IInv'
<1>1. PICK e \in Deployment : e = dep[t] /\ e.step = "backoff"
  BY DEF IInv, TypeOK, Backoff
<1>2. e.tries \in Nat /\ e.tries < MaxRetries /\ MaxRetries \in Nat
  BY <1>1, RailwayAssumption DEF IInv, Deployment, Trying
<1>3. PICK s : s = IF e.tries + 1 = MaxRetries THEN "undo" ELSE "env"
  OBVIOUS
<1>4. PICK n : n = e.tries + 1
  OBVIOUS
<1>5. dep' = [dep EXCEPT ![t] = [e EXCEPT !.step = s, !.tries = n]]
  BY <1>1, <1>3, <1>4 DEF Backoff
<1>6. PICK p : p = [e EXCEPT !.step = s]
  OBVIOUS
<1>7. /\ p \in Deployment /\ p.step = s /\ p.mongo = e.mongo
      /\ p.redis = e.redis /\ p.app = e.app
  <2>1. s \in Steps
    BY <1>3 DEF Steps
  <2> QED
    BY <1>6, <2>1, StepEffect
<1>8. PICK d : d = [p EXCEPT !.tries = n]
  OBVIOUS
<1>9. n \in 0 .. MaxRetries
  BY <1>2, <1>4
<1>10. /\ d \in Deployment /\ d.step = s /\ d.mongo = e.mongo
       /\ d.redis = e.redis /\ d.app = e.app /\ d.tries = n
  BY <1>7, <1>8, <1>9 DEF Deployment
<1>11. dep' = [dep EXCEPT ![t] = d]
  BY <1>5, <1>6, <1>8
<1>12. d.step \in Trying => d.tries < MaxRetries
  BY <1>2, <1>3, <1>4, <1>10 DEF Trying
<1>13. Knows(t, d)
  <2>1. Knows(t, e)
    BY <1>1 DEF IInv
  <2> QED
    BY <1>1, <1>3, <1>10, <2>1 DEF Knows, IsService, AfterStore, AfterCache, AfterApp
<1>14. services' = services /\ drawn' = drawn /\ untracked' = untracked
  BY DEF Backoff
<1> QED
  BY <1>1, <1>3, <1>10, <1>11, <1>12, <1>13, <1>14, QuietStep

(* A service is created: its id is new, so it is nobody else's. *)
LEMMA CreateActions ==
  ASSUME IInv, NEW t \in Tenants, NEW from, NEW kind \in Kinds, NEW to,
         Create(t, from, kind, to),
         \/ <<from, kind, to>> = <<"mongo", "mongo", "redis">>
         \/ <<from, kind, to>> = <<"redis", "redis", "mongo2">>
         \/ <<from, kind, to>> = <<"mongo2", "mongo", "redis2">>
         \/ <<from, kind, to>> = <<"redis2", "redis", "app">>
         \/ <<from, kind, to>> = <<"app", "app", "env">>
  PROVE  IInv'
<1>0. /\ from \in {"mongo", "redis", "mongo2", "redis2", "app"}
      /\ to \in Steps /\ to \in Trying
  BY DEF Steps, Trying
<1>1. PICK e \in Deployment : e = dep[t] /\ e.step = from
  BY DEF IInv, TypeOK, Create
<1>2. PICK s \in ServiceIds \ drawn, out \in Outcomes :
        /\ drawn' = IF Executed(out) THEN drawn \cup {s} ELSE drawn
        /\ services' = IF Executed(out)
                       THEN [services EXCEPT ![s] =
                               [tenant |-> t, kind |-> kind,
                                configured |-> FALSE,
                                mongo |-> NoService, redis |-> NoService]]
                       ELSE services
        /\ untracked' = IF out = "lost" THEN untracked \cup {s} ELSE untracked
        /\ dep' = [dep EXCEPT ![t] =
                     IF Succeeds(out)
                     THEN [e EXCEPT !.step = to,
                             ![kind] = IF out = "ok" THEN s ELSE NoService]
                     ELSE [e EXCEPT !.step = "list"]]
  BY <1>1 DEF Create
<1>3. PICK new : new = [tenant |-> t, kind |-> kind, configured |-> FALSE,
                        mongo |-> NoService, redis |-> NoService]
  OBVIOUS
<1>4. /\ new \in Service /\ new # NoService
      /\ new.tenant = t /\ new.kind = kind /\ ~new.configured
  <2>1. new \in Service
    BY <1>3 DEF Service
  <2>2. new.tenant = t /\ new.kind = kind /\ ~new.configured
    BY <1>3
  <2> QED
    BY <2>1, <2>2, NoServiceAssumption
<1>5. PICK v : v = IF out = "ok" THEN s ELSE NoService
  OBVIOUS
<1>6. PICK d : d = IF Succeeds(out) THEN [e EXCEPT !.step = to, ![kind] = v]
                                    ELSE [e EXCEPT !.step = "list"]
  OBVIOUS
<1>7. dep' = [dep EXCEPT ![t] = d]
  BY <1>2, <1>5, <1>6
<1>8. /\ services' \in [ServiceIds -> Service \cup {NoService}]
      /\ \A x \in ServiceIds \ {s} : services'[x] = services[x]
      /\ services'[s] = IF Executed(out) THEN new ELSE services[s]
  BY <1>2, <1>3, <1>4 DEF IInv, TypeOK
<1>9. ~Exists(s)
  BY DEF IInv
<1>10. /\ drawn' \subseteq ServiceIds /\ untracked' \subseteq ServiceIds
       /\ untracked \subseteq untracked'
       /\ \A x \in ServiceIds : Exists(x)' => x \in drawn'
  BY <1>2, <1>8, <1>9 DEF IInv, TypeOK, Exists
<1>11. /\ \A x \in ServiceIds : Exists(x) => services'[x] = services[x]
       /\ \A x \in ServiceIds : Exists(x)' => \/ services'[x] = services[x]
                                              \/ services'[x].tenant = t
  BY <1>4, <1>8, <1>9 DEF Exists
<1>12. /\ d \in Deployment
       /\ d.step = IF Succeeds(out) THEN to ELSE "list"
       /\ d.tries = e.tries
       /\ d.mongo = IF Succeeds(out) /\ kind = "mongo" THEN v ELSE e.mongo
       /\ d.redis = IF Succeeds(out) /\ kind = "redis" THEN v ELSE e.redis
       /\ d.app = IF Succeeds(out) /\ kind = "app" THEN v ELSE e.app
  <2>1. "list" \in Steps /\ v \in ServiceIds \cup {NoService}
    BY <1>5 DEF Steps
  <2>2. CASE Succeeds(out)
    <3>1. d = [e EXCEPT !.step = to, ![kind] = v]
      BY <1>6, <2>2
    <3>2. /\ d \in Deployment /\ d.step = to /\ d.tries = e.tries
          /\ d.mongo = IF kind = "mongo" THEN v ELSE e.mongo
          /\ d.redis = IF kind = "redis" THEN v ELSE e.redis
          /\ d.app = IF kind = "app" THEN v ELSE e.app
      <4>1. PICK p : p = [e EXCEPT !.step = to]
        OBVIOUS
      <4>2. /\ p \in Deployment /\ p.step = to /\ p.mongo = e.mongo
            /\ p.redis = e.redis /\ p.app = e.app /\ p.tries = e.tries
        BY <1>0, <4>1, StepEffect
      <4>3. d = [p EXCEPT ![kind] = v]
        BY <3>1, <4>1
      <4> QED
        BY <2>1, <4>2, <4>3 DEF Deployment, Kinds
    <3> QED
      BY <2>2, <3>2
  <2>3. CASE ~Succeeds(out)
    <3>1. d = [e EXCEPT !.step = "list"]
      BY <1>6, <2>3
    <3> QED
      BY <2>1, <2>3, <3>1, StepEffect
  <2> QED
    BY <2>2, <2>3
<1>13. d.step \in Trying => d.tries < MaxRetries
  BY <1>0, <1>1, <1>12 DEF IInv, Trying
<1>14. Knows(t, d)'
  <2>1. NoRefusal => out = "ok" \/ ~Succeeds(out)
    BY <1>2 DEF NoRefusal, Succeeds
  <2>2. Knows(t, e)
    BY <1>1 DEF IInv
  <2>3. \A x, k : IsService(x, t, k) => IsService(x, t, k)'
    BY <1>11 DEF IsService, Exists
  <2>4. v # NoService => IsService(v, t, kind)'
    BY <1>4, <1>5, <1>8, RailwayAssumption DEF IsService, Exists, Executed
  <2>5. NoRefusal /\ Succeeds(out) => v # NoService
    BY <1>5, <2>1, RailwayAssumption
  <2>6. d.mongo # NoService => IsService(d.mongo, t, "mongo")'
    BY <1>12, <2>2, <2>3, <2>4 DEF Knows
  <2>7. d.redis # NoService => IsService(d.redis, t, "redis")'
    BY <1>12, <2>2, <2>3, <2>4 DEF Knows
  <2>8. d.step \in AfterApp => kind = "app" /\ d.app = v /\ Succeeds(out)
    BY <1>12 DEF AfterApp
  <2>9. NoRefusal /\ d.step \in AfterStore => d.mongo # NoService
    BY <1>1, <1>12, <2>2, <2>5 DEF Knows, AfterStore, AfterCache, AfterApp
  <2>10. NoRefusal /\ d.step \in AfterCache => d.redis # NoService
    BY <1>1, <1>12, <2>2, <2>5 DEF Knows, AfterStore, AfterCache, AfterApp
  <2>11. d.step \notin {"wait", "ready"}
    BY <1>12
  <2> QED
    BY <2>4, <2>5, <2>6, <2>7, <2>8, <2>9, <2>10, <2>11
    DEF Knows, AfterStore, AfterCache, AfterApp
<1>15. ASSUME NEW x \in ServiceIds, NoRefusal, Exists(x)',
              services'[x].tenant = t, services'[x].kind = "app",
              ~services'[x].configured
       PROVE  \/ x \in untracked'
              \/ d.app = x /\ d.step \in {"env", "backoff", "undo"}
  <2>1. CASE x = s
    <3>1. Executed(out) /\ kind = "app"
      BY <1>4, <1>8, <1>9, <1>15, <2>1 DEF Exists
    <3>2. CASE out = "ok"
      BY <1>5, <1>12, <2>1, <3>1, <3>2 DEF Succeeds
    <3>3. CASE out = "lost"
      BY <1>2, <2>1, <3>3
    <3> QED
      BY <3>1, <3>2, <3>3 DEF Executed
  <2>2. CASE x # s
    BY <1>0, <1>1, <1>8, <1>10, <1>15, <2>2 DEF IInv, NoHalfConfiguredApp, Exists
  <2> QED
    BY <2>1, <2>2
<1>16. \A x \in ServiceIds : Exists(x) /\ services[x].tenant # t
                             => services'[x] = services[x]
  BY <1>11
<1> QED
  BY <1>7, <1>8, <1>10, <1>11, <1>12, <1>13, <1>14, <1>15, <1>16, DeploymentMoves

(* The environment is set, on the service that was just created. *)
LEMMA SetEnvironmentStep ==
  ASSUME IInv, NEW t \in Tenants, SetEnvironment(t)
  PROVE  IInv'
<1>1. PICK e \in Deployment : e = dep[t] /\ e.step = "env"
  BY DEF IInv, TypeOK, SetEnvironment
<1>2. PICK out \in Outcomes :
        /\ services' = IF Executed(out) /\ e.app # NoService
                       THEN [services EXCEPT ![e.app] =
                               [@ EXCEPT !.configured = TRUE,
                                         !.mongo = e.mongo,
                                         !.redis = e.redis]]
                       ELSE services
        /\ Goto(t, IF Succeeds(out) THEN "wait" ELSE "backoff")
  BY <1>1 DEF SetEnvironment
<1>3. drawn' = drawn /\ untracked' = untracked
  BY DEF SetEnvironment
<1>4. PICK to \in {"wait", "backoff"} :
        to = IF Succeeds(out) THEN "wait" ELSE "backoff"
  OBVIOUS
<1>5. PICK d : d = [e EXCEPT !.step = to]
  OBVIOUS
<1>6. /\ d \in Deployment /\ d.step = to /\ d.mongo = e.mongo
      /\ d.redis = e.redis /\ d.app = e.app /\ d.tries = e.tries
  <2>1. to \in Steps
    BY DEF Steps
  <2> QED
    BY <1>5, <2>1, StepEffect
<1>7. dep' = [dep EXCEPT ![t] = d]
  BY <1>1, <1>2, <1>4, <1>5 DEF Goto
<1>8. d.step \in Trying => d.tries < MaxRetries
  BY <1>1, <1>6 DEF IInv, Trying
<1>9. Knows(t, e) /\ (e.app # NoService => IsService(e.app, t, "app"))
  BY <1>1 DEF IInv, Knows, AfterApp
<1>10. CASE Executed(out) /\ e.app # NoService
  <2>1. PICK old \in Service : old = services[e.app]
    BY <1>9, <1>10 DEF IsService, Exists, IInv, TypeOK
  <2>2. PICK new : new = [old EXCEPT !.configured = TRUE, !.mongo = e.mongo,
                                     !.redis = e.redis]
    OBVIOUS
  <2>3. services' = [services EXCEPT ![e.app] = new]
    BY <1>2, <1>10, <2>1, <2>2
  <2>4. /\ new \in Service /\ new # NoService /\ new.configured
        /\ new.tenant = t /\ new.kind = "app"
        /\ new.mongo = e.mongo /\ new.redis = e.redis
    <3>1. new \in Service
      BY <2>1, <2>2 DEF Service, Deployment
    <3>2. old.tenant = t /\ old.kind = "app"
      BY <1>9, <1>10, <2>1 DEF IsService
    <3>3. /\ new.configured /\ new.tenant = t /\ new.kind = "app"
          /\ new.mongo = e.mongo /\ new.redis = e.redis
      BY <2>1, <2>2, <3>2 DEF Service
    <3> QED
      BY <3>1, <3>3, NoServiceAssumption
  <2>5. /\ services' \in [ServiceIds -> Service \cup {NoService}]
        /\ \A x \in ServiceIds \ {e.app} : services'[x] = services[x]
        /\ e.app \in ServiceIds /\ services'[e.app] = new
    BY <1>9, <1>10, <2>3, <2>4 DEF IInv, TypeOK, IsService
  <2>6. /\ drawn' \subseteq ServiceIds /\ untracked' \subseteq ServiceIds
        /\ untracked \subseteq untracked'
        /\ \A x \in ServiceIds : Exists(x)' => x \in drawn'
    BY <1>3, <1>9, <1>10, <2>5 DEF IInv, TypeOK, Exists, IsService
  <2>7. /\ \A x \in ServiceIds : Exists(x) /\ services[x].tenant # t
                                 => services'[x] = services[x]
        /\ \A x \in ServiceIds : Exists(x)' => \/ services'[x] = services[x]
                                               \/ services'[x].tenant = t
    BY <1>9, <1>10, <2>4, <2>5 DEF Exists, IsService
  <2>8. Knows(t, d)'
    <3>1. \A x, k : IsService(x, t, k) => IsService(x, t, k)'
      BY <1>9, <1>10, <2>4, <2>5 DEF IsService, Exists
    <3>2. NoRefusal => e.mongo # NoService /\ e.redis # NoService
      BY <1>1, <1>9 DEF Knows, AfterStore, AfterCache, AfterApp
    <3> QED
      BY <1>6, <1>9, <1>10, <2>4, <2>5, <3>1, <3>2 DEF Knows
  <2>9. ASSUME NEW x \in ServiceIds, NoRefusal, Exists(x)',
               services'[x].tenant = t, services'[x].kind = "app",
               ~services'[x].configured
        PROVE  \/ x \in untracked'
               \/ d.app = x /\ d.step \in {"env", "backoff", "undo"}
    BY <1>1, <1>3, <2>4, <2>5, <2>9 DEF IInv, NoHalfConfiguredApp, Exists
  <2> QED
    BY <1>6, <1>7, <1>8, <2>5, <2>6, <2>7, <2>8, <2>9, DeploymentMoves
<1>11. CASE ~(Executed(out) /\ e.app # NoService)
  <2>1. services' = services
    BY <1>2, <1>11
  <2>2. NoRefusal => to = "backoff"
    BY <1>1, <1>4, <1>9, <1>11
    DEF Knows, AfterApp, NoRefusal, Succeeds, Executed
  <2>3. Knows(t, d)
    BY <1>1, <1>6, <1>9, <2>2 DEF Knows, AfterStore, AfterCache, AfterApp
  <2> QED
    BY <1>1, <1>3, <1>6, <1>7, <1>8, <2>1, <2>2, <2>3, QuietStep
<1> QED
  BY <1>10, <1>11

(* The service is taken down again; a failure leaves it untracked. *)
LEMMA UndoStep ==
  ASSUME IInv, NEW t \in Tenants, Undo(t)
  PROVE  IInv'
<1>1. PICK e \in Deployment : e = dep[t] /\ e.step = "undo"
  BY DEF IInv, TypeOK, Undo
<1>2. PICK gone : gone = IF e.app = NoService THEN {} ELSE {e.app}
  OBVIOUS
<1>3. PICK out \in Outcomes :
        IF Executed(out)
        THEN /\ services' = [x \in ServiceIds |->
                               IF x \in gone THEN NoService ELSE services[x]]
             /\ untracked' = untracked
        ELSE /\ untracked' = untracked \cup gone
             /\ services' = services
  BY <1>1, <1>2 DEF Undo
<1>4. drawn' = drawn
  BY DEF Undo
<1>5. PICK d : d = [e EXCEPT !.step = "list"]
  OBVIOUS
<1>6. /\ d \in Deployment /\ d.step = "list" /\ d.mongo = e.mongo
      /\ d.redis = e.redis /\ d.app = e.app /\ d.tries = e.tries
  <2>1. "list" \in Steps
    BY DEF Steps
  <2> QED
    BY <1>5, <2>1, StepEffect
<1>7. dep' = [dep EXCEPT ![t] = d]
  BY <1>1, <1>5 DEF Undo, Goto
<1>8. Knows(t, e) /\ gone \subseteq ServiceIds
      /\ \A x \in gone : x = e.app /\ IsService(x, t, "app")
  BY <1>1, <1>2 DEF IInv, Knows, AfterApp, Deployment
<1>9. /\ services' \in [ServiceIds -> Service \cup {NoService}]
      /\ \A x \in ServiceIds \ gone : services'[x] = services[x]
      /\ \A x \in ServiceIds : services'[x] \in {services[x], NoService}
      /\ untracked \subseteq untracked'
      /\ \A x \in gone : services'[x] = NoService \/ x \in untracked'
  BY <1>3, <1>8 DEF IInv, TypeOK
<1>10. /\ drawn' \subseteq ServiceIds /\ untracked' \subseteq ServiceIds
       /\ \A x \in ServiceIds : Exists(x)' => x \in drawn'
  BY <1>3, <1>4, <1>8, <1>9 DEF IInv, TypeOK, Exists
<1>11. /\ \A x \in ServiceIds : Exists(x) /\ services[x].tenant # t
                                => services'[x] = services[x]
       /\ \A x \in ServiceIds : Exists(x)' => \/ services'[x] = services[x]
                                              \/ services'[x].tenant = t
  BY <1>8, <1>9 DEF Exists, IsService
<1>12. Knows(t, d)'
  <2>1. \A x, k : k # "app" /\ IsService(x, t, k) => IsService(x, t, k)'
    BY <1>8, <1>9 DEF IsService, Exists
  <2> QED
    BY <1>6, <1>8, <2>1 DEF Knows, AfterStore, AfterCache, AfterApp
<1>13. ASSUME NEW x \in ServiceIds, NoRefusal, Exists(x)',
              services'[x].tenant = t, services'[x].kind = "app",
              ~services'[x].configured
       PROVE  \/ x \in untracked'
              \/ d.app = x /\ d.step \in {"env", "backoff", "undo"}
  <2>1. services'[x] = services[x] /\ Exists(x)
    BY <1>9, <1>13 DEF Exists
  <2>2. x \in untracked \/ e.app = x
    BY <1>1, <1>13, <2>1 DEF IInv, NoHalfConfiguredApp
  <2>3. e.app = x => x \in gone
    BY <1>2, RailwayAssumption
  <2> QED
    BY <1>9, <1>13, <2>2, <2>3 DEF Exists
<1>14. d.step \in Trying => d.tries < MaxRetries
  BY <1>6 DEF Trying
<1> QED
  BY <1>6, <1>7, <1>9, <1>10, <1>11, <1>12, <1>13, <1>14, DeploymentMoves

----------------------------------------------------------------------------
(* The inductive invariant. *)
LEMMA StepIInv == IInv /\ [Next]_vars => IInv'
<1> SUFFICES ASSUME IInv, [Next]_vars PROVE IInv'
  OBVIOUS
<1>1. ASSUME NEW t \in Tenants, StartDeployment(t) \/ Progress(t) \/ Remove(t)
      PROVE  IInv'
  <2>1. CASE CreateStep(t)
    <3> USE DEF Kinds
    <3>1. CASE DeployDatabase(t)
      BY <3>1, CreateActions DEF DeployDatabase
    <3>2. CASE DeployCache(t)
      BY <3>2, CreateActions DEF DeployCache
    <3>3. CASE DatabaseAgain(t)
      BY <3>3, CreateActions DEF DatabaseAgain
    <3>4. CASE CacheAgain(t)
      BY <3>4, CreateActions DEF CacheAgain
    <3>5. CASE CreateRoomService(t)
      BY <3>5, CreateActions DEF CreateRoomService
    <3> QED
      BY <2>1, <3>1, <3>2, <3>3, <3>4, <3>5 DEF CreateStep
  <2>2. CASE SetEnvironment(t)
    BY <2>2, SetEnvironmentStep
  <2>3. CASE Backoff(t)
    BY <2>3, BackoffStep
  <2>4. CASE Undo(t)
    BY <2>4, UndoStep
  <2>5. CASE ListServices(t) \/ DeleteNamed(t)
    BY <2>5, DeleteActions
  <2>6. CASE \/ StartDeployment(t) \/ ServicesReady(t) \/ ServicesTimeout(t)
             \/ Remove(t)
    BY <2>6, QuietActions
  <2> QED
    BY <1>1, <2>1, <2>2, <2>3, <2>4, <2>5, <2>6 DEF Progress
<1>2. CASE UNCHANGED vars
  <2>1. /\ services' = services /\ drawn' = drawn
        /\ dep' = dep /\ untracked' = untracked
    BY <1>2 DEF vars
  <2> QED
    BY <2>1 DEF IInv, TypeOK, Exists, Knows, IsService, NoHalfConfiguredApp
<1> QED
  BY <1>1, <1>2 DEF Next

THEOREM Inductive == Spec => []IInv
<1>1. Init => IInv
  BY InitIInv
<1>2. IInv /\ [Next]_vars => IInv'
  BY StepIInv
<1> QED
  BY <1>1, <1>2, PTL DEF Spec

(* The variables of a deployment hold what their declarations say: the     *)
(* attempts of RetryWithBackoff never exceed MaxRetries.                   *)
THEOREM TypeCorrect == Spec => []TypeOK
<1>1. IInv => TypeOK
  BY DEF IInv
<1> QED
  BY <1>1, Inductive, PTL

(* No sequence of failed attempts leaves a room service running without    *)
(* its environment, whatever requests of other tenants come between.       *)
THEOREM NoneHalfConfigured ==
  ASSUME NoRefusal PROVE Spec => []NoHalfConfiguredApp
<1>1. IInv => NoHalfConfiguredApp
  BY NoRefusal DEF IInv
<1> QED
  BY <1>1, Inductive, PTL

(* A deployment that is reported ready has an application that was given a *)
(* database and a cache of its own tenant, and both are there.             *)
THEOREM ReadyMeansComplete ==
  ASSUME NoRefusal PROVE Spec => []ReadyIsComplete
<1>1. IInv => ReadyIsComplete
  <2> SUFFICES ASSUME IInv, NEW t \in Tenants, dep[t].step = "ready"
               PROVE  LET app == dep[t].app IN
                      /\ app # NoService
                      /\ Exists(app) /\ services[app].configured
                      /\ \A k \in {"mongo", "redis"} :
                           LET store == services[app][k] IN
                           /\ store # NoService
                           /\ Exists(store)
                           /\ services[store].tenant = t
                           /\ services[store].kind = k
    BY DEF ReadyIsComplete
  <2>1. Knows(t, dep[t])
    BY DEF IInv
  <2>2. /\ dep[t].app # NoService /\ IsService(dep[t].app, t, "app")
        /\ services[dep[t].app].configured
        /\ services[dep[t].app].mongo = dep[t].mongo
        /\ services[dep[t].app].redis = dep[t].redis
        /\ dep[t].mongo # NoService /\ IsService(dep[t].mongo, t, "mongo")
        /\ dep[t].redis # NoService /\ IsService(dep[t].redis, t, "redis")
    BY <2>1, NoRefusal DEF Knows, AfterStore, AfterCache, AfterApp
  <2>3. PICK app \in Service : app = services[dep[t].app]
    BY <2>2 DEF IsService, Exists, IInv, TypeOK
  <2>4. app["mongo"] = dep[t].mongo /\ app["redis"] = dep[t].redis
    BY <2>2, <2>3 DEF Service
  <2> QED
    BY <2>2, <2>3, <2>4 DEF IsService
<1> QED
  BY <1>1, Inductive, PTL
=============================================================================
