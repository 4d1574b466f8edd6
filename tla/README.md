# Verification of room-service-proxy

TLA+ models of the multi-tenant proxy in this repository, the TLC runs that
check them on small instances, and the proofs that TLAPS checks for every
instance. Paths are relative to the repository's `src/`.

## 1. The system

A single Go process. Tenants sign up through an HTTP API; each gets a row in
PostgreSQL, an API key, and a virtual machine (or five Railway services) that
runs its own room service. gRPC calls that carry the key are authenticated
against the table, rate limited and forwarded to the tenant's machine.

| Component (source) | State it keeps | Operations | Correct when |
|---|---|---|---|
| Tenant storage (`internal/ports/adapters/postgres/tenant_storage.go`, `schema.sql`) | table `tenants`: status, key, address | CreateTenant, GetTenant, GetTenantByAPIKey, UpdateTenant (the whole row), DeleteTenant (soft), RegenerateAPIKey | a key resolves to at most one tenant, the one it was generated for |
| Tenant service (`internal/service/tenant/service.go`) | channel of 100 pointers, one worker goroutine | CreateTenantAsync, CreateTenantWithProvisioning, provisioningWorker, provisionTenantServices, waitForTenantServices, updateTenantStatus | each tenant is provisioned by one goroutine; an active row leads to its own machine; failures leave no machine and no pending row; the queue always drains |
| Yandex deployer (`internal/ports/adapters/yandex_adapter.go`) | machines in the cloud, outside the process | DeployTenant, CheckHealth, DeleteServices, GetStatus | (an environment: it may fail before or after it acted) |
| Railway deployer (`railway_adapter.go`, `railway_client.go`, `pkg/utils/retry.go`) | services in the cloud, known by an id Railway draws and a name the proxy chose | DeployTenant (five creations), setEnvironmentVariables with retries, CheckHealth, DeleteServices | nothing half configured is left or reported ready; every deployment ends |
| Admin API (`internal/transport/http/admin.go`) | copies of rows between two statements of a request | createTenant, updateTenant, deleteTenant, regenerateAPIKey, listings | stale copies cross no keys; no machine behind a deleted row; a machine goes away under its row's mark; a replaced key is dead once nobody has a copy of it |
| Accounts (`internal/transport/http/auth.go`, `authMiddleware` in `admin.go`, user and token storages) | tables `users` and `auth_tokens`, the owner of a tenant, a request's user between two statements | Signup, Login, Logout, authMiddleware, the ownership checks | one account per email; a token leads to the account whose password was shown for it; a request acts for itself |
| Rate limiter (`internal/ratelimit/limiter.go`) | map of buckets under one mutex, each bucket under its own | Allow, Reset, GetStats, Cleanup | a tenant gets its burst and its rate, whatever the cleanup deletes |
| Health check (`internal/service/healthcheck/service.go`) | failure counters, a batch's copies of rows, running flag, context | Start, Stop, run, checkAllTenants, checkTenantHealth, the two mark functions | a status follows three failures in a row or a success; a stopped service starts no write; nobody starves |
| gRPC proxy (`internal/transport/grpc/proxy.go`) | pool of connections by tenant id, tenant in the stream's context | interceptors, director, pool | calls are served as their key's owner, at an address of that tenant, and wait for nobody |
| Request log (`proxy.go`, `request_log_storage.go`) | bounded channel | drop when full, one consumer | nothing blocks a call |
| Wiring (`cmd/proxy/main.go`) | the goroutines above | start, shutdown | a restart leaves nothing that looks finished but is not |

How they interact: everything meets in the `tenants` table. The admin API, the
provisioning worker, a synchronous creation and the health check each read a
row, keep it across calls that take up to minutes, and write the **whole** row
back with one UPDATE. There is no version column and no transaction spans two
statements. The worker gets pointers over a channel. The proxy only reads. The
cloud outlives the process; the queue does not.

What is hard here: last-writer-wins of stale copies; calls that report an error
after they took effect; contexts that end in the middle of cleanup and rollback
(request context on the synchronous path, 30 s in DELETE, five minutes for a
health batch); the full queue; a process exit with half-provisioned tenants;
checks that another statement relies on later (email, token, owner); pointers
of buckets that the map has forgotten; integer truncation of time.
`PROJECT.json` lists these hazards at their lines, with the properties that
cover them or the reason none does.

## 2. The modules

```
TenantStorage            the table; every SQL statement is an operator with an outcome
  YandexDeployer         + the cloud (vm)
    Provisioning         + queue, worker, handlers, restart     -> refines TenantLifecycle
      MCProvisioning       (TLC)      ProvisioningProofs (TLAPS)
    AdminApi             + PUT / DELETE / regenerate-key handlers
      MCAdminApi                      AdminApiProofs
    HealthCheck          + the loop, the checks, Start and Stop
      MCHealthCheck                   HealthCheckProofs
    TenantSystem         Provisioning, AdminApi and HealthCheck over one table and cloud
      MCTenantSystem                  TenantSystemProofs            -> refines TableWriters
  TableWriters           what the writers of the table may do, seen from outside
    Proxy                + calls, connection pool, log channel
      MCProxy                         ProxyProofs
RateLimiter              its own state and clock
  MCRateLimiter                       RateLimiterProofs
Accounts                 users, tokens, owners, requests
  MCAccounts                          AccountsProofs
RailwayDeployer          the services of the Railway project, one deployment per tenant
  MCRailwayDeployer                   RailwayProofs
```

Conventions. Anything that leaves the process (an SQL statement, a `yc`
command, a GraphQL request) is a step of its own, so other goroutines run
between any two of them. Such a call has an **outcome** taken from a CONSTANT
set: `"ok"`; `"err"`, it did nothing and says so; `"lost"`, it took effect and
still reported an error. A call under a finished context has the outcome `"err"`
(`Under`). Mutants (operators named `...Mutant`, or with the comment "Mutant:")
are plausible bugs; each property is known to fail when one of them replaces the
definition that follows it. Nothing else uses them.

**TenantStorage**. `tenants` maps ids to rows `[status, key, host]`; `host`
stands for the pair host:port. `keyOwner` remembers for whom a key was generated;
it makes UUIDs fresh and gives `KeyOwnership` something to compare with. INSERT is
refused by the PRIMARY KEY and by the UNIQUE constraint on keys
(`InsertRejected`), UPDATE, which writes the caller's whole row, and the key
regeneration by the latter;
the soft delete and the key regeneration write one column. `ProvisioningStatus` and
`ProvisioningError` of `ports.Tenant` are absent, because no statement stores or
loads them.

**YandexDeployer**. `vm` maps tenants to the address and key of their machine.
Creation and reading the address are two commands, so `DeployTenant` may fail
with a machine left behind. Addresses are reused once a machine is deleted. A
deletion that the command accepted counts as done.

**Provisioning**. `queue`, and per actor (each request, and the worker) `pc`,
the pointer `ptr` and the `deployed` address. Actions map to code as follows:
`CreateTenantAsync`, `Enqueue` (the `select`), `CreateTenantWithProvisioning`
(the fallback's insert), `Take` (receive), `MarkRead`/`MarkWrite` and
`FailRead`/`FailWrite` (the two halves of `updateTenantStatus`), `Deploy` and
`GetAddress` (`DeployTenant`), `ServicesReady`/`ServicesTimeout`
(`waitForTenantServices`), `Cleanup` (`DeleteServices` on an error path),
`SaveReady` (the worker's last write), `SaveCreated` and `Rollback` (the
handler's), `Cancel` (the client leaves), `Crash` (the process stops and starts;
`main` exits without draining the queue). `orphan` is history: the tenant that a
handler gave up when the queue was full.

**TenantLifecycle**. What creation promises: accepted with a key nobody else
has; activated only with a backend of its own that accepts this key; the backend
stays while active; a tenant given up stays given up. `Provisioning` implements it under
`phase <- PhaseOf(row)`, `key <- row.key`, `backend <- vm`. A row without an
address counts as pending although the synchronous path stores it as "active".

**AdminApi**. Per handler goroutine one `Operation`: step, tenant, the copy it
will write, and whether its context is done. Initially tenants are as
provisioning leaves them. `UpdateFetch`/`UpdateSave`;
`DeleteFetch`/`DeleteMark`/`DeleteInfrastructure`, then `DeleteRow` or
`DeleteRevert`; `RegenerateFetch`/`RegenerateWrite`; `Expire`. Two of the
handlers' promises, the mark of a deletion and the end of a replaced key, depend
on the worker and the health check as well, which write the same rows; they are
stated in TenantSystem, not here.

**TenantSystem**. Instances `P`, `A` and `H` of the three modules above share
`tenants`, `keyOwner` and `vm`; each step of one leaves the others' variables
alone. The table starts empty, so the handlers and the health check meet only
tenants a request created, in any state of their provisioning. Restarts, Stop and
instances that fall ill are left to the modules on their own: what remains is
what only their meeting can break. `Gone` is a tenant with a row, no instance and
no one who will still deploy one (`Awaited`). A key is `Held` while a row or
anybody's copy of a row has it: the worker's and the requests' pointers, the
queue, the row `updateTenantStatus` read, the handlers' copies, the batch of the
health check; a drawn key that is not held is `Dead`. `alone` is history:
handlers that have had their tenant to themselves since they read it, where
another handler, the worker, a request, the queue or a running check is company
(`Shared`).

**TableWriters**. The table as somebody sees it who only reads it. A tenant is
inserted (with the status "provisioning", or "active" by the synchronous path),
its key is regenerated, or a whole row is written: with **any** status, **any**
address, the empty one included, and **any** key that was ever drawn for that
tenant. This covers what stale copies do: a DELETE of a tenant still being
provisioned that is reverted to "active" with an empty address, an old address
or an old key that comes back. `TenantSystem` is shown to implement it
(`ImplementsWriters`), and `Proxy` extends it, so what the proxy promises it
promises over the real writers.

**Accounts**. `users`, `sessions` (the table `auth_tokens`), `expired`,
`owner` (the column `tenants.user_id`), and per handler a request record. Signup
is `SignupCheck` (GetUserByEmail), `CreateUser` (INSERT ... ON CONFLICT DO
NOTHING) and `CreateToken`; `LoginCheck` leads to the same `CreateToken`; a
request with a bearer token is `Authenticate` (GetToken), `Resolve`
(GetUserByID), then `CreateTenant`, or `FetchTenant` (the read and the ownership
check) and `WriteTenant`; `AdminLookup` is the admin key's creation for an email.
`Logout`, `Expire`, `DeleteExpiredTokens` and `DeleteUser` (with the cascade; the
last two have no caller yet) may come between any two of these. History:
`proof`, the credentials a token was issued for; `handed`, tokens a client was
given; `ended`, tokens logged out, purged or cascaded away. The owner of a tenant
is kept here rather than in TenantStorage: the admin handlers only ever write back
the owner they read.

**RailwayDeployer**. `services` maps ids to services; `dep[t]` is the goroutine
that deploys tenant t, with the ids it was answered. DeployTenant deploys the
database and the cache, and `deployApplication` deploys both **again** and points
the application to the second pair; hence five `Create` steps. Then
`SetEnvironment` and `Backoff` (`RetryWithBackoff`, its timer reduced to the
count of failures), `Undo` (CreateRoomService deletes its own service),
`ServicesReady`/`ServicesTimeout`, `Remove` (a DELETE request), and
`ListServices`/`DeleteNamed` (DeleteServices). `"refused"` is a fourth outcome:
HTTP 200 with a GraphQL error, which the client takes for a success.
`untracked` is history: services a lost answer or a failed deletion left behind.

**RateLimiter**. `limiters` is the map, `bucket` the objects it points to,
`held` the pointer a caller got under the map's mutex and uses later under the
bucket's. The program creates the limiter and calls `Allow`; `Reset` and
`Cleanup` are complete but nothing calls them yet, so today the map only grows. `Allow` truncates seconds and tokens as the code does; a clock of
several ticks per second makes the truncation matter. `since`, `spent`,
`admitted` and `resets` are history.

**HealthCheck**. `loop` is the goroutine of `run`; `check[t]` the goroutine of a
tenant in the current batch, waiting for a slot, probing or about to write;
`copy[t]` the batch's copy of the row. `batchDone` says that the batch's
context is over (its five minutes, or Stop); `late` are the tenants whose UPDATE
stood before its answer at that moment and may still be applied, although
it reports an error. The failure counter stops at the
threshold: beyond it, the count decides nothing. `Stop` cancels, and returns
either with the goroutine gone or after its ten seconds.

**Proxy**. `call[c]` is the goroutine of one gRPC call: `Authenticate`
(`authStreamInterceptor` and the query), `RateLimit`, `LoadConnection` and
`StoreConnection` (the two halves of `getTenantConnection`), `StreamEnds`,
`LogRequest`; `ProcessLogEntry` is the consumer of the log channel. A call keeps the
address it read when it was authenticated; `tenantConns` keeps, per tenant, the address the
pooled connection dials. The proxy never writes the table; `Written` is a step of
TableWriters. History: `had`, the addresses a tenant's row has had; `moved`, the
tenants whose address changed while the pool or a call had the old one
(`Cached`). Proxied calls have unknown methods and so take the stream chain, also
when they are unary.

## 3. What the runs check

| Run | Instance | What it shows |
|---|---|---|
| `provisioning_faults` | 3 requests, queue of 1, 4 ids and keys, 2 addresses, every outcome of every call, cancelled requests, restarts | `ExclusiveOwnership`, `KeyOwnership`, `ActiveIsServable`, `PublishedStays`, and the refinement `ImplementsLifecycle` |
| `provisioning_settles` | 3 requests, queue of 1, 5 ids and keys, 1 address, a reliable database, no restart, no cancelled client; the cloud may fail or answer ambiguously; fairness | on every error path `NoLeakedInstance`, `ProvisioningIsHandled`, `ActiveWithoutAddressIsTransient`; and `QueuedSettles`, `RequestAnswered`, though no machine is assumed ever to become healthy |
| `provisioning_fallback` | violation | a full queue abandons a row in "provisioning" |
| `admin_handlers` | 2 tenants, 2 handlers, 3 keys, 1 address, every outcome, contexts that expire | `DeletedHasNoInstance` for every interleaving of the handlers' stale copies, failed reverts and expired contexts |
| `tenant_system` | 2 tenants and keys, 1 address, 2 requests, queue of 1, 1 admin handler, 1 slot; deployments and deletions that take effect and report an error; PUTs of the status "active"; fairness of the health check only | `MisroutedIsRefused`, `DeletedHasNoInstance`, `DestroyedWhileMarked`, `GoneStays`, `OldKeyInvalid`, `ZombieIsFound` while creation, DELETE, PUT, regeneration and health writes overlap, and the refinement `ImplementsWriters` |
| `accounts` | 3 user ids, 2 tokens, 1 tenant, 2 emails, 2 passwords, 2 handlers, every outcome | `OneAccountPerEmail`, `SessionOwner`, `AnsweredSessionHolds`, `ActsForItself` |
| `railway` | 2 tenants with 5 ids each, 3 attempts, outcomes "ok", "err", "lost"; fairness | `NoHalfConfiguredApp`, `ReadyIsComplete`, `DeployEnds` |
| `limiter_buckets` | 2 callers, 3 bucket objects, 3 tokens per 2 s, 2 ticks per second, 11 ticks, 1 reset | `BucketBound`, `TenantBound` |
| `proxy_calls` | 2 tenants, 2 calls, 2 keys, 1 address and the empty one, log channel of 1; writes of every key and address a tenant may have with the statuses "active" and "suspended"; fairness for calls only | `RoutedToAddress`, `ServedAsKeyOwner`, `NeverBlocked` |
| `proxy_stale` | violation of `RoutedAsLogged` | a call before the address is known poisons the pool: the call goes elsewhere than the director logs |
| `health_loop` | 2 tenants, 1 slot, flaky probes, expired batches, lost writes, Stop at any moment | `StatusFollowsCounter`, `StoppedStartsNoWrite` |
| `health_live` | 2 tenants, 1 slot, fairness | `DownIsMarked`, `UpIsRestored` |

Every run with `TypeOK` in its cfg also checks the types.

Why the bounds are enough. *Queue of 1, 3 requests*: one tenant with the worker,
one queued, and one request that finds the queue full, which is all the queue
can do to three actors; a fourth request only repeats the third. Each request
may use a second id after a full queue, hence 4 and 5 ids. *Addresses* are
scarce, so that one is reused and a creation is refused; in `tenant_system` a
single one makes every stale address lead to the other tenant. Its writes to the
table succeed, because a health check whose writes keep failing finds nothing;
the safety properties are proved for any outcome of them. Two ids do not reach
the synchronous fallback there, which needs a third (one tenant with the worker,
one queued, one abandoned); the proofs of `TenantSystemProofs` cover it, and
`provisioning_faults` runs it. *2 handlers*: a stale copy needs one writer
between another's read and write. *3 keys*: one per tenant and a regeneration; a
copy from before it, or none, is what matters. The *2 keys* of `tenant_system`
are two tenants, or one tenant and its regeneration; a third key beside two
tenants is left to the proofs. *Proxy*: only whether two addresses are equal
matters to it, and it tells "active" from every other status: one address and
the empty one, "active" and "suspended" are enough. *Accounts*: two racing signups
and an account from before, two tokens so that one is handed out while the
other's race is lost; one tenant suffices because ownership is compared tenant
by tenant. *Railway*: five ids are one deployment, a second tenant shows that
the deployments keep to their own services, and 3 attempts are the code's.
*Limiter*: at most one bucket in the map and one in each caller's hand are
alive, so three objects suffice; 11 ticks let a bucket go stale (5 ticks), be
replaced and refill. *2 calls and a log channel of 1*: both may miss the pool
and race to fill it, and one of them finds the channel full. *1 slot for 2
tenants*: the least that makes checks wait for each other. The constraints
`DrawnInOrder` and the symmetry sets only drop renamings of UUIDs, tokens,
Railway ids, requests and addresses; `CHECK_DEADLOCK FALSE` is set because a
system whose requests are all answered, whose keys are used up or whose clock
has reached its bound stops.

Where a run assumes more than the others, the code's promise ends there: with an
unreliable database or a restart, provisioning really does leave machines and
pending rows behind (`provisioning_settles` excludes both; nothing reconciles
them); while anybody holds a copy of the row from before, a replaced key really
may come back (`Held`), and while anybody else works on the tenant, the mark of a
deletion really may be overwritten (`alone`); with GraphQL errors in answers of status 200, a half-configured
application really is reported ready (`railway` leaves out `"refused"`); and in the
composition `NoLeakedInstance` does not hold, because a stale revert may overwrite
the address of a running machine.

Fairness. Goroutines that can run do run, and every external call
returns. The calls have timeouts in the code: five minutes in
`waitForTenantServices`, 30 s for each health check, each GraphQL request and for
DELETE, except that the worker's own SQL statements run under the background
context; they are assumed to answer. Fairness is weak, per goroutine (worker,
handler, check, loop, deployment). That a machine ever gets healthy, that a
client stays or leaves, or that the log consumer runs, is not assumed:
`StreamEnds`, `ProcessLogEntry`, `Cancel`, `InstanceChanges` and, in
Provisioning, `ServicesReady` have no fairness; in RailwayDeployer
`ServicesReady` is one of two ways to leave the wait, and the other,
`ServicesTimeout`, is always possible. In `tenant_system` only the health check is
fair: `ZombieIsFound` may not lean on the handlers.

## 4. Disagreements the model found

* *A full queue loses a tenant* (`provisioning_fallback`). The fallback, "handle
  synchronously", creates another tenant from the request; the first row
  stays in "provisioning" and its id was never given to anyone.
* *The pool goes stale* (`proxy_stale`). The synchronous path stores a tenant as
  active before it has an address. A call in that time pools a connection to the
  empty address, and nothing ever removes it: the tenant is unreachable until the proxy
  restarts, while "Log successful routing with target IP" prints the new address. A PUT
  that moves a tenant does the same.

Met while reading and modelling, without a run of their own.

The tenants table:

* the port says of RegenerateAPIKey "Old API key is immediately invalidated"
  (`storage_interfaces.go:71`). It is not: whoever read the row before writes the
  old key back, and it is then the new one that resolves to nobody. A PUT
  (`admin.go:369`) and a DELETE (`admin.go:414`, `:427`) do so, the worker's last
  write (`service.go:149`, with the key of the pointer the tenant was created
  with) and both writes of the health check (`healthcheck/service.go:332`,
  `:354`), whose copies may be five minutes old. `OldKeyInvalid` states what is
  left: once the last such copy is gone, the key is dead for good;
* a DELETE marks the row "deleting" before it removes the machine, so that
  nobody routes to it or checks it meanwhile; nothing protects the mark. The
  same writers put "active" or "unhealthy" over it, and the machine then goes away
  under a row that is served. `DestroyedWhileMarked` is about the DELETE that has
  its tenant to itself;
* the port promises that `GetTenant` gives an error for a deleted tenant; it
  returns the row (`tenant_storage.go:93`), so a PUT or a second DELETE (whose
  `DeleteServices` fails, so it reverts to "active") revives it. `ZombieIsFound`
  says that the health check then takes the row out of service;
* a synchronous creation that failed rolls its row back to "deleted" also when the
  cleanup before it failed and was only logged (`service.go:77`, `:214`): the
  machine runs on behind a row that nobody lists or checks any more.
  `DeletedHasNoInstance` of the composition has the premise `Thorough`;
* the revert of a failed deletion always writes "active", not the status it
  found (`admin.go:425`), with whatever address its copy has: a tenant that is
  still being provisioned becomes active with an empty address, and a call that
  comes then pools it. `RoutedToAddress` allows for such writes: the connection
  leads to an address the tenant had, and not to a stale one unless the address
  changed under the pool or the call;
* a PUT may set the status "deleted" (`admin.go:349`): the row is hidden while its
  machine runs on. `DeletedHasNoInstance` needs the premise `NoDeletePatch`;
* a regenerated key never reaches the machine, which keeps the one it was
  started with, while the proxy forwards the new one (`proxy.go:154`).

Accounts:

* the port says of CreateUser "Returns: error if email already exists"
  (`storage_interfaces.go:80`); the INSERT has ON CONFLICT DO NOTHING
  (`user_storage.go:31`), so the loser of a race is told nothing and gets 500
  "Failed to create session" from the foreign key of the token. The properties
  hold because of that key.

Railway:

* `DeleteServices` ("removes all Railway services for a tenant",
  `railway_adapter.go:116`) sends names where `serviceDelete` wants ids, and
  `DeleteService` swallows the error: nothing is deleted and success is reported;
* DeployTenant deploys the database and the cache twice; it reports the first pair
  while the application uses the second;
* the passwords given to `CreateMongoDB` and `CreateRedis` are not used, so those the
  application is given are not theirs;
* the application gets a random API key of its own and `Application.APIKey` is
  returned empty, so the tenant's row ends up with the key "": the second such
  tenant meets the UNIQUE constraint;
* an answer of status 200 that carries a GraphQL error is taken for a success
  (`railway_client.go:403`);
* `RetryWithBackoff` also sleeps after its last failure (`retry.go:41`).

Limiter, health check, proxy:

* the limit is documented as requests per second ("Requests per second",
  `limiter.go:13`; "Requests per second per tenant", `README.md:70`), but
  `rps` tokens are added per **window** (`limiter.go:68`): with the defaults a
  tenant gets 100 calls a minute. The model follows the code;
* the burst is only what a new bucket starts with; refills add to it
  without a cap, so an idle tenant collects tokens (`limiter.go:70`);
* `Start` after `Stop` runs on a cancelled context, so the loop ends at once while
  `IsRunning` says true (nothing calls it today);
* checks that a batch's deadline cuts short count as failures of their tenants,
  although they cannot by themselves change a row, since the write runs under
  the same context (an UPDATE that had been sent by then may still be applied);
* a pooled connection may lead to an address that another tenant's machine has
  meanwhile. That machine refuses the call: the proxy forwards the key, and the
  key is the calling tenant's own (`MisroutedIsRefused`, `ServedAsKeyOwner`);
* the two-second context made for the insert of a log entry is dropped
  (`proxy.go:509`), so the consumer may hang; `NeverBlocked` holds all the same;
* two first calls create two connections, one of which is never closed
  (`proxy.go:198`).

## 5. What is proved

All proofs are checked by TLAPS. They hold for any (finite or infinite) sets of
tenants, requests, keys, addresses, users, tokens and service ids, any capacities
and limits, and any mix of the outcomes that the constants allow; only the limiter's
callers are finitely many, because `TenantBound` counts them. Every safety invariant
and every action property of a passing run is stated by one of them. `KeyOwnership`
of AdminApi and `TypeOK` of TenantSystem and of Accounts are proved and not repeated in a run.

| Module | Theorems | Premise beyond the modules' assumptions |
|---|---|---|
| `ProvisioningProofs` | `TypeCorrect`, `OwnershipIsExclusive`, `KeysAreOwn` | |
| | `ActiveRowsAreServable`, `PublishedRowsStay`, `Refinement`, `NoInstanceLeaks`, `RowsAreHandled`, `EmptyAddressIsTransient` | `ReturnsAPIKey`; the last three `Reliable` |
| `AccountsProofs` | `TypeCorrect`, `EmailsAreUnique`, `SessionsAreOwn`, `AnswersHold`, `RequestsActForThemselves` | |
| `AdminApiProofs` | `TypeCorrect`, `KeysStayOwn`, `DeletedAreDown` | `DeletedAreDown`: `NoDeletePatch` |
| `RateLimiterProofs` | `TypeCorrect`, `BucketsAreBounded`, `TenantsAreBounded` | `TenantsAreBounded`: `StaleEarns` |
| `HealthCheckProofs` | `TypeCorrect`, `StatusesFollowCounters`, `StoppedIsSilent` | |
| `ProxyProofs` | `TypeCorrect`, `CallsAreOwn`, `CallsAreRouted` | |
| `TenantSystemProofs` | `TypeCorrect`, `PartsKeepTheirPromises`, `MisroutedAreRefused`, `GoneForGood`, `WritersAreRefined`, `OldKeysStayDead`, `DestroyedUnderMark`, `DeletedHaveNoInstance` | `DeletedHaveNoInstance`: `Thorough` |
| `RailwayProofs` | `TypeCorrect`, `NoneHalfConfigured`, `ReadyMeansComplete` | the last two: `NoRefusal` |

The named assumptions (`StorageAssumption`, `DeployerAssumption`,
`ProvisioningAssumption`, ...) say that null values are not values, that outcomes
are among the known ones, that capacities are positive; the runs evaluate them.
The premises mark where the code itself breaks the property: `ReturnsAPIKey` holds of
the Yandex deployer, whereas the Railway deployer leaves `Application.APIKey` empty
and `provisionTenantServices` then empties the row's key. `Reliable` adds that the
database answers, "yc ... delete" does not fail outright, clients wait and the
process goes on; deployments may still fail in every way. It is what
`provisioning_settles` assumes, without its bounds. The others are in section 4.

Each module has the same shape: an invariant `IInv`, an `InitIInv` lemma, lemmas
that say once what an operator does to a typed state, a step lemma per action (or
per conjunct), the inductive theorem, and the theorems by PTL. What makes each
property inductive is the part worth reading:

* *Provisioning*. `ExclusiveOwnership` needs that a pointer in the queue or in
  somebody's hands names a row that exists: only then does a new insert, which
  draws an id without a row, give it to nobody twice. `KeyOwnership` needs that
  the row `updateTenantStatus` holds between its read and its write carries the
  tenant's own key, and that rows in flight are not the empty row, which an
  UPDATE would turn into an absent one. `IInv == TypeOK /\ PointersAreStored /\
  ExclusiveOwnership /\ KeyOwnership /\ SeenIsOwn`.
* *Provisioning as a lifecycle*. `LInv` adds what each step knows of its tenant
  (`Good`): the pointer has the key of a row that is not settled yet; from
  "address" on the machine runs with this key, and from "wait" on its address is
  the one about to be published; the row read by `updateTenantStatus` is still the
  row when it is written back. All of it rests on `ExclusiveOwnership`: nobody else
  touches the row or the machine meanwhile. Every step is then one of five changes
  of the table and the cloud (`StepChanges`), and each of these is an action of
  `TenantLifecycle`. `RInv` then follows the three properties tenant by tenant
  (`Kept`): an actor that lets go of a tenant has settled its row, because a write
  of the row's own key is never refused (`NotRefused`), and at the steps `Bare` its
  tenant has no machine.
* *Accounts*. A session stays with its account because ids and tokens are drawn
  once (`StoredIsDrawn`), because an account whose token exists exists
  (`SessionHasUser`, the foreign key), and because the id a signup carries is
  nobody else's (`NewIdIsOwn`); `RequestsRely` says what a request's copies still
  have to do with the tables after a logout, a deletion or another signup.
* *AdminApi*. `RowsAreReal` (no copy is the empty row), `DeletedIsDown` (a copy of
  a deleted row, and a DELETE past its cleanup, belong to a tenant without a
  machine, which is why writing such a copy back is harmless).
* *RateLimiter*. Each bucket is `Sound`: its times are in order and what it gave
  and still has is at most its burst and what the clock has earned it; the
  truncated divisions only lose. `HeldForTenant` ties a caller's pointer to its
  bucket after the map has forgotten it.
  `TenantBound` is a sum over all the buckets a tenant ever had, which no formula of
  the state lists. `Covered` is its ledger: what was admitted, plus what the bucket
  in the map is still worth, plus one request for each caller that holds a bucket the
  map has forgotten, stays within the bound. A call moves an amount from one
  column to another, a cleanup replaces a bucket that has earned its successor
  (`StaleEarns`), a `Reset` is booked as one.
* *HealthCheck*. `MarkIsDue`: a check about to write has reached the threshold, or
  its success has just cleared the counter; `BatchEndsWithService`: once the
  service's context is done, so is the batch's, and a write under it changes a row
  only if it was in flight (`late`).
* *Proxy*. `TenantIsRight` relates a tenant's row, the pool's entry, the addresses
  it had and the moves of its address; `CallIsRight` relates what a call read at its
  authentication to what it is about to dial. Nothing is assumed of the writers but
  TableWriters.
* *TenantSystem*. The steps of the worker and of a request are those of
  Provisioning, and of a check those of HealthCheck, so their proofs are taken as
  instances (`PP`, `HP`): the part's `IInv` survives its own steps. Left to prove is
  what a part keeps of the others' invariants, and that needs only what a step may
  do to what is shared: `TableKeeps` (no row vanishes, a row's key stays its
  tenant's, a key keeps its owner), `AdminTurn`, `HealthTurn` and, in
  ProvisioningProofs, `Turn`. `SInv` joins the parts' invariants with two facts none of them
  needs alone: an instance, and whoever waits for one, has a key
  (`InstancesHaveKeys`, which makes `MisroutedIsRefused` a consequence of
  key ownership), and the copies of the handlers and of the checks carry their
  own tenant's key. `GoneStays` then holds because only an insert makes a
  tenant wait, and an insert draws an id without a row. `DInv` strengthens
  `DeletedHasNoInstance` to "deleted rows are `Gone`", which the stale copies
  cannot undo, and says who is about to mark a row deleted: a rollback after
  its cleanup, a DELETE after its own (`CreatorsKnow`, `HandlersKnow`), or a
  copy of a row that already was. `ImplementsWriters` goes writer by writer: each
  UPDATE stores a copy, and `SInv` says that every copy has a key drawn for its own
  tenant. `OldKeyInvalid` follows from what a step may put into a copy: a row of the
  table, another copy, or a key nobody was given before (`Available`); a key
  that is drawn and held by nobody is none of these. `MarkInv` strengthens
  `DestroyedWhileMarked`: a handler in `alone` is at work and shares its tenant with
  nobody, a copy about to be written as the mark says "deleting", and the rows
  handlers work on stay stored; a step that writes another status over the mark
  belongs to somebody whose presence takes the handler out of `alone`.
* *Railway*. `Knows`: what a deployment was answered still exists, is of its tenant
  and of the right kind, and from "wait" on the application is configured with
  exactly these; ids are drawn once, so no other deployment touches them.

Two premises need a word. `StaleEarns` says that the period after which a bucket is
deleted earns at least the burst of its successor and one request for every caller
at work. `Cleanup` deletes after ten of its intervals; nothing in the program starts
it yet, but with the defaults (100 per 60 s, burst 10) and an interval of a minute,
say, a stale bucket has earned 1000, which allows for 990 concurrent calls. With a
shorter period a tenant really would gain by the deletion. `Thorough` names the two
places where the code does leave a machine behind a deleted row (section 4).

Only model-checked: the liveness properties (`QueuedSettles`, `RequestAnswered`,
`NeverBlocked`, `DownIsMarked`, `UpIsRestored`, `ZombieIsFound`, `DeployEnds`), because
fairness and ENABLED are outside the prover's reach. The two violations are TLC's too.

## 6. Not modelled, and what could come next

Next: abstract specifications for the parts that have none (what a bucket, a session
and a pooled connection promise), each refined by its module.

Left out for good: configuration parsing, DTOs, logging, the cloud-config text and
temporary files, static pages, dashboards, metrics, and the random string
generator: they are pure I/O or wording. The unary interceptors repeat the stream
chain for services registered on the proxy itself; the only one is gRPC reflection
(`cmd/proxy/main.go:157`), whose streams pass the same interceptors and never reach the director.
`RailwayDeployer` matches services by tenant where `GetStatus` uses
`strings.Contains` on the name; ids carry a UUID, so no id contains another.
`CreateProject`, `DeleteProject` and `CheckServicesHealth` of the Railway client, a
second `Start` while an old loop is still stopping, and the statistics of the
request log have no caller or change nothing the properties name. The
half-serialised JSON that may result from the handler reading the tenant it has
just handed to the worker carries no state.
