---------------------------- MODULE RateLimiter ----------------------------
(***************************************************************************)
(* ratelimit.Limiter: a token bucket per tenant.  Allow is two critical    *)
(* sections, one under the mutex of the map (find or create the bucket)    *)
(* and one under the mutex of the bucket (refill, take a token); Reset and *)
(* cleanupStale may delete the bucket from the map between the two, and a  *)
(* caller that holds it goes on using it.                                  *)
(*                                                                         *)
(* Time is counted in ticks, TicksPerSecond of them to a second, because   *)
(* the refill counts whole seconds only.                                   *)
(***************************************************************************)
EXTENDS Naturals, FiniteSets

CONSTANTS
    Tenants, Callers, \* callers are goroutines that serve gRPC streams
    Buckets,          \* tenantLimiter objects
    Rps, Window,      \* rps tokens every WINDOW of so many seconds, although
                      \* the field is documented as "Requests per second"
    Burst,            \* tokens of a new bucket
    StaleAfter,       \* staleDuration of cleanupStale, in ticks
    TicksPerSecond,
    MaxTime,          \* bound: the clock stops here
    MaxResets,        \* bound: Reset is called so often per tenant
    NoBucket, NoTenant

ASSUME LimiterAssumption ==
    /\ Rps \in Nat \ {0} /\ Window \in Nat \ {0} /\ Burst \in Nat
    /\ StaleAfter \in Nat /\ TicksPerSecond \in Nat \ {0} /\ MaxTime \in Nat
    /\ MaxResets \in Nat
    /\ NoBucket \notin Buckets /\ NoTenant \notin Tenants
    /\ IsFiniteSet(Callers)

VARIABLES
    now,              \* the clock
    limiters,         \* the map: the bucket of every tenant, or NoBucket
    bucket,           \* the objects
    held,             \* the pointer every caller got from getTenantLimiter
    admitted,         \* history: requests admitted for every tenant
    resets            \* history: buckets of every tenant that Reset dropped

vars == <<now, limiters, bucket, held, admitted, resets>>

(* since and spent are history: when the object was created and how many   *)
(* requests it admitted.                                                   *)
Bucket == [tokens : Nat, lastRefill : Nat, since : Nat, spent : Nat]

TypeOK ==
    /\ now \in 0 .. MaxTime
    /\ limiters \in [Tenants -> Buckets \cup {NoBucket}]
    /\ bucket \in [Buckets -> Bucket]
    /\ held \in [Callers -> [tenant : Tenants \cup {NoTenant},
                             limiter : Buckets \cup {NoBucket}]]
    /\ admitted \in [Tenants -> Nat]
    /\ resets \in [Tenants -> 0 .. MaxResets]

Nothing    == [tenant |-> NoTenant, limiter |-> NoBucket]
NewLimiter == [tokens |-> Burst, lastRefill |-> now, since |-> now,
               spent |-> 0]

InMap(b) == \E t \in Tenants : limiters[t] = b
Held(b)  == \E c \in Callers : held[c].limiter = b
Unused   == {b \in Buckets : ~InMap(b) /\ ~Held(b)}

Init ==
    /\ now = 0
    /\ limiters = [t \in Tenants |-> NoBucket]
    /\ bucket = [b \in Buckets |-> NewLimiter]
    /\ held = [c \in Callers |-> Nothing]
    /\ admitted = [t \in Tenants |-> 0]
    /\ resets = [t \in Tenants |-> 0]

----------------------------------------------------------------------------
(* The first half of Allow. *)
GetTenantLimiter(c, t) ==
    /\ held[c] = Nothing
    /\ \/ /\ limiters[t] # NoBucket
          /\ held' = [held EXCEPT ![c] = [tenant |-> t, limiter |-> limiters[t]]]
          /\ UNCHANGED <<limiters, bucket>>
       \/ /\ limiters[t] = NoBucket
          /\ \E b \in Unused :
               /\ limiters' = [limiters EXCEPT ![t] = b]
               /\ bucket' = [bucket EXCEPT ![b] = NewLimiter]
               /\ held' = [held EXCEPT ![c] = [tenant |-> t, limiter |-> b]]
    /\ UNCHANGED <<now, admitted, resets>>

(* Mutant: a part of a second counts as a whole one. *)
TokensToAddMutant(b) ==
    (((now - bucket[b].lastRefill + TicksPerSecond - 1) \div TicksPerSecond)
        * Rps) \div Window

TokensToAdd(b) ==
    (((now - bucket[b].lastRefill) \div TicksPerSecond) * Rps) \div Window

(* What a bucket holds when it is asked: nothing limits it to Burst. *)
Refilled(b) ==
    IF TokensToAdd(b) > 0
    THEN [bucket[b] EXCEPT !.tokens = @ + TokensToAdd(b), !.lastRefill = now]
    ELSE bucket[b]

HasTokenMutant(b) == TRUE
HasToken(b)       == Refilled(b).tokens > 0

(* The second half: tenantLimiter.allow. *)
Allow(c) ==
    LET b == held[c].limiter
        t == held[c].tenant IN
    /\ held[c] # Nothing
    /\ \/ /\ HasToken(b)
          /\ bucket' = [bucket EXCEPT ![b] = [Refilled(b) EXCEPT !.tokens = @ - 1,
                                                                 !.spent = @ + 1]]
          /\ admitted' = [admitted EXCEPT ![t] = @ + 1]
       \/ /\ ~HasToken(b)
          /\ bucket' = [bucket EXCEPT ![b] = Refilled(b)]
          /\ UNCHANGED admitted
    /\ held' = [held EXCEPT ![c] = Nothing]
    /\ UNCHANGED <<now, limiters, resets>>

----------------------------------------------------------------------------
Reset(t) ==
    /\ resets[t] < MaxResets
    /\ limiters[t] # NoBucket
    /\ limiters' = [limiters EXCEPT ![t] = NoBucket]
    /\ resets' = [resets EXCEPT ![t] = @ + 1]
    /\ UNCHANGED <<now, bucket, held, admitted>>

StaleMutant(b) == now - bucket[b].lastRefill >= TicksPerSecond
Stale(b)       == now - bucket[b].lastRefill > StaleAfter

(* Every ticker interval cleanupStale walks the whole map. *)
CleanupStale ==
    /\ \E t \in Tenants : limiters[t] # NoBucket /\ Stale(limiters[t])
    /\ limiters' = [t \in Tenants |->
                      IF limiters[t] # NoBucket /\ Stale(limiters[t])
                      THEN NoBucket ELSE limiters[t]]
    /\ UNCHANGED <<now, bucket, held, admitted, resets>>

Tick ==
    /\ now < MaxTime
    /\ now' = now + 1
    /\ UNCHANGED <<limiters, bucket, held, admitted, resets>>

Next ==
    \/ \E c \in Callers : Allow(c) \/ \E t \in Tenants : GetTenantLimiter(c, t)
    \/ \E t \in Tenants : Reset(t)
    \/ CleanupStale
    \/ Tick

Spec == Init /\ [][Next]_vars

----------------------------------------------------------------------------
(* Safety *)

(* "rps tokens every window" in a form without division. *)
Earned(from, to) == Rps * (to - from)
Cost(requests)   == requests * Window * TicksPerSecond

(* What a bucket admitted and still holds never exceeds its burst and what *)
(* the rate earned up to its last refill: truncating seconds and tokens    *)
(* only ever loses tokens, whoever calls in between.                       *)
BucketBound ==
    \A b \in Buckets :
        Cost(bucket[b].spent + bucket[b].tokens)
            <= Cost(Burst) + Earned(bucket[b].since, bucket[b].lastRefill)

(* When the stale time earns a burst and a token for every caller, to      *)
(* delete an idle bucket gains a tenant nothing, and a Reset gains it one  *)
(* burst and one request for every caller that holds the old bucket: over  *)
(* all the buckets of a tenant, those in use after their deletion          *)
(* included, there is nothing more to get.                                 *)
ResetGain == Burst + Cardinality(Callers)

TenantBound ==
    \A t \in Tenants :
        Cost(admitted[t]) <= Cost(Burst + resets[t] * ResetGain) + Earned(0, now)
=============================================================================
