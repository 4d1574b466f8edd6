------------------------- MODULE RateLimiterProofs -------------------------
(***************************************************************************)
(* No bucket gives more than its burst and its rate, for any burst, rate,  *)
(* window and resolution of the clock, any number of tenants, callers and  *)
(* buckets, and however long the program runs; and no tenant gains by the  *)
(* deletion of the bucket it uses.                                         *)
(***************************************************************************)
EXTENDS RateLimiter, Integers, FiniteSetTheorems, TLAPS

(* A bucket whose times are in order and whose tokens were all earned. *)
Sound(r) ==
    /\ r.since <= r.lastRefill
    /\ r.lastRefill <= now
    /\ Cost(r.spent + r.tokens) <= Cost(Burst) + Earned(r.since, r.lastRefill)

(* A caller that holds a bucket holds it for a tenant. *)
HeldForTenant ==
    \A c \in Callers :
        held[c] # Nothing => /\ held[c].tenant \in Tenants
                             /\ held[c].limiter \in Buckets

IInv == TypeOK /\ HeldForTenant /\ \A b \in Buckets : Sound(bucket[b])

----------------------------------------------------------------------------
(* Truncation loses tokens and never makes any. *)

LEMMA Quotient ==
  ASSUME NEW x \in Nat, NEW n \in Nat \ {0}
  PROVE  x \div n \in Nat /\ (x \div n) * n <= x
OBVIOUS

LEMMA Scale ==
  ASSUME NEW x \in Nat, NEW y \in Nat, NEW n \in Nat, x <= y
  PROVE  x * n <= y * n /\ x * n \in Nat /\ y * n \in Nat
OBVIOUS

LEMMA Truncated ==
  ASSUME NEW d \in Nat
  PROVE  LET k == ((d \div TicksPerSecond) * Rps) \div Window IN
         k \in Nat /\ Cost(k) <= Rps * d
<1> DEFINE q == d \div TicksPerSecond
           p == q * Rps
           k == p \div Window
<1> USE LimiterAssumption
<1>1. q \in Nat /\ q * TicksPerSecond <= d
  BY Quotient
<1>2. p \in Nat
  BY <1>1
<1>3. k \in Nat /\ k * Window <= p
  BY <1>2, Quotient
<1> HIDE DEF q, p, k
<1>4. (k * Window) * TicksPerSecond <= p * TicksPerSecond
  BY <1>2, <1>3, Scale
<1>5. p * TicksPerSecond = (q * TicksPerSecond) * Rps
  BY <1>1 DEF p
<1>6. (q * TicksPerSecond) * Rps <= d * Rps
  BY <1>1, Scale
<1>7. Cost(k) <= Rps * d
  BY <1>1, <1>2, <1>3, <1>4, <1>5, <1>6 DEF Cost
<1> QED
  BY <1>3, <1>7 DEF k, p, q

----------------------------------------------------------------------------
(* What the three kinds of writes to a bucket keep. *)

LEMMA NewIsSound ==
  ASSUME TypeOK
  PROVE  NewLimiter \in Bucket /\ Sound(NewLimiter)
<1>1. now \in Nat /\ Burst \in Nat
  BY LimiterAssumption DEF TypeOK
<1>2. NewLimiter \in Bucket
  BY <1>1 DEF NewLimiter, Bucket
<1>3. Earned(now, now) = 0
  BY <1>1, LimiterAssumption DEF Earned
<1>4. Cost(0 + Burst) = Cost(Burst) /\ Cost(Burst) \in Nat
  BY LimiterAssumption DEF Cost
<1> QED
  BY <1>1, <1>2, <1>3, <1>4 DEF NewLimiter, Sound

LEMMA RefilledIsSound ==
  ASSUME TypeOK, NEW b \in Buckets, Sound(bucket[b])
  PROVE  Refilled(b) \in Bucket /\ Sound(Refilled(b))
<1> DEFINE r == bucket[b]
           k == TokensToAdd(b)
<1>1. r \in Bucket /\ now \in Nat
  BY LimiterAssumption DEF TypeOK
<1>2. /\ r.tokens \in Nat /\ r.lastRefill \in Nat
      /\ r.since \in Nat /\ r.spent \in Nat
  BY <1>1 DEF Bucket
<1>3. r.since <= r.lastRefill /\ r.lastRefill <= now
  BY DEF Sound
<1>4. now - r.lastRefill \in Nat
  BY <1>1, <1>2, <1>3
<1>5. k \in Nat /\ Cost(k) <= Rps * (now - r.lastRefill)
  BY <1>4, Truncated DEF TokensToAdd
<1>6. CASE ~(k > 0)
  BY <1>1, <1>6 DEF Refilled
<1>7. CASE k > 0
  <2>1. Refilled(b) = [r EXCEPT !.tokens = r.tokens + k, !.lastRefill = now]
    BY <1>7 DEF Refilled
  <2>2. Refilled(b) = [tokens |-> r.tokens + k, lastRefill |-> now,
                       since |-> r.since, spent |-> r.spent]
    BY <1>1, <2>1 DEF Bucket
  <2> HIDE DEF r, k
  <2>3. Refilled(b) \in Bucket
    BY <1>1, <1>2, <1>5, <2>2 DEF Bucket
  <2>4. Cost(r.spent + (r.tokens + k)) = Cost(r.spent + r.tokens) + Cost(k)
    BY <1>2, <1>5, LimiterAssumption DEF Cost
  <2>5. Earned(r.since, now)
          = Earned(r.since, r.lastRefill) + Rps * (now - r.lastRefill)
    BY <1>1, <1>2, LimiterAssumption DEF Earned
  <2>6. Cost(r.spent + r.tokens) <= Cost(Burst) + Earned(r.since, r.lastRefill)
    BY DEF Sound, r
  <2>7. /\ Cost(r.spent + r.tokens) \in Int /\ Cost(k) \in Int
        /\ Cost(Burst) \in Int /\ Earned(r.since, r.lastRefill) \in Int
        /\ Rps * (now - r.lastRefill) \in Int
    BY <1>1, <1>2, <1>5, LimiterAssumption DEF Cost, Earned
  <2>8. Cost(r.spent + (r.tokens + k)) <= Cost(Burst) + Earned(r.since, now)
    BY <1>5, <2>4, <2>5, <2>6, <2>7
  <2> QED
    BY <1>1, <1>2, <1>3, <2>2, <2>3, <2>8 DEF Sound
<1> QED
  BY <1>5, <1>6, <1>7

LEMMA SpentIsSound ==
  ASSUME NEW r \in Bucket, Sound(r), r.tokens > 0
  PROVE  LET s == [r EXCEPT !.tokens = @ - 1, !.spent = @ + 1] IN
         s \in Bucket /\ Sound(s)
<1> DEFINE s == [r EXCEPT !.tokens = @ - 1, !.spent = @ + 1]
<1>1. r.tokens \in Nat /\ r.spent \in Nat /\ r.tokens - 1 \in Nat
  BY DEF Bucket
<1>2. s = [tokens |-> r.tokens - 1, lastRefill |-> r.lastRefill,
           since |-> r.since, spent |-> r.spent + 1]
  <2>1. PICK n \in Nat, l \in Nat, i \in Nat, m \in Nat :
           r = [tokens |-> n, lastRefill |-> l, since |-> i, spent |-> m]
    BY DEF Bucket
  <2>2. s = [[r EXCEPT !.tokens = n - 1] EXCEPT !.spent = m + 1]
    BY <2>1
  <2>3. [r EXCEPT !.tokens = n - 1]
          = [tokens |-> n - 1, lastRefill |-> l, since |-> i, spent |-> m]
    BY <2>1
  <2> HIDE DEF s
  <2>4. s = [tokens |-> n - 1, lastRefill |-> l, since |-> i, spent |-> m + 1]
    <3> DEFINE p == [tokens |-> n - 1, lastRefill |-> l, since |-> i, spent |-> m]
    <3>1. s = [p EXCEPT !.spent = m + 1]
      BY <2>2, <2>3
    <3> QED
      BY ONLY <3>1
  <2>5. r.tokens = n /\ r.lastRefill = l /\ r.since = i /\ r.spent = m
    BY <2>1
  <2> QED
    BY <2>4, <2>5
<1> HIDE DEF s
<1>3. s \in Bucket
  BY <1>1, <1>2 DEF Bucket
<1>4. s.spent + s.tokens = r.spent + r.tokens
  BY <1>1, <1>2
<1> QED
  BY <1>2, <1>3, <1>4 DEF Sound, s

(* A bucket stays sound when only time passes. *)
LEMMA SoundLater ==
  ASSUME NEW r \in Bucket, Sound(r), now \in Nat, now' \in Nat, now <= now'
  PROVE  Sound(r)'
<1>1. r.lastRefill \in Nat
  BY DEF Bucket
<1> QED
  BY <1>1 DEF Sound, Cost, Earned

----------------------------------------------------------------------------
LEMMA InitIInv == Init => IInv
<1> SUFFICES ASSUME Init PROVE IInv
  OBVIOUS
<1> USE LimiterAssumption
<1>1. now = 0 /\ NewLimiter = [tokens |-> Burst, lastRefill |-> 0,
                               since |-> 0, spent |-> 0]
  BY DEF Init, NewLimiter
<1>2. NewLimiter \in Bucket
  BY <1>1 DEF Bucket
<1>3. TypeOK
  BY <1>2 DEF Init, TypeOK, Nothing
<1>4. HeldForTenant
  BY DEF Init, HeldForTenant
<1>5. \A b \in Buckets : Sound(bucket[b])
  BY <1>3, NewIsSound DEF Init
<1> QED
  BY <1>3, <1>4, <1>5 DEF IInv

LEMMA GetTenantLimiterStep ==
  ASSUME IInv, NEW c \in Callers, NEW t \in Tenants, GetTenantLimiter(c, t)
  PROVE  IInv'
<1> USE LimiterAssumption
<1>1. TypeOK /\ HeldForTenant /\ \A b \in Buckets : Sound(bucket[b])
  BY DEF IInv
<1>2. now' = now /\ admitted' = admitted /\ resets' = resets
  BY DEF GetTenantLimiter
<1>3. PICK b \in Buckets :
         /\ held' = [held EXCEPT ![c] = [tenant |-> t, limiter |-> b]]
         /\ \/ limiters' = limiters /\ bucket' = bucket
            \/ /\ limiters' = [limiters EXCEPT ![t] = b]
               /\ bucket' = [bucket EXCEPT ![b] = NewLimiter]
  <2>1. CASE limiters[t] # NoBucket
    BY <1>1, <2>1 DEF GetTenantLimiter, TypeOK
  <2>2. CASE limiters[t] = NoBucket
    BY <2>2 DEF GetTenantLimiter, Unused
  <2> QED
    BY <2>1, <2>2
<1>4. NewLimiter \in Bucket /\ Sound(NewLimiter)
  BY <1>1, NewIsSound
<1>5. TypeOK'
  BY <1>1, <1>2, <1>3, <1>4 DEF TypeOK
<1>6. HeldForTenant'
  BY <1>1, <1>3 DEF HeldForTenant, TypeOK
<1>7. \A d \in Buckets : Sound(bucket'[d])
  BY <1>1, <1>3, <1>4 DEF TypeOK
<1>8. \A r : Sound(r) => Sound(r)'
  BY <1>2 DEF Sound, Cost, Earned
<1>9. (\A d \in Buckets : Sound(bucket[d]))'
  BY <1>2, <1>7 DEF Sound, Cost, Earned
<1> QED
  BY <1>5, <1>6, <1>9 DEF IInv

LEMMA AllowStep ==
  ASSUME IInv, NEW c \in Callers, Allow(c)
  PROVE  IInv'
<1> USE LimiterAssumption
<1>1. TypeOK /\ HeldForTenant /\ \A b \in Buckets : Sound(bucket[b])
  BY DEF IInv
<1>2. now' = now /\ limiters' = limiters /\ resets' = resets
      /\ held' = [held EXCEPT ![c] = Nothing]
  BY DEF Allow
<1>3. PICK b \in Buckets, t \in Tenants :
         b = held[c].limiter /\ t = held[c].tenant
  BY <1>1 DEF Allow, HeldForTenant
<1>4. Refilled(b) \in Bucket /\ Sound(Refilled(b))
  BY <1>1, RefilledIsSound
<1>5. PICK r \in Bucket :
         Sound(r) /\ bucket' = [bucket EXCEPT ![b] = r]
  <2>1. CASE HasToken(b)
    <3>1. bucket' = [bucket EXCEPT ![b] =
                      [Refilled(b) EXCEPT !.tokens = @ - 1, !.spent = @ + 1]]
      BY <1>3, <2>1 DEF Allow
    <3> QED
      BY <1>4, <2>1, <3>1, SpentIsSound DEF HasToken
  <2>2. CASE ~HasToken(b)
    BY <1>3, <1>4, <2>2 DEF Allow
  <2> QED
    BY <2>1, <2>2
<1>6. admitted' \in [Tenants -> Nat]
  BY <1>1, <1>3 DEF Allow, TypeOK
<1>7. TypeOK'
  BY <1>1, <1>2, <1>5, <1>6 DEF TypeOK, Nothing
<1>8. HeldForTenant'
  BY <1>1, <1>2 DEF HeldForTenant, TypeOK
<1>9. (\A d \in Buckets : Sound(bucket[d]))'
  BY <1>1, <1>2, <1>5 DEF TypeOK, Sound, Cost, Earned
<1> QED
  BY <1>7, <1>8, <1>9 DEF IInv

LEMMA ResetStep ==
  ASSUME IInv, NEW t \in Tenants, Reset(t)
  PROVE  IInv'
<1> USE LimiterAssumption
<1>1. TypeOK'
  BY DEF IInv, TypeOK, Reset
<1>2. HeldForTenant'
  BY DEF IInv, HeldForTenant, Reset, Nothing
<1>3. (\A b \in Buckets : Sound(bucket[b]))'
  BY DEF IInv, Sound, Cost, Earned, Reset
<1> QED
  BY <1>1, <1>2, <1>3 DEF IInv

LEMMA CleanupStep ==
  ASSUME IInv, CleanupStale
  PROVE  IInv'
<1> USE LimiterAssumption
<1>1. TypeOK'
  BY DEF IInv, TypeOK, CleanupStale
<1>2. HeldForTenant'
  BY DEF IInv, HeldForTenant, CleanupStale, Nothing
<1>3. (\A b \in Buckets : Sound(bucket[b]))'
  BY DEF IInv, Sound, Cost, Earned, CleanupStale
<1> QED
  BY <1>1, <1>2, <1>3 DEF IInv

LEMMA TickStep ==
  ASSUME IInv, Tick
  PROVE  IInv'
<1> USE LimiterAssumption
<1>1. TypeOK'
  BY DEF IInv, TypeOK, Tick
<1>2. HeldForTenant'
  BY DEF IInv, HeldForTenant, Tick, Nothing
<1>3. now \in Nat /\ now' \in Nat /\ now <= now' /\ bucket' = bucket
      /\ \A b \in Buckets : bucket[b] \in Bucket
  BY DEF IInv, TypeOK, Tick
<1>4. ASSUME NEW b \in Buckets PROVE Sound(bucket[b])'
  <2>1. PICK r \in Bucket : r = bucket[b] /\ r = bucket'[b]
    BY <1>3
  <2>2. Sound(r)
    BY <2>1 DEF IInv
  <2>3. Sound(r)'
    BY <1>3, <2>2, SoundLater
  <2> QED
    BY <2>1, <2>3 DEF Sound
<1> QED
  BY <1>1, <1>2, <1>4 DEF IInv

LEMMA Inductive == IInv /\ [Next]_vars => IInv'
<1> SUFFICES ASSUME IInv, [Next]_vars PROVE IInv'
  OBVIOUS
<1>1. ASSUME NEW c \in Callers, Allow(c) PROVE IInv'
  BY <1>1, AllowStep
<1>2. ASSUME NEW c \in Callers, NEW t \in Tenants, GetTenantLimiter(c, t)
      PROVE  IInv'
  BY <1>2, GetTenantLimiterStep
<1>3. ASSUME NEW t \in Tenants, Reset(t) PROVE IInv'
  BY <1>3, ResetStep
<1>4. CASE CleanupStale
  BY <1>4, CleanupStep
<1>5. CASE Tick
  BY <1>5, TickStep
<1>6. CASE UNCHANGED vars
  BY <1>6 DEF vars, IInv, TypeOK, HeldForTenant, Nothing, Sound, Cost, Earned
<1> QED
  BY <1>1, <1>2, <1>3, <1>4, <1>5, <1>6 DEF Next

----------------------------------------------------------------------------
(* Types: the map, the buckets and what callers hold keep their types, and *)
(* no number of tokens or of requests ever gets negative.                  *)
THEOREM TypeCorrect == Spec => []TypeOK
<1>1. IInv => TypeOK
  BY DEF IInv
<1> QED
  BY <1>1, InitIInv, Inductive, PTL DEF Spec

(* Allow admits no more than the burst and the rate, bucket by bucket: the *)
(* truncated seconds and tokens are lost, never made.                      *)
THEOREM BucketsAreBounded == Spec => []BucketBound
<1>1. IInv => BucketBound
  BY DEF IInv, Sound, BucketBound
<1> QED
  BY <1>1, InitIInv, Inductive, PTL DEF Spec

----------------------------------------------------------------------------
(* Over all the buckets of a tenant.  The ledger of a tenant: what it was  *)
(* admitted, what its bucket is worth now and one request for every caller *)
(* that still holds a bucket deleted from the map.                         *)
Worth(r, time) == Cost(r.tokens) + Rps * (time - r.lastRefill)

Credit(t) == IF limiters[t] = NoBucket THEN Cost(Burst)
             ELSE Worth(bucket[limiters[t]], now)

Detached(t) == {c \in Callers : held[c].tenant = t
                                  /\ held[c].limiter # limiters[t]}

Balance(requests, credit, late, dropped, time) ==
    Cost(requests) + credit + Cost(late)
        <= Cost(Burst + dropped * ResetGain) + Rps * time

Covered(t) == Balance(admitted[t], Credit(t), Cardinality(Detached(t)),
                      resets[t], now)

(* A bucket of the map belongs to one tenant, for whoever holds it.        *)
Mapped ==
    \A t \in Tenants : limiters[t] # NoBucket =>
        /\ \A u \in Tenants : limiters[u] = limiters[t] => u = t
        /\ \A c \in Callers : held[c].limiter = limiters[t] => held[c].tenant = t

LedgerInv == IInv /\ Mapped /\ \A t \in Tenants : Covered(t)

(* The premise of the bound: a bucket that cleanupStale deletes has earned *)
(* a new burst and a request for every caller.                             *)
StaleEarns == Cost(Burst + Cardinality(Callers)) <= Rps * (StaleAfter + 1)

----------------------------------------------------------------------------
LEMMA CostAdds ==
  ASSUME NEW m \in Nat, NEW n \in Nat
  PROVE  Cost(m) \in Nat /\ Cost(n) \in Nat /\ Cost(m + n) = Cost(m) + Cost(n)
BY LimiterAssumption DEF Cost

LEMMA CostGrows ==
  ASSUME NEW m \in Nat, NEW n \in Nat, m <= n
  PROVE  Cost(m) <= Cost(n)
<1>1. n - m \in Nat /\ n = m + (n - m)
  OBVIOUS
<1>2. PICK d \in Nat : n = m + d
  BY <1>1
<1>3. Cost(m) \in Nat /\ Cost(d) \in Nat /\ Cost(m + d) = Cost(m) + Cost(d)
  BY <1>2, CostAdds
<1> QED
  BY <1>2, <1>3

LEMMA CallersCount ==
  ASSUME NEW S \in SUBSET Callers
  PROVE  /\ IsFiniteSet(S)
         /\ Cardinality(S) \in Nat
         /\ Cardinality(S) <= Cardinality(Callers)
         /\ Cardinality(Callers) \in Nat
         /\ ResetGain \in Nat
BY FS_Subset, FS_CardinalityType, LimiterAssumption DEF ResetGain

(* A bucket is worth no more after a refill than before. *)
LEMMA RefillIsPaid ==
  ASSUME TypeOK, NEW b \in Buckets, Sound(bucket[b])
  PROVE  Worth(Refilled(b), now) <= Worth(bucket[b], now)
<1> DEFINE r == bucket[b]
           k == TokensToAdd(b)
<1>1. r \in Bucket /\ now \in Nat
  BY LimiterAssumption DEF TypeOK
<1>2. r.tokens \in Nat /\ r.lastRefill \in Nat /\ r.lastRefill <= now
  BY <1>1 DEF Bucket, Sound
<1>3. now - r.lastRefill \in Nat
  BY <1>1, <1>2
<1>4. k \in Nat /\ Cost(k) <= Rps * (now - r.lastRefill)
  BY <1>3, Truncated DEF TokensToAdd
<1>5. CASE ~(k > 0)
  <2>1. Worth(r, now) \in Int
    BY <1>1, <1>2, LimiterAssumption DEF Worth, Cost
  <2> QED
    BY <1>5, <2>1 DEF Refilled
<1>6. CASE k > 0
  <2>1. Refilled(b).tokens = r.tokens + k /\ Refilled(b).lastRefill = now
    BY <1>1, <1>6 DEF Refilled, Bucket
  <2> HIDE DEF r, k
  <2>2. Worth(Refilled(b), now) = Cost(r.tokens + k) + Rps * (now - now)
    BY <2>1 DEF Worth
  <2>3. Rps * (now - now) = 0
    BY <1>1, LimiterAssumption
  <2>4. Cost(r.tokens + k) = Cost(r.tokens) + Cost(k) /\ Cost(r.tokens) \in Nat
        /\ Cost(k) \in Nat
    BY <1>2, <1>4, CostAdds
  <2>5. Worth(r, now) = Cost(r.tokens) + Rps * (now - r.lastRefill)
    BY DEF Worth
  <2>6. Rps * (now - r.lastRefill) \in Int
    BY <1>3, LimiterAssumption
  <2> QED
    BY <1>4, <2>2, <2>3, <2>4, <2>5, <2>6 DEF r
<1> QED
  BY <1>4, <1>5, <1>6

(* The credit of a tenant is a number, and never negative.                 *)
LEMMA WorthIsNat ==
  ASSUME NEW r \in Bucket, NEW time \in Nat, r.lastRefill <= time
  PROVE  Worth(r, time) \in Nat
<1>1. r.tokens \in Nat /\ r.lastRefill \in Nat /\ time - r.lastRefill \in Nat
  BY DEF Bucket
<1> QED
  BY <1>1, LimiterAssumption DEF Worth, Cost

LEMMA CreditIsNat ==
  ASSUME IInv, NEW t \in Tenants
  PROVE  Credit(t) \in Nat
<1>1. CASE limiters[t] = NoBucket
  BY <1>1, LimiterAssumption DEF Credit, Cost
<1>2. CASE limiters[t] # NoBucket
  <2>1. limiters[t] \in Buckets /\ now \in Nat
    BY <1>2 DEF IInv, TypeOK
  <2>2. bucket[limiters[t]] \in Bucket /\ bucket[limiters[t]].lastRefill <= now
    BY <2>1 DEF IInv, TypeOK, Sound
  <2> QED
    BY <1>2, <2>1, <2>2, WorthIsNat DEF Credit
<1> QED
  BY <1>1, <1>2

LEMMA LedgerNumbers ==
  ASSUME IInv, NEW t \in Tenants
  PROVE  \E a \in Nat, credit \in Nat, late \in Nat, dropped \in Nat, time \in Nat :
           /\ a = admitted[t] /\ credit = Credit(t)
           /\ late = Cardinality(Detached(t))
           /\ dropped = resets[t] /\ time = now
<1>1. Detached(t) \in SUBSET Callers
  BY DEF Detached
<1>2. Cardinality(Detached(t)) \in Nat
  BY <1>1, CallersCount
<1>3. admitted[t] \in Nat /\ resets[t] \in Nat /\ now \in Nat
  BY LimiterAssumption DEF IInv, TypeOK
<1>4. Credit(t) \in Nat
  BY CreditIsNat
<1> QED
  BY <1>2, <1>3, <1>4

(* The books still balance when no side of them gets worse.                *)
LEMMA BalanceKept ==
  ASSUME NEW a \in Nat, NEW credit \in Nat, NEW late \in Nat, NEW dropped \in Nat,
         NEW time \in Nat, Balance(a, credit, late, dropped, time),
         NEW a1 \in Nat, NEW credit1 \in Nat, NEW late1 \in Nat,
         Cost(a1) + credit1 + Cost(late1) <= Cost(a) + credit + Cost(late)
  PROVE  Balance(a1, credit1, late1, dropped, time)
<1>1. Cost(Burst + dropped * ResetGain) \in Int /\ Rps * time \in Int
  BY CallersCount, LimiterAssumption DEF Cost
<1>2. /\ Cost(a) \in Nat /\ Cost(a1) \in Nat /\ Cost(late) \in Nat
      /\ Cost(late1) \in Nat
  BY CostAdds
<1> QED
  BY <1>1, <1>2 DEF Balance

LEMMA GetTenantLimiterLedger ==
  ASSUME LedgerInv, NEW c \in Callers, NEW t \in Tenants, GetTenantLimiter(c, t)
  PROVE  LedgerInv'
<1> USE LimiterAssumption
<1>1. IInv /\ TypeOK /\ HeldForTenant /\ Mapped
  BY DEF LedgerInv, IInv
<1>2. IInv'
  BY <1>1, GetTenantLimiterStep
<1>3. /\ now' = now /\ admitted' = admitted /\ resets' = resets
      /\ held[c] = Nothing
  BY DEF GetTenantLimiter
<1>4. CASE limiters[t] # NoBucket
  <2>1. /\ limiters' = limiters /\ bucket' = bucket
        /\ held' = [held EXCEPT ![c] = [tenant |-> t, limiter |-> limiters[t]]]
    BY <1>4 DEF GetTenantLimiter
  <2>2. \A d \in Callers : held'[d] = IF d = c THEN [tenant |-> t, limiter |-> limiters[t]]
                                             ELSE held[d]
    BY <1>1, <2>1 DEF TypeOK
  <2>3. Mapped'
    BY <1>1, <1>4, <2>1, <2>2 DEF Mapped
  <2>4. ASSUME NEW u \in Tenants PROVE Covered(u)'
    <3>1. {d \in Callers : held'[d].tenant = u /\ held'[d].limiter # limiters'[u]}
            = Detached(u)
      BY <1>3, <2>1, <2>2 DEF Detached, Nothing
    <3>2. Covered(u)
      BY DEF LedgerInv
    <3> QED
      BY <1>3, <2>1, <3>1, <3>2 DEF Covered, Credit, Detached
  <2> QED
    BY <1>2, <2>3, <2>4 DEF LedgerInv
<1>5. CASE limiters[t] = NoBucket
  <2>1. PICK b \in Unused :
          /\ limiters' = [limiters EXCEPT ![t] = b]
          /\ bucket' = [bucket EXCEPT ![b] = NewLimiter]
          /\ held' = [held EXCEPT ![c] = [tenant |-> t, limiter |-> b]]
    BY <1>5 DEF GetTenantLimiter
  <2>2. /\ \A d \in Callers :
             held'[d] = IF d = c THEN [tenant |-> t, limiter |-> b] ELSE held[d]
        /\ \A u \in Tenants : limiters'[u] = IF u = t THEN b ELSE limiters[u]
        /\ \A e \in Buckets : bucket'[e] = IF e = b THEN NewLimiter ELSE bucket[e]
    BY <1>1, <2>1 DEF TypeOK
  <2>3. /\ b \in Buckets /\ b # NoBucket
        /\ \A u \in Tenants : limiters[u] # b
        /\ \A d \in Callers : held[d].limiter # b
    BY <2>1 DEF Unused, InMap, Held
  <2>4. Mapped'
    BY <1>1, <2>2, <2>3 DEF Mapped
  <2>5. ASSUME NEW u \in Tenants PROVE Covered(u)'
    <3>1. {d \in Callers : held'[d].tenant = u /\ held'[d].limiter # limiters'[u]}
            = Detached(u)
      BY <1>1, <1>3, <1>5, <2>2, <2>3 DEF Detached, Nothing, HeldForTenant
    <3>2. Credit(u)' = Credit(u)
      <4>1. CASE u = t
        <5>1. Worth(NewLimiter, now) = Cost(Burst) + Rps * (now - now)
          BY DEF Worth, NewLimiter
        <5>2. Rps * (now - now) = 0 /\ Cost(Burst) \in Nat
          BY <1>1 DEF TypeOK, Cost
        <5> QED
          BY <1>3, <1>5, <2>2, <2>3, <4>1, <5>1, <5>2 DEF Credit
      <4>2. CASE u # t
        BY <1>1, <1>3, <2>2, <2>3, <4>2 DEF Credit, TypeOK
      <4> QED
        BY <4>1, <4>2
    <3>3. Covered(u)
      BY DEF LedgerInv
    <3> QED
      BY <1>3, <3>1, <3>2, <3>3 DEF Covered, Credit, Detached
  <2> QED
    BY <1>2, <2>4, <2>5 DEF LedgerInv
<1> QED
  BY <1>4, <1>5

LEMMA ResetLedger ==
  ASSUME LedgerInv, NEW t \in Tenants, Reset(t)
  PROVE  LedgerInv'
<1> USE LimiterAssumption
<1>1. IInv /\ TypeOK /\ Mapped
  BY DEF LedgerInv, IInv
<1>2. IInv'
  BY <1>1, ResetStep
<1>3. /\ now' = now /\ admitted' = admitted /\ held' = held /\ bucket' = bucket
      /\ \A u \in Tenants :
           /\ limiters'[u] = IF u = t THEN NoBucket ELSE limiters[u]
           /\ resets'[u] = IF u = t THEN resets[u] + 1 ELSE resets[u]
  BY <1>1 DEF Reset, TypeOK
<1>4. Mapped'
  BY <1>1, <1>3 DEF Mapped
<1>5. ASSUME NEW u \in Tenants PROVE Covered(u)'
  <2>1. Covered(u)
    BY DEF LedgerInv
  <2>2. CASE u # t
    BY <1>3, <2>1, <2>2 DEF Covered, Credit, Detached
  <2>3. CASE u = t
    <3>1. PICK d1 \in Nat :
            /\ d1 <= Cardinality(Callers)
            /\ d1 = Cardinality({d \in Callers : held'[d].tenant = u
                                                  /\ held'[d].limiter # limiters'[u]})
      BY CallersCount
    <3>2. PICK a \in Nat, credit \in Nat, late \in Nat, dropped \in Nat, time \in Nat :
            /\ a = admitted[t] /\ credit = Credit(t)
            /\ late = Cardinality(Detached(t))
            /\ dropped = resets[t] /\ time = now
      BY <1>1, LedgerNumbers
    <3>3. Balance(a, credit, late, dropped, time)
      BY <2>1, <2>3, <3>2 DEF Covered
    <3>4. Balance(a, Cost(Burst), d1, dropped + 1, time)
      <4>1. PICK n \in Nat, g \in Nat : n = Cardinality(Callers) /\ g = ResetGain
                                          /\ g = Burst + n
        BY CallersCount DEF ResetGain
      <4>2. PICK x \in Nat : x = Burst + dropped * g
        BY <4>1
      <4>3. Burst + (dropped + 1) * g = x + g
        BY <4>1, <4>2
      <4>4. /\ Cost(x + g) = Cost(x) + Cost(g) /\ Cost(g) = Cost(Burst) + Cost(n)
            /\ Cost(x) \in Nat /\ Cost(n) \in Nat /\ Cost(Burst) \in Nat
        BY <4>1, <4>2, CostAdds
      <4>5. Cost(d1) <= Cost(n) /\ Cost(d1) \in Nat /\ Cost(late) \in Nat
            /\ Cost(a) \in Nat
        BY <3>1, <4>1, CostGrows, CostAdds
      <4>6. Rps * time \in Nat
        OBVIOUS
      <4>7. Cost(a) + credit + Cost(late) <= Cost(x) + Rps * time
        BY <3>3, <4>1, <4>2 DEF Balance
      <4>8. Cost(a) + Cost(Burst) + Cost(d1) <= Cost(x + g) + Rps * time
        BY <4>4, <4>5, <4>6, <4>7
      <4> QED
        BY <4>1, <4>3, <4>8 DEF Balance
    <3>5. limiters'[u] = NoBucket /\ resets'[u] = dropped + 1
          /\ admitted'[u] = a /\ now' = time
      BY <1>3, <2>3, <3>2
    <3> QED
      BY <3>1, <3>4, <3>5 DEF Covered, Credit, Detached
  <2> QED
    BY <2>2, <2>3
<1> QED
  BY <1>2, <1>4, <1>5 DEF LedgerInv

LEMMA CleanupLedger ==
  ASSUME StaleEarns, LedgerInv, CleanupStale
  PROVE  LedgerInv'
<1> USE LimiterAssumption
<1>1. IInv /\ TypeOK /\ Mapped
  BY DEF LedgerInv, IInv
<1>2. IInv'
  BY <1>1, CleanupStep
<1>3. /\ now' = now /\ admitted' = admitted /\ held' = held /\ bucket' = bucket
      /\ resets' = resets
      /\ \A u \in Tenants :
           limiters'[u] = IF limiters[u] # NoBucket /\ Stale(limiters[u])
                          THEN NoBucket ELSE limiters[u]
  BY DEF CleanupStale
<1>4. Mapped'
  BY <1>1, <1>3 DEF Mapped
<1>5. ASSUME NEW u \in Tenants PROVE Covered(u)'
  <2>1. Covered(u)
    BY DEF LedgerInv
  <2>2. CASE limiters'[u] = limiters[u]
    BY <1>3, <2>1, <2>2 DEF Covered, Credit, Detached
  <2>3. CASE limiters'[u] # limiters[u]
    <3>1. limiters[u] \in Buckets /\ limiters[u] # NoBucket /\ Stale(limiters[u])
          /\ limiters'[u] = NoBucket
      BY <1>1, <1>3, <2>3 DEF TypeOK
    <3>2. PICK d1 \in Nat :
            /\ d1 <= Cardinality(Callers)
            /\ d1 = Cardinality({d \in Callers : held'[d].tenant = u
                                                  /\ held'[d].limiter # limiters'[u]})
      BY CallersCount
    <3>3. PICK a \in Nat, credit \in Nat, late \in Nat, dropped \in Nat, time \in Nat :
            /\ a = admitted[u] /\ credit = Credit(u)
            /\ late = Cardinality(Detached(u))
            /\ dropped = resets[u] /\ time = now
      BY <1>1, LedgerNumbers
    <3>4. PICK r \in Bucket : r = bucket[limiters[u]]
      BY <1>1, <3>1 DEF TypeOK
    <3>5. PICK n \in Nat, l \in Nat : n = r.tokens /\ l = r.lastRefill
      BY DEF Bucket
    <3>6. time - l \in Int /\ time - l > StaleAfter
      <4>1. l <= time
        BY <1>1, <3>1, <3>3, <3>4, <3>5 DEF IInv, Sound
      <4> QED
        BY <3>1, <3>3, <3>4, <3>5, <4>1 DEF Stale
    <3>7. Rps * (StaleAfter + 1) <= Rps * (time - l)
      <4>1. PICK e \in Nat : time - l = (StaleAfter + 1) + e
        <5>1. (time - l) - (StaleAfter + 1) \in Nat
          BY <3>6
        <5> QED
          BY <5>1
      <4>2. Rps * (time - l) = Rps * (StaleAfter + 1) + Rps * e
        BY <4>1
      <4>3. Rps * e \in Nat /\ Rps * (StaleAfter + 1) \in Nat
        BY <4>1
      <4> QED
        BY <4>2, <4>3
    <3>8. Cost(Burst) + Cost(d1) <= credit
      <4>1. PICK m \in Nat : m = Cardinality(Callers)
        BY CallersCount
      <4>2. Cost(d1) <= Cost(m) /\ Cost(d1) \in Nat /\ Cost(m) \in Nat
            /\ Cost(Burst) \in Nat /\ Cost(n) \in Nat
            /\ Cost(Burst + m) = Cost(Burst) + Cost(m)
        BY <3>2, <4>1, CostGrows, CostAdds
      <4>3. Cost(Burst + m) <= Rps * (StaleAfter + 1)
        BY <4>1 DEF StaleEarns
      <4>4. credit = Cost(n) + Rps * (time - l)
        BY <3>1, <3>3, <3>4, <3>5 DEF Credit, Worth
      <4>5. Rps * (StaleAfter + 1) \in Int /\ Rps * (time - l) \in Int
        BY <3>6
      <4> QED
        BY <3>7, <4>2, <4>3, <4>4, <4>5
    <3>9. Balance(a, Cost(Burst), d1, dropped, time)
      <4>1. Balance(a, credit, late, dropped, time)
        BY <2>1, <3>3 DEF Covered
      <4>2. Cost(a) \in Nat /\ Cost(Burst) \in Nat /\ Cost(d1) \in Nat
            /\ Cost(late) \in Nat
        BY CostAdds
      <4>3. Cost(a) + Cost(Burst) + Cost(d1) <= Cost(a) + credit + Cost(late)
        BY <3>8, <4>2
      <4> QED
        BY <4>1, <4>2, <4>3, BalanceKept
    <3> QED
      BY <1>3, <3>1, <3>2, <3>3, <3>9 DEF Covered, Credit, Detached
  <2> QED
    BY <2>2, <2>3
<1> QED
  BY <1>2, <1>4, <1>5 DEF LedgerInv

LEMMA TickLedger ==
  ASSUME LedgerInv, Tick
  PROVE  LedgerInv'
<1> USE LimiterAssumption
<1>1. IInv /\ TypeOK /\ Mapped
  BY DEF LedgerInv, IInv
<1>2. IInv'
  BY <1>1, TickStep
<1>3. /\ now' = now + 1 /\ admitted' = admitted /\ held' = held
      /\ bucket' = bucket /\ resets' = resets /\ limiters' = limiters
  BY DEF Tick
<1>4. Mapped'
  BY <1>1, <1>3 DEF Mapped
<1>5. ASSUME NEW u \in Tenants PROVE Covered(u)'
  <2>1. Covered(u)
    BY DEF LedgerInv
  <2>2. PICK a \in Nat, credit \in Nat, late \in Nat, dropped \in Nat, time \in Nat :
          /\ a = admitted[u] /\ credit = Credit(u)
          /\ late = Cardinality(Detached(u))
          /\ dropped = resets[u] /\ time = now
    BY <1>1, LedgerNumbers
  <2>3. PICK x \in Int : x = Cost(Burst + dropped * ResetGain)
    BY CallersCount DEF Cost
  <2>4. Cost(a) \in Nat /\ Cost(late) \in Nat /\ Rps * time \in Nat
        /\ Rps * (time + 1) = Rps * time + Rps
    <3>1. Cost(a) \in Nat /\ Cost(late) \in Nat
      BY CostAdds
    <3>2. Rps * time \in Nat /\ Rps * (time + 1) = Rps * time + Rps
      OBVIOUS
    <3> QED
      BY <3>1, <3>2
  <2>5. Cost(a) + credit + Cost(late) <= x + Rps * time
    BY <2>1, <2>2, <2>3 DEF Covered, Balance
  <2>6. CASE limiters[u] = NoBucket
    <3>1. Balance(a, credit, late, dropped, time + 1)
      BY <2>3, <2>4, <2>5 DEF Balance
    <3> QED
      BY <1>3, <2>2, <2>6, <3>1 DEF Covered, Credit, Detached
  <2>7. CASE limiters[u] # NoBucket
    <3>1. PICK r \in Bucket : r = bucket[limiters[u]]
      BY <1>1, <2>7 DEF TypeOK
    <3>2. PICK n \in Nat, l \in Nat : n = r.tokens /\ l = r.lastRefill
      BY DEF Bucket
    <3>3. Worth(r, time + 1) = credit + Rps
      <4>1. credit = Cost(n) + Rps * (time - l)
        BY <2>2, <2>7, <3>1, <3>2 DEF Credit, Worth
      <4>2. Rps * ((time + 1) - l) = Rps * (time - l) + Rps
            /\ Rps * (time - l) \in Int /\ Cost(n) \in Nat
        BY CostAdds
      <4> QED
        BY <3>2, <4>1, <4>2 DEF Worth
    <3>4. Balance(a, credit + Rps, late, dropped, time + 1)
      BY <2>3, <2>4, <2>5 DEF Balance
    <3> QED
      BY <1>3, <2>2, <2>7, <3>1, <3>3, <3>4 DEF Covered, Credit, Detached
  <2> QED
    BY <2>6, <2>7
<1> QED
  BY <1>2, <1>4, <1>5 DEF LedgerInv

(* The token that is taken pays for the request that is admitted.          *)
LEMMA TokenPays ==
  ASSUME NEW r \in Bucket, NEW time \in Nat, r.tokens > 0
  PROVE  LET s == [r EXCEPT !.tokens = @ - 1, !.spent = @ + 1] IN
         Worth(r, time) = Worth(s, time) + Cost(1)
<1> DEFINE s == [r EXCEPT !.tokens = @ - 1, !.spent = @ + 1]
<1>1. PICK n \in Nat, l \in Nat : n + 1 = r.tokens /\ l = r.lastRefill
  <2>1. r.tokens \in Nat /\ r.lastRefill \in Nat /\ r.tokens - 1 \in Nat
    BY DEF Bucket
  <2> QED
    BY <2>1
<1>2. s.tokens = n /\ s.lastRefill = l
  <2>1. s.tokens = r.tokens - 1 /\ s.lastRefill = r.lastRefill
    BY DEF Bucket
  <2> QED
    BY <1>1, <2>1
<1> HIDE DEF s
<1>3. Cost(n + 1) = Cost(n) + Cost(1) /\ Cost(n) \in Nat /\ Cost(1) \in Nat
  BY CostAdds
<1>4. Rps * (time - l) \in Int
  BY LimiterAssumption
<1>5. Worth(r, time) = Worth(s, time) + Cost(1)
  BY <1>1, <1>2, <1>3, <1>4 DEF Worth
<1> QED
  BY <1>5 DEF s

(* What a caller that holds a bucket of the map does to the books of its   *)
(* tenant.                                                                 *)
LEMMA AttachedPays ==
  ASSUME IInv, NEW c \in Callers, Allow(c), NEW t \in Tenants, NEW b \in Buckets,
         b = held[c].limiter, t = held[c].tenant, NEW a \in Nat, a = admitted[t]
  PROVE  \E a1 \in Nat, r1 \in Bucket :
           /\ a1 = admitted'[t] /\ r1 = bucket'[b]
           /\ Worth(r1, now) \in Nat
           /\ Cost(a1) + Worth(r1, now) <= Cost(a) + Worth(bucket[b], now)
<1> USE LimiterAssumption
<1>1. TypeOK /\ Sound(bucket[b]) /\ now \in Nat
  BY DEF IInv, TypeOK
<1>2. PICK q \in Bucket : q = Refilled(b) /\ Sound(q)
  BY <1>1, RefilledIsSound
<1>3. Worth(q, now) <= Worth(bucket[b], now) /\ Worth(q, now) \in Nat
  BY <1>1, <1>2, RefillIsPaid, WorthIsNat DEF Sound
<1>4. Worth(bucket[b], now) \in Nat
  BY <1>1, WorthIsNat DEF TypeOK, Sound
<1>5. Cost(a) \in Nat
  BY CostAdds
<1>6. CASE ~HasToken(b)
  <2>1. bucket' = [bucket EXCEPT ![b] = q] /\ admitted' = admitted
    BY <1>2, <1>6 DEF Allow
  <2>2. bucket'[b] = q /\ admitted'[t] = a
    BY <1>1, <2>1 DEF TypeOK
  <2> QED
    BY <1>3, <1>4, <1>5, <2>2
<1>7. CASE HasToken(b)
  <2> DEFINE s == [q EXCEPT !.tokens = @ - 1, !.spent = @ + 1]
  <2>1. q.tokens > 0
    BY <1>2, <1>7 DEF HasToken
  <2>2. s \in Bucket /\ Sound(s)
    BY <1>2, <2>1, SpentIsSound
  <2>3. Worth(q, now) = Worth(s, now) + Cost(1)
    BY <1>1, <2>1, TokenPays
  <2>4. bucket' = [bucket EXCEPT ![b] = s]
    BY <1>2, <1>7 DEF Allow
  <2> HIDE DEF s
  <2>5. bucket'[b] = s
    BY <1>1, <2>4 DEF TypeOK
  <2>6. admitted'[t] = a + 1
    BY <1>1, <1>7 DEF Allow, TypeOK
  <2>7. Cost(a + 1) = Cost(a) + Cost(1) /\ Cost(1) \in Nat
    BY CostAdds
  <2>8. Worth(s, now) \in Nat
    BY <1>1, <2>2, WorthIsNat DEF Sound
  <2> QED
    BY <1>3, <1>4, <1>5, <2>2, <2>3, <2>5, <2>6, <2>7, <2>8
<1> QED
  BY <1>6, <1>7

LEMMA AllowLedger ==
  ASSUME LedgerInv, NEW c \in Callers, Allow(c)
  PROVE  LedgerInv'
<1> USE LimiterAssumption
<1>1. IInv /\ TypeOK /\ HeldForTenant /\ Mapped
  BY DEF LedgerInv, IInv
<1>2. IInv'
  BY <1>1, AllowStep
<1>3. /\ now' = now /\ limiters' = limiters /\ resets' = resets
      /\ \A d \in Callers : held'[d] = IF d = c THEN Nothing ELSE held[d]
  BY <1>1 DEF Allow, TypeOK
<1>4. PICK b \in Buckets, t \in Tenants :
         b = held[c].limiter /\ t = held[c].tenant
  BY <1>1 DEF Allow, HeldForTenant
<1>5. /\ \A e \in Buckets : e # b => bucket'[e] = bucket[e]
      /\ \A u \in Tenants : u # t => admitted'[u] = admitted[u]
  BY <1>1, <1>4 DEF Allow, TypeOK
<1>6. Mapped'
  BY <1>1, <1>3 DEF Mapped, Nothing
<1>7. ASSUME NEW u \in Tenants PROVE Covered(u)'
  <2>1. Covered(u)
    BY DEF LedgerInv
  <2>2. PICK a \in Nat, credit \in Nat, late \in Nat, dropped \in Nat, time \in Nat :
          /\ a = admitted[u] /\ credit = Credit(u)
          /\ late = Cardinality(Detached(u))
          /\ dropped = resets[u] /\ time = now
    BY <1>1, LedgerNumbers
  <2>3. Balance(a, credit, late, dropped, time)
    BY <2>1, <2>2 DEF Covered
  <2>4. CASE u # t
    <3>1. {d \in Callers : held'[d].tenant = u /\ held'[d].limiter # limiters'[u]}
            = Detached(u)
      BY <1>3, <1>4, <2>4 DEF Detached, Nothing
    <3>2. limiters[u] # b
      BY <1>1, <1>4, <2>4 DEF Mapped
    <3>3. limiters[u] # NoBucket => bucket'[limiters[u]] = bucket[limiters[u]]
      BY <1>1, <1>5, <3>2 DEF TypeOK
    <3> QED
      BY <1>3, <1>5, <2>1, <2>4, <3>1, <3>3 DEF Covered, Credit, Detached
  <2>5. CASE u = t /\ limiters[t] = b
    <3>1. {d \in Callers : held'[d].tenant = u /\ held'[d].limiter # limiters'[u]}
            = Detached(u)
      BY <1>3, <1>4, <2>5 DEF Detached, Nothing
    <3>2. PICK a1 \in Nat, r1 \in Bucket :
            /\ a1 = admitted'[t] /\ r1 = bucket'[b]
            /\ Worth(r1, now) \in Nat
            /\ Cost(a1) + Worth(r1, now) <= Cost(a) + Worth(bucket[b], now)
      BY <1>1, <1>4, <2>2, <2>5, AttachedPays
    <3>3. b # NoBucket /\ credit = Worth(bucket[b], now)
      BY <2>2, <2>5 DEF Credit
    <3>4. PICK credit1 \in Nat : credit1 = Worth(r1, now)
      BY <3>2
    <3>5. Cost(a1) + credit1 + Cost(late) <= Cost(a) + credit + Cost(late)
      <4>1. Cost(a) \in Nat /\ Cost(a1) \in Nat /\ Cost(late) \in Nat
        BY CostAdds
      <4> QED
        BY <3>2, <3>3, <3>4, <4>1
    <3>6. Balance(a1, credit1, late, dropped, time)
      BY <2>3, <3>5, BalanceKept
    <3> QED
      BY <1>3, <2>2, <2>5, <3>1, <3>2, <3>3, <3>4, <3>6
         DEF Covered, Credit, Detached
  <2>6. CASE u = t /\ limiters[t] # b
    <3>1. {d \in Callers : held'[d].tenant = u /\ held'[d].limiter # limiters'[u]}
            = Detached(u) \ {c}
      BY <1>3, <1>4, <2>6 DEF Detached, Nothing
    <3>2. c \in Detached(u) /\ Detached(u) \in SUBSET Callers
      BY <1>4, <2>6 DEF Detached
    <3>3. PICK late1 \in Nat : late1 + 1 = late /\ late1 = Cardinality(Detached(u) \ {c})
      <4>1. IsFiniteSet(Detached(u)) /\ Detached(u) \ {c} \in SUBSET Callers
        BY <3>2, CallersCount
      <4>2. Cardinality(Detached(u) \ {c}) \in Nat
        BY <4>1, CallersCount
      <4>3. Cardinality(Detached(u) \ {c}) = late - 1
        BY <2>2, <3>2, <4>1, FS_RemoveElement
      <4> QED
        BY <4>2, <4>3
    <3>4. PICK a1 \in Nat : a1 = admitted'[t] /\ a1 <= a + 1
      BY <1>1, <1>4, <2>2, <2>6 DEF Allow, TypeOK
    <3>5. limiters[u] # NoBucket => bucket'[limiters[u]] = bucket[limiters[u]]
      BY <1>1, <1>5, <2>6 DEF TypeOK
    <3>6. Cost(a1) + credit + Cost(late1) <= Cost(a) + credit + Cost(late)
      <4>1. /\ Cost(a + 1) = Cost(a) + Cost(1)
            /\ Cost(late1 + 1) = Cost(late1) + Cost(1)
            /\ Cost(a) \in Nat /\ Cost(late1) \in Nat /\ Cost(1) \in Nat
            /\ Cost(a1) \in Nat
        BY CostAdds
      <4>2. Cost(a1) <= Cost(a + 1)
        BY <3>4, CostGrows
      <4> QED
        BY <3>3, <4>1, <4>2
    <3>7. Balance(a1, credit, late1, dropped, time)
      BY <2>3, <3>6, BalanceKept
    <3> QED
      BY <1>3, <2>2, <2>6, <3>1, <3>3, <3>4, <3>5, <3>7
         DEF Covered, Credit, Detached
  <2> QED
    BY <2>4, <2>5, <2>6
<1> QED
  BY <1>2, <1>6, <1>7 DEF LedgerInv

LEMMA InitLedger == Init => LedgerInv
<1> SUFFICES ASSUME Init PROVE LedgerInv
  OBVIOUS
<1> USE LimiterAssumption
<1>1. IInv /\ now = 0
  BY InitIInv DEF Init
<1>2. Mapped
  BY DEF Init, Mapped
<1>3. ASSUME NEW t \in Tenants PROVE Covered(t)
  <2>1. Detached(t) = {}
    BY DEF Init, Detached, Nothing
  <2>2. Cardinality(Detached(t)) = 0
    BY <2>1, FS_EmptySet
  <2>3. admitted[t] = 0 /\ resets[t] = 0 /\ Credit(t) = Cost(Burst)
    BY DEF Init, Credit
  <2>4. Cost(0) = 0 /\ Cost(Burst) \in Nat /\ Rps * 0 = 0
    BY DEF Cost
  <2>5. Burst + 0 * ResetGain = Burst
    BY CallersCount
  <2> QED
    BY <1>1, <2>2, <2>3, <2>4, <2>5 DEF Covered, Balance
<1> QED
  BY <1>1, <1>2, <1>3 DEF LedgerInv

LEMMA InductiveLedger ==
  ASSUME StaleEarns
  PROVE  LedgerInv /\ [Next]_vars => LedgerInv'
<1> SUFFICES ASSUME LedgerInv, [Next]_vars PROVE LedgerInv'
  OBVIOUS
<1>1. ASSUME NEW c \in Callers, Allow(c) PROVE LedgerInv'
  BY <1>1, AllowLedger
<1>2. ASSUME NEW c \in Callers, NEW t \in Tenants, GetTenantLimiter(c, t)
      PROVE  LedgerInv'
  BY <1>2, GetTenantLimiterLedger
<1>3. ASSUME NEW t \in Tenants, Reset(t) PROVE LedgerInv'
  BY <1>3, ResetLedger
<1>4. CASE CleanupStale
  BY <1>4, CleanupLedger
<1>5. CASE Tick
  BY <1>5, TickLedger
<1>6. CASE UNCHANGED vars
  <2>1. IInv' /\ Mapped'
    BY <1>6, Inductive DEF LedgerInv, Mapped, vars
  <2>2. ASSUME NEW t \in Tenants PROVE Covered(t)'
    <3>1. Covered(t)
      BY DEF LedgerInv
    <3> QED
      BY <1>6, <3>1 DEF vars, Covered, Credit, Detached
  <2> QED
    BY <2>1, <2>2 DEF LedgerInv
<1> QED
  BY <1>1, <1>2, <1>3, <1>4, <1>5, <1>6 DEF Next

(* A tenant cannot get more than the burst and the rate by having its      *)
(* bucket deleted, however callers that still hold a deleted bucket        *)
(* interleave with those that get the new one: a cleanup gains it nothing, *)
(* a Reset one burst and one request for every caller.                     *)
THEOREM TenantsAreBounded ==
  ASSUME StaleEarns
  PROVE  Spec => []TenantBound
<1>1. LedgerInv => TenantBound
  <2> SUFFICES ASSUME LedgerInv, NEW t \in Tenants
               PROVE  Cost(admitted[t])
                        <= Cost(Burst + resets[t] * ResetGain) + Earned(0, now)
    BY DEF TenantBound
  <2>1. IInv /\ Covered(t)
    BY DEF LedgerInv
  <2>2. PICK a \in Nat, credit \in Nat, late \in Nat, dropped \in Nat, time \in Nat :
          /\ a = admitted[t] /\ credit = Credit(t)
          /\ late = Cardinality(Detached(t))
          /\ dropped = resets[t] /\ time = now
    BY <2>1, LedgerNumbers
  <2>3. Balance(a, credit, late, dropped, time)
    BY <2>1, <2>2 DEF Covered
  <2>4. Cost(a) \in Nat /\ Cost(late) \in Nat
    BY CostAdds
  <2>5. Cost(Burst + dropped * ResetGain) \in Int /\ Rps * time \in Int
    BY CallersCount, LimiterAssumption DEF Cost
  <2>6. Cost(a) <= Cost(Burst + dropped * ResetGain) + Rps * time
    BY <2>3, <2>4, <2>5 DEF Balance
  <2> QED
    BY <2>2, <2>6 DEF Earned
<1> QED
  BY <1>1, InitLedger, InductiveLedger, PTL DEF Spec
=============================================================================
