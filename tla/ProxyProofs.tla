----------------------------- MODULE ProxyProofs ---------------------------
(***************************************************************************)
(* Calls through the proxy, for any number of calls, tenants, keys and     *)
(* addresses and any capacity of the log channel.                          *)
(*                                                                         *)
(* A call carries what it read when it was authenticated, and the pool     *)
(* what another call had read.  Both stay true of the table because a key  *)
(* that was drawn never changes hands, and because the addresses a row has *)
(* had (had) and the changes made behind a cached one (moved) are recorded *)
(* with every write, whoever makes it and however old its copy is.         *)
(***************************************************************************)
EXTENDS Proxy, SequenceTheorems, TLAPS

(* A row and the pooled connection of its tenant. *)
TenantIsRight(t) ==
    /\ OwnKey(t, tenants[t].key)
    /\ Stored(t) => tenants[t].host \in had[t]
    /\ tenantConns[t] # NoConn =>
         /\ tenantConns[t] \in had[t]
         /\ t \notin moved => tenantConns[t] = tenants[t].host

(* What a call holds. *)
CallIsRight(r) ==
    /\ r.step \in {"limit", "route", "dial", "open", "log"}
         => r.tenant # NoTenant
    /\ r.tenant # NoTenant =>
         /\ r.tenant \in Tenants
         /\ r.key \in Keys
         /\ keyOwner[r.key] = r.tenant
         /\ r.host \in had[r.tenant]
         /\ r.tenant \notin moved => r.host = tenants[r.tenant].host
    /\ r.step = "open" =>
         /\ r.target \in had[r.tenant]
         /\ r.tenant \notin moved => r.target = r.host

IInv ==
    /\ TypeOK
    /\ \A t \in Tenants : TenantIsRight(t)
    /\ \A c \in Calls : CallIsRight(call[c])

----------------------------------------------------------------------------
LEMMA ArrivingType ==
  /\ Arriving \in Call /\ Arriving.step = "arriving"
  /\ Arriving.tenant = NoTenant
BY DEF Arriving, Call, CallSteps, Targets

LEMMA LeavingType ==
  LET r == [Arriving EXCEPT !.step = "done"] IN
  r \in Call /\ r.step = "done" /\ r.tenant = NoTenant
BY DEF Arriving, Call, CallSteps, Targets

LEMMA InitIInv == Init => IInv
<1> SUFFICES ASSUME Init PROVE IInv
  OBVIOUS
<1> USE StorageAssumption, ProxyAssumption
<1>1. NoRow \in Row /\ NoRow.key = NoKey /\ NoRow.status = "none"
  BY DEF NoRow, Row
<1>2. TypeOK
  <2>1. call \in [Calls -> Call]
    BY ArrivingType DEF Init
  <2>2. logChannel \in Seq(Calls) /\ Len(logChannel) <= LogCap
    BY DEF Init
  <2> QED
    BY <1>1, <2>1, <2>2 DEF Init, StorageInit, TypeOK, StorageTypeOK, Targets
<1>3. \A t \in Tenants : TenantIsRight(t)
  BY <1>1 DEF Init, StorageInit, TenantIsRight, OwnKey, Stored
<1>4. \A c \in Calls : CallIsRight(call[c])
  BY ArrivingType DEF Init, CallIsRight
<1> QED
  BY <1>2, <1>3, <1>4 DEF IInv

----------------------------------------------------------------------------
(* A step of a call. *)
LEMMA CallMoves ==
  ASSUME IInv, NEW c \in Calls, NEW r \in Call, CallIsRight(r),
         call' = [call EXCEPT ![c] = r],
         tenants' = tenants, keyOwner' = keyOwner, had' = had, moved' = moved,
         logChannel' \in Seq(Calls), Len(logChannel') <= LogCap,
         tenantConns' \in [Tenants -> Targets],
         \A t \in Tenants :
            \/ tenantConns'[t] = tenantConns[t]
            \/ /\ tenantConns'[t] \in had[t]
               /\ t \notin moved => tenantConns'[t] = tenants[t].host
  PROVE  IInv'
<1>1. TypeOK'
  BY DEF IInv, TypeOK, StorageTypeOK
<1>2. \A t \in Tenants : TenantIsRight(t)'
  BY DEF IInv, TenantIsRight, OwnKey, Stored
<1>3. ASSUME NEW d \in Calls PROVE CallIsRight(call[d])'
  <2>1. PICK q \in Call : q = call'[d] /\ CallIsRight(q)
    BY DEF IInv, TypeOK
  <2> QED
    BY <2>1 DEF CallIsRight
<1> QED
  BY <1>1, <1>2, <1>3 DEF IInv

(* What a write of another component does to the table. *)
LEMMA TableEffect ==
  ASSUME TypeOK, NEW t \in Tenants, OwnKey(t, tenants[t].key), TableStep(t)
  PROVE  /\ StorageTypeOK'
         /\ \A u \in Tenants \ {t} : tenants'[u] = tenants[u]
         /\ \A l \in Keys : keyOwner[l] # NoTenant => keyOwner'[l] = keyOwner[l]
         /\ OwnKey(t, tenants[t].key)'
<1> USE StorageAssumption, WritersAssumption DEF TypeOK, StorageTypeOK, OwnKey
<1>1. PICK r \in Row : r = tenants[t]
  OBVIOUS
<1>2. CASE UNCHANGED storageVars
  BY <1>2 DEF storageVars
<1>3. ASSUME NEW k \in Keys, FreshKey(k), NEW row \in Row, row.key = k,
             tenants' = [tenants EXCEPT ![t] = row],
             keyOwner' = [keyOwner EXCEPT ![k] = t]
      PROVE  /\ StorageTypeOK'
             /\ \A u \in Tenants \ {t} : tenants'[u] = tenants[u]
             /\ \A l \in Keys : keyOwner[l] # NoTenant => keyOwner'[l] = keyOwner[l]
             /\ OwnKey(t, tenants[t].key)'
  BY <1>3 DEF FreshKey
<1>4. CASE Inserted(t)
  <2>1. PICK k \in Keys, s \in {"provisioning", ""} :
          InsertTenant(t, NewRow(s, k), "ok")
    BY <1>4 DEF Inserted
  <2>2. NewRow(s, k) \in Row /\ NewRow(s, k).key = k
    BY DEF NewRow, Row, Statuses
  <2> QED
    BY <1>2, <1>3, <2>1, <2>2 DEF InsertTenant
<1>5. CASE KeyReplaced(t)
  <2>1. PICK k \in Keys : WriteNewKey(t, k, "ok")
    BY <1>5 DEF KeyReplaced
  <2>2. PICK row : row = [r EXCEPT !.key = k]
    OBVIOUS
  <2>3. row \in Row /\ row.key = k
    BY <2>2 DEF Row
  <2>4. \/ UNCHANGED storageVars
        \/ /\ tenants' = [tenants EXCEPT ![t] = row]
           /\ keyOwner' = [keyOwner EXCEPT ![k] = t]
    BY <1>1, <2>1, <2>2 DEF WriteNewKey
  <2>5. FreshKey(k)
    BY <2>1 DEF WriteNewKey
  <2> QED
    BY <1>2, <1>3, <2>3, <2>4, <2>5
<1>6. CASE RowWritten(t)
  <2>1. PICK row \in Row : /\ row.key = NoKey \/ keyOwner[row.key] = t
                           /\ \/ tenants' = tenants
                              \/ tenants' = [tenants EXCEPT ![t] = row]
                           /\ keyOwner' = keyOwner
    <3>1. CASE /\ tenants' = [tenants EXCEPT ![t].status = "deleted"]
               /\ UNCHANGED keyOwner
      <4>1. PICK row : row = [r EXCEPT !.status = "deleted"]
        OBVIOUS
      <4>2. row \in Row /\ row.key = r.key
        BY <4>1 DEF Row, Statuses
      <4> QED
        BY <1>1, <3>1, <4>1, <4>2
    <3>2. CASE \E s \in WrittenStatuses, h \in Hosts \cup {NoHost},
                  k \in {j \in Keys \cup {NoKey} : OwnKey(t, j)} :
                 UpdateTenant(t, [status |-> s, key |-> k, host |-> h], "ok")
      <4>1. PICK s \in WrittenStatuses, h \in Hosts \cup {NoHost},
                 k \in Keys \cup {NoKey} :
              /\ OwnKey(t, k)
              /\ UpdateTenant(t, [status |-> s, key |-> k, host |-> h], "ok")
        BY <3>2
      <4> DEFINE row == [status |-> s, key |-> k, host |-> h]
      <4>2. row \in Row /\ row.key = k
        BY DEF Row
      <4> HIDE DEF row
      <4>3. UpdateTenant(t, row, "ok")
        BY <4>1 DEF row
      <4> QED
        BY <4>1, <4>2, <4>3 DEF UpdateTenant
    <3> QED
      BY <1>6, <3>1, <3>2 DEF RowWritten
  <2> QED
    BY <2>1
<1> QED
  BY <1>4, <1>5, <1>6 DEF TableStep

(* A write of another component: it is recorded. *)
LEMMA WrittenStep ==
  ASSUME IInv, NEW t \in Tenants, Written(t)
  PROVE  IInv'
<1> USE StorageAssumption, ProxyAssumption
<1>1. /\ call' = call /\ tenantConns' = tenantConns /\ logChannel' = logChannel
      /\ had' = [had EXCEPT ![t] = had[t] \cup {tenants'[t].host}]
      /\ moved' = IF tenants'[t].host # tenants[t].host /\ Cached(t)
                  THEN moved \cup {t} ELSE moved
  BY DEF Written
<1>2. /\ TypeOK
      /\ \A u \in Tenants : TenantIsRight(u)
      /\ \A d \in Calls : CallIsRight(call[d])
  BY DEF IInv
<1>3. /\ StorageTypeOK'
      /\ \A u \in Tenants \ {t} : tenants'[u] = tenants[u]
      /\ \A l \in Keys : keyOwner[l] # NoTenant => keyOwner'[l] = keyOwner[l]
      /\ OwnKey(t, tenants[t].key)'
  BY <1>2, TableEffect DEF Written, TenantIsRight
<1>4. /\ tenants'[t].host \in Hosts \cup {NoHost}
      /\ \A u \in Tenants : tenants[u].key \in Keys \cup {NoKey}
  BY <1>2, <1>3 DEF TypeOK, StorageTypeOK, Row
<1>5. /\ TypeOK'
      /\ tenants'[t].host \in had'[t]
      /\ \A u \in Tenants : had[u] \subseteq had'[u]
      /\ moved \subseteq moved' /\ moved' \subseteq moved \cup {t}
  BY <1>1, <1>2, <1>3, <1>4 DEF TypeOK
<1>6. t \notin moved' /\ tenants'[t].host # tenants[t].host
        => /\ tenantConns[t] = NoConn
           /\ \A d \in Calls : call[d].tenant # t
  BY <1>1, <1>5 DEF Cached
<1>7. ASSUME NEW u \in Tenants PROVE TenantIsRight(u)'
  <2>1. OwnKey(u, tenants[u].key)'
    BY <1>2, <1>3, <1>4 DEF TenantIsRight, OwnKey
  <2>2. Stored(u)' => tenants'[u].host \in had'[u]
    BY <1>2, <1>3, <1>5 DEF TenantIsRight, Stored
  <2>3. tenantConns[u] # NoConn =>
          /\ tenantConns[u] \in had'[u]
          /\ u \notin moved' => tenantConns[u] = tenants'[u].host
    BY <1>2, <1>3, <1>5, <1>6 DEF TenantIsRight
  <2> QED
    BY <1>1, <2>1, <2>2, <2>3 DEF TenantIsRight
<1>8. ASSUME NEW d \in Calls PROVE CallIsRight(call[d])'
  <2>1. PICK q \in Call : q = call[d] /\ q = call'[d]
    BY <1>1, <1>2 DEF TypeOK
  <2>2. CallIsRight(q)
    BY <1>2, <2>1
  <2>3. q.tenant # NoTenant
          => /\ keyOwner'[q.key] = q.tenant
             /\ q.tenant \notin moved' => q.host = tenants'[q.tenant].host
    BY <1>3, <1>5, <1>6, <2>1, <2>2 DEF CallIsRight
  <2>4. q.step = "open" => q.tenant # NoTenant
    BY <2>2 DEF CallIsRight
  <2>5. CallIsRight(q)'
    BY <1>5, <2>2, <2>3, <2>4 DEF CallIsRight
  <2> QED
    BY <2>1, <2>5 DEF CallIsRight
<1> QED
  BY <1>5, <1>7, <1>8 DEF IInv

----------------------------------------------------------------------------
LEMMA AuthenticateStep ==
  ASSUME IInv, NEW c \in Calls, Authenticate(c)
  PROVE  IInv'
<1> USE StorageAssumption
<1>1. /\ tenants' = tenants /\ keyOwner' = keyOwner
      /\ had' = had /\ moved' = moved
      /\ logChannel' = logChannel /\ tenantConns' = tenantConns
  BY DEF Authenticate, storageVars, historyVars
<1>2. PICK r \in Call : CallIsRight(r) /\ call' = [call EXCEPT ![c] = r]
  <2>1. CASE Leave(c)
    BY <2>1, LeavingType DEF Leave, CallIsRight
  <2>2. CASE \E k \in Keys : \E t \in GetTenantByAPIKey(k) :
               /\ Serves(t)
               /\ call' = [call EXCEPT ![c] = [step |-> "limit", key |-> k,
                              tenant |-> t, host |-> tenants[t].host,
                              target |-> NoConn]]
    <3>1. PICK k \in Keys, t \in Tenants :
            /\ tenants[t].key = k /\ tenants[t].status = "active"
            /\ call' = [call EXCEPT ![c] = [step |-> "limit", key |-> k,
                           tenant |-> t, host |-> tenants[t].host,
                           target |-> NoConn]]
      BY <2>2 DEF GetTenantByAPIKey, Serves
    <3>2. tenants[t].host \in Hosts \cup {NoHost}
      BY DEF IInv, TypeOK, StorageTypeOK, Row
    <3> DEFINE r == [step |-> "limit", key |-> k, tenant |-> t,
                     host |-> tenants[t].host, target |-> NoConn]
    <3>3. r \in Call
      BY <3>2 DEF Call, CallSteps, Targets
    <3>4. TenantIsRight(t)
      BY DEF IInv
    <3>5. CallIsRight(r)
      BY <3>1, <3>4 DEF CallIsRight, TenantIsRight, OwnKey, Stored
    <3> QED
      BY <3>1, <3>3, <3>5
  <2> QED
    BY <2>1, <2>2 DEF Authenticate
<1>3. logChannel' \in Seq(Calls) /\ Len(logChannel') <= LogCap
      /\ tenantConns' \in [Tenants -> Targets]
  BY <1>1 DEF IInv, TypeOK
<1> QED
  BY <1>1, <1>2, <1>3, CallMoves

(* The steps that move a call on and may choose its target. *)
LEMMA MovedOn ==
  ASSUME IInv, NEW c \in Calls, NEW s \in CallSteps,
         call[c].step \in {"limit", "route", "dial", "open"}, s # "open"
  PROVE  /\ [call[c] EXCEPT !.step = s] \in Call
         /\ CallIsRight([call[c] EXCEPT !.step = s])
<1>1. PICK q \in Call : q = call[c] /\ CallIsRight(q)
  BY DEF IInv, TypeOK
<1>2. PICK r : r = [q EXCEPT !.step = s]
  OBVIOUS
<1>3. /\ r \in Call /\ r.step = s /\ r.key = q.key /\ r.tenant = q.tenant
      /\ r.host = q.host /\ r.target = q.target
  BY <1>2 DEF Call
<1>4. CallIsRight(r)
  BY <1>1, <1>3 DEF CallIsRight
<1> QED
  BY <1>1, <1>2, <1>3, <1>4

LEMMA Opened ==
  ASSUME IInv, NEW c \in Calls, NEW h \in Targets,
         call[c].step \in {"route", "dial"},
         h \in had[call[c].tenant],
         call[c].tenant \notin moved => h = call[c].host,
         call' = [call EXCEPT ![c].step = "open", ![c].target = h]
  PROVE  \E r \in Call : CallIsRight(r) /\ call' = [call EXCEPT ![c] = r]
<1>1. PICK q \in Call : q = call[c] /\ CallIsRight(q)
  BY DEF IInv, TypeOK
<1>2. PICK p : p = [q EXCEPT !.step = "open"]
  OBVIOUS
<1>3. /\ p \in Call /\ p.step = "open" /\ p.key = q.key
      /\ p.tenant = q.tenant /\ p.host = q.host
  BY <1>2 DEF Call, CallSteps
<1>4. PICK r : r = [p EXCEPT !.target = h]
  OBVIOUS
<1>5. /\ r \in Call /\ r.step = "open" /\ r.key = q.key
      /\ r.tenant = q.tenant /\ r.host = q.host /\ r.target = h
  BY <1>3, <1>4 DEF Call
<1>6. CallIsRight(r)
  BY <1>1, <1>5 DEF CallIsRight
<1>7. call' = [call EXCEPT ![c] = r]
  BY <1>1, <1>2, <1>4 DEF IInv, TypeOK
<1> QED
  BY <1>5, <1>6, <1>7

LEMMA CallStepStep ==
  ASSUME IInv, NEW c \in Calls, CallStep(c) \/ StreamEnds(c)
  PROVE  IInv'
<1> USE StorageAssumption, ProxyAssumption
<1>1. /\ tenants' = tenants /\ keyOwner' = keyOwner
      /\ had' = had /\ moved' = moved
  BY DEF CallStep, RateLimit, LoadConnection, StoreConnection, StreamEnds,
         LogRequest, storageVars, historyVars
<1>2. PICK q \in Call : q = call[c] /\ CallIsRight(q)
  BY DEF IInv, TypeOK
<1>3. logChannel \in Seq(Calls) /\ Len(logChannel) <= LogCap
      /\ tenantConns \in [Tenants -> Targets]
  BY DEF IInv, TypeOK
<1>4. CASE RateLimit(c) \/ StreamEnds(c)
  <2>1. logChannel' = logChannel /\ tenantConns' = tenantConns
    BY <1>4 DEF RateLimit, StreamEnds
  <2>2. PICK r \in Call : CallIsRight(r) /\ call' = [call EXCEPT ![c] = r]
    <3>1. CASE Leave(c)
      BY <3>1, LeavingType DEF Leave, CallIsRight
    <3>2. CASE ~Leave(c)
      <4>1. PICK s \in {"route", "log"} : call' = [call EXCEPT ![c].step = s]
        BY <1>4, <3>2 DEF RateLimit, StreamEnds, Goto
      <4>2. s \in CallSteps /\ s # "open"
            /\ call[c].step \in {"limit", "route", "dial", "open"}
        BY <1>4 DEF CallSteps, RateLimit, StreamEnds
      <4> QED
        BY <4>1, <4>2, MovedOn
    <3> QED
      BY <3>1, <3>2
  <2> QED
    BY <1>1, <1>3, <2>1, <2>2, CallMoves
<1>5. CASE LoadConnection(c)
  <2>1. logChannel' = logChannel /\ tenantConns' = tenantConns
        /\ q.step = "route" /\ q.tenant \in Tenants
    BY <1>2, <1>5 DEF LoadConnection, CallIsRight
  <2> DEFINE pooled == tenantConns[q.tenant]
  <2>2. PICK r \in Call : CallIsRight(r) /\ call' = [call EXCEPT ![c] = r]
    <3>1. CASE pooled # NoConn
      <4>1. call' = [call EXCEPT ![c].step = "open", ![c].target = pooled]
        BY <1>2, <1>5, <3>1 DEF LoadConnection
      <4>2. pooled \in Targets
        BY <1>3, <2>1
      <4>3. /\ pooled \in had[q.tenant]
            /\ q.tenant \notin moved => pooled = q.host
        BY <1>2, <2>1, <3>1 DEF IInv, TenantIsRight, CallIsRight
      <4> QED
        BY <1>2, <2>1, <4>1, <4>2, <4>3, Opened
    <3>2. CASE pooled = NoConn
      <4>1. call' = [call EXCEPT ![c].step = "dial"]
        BY <1>2, <1>5, <3>2 DEF LoadConnection, Goto
      <4> QED
        BY <1>2, <2>1, <4>1, MovedOn DEF CallSteps
    <3> QED
      BY <3>1, <3>2
  <2> QED
    BY <1>1, <1>3, <2>1, <2>2, CallMoves
<1>6. CASE StoreConnection(c)
  <2>1. logChannel' = logChannel /\ q.step = "dial" /\ q.tenant \in Tenants
        /\ q.host \in Targets /\ q.host \in had[q.tenant]
    BY <1>2, <1>6 DEF StoreConnection, CallIsRight, Call, Targets
  <2>2. CASE /\ tenantConns' = [tenantConns EXCEPT ![q.tenant] = q.host]
             /\ call' = [call EXCEPT ![c].step = "open", ![c].target = q.host]
    <3>1. PICK r \in Call : CallIsRight(r) /\ call' = [call EXCEPT ![c] = r]
      BY <1>2, <2>1, <2>2, Opened
    <3>2. tenantConns' \in [Tenants -> Targets]
      BY <1>3, <2>1, <2>2
    <3>3. \A t \in Tenants :
            \/ tenantConns'[t] = tenantConns[t]
            \/ /\ tenantConns'[t] \in had[t]
               /\ t \notin moved => tenantConns'[t] = tenants[t].host
      BY <1>2, <1>3, <2>1, <2>2 DEF CallIsRight
    <3> QED
      BY <1>1, <1>3, <2>1, <3>1, <3>2, <3>3, CallMoves
  <2>3. CASE call' = [call EXCEPT ![c].step = "log"] /\ tenantConns' = tenantConns
    <3>1. PICK r \in Call : CallIsRight(r) /\ call' = [call EXCEPT ![c] = r]
      BY <1>2, <2>1, <2>3, MovedOn DEF CallSteps
    <3> QED
      BY <1>1, <1>3, <2>1, <2>3, <3>1, CallMoves
  <2> QED
    BY <1>2, <1>6, <2>2, <2>3 DEF StoreConnection, Goto
<1>7. CASE LogRequest(c)
  <2>1. PICK r \in Call : CallIsRight(r) /\ call' = [call EXCEPT ![c] = r]
    BY <1>7, LeavingType DEF LogRequest, Leave, CallIsRight
  <2>2. tenantConns' = tenantConns
    BY <1>7 DEF LogRequest
  <2>3. logChannel' \in Seq(Calls) /\ Len(logChannel') <= LogCap
    <3>1. CASE Len(logChannel) < LogCap
      <4>1. logChannel' = Append(logChannel, c)
        BY <1>7, <3>1 DEF LogRequest
      <4>2. Append(logChannel, c) \in Seq(Calls)
            /\ Len(Append(logChannel, c)) = Len(logChannel) + 1
        BY <1>3
      <4> QED
        BY <1>3, <3>1, <4>1, <4>2
    <3>2. CASE ~(Len(logChannel) < LogCap)
      BY <1>3, <1>7, <3>2 DEF LogRequest
    <3> QED
      BY <3>1, <3>2
  <2> QED
    BY <1>1, <1>3, <2>1, <2>2, <2>3, CallMoves
<1> QED
  BY <1>4, <1>5, <1>6, <1>7 DEF CallStep

LEMMA LogStep ==
  ASSUME IInv, ProcessLogEntry
  PROVE  IInv'
<1>1. /\ tenants' = tenants /\ keyOwner' = keyOwner
      /\ had' = had /\ moved' = moved
      /\ call' = call /\ tenantConns' = tenantConns
      /\ logChannel # <<>> /\ logChannel' = Tail(logChannel)
  BY DEF ProcessLogEntry, storageVars, historyVars
<1>2. logChannel \in Seq(Calls) /\ Len(logChannel) <= LogCap
  BY DEF IInv, TypeOK
<1>3. Tail(logChannel) \in Seq(Calls) /\ Len(Tail(logChannel)) = Len(logChannel) - 1
  BY <1>1, <1>2
<1>4. logChannel' \in Seq(Calls) /\ Len(logChannel') <= LogCap
  BY <1>1, <1>2, <1>3, ProxyAssumption
<1>5. TypeOK'
  BY <1>1, <1>4 DEF IInv, TypeOK, StorageTypeOK
<1> QED
  BY <1>1, <1>5 DEF IInv, TenantIsRight, CallIsRight, OwnKey, Stored

LEMMA Inductive == IInv /\ [Next]_vars => IInv'
<1> SUFFICES ASSUME IInv, [Next]_vars PROVE IInv'
  OBVIOUS
<1>1. ASSUME NEW c \in Calls, Authenticate(c) PROVE IInv'
  BY <1>1, AuthenticateStep
<1>2. ASSUME NEW c \in Calls, CallStep(c) \/ StreamEnds(c) PROVE IInv'
  BY <1>2, CallStepStep
<1>3. CASE ProcessLogEntry
  BY <1>3, LogStep
<1>4. ASSUME NEW t \in Tenants, Written(t) PROVE IInv'
  BY <1>4, WrittenStep
<1>5. CASE UNCHANGED vars
  BY <1>5 DEF vars, storageVars, historyVars, IInv, TypeOK, StorageTypeOK,
              TenantIsRight, CallIsRight, OwnKey, Stored
<1> QED
  BY <1>1, <1>2, <1>3, <1>4, <1>5 DEF Next

----------------------------------------------------------------------------
(* Types: calls, the pool and the log keep their types, and the log        *)
(* channel never holds more than its capacity.                             *)
THEOREM TypeCorrect == Spec => []TypeOK
<1>1. IInv => TypeOK
  BY DEF IInv
<1> QED
  BY <1>1, InitIInv, Inductive, PTL DEF Spec

(* authStreamInterceptor: a call is served as the tenant its key was       *)
(* generated for, however often keys are regenerated meanwhile.            *)
THEOREM CallsAreOwn == Spec => []ServedAsKeyOwner
<1>1. IInv => ServedAsKeyOwner
  BY DEF IInv, CallIsRight, ServedAsKeyOwner
<1> QED
  BY <1>1, InitIInv, Inductive, PTL DEF Spec

(* getTenantConnection: whoever writes the row and however old the copy is *)
(* that it writes, the connection leads to an address the call's tenant    *)
(* has or had, and to the one the call was let in with unless the address  *)
(* was changed behind the pool or behind a call.                           *)
THEOREM CallsAreRouted == Spec => []RoutedToAddress
<1>1. IInv => RoutedToAddress
  BY DEF IInv, CallIsRight, RoutedToAddress
<1> QED
  BY <1>1, InitIInv, Inductive, PTL DEF Spec
=============================================================================
