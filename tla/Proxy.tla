------------------------------- MODULE Proxy -------------------------------
(***************************************************************************)
(* grpc.Service: the path of one gRPC call through the proxy.  The chain   *)
(* authenticates the call against the table (auth), asks the limiter, and  *)
(* hands it to the director, which takes a connection from the pool        *)
(* (tenantConns, a sync.Map by tenant id) or creates one; when the stream  *)
(* ends the call is logged through a bounded channel.  The tenant is read  *)
(* once and kept in the context.                                           *)
(*                                                                         *)
(* The proxy never writes the table; TableWriters says what the other      *)
(* components may do to it.  Authentication is enabled (EnableAuth).       *)
(***************************************************************************)
EXTENDS TableWriters, Sequences

CONSTANTS
    Calls,            \* gRPC calls, one goroutine each
    LogCap,           \* capacity of logChannel (1000 in the code)
    NoConn            \* no connection in the pool

ASSUME ProxyAssumption ==
    /\ LogCap \in Nat
    /\ NoConn \notin Hosts \cup {NoHost}

VARIABLES
    call,             \* every call: where it stands and what it holds
    tenantConns,      \* the address the pooled connection of a tenant dials
    logChannel,       \* calls whose entry waits to be stored
    had,              \* history: the addresses the row of a tenant has had
    moved             \* history: tenants whose address changed while it was
                      \* in the pool or in a call's hands

historyVars == <<had, moved>>
vars == <<storageVars, call, tenantConns, logChannel, historyVars>>

CallSteps == {"arriving", "limit", "route", "dial", "open", "log", "done"}
Targets   == Hosts \cup {NoHost, NoConn}

(* tenant and host are those of the row kept in the context, target is the *)
(* address of the connection the director returned.                        *)
Call == [step   : CallSteps,
         key    : Keys \cup {NoKey},
         tenant : Tenants \cup {NoTenant},
         host   : Hosts \cup {NoHost},
         target : Targets]

Arriving == [step |-> "arriving", key |-> NoKey, tenant |-> NoTenant,
             host |-> NoHost, target |-> NoConn]

TypeOK ==
    /\ StorageTypeOK
    /\ call \in [Calls -> Call]
    /\ tenantConns \in [Tenants -> Targets]
    /\ logChannel \in Seq(Calls)
    /\ Len(logChannel) <= LogCap
    /\ had \in [Tenants -> SUBSET (Hosts \cup {NoHost})]
    /\ moved \subseteq Tenants

Init ==
    /\ StorageInit
    /\ call = [c \in Calls |-> Arriving]
    /\ tenantConns = [t \in Tenants |-> NoConn]
    /\ logChannel = <<>>
    /\ had = [t \in Tenants |-> {}]
    /\ moved = {}

----------------------------------------------------------------------------
Goto(c, step) == call' = [call EXCEPT ![c].step = step]
Leave(c)      == call' = [call EXCEPT ![c] = [Arriving EXCEPT !.step = "done"]]

(* validateTenant *)
Serves(t) == tenants[t].status = "active"

(* authStreamInterceptor: an unknown key, a tenant that is not active and  *)
(* a failed query refuse the call; nothing is logged.                      *)
Authenticate(c) ==
    /\ call[c].step = "arriving"
    /\ \E k \in Keys :
         \/ \E t \in GetTenantByAPIKey(k) :
              /\ Serves(t)
              /\ call' = [call EXCEPT ![c] = [step |-> "limit", key |-> k,
                             tenant |-> t, host |-> tenants[t].host,
                             target |-> NoConn]]
         \/ /\ \/ "err" \in StorageOutcomes
               \/ \A t \in GetTenantByAPIKey(k) : ~Serves(t)
            /\ Leave(c)
    /\ UNCHANGED <<storageVars, tenantConns, logChannel, historyVars>>

(* rateLimitStreamInterceptor: RateLimiter decides.  A refused call is not *)
(* logged either.                                                          *)
RateLimit(c) ==
    /\ call[c].step = "limit"
    /\ Goto(c, "route") \/ Leave(c)
    /\ UNCHANGED <<storageVars, tenantConns, logChannel, historyVars>>

(* getTenantConnection: the Load ... *)
LoadConnection(c) ==
    LET pooled == tenantConns[call[c].tenant] IN
    /\ call[c].step = "route"
    /\ IF pooled # NoConn
       THEN call' = [call EXCEPT ![c].step = "open", ![c].target = pooled]
       ELSE Goto(c, "dial")
    /\ UNCHANGED <<storageVars, tenantConns, logChannel, historyVars>>

(* Mutant: the connection is stored before the error is looked at, so the  *)
(* pool may hold the nil of a NewClient that failed.                       *)
StoreConnectionMutant(c) ==
    /\ call[c].step = "dial"
    /\ \/ /\ tenantConns' = [tenantConns EXCEPT ![call[c].tenant] = call[c].host]
          /\ call' = [call EXCEPT ![c].step = "open", ![c].target = call[c].host]
       \/ /\ tenantConns' = [tenantConns EXCEPT ![call[c].tenant] = NoHost]
          /\ Goto(c, "log")
    /\ UNCHANGED <<storageVars, logChannel, historyVars>>

(* ... and the Store: another call may have stored a connection meanwhile, *)
(* which is replaced and never closed.  NewClient does not connect yet; it *)
(* fails only for a target it cannot parse.                                *)
StoreConnection(c) ==
    /\ call[c].step = "dial"
    /\ \/ /\ tenantConns' = [tenantConns EXCEPT ![call[c].tenant] = call[c].host]
          /\ call' = [call EXCEPT ![c].step = "open", ![c].target = call[c].host]
       \/ /\ Goto(c, "log")
          /\ UNCHANGED tenantConns
    /\ UNCHANGED <<storageVars, logChannel, historyVars>>

(* The client, the tenant's machine or the network ends the stream. *)
StreamEnds(c) ==
    /\ call[c].step = "open"
    /\ Goto(c, "log")
    /\ UNCHANGED <<storageVars, tenantConns, logChannel, historyVars>>

(* Mutant: a plain send, which waits for room. *)
LogRequestMutant(c) ==
    /\ call[c].step = "log"
    /\ Len(logChannel) < LogCap
    /\ logChannel' = Append(logChannel, c)
    /\ Leave(c)
    /\ UNCHANGED <<storageVars, tenantConns, historyVars>>

(* Mutant: the entry is sent whatever the channel holds. *)
LogRequestUnbounded(c) ==
    /\ call[c].step = "log"
    /\ logChannel' = Append(logChannel, c)
    /\ Leave(c)
    /\ UNCHANGED <<storageVars, tenantConns, historyVars>>

(* logRequest: a full channel drops the entry. *)
LogRequest(c) ==
    /\ call[c].step = "log"
    /\ logChannel' = IF Len(logChannel) < LogCap THEN Append(logChannel, c)
                                                 ELSE logChannel
    /\ Leave(c)
    /\ UNCHANGED <<storageVars, tenantConns, historyVars>>

(* processLogEntries: one goroutine; an error of the insert is printed.    *)
ProcessLogEntry ==
    /\ logChannel # <<>>
    /\ logChannel' = Tail(logChannel)
    /\ UNCHANGED <<storageVars, call, tenantConns, historyVars>>

----------------------------------------------------------------------------
(* A call that was authenticated for t is on its way, or one of them left  *)
(* a connection in the pool.                                               *)
Cached(t) == \/ tenantConns[t] # NoConn
             \/ \E c \in Calls : call[c].tenant = t

(* A write of the other components.  An insert is an address had, and no   *)
(* address moved.                                                          *)
Written(t) ==
    /\ TableStep(t)
    /\ had' = [had EXCEPT ![t] = @ \cup {tenants'[t].host}]
    /\ moved' = IF tenants'[t].host # tenants[t].host /\ Cached(t)
                THEN moved \cup {t} ELSE moved
    /\ UNCHANGED <<call, tenantConns, logChannel>>

CallStep(c) == \/ RateLimit(c) \/ LoadConnection(c) \/ StoreConnection(c)
               \/ LogRequest(c)

Next ==
    \/ \E c \in Calls : Authenticate(c) \/ CallStep(c) \/ StreamEnds(c)
    \/ ProcessLogEntry
    \/ \E t \in Tenants : Written(t)

(* The goroutine of a call runs.  The one that stores log entries is not   *)
(* assumed to: its insert runs under the background context (the timeout   *)
(* made for it is dropped), so it may hang.                                *)
Fairness == \A c \in Calls : WF_vars(CallStep(c))

Spec     == Init /\ [][Next]_vars
FairSpec == Spec /\ Fairness

----------------------------------------------------------------------------
(* Safety *)

(* The pool is keyed by tenant id, filled by a Load and a Store that other *)
(* calls come between, and never invalidated, while the row is written     *)
(* back from old copies.  A connection still leads to an address that the  *)
(* call's own tenant has or had, and to the very address the call was      *)
(* authenticated with unless the row's changed while the pool or a call    *)
(* had the old one.                                                        *)
RoutedToAddress ==
    \A c \in Calls : call[c].step = "open" =>
        /\ call[c].target \in had[call[c].tenant]
        /\ call[c].tenant \notin moved => call[c].target = call[c].host

(* "Log successful routing with target IP": the address the director logs  *)
(* is the one the call goes to.                                            *)
RoutedAsLogged ==
    \A c \in Calls : call[c].step = "open" => call[c].target = call[c].host

(* A call is served as the tenant its key was generated for, whatever was  *)
(* regenerated, before and since.                                          *)
ServedAsKeyOwner ==
    \A c \in Calls : call[c].tenant # NoTenant
                     => keyOwner[call[c].key] = call[c].tenant

(* Liveness: between its arrival and its stream, and after it, a call      *)
(* waits for nobody: not for the pool, not for a full log channel whose    *)
(* consumer hangs.                                                         *)
NeverBlocked ==
    \A c \in Calls : call[c].step \in {"limit", "route", "dial", "log"}
                     ~> call[c].step \in {"open", "done"}
=============================================================================
