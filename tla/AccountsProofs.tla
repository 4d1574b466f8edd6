--------------------------- MODULE AccountsProofs ---------------------------
(***************************************************************************)
(* For any number of users, tokens, tenants and requests: accounts, tokens *)
(* and requests never get mixed up, whatever interleaves and whatever a    *)
(* statement reports.  The properties are not inductive: they hold because *)
(* ids and tokens are drawn once, because the tables' constraints keep     *)
(* sessions and accounts together, and because of what every handler knows *)
(* about the rows it read before.                                          *)
(***************************************************************************)
EXTENDS Accounts, TLAPS

(* What is stored, handed out or gone was drawn. *)
StoredIsDrawn ==
    /\ \A u \in UserIds : StoredUser(u) => u \in drawn
    /\ \A k \in Tokens : sessions[k] # None => k \in drawn
    /\ \A k \in Tokens : k \in handed \cup ended \cup expired => k \in drawn
    /\ \A t \in Tenants : owner[t] # None => t \in drawn

(* The foreign key of auth_tokens. *)
SessionHasUser ==
    \A k \in Tokens :
        sessions[k] # None => sessions[k] \in UserIds /\ StoredUser(sessions[k])

(* The id of a signup that is about to insert belongs to it alone. *)
NewIdIsOwn ==
    \A h \in Handlers :
        req[h].step = "createUser" =>
            /\ req[h].user \in UserIds /\ req[h].user \in drawn
            /\ req[h].cred \in Credentials
            /\ ~StoredUser(req[h].user)
            /\ \A g \in Handlers \ {h} : req[g].user # req[h].user

(* What a request relies on after the rows it read may have changed. *)
Relies(r) ==
    /\ r.step = "idle" => r.user = None
    /\ r.step # "idle" => r.user \in UserIds /\ r.user \in drawn
    /\ r.step = "createToken" /\ StoredUser(r.user) => users[r.user] = r.cred
    /\ r.step \in {"resolve", "act", "write"} => r.token \in Tokens /\ r.token \in drawn
    /\ r.step = "resolve" /\ StoredUser(r.user) => users[r.user] = proof[r.token]
    /\ r.step \in {"act", "write"} => r.cred = proof[r.token]
    /\ r.step = "write" => /\ r.tenant \in Tenants /\ r.tenant \in drawn
                           /\ owner[r.tenant] \in {r.user, None}

RequestsRely == \A h \in Handlers : Relies(req[h])

IInv ==
    /\ TypeOK
    /\ StoredIsDrawn
    /\ SessionHasUser
    /\ NewIdIsOwn
    /\ RequestsRely
    /\ OneAccountPerEmail
    /\ SessionOwner
    /\ AnsweredSessionHolds

----------------------------------------------------------------------------
LEMMA InitIInv == Init => IInv
<1> SUFFICES ASSUME Init PROVE IInv
  OBVIOUS
<1> USE AccountsAssumption DEF Init, Idle, NoAccount, Credentials
<1>1. TypeOK
  BY DEF TypeOK, Request, Steps
<1>2. StoredIsDrawn /\ SessionHasUser
  BY DEF StoredIsDrawn, SessionHasUser, StoredUser
<1>3. NewIdIsOwn /\ RequestsRely
  BY DEF NewIdIsOwn, RequestsRely, Relies
<1>4. OneAccountPerEmail /\ SessionOwner /\ AnsweredSessionHolds
  BY DEF OneAccountPerEmail, SessionOwner, AnsweredSessionHolds, StoredUser
<1> QED
  BY <1>1, <1>2, <1>3, <1>4 DEF IInv

(* A step that only moves one handler on: what it has to show. *)
LEMMA RequestStep ==
  ASSUME IInv, NEW h \in Handlers, NEW r \in Request,
         UNCHANGED <<tables, history>>,
         drawn \subseteq drawn',
         drawn' \subseteq UserIds \cup Tokens \cup Tenants,
         req' = [req EXCEPT ![h] = r],
         r.step = "createUser" =>
            /\ r.user \in UserIds /\ r.user \in drawn'
            /\ r.cred \in Credentials
            /\ ~StoredUser(r.user)
            /\ \A g \in Handlers \ {h} : req[g].user # r.user,
         \A g \in Handlers \ {h} :
            req[g].step = "createUser" => req[g].user # r.user,
         Relies(r)'
  PROVE  IInv'
<1>1. /\ users' = users /\ sessions' = sessions /\ expired' = expired
      /\ owner' = owner /\ proof' = proof /\ handed' = handed /\ ended' = ended
  BY DEF tables, history
<1>2. req \in [Handlers -> Request]
  BY DEF IInv, TypeOK
<1>3. req'[h] = r /\ \A g \in Handlers \ {h} : req'[g] = req[g]
  BY <1>2
<1>4. TypeOK'
  BY <1>1, <1>2 DEF IInv, TypeOK
<1>5. StoredIsDrawn' /\ SessionHasUser'
  BY <1>1 DEF IInv, StoredIsDrawn, SessionHasUser, StoredUser
<1>6. NewIdIsOwn'
  <2> SUFFICES ASSUME NEW g \in Handlers, req'[g].step = "createUser"
               PROVE  /\ req'[g].user \in UserIds /\ req'[g].user \in drawn'
                      /\ req'[g].cred \in Credentials
                      /\ users'[req'[g].user] = NoAccount
                      /\ \A f \in Handlers \ {g} : req'[f].user # req'[g].user
    BY DEF NewIdIsOwn, StoredUser
  <2>1. CASE g = h
    BY <1>1, <1>3, <2>1 DEF StoredUser
  <2>2. CASE g # h
    BY <1>1, <1>3, <2>2 DEF IInv, NewIdIsOwn, StoredUser
  <2> QED
    BY <2>1, <2>2
<1>7. RequestsRely'
  <2> SUFFICES ASSUME NEW g \in Handlers PROVE Relies(req[g])'
    BY DEF RequestsRely
  <2>1. CASE g = h
    BY <1>3, <2>1 DEF Relies, StoredUser
  <2>2. CASE g # h
    <3>1. req'[g] = req[g] /\ Relies(req[g])
      BY <1>3, <2>2 DEF IInv, RequestsRely
    <3> QED
      BY <1>1, <3>1 DEF Relies, StoredUser
  <2> QED
    BY <2>1, <2>2
<1>8. (OneAccountPerEmail /\ SessionOwner /\ AnsweredSessionHolds)'
  BY <1>1 DEF IInv, OneAccountPerEmail, SessionOwner, AnsweredSessionHolds,
              StoredUser
<1> QED
  BY <1>4, <1>5, <1>6, <1>7, <1>8 DEF IInv

----------------------------------------------------------------------------
LEMMA TypesOfDrawn == IInv => drawn \subseteq UserIds \cup Tokens \cup Tenants
BY DEF IInv, TypeOK

LEMMA SignupCheckStep ==
  ASSUME IInv, NEW h \in Handlers, SignupCheck(h) PROVE IInv'
<1> PICK c \in Credentials, u \in UserIds :
      /\ Fresh(u)
      /\ drawn' = drawn \cup {u}
      /\ Continue(h, [Idle EXCEPT !.step = "createUser", !.cred = c, !.user = u])
  BY DEF SignupCheck
<1> PICK r : r = [Idle EXCEPT !.step = "createUser", !.cred = c, !.user = u]
  OBVIOUS
<1>1. r \in Request /\ r.step = "createUser" /\ r.cred = c /\ r.user = u
  BY DEF Idle, Request, Steps
<1>2. \A g \in Handlers : req[g].user # r.user
  BY <1>1, AccountsAssumption
     DEF IInv, RequestsRely, Relies, Fresh
<1>3. ~StoredUser(r.user)
  BY <1>1 DEF IInv, StoredIsDrawn, Fresh
<1>4. /\ UNCHANGED <<tables, history>> /\ drawn' = drawn \cup {u}
      /\ req' = [req EXCEPT ![h] = r]
  BY DEF SignupCheck, Continue
<1>5. Relies(r)'
  BY <1>1 DEF Relies
<1> QED
  BY <1>1, <1>2, <1>3, <1>4, <1>5, TypesOfDrawn, RequestStep

LEMMA LoginCheckStep ==
  ASSUME IInv, NEW h \in Handlers, LoginCheck(h) PROVE IInv'
<1> PICK u \in UserIds :
      /\ StoredUser(u)
      /\ Continue(h, [Idle EXCEPT !.step = "createToken", !.cred = users[u],
                                  !.user = u])
  BY DEF LoginCheck
<1> PICK r : r = [Idle EXCEPT !.step = "createToken", !.cred = users[u],
                             !.user = u]
  OBVIOUS
<1>1. /\ r \in Request /\ r.step = "createToken" /\ r.cred = users[u]
      /\ r.user = u
  BY DEF Idle, Request, Steps, IInv, TypeOK
<1>2. \A g \in Handlers \ {h} : req[g].step = "createUser" => req[g].user # r.user
  BY <1>1 DEF IInv, NewIdIsOwn
<1>3. /\ UNCHANGED <<tables, history>> /\ drawn' = drawn
      /\ req' = [req EXCEPT ![h] = r]
  BY DEF LoginCheck, Continue
<1>4. Relies(r)'
  BY <1>1, <1>3 DEF Relies, StoredUser, tables, IInv, StoredIsDrawn
<1> QED
  BY <1>1, <1>2, <1>3, <1>4, TypesOfDrawn, RequestStep

LEMMA AuthenticateStep ==
  ASSUME IInv, NEW h \in Handlers, Authenticate(h) PROVE IInv'
<1> PICK k \in Tokens :
      /\ ValidToken(k)
      /\ Continue(h, [Idle EXCEPT !.step = "resolve", !.token = k,
                                  !.user = sessions[k]])
  BY DEF Authenticate
<1> PICK r : r = [Idle EXCEPT !.step = "resolve", !.token = k,
                             !.user = sessions[k]]
  OBVIOUS
<1>1. /\ r \in Request /\ r.step = "resolve" /\ r.token = k
      /\ r.user = sessions[k]
  BY DEF Idle, Request, Steps, IInv, TypeOK
<1>2. /\ sessions[k] \in UserIds /\ StoredUser(sessions[k])
      /\ sessions[k] \in drawn /\ k \in drawn
      /\ users[sessions[k]] = proof[k]
  BY DEF ValidToken, IInv, SessionHasUser, StoredIsDrawn, SessionOwner
<1>3. \A g \in Handlers \ {h} : req[g].step = "createUser" => req[g].user # r.user
  BY <1>1, <1>2 DEF IInv, NewIdIsOwn
<1>4. /\ UNCHANGED <<tables, history>> /\ drawn' = drawn
      /\ req' = [req EXCEPT ![h] = r]
  BY DEF Authenticate, Continue
<1>5. Relies(r)'
  BY <1>1, <1>2, <1>4 DEF Relies, StoredUser, tables, history
<1> QED
  BY <1>1, <1>3, <1>4, <1>5, TypesOfDrawn, RequestStep

(* The answer of a request that changed no table. *)
LEMMA IdleRelies == Idle \in Request /\ Relies(Idle)' /\ Idle.user = None
                    /\ Idle.step = "idle"
BY DEF Idle, Request, Steps, Relies

LEMMA AnswerStep ==
  ASSUME IInv, NEW h \in Handlers, Answer(h),
         UNCHANGED <<tables, drawn, history>>
  PROVE  IInv'
<1>1. \A g \in Handlers \ {h} :
         req[g].step = "createUser" => req[g].user # Idle.user
  BY IdleRelies, AccountsAssumption DEF IInv, NewIdIsOwn
<1> QED
  BY <1>1, IdleRelies, TypesOfDrawn, RequestStep DEF Answer

LEMMA ResolveStep ==
  ASSUME IInv, NEW h \in Handlers, Resolve(h) PROVE IInv'
<1>1. CASE Answer(h)
  BY <1>1, AnswerStep DEF Resolve
<1>2. CASE /\ UserExists(req[h].user)
           /\ Continue(h, [req[h] EXCEPT !.step = "act",
                                         !.cred = users[req[h].user]])
  <2> PICK r : r = [req[h] EXCEPT !.step = "act", !.cred = users[req[h].user]]
    OBVIOUS
  <2>1. /\ req[h] \in Request /\ req[h].step = "resolve"
        /\ req[h].user \in UserIds /\ req[h].user \in drawn
        /\ req[h].token \in Tokens /\ req[h].token \in drawn
        /\ users[req[h].user] = proof[req[h].token]
        /\ StoredUser(req[h].user)
    BY <1>2 DEF Resolve, UserExists, IInv, TypeOK, RequestsRely, Relies
  <2>2. /\ r \in Request /\ r.step = "act" /\ r.cred = users[req[h].user]
        /\ r.user = req[h].user /\ r.token = req[h].token
    BY <2>1 DEF Request, Steps, IInv, TypeOK
  <2>3. \A g \in Handlers \ {h} :
           req[g].step = "createUser" => req[g].user # r.user
    BY <2>1, <2>2 DEF IInv, NewIdIsOwn
  <2>4. /\ UNCHANGED <<tables, history>> /\ drawn' = drawn
      /\ req' = [req EXCEPT ![h] = r]
    BY <1>2 DEF Resolve, Continue
  <2>5. Relies(r)'
    BY <2>1, <2>2, <2>4 DEF Relies, StoredUser, tables, history
  <2> QED
    BY <2>2, <2>3, <2>4, <2>5, TypesOfDrawn, RequestStep
<1> QED
  BY <1>1, <1>2 DEF Resolve

LEMMA AdminLookupStep ==
  ASSUME IInv, NEW h \in Handlers, AdminLookup(h) PROVE IInv'
<1> PICK u \in UserIds :
      /\ StoredUser(u)
      /\ Continue(h, [Idle EXCEPT !.step = "adminCreate", !.user = u])
  BY DEF AdminLookup
<1> PICK r : r = [Idle EXCEPT !.step = "adminCreate", !.user = u]
  OBVIOUS
<1>1. r \in Request /\ r.step = "adminCreate" /\ r.user = u
  BY DEF Idle, Request, Steps
<1>2. \A g \in Handlers \ {h} : req[g].step = "createUser" => req[g].user # r.user
  BY <1>1 DEF IInv, NewIdIsOwn
<1>3. /\ UNCHANGED <<tables, history>> /\ drawn' = drawn
      /\ req' = [req EXCEPT ![h] = r]
  BY DEF AdminLookup, Continue
<1>4. Relies(r)'
  BY <1>1, <1>3 DEF Relies, StoredUser, tables, IInv, StoredIsDrawn
<1> QED
  BY <1>1, <1>2, <1>3, <1>4, TypesOfDrawn, RequestStep

LEMMA FetchTenantStep ==
  ASSUME IInv, NEW h \in Handlers, FetchTenant(h) PROVE IInv'
<1> PICK t \in Tenants :
      /\ owner[t] = req[h].user
      /\ Continue(h, [req[h] EXCEPT !.step = "write", !.tenant = t])
  BY DEF FetchTenant
<1> PICK r : r = [req[h] EXCEPT !.step = "write", !.tenant = t]
  OBVIOUS
<1>1. /\ req[h] \in Request /\ req[h].step = "act"
      /\ req[h].user \in UserIds /\ req[h].user \in drawn
      /\ req[h].token \in Tokens /\ req[h].token \in drawn
      /\ req[h].cred = proof[req[h].token]
  BY DEF FetchTenant, IInv, TypeOK, RequestsRely, Relies
<1>2. /\ r \in Request /\ r.step = "write" /\ r.tenant = t
      /\ r.user = req[h].user /\ r.token = req[h].token /\ r.cred = req[h].cred
  BY <1>1 DEF Request, Steps
<1>3. \A g \in Handlers \ {h} : req[g].step = "createUser" => req[g].user # r.user
  BY <1>2 DEF IInv, NewIdIsOwn
<1>4. /\ UNCHANGED <<tables, history>> /\ drawn' = drawn
      /\ req' = [req EXCEPT ![h] = r]
  BY DEF FetchTenant, Continue
<1>5. t \in drawn
  BY <1>1, AccountsAssumption DEF IInv, StoredIsDrawn
<1>6. Relies(r)'
  BY <1>1, <1>2, <1>4, <1>5 DEF Relies, StoredUser, tables, history
<1> QED
  BY <1>2, <1>3, <1>4, <1>6, TypesOfDrawn, RequestStep

LEMMA WriteTenantStep ==
  ASSUME IInv, NEW h \in Handlers, WriteTenant(h) PROVE IInv'
BY AnswerStep DEF WriteTenant

----------------------------------------------------------------------------
(* What handlers rely on survives every step that inserts no user, and     *)
(* changes the owner of a tenant or the credentials of a token only when   *)
(* it inserts them.                                                        *)
LEMMA RelianceKept ==
  ASSUME IInv,
         req' \in [Handlers -> Request],
         \A g \in Handlers : req'[g] \in {req[g], Idle},
         drawn \subseteq drawn',
         \A u \in UserIds : users'[u] \in {users[u], NoAccount},
         \A t \in Tenants : t \in drawn => owner'[t] \in {owner[t], None},
         \A k \in Tokens : k \in drawn => proof'[k] = proof[k]
  PROVE  NewIdIsOwn' /\ RequestsRely'
<1>1. NewIdIsOwn'
  <2> SUFFICES ASSUME NEW g \in Handlers, req'[g].step = "createUser"
               PROVE  /\ req'[g].user \in UserIds /\ req'[g].user \in drawn'
                      /\ req'[g].cred \in Credentials
                      /\ users'[req'[g].user] = NoAccount
                      /\ \A f \in Handlers \ {g} : req'[f].user # req'[g].user
    BY DEF NewIdIsOwn, StoredUser
  <2>1. req'[g] = req[g]
    BY IdleRelies
  <2> QED
    BY <2>1, IdleRelies, AccountsAssumption DEF IInv, NewIdIsOwn, StoredUser
<1>2. RequestsRely'
  <2> SUFFICES ASSUME NEW g \in Handlers PROVE Relies(req[g])'
    BY DEF RequestsRely
  <2>1. CASE req'[g] = Idle
    BY <2>1, IdleRelies DEF Relies
  <2>2. CASE req'[g] = req[g]
    <3>1. Relies(req[g])
      BY DEF IInv, RequestsRely
    <3> QED
      BY <2>2, <3>1 DEF Relies, StoredUser
  <2> QED
    BY <2>1, <2>2
<1> QED
  BY <1>1, <1>2

LEMMA AnswerMoves ==
  ASSUME IInv, NEW h \in Handlers, Answer(h)
  PROVE  /\ req' \in [Handlers -> Request]
         /\ \A g \in Handlers : req'[g] \in {req[g], Idle}
BY IdleRelies DEF IInv, TypeOK, Answer

LEMMA CreateTokenStep ==
  ASSUME IInv, NEW h \in Handlers, CreateToken(h) PROVE IInv'
<1> PICK k \in Tokens, out \in Outcomes :
      LET stored == out # "err" /\ UserExists(req[h].user) IN
      /\ Fresh(k)
      /\ drawn' = drawn \cup {k}
      /\ sessions' = IF stored THEN [sessions EXCEPT ![k] = req[h].user]
                               ELSE sessions
      /\ proof' = [proof EXCEPT ![k] = req[h].cred]
      /\ handed' = IF stored /\ out = "ok" THEN handed \cup {k} ELSE handed
  BY DEF CreateToken
<1>1. /\ users' = users /\ expired' = expired /\ owner' = owner /\ ended' = ended
      /\ Answer(h) /\ k \notin drawn
  BY DEF CreateToken, Fresh
<1>2. /\ req[h] \in Request /\ req[h].user \in UserIds
      /\ StoredUser(req[h].user) => users[req[h].user] = req[h].cred
  BY DEF CreateToken, IInv, TypeOK, RequestsRely, Relies
<1>3. TypeOK'
  BY <1>1, <1>2, AnswerMoves DEF IInv, TypeOK, Request
<1>4. sessions \in [Tokens -> UserIds \cup {None}] /\ proof \in [Tokens -> Credentials \cup {NoAccount}]
  BY DEF IInv, TypeOK
<1>5. /\ \A j \in Tokens \ {k} : sessions'[j] = sessions[j] /\ proof'[j] = proof[j]
      /\ proof'[k] = req[h].cred
      /\ \/ sessions'[k] = req[h].user /\ StoredUser(req[h].user)
         \/ sessions'[k] = sessions[k] /\ handed' = handed
      /\ handed' \in {handed, handed \cup {k}}
  BY <1>4 DEF UserExists
<1>6. sessions[k] = None /\ k \notin handed \cup ended
  BY <1>1 DEF IInv, StoredIsDrawn
<1>7. StoredIsDrawn'
  BY <1>1, <1>5, <1>6 DEF IInv, StoredIsDrawn, StoredUser
<1>8. SessionHasUser'
  BY <1>1, <1>2, <1>5, <1>6 DEF IInv, SessionHasUser, StoredUser
<1>9. NewIdIsOwn' /\ RequestsRely'
  BY <1>1, <1>5, AnswerMoves, RelianceKept
<1>10. OneAccountPerEmail'
  BY <1>1 DEF IInv, OneAccountPerEmail, StoredUser
<1>11. SessionOwner'
  BY <1>1, <1>2, <1>5, <1>6 DEF IInv, SessionOwner
<1>12. AnsweredSessionHolds'
  BY <1>1, <1>2, <1>5, <1>6, AccountsAssumption DEF IInv, AnsweredSessionHolds
<1> QED
  BY <1>3, <1>7, <1>8, <1>9, <1>10, <1>11, <1>12 DEF IInv

LEMMA CreateTenantStep ==
  ASSUME IInv, NEW h \in Handlers, CreateTenant(h) PROVE IInv'
<1> PICK t \in Tenants, out \in Outcomes :
      /\ Fresh(t)
      /\ drawn' = drawn \cup {t}
      /\ owner' = IF out # "err" /\ UserExists(req[h].user)
                  THEN [owner EXCEPT ![t] = req[h].user] ELSE owner
  BY DEF CreateTenant
<1>1. /\ users' = users /\ sessions' = sessions /\ expired' = expired
      /\ proof' = proof /\ handed' = handed /\ ended' = ended
      /\ Answer(h) /\ t \notin drawn
  BY DEF CreateTenant, Fresh, history
<1>2. req[h].user \in UserIds
  BY DEF CreateTenant, IInv, RequestsRely, Relies
<1>3. TypeOK'
  BY <1>1, <1>2, AnswerMoves DEF IInv, TypeOK
<1>4. \A x \in Tenants \ {t} : owner'[x] = owner[x]
  BY DEF IInv, TypeOK
<1>5. StoredIsDrawn' /\ SessionHasUser'
  BY <1>1, <1>4 DEF IInv, StoredIsDrawn, SessionHasUser, StoredUser
<1>6. NewIdIsOwn' /\ RequestsRely'
  BY <1>1, <1>4, AnswerMoves, RelianceKept
<1>7. (OneAccountPerEmail /\ SessionOwner /\ AnsweredSessionHolds)'
  BY <1>1 DEF IInv, OneAccountPerEmail, SessionOwner, AnsweredSessionHolds,
              StoredUser
<1> QED
  BY <1>3, <1>5, <1>6, <1>7 DEF IInv

LEMMA CreateUserStep ==
  ASSUME IInv, NEW h \in Handlers, CreateUser(h) PROVE IInv'
<1> PICK u, c : u = req[h].user /\ c = req[h].cred
  OBVIOUS
<1> PICK r : \/ r = Idle
             \/ r = [req[h] EXCEPT !.step = "createToken"]
             /\ req' = [req EXCEPT ![h] = r]
  BY DEF CreateUser, Answer, Continue
<1>1. /\ u \in UserIds /\ u \in drawn /\ c \in Credentials
      /\ users[u] = NoAccount
      /\ \A g \in Handlers \ {h} : req[g].user # u
  BY DEF CreateUser, IInv, NewIdIsOwn, StoredUser
<1>2. /\ sessions' = sessions /\ expired' = expired /\ owner' = owner
      /\ drawn' = drawn /\ proof' = proof /\ handed' = handed /\ ended' = ended
  BY DEF CreateUser, history
<1>3. /\ users' \in [UserIds -> Credentials \cup {NoAccount}]
      /\ \A v \in UserIds \ {u} : users'[v] = users[v]
      /\ \/ users'[u] = NoAccount
         \/ users'[u] = c /\ \A v \in UserIds : users[v].email # c.email
  BY <1>1 DEF CreateUser, Insertable, EmailTaken, IInv, TypeOK
<1>4. /\ r \in Request /\ r.step \in {"idle", "createToken"}
      /\ r.step = "idle" => r.user = None
      /\ r.step = "createToken" => r.user = u /\ r.cred = c
      /\ r.user \in {u, None}
  BY IdleRelies DEF IInv, TypeOK, Request, Steps
<1>5. req'[h] = r /\ \A g \in Handlers \ {h} : req'[g] = req[g]
  BY DEF IInv, TypeOK
<1>6. TypeOK'
  BY <1>2, <1>3, <1>4 DEF IInv, TypeOK
<1>7. StoredIsDrawn'
  BY <1>1, <1>2, <1>3 DEF IInv, StoredIsDrawn, StoredUser
<1>8. SessionHasUser' /\ SessionOwner'
  BY <1>1, <1>2, <1>3 DEF IInv, SessionHasUser, SessionOwner, StoredUser
<1>9. NewIdIsOwn'
  <2> SUFFICES ASSUME NEW g \in Handlers, req'[g].step = "createUser"
               PROVE  /\ req'[g].user \in UserIds /\ req'[g].user \in drawn'
                      /\ req'[g].cred \in Credentials
                      /\ users'[req'[g].user] = NoAccount
                      /\ \A f \in Handlers \ {g} : req'[f].user # req'[g].user
    BY DEF NewIdIsOwn, StoredUser
  <2>1. g # h /\ req'[g] = req[g]
    BY <1>4, <1>5
  <2>2. /\ req[g].user \in UserIds /\ req[g].user \in drawn
        /\ req[g].cred \in Credentials
        /\ users[req[g].user] = NoAccount
        /\ \A f \in Handlers \ {g} : req[f].user # req[g].user
    BY <2>1 DEF IInv, NewIdIsOwn, StoredUser
  <2>3. users'[req'[g].user] = NoAccount
    BY <1>1, <1>3, <2>1, <2>2
  <2>4. \A f \in Handlers \ {g} : req'[f].user # req'[g].user
    BY <1>1, <1>4, <1>5, <2>1, <2>2, AccountsAssumption
  <2> QED
    BY <1>2, <2>1, <2>2, <2>3, <2>4
<1>10. RequestsRely'
  <2> SUFFICES ASSUME NEW g \in Handlers PROVE Relies(req[g])'
    BY DEF RequestsRely
  <2>1. CASE g = h
    BY <1>1, <1>2, <1>3, <1>4, <1>5, <2>1 DEF Relies, StoredUser
  <2>2. CASE g # h
    <3>1. Relies(req[g]) /\ req'[g] = req[g] /\ req[g].user # u
      BY <1>1, <1>5, <2>2 DEF IInv, RequestsRely
    <3> QED
      BY <1>2, <1>3, <3>1 DEF Relies, StoredUser
  <2> QED
    BY <2>1, <2>2
<1>11. OneAccountPerEmail'
  BY <1>1, <1>3 DEF IInv, OneAccountPerEmail, StoredUser
<1>12. AnsweredSessionHolds'
  BY <1>2 DEF IInv, AnsweredSessionHolds
<1> QED
  BY <1>6, <1>7, <1>8, <1>9, <1>10, <1>11, <1>12 DEF IInv

(* Logout, the clock, the purge and DeleteUser only take rows away. *)
LEMMA LogoutStep == ASSUME IInv, NEW k \in Tokens, Logout(k) PROVE IInv'
<1>1. /\ users' = users /\ owner' = owner /\ drawn' = drawn /\ req' = req
      /\ proof' = proof /\ handed' = handed
      /\ sessions' = [sessions EXCEPT ![k] = None]
      /\ ended' = ended \cup {k} /\ expired' = expired \ {k}
      /\ sessions[k] # None
  BY DEF Logout
<1>2. TypeOK'
  BY <1>1 DEF IInv, TypeOK
<1>3. sessions'[k] = None /\ \A j \in Tokens \ {k} : sessions'[j] = sessions[j]
  BY <1>1 DEF IInv, TypeOK
<1>4. StoredIsDrawn'
  BY <1>1, <1>3 DEF IInv, StoredIsDrawn, StoredUser
<1>5. SessionHasUser' /\ SessionOwner'
  BY <1>1, <1>3 DEF IInv, SessionHasUser, SessionOwner, StoredUser
<1>6. NewIdIsOwn' /\ RequestsRely'
  BY <1>1, RelianceKept DEF IInv, TypeOK
<1>7. OneAccountPerEmail'
  BY <1>1 DEF IInv, OneAccountPerEmail, StoredUser
<1>8. AnsweredSessionHolds'
  BY <1>1, <1>3 DEF IInv, AnsweredSessionHolds, TypeOK
<1> QED
  BY <1>2, <1>4, <1>5, <1>6, <1>7, <1>8 DEF IInv

LEMMA ExpireStep == ASSUME IInv, NEW k \in Tokens, Expire(k) PROVE IInv'
<1>1. /\ users' = users /\ sessions' = sessions /\ owner' = owner
      /\ drawn' = drawn /\ req' = req /\ proof' = proof /\ handed' = handed
      /\ ended' = ended /\ expired' = expired \cup {k} /\ sessions[k] # None
  BY DEF Expire, history
<1>2. TypeOK'
  BY <1>1 DEF IInv, TypeOK
<1>3. StoredIsDrawn' /\ SessionHasUser'
  BY <1>1 DEF IInv, StoredIsDrawn, SessionHasUser, StoredUser
<1>4. NewIdIsOwn' /\ RequestsRely'
  BY <1>1, RelianceKept DEF IInv, TypeOK
<1>5. (OneAccountPerEmail /\ SessionOwner /\ AnsweredSessionHolds)'
  BY <1>1 DEF IInv, OneAccountPerEmail, SessionOwner, AnsweredSessionHolds,
              StoredUser
<1> QED
  BY <1>2, <1>3, <1>4, <1>5 DEF IInv

LEMMA DeleteExpiredTokensStep ==
  ASSUME IInv, DeleteExpiredTokens PROVE IInv'
<1>1. /\ users' = users /\ owner' = owner /\ drawn' = drawn /\ req' = req
      /\ proof' = proof /\ handed' = handed
      /\ ended' = ended \cup expired /\ expired' = {}
      /\ \A k \in Tokens : sessions'[k] = IF k \in expired THEN None
                                                         ELSE sessions[k]
  BY DEF DeleteExpiredTokens
<1>2. TypeOK'
  BY DEF DeleteExpiredTokens, IInv, TypeOK
<1>4. StoredIsDrawn'
  BY <1>1 DEF IInv, StoredIsDrawn, StoredUser
<1>5. SessionHasUser' /\ SessionOwner'
  BY <1>1 DEF IInv, SessionHasUser, SessionOwner, StoredUser
<1>6. NewIdIsOwn' /\ RequestsRely'
  BY <1>1, RelianceKept DEF IInv, TypeOK
<1>7. OneAccountPerEmail'
  BY <1>1 DEF IInv, OneAccountPerEmail, StoredUser
<1>8. AnsweredSessionHolds'
  BY <1>1 DEF IInv, AnsweredSessionHolds, TypeOK
<1> QED
  BY <1>2, <1>4, <1>5, <1>6, <1>7, <1>8 DEF IInv

LEMMA DeleteUserStep == ASSUME IInv, NEW u \in UserIds, DeleteUser(u) PROVE IInv'
<1>1. /\ drawn' = drawn /\ req' = req /\ proof' = proof /\ handed' = handed
      /\ users' = [users EXCEPT ![u] = NoAccount]
      /\ \A k \in Tokens : sessions'[k] = IF sessions[k] = u THEN None
                                                             ELSE sessions[k]
      /\ \A t \in Tenants : owner'[t] \in {owner[t], None}
      /\ ended' = ended \cup {k \in Tokens : sessions[k] = u}
      /\ expired' \subseteq expired
  BY DEF DeleteUser
<1>2. TypeOK'
  BY DEF DeleteUser, IInv, TypeOK
<1>3. users'[u] = NoAccount /\ \A v \in UserIds \ {u} : users'[v] = users[v]
  BY <1>1 DEF IInv, TypeOK
<1>4. StoredIsDrawn'
  BY <1>1, <1>3, AccountsAssumption DEF IInv, StoredIsDrawn, StoredUser
<1>5. SessionHasUser' /\ SessionOwner'
  BY <1>1, <1>3 DEF IInv, SessionHasUser, SessionOwner, StoredUser
<1>6. NewIdIsOwn' /\ RequestsRely'
  <2>1. /\ req' \in [Handlers -> Request]
        /\ \A g \in Handlers : req'[g] \in {req[g], Idle}
    BY <1>1 DEF IInv, TypeOK
  <2> QED
    BY <1>1, <1>3, <2>1, RelianceKept
<1>7. OneAccountPerEmail'
  <2> SUFFICES ASSUME NEW v \in UserIds, NEW w \in UserIds,
                      users'[v] # NoAccount, users'[w].email = users'[v].email
               PROVE  v = w
    BY DEF OneAccountPerEmail, StoredUser
  <2>1. v # u /\ users'[v] = users[v] /\ users[v] \in Credentials
    BY <1>3 DEF IInv, TypeOK
  <2>2. w # u /\ users'[w] = users[w]
    BY <1>3, <2>1, AccountsAssumption DEF NoAccount, Credentials
  <2> QED
    BY <2>1, <2>2 DEF IInv, OneAccountPerEmail, StoredUser
<1>8. AnsweredSessionHolds'
  BY <1>1, AccountsAssumption DEF IInv, AnsweredSessionHolds, TypeOK
<1> QED
  BY <1>2, <1>4, <1>5, <1>6, <1>7, <1>8 DEF IInv

----------------------------------------------------------------------------
LEMMA NextIInv == IInv /\ [Next]_vars => IInv'
<1> SUFFICES ASSUME IInv, [Next]_vars PROVE IInv'
  OBVIOUS
<1>1. ASSUME NEW h \in Handlers, SignupCheck(h) PROVE IInv'
  BY <1>1, SignupCheckStep
<1>2. ASSUME NEW h \in Handlers, CreateUser(h) PROVE IInv'
  BY <1>2, CreateUserStep
<1>3. ASSUME NEW h \in Handlers, LoginCheck(h) PROVE IInv'
  BY <1>3, LoginCheckStep
<1>4. ASSUME NEW h \in Handlers, CreateToken(h) PROVE IInv'
  BY <1>4, CreateTokenStep
<1>5. ASSUME NEW h \in Handlers, Authenticate(h) PROVE IInv'
  BY <1>5, AuthenticateStep
<1>6. ASSUME NEW h \in Handlers, Resolve(h) PROVE IInv'
  BY <1>6, ResolveStep
<1>7. ASSUME NEW h \in Handlers, AdminLookup(h) PROVE IInv'
  BY <1>7, AdminLookupStep
<1>8. ASSUME NEW h \in Handlers, CreateTenant(h) PROVE IInv'
  BY <1>8, CreateTenantStep
<1>9. ASSUME NEW h \in Handlers, FetchTenant(h) PROVE IInv'
  BY <1>9, FetchTenantStep
<1>10. ASSUME NEW h \in Handlers, WriteTenant(h) PROVE IInv'
  BY <1>10, WriteTenantStep
<1>11. ASSUME NEW k \in Tokens, Logout(k) PROVE IInv'
  BY <1>11, LogoutStep
<1>12. ASSUME NEW k \in Tokens, Expire(k) PROVE IInv'
  BY <1>12, ExpireStep
<1>13. ASSUME NEW u \in UserIds, DeleteUser(u) PROVE IInv'
  BY <1>13, DeleteUserStep
<1>14. ASSUME DeleteExpiredTokens PROVE IInv'
  BY <1>14, DeleteExpiredTokensStep
<1>15. CASE UNCHANGED vars
  <2>1. /\ UNCHANGED <<tables, history>> /\ drawn' = drawn /\ req' = req
    BY <1>15 DEF vars
  <2>2. TypeOK' /\ StoredIsDrawn' /\ SessionHasUser'
    BY <2>1 DEF IInv, TypeOK, StoredIsDrawn, SessionHasUser, StoredUser,
                tables, history
  <2>3. NewIdIsOwn' /\ RequestsRely'
    BY <2>1 DEF IInv, NewIdIsOwn, RequestsRely, Relies, StoredUser,
                tables, history
  <2>4. (OneAccountPerEmail /\ SessionOwner /\ AnsweredSessionHolds)'
    BY <2>1 DEF IInv, OneAccountPerEmail, SessionOwner, AnsweredSessionHolds,
                StoredUser, tables, history
  <2> QED
    BY <2>2, <2>3, <2>4 DEF IInv
<1> QED
  BY <1>1, <1>2, <1>3, <1>4, <1>5, <1>6, <1>7, <1>8, <1>9, <1>10, <1>11,
     <1>12, <1>13, <1>14, <1>15 DEF Next

LEMMA Inductive == Spec => []IInv
BY InitIInv, NextIInv, PTL DEF Spec

(* Every variable keeps its type. *)
THEOREM TypeCorrect == Spec => []TypeOK
<1>1. IInv => TypeOK
  BY DEF IInv
<1> QED
  BY <1>1, Inductive, PTL

(* However many signups race for an email, one account has it. *)
THEOREM EmailsAreUnique == Spec => []OneAccountPerEmail
<1>1. IInv => OneAccountPerEmail
  BY DEF IInv
<1> QED
  BY <1>1, Inductive, PTL

(* A token always resolves to the account it was issued for. *)
THEOREM SessionsAreOwn == Spec => []SessionOwner
<1>1. IInv => SessionOwner
  BY DEF IInv
<1> QED
  BY <1>1, Inductive, PTL

(* A token a client was given lasts until something ends it. *)
THEOREM AnswersHold == Spec => []AnsweredSessionHolds
<1>1. IInv => AnsweredSessionHolds
  BY DEF IInv
<1> QED
  BY <1>1, Inductive, PTL

(* A request never acts for another account nor on another's tenant. *)
THEOREM RequestsActForThemselves == Spec => []ActsForItself
<1>1. IInv => ActsForItself
  BY DEF IInv, RequestsRely, Relies, ActsForItself
<1> QED
  BY <1>1, Inductive, PTL
=============================================================================
