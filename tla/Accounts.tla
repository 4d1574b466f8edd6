------------------------------ MODULE Accounts -----------------------------
(***************************************************************************)
(* AuthAPI and what the admin API builds on it: signup, login, logout, the *)
(* middleware that turns a bearer token into a user, and the ownership     *)
(* check of a user's request for a tenant.  Every SQL statement is a step, *)
(* so two signups, or a request and a logout, interleave freely; only the  *)
(* constraints of the tables (UNIQUE email, foreign keys, ON DELETE        *)
(* CASCADE) hold their reads and writes together.                          *)
(*                                                                         *)
(* The handlers run under context.Background(), so nothing cancels them.   *)
(* Requests with the admin key pass without a user: of those only          *)
(* createTenant, which looks the owner up by email, is modelled here.      *)
(***************************************************************************)
EXTENDS Naturals, FiniteSets

CONSTANTS
    UserIds,          \* ids that generateUserID may draw
    Tokens,           \* tokens that generateToken may draw
    Tenants,          \* tenant ids
    Emails,
    Passwords,
    Handlers,         \* goroutines that serve requests
    None,             \* no user, no token, no tenant, no text
    Outcomes          \* of a write: "ok", "err" (nothing written), "lost"
                      \* (written, error returned)

ASSUME AccountsAssumption ==
    /\ None \notin UserIds \cup Tokens \cup Tenants \cup Emails \cup Passwords
    /\ Outcomes \subseteq {"ok", "err", "lost"}

VARIABLES
    users,            \* the table users: the account of every id
    sessions,         \* the table auth_tokens: the user_id of every token
    expired,          \* its tokens whose expires_at has passed
    owner,            \* tenants.user_id of every stored tenant
    drawn,            \* ids and tokens drawn so far (they are random)
    req,              \* what every handler is doing
    proof,            \* history: the credentials a token was issued for
    handed,           \* history: tokens a client was given
    ended             \* history: tokens logged out, purged or cascaded away

tables  == <<users, sessions, expired, owner>>
history == <<proof, handed, ended>>
vars    == <<tables, drawn, req, history>>

Credentials == [email : Emails, password : Passwords]
NoAccount   == [email |-> None, password |-> None]

Steps == {"idle", "createUser", "createToken",    \* Signup, Login
          "resolve", "act", "write",              \* a user's request
          "adminCreate"}                          \* the admin's createTenant

Request == [step : Steps, cred : Credentials \cup {NoAccount},
            user : UserIds \cup {None}, token : Tokens \cup {None},
            tenant : Tenants \cup {None}]

Idle == [step |-> "idle", cred |-> NoAccount, user |-> None, token |-> None,
         tenant |-> None]

TypeOK ==
    /\ users \in [UserIds -> Credentials \cup {NoAccount}]
    /\ sessions \in [Tokens -> UserIds \cup {None}]
    /\ expired \subseteq Tokens
    /\ owner \in [Tenants -> UserIds \cup {None}]
    /\ drawn \subseteq UserIds \cup Tokens \cup Tenants
    /\ req \in [Handlers -> Request]
    /\ proof \in [Tokens -> Credentials \cup {NoAccount}]
    /\ handed \subseteq Tokens
    /\ ended \subseteq Tokens

Init ==
    /\ users = [u \in UserIds |-> NoAccount]
    /\ sessions = [k \in Tokens |-> None]
    /\ expired = {}
    /\ owner = [t \in Tenants |-> None]
    /\ drawn = {}
    /\ req = [h \in Handlers |-> Idle]
    /\ proof = [k \in Tokens |-> NoAccount]
    /\ handed = {}
    /\ ended = {}

----------------------------------------------------------------------------
Fresh(x) == x \notin drawn

StoredUser(u)   == users[u] # NoAccount
EmailTaken(e)   == \E u \in UserIds : users[u].email = e
ValidToken(k)   == sessions[k] # None /\ k \notin expired

Answer(h)        == req' = [req EXCEPT ![h] = Idle]
Continue(h, r)   == req' = [req EXCEPT ![h] = r]

----------------------------------------------------------------------------
(* Signup.  Any error of GetUserByEmail, a broken connection included,     *)
(* counts as "no such user"; an email that is found answers 409.           *)
SignupCheck(h) ==
    /\ req[h].step = "idle"
    /\ \E c \in Credentials, u \in UserIds :
         /\ ~EmailTaken(c.email) \/ "err" \in Outcomes
         /\ Fresh(u)
         /\ drawn' = drawn \cup {u}
         /\ Continue(h, [Idle EXCEPT !.step = "createUser", !.cred = c,
                                     !.user = u])
    /\ UNCHANGED <<tables, history>>

(* Mutant: the UNIQUE constraint on users.email is missing. *)
InsertableMutant(c) == TRUE
Insertable(c) == ~EmailTaken(c.email)

(* Mutant: after a conflict the handler goes on with the stored user. *)
CreateUserMutant(h) ==
    /\ req[h].step = "createUser"
    /\ LET c == req[h].cred IN
         /\ users' = IF Insertable(c)
                     THEN [users EXCEPT ![req[h].user] = c] ELSE users
         /\ Continue(h, [req[h] EXCEPT !.step = "createToken",
                           !.user = CHOOSE u \in UserIds :
                                      users'[u].email = c.email])
    /\ UNCHANGED <<sessions, expired, owner, drawn, history>>

(* INSERT ... ON CONFLICT (email) DO NOTHING: a signup that lost the race  *)
(* is told nothing and goes on with the id it drew.                        *)
CreateUser(h) ==
    /\ req[h].step = "createUser"
    /\ \E out \in Outcomes :
         /\ users' = IF out # "err" /\ Insertable(req[h].cred)
                     THEN [users EXCEPT ![req[h].user] = req[h].cred]
                     ELSE users
         /\ IF out = "ok" THEN Continue(h, [req[h] EXCEPT !.step = "createToken"])
                          ELSE Answer(h)
    /\ UNCHANGED <<sessions, expired, owner, drawn, history>>

(* Login up to the token; a wrong password or an unknown email answers 401 *)
(* and changes nothing.                                                    *)
LoginCheck(h) ==
    /\ req[h].step = "idle"
    /\ \E u \in UserIds :
         /\ StoredUser(u)
         /\ Continue(h, [Idle EXCEPT !.step = "createToken", !.cred = users[u],
                                     !.user = u])
    /\ UNCHANGED <<tables, drawn, history>>

(* auth_tokens.user_id REFERENCES users(id). *)
UserExists(u) == StoredUser(u)

(* Mutant: the answer does not look at the error of CreateToken. *)
CreateTokenMutant(h) ==
    /\ req[h].step = "createToken"
    /\ \E k \in Tokens, out \in Outcomes :
         LET stored == out # "err" /\ UserExists(req[h].user) IN
         /\ Fresh(k)
         /\ drawn' = drawn \cup {k}
         /\ sessions' = IF stored THEN [sessions EXCEPT ![k] = req[h].user]
                                  ELSE sessions
         /\ proof' = [proof EXCEPT ![k] = req[h].cred]
         /\ handed' = handed \cup {k}
    /\ Answer(h)
    /\ UNCHANGED <<users, expired, owner, ended>>

(* CreateToken and the answer, for Signup and Login: 201 or 200 with the   *)
(* token, or 500 "Failed to create session".                               *)
CreateToken(h) ==
    /\ req[h].step = "createToken"
    /\ \E k \in Tokens, out \in Outcomes :
         LET stored == out # "err" /\ UserExists(req[h].user) IN
         /\ Fresh(k)
         /\ drawn' = drawn \cup {k}
         /\ sessions' = IF stored THEN [sessions EXCEPT ![k] = req[h].user]
                                  ELSE sessions
         /\ proof' = [proof EXCEPT ![k] = req[h].cred]
         /\ handed' = IF stored /\ out = "ok" THEN handed \cup {k} ELSE handed
    /\ Answer(h)
    /\ UNCHANGED <<users, expired, owner, ended>>

----------------------------------------------------------------------------
(* Logout: DeleteToken, of whatever string the client sends. *)
Logout(k) ==
    /\ sessions[k] # None
    /\ sessions' = [sessions EXCEPT ![k] = None]
    /\ expired' = expired \ {k}
    /\ ended' = ended \cup {k}
    /\ UNCHANGED <<users, owner, drawn, req, proof, handed>>

(* Thirty days pass. *)
Expire(k) ==
    /\ sessions[k] # None
    /\ expired' = expired \cup {k}
    /\ UNCHANGED <<users, sessions, owner, drawn, req, history>>

(* DeleteExpiredTokens; nothing calls it yet. *)
DeleteExpiredTokens ==
    /\ sessions' = [k \in Tokens |-> IF k \in expired THEN None ELSE sessions[k]]
    /\ expired' = {}
    /\ ended' = ended \cup expired
    /\ UNCHANGED <<users, owner, drawn, req, proof, handed>>

(* DeleteUser, with the cascade to the user's tokens and tenants; nothing  *)
(* calls it yet.                                                           *)
DeleteUser(u) ==
    /\ StoredUser(u)
    /\ users' = [users EXCEPT ![u] = NoAccount]
    /\ sessions' = [k \in Tokens |-> IF sessions[k] = u THEN None ELSE sessions[k]]
    /\ owner' = [t \in Tenants |-> IF owner[t] = u THEN None ELSE owner[t]]
    /\ expired' = {k \in expired : sessions[k] # u}
    /\ ended' = ended \cup {k \in Tokens : sessions[k] = u}
    /\ UNCHANGED <<drawn, req, proof, handed>>

----------------------------------------------------------------------------
(* authMiddleware with "Bearer <token>": GetToken and GetUserByID are two  *)
(* statements; an error of either answers 401.                             *)
Authenticate(h) ==
    /\ req[h].step = "idle"
    /\ \E k \in Tokens :
         /\ ValidToken(k)
         /\ Continue(h, [Idle EXCEPT !.step = "resolve", !.token = k,
                                     !.user = sessions[k]])
    /\ UNCHANGED <<tables, drawn, history>>

Resolve(h) ==
    /\ req[h].step = "resolve"
    /\ \/ /\ UserExists(req[h].user)
          /\ Continue(h, [req[h] EXCEPT !.step = "act",
                                        !.cred = users[req[h].user]])
       \/ /\ ~UserExists(req[h].user) \/ "err" \in Outcomes
          /\ Answer(h)
    /\ UNCHANGED <<tables, drawn, history>>

(* The admin's createTenant finds the owner by email. *)
AdminLookup(h) ==
    /\ req[h].step = "idle"
    /\ \E u \in UserIds :
         /\ StoredUser(u)
         /\ Continue(h, [Idle EXCEPT !.step = "adminCreate", !.user = u])
    /\ UNCHANGED <<tables, drawn, history>>

(* CreateTenant; tenants.user_id REFERENCES users(id). *)
CreateTenant(h) ==
    /\ req[h].step \in {"act", "adminCreate"}
    /\ \E t \in Tenants, out \in Outcomes :
         /\ Fresh(t)
         /\ drawn' = drawn \cup {t}
         /\ owner' = IF out # "err" /\ UserExists(req[h].user)
                     THEN [owner EXCEPT ![t] = req[h].user] ELSE owner
    /\ Answer(h)
    /\ UNCHANGED <<users, sessions, expired, history>>

(* Mutant: the ownership check is missing. *)
FetchTenantMutant(h) ==
    /\ req[h].step = "act"
    /\ \E t \in Tenants :
         /\ owner[t] # None
         /\ Continue(h, [req[h] EXCEPT !.step = "write", !.tenant = t])
    /\ UNCHANGED <<tables, drawn, history>>

(* updateTenant, deleteTenant and regenerateAPIKey read the row and check  *)
(* its owner before they go on; 403 and 404 change nothing.                *)
FetchTenant(h) ==
    /\ req[h].step = "act"
    /\ \E t \in Tenants :
         /\ owner[t] = req[h].user
         /\ Continue(h, [req[h] EXCEPT !.step = "write", !.tenant = t])
    /\ UNCHANGED <<tables, drawn, history>>

(* Their writes store the user_id of the copy, which is the row's. *)
WriteTenant(h) ==
    /\ req[h].step = "write"
    /\ Answer(h)
    /\ UNCHANGED <<tables, drawn, history>>

----------------------------------------------------------------------------
Next ==
    \/ \E h \in Handlers :
         \/ SignupCheck(h)  \/ CreateUser(h)   \/ LoginCheck(h)
         \/ CreateToken(h)  \/ Authenticate(h) \/ Resolve(h)
         \/ AdminLookup(h)  \/ CreateTenant(h)
         \/ FetchTenant(h)  \/ WriteTenant(h)
    \/ \E k \in Tokens : Logout(k) \/ Expire(k)
    \/ \E u \in UserIds : DeleteUser(u)
    \/ DeleteExpiredTokens

Spec == Init /\ [][Next]_vars

----------------------------------------------------------------------------
(* Safety *)

(* Two signups that both found the email free store one account.           *)
OneAccountPerEmail ==
    \A u, v \in UserIds :
        StoredUser(u) /\ users[u].email = users[v].email => u = v

(* A token resolves to the account whose email and password were presented *)
(* when it was issued: a signup that lost the race for an email never gets *)
(* into the winner's account, nor into one that does not exist.            *)
SessionOwner ==
    \A k \in Tokens : sessions[k] # None => users[sessions[k]] = proof[k]

(* A token that was answered with 201 or 200 is stored until it is logged  *)
(* out or purged or its user is deleted, and never comes back after that:  *)
(* no failure between the account and the token leaves a client with a     *)
(* session that does not exist.                                            *)
AnsweredSessionHolds ==
    \A k \in handed : sessions[k] = None <=> k \in ended

(* A request that passed the middleware acts for the account its token was *)
(* issued to, and the tenant it is about to write is that account's or is  *)
(* gone, whatever was logged out, deleted or created since it was checked. *)
ActsForItself ==
    \A h \in Handlers :
        /\ req[h].step \in {"act", "write"} => req[h].cred = proof[req[h].token]
        /\ req[h].step = "write" => owner[req[h].tenant] \in {req[h].user, None}
=============================================================================
