-------------------------------- MODULE Sessions --------------------------------
(***************************************************************************)
(* Accounts, sessions and emailed links: app/backend/accounts/security.py, *)
(* routers/auth.py and delete_account of routers/me.py over the tables     *)
(* users, sessions and email_tokens.                                       *)
(*                                                                         *)
(* A request takes one step per query and one per commit; several of these *)
(* routes commit twice.  A check that fails ends the request with an HTTP  *)
(* error and changes nothing: Abort ends a request at any point.  Time is  *)
(* a session that ages and a link that expires.  Passwords stand for their *)
(* hashes, and a token for the random string the client holds.             *)
(***************************************************************************)
EXTENDS FiniteSets

CONSTANTS
    Emails,         \* normalized email addresses
    Passwords,      \* passwords that are long enough
    UserIds,        \* identifiers of users, never reused
    Tokens,         \* session tokens, never reused
    Links,          \* tokens of verification and reset links, never reused
    Workers,        \* requests that can run at the same time
    Ops,            \* the routes clients call
    Smtp,           \* emailer.smtp_configured()
    Crashes,        \* whether change_password may die between its two commits
    None,           \* absent value, a row not yet inserted
    Gone            \* a row that was deleted

AllOps == {"register", "login", "logout", "visit", "change_password",
           "delete_account", "request_verify", "verify", "request_reset", "reset"}

ASSUME OpsAssumption == Ops \subseteq AllOps
ASSUME FlagsAssumption == Smtp \in BOOLEAN /\ Crashes \in BOOLEAN
ASSUME WorkersAssumption == IsFiniteSet(Workers)

VARIABLES
    users,          \* table users: row by id
    sessions,       \* table sessions: row by token
    emailTokens,    \* table email_tokens: row by link
    req             \* the request each worker handles

vars == <<users, sessions, emailTokens, req>>

UserRows == [email : Emails, password : Passwords, verified : BOOLEAN,
             disabled : BOOLEAN]

\* fresh: seen within SESSION_TOUCH_INTERVAL; stale: seen before that.
Ages == {"fresh", "stale", "expired"}

SessionRows == [user : UserIds, age : Ages]

LinkRows == [user : UserIds, purpose : {"verify", "reset"},
             used : BOOLEAN, expired : BOOLEAN]

ASSUME AbsentAssumption ==
    /\ None # Gone
    /\ {None, Gone} \intersect (UserRows \union SessionRows \union LinkRows) = {}

Stages == {"idle", "register_find", "register_insert", "login_find", "logout",
           "session", "user", "touch", "act", "destroy_others",
           "reset_find", "issue", "open",
           "link", "link_user", "link_commit", "apply"}

\* token is the cookie, user and row what was loaded, touch whether the session
\* was stale when it was looked up; the other fields are the request's body.
Requests == [pc : Stages, op : AllOps \union {None},
             token : Tokens \union {None}, user : UserIds \union {None},
             row : UserRows \union {None}, touch : BOOLEAN,
             email : Emails \union {None}, password : Passwords \union {None},
             new : Passwords \union {None}, link : Links \union {None}]

NoReq == [pc |-> "idle", op |-> None, token |-> None, user |-> None,
          row |-> None, touch |-> FALSE, email |-> None, password |-> None,
          new |-> None, link |-> None]

--------------------------------------------------------------------------------

Users == {u \in UserIds : users[u] \notin {None, Gone}}

Sessions == {s \in Tokens : sessions[s] \notin {None, Gone}}

Mailed == {l \in Links : emailTokens[l] \notin {None, Gone}}

SessionsOf(u) == {s \in Sessions : sessions[s].user = u}

Start(w, request) ==
    /\ req[w].pc = "idle"
    /\ request.op \in Ops
    /\ req' = [req EXCEPT ![w] = request]
    /\ UNCHANGED <<users, sessions, emailTokens>>

At(w, stage) == req[w].pc = stage

Go(w, stage) == req' = [req EXCEPT ![w].pc = stage]

Finish(w) == req' = [req EXCEPT ![w] = NoReq]

\* A query that finds the user a request is about.
Load(w, u, stage) ==
    /\ req' = [req EXCEPT ![w].pc = stage, ![w].user = u, ![w].row = users[u]]
    /\ UNCHANGED <<users, sessions, emailTokens>>

--------------------------------------------------------------------------------
(* The cookie: _lookup_user, on which every route that needs a user depends *)

LookupSession(w) ==
    LET s == req[w].token IN
    /\ At(w, "session")
    /\ s \in Sessions
    /\ sessions[s].age # "expired"
    /\ req' = [req EXCEPT ![w].pc = "user", ![w].user = sessions[s].user,
                          ![w].touch = (sessions[s].age = "stale")]
    /\ UNCHANGED <<users, sessions, emailTokens>>

LookupUser(w) ==
    LET u == req[w].user IN
    /\ At(w, "user")
    /\ u \in Users
    /\ ~users[u].disabled
    /\ Load(w, u, IF req[w].touch THEN "touch" ELSE "act")

\* Mutant: the session is written back with an INSERT when it is missing.
SessionStillThere_Upsert(w) == TRUE

\* An UPDATE of a row that is gone raises.
SessionStillThere(w) == req[w].token \in Sessions

Touched(w) == [user |-> req[w].user, age |-> "fresh"]

TouchSession(w) ==
    /\ At(w, "touch")
    /\ SessionStillThere(w)
    /\ sessions' = [sessions EXCEPT ![req[w].token] = Touched(w)]
    /\ Go(w, "act")
    /\ UNCHANGED <<users, emailTokens>>

\* Mutant: sessions and email_tokens have no foreign key to users.
UserExists_NoKey(u) == u \in UserIds

UserExists(u) == u \in Users

\* create_session
OpenSession(w) ==
    /\ At(w, "open")
    /\ UserExists(req[w].user)
    /\ \E s \in Tokens :
          /\ sessions[s] = None
          /\ sessions' = [sessions EXCEPT ![s] = [user |-> req[w].user, age |-> "fresh"]]
    /\ Finish(w)
    /\ UNCHANGED <<users, emailTokens>>

--------------------------------------------------------------------------------
(* POST /auth/register *)

StartRegister(w) ==
    \E email \in Emails, password \in Passwords :
        Start(w, [NoReq EXCEPT !.pc = "register_find", !.op = "register",
                               !.email = email, !.password = password])

RegisterFind(w) ==
    /\ At(w, "register_find")
    /\ ~\E u \in Users : users[u].email = req[w].email
    /\ Go(w, "register_insert")
    /\ UNCHANGED <<users, sessions, emailTokens>>

EmailIsFree(email) == \A u \in Users : users[u].email # email

RegisterInsert(w) ==
    /\ At(w, "register_insert")
    /\ EmailIsFree(req[w].email)
    /\ \E u \in UserIds :
          LET row == [email |-> req[w].email, password |-> req[w].password,
                      verified |-> FALSE, disabled |-> FALSE]
          IN  /\ users[u] = None
              /\ users' = [users EXCEPT ![u] = row]
              /\ req' = [req EXCEPT ![w].user = u, ![w].row = row,
                                    ![w].pc = IF Smtp THEN "issue" ELSE "open"]
    /\ UNCHANGED <<sessions, emailTokens>>

(* POST /auth/login *)

StartLogin(w) ==
    \E email \in Emails, password \in Passwords :
        Start(w, [NoReq EXCEPT !.pc = "login_find", !.op = "login",
                               !.email = email, !.password = password])

LoginFind(w) ==
    /\ At(w, "login_find")
    /\ \E u \in Users :
          /\ users[u].email = req[w].email
          /\ users[u].password = req[w].password
          /\ ~users[u].disabled
          /\ Load(w, u, "open")

(* POST /auth/logout *)

StartLogout(w) ==
    \E s \in Tokens :
        /\ sessions[s] # None
        /\ Start(w, [NoReq EXCEPT !.pc = "logout", !.op = "logout", !.token = s])

DestroySession(w) ==
    /\ At(w, "logout")
    /\ sessions' = [sessions EXCEPT ![req[w].token] = Gone]
    /\ Finish(w)
    /\ UNCHANGED <<users, emailTokens>>

--------------------------------------------------------------------------------
(* Routes that depend on current_user.  Every one that is not of this      *)
(* module is "visit".                                                      *)

StartVisit(w) ==
    \E s \in Tokens, op \in {"visit", "request_verify"} :
        /\ sessions[s] # None
        /\ Start(w, [NoReq EXCEPT !.pc = "session", !.op = op, !.token = s])

StartWithPassword(w) ==
    \E s \in Tokens, password \in Passwords, op \in {"change_password", "delete_account"} :
      \E new \in IF op = "change_password" THEN Passwords ELSE {None} :
        /\ sessions[s] # None
        /\ Start(w, [NoReq EXCEPT !.pc = "session", !.op = op, !.token = s,
                                  !.password = password, !.new = new])

Visit(w) ==
    /\ At(w, "act")
    /\ req[w].op = "visit"
    /\ Finish(w)
    /\ UNCHANGED <<users, sessions, emailTokens>>

RequestVerify(w) ==
    /\ At(w, "act")
    /\ req[w].op = "request_verify"
    /\ Smtp
    /\ ~req[w].row.verified
    /\ Go(w, "issue")
    /\ UNCHANGED <<users, sessions, emailTokens>>

\* The password is checked against the row current_user loaded.
PasswordMatches(w) == req[w].row.password = req[w].password

ChangePassword(w) ==
    /\ At(w, "act")
    /\ req[w].op = "change_password"
    /\ PasswordMatches(w)
    /\ req[w].user \in Users
    /\ users' = [users EXCEPT ![req[w].user].password = req[w].new]
    /\ Go(w, "destroy_others")
    /\ UNCHANGED <<sessions, emailTokens>>

\* Mutant: the sessions of the request's token are the ones deleted.
OtherSessions_Swapped(w) == SessionsOf(req[w].user) \intersect {req[w].token}

OtherSessions(w) == SessionsOf(req[w].user) \ {req[w].token}

DestroyOthers(w) ==
    /\ At(w, "destroy_others")
    /\ sessions' = [s \in Tokens |-> IF s \in OtherSessions(w) THEN Gone
                                     ELSE sessions[s]]
    /\ Finish(w)
    /\ UNCHANGED <<users, emailTokens>>

\* DELETE /me: the foreign keys cascade.
DeleteAccount(w) ==
    LET u == req[w].user IN
    /\ At(w, "act")
    /\ req[w].op = "delete_account"
    /\ PasswordMatches(w)
    /\ users' = [users EXCEPT ![u] = Gone]
    /\ sessions' = [s \in Tokens |-> IF s \in SessionsOf(u) THEN Gone ELSE sessions[s]]
    /\ emailTokens' = [l \in Links |-> IF l \in Mailed /\ emailTokens[l].user = u
                                       THEN Gone ELSE emailTokens[l]]
    /\ Finish(w)

--------------------------------------------------------------------------------
(* Emailed links *)

StartRequestReset(w) ==
    \E email \in Emails :
        /\ Smtp
        /\ Start(w, [NoReq EXCEPT !.pc = "reset_find", !.op = "request_reset",
                                  !.email = email])

ResetFind(w) ==
    /\ At(w, "reset_find")
    /\ \E u \in Users :
          /\ users[u].email = req[w].email
          /\ ~users[u].disabled
          /\ Load(w, u, "issue")

Purpose(op) == IF op = "request_reset" THEN "reset" ELSE "verify"

\* _issue_email_token
IssueToken(w) ==
    /\ At(w, "issue")
    /\ UserExists(req[w].user)
    /\ \E l \in Links :
          /\ emailTokens[l] = None
          /\ emailTokens' = [emailTokens EXCEPT ![l] =
                 [user |-> req[w].user, purpose |-> Purpose(req[w].op),
                  used |-> FALSE, expired |-> FALSE]]
    /\ IF req[w].op = "register" THEN Go(w, "open") ELSE Finish(w)
    /\ UNCHANGED <<users, sessions>>

\* POST /auth/verify_email, POST /auth/reset_password
StartLink(w) ==
    \E l \in Links, op \in {"verify", "reset"} :
      \E new \in IF op = "reset" THEN Passwords ELSE {None} :
        /\ emailTokens[l] # None
        /\ Start(w, [NoReq EXCEPT !.pc = "link", !.op = op, !.link = l, !.new = new])

\* Mutant: any link will do, whatever it was mailed for.
LinkIsValid_AnyPurpose(row, op) == ~row.used /\ ~row.expired

\* Mutant: a link may be used again.
LinkIsValid_Again(row, op) == row.purpose = op /\ ~row.expired

LinkIsValid(row, op) == row.purpose = op /\ ~row.used /\ ~row.expired

\* _consume_email_token reads the link, then the user, then commits used_at.
ReadLink(w) ==
    LET l == req[w].link IN
    /\ At(w, "link")
    /\ l \in Mailed
    /\ LinkIsValid(emailTokens[l], req[w].op)
    /\ req' = [req EXCEPT ![w].pc = "link_user", ![w].user = emailTokens[l].user]
    /\ UNCHANGED <<users, sessions, emailTokens>>

ReadLinkUser(w) ==
    LET u == req[w].user IN
    /\ At(w, "link_user")
    /\ u \in Users
    /\ ~users[u].disabled
    /\ Load(w, u, "link_commit")

SpendLink(w) ==
    /\ At(w, "link_commit")
    /\ req[w].link \in Mailed
    /\ emailTokens' = [emailTokens EXCEPT ![req[w].link].used = TRUE]
    /\ Go(w, "apply")
    /\ UNCHANGED <<users, sessions>>

\* A second commit does what the link was for.
Apply(w) ==
    LET u == req[w].user IN
    /\ At(w, "apply")
    /\ u \in Users
    /\ users' = IF req[w].op = "verify"
                THEN [users EXCEPT ![u].verified = TRUE]
                ELSE [users EXCEPT ![u].password = req[w].new]
    /\ Finish(w)
    /\ UNCHANGED <<sessions, emailTokens>>

--------------------------------------------------------------------------------
(* The environment *)

NextAge(age) == IF age = "fresh" THEN "stale" ELSE "expired"

AgeSession(s) ==
    /\ s \in Sessions
    /\ sessions[s].age # "expired"
    /\ sessions' = [sessions EXCEPT ![s].age = NextAge(@)]
    /\ UNCHANGED <<users, emailTokens, req>>

ExpireLink(l) ==
    /\ l \in Mailed
    /\ ~emailTokens[l].expired
    /\ emailTokens' = [emailTokens EXCEPT ![l].expired = TRUE]
    /\ UNCHANGED <<users, sessions, req>>

\* disabled_at is set by hand: no route writes it.
Disable(u) ==
    /\ u \in Users
    /\ ~users[u].disabled
    /\ users' = [users EXCEPT ![u].disabled = TRUE]
    /\ UNCHANGED <<sessions, emailTokens, req>>

Abort(w) ==
    /\ req[w].pc # "idle"
    /\ Crashes \/ req[w].pc # "destroy_others"
    /\ Finish(w)
    /\ UNCHANGED <<users, sessions, emailTokens>>

Init ==
    /\ users = [u \in UserIds |-> None]
    /\ sessions = [s \in Tokens |-> None]
    /\ emailTokens = [l \in Links |-> None]
    /\ req = [w \in Workers |-> NoReq]

Step(w) ==
    \/ LookupSession(w) \/ LookupUser(w) \/ TouchSession(w) \/ OpenSession(w)
    \/ StartRegister(w) \/ RegisterFind(w) \/ RegisterInsert(w)
    \/ StartLogin(w) \/ LoginFind(w)
    \/ StartLogout(w) \/ DestroySession(w)
    \/ StartVisit(w) \/ StartWithPassword(w) \/ Visit(w) \/ RequestVerify(w)
    \/ ChangePassword(w) \/ DestroyOthers(w) \/ DeleteAccount(w)
    \/ StartRequestReset(w) \/ ResetFind(w) \/ IssueToken(w)
    \/ StartLink(w) \/ ReadLink(w) \/ ReadLinkUser(w) \/ SpendLink(w) \/ Apply(w)
    \/ Abort(w)

Next ==
    \/ \E w \in Workers : Step(w)
    \/ \E s \in Tokens : AgeSession(s)
    \/ \E l \in Links : ExpireLink(l)
    \/ \E u \in UserIds : Disable(u)

Spec == Init /\ [][Next]_vars

--------------------------------------------------------------------------------
(* Properties *)

\* Every variable has its type.
TypeOK ==
    /\ users \in [UserIds -> UserRows \union {None, Gone}]
    /\ sessions \in [Tokens -> SessionRows \union {None, Gone}]
    /\ emailTokens \in [Links -> LinkRows \union {None, Gone}]
    /\ req \in [Workers -> Requests]

OneAccountPerEmail ==
    \A u, v \in Users : users[u].email = users[v].email => u = v

NoOrphans ==
    /\ \A s \in Sessions : sessions[s].user \in Users
    /\ \A l \in Mailed : emailTokens[l].user \in Users

\* _find_user never meets two rows: of two registrations of one address that
\* both found it free, the index lets one commit.  And no session or link
\* outlives its account, not even one that a login or a registration under way
\* inserts while delete_account commits: a new account of the same address
\* inherits nothing.
AccountsSeparate == TypeOK /\ OneAccountPerEmail /\ NoOrphans

\* A session that a logout, a change of password or the end of its account
\* destroyed never comes back: not even by a request that had already looked it
\* up and extends it (_lookup_user).
DestroyedForGood ==
    [][\A s \in Tokens : sessions[s] = Gone => sessions'[s] = Gone]_vars

\* What an account was mailed links for.
MailedTo(u) == {emailTokens[l].purpose : l \in {k \in Mailed : emailTokens[k].user = u}}

\* The entry of an account that is there.
Entry(u) == [email |-> users[u].email, verified |-> users[u].verified,
             mailed |-> MailedTo(u), sessions |-> SessionsOf(u)]

Shown(u) == IF u \in Users THEN Entry(u) ELSE users[u]

Given == {s \in Tokens : sessions[s] # None}

Book == INSTANCE AccountBook WITH book <- [u \in UserIds |-> Shown(u)], used <- Given

ASSUME EntriesAssumption == {None, Gone} \intersect Book!Entries = {}

\* Whatever requests overlap or stop half way, accounts appear, change and go as
\* in a book with an entry for each.
ImplementsAccountBook == Book!Spec

\* An address counts as verified only if a verification link mailed to that
\* account was spent, whatever links are tried on which route.
VerifiedByLink ==
    \A u \in Users : users[u].verified =>
        \E l \in Mailed : /\ emailTokens[l].user = u
                          /\ emailTokens[l].purpose = "verify"
                          /\ emailTokens[l].used
================================================================================
