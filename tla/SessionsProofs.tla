----------------------------- MODULE SessionsProofs -----------------------------
(***************************************************************************)
(* Theorems of Sessions, for any number of addresses, accounts, sessions,  *)
(* links and requests at once.                                             *)
(*                                                                         *)
(* A request acts on what it read some steps ago.  What it holds stays     *)
(* worth something because identifiers and tokens are never reused: a      *)
(* session it looked up is gone or still its user's (HasCookie), a link it *)
(* read is still there for the purpose it was read for, or its account is  *)
(* gone (HasLink); an account it loaded was there (HasAccount).            *)
(*                                                                         *)
(* Two theorems are about requests that come one at a time, so they are of *)
(* MCSessions' history.  Then the one request under way is all that can    *)
(* come between a read and the step that relies on it (AloneInv).          *)
(***************************************************************************)
EXTENDS MCSessions, FiniteSetTheorems, TLAPS

Absent == {None, Gone}

LinkStages == {"link_user", "link_commit", "apply"}

\* What a request was sent with.
Asks(q) ==
    /\ q.pc \in {"register_find", "register_insert"} =>
          q.email \in Emails /\ q.password \in Passwords
    /\ q.pc \in {"session", "user", "touch", "act"} /\ q.op = "change_password" =>
          q.new \in Passwords
    /\ q.pc \in LinkStages \union {"link"} =>
          q.op = "verify" \/ (q.op = "reset" /\ q.new \in Passwords)

HasCookie(q, sessionsNow) ==
    /\ q.pc \in {"user", "touch"} =>
          /\ q.token \in Tokens /\ q.user \in UserIds
          /\ \/ sessionsNow[q.token] = Gone
             \/ sessionsNow[q.token] \notin Absent /\ sessionsNow[q.token].user = q.user
    /\ q.pc = "logout" => q.token \in Tokens /\ sessionsNow[q.token] # None

HasAccount(q, usersNow) ==
    q.pc \in {"touch", "act"} => q.user \in UserIds /\ usersNow[q.user] # None

HasLink(q, usersNow, linksNow) ==
    q.pc \in LinkStages =>
        /\ q.user \in UserIds /\ q.link \in Links
        /\ \/ usersNow[q.user] = Gone
           \/ /\ linksNow[q.link] \notin Absent
              /\ linksNow[q.link].user = q.user
              /\ linksNow[q.link].purpose = q.op
              /\ q.pc = "apply" => linksNow[q.link].used

Held(q, usersNow, sessionsNow, linksNow) ==
    /\ Asks(q) /\ HasCookie(q, sessionsNow)
    /\ HasAccount(q, usersNow) /\ HasLink(q, usersNow, linksNow)

Inv ==
    /\ AccountsSeparate
    /\ VerifiedByLink
    /\ \A w \in Workers : Held(req[w], users, sessions, emailTokens)

--------------------------------------------------------------------------------

LEMMA RowsTyped ==
    ASSUME TypeOK
    PROVE  /\ Users \subseteq UserIds /\ \A u \in Users : users[u] \in UserRows
           /\ Sessions \subseteq Tokens /\ \A s \in Sessions : sessions[s] \in SessionRows
           /\ Mailed \subseteq Links /\ \A l \in Mailed : emailTokens[l] \in LinkRows
  BY DEF TypeOK, Users, Sessions, Mailed

LEMMA RowsPresent ==
    /\ \A row \in UserRows \union SessionRows \union LinkRows : row \notin Absent
    /\ None # Gone
  BY AbsentAssumption DEF Absent

LEMMA RequestTyped ==
    ASSUME TypeOK, NEW w \in Workers
    PROVE  req[w] \in Requests
  BY DEF TypeOK

\* What each step does to the accounts: nothing, one registers, one changes, or
\* one is deleted.
LEMMA UsersAfter ==
    ASSUME Inv, Next
    PROVE  \/ users' = users
           \/ \E u \in UserIds, new \in UserRows :
                 /\ users[u] = None /\ EmailIsFree(new.email) /\ ~new.verified
                 /\ users' = [users EXCEPT ![u] = new]
           \/ \E u \in Users, new \in UserRows :
                 /\ new.email = users[u].email
                 /\ \/ new.verified = users[u].verified
                    \/ \E w \in Workers : Apply(w) /\ req[w].op = "verify" /\ req[w].user = u
                 /\ users' = [users EXCEPT ![u] = new]
           \/ \E w \in Workers : DeleteAccount(w)
  <1> USE RowsTyped, RequestTyped DEF Inv, AccountsSeparate
  <1>1. CASE \E w \in Workers : RegisterInsert(w)
    <2>1. PICK w \in Workers : RegisterInsert(w)
      BY <1>1
    <2> DEFINE new == [email |-> req[w].email, password |-> req[w].password,
                       verified |-> FALSE, disabled |-> FALSE]
    <2>2. req[w].email \in Emails /\ req[w].password \in Passwords
      BY <2>1 DEF RegisterInsert, At, Held, Asks
    <2>3. new \in UserRows /\ new.email = req[w].email /\ ~new.verified
      BY <2>2 DEF UserRows
    <2>4. PICK u \in UserIds : users[u] = None /\ users' = [users EXCEPT ![u] = new]
      BY <2>1 DEF RegisterInsert
    <2>5. EmailIsFree(new.email)
      BY <2>1 DEF RegisterInsert
    <2> HIDE DEF new
    <2> QED
      BY <2>3, <2>4, <2>5
  <1>2. CASE \E w \in Workers : ChangePassword(w)
    <2>1. PICK w \in Workers : ChangePassword(w)
      BY <1>2
    <2> DEFINE u == req[w].user
               new == [users[u] EXCEPT !.password = req[w].new]
    <2>2. u \in Users /\ users[u] \in UserRows /\ req[w].new \in Passwords
      BY <2>1 DEF ChangePassword, At, Held, Asks
    <2>3. /\ new \in UserRows
          /\ new.email = users[u].email /\ new.verified = users[u].verified
      BY <2>2 DEF UserRows
    <2>4. users' = [users EXCEPT ![u] = new]
      BY <2>1, <2>2 DEF ChangePassword, TypeOK
    <2> HIDE DEF new
    <2> QED
      BY <2>2, <2>3, <2>4
  <1>3. CASE \E w \in Workers : Apply(w)
    <2>1. PICK w \in Workers : Apply(w)
      BY <1>3
    <2> DEFINE u == req[w].user
               verified == [users[u] EXCEPT !.verified = TRUE]
               changed == [users[u] EXCEPT !.password = req[w].new]
    <2>2. u \in Users /\ users[u] \in UserRows
      BY <2>1 DEF Apply
    <2>3. CASE req[w].op = "verify"
      <3>1. verified \in UserRows /\ verified.email = users[u].email
        BY <2>2 DEF UserRows
      <3>2. users' = [users EXCEPT ![u] = verified]
        BY <2>1, <2>2, <2>3 DEF Apply, TypeOK
      <3>3. \E v \in Workers : Apply(v) /\ req[v].op = "verify" /\ req[v].user = u
        BY <2>1, <2>3
      <3> HIDE DEF verified, u
      <3>4. \E v \in Users, new \in UserRows :
               /\ new.email = users[v].email
               /\ \/ new.verified = users[v].verified
                  \/ \E p \in Workers : Apply(p) /\ req[p].op = "verify" /\ req[p].user = v
               /\ users' = [users EXCEPT ![v] = new]
        <4> USE <2>2, <3>1
        <4> WITNESS u \in Users, verified \in UserRows
        <4> QED
          BY <3>1, <3>2, <3>3
      <3> QED
        BY <3>4
    <2>4. CASE req[w].op # "verify"
      <3>1. req[w].new \in Passwords
        BY <2>1, <2>4 DEF Apply, At, Held, Asks, LinkStages
      <3>2. /\ changed \in UserRows
            /\ changed.email = users[u].email /\ changed.verified = users[u].verified
        BY <2>2, <3>1 DEF UserRows
      <3>3. users' = [users EXCEPT ![u] = changed]
        BY <2>1, <2>2, <2>4 DEF Apply, TypeOK
      <3> HIDE DEF changed
      <3> QED
        BY <2>2, <3>2, <3>3
    <2> QED
      BY <2>3, <2>4
  <1>4. CASE \E u \in UserIds : Disable(u)
    <2>1. PICK u \in UserIds : Disable(u)
      BY <1>4
    <2> DEFINE new == [users[u] EXCEPT !.disabled = TRUE]
    <2>2. u \in Users /\ users[u] \in UserRows
      BY <2>1 DEF Disable
    <2>3. /\ new \in UserRows
          /\ new.email = users[u].email /\ new.verified = users[u].verified
      BY <2>2 DEF UserRows
    <2>4. users' = [users EXCEPT ![u] = new]
      BY <2>1, <2>2 DEF Disable, TypeOK
    <2> HIDE DEF new
    <2> QED
      BY <2>2, <2>3, <2>4
  <1>5. CASE \E w \in Workers : DeleteAccount(w)
    BY <1>5
  <1>6. CASE /\ ~\E w \in Workers : \/ RegisterInsert(w) \/ ChangePassword(w)
                                    \/ Apply(w) \/ DeleteAccount(w)
             /\ ~\E u \in UserIds : Disable(u)
    <2>1. ASSUME NEW w \in Workers, Step(w)
          PROVE  users' = users
      <3>1. CASE \/ StartRegister(w) \/ StartLogin(w) \/ StartLogout(w) \/ StartVisit(w)
                 \/ StartWithPassword(w) \/ StartRequestReset(w) \/ StartLink(w)
        BY <3>1 DEF Start, StartRegister, StartLogin, StartLogout, StartVisit,
                    StartWithPassword, StartRequestReset, StartLink
      <3>2. CASE \/ LookupSession(w) \/ LookupUser(w) \/ TouchSession(w)
                 \/ OpenSession(w) \/ RegisterFind(w) \/ LoginFind(w)
                 \/ DestroySession(w) \/ Visit(w)
        BY <3>2 DEF LookupSession, LookupUser, Load, TouchSession, OpenSession,
                    RegisterFind, LoginFind, DestroySession, Visit
      <3>3. CASE \/ RequestVerify(w) \/ DestroyOthers(w) \/ ResetFind(w)
                 \/ IssueToken(w) \/ ReadLink(w) \/ ReadLinkUser(w)
                 \/ SpendLink(w) \/ Abort(w)
        BY <3>3 DEF RequestVerify, DestroyOthers, ResetFind, Load, IssueToken, ReadLink,
                    ReadLinkUser, SpendLink, Abort
      <3> QED
        BY <1>6, <2>1, <3>1, <3>2, <3>3 DEF Step
    <2>2. users' = users
      BY <1>6, <2>1 DEF Next, AgeSession, ExpireLink
    <2> QED
      BY <2>2
  <1> QED
    BY <1>1, <1>2, <1>3, <1>4, <1>5, <1>6

\* A request that deletes its account leaves none of the account's rows.
LEMMA Deleted ==
    ASSUME TypeOK, NEW w \in Workers, DeleteAccount(w)
    PROVE  /\ users' \in [UserIds -> UserRows \union {None, Gone}]
           /\ \A v \in UserIds :
                 users'[v] = IF v = req[w].user THEN Gone ELSE users[v]
           /\ sessions' \in [Tokens -> SessionRows \union {None, Gone}]
           /\ \A s \in Tokens :
                 sessions'[s] = IF s \in SessionsOf(req[w].user) THEN Gone ELSE sessions[s]
           /\ emailTokens' \in [Links -> LinkRows \union {None, Gone}]
           /\ \A l \in Links :
                 emailTokens'[l] = IF l \in Mailed /\ emailTokens[l].user = req[w].user
                                   THEN Gone ELSE emailTokens[l]
  BY DEF TypeOK, DeleteAccount

\* The accounts keep their type and their addresses apart; none comes back, and
\* none but those deleted goes.
LEMMA UsersKept ==
    ASSUME Inv, Next
    PROVE  /\ users' \in [UserIds -> UserRows \union {None, Gone}]
           /\ OneAccountPerEmail'
           /\ \A u \in UserIds : users[u] = Gone => users'[u] = Gone
           /\ \A u \in Users : u \in Users' \/ \E w \in Workers :
                 DeleteAccount(w) /\ req[w].user = u
  <1> USE RowsTyped, RowsPresent DEF Inv, AccountsSeparate
  <1>1. CASE users' = users
    BY <1>1 DEF TypeOK, OneAccountPerEmail, Users
  <1>2. ASSUME NEW u \in UserIds, NEW new \in UserRows, users[u] # Gone,
               \A v \in Users \ {u} : users[v].email # new.email,
               users' = [users EXCEPT ![u] = new]
        PROVE  /\ users' \in [UserIds -> UserRows \union {None, Gone}]
               /\ OneAccountPerEmail'
               /\ \A v \in UserIds : users[v] = Gone => users'[v] = Gone
               /\ Users \subseteq Users'
    <2>1. /\ users' \in [UserIds -> UserRows \union {None, Gone}]
          /\ \A v \in UserIds : users'[v] = IF v = u THEN new ELSE users[v]
      BY <1>2 DEF TypeOK
    <2>2. Users' = Users \union {u}
      BY <2>1 DEF Users, Absent
    <2>3. OneAccountPerEmail'
      BY <1>2, <2>1, <2>2 DEF OneAccountPerEmail
    <2> QED
      BY <1>2, <2>1, <2>2, <2>3
  <1>3. CASE \E u \in UserIds, new \in UserRows :
                /\ users[u] = None /\ EmailIsFree(new.email) /\ ~new.verified
                /\ users' = [users EXCEPT ![u] = new]
    BY <1>2, <1>3 DEF EmailIsFree
  <1>4. CASE \E u \in Users, new \in UserRows :
                /\ new.email = users[u].email
                /\ users' = [users EXCEPT ![u] = new]
    <2>1. PICK u \in Users, new \in UserRows :
             new.email = users[u].email /\ users' = [users EXCEPT ![u] = new]
      BY <1>4
    <2>2. \A v \in Users \ {u} : users[v].email # new.email
      BY <2>1 DEF OneAccountPerEmail
    <2>3. users[u] # Gone
      BY DEF Users
    <2> QED
      BY <1>2, <2>1, <2>2, <2>3
  <1>5. CASE \E w \in Workers : DeleteAccount(w)
    <2>1. PICK w \in Workers : DeleteAccount(w)
      BY <1>5
    <2>2. /\ users' \in [UserIds -> UserRows \union {None, Gone}]
          /\ \A v \in UserIds : users'[v] = IF v = req[w].user THEN Gone ELSE users[v]
      BY <2>1, Deleted
    <2>3. Users' = Users \ {req[w].user}
      BY <2>2 DEF Users
    <2>4. OneAccountPerEmail'
      BY <2>2, <2>3 DEF OneAccountPerEmail
    <2> QED
      BY <2>1, <2>2, <2>3, <2>4
  <1> QED
    BY <1>1, <1>3, <1>4, <1>5, UsersAfter

\* What each step does to the sessions: nothing, one is opened for an account
\* that is there, one ages or is extended, or some of an account are destroyed.
LEMMA SessionsAfter ==
    ASSUME Inv, Next
    PROVE  \/ sessions' = sessions
           \/ \E s \in Tokens, new \in SessionRows :
                 /\ sessions[s] = None /\ new.user \in Users /\ users' = users
                 /\ sessions' = [sessions EXCEPT ![s] = new]
           \/ \E s \in Sessions, new \in SessionRows :
                 /\ new.user = sessions[s].user
                 /\ sessions' = [sessions EXCEPT ![s] = new]
           \/ /\ sessions' \in [Tokens -> SessionRows \union {None, Gone}]
              /\ \E some \in SUBSET Sessions :
                    /\ \A s, t \in some : sessions[s].user = sessions[t].user
                    /\ \A s \in Tokens : sessions'[s] = IF s \in some THEN Gone
                                                       ELSE sessions[s]
  <1> USE RowsTyped, RequestTyped DEF Inv, AccountsSeparate
  <1>1. CASE \E w \in Workers : OpenSession(w)
    <2>1. PICK w \in Workers : OpenSession(w)
      BY <1>1
    <2> DEFINE new == [user |-> req[w].user, age |-> "fresh"]
    <2>2. new \in SessionRows /\ new.user \in Users
      BY <2>1 DEF OpenSession, UserExists, SessionRows, Ages
    <2>3. PICK s \in Tokens : sessions[s] = None /\ sessions' = [sessions EXCEPT ![s] = new]
      BY <2>1 DEF OpenSession
    <2>4. users' = users
      BY <2>1 DEF OpenSession
    <2> HIDE DEF new
    <2> QED
      BY <2>2, <2>3, <2>4
  <1>2. CASE \E w \in Workers : TouchSession(w)
    <2>1. PICK w \in Workers : TouchSession(w)
      BY <1>2
    <2> DEFINE s == req[w].token
               new == Touched(w)
    <2>2. s \in Sessions /\ s \in Tokens /\ sessions[s] # Gone
      BY <2>1 DEF TouchSession, SessionStillThere, Sessions
    <2>3. req[w].user \in UserIds /\ sessions[s].user = req[w].user
      BY <2>1, <2>2 DEF TouchSession, At, Held, HasCookie
    <2>4. new \in SessionRows /\ new.user = sessions[s].user
      BY <2>3 DEF Touched, SessionRows, Ages
    <2>5. sessions' = [sessions EXCEPT ![s] = new]
      BY <2>1 DEF TouchSession
    <2> HIDE DEF new, s
    <2> QED
      BY <2>2, <2>4, <2>5
  <1>3. CASE \E s \in Tokens : AgeSession(s)
    <2>1. PICK s \in Tokens : AgeSession(s)
      BY <1>3
    <2> DEFINE new == [sessions[s] EXCEPT !.age = NextAge(@)]
    <2>2. s \in Sessions /\ sessions[s] \in SessionRows
      BY <2>1 DEF AgeSession
    <2>3. NextAge(sessions[s].age) \in Ages
      BY DEF NextAge, Ages
    <2>4. new \in SessionRows /\ new.user = sessions[s].user
      BY <2>2, <2>3 DEF SessionRows
    <2>5. sessions' = [sessions EXCEPT ![s] = new]
      BY <2>1, <2>2 DEF AgeSession, TypeOK
    <2> HIDE DEF new
    <2> QED
      BY <2>2, <2>4, <2>5
  <1>4. CASE \E w \in Workers : DestroySession(w) \/ DestroyOthers(w)
    <2>1. PICK w \in Workers : DestroySession(w) \/ DestroyOthers(w)
      BY <1>4
    <2>2. CASE DestroySession(w)
      <3> DEFINE s == req[w].token
      <3>1. s \in Tokens /\ sessions[s] # None /\ sessions' = [sessions EXCEPT ![s] = Gone]
        BY <2>2 DEF DestroySession, At, Held, HasCookie
      <3>2. /\ sessions' \in [Tokens -> SessionRows \union {None, Gone}]
            /\ \A t \in Tokens : sessions'[t] = IF t = s THEN Gone ELSE sessions[t]
        BY <3>1 DEF TypeOK
      <3>3. CASE sessions[s] = Gone
        BY <3>1, <3>3 DEF TypeOK
      <3>4. CASE {s} \in SUBSET Sessions
        BY <3>2, <3>4
      <3> QED
        BY <3>1, <3>3, <3>4 DEF Sessions
    <2>3. CASE DestroyOthers(w)
      <3>1. /\ sessions' \in [Tokens -> SessionRows \union {None, Gone}]
            /\ \A t \in Tokens : sessions'[t] = IF t \in OtherSessions(w) THEN Gone
                                               ELSE sessions[t]
        BY <2>3 DEF DestroyOthers, TypeOK
      <3>2. /\ OtherSessions(w) \in SUBSET Sessions
            /\ \A t \in OtherSessions(w) : sessions[t].user = req[w].user
        BY DEF OtherSessions, SessionsOf
      <3> QED
        BY <3>1, <3>2
    <2> QED
      BY <2>1, <2>2, <2>3
  <1>5. CASE \E w \in Workers : DeleteAccount(w)
    <2>1. PICK w \in Workers : DeleteAccount(w)
      BY <1>5
    <2>2. /\ SessionsOf(req[w].user) \in SUBSET Sessions
          /\ \A s \in SessionsOf(req[w].user) : sessions[s].user = req[w].user
      BY DEF SessionsOf
    <2> QED
      BY <2>1, <2>2, Deleted
  <1>6. CASE /\ ~\E w \in Workers : \/ OpenSession(w) \/ TouchSession(w)
                                    \/ DestroySession(w) \/ DestroyOthers(w)
                                    \/ DeleteAccount(w)
             /\ ~\E s \in Tokens : AgeSession(s)
    <2>1. ASSUME NEW w \in Workers, Step(w)
          PROVE  sessions' = sessions
      <3>1. CASE \/ StartRegister(w) \/ StartLogin(w) \/ StartLogout(w) \/ StartVisit(w)
                 \/ StartWithPassword(w) \/ StartRequestReset(w) \/ StartLink(w)
        BY <3>1 DEF Start, StartRegister, StartLogin, StartLogout, StartVisit,
                    StartWithPassword, StartRequestReset, StartLink
      <3>2. CASE \/ LookupSession(w) \/ LookupUser(w) \/ RegisterFind(w) \/ LoginFind(w)
                 \/ RegisterInsert(w) \/ ChangePassword(w) \/ Visit(w)
        BY <3>2 DEF LookupSession, LookupUser, Load, RegisterFind, LoginFind,
                    RegisterInsert, ChangePassword, Visit
      <3>3. CASE \/ RequestVerify(w) \/ ResetFind(w) \/ IssueToken(w) \/ ReadLink(w)
                 \/ ReadLinkUser(w) \/ SpendLink(w) \/ Apply(w) \/ Abort(w)
        BY <3>3 DEF RequestVerify, ResetFind, Load, IssueToken, ReadLink,
                    ReadLinkUser, SpendLink, Apply, Abort
      <3> QED
        BY <1>6, <2>1, <3>1, <3>2, <3>3 DEF Step
    <2>2. sessions' = sessions
      BY <1>6, <2>1 DEF Next, ExpireLink, Disable
    <2> QED
      BY <2>2
  <1> QED
    BY <1>1, <1>2, <1>3, <1>4, <1>5, <1>6

\* What each step does to the links: nothing, one is mailed to an account that
\* is there, one is spent or expires, or those of an account are deleted with it.
LEMMA LinksAfter ==
    ASSUME Inv, Next
    PROVE  \/ emailTokens' = emailTokens
           \/ \E l \in Links, new \in LinkRows :
                 /\ emailTokens[l] = None /\ new.user \in Users /\ users' = users
                 /\ emailTokens' = [emailTokens EXCEPT ![l] = new]
           \/ \E l \in Mailed, new \in LinkRows :
                 /\ new.user = emailTokens[l].user /\ new.purpose = emailTokens[l].purpose
                 /\ emailTokens[l].used => new.used
                 /\ emailTokens' = [emailTokens EXCEPT ![l] = new]
           \/ \E w \in Workers : DeleteAccount(w)
  <1> USE RowsTyped, RequestTyped DEF Inv, AccountsSeparate
  <1>1. CASE \E w \in Workers : IssueToken(w)
    <2>1. PICK w \in Workers : IssueToken(w)
      BY <1>1
    <2> DEFINE purpose == Purpose(req[w].op)
               new == [user |-> req[w].user, purpose |-> purpose,
                       used |-> FALSE, expired |-> FALSE]
    <2>2. purpose \in {"verify", "reset"}
      BY DEF Purpose
    <2>3. req[w].user \in Users /\ users' = users
      BY <2>1 DEF IssueToken, UserExists
    <2>4. PICK l \in Links :
             emailTokens[l] = None /\ emailTokens' = [emailTokens EXCEPT ![l] = new]
      BY <2>1 DEF IssueToken
    <2> HIDE DEF purpose
    <2>5. new \in LinkRows /\ new.user \in Users
      BY <2>2, <2>3 DEF LinkRows
    <2> HIDE DEF new
    <2> QED
      BY <2>3, <2>4, <2>5
  <1>2. CASE \E w \in Workers : SpendLink(w)
    <2>1. PICK w \in Workers : SpendLink(w)
      BY <1>2
    <2> DEFINE l == req[w].link
               new == [emailTokens[l] EXCEPT !.used = TRUE]
    <2>2. l \in Mailed /\ emailTokens[l] \in LinkRows
      BY <2>1 DEF SpendLink
    <2>3. /\ new \in LinkRows /\ new.used
          /\ new.user = emailTokens[l].user /\ new.purpose = emailTokens[l].purpose
      BY <2>2 DEF LinkRows
    <2>4. emailTokens' = [emailTokens EXCEPT ![l] = new]
      BY <2>1, <2>2 DEF SpendLink, TypeOK
    <2> HIDE DEF new, l
    <2> QED
      BY <2>2, <2>3, <2>4
  <1>3. CASE \E l \in Links : ExpireLink(l)
    <2>1. PICK l \in Links : ExpireLink(l)
      BY <1>3
    <2> DEFINE new == [emailTokens[l] EXCEPT !.expired = TRUE]
    <2>2. l \in Mailed /\ emailTokens[l] \in LinkRows
      BY <2>1 DEF ExpireLink
    <2>3. /\ new \in LinkRows /\ new.used = emailTokens[l].used
          /\ new.user = emailTokens[l].user /\ new.purpose = emailTokens[l].purpose
      BY <2>2 DEF LinkRows
    <2>4. emailTokens' = [emailTokens EXCEPT ![l] = new]
      BY <2>1, <2>2 DEF ExpireLink, TypeOK
    <2> HIDE DEF new
    <2> QED
      BY <2>2, <2>3, <2>4
  <1>4. CASE \E w \in Workers : DeleteAccount(w)
    BY <1>4
  <1>5. CASE /\ ~\E w \in Workers : IssueToken(w) \/ SpendLink(w) \/ DeleteAccount(w)
             /\ ~\E l \in Links : ExpireLink(l)
    <2>1. ASSUME NEW w \in Workers, Step(w)
          PROVE  emailTokens' = emailTokens
      <3>1. CASE \/ StartRegister(w) \/ StartLogin(w) \/ StartLogout(w) \/ StartVisit(w)
                 \/ StartWithPassword(w) \/ StartRequestReset(w) \/ StartLink(w)
        BY <3>1 DEF Start, StartRegister, StartLogin, StartLogout, StartVisit,
                    StartWithPassword, StartRequestReset, StartLink
      <3>2. CASE \/ LookupSession(w) \/ LookupUser(w) \/ TouchSession(w)
                 \/ OpenSession(w) \/ RegisterFind(w) \/ LoginFind(w)
                 \/ RegisterInsert(w) \/ DestroySession(w)
        BY <3>2 DEF LookupSession, LookupUser, Load, TouchSession, OpenSession,
                    RegisterFind, LoginFind, RegisterInsert, DestroySession
      <3>3. CASE \/ Visit(w) \/ RequestVerify(w) \/ ChangePassword(w) \/ DestroyOthers(w)
                 \/ ResetFind(w) \/ ReadLink(w) \/ ReadLinkUser(w) \/ Apply(w) \/ Abort(w)
        BY <3>3 DEF Visit, RequestVerify, ChangePassword, DestroyOthers, ResetFind, Load,
                    ReadLink, ReadLinkUser, Apply, Abort
      <3> QED
        BY <1>5, <2>1, <3>1, <3>2, <3>3 DEF Step
    <2>2. emailTokens' = emailTokens
      BY <1>5, <2>1 DEF Next, AgeSession, Disable
    <2> QED
      BY <2>2
  <1> QED
    BY <1>1, <1>2, <1>3, <1>4, <1>5

\* A session keeps its user until it is destroyed, for good; its user is there.
LEMMA SessionsKept ==
    ASSUME Inv, Next
    PROVE  /\ sessions' \in [Tokens -> SessionRows \union {None, Gone}]
           /\ \A s \in Tokens : sessions[s] = Gone => sessions'[s] = Gone
           /\ \A s \in Sessions :
                 \/ sessions'[s] = Gone
                 \/ s \in Sessions' /\ sessions'[s].user = sessions[s].user
           /\ \A s \in Sessions' : sessions'[s].user \in Users'
  <1> USE RowsTyped, RowsPresent DEF Inv, AccountsSeparate
  <1>1. ASSUME NEW s \in Sessions \intersect Sessions', sessions'[s].user = sessions[s].user
        PROVE  sessions'[s].user \in Users'
    <2> DEFINE u == sessions[s].user
    <2>1. u \in Users
      BY DEF NoOrphans
    <2>2. CASE \E w \in Workers : DeleteAccount(w) /\ req[w].user = u
      <3>1. PICK w \in Workers : DeleteAccount(w) /\ req[w].user = u
        BY <2>2
      <3>2. s \in SessionsOf(req[w].user)
        BY <3>1 DEF SessionsOf
      <3>3. sessions'[s] = Gone
        BY <3>1, <3>2, Deleted
      <3> QED
        BY <3>3 DEF Sessions
    <2> QED
      BY <1>1, <2>1, <2>2, UsersKept
  <1>2. CASE sessions' = sessions
    <2>1. Sessions' = Sessions
      BY <1>2 DEF Sessions
    <2> QED
      BY <1>1, <1>2, <2>1 DEF TypeOK
  <1>3. ASSUME NEW s \in Tokens, NEW new \in SessionRows,
               sessions[s] = None, new.user \in Users, users' = users,
               sessions' = [sessions EXCEPT ![s] = new]
        PROVE  /\ sessions' \in [Tokens -> SessionRows \union {None, Gone}]
               /\ \A t \in Tokens : sessions[t] = Gone => sessions'[t] = Gone
               /\ \A t \in Sessions :
                     t \in Sessions' /\ sessions'[t].user = sessions[t].user
               /\ \A t \in Sessions' : sessions'[t].user \in Users'
    <2>1. /\ sessions' \in [Tokens -> SessionRows \union {None, Gone}]
          /\ \A t \in Tokens : sessions'[t] = IF t = s THEN new ELSE sessions[t]
      BY <1>3 DEF TypeOK
    <2>2. Sessions' = Sessions \union {s} /\ s \notin Sessions
      BY <1>3, <2>1 DEF Sessions, Absent
    <2>3. Users' = Users
      BY <1>3 DEF Users
    <2> QED
      BY <1>3, <2>1, <2>2, <2>3 DEF NoOrphans
  <1>4. ASSUME NEW s \in Sessions, NEW new \in SessionRows,
               new.user = sessions[s].user,
               sessions' = [sessions EXCEPT ![s] = new]
        PROVE  /\ sessions' \in [Tokens -> SessionRows \union {None, Gone}]
               /\ \A t \in Tokens : sessions[t] = Gone => sessions'[t] = Gone
               /\ \A t \in Sessions :
                     t \in Sessions' /\ sessions'[t].user = sessions[t].user
               /\ \A t \in Sessions' : sessions'[t].user \in Users'
    <2>1. /\ sessions' \in [Tokens -> SessionRows \union {None, Gone}]
          /\ \A t \in Tokens : sessions'[t] = IF t = s THEN new ELSE sessions[t]
      BY <1>4 DEF TypeOK
    <2>2. Sessions' = Sessions /\ sessions[s] # Gone
      BY <1>4, <2>1 DEF Sessions, Absent
    <2>3. \A t \in Sessions : sessions'[t].user = sessions[t].user
      BY <1>4, <2>1
    <2> QED
      BY <1>1, <2>1, <2>2, <2>3
  <1>5. CASE /\ sessions' \in [Tokens -> SessionRows \union {None, Gone}]
             /\ \A s \in Tokens : sessions'[s] \in {sessions[s], Gone}
    <2>1. \A s \in Sessions' : s \in Sessions /\ sessions'[s] = sessions[s]
      BY <1>5 DEF Sessions
    <2>2. \A s \in Sessions : sessions'[s] = Gone \/ s \in Sessions'
      BY <1>5 DEF Sessions
    <2> QED
      BY <1>1, <1>5, <2>1, <2>2
  <1> QED
    BY <1>2, <1>3, <1>4, <1>5, SessionsAfter

\* A link keeps what it was mailed for until its account is deleted.
LEMMA LinksKept ==
    ASSUME Inv, Next
    PROVE  /\ emailTokens' \in [Links -> LinkRows \union {None, Gone}]
           /\ \A l \in Mailed :
                 \/ users'[emailTokens[l].user] = Gone
                 \/ /\ l \in Mailed'
                    /\ emailTokens'[l].user = emailTokens[l].user
                    /\ emailTokens'[l].purpose = emailTokens[l].purpose
                    /\ emailTokens[l].used => emailTokens'[l].used
           /\ \A l \in Mailed' : emailTokens'[l].user \in Users'
  <1> USE RowsTyped, RowsPresent DEF Inv, AccountsSeparate
  <1>1. CASE \E w \in Workers : DeleteAccount(w)
    <2>1. PICK w \in Workers : DeleteAccount(w)
      BY <1>1
    <2>2. \A l \in Links :
             emailTokens'[l] = IF l \in Mailed /\ emailTokens[l].user = req[w].user
                               THEN Gone ELSE emailTokens[l]
      BY <2>1, Deleted
    <2>3. \A u \in UserIds : users'[u] = IF u = req[w].user THEN Gone ELSE users[u]
      BY <2>1, Deleted
    <2>4. \A l \in Mailed' :
             /\ l \in Mailed /\ emailTokens'[l] = emailTokens[l]
             /\ emailTokens[l].user # req[w].user
      BY <2>2 DEF Mailed
    <2>5. \A l \in Mailed : emailTokens[l].user # req[w].user =>
             l \in Mailed' /\ emailTokens'[l] = emailTokens[l]
      BY <2>2 DEF Mailed
    <2>6. \A l \in Mailed : emailTokens[l].user \in Users
      BY DEF NoOrphans
    <2>7. \A u \in Users : u # req[w].user => u \in Users'
      BY <2>3 DEF Users
    <2>8. emailTokens' \in [Links -> LinkRows \union {None, Gone}]
      BY <2>1, Deleted
    <2> QED
      BY <2>3, <2>4, <2>5, <2>6, <2>7, <2>8
  <1>2. CASE ~\E w \in Workers : DeleteAccount(w)
    <2>1. Users \subseteq Users'
      BY <1>2, UsersKept
    <2>2. CASE emailTokens' = emailTokens
      BY <2>1, <2>2 DEF TypeOK, NoOrphans, Mailed
    <2>3. ASSUME NEW l \in Links, NEW new \in LinkRows, new.user \in Users,
                 l \in Mailed =>
                    /\ new.user = emailTokens[l].user
                    /\ new.purpose = emailTokens[l].purpose
                    /\ emailTokens[l].used => new.used,
                 emailTokens' = [emailTokens EXCEPT ![l] = new]
          PROVE  /\ emailTokens' \in [Links -> LinkRows \union {None, Gone}]
                 /\ \A k \in Mailed :
                       /\ k \in Mailed'
                       /\ emailTokens'[k].user = emailTokens[k].user
                       /\ emailTokens'[k].purpose = emailTokens[k].purpose
                       /\ emailTokens[k].used => emailTokens'[k].used
                 /\ \A k \in Mailed' : emailTokens'[k].user \in Users'
      <3>1. /\ emailTokens' \in [Links -> LinkRows \union {None, Gone}]
            /\ \A k \in Links : emailTokens'[k] = IF k = l THEN new ELSE emailTokens[k]
        BY <2>3 DEF TypeOK
      <3>2. Mailed' = Mailed \union {l}
        BY <3>1 DEF Mailed, Absent
      <3>3. \A k \in Mailed : emailTokens[k].user \in Users
        BY DEF NoOrphans
      <3> QED
        BY <2>1, <2>3, <3>1, <3>2, <3>3
    <2>4. CASE \E l \in Links, new \in LinkRows :
                  /\ emailTokens[l] = None /\ new.user \in Users /\ users' = users
                  /\ emailTokens' = [emailTokens EXCEPT ![l] = new]
      <3>1. PICK l \in Links, new \in LinkRows :
               /\ emailTokens[l] = None /\ new.user \in Users
               /\ emailTokens' = [emailTokens EXCEPT ![l] = new]
        BY <2>4
      <3>2. l \notin Mailed
        BY <3>1 DEF Mailed
      <3> QED
        BY <2>3, <3>1, <3>2
    <2>5. CASE \E l \in Mailed, new \in LinkRows :
                  /\ new.user = emailTokens[l].user /\ new.purpose = emailTokens[l].purpose
                  /\ emailTokens[l].used => new.used
                  /\ emailTokens' = [emailTokens EXCEPT ![l] = new]
      BY <2>3, <2>5 DEF NoOrphans
    <2> QED
      BY <1>2, <2>2, <2>4, <2>5, LinksAfter
  <1> QED
    BY <1>1, <1>2

\* What a request holds on to outlives the steps of the others.
LEMMA HeldOn ==
    ASSUME Inv, Next, NEW q \in Requests, Held(q, users, sessions, emailTokens)
    PROVE  Held(q, users', sessions', emailTokens')
  <1> USE DEF Held
  <1>1. HasCookie(q, sessions')
    <2>1. q.pc \in {"user", "touch"} /\ sessions[q.token] \notin Absent =>
             q.token \in Sessions
      BY DEF HasCookie, Sessions, Absent
    <2>2. q.token \in Sessions' => sessions'[q.token] \notin Absent
      BY DEF Sessions, Absent
    <2>3. q.token \in Tokens /\ sessions[q.token] # None => sessions'[q.token] # None
      BY SessionsKept, RowsPresent DEF Sessions
    <2> QED
      BY <2>1, <2>2, <2>3, SessionsKept DEF HasCookie
  <1>2. HasLink(q, users', emailTokens')
    <2>1. q.pc \in LinkStages /\ emailTokens[q.link] \notin Absent => q.link \in Mailed
      BY DEF HasLink, Mailed, Absent
    <2>2. q.link \in Mailed' => emailTokens'[q.link] \notin Absent
      BY DEF Mailed, Absent
    <2>3. q.pc \in LinkStages /\ users[q.user] = Gone => users'[q.user] = Gone
      BY UsersKept DEF HasLink
    <2> QED
      BY <2>1, <2>2, <2>3, LinksKept DEF HasLink
  <1>3. HasAccount(q, users')
    <2>1. ASSUME NEW u \in UserIds, users[u] # None
          PROVE  users'[u] # None
      <3>1. CASE users[u] = Gone \/ u \in Users'
        BY <3>1, UsersKept, RowsPresent DEF Users
      <3>2. CASE \E w \in Workers : DeleteAccount(w) /\ req[w].user = u
        BY <3>2, Deleted, RowsPresent DEF Inv, AccountsSeparate
      <3> QED
        BY <2>1, <3>1, <3>2, UsersKept DEF Users
    <2> QED
      BY <2>1 DEF HasAccount
  <1> QED
    BY <1>1, <1>2, <1>3

\* An account is verified through a spent link of its own, still.
LEMMA VerifiedKept ==
    ASSUME Inv, Next
    PROVE  VerifiedByLink'
  <1> USE RowsTyped, RowsPresent DEF Inv, AccountsSeparate
  <1>1. SUFFICES ASSUME NEW u \in Users', users'[u].verified
                 PROVE  \E l \in Mailed' : /\ emailTokens'[l].user = u
                                           /\ emailTokens'[l].purpose = "verify"
                                           /\ emailTokens'[l].used
    BY DEF VerifiedByLink
  <1>2. u \in UserIds /\ users'[u] # Gone
    BY DEF Users
  <1>3. CASE u \in Users /\ users[u].verified
    <2>1. PICK l \in Mailed : /\ emailTokens[l].user = u
                              /\ emailTokens[l].purpose = "verify"
                              /\ emailTokens[l].used
      BY <1>3 DEF VerifiedByLink
    <2> QED
      BY <1>2, <2>1, LinksKept
  <1>4. CASE \E w \in Workers : Apply(w) /\ req[w].op = "verify" /\ req[w].user = u
    <2>1. PICK w \in Workers : Apply(w) /\ req[w].op = "verify" /\ req[w].user = u
      BY <1>4
    <2>2. u \in Users /\ users[u] # Gone /\ req[w].pc = "apply"
      BY <2>1 DEF Apply, At, Users
    <2>3. HasLink(req[w], users, emailTokens)
      BY DEF Held
    <2> DEFINE l == req[w].link
    <2>4. /\ l \in Links /\ emailTokens[l] \notin Absent
          /\ emailTokens[l].user = u /\ emailTokens[l].purpose = "verify"
          /\ emailTokens[l].used
      BY <2>1, <2>2, <2>3 DEF HasLink, LinkStages
    <2>5. emailTokens' = emailTokens
      BY <2>1 DEF Apply
    <2> QED
      BY <2>4, <2>5 DEF Mailed, Absent
  <1>5. \/ u \in Users /\ users[u].verified
        \/ \E w \in Workers : Apply(w) /\ req[w].op = "verify" /\ req[w].user = u
    <2>1. CASE users' = users
      BY <1>1, <2>1 DEF Users
    <2>2. CASE \E v \in UserIds, new \in UserRows :
                  /\ users[v] = None /\ ~new.verified
                  /\ users' = [users EXCEPT ![v] = new]
      BY <1>1, <1>2, <2>2 DEF Users, TypeOK
    <2>3. CASE \E v \in Users, new \in UserRows :
                  /\ \/ new.verified = users[v].verified
                     \/ \E w \in Workers : Apply(w) /\ req[w].op = "verify" /\ req[w].user = v
                  /\ users' = [users EXCEPT ![v] = new]
      <3>1. PICK v \in Users, new \in UserRows :
               /\ \/ new.verified = users[v].verified
                  \/ \E w \in Workers : Apply(w) /\ req[w].op = "verify" /\ req[w].user = v
               /\ users' = [users EXCEPT ![v] = new]
        BY <2>3
      <3>2. \A k \in UserIds : users'[k] = IF k = v THEN new ELSE users[k]
        BY <3>1 DEF TypeOK
      <3>3. CASE u = v
        BY <1>1, <3>1, <3>2, <3>3
      <3>4. CASE u # v
        BY <1>1, <1>2, <3>2, <3>4 DEF Users
      <3> QED
        BY <3>3, <3>4
    <2>4. CASE \E w \in Workers : DeleteAccount(w)
      <3>1. PICK w \in Workers : DeleteAccount(w)
        BY <2>4
      <3>2. users'[u] = users[u]
        BY <1>2, <3>1, Deleted
      <3> QED
        BY <1>1, <3>2 DEF Users
    <2> QED
      BY <2>1, <2>2, <2>3, <2>4, UsersAfter
  <1> QED
    BY <1>3, <1>4, <1>5



--------------------------------------------------------------------------------

LEMMA NoReqHeld ==
    /\ NoReq \in Requests
    /\ NoReq.pc = "idle"
    /\ Held(NoReq, users', sessions', emailTokens')
  BY DEF NoReq, Requests, Stages, Held, Asks, HasCookie, HasAccount, HasLink, LinkStages

\* The stages a request may move to without reading anything, and those it may
\* start at.
LEMMA Restaged ==
    ASSUME NEW q \in Requests, NEW stage \in Stages
    PROVE  LET next == [q EXCEPT !.pc = stage] IN
           /\ next \in Requests
           /\ next.pc = stage /\ next.op = q.op /\ next.token = q.token
           /\ next.user = q.user /\ next.email = q.email
           /\ next.password = q.password /\ next.new = q.new /\ next.link = q.link
  BY DEF Requests

\* A row was read.
LEMMA Loaded ==
    ASSUME NEW q \in Requests, NEW u \in UserIds, NEW row \in UserRows,
           NEW stage \in Stages
    PROVE  LET next == [[[q EXCEPT !.pc = stage] EXCEPT !.user = u] EXCEPT !.row = row] IN
           /\ next \in Requests
           /\ next.pc = stage /\ next.op = q.op /\ next.user = u
           /\ next.new = q.new /\ next.link = q.link
  BY DEF Requests

\* A request that starts was sent with what it needs.
LEMMA StartsHeld ==
    ASSUME Inv, NEW w \in Workers,
           \/ StartRegister(w) \/ StartLogin(w) \/ StartLogout(w) \/ StartVisit(w)
           \/ StartWithPassword(w) \/ StartRequestReset(w) \/ StartLink(w)
    PROVE  \E q \in Requests :
              /\ req' = [req EXCEPT ![w] = q]
              /\ Held(q, users', sessions', emailTokens')
  <1>1. ASSUME NEW op \in AllOps, NEW stage \in {"register_find", "login_find"},
               NEW email \in Emails, NEW password \in Passwords,
               Start(w, [NoReq EXCEPT !.pc = stage, !.op = op, !.email = email,
                                      !.password = password])
        PROVE  \E q \in Requests :
                  /\ req' = [req EXCEPT ![w] = q]
                  /\ Held(q, users', sessions', emailTokens')
    <2> DEFINE q == [[[[NoReq EXCEPT !.pc = stage] EXCEPT !.op = op]
                         EXCEPT !.email = email] EXCEPT !.password = password]
    <2>1. /\ q \in Requests /\ q.pc = stage
          /\ q.email = email /\ q.password = password
      BY NoReqHeld, ZenonT(60) DEF Requests, Stages
    <2>2. req' = [req EXCEPT ![w] = q]
      BY <1>1 DEF Start
    <2> HIDE DEF q
    <2>3. Held(q, users', sessions', emailTokens')
      BY <2>1 DEF Held, Asks, HasCookie, HasAccount, HasLink, LinkStages
    <2> QED
      BY <2>1, <2>2, <2>3
  <1>2. CASE StartRegister(w) \/ StartLogin(w)
    BY <1>1, <1>2 DEF StartRegister, StartLogin, AllOps
  <1>3. ASSUME NEW op \in AllOps \ {"change_password"},
               NEW stage \in {"logout", "session"}, NEW s \in Tokens, sessions[s] # None,
               Start(w, [NoReq EXCEPT !.pc = stage, !.op = op, !.token = s])
        PROVE  \E q \in Requests :
                  /\ req' = [req EXCEPT ![w] = q]
                  /\ Held(q, users', sessions', emailTokens')
    <2> DEFINE q == [[[NoReq EXCEPT !.pc = stage] EXCEPT !.op = op] EXCEPT !.token = s]
    <2>1. q \in Requests /\ q.pc = stage /\ q.op = op /\ q.token = s
      BY NoReqHeld, ZenonT(60) DEF Requests, Stages
    <2>2. req' = [req EXCEPT ![w] = q] /\ sessions' = sessions
      BY <1>3 DEF Start
    <2> HIDE DEF q
    <2>3. Held(q, users', sessions', emailTokens')
      BY <1>3, <2>1, <2>2 DEF Held, Asks, HasCookie, HasAccount, HasLink, LinkStages
    <2> QED
      BY <2>1, <2>2, <2>3
  <1>4. CASE StartLogout(w) \/ StartVisit(w)
    BY <1>3, <1>4 DEF StartLogout, StartVisit, AllOps
  <1>5. CASE StartWithPassword(w)
    <2>1. PICK s \in Tokens, password \in Passwords, new \in Passwords \union {None},
               op \in {"change_password", "delete_account"} :
             /\ op = "change_password" => new \in Passwords
             /\ Start(w, [NoReq EXCEPT !.pc = "session", !.op = op, !.token = s,
                                       !.password = password, !.new = new])
      BY <1>5 DEF StartWithPassword
    <2> DEFINE sent == [[[NoReq EXCEPT !.pc = "session"] EXCEPT !.op = op] EXCEPT !.token = s]
               q == [[sent EXCEPT !.password = password] EXCEPT !.new = new]
    <2>2. sent \in Requests /\ sent.pc = "session" /\ sent.op = op
      BY NoReqHeld, ZenonT(60) DEF Requests, Stages, AllOps
    <2>3. req' = [req EXCEPT ![w] = q]
      BY <2>1 DEF Start
    <2> HIDE DEF sent
    <2>4. q \in Requests /\ q.pc = "session" /\ q.op = op /\ q.new = new
      BY <2>2, ZenonT(60) DEF Requests
    <2> HIDE DEF q
    <2>5. Held(q, users', sessions', emailTokens')
      BY <2>1, <2>4 DEF Held, Asks, HasCookie, HasAccount, HasLink, LinkStages
    <2> QED
      BY <2>3, <2>4, <2>5
  <1>6. CASE StartRequestReset(w)
    <2>1. PICK email \in Emails :
             Start(w, [NoReq EXCEPT !.pc = "reset_find", !.op = "request_reset",
                                    !.email = email])
      BY <1>6 DEF StartRequestReset
    <2> DEFINE q == [[[NoReq EXCEPT !.pc = "reset_find"] EXCEPT !.op = "request_reset"]
                        EXCEPT !.email = email]
    <2>2. q \in Requests /\ q.pc = "reset_find"
      BY NoReqHeld, ZenonT(60) DEF Requests, Stages, AllOps
    <2>3. req' = [req EXCEPT ![w] = q]
      BY <2>1 DEF Start
    <2> HIDE DEF q
    <2>4. Held(q, users', sessions', emailTokens')
      BY <2>2 DEF Held, Asks, HasCookie, HasAccount, HasLink, LinkStages
    <2> QED
      BY <2>2, <2>3, <2>4
  <1>7. CASE StartLink(w)
    <2>1. PICK l \in Links, op \in {"verify", "reset"} :
             \E new \in IF op = "reset" THEN Passwords ELSE {None} :
                Start(w, [NoReq EXCEPT !.pc = "link", !.op = op, !.link = l, !.new = new])
      BY <1>7 DEF StartLink
    <2>2. PICK new \in Passwords \union {None} :
             /\ Start(w, [NoReq EXCEPT !.pc = "link", !.op = op, !.link = l, !.new = new])
             /\ op = "reset" => new \in Passwords
      BY <2>1
    <2> DEFINE sent == [[NoReq EXCEPT !.pc = "link"] EXCEPT !.op = op]
               q == [[sent EXCEPT !.link = l] EXCEPT !.new = new]
    <2>3. sent \in Requests /\ sent.pc = "link" /\ sent.op = op
      BY NoReqHeld, ZenonT(60) DEF Requests, Stages, AllOps
    <2>4. req' = [req EXCEPT ![w] = q]
      BY <2>2 DEF Start
    <2> HIDE DEF sent
    <2>5. q \in Requests /\ q.pc = "link" /\ q.op = op /\ q.new = new
      BY <2>3, ZenonT(60) DEF Requests
    <2> HIDE DEF q
    <2>6. Held(q, users', sessions', emailTokens')
      BY <2>2, <2>5 DEF Held, Asks, HasCookie, HasAccount, HasLink, LinkStages
    <2> QED
      BY <2>4, <2>5, <2>6
  <1> QED
    BY <1>2, <1>4, <1>5, <1>6, <1>7

\* Stages at which a request holds on to nothing.
LEMMA HoldsNothing ==
    ASSUME NEW q, q.pc \in {"idle", "open", "issue", "destroy_others"}
    PROVE  Held(q, users', sessions', emailTokens')
  BY DEF Held, Asks, HasCookie, HasAccount, HasLink, LinkStages

\* A request that only moves on, a row read or not.
LEMMA Goes ==
    ASSUME TypeOK, NEW w \in Workers, NEW stage \in Stages, Go(w, stage)
    PROVE  \E q \in Requests :
              /\ req' = [req EXCEPT ![w] = q] /\ q.pc = stage
              /\ q.op = req[w].op /\ q.new = req[w].new /\ q.link = req[w].link
              /\ q.user = req[w].user /\ q.token = req[w].token
              /\ q.email = req[w].email /\ q.password = req[w].password
  <1> DEFINE q == [req[w] EXCEPT !.pc = stage]
  <1>1. req' = [req EXCEPT ![w] = q]
    BY DEF Go, TypeOK
  <1>2. /\ q \in Requests /\ q.pc = stage
        /\ q.op = req[w].op /\ q.new = req[w].new /\ q.link = req[w].link
        /\ q.user = req[w].user /\ q.token = req[w].token
        /\ q.email = req[w].email /\ q.password = req[w].password
    BY RequestTyped, Restaged
  <1> HIDE DEF q
  <1> QED
    BY <1>1, <1>2

LEMMA Loads ==
    ASSUME TypeOK, NEW w \in Workers, NEW u \in Users, NEW stage \in Stages,
           Load(w, u, stage)
    PROVE  \E q \in Requests :
              /\ req' = [req EXCEPT ![w] = q] /\ q.pc = stage /\ q.user = u
              /\ q.op = req[w].op /\ q.new = req[w].new /\ q.link = req[w].link
              /\ q.token = req[w].token
  <1> DEFINE q == [[[req[w] EXCEPT !.pc = stage] EXCEPT !.user = u] EXCEPT !.row = users[u]]
  <1>1. req' = [req EXCEPT ![w] = q]
    BY DEF Load, TypeOK
  <1>2. u \in UserIds /\ users[u] \in UserRows /\ req[w] \in Requests
    BY RowsTyped, RequestTyped
  <1>3. /\ q \in Requests /\ q.pc = stage /\ q.user = u
        /\ q.op = req[w].op /\ q.new = req[w].new /\ q.link = req[w].link
        /\ q.token = req[w].token
    BY <1>2 DEF Requests
  <1> HIDE DEF q
  <1> QED
    BY <1>1, <1>3

\* Whatever step a request takes, what it goes on with is worth something.
LEMMA StepMoves ==
    ASSUME Inv, NEW w \in Workers, Step(w)
    PROVE  \E q \in Requests :
              /\ req' = [req EXCEPT ![w] = q]
              /\ Held(q, users', sessions', emailTokens')
  <1>0. /\ TypeOK /\ req[w] \in Requests
        /\ Held(req[w], users, sessions, emailTokens)
    BY RequestTyped DEF Inv, AccountsSeparate
  <1>1. CASE \/ StartRegister(w) \/ StartLogin(w) \/ StartLogout(w) \/ StartVisit(w)
             \/ StartWithPassword(w) \/ StartRequestReset(w) \/ StartLink(w)
    BY <1>1, StartsHeld
  <1>2. CASE \/ OpenSession(w) \/ DestroySession(w) \/ Visit(w) \/ DestroyOthers(w)
             \/ DeleteAccount(w) \/ Apply(w) \/ Abort(w)
    BY <1>2, NoReqHeld DEF OpenSession, DestroySession, Visit, DestroyOthers,
       DeleteAccount, Apply, Abort, Finish
  <1>3. CASE LookupSession(w)
    <2> DEFINE s == req[w].token
               u == sessions[s].user
               touch == sessions[s].age = "stale"
               q == [[[req[w] EXCEPT !.pc = "user"] EXCEPT !.user = u] EXCEPT !.touch = touch]
    <2>1. s \in Sessions /\ s \in Tokens /\ sessions[s] \in SessionRows /\ sessions' = sessions
      BY <1>0, <1>3, RowsTyped DEF LookupSession
    <2>2. u \in UserIds /\ touch \in BOOLEAN
      BY <2>1 DEF SessionRows
    <2>3. req' = [req EXCEPT ![w] = q]
      BY <1>0, <1>3 DEF LookupSession, TypeOK
    <2>4. Asks(req[w]) /\ req[w].pc = "session"
      BY <1>0, <1>3 DEF LookupSession, At, Held
    <2> HIDE DEF touch, u
    <2>5. /\ q \in Requests /\ q.pc = "user" /\ q.user = u /\ q.token = s
          /\ q.op = req[w].op /\ q.new = req[w].new
      BY <1>0, <2>2, ZenonT(60) DEF Requests, Stages
    <2> HIDE DEF q
    <2>6. HasCookie(q, sessions')
      BY <2>1, <2>2, <2>5 DEF HasCookie, Sessions, Absent, u
    <2>7. Asks(q) /\ HasAccount(q, users') /\ HasLink(q, users', emailTokens')
      BY <2>4, <2>5 DEF Asks, HasAccount, HasLink, LinkStages
    <2> QED
      BY <2>3, <2>5, <2>6, <2>7 DEF Held
  <1>4. CASE LookupUser(w)
    <2> DEFINE u == req[w].user
    <2>1. PICK stage \in {"touch", "act"} : Load(w, u, stage)
      BY <1>4 DEF LookupUser
    <2>2. /\ u \in Users /\ u \in UserIds /\ users'[u] # None
          /\ req[w].pc = "user" /\ sessions' = sessions
      BY <1>4 DEF LookupUser, At, Load, Users
    <2>3. stage \in Stages
      BY DEF Stages
    <2>4. PICK q \in Requests :
             /\ req' = [req EXCEPT ![w] = q] /\ q.pc = stage /\ q.user = u
             /\ q.op = req[w].op /\ q.new = req[w].new /\ q.token = req[w].token
      BY <1>0, <2>1, <2>2, <2>3, Loads
    <2>5. Held(q, users', sessions', emailTokens')
      BY <1>0, <2>2, <2>4 DEF Held, Asks, HasCookie, HasAccount, HasLink, LinkStages
    <2> QED
      BY <2>4, <2>5
  <1>5. CASE TouchSession(w)
    <2>1. Go(w, "act") /\ req[w].pc = "touch" /\ users' = users
      BY <1>5 DEF TouchSession, At
    <2>2. PICK q \in Requests :
             /\ req' = [req EXCEPT ![w] = q] /\ q.pc = "act"
             /\ q.op = req[w].op /\ q.new = req[w].new /\ q.user = req[w].user
      BY <1>0, <2>1, Goes DEF Stages
    <2>3. Held(q, users', sessions', emailTokens')
      BY <1>0, <2>1, <2>2 DEF Held, Asks, HasCookie, HasAccount, HasLink, LinkStages
    <2> QED
      BY <2>2, <2>3
  <1>6. CASE RegisterFind(w)
    <2>1. Go(w, "register_insert") /\ req[w].pc = "register_find"
      BY <1>6 DEF RegisterFind, At
    <2>2. PICK q \in Requests :
             /\ req' = [req EXCEPT ![w] = q] /\ q.pc = "register_insert"
             /\ q.email = req[w].email /\ q.password = req[w].password
      BY <1>0, <2>1, Goes DEF Stages
    <2>3. Held(q, users', sessions', emailTokens')
      BY <1>0, <2>1, <2>2 DEF Held, Asks, HasCookie, HasAccount, HasLink, LinkStages
    <2> QED
      BY <2>2, <2>3
  <1>7. CASE RegisterInsert(w)
    <2>1. PICK u \in UserIds :
             LET row == [email |-> req[w].email, password |-> req[w].password,
                         verified |-> FALSE, disabled |-> FALSE]
             IN  req' = [req EXCEPT ![w].user = u, ![w].row = row,
                                    ![w].pc = IF Smtp THEN "issue" ELSE "open"]
      BY <1>7 DEF RegisterInsert
    <2> DEFINE row == [email |-> req[w].email, password |-> req[w].password,
                       verified |-> FALSE, disabled |-> FALSE]
               stage == IF Smtp THEN "issue" ELSE "open"
               q == [[[req[w] EXCEPT !.user = u] EXCEPT !.row = row] EXCEPT !.pc = stage]
    <2>2. req' = [req EXCEPT ![w] = q]
      BY <1>0, <2>1 DEF TypeOK
    <2>3. req[w].email \in Emails /\ req[w].password \in Passwords
      BY <1>0, <1>7 DEF RegisterInsert, At, Held, Asks
    <2>4. row \in UserRows
      BY <2>3 DEF UserRows
    <2>5. stage \in {"issue", "open"}
      OBVIOUS
    <2> HIDE DEF row, stage
    <2>6. q \in Requests /\ q.pc = stage
      BY <1>0, <2>4, <2>5, ZenonT(60) DEF Requests, Stages
    <2> HIDE DEF q
    <2>7. Held(q, users', sessions', emailTokens')
      BY <2>5, <2>6, HoldsNothing
    <2> QED
      BY <2>2, <2>6, <2>7
  <1>8. CASE LoginFind(w) \/ ResetFind(w)
    <2>1. PICK u \in Users, stage \in {"open", "issue"} : Load(w, u, stage)
      BY <1>8 DEF LoginFind, ResetFind
    <2>2. stage \in Stages
      BY DEF Stages
    <2> QED
      BY <1>0, <2>1, <2>2, Loads, HoldsNothing
  <1>9. CASE RequestVerify(w) \/ ChangePassword(w)
    <2>1. PICK stage \in {"issue", "destroy_others"} : Go(w, stage)
      BY <1>9 DEF RequestVerify, ChangePassword
    <2>2. stage \in Stages
      BY DEF Stages
    <2> QED
      BY <1>0, <2>1, <2>2, Goes, HoldsNothing
  <1>10. CASE IssueToken(w)
    <2>1. Go(w, "open") \/ Finish(w)
      BY <1>10 DEF IssueToken
    <2>2. CASE Go(w, "open")
      BY <1>0, <2>2, Goes, HoldsNothing DEF Stages
    <2>3. CASE Finish(w)
      BY <2>3, NoReqHeld DEF Finish
    <2> QED
      BY <2>1, <2>2, <2>3
  <1>11. CASE ReadLink(w)
    <2> DEFINE l == req[w].link
               u == emailTokens[l].user
               q == [[req[w] EXCEPT !.pc = "link_user"] EXCEPT !.user = u]
    <2>1. /\ l \in Mailed /\ l \in Links /\ emailTokens[l] \in LinkRows
          /\ emailTokens[l].purpose = req[w].op /\ req[w].pc = "link"
          /\ emailTokens' = emailTokens
      BY <1>0, <1>11, RowsTyped DEF ReadLink, LinkIsValid, At
    <2>2. u \in UserIds
      BY <2>1 DEF LinkRows
    <2>3. req' = [req EXCEPT ![w] = q]
      BY <1>0, <1>11 DEF ReadLink, TypeOK
    <2> HIDE DEF u
    <2>4. /\ q \in Requests /\ q.pc = "link_user" /\ q.user = u /\ q.link = l
          /\ q.op = req[w].op /\ q.new = req[w].new
      BY <1>0, <2>2, ZenonT(60) DEF Requests, Stages
    <2> HIDE DEF q
    <2>5. HasLink(q, users', emailTokens')
      BY <2>1, <2>2, <2>4 DEF HasLink, Mailed, Absent, u
    <2>6. Asks(q) /\ HasCookie(q, sessions') /\ HasAccount(q, users')
      BY <1>0, <2>1, <2>4 DEF Held, Asks, HasCookie, HasAccount, LinkStages
    <2> QED
      BY <2>3, <2>4, <2>5, <2>6 DEF Held
  <1>12. CASE ReadLinkUser(w)
    <2> DEFINE u == req[w].user
    <2>1. /\ u \in Users /\ Load(w, u, "link_commit") /\ req[w].pc = "link_user"
          /\ users' = users /\ emailTokens' = emailTokens
      BY <1>12 DEF ReadLinkUser, At, Load
    <2>2. PICK q \in Requests :
             /\ req' = [req EXCEPT ![w] = q] /\ q.pc = "link_commit" /\ q.user = u
             /\ q.op = req[w].op /\ q.new = req[w].new /\ q.link = req[w].link
      BY <1>0, <2>1, Loads DEF Stages
    <2>3. Held(q, users', sessions', emailTokens')
      BY <1>0, <2>1, <2>2 DEF Held, Asks, HasCookie, HasAccount, HasLink, LinkStages
    <2> QED
      BY <2>2, <2>3
  <1>13. CASE SpendLink(w)
    <2> DEFINE l == req[w].link
    <2>1. /\ l \in Mailed /\ emailTokens[l] \in LinkRows /\ emailTokens[l] \notin Absent
          /\ Go(w, "apply") /\ req[w].pc = "link_commit" /\ users' = users
      BY <1>0, <1>13, RowsTyped, RowsPresent DEF SpendLink, At
    <2>2. /\ emailTokens'[l].used
          /\ emailTokens'[l].user = emailTokens[l].user
          /\ emailTokens'[l].purpose = emailTokens[l].purpose
          /\ emailTokens'[l] \notin Absent
      <3> DEFINE new == [emailTokens[l] EXCEPT !.used = TRUE]
      <3>1. /\ new \in LinkRows /\ new.used
            /\ new.user = emailTokens[l].user /\ new.purpose = emailTokens[l].purpose
        BY <2>1 DEF LinkRows
      <3>2. emailTokens' = [emailTokens EXCEPT ![l] = new] /\ l \in Links
        BY <1>0, <1>13, <2>1, RowsTyped DEF SpendLink, TypeOK
      <3> HIDE DEF new
      <3>3. emailTokens'[l] = new
        BY <1>0, <3>2 DEF TypeOK
      <3> QED
        BY <3>1, <3>3, RowsPresent
    <2>3. PICK q \in Requests :
             /\ req' = [req EXCEPT ![w] = q] /\ q.pc = "apply" /\ q.user = req[w].user
             /\ q.op = req[w].op /\ q.new = req[w].new /\ q.link = l
      BY <1>0, <2>1, Goes DEF Stages
    <2>4. HasLink(q, users', emailTokens')
      BY <1>0, <2>1, <2>2, <2>3 DEF Held, HasLink, LinkStages
    <2>5. Asks(q) /\ HasCookie(q, sessions') /\ HasAccount(q, users')
      BY <1>0, <2>1, <2>3 DEF Held, Asks, HasCookie, HasAccount, LinkStages
    <2> QED
      BY <2>3, <2>4, <2>5 DEF Held
  <1> QED
    BY <1>1, <1>2, <1>3, <1>4, <1>5, <1>6, <1>7, <1>8, <1>9, <1>10, <1>11, <1>12,
       <1>13 DEF Step

--------------------------------------------------------------------------------

LEMMA InvInit == ASSUME Init PROVE Inv
  <1> USE DEF Init
  <1>1. TypeOK
    <2>1. NoReq \in Requests
      BY DEF NoReq, Requests, Stages
    <2> QED
      BY <2>1 DEF TypeOK
  <1>2. Users = {} /\ Sessions = {} /\ Mailed = {}
    BY DEF Users, Sessions, Mailed
  <1>3. \A w \in Workers : Held(req[w], users, sessions, emailTokens)
    BY DEF NoReq, Held, Asks, HasCookie, HasAccount, HasLink, LinkStages
  <1> QED
    BY <1>1, <1>2, <1>3 DEF Inv, AccountsSeparate, OneAccountPerEmail, NoOrphans,
                            VerifiedByLink

LEMMA RequestsKept ==
    ASSUME Inv, Next
    PROVE  /\ req' \in [Workers -> Requests]
           /\ \A w \in Workers : Held(req'[w], users', sessions', emailTokens')
  <1>1. \A v \in Workers :
           req[v] \in Requests /\ Held(req[v], users', sessions', emailTokens')
    BY HeldOn, RequestTyped DEF Inv, AccountsSeparate
  <1>2. req \in [Workers -> Requests]
    BY DEF Inv, AccountsSeparate, TypeOK
  <1>3. CASE \E w \in Workers : Step(w)
    <2>1. PICK w \in Workers : Step(w)
      BY <1>3
    <2>2. PICK q \in Requests :
             /\ req' = [req EXCEPT ![w] = q]
             /\ Held(q, users', sessions', emailTokens')
      BY <2>1, StepMoves
    <2> QED
      BY <1>1, <1>2, <2>2
  <1>4. CASE ~\E w \in Workers : Step(w)
    <2>1. req' = req
      BY <1>4 DEF Next, AgeSession, ExpireLink, Disable
    <2> QED
      BY <1>1, <1>2, <2>1
  <1> QED
    BY <1>3, <1>4

LEMMA InvNext == ASSUME Inv, [Next]_vars PROVE Inv'
  <1>1. CASE UNCHANGED vars
    BY <1>1 DEF vars, Inv, AccountsSeparate, TypeOK, OneAccountPerEmail, NoOrphans,
                VerifiedByLink, Users, Sessions, Mailed
  <1>2. CASE Next
    BY <1>2, UsersKept, SessionsKept, LinksKept, VerifiedKept, RequestsKept
       DEF Inv, AccountsSeparate, TypeOK, NoOrphans
  <1> QED
    BY <1>1, <1>2

THEOREM InvHolds == Spec => []Inv
  <1> QED
    BY InvInit, InvNext, PTL DEF Spec

\* One account per address, and no session or link without its account, whatever
\* registrations, logins and deletions overlap.
THEOREM AccountsSeparateHolds == Spec => []AccountsSeparate
  <1>1. Inv => AccountsSeparate
    BY DEF Inv
  <1> QED
    BY <1>1, InvHolds, PTL

\* Only a spent verification link of the account makes it verified.
THEOREM VerifiedByLinkHolds == Spec => []VerifiedByLink
  <1>1. Inv => VerifiedByLink
    BY DEF Inv
  <1> QED
    BY <1>1, InvHolds, PTL

\* A destroyed session stays destroyed, extended or not by a request that had
\* looked it up.
THEOREM DestroyedForGoodHolds == Spec => DestroyedForGood
  <1>1. ASSUME Inv, [Next]_vars
        PROVE  [\A s \in Tokens : sessions[s] = Gone => sessions'[s] = Gone]_vars
    BY <1>1, SessionsKept
  <1> QED
    BY <1>1, InvHolds, PTL DEF Spec, DestroyedForGood

--------------------------------------------------------------------------------
(* The accounts are a book with an entry for each *)

\* The entries of the accounts that are there are the open ones.
LEMMA OpenShown ==
    ASSUME TypeOK
    PROVE  Book!Open = Users
  <1>1. \A u \in Users : Entry(u) \in Book!Entries
    <2> SUFFICES ASSUME NEW u \in Users
                 PROVE  Entry(u) \in Book!Entries
      OBVIOUS
    <2>1. users[u].email \in Emails /\ users[u].verified \in BOOLEAN
      BY RowsTyped DEF UserRows
    <2>2. MailedTo(u) \in SUBSET {"verify", "reset"}
      BY RowsTyped DEF MailedTo, LinkRows
    <2>3. SessionsOf(u) \in SUBSET Tokens
      BY RowsTyped DEF SessionsOf
    <2> QED
      BY <2>1, <2>2, <2>3 DEF Entry, Book!Entries
  <1>2. \A u \in UserIds : Shown(u) \notin {None, Gone} <=> u \in Users
    BY <1>1, EntriesAssumption DEF Shown, Users
  <1> QED
    BY <1>2 DEF Book!Open, Users

LEMMA EntryChanges ==
    ASSUME NEW u, NEW now
    PROVE  /\ [Entry(u) EXCEPT !.verified = now] =
                  [email |-> users[u].email, verified |-> now,
                   mailed |-> MailedTo(u), sessions |-> SessionsOf(u)]
           /\ [Entry(u) EXCEPT !.mailed = now] =
                  [email |-> users[u].email, verified |-> users[u].verified,
                   mailed |-> now, sessions |-> SessionsOf(u)]
  <1> DEFINE e == users[u].email
             v == users[u].verified
             m == MailedTo(u)
             s == SessionsOf(u)
             entry == [email |-> e, verified |-> v, mailed |-> m, sessions |-> s]
  <1>1. entry = Entry(u)
    BY DEF Entry
  <1> HIDE DEF e, v, m, s
  <1>2. /\ [entry EXCEPT !.verified = now] =
               [email |-> e, verified |-> now, mailed |-> m, sessions |-> s]
        /\ [entry EXCEPT !.mailed = now] =
               [email |-> e, verified |-> v, mailed |-> now, sessions |-> s]
    OBVIOUS
  <1> HIDE DEF entry
  <1> QED
    BY <1>1, <1>2 DEF e, v, m, s

\* One entry changes and the others stay.
LEMMA OneEntry ==
    ASSUME NEW u \in UserIds, NEW entry, Shown(u)' = entry,
           \A v \in UserIds \ {u} : Shown(v)' = Shown(v)
    PROVE  Book!Becomes(u, entry)
  BY DEF Book!Becomes

\* An account keeps its entry while its address, its verification, its links'
\* purposes and its sessions stay.
LEMMA EntryKept ==
    ASSUME NEW u \in UserIds,
           \/ u \notin Users /\ users'[u] = users[u]
           \/ /\ u \in Users /\ u \in Users'
              /\ users'[u].email = users[u].email
              /\ users'[u].verified = users[u].verified
              /\ MailedTo(u)' = MailedTo(u) /\ SessionsOf(u)' = SessionsOf(u)
    PROVE  Shown(u)' = Shown(u)
  BY DEF Shown, Entry, Users

\* An account that is not there has no links and no sessions.
LEMMA NothingOwned ==
    ASSUME NoOrphans, NEW u \in UserIds, u \notin Users
    PROVE  MailedTo(u) = {} /\ SessionsOf(u) = {}
  BY DEF NoOrphans, MailedTo, SessionsOf

\* Registrations and verifications show in the book; nothing else does that the
\* table of the accounts alone is written by.
LEMMA BookOfUsers ==
    ASSUME Inv, Next, UNCHANGED <<sessions, emailTokens>>,
           ~\E w \in Workers : DeleteAccount(w)
    PROVE  \/ \E u \in UserIds : Book!Register(u)
           \/ \E u \in Users : Book!Verify(u)
           \/ Given' = Given /\ \A u \in UserIds : Shown(u)' = Shown(u)
  <1> USE RowsTyped, RowsPresent DEF Inv, AccountsSeparate
  <1>1. /\ Given' = Given
        /\ \A u \in UserIds : MailedTo(u)' = MailedTo(u) /\ SessionsOf(u)' = SessionsOf(u)
    BY DEF Given, MailedTo, Mailed, SessionsOf, Sessions
  <1>2. ASSUME NEW u \in UserIds, NEW new \in UserRows, users' = [users EXCEPT ![u] = new]
        PROVE  /\ u \in Users' /\ users'[u] = new
               /\ \A v \in UserIds \ {u} : Shown(v)' = Shown(v)
    <2>1. users'[u] = new /\ \A v \in UserIds \ {u} : users'[v] = users[v]
      BY <1>2 DEF TypeOK
    <2>2. u \in Users' /\ \A v \in UserIds \ {u} : v \in Users <=> v \in Users'
      BY <2>1 DEF Users, Absent
    <2> QED
      BY <1>1, <2>1, <2>2, EntryKept
  <1>3. CASE users' = users
    BY <1>1, <1>3 DEF Shown, Entry, Users
  <1>4. CASE \E u \in UserIds, new \in UserRows :
                /\ users[u] = None /\ EmailIsFree(new.email) /\ ~new.verified
                /\ users' = [users EXCEPT ![u] = new]
    <2>1. PICK u \in UserIds, new \in UserRows :
             /\ users[u] = None /\ EmailIsFree(new.email) /\ ~new.verified
             /\ users' = [users EXCEPT ![u] = new]
      BY <1>4
    <2> DEFINE entry == [email |-> new.email, verified |-> FALSE, mailed |-> {},
                         sessions |-> {}]
    <2>2. u \notin Users /\ Shown(u) = None
      BY <2>1 DEF Users, Shown
    <2>3. u \in Users' /\ users'[u] = new /\ \A v \in UserIds \ {u} : Shown(v)' = Shown(v)
      BY <1>2, <2>1
    <2>4. new.verified = FALSE /\ new.email \in Emails
      BY <2>1 DEF UserRows
    <2>5. Shown(u)' = entry
      BY <1>1, <2>2, <2>3, <2>4, NothingOwned DEF Shown, Entry
    <2>6. Book!Becomes(u, entry)
      BY <2>3, <2>5, OneEntry
    <2> HIDE DEF entry
    <2>7. \A v \in Book!Open : Shown(v).email # new.email
      BY <2>1, OpenShown DEF EmailIsFree, Shown, Entry
    <2>8. Book!Open \subseteq UserIds
      BY DEF Book!Open
    <2> QED
      BY <1>1, <2>2, <2>4, <2>6, <2>7, <2>8 DEF Book!Register, entry
  <1>5. CASE \E u \in Users, new \in UserRows :
                /\ new.email = users[u].email
                /\ \/ new.verified = users[u].verified
                   \/ \E w \in Workers : Apply(w) /\ req[w].op = "verify" /\ req[w].user = u
                /\ users' = [users EXCEPT ![u] = new]
    <2>1. PICK u \in Users, new \in UserRows :
             /\ new.email = users[u].email
             /\ \/ new.verified = users[u].verified
                \/ \E w \in Workers : Apply(w) /\ req[w].op = "verify" /\ req[w].user = u
             /\ users' = [users EXCEPT ![u] = new]
      BY <1>5
    <2>2. u \in Users' /\ users'[u] = new /\ \A v \in UserIds \ {u} : Shown(v)' = Shown(v)
      BY <1>2, <2>1
    <2>3. CASE new.verified = users[u].verified
      BY <1>1, <2>1, <2>2, <2>3, EntryKept
    <2>4. ASSUME NEW w \in Workers, Apply(w), req[w].op = "verify", req[w].user = u
          PROVE  Book!Verify(u)
      <3>1. new.verified = TRUE
        BY <2>2, <2>4 DEF Apply, TypeOK, UserRows
      <3>2. /\ req[w].link \in Mailed /\ emailTokens[req[w].link].user = u
            /\ emailTokens[req[w].link].purpose = "verify"
        BY <2>1, <2>4 DEF Apply, At, Held, HasLink, LinkStages, Mailed, Users, Absent
      <3>3. "verify" \in MailedTo(u)
        BY <3>2 DEF MailedTo
      <3>4. Shown(u)' = [Entry(u) EXCEPT !.verified = TRUE]
        <4>1. Shown(u)' = [email |-> users[u].email, verified |-> TRUE,
                           mailed |-> MailedTo(u), sessions |-> SessionsOf(u)]
          BY <1>1, <2>1, <2>2, <3>1 DEF Shown, Entry
        <4> QED
          BY <4>1, EntryChanges
      <3>5. Shown(u) = Entry(u) /\ Entry(u).mailed = MailedTo(u)
        BY <2>1 DEF Shown, Entry
      <3>6. Book!Becomes(u, [Entry(u) EXCEPT !.verified = TRUE])
        BY <2>2, <3>4, OneEntry
      <3> QED
        BY <1>1, <3>3, <3>5, <3>6 DEF Book!Verify
    <2> QED
      BY <2>1, <2>3, <2>4
  <1> QED
    BY <1>3, <1>4, <1>5, UsersAfter

\* Sign-ins show in the book, and so does the end of some sessions of an account.
LEMMA BookOfSessions ==
    ASSUME Inv, Next, UNCHANGED <<users, emailTokens>>
    PROVE  \/ \E u \in Users : Book!SignIn(u) \/ Book!SignOut(u)
           \/ Given' = Given /\ \A u \in UserIds : Shown(u)' = Shown(u)
  <1> USE RowsTyped, RowsPresent DEF Inv, AccountsSeparate
  <1>1. Users' = Users /\ \A u \in UserIds : MailedTo(u)' = MailedTo(u)
    BY DEF Users, MailedTo, Mailed
  <1>2. ASSUME NEW u \in UserIds, SessionsOf(u)' = SessionsOf(u)
        PROVE  Shown(u)' = Shown(u)
    BY <1>1, <1>2, EntryKept
  <1>3. ASSUME NEW u \in Users, NEW now, SessionsOf(u)' = now,
               \A v \in UserIds \ {u} : SessionsOf(v)' = SessionsOf(v)
        PROVE  Book!Becomes(u, [Entry(u) EXCEPT !.sessions = now])
    <2>1. Shown(u)' = [Entry(u) EXCEPT !.sessions = now]
      BY <1>1, <1>3 DEF Shown, Entry
    <2> QED
      BY <1>2, <1>3, <2>1, OneEntry
  <1>4. \A u \in Users : Shown(u) = Entry(u) /\ Entry(u).sessions = SessionsOf(u)
    BY DEF Shown, Entry
  <1>5. CASE sessions' = sessions
    BY <1>2, <1>5 DEF Given, SessionsOf, Sessions
  <1>6. CASE \E s \in Tokens, new \in SessionRows :
                /\ sessions[s] = None /\ new.user \in Users /\ users' = users
                /\ sessions' = [sessions EXCEPT ![s] = new]
    <2>1. PICK s \in Tokens, new \in SessionRows :
             /\ sessions[s] = None /\ new.user \in Users
             /\ sessions' = [sessions EXCEPT ![s] = new]
      BY <1>6
    <2> DEFINE u == new.user
    <2>2. sessions'[s] = new /\ \A t \in Tokens \ {s} : sessions'[t] = sessions[t]
      BY <2>1 DEF TypeOK
    <2>3. Sessions' = Sessions \union {s} /\ s \notin Sessions
      BY <2>1, <2>2 DEF Sessions, Absent
    <2>4. SessionsOf(u)' = SessionsOf(u) \union {s}
      BY <2>2, <2>3 DEF SessionsOf
    <2>5. \A v \in UserIds \ {u} : SessionsOf(v)' = SessionsOf(v)
      BY <2>2, <2>3 DEF SessionsOf
    <2>6. s \notin Given /\ Given' = Given \union {s}
      BY <2>1, <2>2 DEF Given, Absent
    <2>7. Book!Becomes(u, [Entry(u) EXCEPT !.sessions = SessionsOf(u) \union {s}])
      BY <1>3, <2>1, <2>4, <2>5
    <2> HIDE DEF u
    <2>8. Book!SignIn(u)
      BY <1>4, <2>1, <2>6, <2>7 DEF Book!SignIn, u
    <2> QED
      BY <2>1, <2>8 DEF u
  <1>7. CASE \E s \in Sessions, new \in SessionRows :
                /\ new.user = sessions[s].user
                /\ sessions' = [sessions EXCEPT ![s] = new]
    <2>1. PICK s \in Sessions, new \in SessionRows :
             new.user = sessions[s].user /\ sessions' = [sessions EXCEPT ![s] = new]
      BY <1>7
    <2>2. sessions'[s] = new /\ \A t \in Tokens \ {s} : sessions'[t] = sessions[t]
      BY <2>1 DEF TypeOK
    <2>3. Sessions' = Sessions
      BY <2>2 DEF Sessions, Absent
    <2>4. \A u \in UserIds : SessionsOf(u)' = SessionsOf(u)
      BY <2>1, <2>2, <2>3 DEF SessionsOf
    <2>5. Given' = Given
      BY <2>1, <2>2 DEF Given, Sessions, Absent
    <2> QED
      BY <1>2, <2>4, <2>5
  <1>8. ASSUME NEW some \in SUBSET Sessions,
               \A s, t \in some : sessions[s].user = sessions[t].user,
               \A s \in Tokens : sessions'[s] = IF s \in some THEN Gone ELSE sessions[s]
        PROVE  \/ \E u \in Users : Book!SignOut(u)
               \/ Given' = Given /\ \A u \in UserIds : Shown(u)' = Shown(u)
    <2>1. Given' = Given
      BY <1>8 DEF Given, Sessions
    <2>2. Sessions' = Sessions \ some
      BY <1>8 DEF Sessions
    <2>3. \A u \in UserIds : SessionsOf(u)' = SessionsOf(u) \ some
      BY <1>8, <2>2 DEF SessionsOf
    <2>4. CASE some = {}
      BY <1>2, <2>1, <2>3, <2>4
    <2>5. ASSUME NEW s \in some
          PROVE  \E u \in Users : Book!SignOut(u)
      <3> DEFINE u == sessions[s].user
      <3>1. u \in Users /\ some \in SUBSET SessionsOf(u)
        BY <1>8 DEF NoOrphans, SessionsOf
      <3>2. \A v \in UserIds \ {u} : SessionsOf(v)' = SessionsOf(v)
        BY <2>3, <3>1 DEF SessionsOf
      <3> HIDE DEF u
      <3>3. Book!Becomes(u, [Entry(u) EXCEPT !.sessions = SessionsOf(u) \ some])
        BY <1>3, <2>3, <3>1, <3>2
      <3> QED
        BY <1>4, <2>1, <3>1, <3>3 DEF Book!SignOut
    <2> QED
      BY <2>4, <2>5
  <1> QED
    BY <1>5, <1>6, <1>7, <1>8, SessionsAfter

\* Mailing a link shows in the book; using it up or its end does not.
LEMMA BookOfLinks ==
    ASSUME Inv, Next, UNCHANGED <<users, sessions>>,
           ~\E w \in Workers : DeleteAccount(w)
    PROVE  \/ \E u \in Users : Book!Mail(u)
           \/ Given' = Given /\ \A u \in UserIds : Shown(u)' = Shown(u)
  <1> USE RowsTyped, RowsPresent DEF Inv, AccountsSeparate
  <1>1. /\ Users' = Users /\ Given' = Given
        /\ \A u \in UserIds : SessionsOf(u)' = SessionsOf(u)
    BY DEF Users, Given, SessionsOf, Sessions
  <1>2. ASSUME NEW u \in UserIds, MailedTo(u)' = MailedTo(u)
        PROVE  Shown(u)' = Shown(u)
    BY <1>1, <1>2, EntryKept
  <1>3. CASE emailTokens' = emailTokens
    BY <1>1, <1>2, <1>3 DEF MailedTo, Mailed
  <1>4. CASE \E l \in Links, new \in LinkRows :
                /\ emailTokens[l] = None /\ new.user \in Users /\ users' = users
                /\ emailTokens' = [emailTokens EXCEPT ![l] = new]
    <2>1. PICK l \in Links, new \in LinkRows :
             /\ emailTokens[l] = None /\ new.user \in Users
             /\ emailTokens' = [emailTokens EXCEPT ![l] = new]
      BY <1>4
    <2>0. PICK u \in Users, purpose \in {"verify", "reset"} :
             u = new.user /\ purpose = new.purpose
      BY <2>1 DEF LinkRows
    <2> DEFINE now == MailedTo(u) \union {purpose}
    <2>2. emailTokens'[l] = new /\ \A k \in Links \ {l} : emailTokens'[k] = emailTokens[k]
      BY <2>1 DEF TypeOK
    <2>3. Mailed' = Mailed \union {l} /\ l \notin Mailed
      BY <2>1, <2>2 DEF Mailed, Absent
    <2>4. MailedTo(u)' = now
      BY <2>0, <2>2, <2>3 DEF MailedTo
    <2>5. \A v \in UserIds \ {u} : MailedTo(v)' = MailedTo(v)
      BY <2>0, <2>2, <2>3 DEF MailedTo
    <2>6. Shown(u)' = [Entry(u) EXCEPT !.mailed = now]
      <3>1. Shown(u)' = [email |-> users[u].email, verified |-> users[u].verified,
                         mailed |-> now, sessions |-> SessionsOf(u)]
        BY <1>1, <2>4 DEF Shown, Entry
      <3> QED
        BY <3>1, EntryChanges
    <2>7. Book!Becomes(u, [Entry(u) EXCEPT !.mailed = now])
      BY <1>2, <2>5, <2>6, OneEntry
    <2>8. Shown(u) = Entry(u) /\ Entry(u).mailed = MailedTo(u)
      BY DEF Shown, Entry
    <2> QED
      BY <1>1, <2>7, <2>8 DEF Book!Mail
  <1>5. CASE \E l \in Mailed, new \in LinkRows :
                /\ new.user = emailTokens[l].user /\ new.purpose = emailTokens[l].purpose
                /\ emailTokens[l].used => new.used
                /\ emailTokens' = [emailTokens EXCEPT ![l] = new]
    <2>1. PICK l \in Mailed, new \in LinkRows :
             /\ new.user = emailTokens[l].user /\ new.purpose = emailTokens[l].purpose
             /\ emailTokens' = [emailTokens EXCEPT ![l] = new]
      BY <1>5
    <2>2. emailTokens'[l] = new /\ \A k \in Links \ {l} : emailTokens'[k] = emailTokens[k]
      BY <2>1 DEF TypeOK
    <2>3. Mailed' = Mailed
      BY <2>2 DEF Mailed, Absent
    <2>4. \A k \in Mailed : /\ emailTokens'[k].user = emailTokens[k].user
                            /\ emailTokens'[k].purpose = emailTokens[k].purpose
      BY <2>1, <2>2
    <2>5. \A u \in UserIds : MailedTo(u)' = MailedTo(u)
      BY <2>3, <2>4 DEF MailedTo
    <2> QED
      BY <1>1, <1>2, <2>5
  <1> QED
    BY <1>3, <1>4, <1>5, LinksAfter

\* An account that is deleted closes its entry, and no other.
LEMMA BookOfDeletions ==
    ASSUME Inv, NEW w \in Workers, DeleteAccount(w)
    PROVE  \/ \E u \in Users : Book!Close(u)
           \/ Given' = Given /\ \A u \in UserIds : Shown(u)' = Shown(u)
  <1> USE RowsTyped, RowsPresent DEF Inv, AccountsSeparate
  <1>1. PICK u \in UserIds : u = req[w].user /\ users[u] # None
    BY DEF DeleteAccount, At, Held, HasAccount
  <1>2. /\ \A v \in UserIds : users'[v] = IF v = u THEN Gone ELSE users[v]
        /\ \A s \in Tokens : sessions'[s] = IF s \in SessionsOf(u) THEN Gone ELSE sessions[s]
        /\ \A l \in Links : emailTokens'[l] = IF l \in Mailed /\ emailTokens[l].user = u
                                              THEN Gone ELSE emailTokens[l]
    BY <1>1, Deleted
  <1>3. /\ Users' = Users \ {u}
        /\ Sessions' = Sessions \ SessionsOf(u)
        /\ Mailed' = {l \in Mailed : emailTokens[l].user # u}
    BY <1>2 DEF Users, Sessions, Mailed, SessionsOf
  <1>4. Given' = Given
    BY <1>2 DEF Given, SessionsOf, Sessions
  <1>5. ASSUME NEW v \in UserIds \ {u}
        PROVE  Shown(v)' = Shown(v)
    <2>1. SessionsOf(v)' = SessionsOf(v)
      BY <1>2, <1>3, <1>5 DEF SessionsOf
    <2>2. MailedTo(v)' = MailedTo(v)
      BY <1>2, <1>3, <1>5 DEF MailedTo
    <2>3. users'[v] = users[v] /\ (v \in Users <=> v \in Users')
      BY <1>2, <1>3, <1>5
    <2> QED
      BY <2>1, <2>2, <2>3, EntryKept
  <1>6. CASE u \in Users
    <2>1. Shown(u)' = Gone
      BY <1>1, <1>2, <1>3 DEF Shown
    <2>2. Book!Becomes(u, Gone)
      BY <1>1, <1>5, <2>1, OneEntry
    <2>3. Book!Close(u)
      BY <1>4, <2>2 DEF Book!Close
    <2> QED
      BY <1>6, <2>3
  <1>7. CASE u \notin Users
    <2>1. users'[u] = users[u]
      BY <1>1, <1>2, <1>7 DEF Users
    <2>2. Shown(u)' = Shown(u)
      BY <1>1, <1>7, <2>1, EntryKept
    <2> QED
      BY <1>4, <1>5, <2>2
  <1> QED
    BY <1>6, <1>7

\* Every step is one of the book's, or leaves the book as it is.
LEMMA StepImplementsBook ==
    ASSUME Inv, [Next]_vars
    PROVE  [Book!Next]_<<[u \in UserIds |-> Shown(u)], Given>>
  <1>1. CASE UNCHANGED vars
    <2>1. Given' = Given /\ \A u \in UserIds : Shown(u)' = Shown(u)
      BY <1>1 DEF vars, Given, Shown, Entry, MailedTo, SessionsOf, Users, Sessions, Mailed
    <2> QED
      BY <2>1
  <1>2. CASE Next
    <2>1. CASE \E w \in Workers : DeleteAccount(w)
      BY <1>2, <2>1, BookOfDeletions, OpenShown DEF Inv, AccountsSeparate, Book!Next
    <2>2. CASE ~\E w \in Workers : DeleteAccount(w)
      <3>1. ASSUME NEW w \in Workers, Step(w)
            PROVE  \/ UNCHANGED <<sessions, emailTokens>>
                   \/ UNCHANGED <<users, emailTokens>>
                   \/ UNCHANGED <<users, sessions>>
        <4>1. CASE \/ StartRegister(w) \/ StartLogin(w) \/ StartLogout(w) \/ StartVisit(w)
                   \/ StartWithPassword(w) \/ StartRequestReset(w) \/ StartLink(w)
          BY <4>1 DEF Start, StartRegister, StartLogin, StartLogout, StartVisit,
                      StartWithPassword, StartRequestReset, StartLink
        <4>2. CASE \/ LookupSession(w) \/ LookupUser(w) \/ TouchSession(w)
                   \/ OpenSession(w) \/ RegisterFind(w) \/ LoginFind(w)
                   \/ DestroySession(w) \/ Visit(w)
          BY <4>2 DEF LookupSession, LookupUser, Load, TouchSession, OpenSession,
                      RegisterFind, LoginFind, DestroySession, Visit
        <4>3. CASE \/ RequestVerify(w) \/ DestroyOthers(w) \/ ResetFind(w)
                   \/ IssueToken(w) \/ ReadLink(w) \/ ReadLinkUser(w)
                   \/ SpendLink(w) \/ Abort(w)
          BY <4>3 DEF RequestVerify, DestroyOthers, ResetFind, Load, IssueToken, ReadLink,
                      ReadLinkUser, SpendLink, Abort
        <4>4. CASE RegisterInsert(w) \/ ChangePassword(w) \/ Apply(w)
          BY <4>4 DEF RegisterInsert, ChangePassword, Apply
        <4> QED
          BY <2>2, <3>1, <4>1, <4>2, <4>3, <4>4 DEF Step
      <3>2. \/ UNCHANGED <<sessions, emailTokens>>
            \/ UNCHANGED <<users, emailTokens>>
            \/ UNCHANGED <<users, sessions>>
        BY <1>2, <3>1 DEF Next, AgeSession, ExpireLink, Disable
      <3>3. \/ \E u \in UserIds : Book!Register(u)
            \/ \E u \in Users : \/ Book!Mail(u) \/ Book!Verify(u)
                                \/ Book!SignIn(u) \/ Book!SignOut(u)
            \/ Given' = Given /\ \A u \in UserIds : Shown(u)' = Shown(u)
        BY <1>2, <2>2, <3>2, BookOfUsers, BookOfSessions, BookOfLinks
      <3> QED
        BY <3>3, OpenShown DEF Inv, AccountsSeparate, Book!Next
    <2> QED
      BY <2>1, <2>2
  <1> QED
    BY <1>1, <1>2

\* Seen through who is registered, verified and signed in, the racing requests
\* are the book: an address is given to one account at a time, an account is
\* verified only after a verification link was mailed to it, a session belongs to
\* the account it was opened for and never comes back, and a deleted account
\* takes all of its own with it, and nothing else.
THEOREM ImplementsAccountBookHolds == Spec => ImplementsAccountBook
  <1>1. Init => Book!Init
    BY DEF Init, Book!Init, Shown, Given, Users
  <1>2. Inv /\ [Next]_vars => [Book!Next]_<<[u \in UserIds |-> Shown(u)], Given>>
    BY StepImplementsBook
  <1> QED
    BY <1>1, <1>2, InvHolds, PTL DEF Spec, ImplementsAccountBook, Book!Spec

--------------------------------------------------------------------------------
(* Requests that come one at a time *)

Busy == {w \in Workers : req[w].pc # "idle"}

\* A session that rests on a replaced password is about to be destroyed.
Doomed(s) ==
    \E w \in Workers : /\ At(w, "destroy_others")
                       /\ req[w].user = sessions[s].user
                       /\ req[w].token # s

\* The link a request has read is unused, until the request uses it.
Unspent(w) ==
    req[w].pc \in {"link_user", "link_commit"} /\ req[w].link \in Mailed
        => ~emailTokens[req[w].link].used

AloneInv ==
    /\ \A s \in outdated : s \in Tokens /\ sessions[s] # None
    /\ outdated # {} => alone
    /\ alone => /\ \A v, w \in Busy : v = w
                /\ \A s \in outdated \intersect Sessions : Doomed(s)
                /\ \A w \in Workers : Unspent(w)

LEMMA AtMostOne ==
    ASSUME NEW S, IsFiniteSet(S), Cardinality(S) <= 1, NEW x \in S, NEW y \in S
    PROVE  x = y
  <1>1. Cardinality(S) \in Nat /\ Cardinality(S \ {x}) \in Nat /\ IsFiniteSet(S \ {x})
    BY FS_RemoveElement, FS_CardinalityType
  <1>2. Cardinality(S \ {x}) = Cardinality(S) - 1
    BY FS_RemoveElement
  <1>3. Cardinality(S \ {x}) = 0
    BY <1>1, <1>2
  <1> QED
    BY <1>1, <1>3, FS_EmptySet

\* Which steps lead to the stages these theorems are about.
LEMMA StagesEntered ==
    ASSUME Inv, NEW w \in Workers, Step(w)
    PROVE  /\ req[w].pc # "idle" \/ req'[w].pc # "idle"
           /\ req'[w].pc = "destroy_others" => ChangePassword(w)
           /\ req[w].pc = "destroy_others" => DestroyOthers(w) \/ Abort(w)
           /\ req'[w].pc = "link_user" => ReadLink(w)
           /\ req'[w].pc = "link_commit" => ReadLinkUser(w)
           /\ req'[w].pc = "apply" => SpendLink(w)
  <1> DEFINE Watched == {"destroy_others", "link_user", "link_commit", "apply"}
  <1>0. TypeOK /\ req \in [Workers -> Requests] /\ req[w] \in Requests
    BY RequestTyped DEF Inv, AccountsSeparate, TypeOK
  <1>1. CASE \/ StartRegister(w) \/ StartLogin(w) \/ StartLogout(w) \/ StartVisit(w)
             \/ StartWithPassword(w) \/ StartRequestReset(w) \/ StartLink(w)
    <2>1. req[w].pc = "idle"
      BY <1>1 DEF Start, StartRegister, StartLogin, StartLogout, StartVisit,
         StartWithPassword, StartRequestReset, StartLink
    <2>2. req'[w].pc \in {"register_find", "login_find", "logout", "session", "reset_find",
                          "link"}
      <3>1. CASE StartRegister(w)
        BY <1>0, <3>1 DEF StartRegister, Start, NoReq
      <3>2. CASE StartLogin(w)
        BY <1>0, <3>2 DEF StartLogin, Start, NoReq
      <3>3. CASE StartLogout(w)
        BY <1>0, <3>3 DEF StartLogout, Start, NoReq
      <3>4. CASE StartVisit(w)
        BY <1>0, <3>4 DEF StartVisit, Start, NoReq
      <3>5. CASE StartWithPassword(w)
        BY <1>0, <3>5 DEF StartWithPassword, Start, NoReq
      <3>6. CASE StartRequestReset(w)
        BY <1>0, <3>6 DEF StartRequestReset, Start, NoReq
      <3>7. CASE StartLink(w)
        BY <1>0, <3>7 DEF StartLink, Start, NoReq
      <3> QED
        BY <1>1, <3>1, <3>2, <3>3, <3>4, <3>5, <3>6, <3>7
    <2> QED
      BY <2>1, <2>2
  <1>2. ASSUME Finish(w) PROVE req'[w].pc = "idle"
    BY <1>0, <1>2 DEF Finish, NoReq
  <1>3. ASSUME NEW stage, Go(w, stage) PROVE req'[w].pc = stage
    BY <1>0, <1>3 DEF Go, Requests
  <1>4. ASSUME NEW u, NEW stage, Load(w, u, stage) PROVE req'[w].pc = stage
    BY <1>0, <1>4 DEF Load, Requests
  <1>5. CASE \/ OpenSession(w) \/ DestroySession(w) \/ Visit(w) \/ DeleteAccount(w)
             \/ Apply(w)
    BY <1>2, <1>5 DEF OpenSession, DestroySession, Visit, DeleteAccount, Apply, At
  <1>6. CASE DestroyOthers(w) \/ Abort(w)
    BY <1>2, <1>6 DEF DestroyOthers, Abort, At
  <1>7. CASE LookupUser(w) \/ LoginFind(w) \/ ResetFind(w) \/ ReadLinkUser(w)
    <2>1. CASE ReadLinkUser(w)
      BY <1>4, <2>1 DEF ReadLinkUser, At
    <2>2. CASE LookupUser(w) \/ LoginFind(w) \/ ResetFind(w)
      <3>1. CASE LookupUser(w)
        <4>1. \E stage \in {"touch", "act"} : Load(w, req[w].user, stage)
          BY <3>1 DEF LookupUser
        <4>2. req'[w].pc \in {"touch", "act"} /\ req[w].pc = "user"
          BY <1>4, <3>1, <4>1 DEF LookupUser, At
        <4> QED
          BY <4>2
      <3>2. CASE LoginFind(w)
        <4>1. req'[w].pc = "open" /\ req[w].pc = "login_find"
          BY <1>4, <3>2 DEF LoginFind, At
        <4> QED
          BY <4>1
      <3>3. CASE ResetFind(w)
        <4>1. req'[w].pc = "issue" /\ req[w].pc = "reset_find"
          BY <1>4, <3>3 DEF ResetFind, At
        <4> QED
          BY <4>1
      <3> QED
        BY <2>2, <3>1, <3>2, <3>3
    <2> QED
      BY <1>7, <2>1, <2>2
  <1>8. CASE \/ TouchSession(w) \/ RegisterFind(w) \/ RequestVerify(w)
    BY <1>3, <1>8 DEF TouchSession, RegisterFind, RequestVerify, At
  <1>9. CASE ChangePassword(w) \/ SpendLink(w)
    BY <1>3, <1>9 DEF ChangePassword, SpendLink, At
  <1>10. CASE IssueToken(w)
    BY <1>2, <1>3, <1>10 DEF IssueToken, At
  <1>11. CASE LookupSession(w)
    BY <1>0, <1>11 DEF LookupSession, At, Requests
  <1>12. CASE ReadLink(w)
    BY <1>0, <1>12 DEF ReadLink, At, Requests
  <1>13. CASE RegisterInsert(w)
    <2>1. req'[w].pc = IF Smtp THEN "issue" ELSE "open"
      BY <1>0, <1>13 DEF RegisterInsert, Requests
    <2> QED
      BY <1>13, <2>1 DEF RegisterInsert, At
  <1> QED
    BY <1>1, <1>5, <1>6, <1>7, <1>8, <1>9, <1>10, <1>11, <1>12, <1>13 DEF Step

\* A step of one request leaves the others where they are.
LEMMA OthersWait ==
    ASSUME Inv, NEW w \in Workers, Step(w), NEW v \in Workers, v # w
    PROVE  req'[v] = req[v]
  <1>1. req \in [Workers -> Requests]
    BY DEF Inv, AccountsSeparate, TypeOK
  <1> QED
    BY <1>1, StepMoves

\* Only using a link makes it used.
LEMMA LinksUnspent ==
    ASSUME Inv, Next, ~\E w \in Workers : SpendLink(w),
           NEW l \in Mailed', emailTokens'[l].used
    PROVE  l \in Mailed /\ emailTokens[l].used
  <1>0. TypeOK
    BY DEF Inv, AccountsSeparate
  <1>1. CASE emailTokens' = emailTokens
    BY <1>1 DEF Mailed
  <1>2. CASE \E w \in Workers : IssueToken(w)
    <2>1. PICK w \in Workers, k \in Links :
             emailTokens' = [emailTokens EXCEPT ![k] =
                 [user |-> req[w].user, purpose |-> Purpose(req[w].op),
                  used |-> FALSE, expired |-> FALSE]]
      BY <1>2 DEF IssueToken
    <2> QED
      BY <1>0, <2>1 DEF TypeOK, Mailed
  <1>3. CASE \E k \in Links : ExpireLink(k)
    <2>1. PICK k \in Mailed : emailTokens' = [emailTokens EXCEPT ![k].expired = TRUE]
      BY <1>3 DEF ExpireLink
    <2>2. emailTokens[k] \in LinkRows /\ k \in Links
      BY <1>0, <2>1, RowsTyped
    <2>3. emailTokens'[k].used = emailTokens[k].used
      BY <1>0, <2>1, <2>2 DEF TypeOK, LinkRows
    <2>4. \A j \in Links \ {k} : emailTokens'[j] = emailTokens[j]
      BY <1>0, <2>1 DEF TypeOK
    <2> QED
      BY <2>1, <2>3, <2>4 DEF Mailed
  <1>4. CASE \E w \in Workers : DeleteAccount(w)
    BY <1>0, <1>4, Deleted DEF Mailed
  <1>5. CASE /\ ~\E w \in Workers : IssueToken(w) \/ DeleteAccount(w)
             /\ ~\E k \in Links : ExpireLink(k)
    <2>1. emailTokens' = emailTokens
      <3>1. ASSUME NEW w \in Workers, Step(w) PROVE emailTokens' = emailTokens
        <4>1. CASE \/ StartRegister(w) \/ StartLogin(w) \/ StartLogout(w) \/ StartVisit(w)
                   \/ StartWithPassword(w) \/ StartRequestReset(w) \/ StartLink(w)
          BY <4>1 DEF Start, StartRegister, StartLogin, StartLogout, StartVisit,
             StartWithPassword, StartRequestReset, StartLink
        <4>2. CASE \/ LookupSession(w) \/ LookupUser(w) \/ TouchSession(w) \/ OpenSession(w)
                   \/ RegisterFind(w) \/ RegisterInsert(w) \/ LoginFind(w)
                   \/ DestroySession(w) \/ Visit(w) \/ RequestVerify(w)
          BY <4>2 DEF LookupSession, LookupUser, Load, TouchSession, OpenSession,
             RegisterFind, RegisterInsert, LoginFind, DestroySession, Visit, RequestVerify
        <4>3. CASE \/ ChangePassword(w) \/ DestroyOthers(w) \/ ResetFind(w) \/ ReadLink(w)
                   \/ ReadLinkUser(w) \/ Apply(w) \/ Abort(w)
          BY <4>3 DEF ChangePassword, DestroyOthers, ResetFind, Load, ReadLink,
             ReadLinkUser, Apply, Abort
        <4> QED
          BY <1>5, <3>1, <4>1, <4>2, <4>3 DEF Step
      <3> QED
        BY <1>5, <3>1 DEF Next, AgeSession, Disable
    <2> QED
      BY <2>1 DEF Mailed
  <1> QED
    BY <1>1, <1>2, <1>3, <1>4, <1>5

LEMMA OutdatedKept ==
    ASSUME Inv, AloneInv, HistoryNext
    PROVE  /\ \A s \in outdated' : s \in Tokens /\ sessions'[s] # None
           /\ outdated' # {} => alone'
  <1>1. \A s \in outdated \union Sessions : s \in Tokens /\ sessions[s] # None
    BY DEF AloneInv, Sessions
  <1>2. outdated' \subseteq outdated \union Sessions
    BY DEF HistoryNext, SessionsOf
  <1>3. \A s \in Tokens : sessions[s] # None => sessions'[s] # None
    BY SessionsKept, RowsPresent DEF HistoryNext, Sessions
  <1> QED
    BY <1>1, <1>2, <1>3 DEF HistoryNext

LEMMA OneIsBusy ==
    ASSUME HistoryNext, alone', NEW v \in Busy', NEW w \in Busy'
    PROVE  v = w
  <1>1. Busy' = {u \in Workers : req'[u].pc # "idle"} /\ Busy' \subseteq Workers
    BY DEF Busy
  <1>2. IsFiniteSet(Busy')
    BY <1>1, WorkersAssumption, FS_Subset
  <1>3. Cardinality(Busy') <= 1
    BY <1>1 DEF HistoryNext
  <1> QED
    BY <1>2, <1>3, AtMostOne

LEMMA DoomedKept ==
    ASSUME Inv, AloneInv, HistoryNext, alone', NEW s \in outdated', s \in Sessions'
    PROVE  Doomed(s)'
  <1>0. Next /\ alone
    BY DEF HistoryNext
  <1>1. outdated' = outdated \union UNION {SessionsOf(req[w].user) \ {req[w].token} :
                                               w \in Replaced}
    BY DEF HistoryNext
  <1>2. ASSUME s \in outdated PROVE s \in Sessions /\ Doomed(s)
    <2>1. s \in Tokens /\ sessions[s] # None /\ sessions'[s] # Gone
      BY <1>2 DEF AloneInv, Sessions
    <2>2. s \in Sessions
      BY <1>0, <2>1, SessionsKept DEF Sessions
    <2> QED
      BY <1>0, <1>2, <2>2 DEF AloneInv
  <1>3. s \in Sessions => sessions'[s].user = sessions[s].user
    BY <1>0, SessionsKept, RowsPresent DEF Sessions
  <1>4. ASSUME s \in outdated, NEW v \in Workers, At(v, "destroy_others"),
               req[v].user = sessions[s].user, req[v].token # s, req'[v] = req[v]
        PROVE  Doomed(s)'
    BY <1>2, <1>3, <1>4 DEF Doomed, At
  <1>5. ASSUME NEW w \in Workers, ChangePassword(w) PROVE Doomed(s)'
    <2>0. Step(w)
      BY <1>5 DEF Step
    <2>1. /\ At(w, "act") /\ sessions' = sessions
          /\ req'[w].pc = "destroy_others"
          /\ req'[w].user = req[w].user /\ req'[w].token = req[w].token
      <3>1. /\ Go(w, "destroy_others") /\ TypeOK
        BY <1>5 DEF ChangePassword, Inv, AccountsSeparate
      <3>2. PICK q \in Requests :
               /\ req' = [req EXCEPT ![w] = q] /\ q.pc = "destroy_others"
               /\ q.user = req[w].user /\ q.token = req[w].token
        BY <3>1, Goes DEF Stages
      <3> QED
        BY <1>5, <3>1, <3>2 DEF ChangePassword, TypeOK
    <2>2. \A v \in Replaced : v = w
      BY <2>0, OthersWait DEF Replaced, At
    <2>3. s \notin outdated
      <3> SUFFICES ASSUME s \in outdated PROVE FALSE
        OBVIOUS
      <3>1. PICK v \in Workers : At(v, "destroy_others")
        BY <1>2 DEF Doomed
      <3>2. v \in Busy /\ w \in Busy
        BY <2>1, <3>1 DEF Busy, At
      <3> QED
        BY <1>0, <2>1, <3>1, <3>2 DEF AloneInv, At
    <2>4. s \in SessionsOf(req[w].user) \ {req[w].token}
      BY <1>1, <2>2, <2>3
    <2> QED
      BY <2>1, <2>4 DEF Doomed, At, SessionsOf
  <1>6. ASSUME NEW w \in Workers, Step(w), ~ChangePassword(w) PROVE Doomed(s)'
    <2>1. Replaced = {}
      BY <1>6, OthersWait, StagesEntered DEF Replaced, At
    <2>2. s \in outdated
      BY <1>1, <2>1
    <2>3. PICK v \in Workers : /\ At(v, "destroy_others")
                               /\ req[v].user = sessions[s].user /\ req[v].token # s
      BY <1>2, <2>2 DEF Doomed
    <2>4. CASE v # w
      BY <1>4, <1>6, <2>2, <2>3, <2>4, OthersWait
    <2>5. CASE v = w
      <3>1. s \in OtherSessions(w)
        BY <1>2, <2>2, <2>3, <2>5 DEF OtherSessions, SessionsOf
      <3>2. CASE DestroyOthers(w)
        <4>1. sessions'[s] = Gone
          BY <3>1, <3>2 DEF DestroyOthers, OtherSessions, SessionsOf, Sessions
        <4> QED
          BY <4>1 DEF Sessions
      <3>3. CASE Abort(w)
        <4>1. req'[w].pc = "idle"
          BY <3>3 DEF Abort, Finish, NoReq, Inv, AccountsSeparate, TypeOK
        <4>2. Dies(w)
          BY <2>3, <2>5, <3>1, <4>1 DEF Dies
        <4> QED
          BY <4>2 DEF HistoryNext
      <3> QED
        BY <1>6, <2>3, <2>5, <3>2, <3>3, StagesEntered DEF At
    <2> QED
      BY <2>4, <2>5
  <1>7. CASE ~\E w \in Workers : Step(w)
    <2>1. req' = req
      BY <1>0, <1>7 DEF Next, AgeSession, ExpireLink, Disable
    <2>2. s \in outdated
      BY <1>1, <2>1 DEF Replaced, At
    <2> QED
      BY <1>2, <1>4, <2>1, <2>2 DEF Doomed
  <1> QED
    BY <1>5, <1>6, <1>7

LEMMA UnspentKept ==
    ASSUME Inv, AloneInv, HistoryNext, alone', NEW w \in Workers
    PROVE  Unspent(w)'
  <1> SUFFICES ASSUME req'[w].pc \in {"link_user", "link_commit"}, req'[w].link \in Mailed'
               PROVE  ~emailTokens'[req'[w].link].used
    BY DEF Unspent
  <1>0. Next /\ alone /\ TypeOK
    BY DEF HistoryNext, Inv, AccountsSeparate
  <1>1. ASSUME NEW v \in Workers, Step(v), v # w PROVE FALSE
    <2>1. req'[w] = req[w] /\ w \in Busy /\ w \in Busy'
      BY <1>1, OthersWait DEF Busy
    <2>2. v \in Busy \/ v \in Busy'
      BY <1>1, StagesEntered DEF Busy
    <2> QED
      BY <1>0, <1>1, <2>1, <2>2, OneIsBusy DEF AloneInv
  <1>2. CASE Step(w)
    <2>1. CASE ReadLink(w)
      <3>1. /\ req'[w].link = req[w].link /\ emailTokens' = emailTokens
            /\ ~emailTokens[req[w].link].used
        BY <1>0, <2>1 DEF ReadLink, LinkIsValid, TypeOK, Requests
      <3> QED
        BY <3>1
    <2>2. CASE ReadLinkUser(w)
      <3>1. req'[w].link = req[w].link /\ emailTokens' = emailTokens /\ req[w].pc = "link_user"
        BY <1>0, <2>2 DEF ReadLinkUser, Load, At, TypeOK, Requests
      <3>2. req[w].link \in Mailed
        BY <3>1 DEF Mailed
      <3> QED
        BY <1>0, <3>1, <3>2 DEF AloneInv, Unspent
    <2> QED
      BY <1>2, <2>1, <2>2, StagesEntered
  <1>3. CASE ~\E v \in Workers : Step(v)
    <2>1. req' = req /\ ~\E v \in Workers : SpendLink(v)
      BY <1>0, <1>3 DEF Next, AgeSession, ExpireLink, Disable, Step
    <2> SUFFICES ASSUME emailTokens'[req'[w].link].used PROVE FALSE
      OBVIOUS
    <2>2. req[w].link \in Mailed /\ emailTokens[req[w].link].used
      BY <1>0, <2>1, LinksUnspent
    <2> QED
      BY <1>0, <2>1, <2>2 DEF AloneInv, Unspent
  <1> QED
    BY <1>1, <1>2, <1>3

LEMMA AloneInvNext ==
    ASSUME Inv, AloneInv, [HistoryNext]_HistoryVars
    PROVE  AloneInv'
  <1>1. CASE UNCHANGED HistoryVars
    BY <1>1 DEF HistoryVars, vars, AloneInv, Busy, Doomed, Unspent, At, Sessions, Mailed
  <1>2. CASE HistoryNext
    <2>1. /\ \A s \in outdated' : s \in Tokens /\ sessions'[s] # None
          /\ outdated' # {} => alone'
      BY <1>2, OutdatedKept
    <2>2. ASSUME alone' PROVE \A v, w \in Busy' : v = w
      BY <1>2, <2>2, OneIsBusy
    <2>3. ASSUME alone' PROVE \A s \in outdated' \intersect Sessions' : Doomed(s)'
      BY <1>2, <2>3, DoomedKept
    <2>4. ASSUME alone' PROVE \A w \in Workers : Unspent(w)'
      BY <1>2, <2>4, UnspentKept
    <2> QED
      BY <2>1, <2>2, <2>3, <2>4 DEF AloneInv
  <1> QED
    BY <1>1, <1>2

LEMMA AloneInvInit == ASSUME HistoryInit PROVE Inv /\ AloneInv
  <1>1. \A w \in Workers : req[w].pc = "idle"
    BY DEF HistoryInit, Init, NoReq
  <1> QED
    BY <1>1, InvInit DEF HistoryInit, AloneInv, Busy, Unspent

LEMMA HistoryInvariance == HistorySpec => [](Inv /\ AloneInv)
  <1>1. [HistoryNext]_HistoryVars => [Next]_vars
    BY DEF HistoryNext, HistoryVars
  <1> QED
    BY <1>1, AloneInvInit, AloneInvNext, InvNext, PTL DEF HistorySpec

\* As long as requests came one at a time and no change of password died half
\* way, whatever session rests on a password that change_password replaced is gone
\* or about to go; reset_password ends none.
THEOREM OldSessionsKilledHolds == HistorySpec => []OldSessionsKilled
  <1>1. AloneInv => OldSessionsKilled
    BY DEF AloneInv, OldSessionsKilled, Doomed
  <1> QED
    BY <1>1, HistoryInvariance, PTL

\* In any sequence of requests that do not overlap, a link works once.
THEOREM LinkUsedOnceHolds == HistorySpec => LinkUsedOnce
  <1>1. ASSUME Inv, AloneInv, [HistoryNext]_HistoryVars
        PROVE  [alone' => \A w \in Workers : At(w, "link_commit") /\ req'[w].pc = "apply"
                    => ~emailTokens[req[w].link].used]_HistoryVars
    <2> SUFFICES ASSUME HistoryNext, alone', NEW w \in Workers,
                        At(w, "link_commit"), req'[w].pc = "apply"
                 PROVE  ~emailTokens[req[w].link].used
      BY <1>1
    <2>1. Next /\ alone
      BY DEF HistoryNext
    <2>2. req'[w] # req[w]
      BY DEF At
    <2>3. PICK v \in Workers : Step(v)
      BY <2>1, <2>2 DEF Next, AgeSession, ExpireLink, Disable
    <2>4. SpendLink(w)
      BY <1>1, <2>2, <2>3, OthersWait, StagesEntered
    <2> QED
      BY <1>1, <2>1, <2>4 DEF SpendLink, AloneInv, Unspent, At
  <1> QED
    BY <1>1, HistoryInvariance, PTL DEF HistorySpec, LinkUsedOnce
================================================================================
