------------------------------- MODULE MCSessions -------------------------------
(***************************************************************************)
(* Instances of Sessions for TLC.  Everything but the routes and the       *)
(* addresses is interchangeable.                                           *)
(*                                                                         *)
(* Two history variables: alone tells whether every request so far ended   *)
(* before the next began and no change of password died half way;          *)
(* outdated holds, until then, the sessions that rest on a password which  *)
(* a change_password has replaced since.                                   *)
(*                                                                         *)
(* routes, chosen at the start, is what the clients do: everything with a  *)
(* cookie, or everything with an emailed link.                             *)
(***************************************************************************)
EXTENDS Sessions, Naturals, TLC

VARIABLES alone, outdated, routes

HistoryVars == <<vars, alone, outdated, routes>>

Cookies == {"register", "login", "logout", "visit", "change_password", "delete_account"}

Mails == {"register", "request_verify", "verify", "request_reset", "reset",
          "delete_account"}

HistoryInit == Init /\ alone = TRUE /\ outdated = {} /\ routes \in {Cookies, Mails}

Dies(w) ==
    /\ At(w, "destroy_others")
    /\ req'[w].pc = "idle"
    /\ OtherSessions(w) \intersect Sessions' # {}

Replaced == {w \in Workers : At(w, "act") /\ req'[w].pc = "destroy_others"}

HistoryNext ==
    /\ Next
    /\ \A w \in Workers : req'[w].op \in routes \union {None}
    /\ routes = Cookies => \A l \in Mailed' : ~emailTokens'[l].expired
    /\ routes = Mails => \A s \in Sessions' : sessions'[s].age = "fresh"
    /\ routes' = routes
    /\ alone' = /\ alone
                /\ Cardinality({w \in Workers : req'[w].pc # "idle"}) <= 1
                /\ \A w \in Workers : ~Dies(w)
    /\ outdated' = IF alone'
                   THEN outdated \union UNION {SessionsOf(req[w].user) \ {req[w].token} :
                                                   w \in Replaced}
                   ELSE {}

HistorySpec == HistoryInit /\ [][HistoryNext]_HistoryVars

Symmetry == Permutations(UserIds) \union Permutations(Tokens)
                \union Permutations(Links) \union Permutations(Workers)
                \union Permutations(Passwords)

\* "Kill every session of the user except the one making the request"
\* (destroy_other_sessions): once a change of password that nothing disturbed
\* has ended, no session lives that rests on the password it replaced.  A password
\* that is reset by a mailed link ends no session.
OldSessionsKilled ==
    \A s \in outdated \intersect Sessions :
        \E w \in Workers :
            At(w, "destroy_others") /\ req[w].user = sessions[s].user

\* "Invalid or expired token" (_consume_email_token): a link works once, in any
\* sequence of requests that do not overlap.
LinkUsedOnce ==
    [][alone' => \A w \in Workers : At(w, "link_commit") /\ req'[w].pc = "apply"
            => ~emailTokens[req[w].link].used]_HistoryVars
================================================================================
