------------------------------ MODULE AccountBook ------------------------------
(***************************************************************************)
(* What accounts promise, with no requests, cookies or tables in sight: a  *)
(* book with an entry per account.  An address has one open account.  An   *)
(* account is signed in and out and verified by somebody its link was      *)
(* mailed to; once closed, all that was its own goes with it and its       *)
(* number is not given again.                                              *)
(***************************************************************************)
CONSTANTS
    Emails,     \* addresses
    UserIds,    \* the numbers accounts can get
    Tokens,     \* what tells sessions apart
    None,       \* the entry of a number not given so far
    Gone        \* the entry of a closed account

VARIABLES
    book,       \* [UserIds -> entry, None or Gone]
    used        \* the tokens given out so far

Entries == [email : Emails, verified : BOOLEAN,
            mailed : SUBSET {"verify", "reset"}, sessions : SUBSET Tokens]

Open == {u \in UserIds : book[u] \notin {None, Gone}}

Init == book = [u \in UserIds |-> None] /\ used = {}

Becomes(u, entry) == book' = [book EXCEPT ![u] = entry]

Register(u) ==
    /\ book[u] = None
    /\ \E email \in Emails :
          /\ \A v \in Open : book[v].email # email
          /\ Becomes(u, [email |-> email, verified |-> FALSE, mailed |-> {}, sessions |-> {}])
    /\ used' = used

Mail(u) ==
    /\ \E purpose \in {"verify", "reset"} :
          Becomes(u, [book[u] EXCEPT !.mailed = @ \union {purpose}])
    /\ used' = used

Verify(u) ==
    /\ "verify" \in book[u].mailed
    /\ Becomes(u, [book[u] EXCEPT !.verified = TRUE])
    /\ used' = used

SignIn(u) ==
    \E token \in Tokens \ used :
        /\ Becomes(u, [book[u] EXCEPT !.sessions = @ \union {token}])
        /\ used' = used \union {token}

SignOut(u) ==
    /\ \E some \in SUBSET book[u].sessions :
          Becomes(u, [book[u] EXCEPT !.sessions = @ \ some])
    /\ used' = used

Close(u) == Becomes(u, Gone) /\ used' = used

Next ==
    \/ \E u \in UserIds : Register(u)
    \/ \E u \in Open : Mail(u) \/ Verify(u) \/ SignIn(u) \/ SignOut(u) \/ Close(u)

Spec == Init /\ [][Next]_<<book, used>>
================================================================================
