------------------------------ MODULE TelemetryLog ------------------------------
(***************************************************************************)
(* What telemetry promises to whoever reads it: a log of the events that   *)
(* were posted and not lost, each once, under its own session and with the *)
(* document it was posted with.                                            *)
(*                                                                         *)
(* The environment is the session's, not the event's: the first event that *)
(* is recorded under a session decides for all of them.  Events without a  *)
(* session id share the session "unknown", so one tab that declares        *)
(* "development" decides for everybody's, whatever the comment in          *)
(* `telemetry` says of untagged rows.                                      *)
(***************************************************************************)
EXTENDS Sequences, Naturals

CONSTANTS SessionIds, Environments, Documents, Posters, None

VARIABLES
    outstanding,    \* events posted and neither recorded nor lost, with who posted each
    log

logVars == <<outstanding, log>>

PostedEvents == [session : SessionIds, environment : Environments,
                 document : Documents \union {None}]

PostEvent(p) ==
    /\ \A o \in outstanding : o.by # p
    /\ \E e \in PostedEvents : outstanding' = outstanding \union {[by |-> p, event |-> e]}
    /\ UNCHANGED log

SameSession(e) == {i \in DOMAIN log : log[i].session = e.session}

Record(o) ==
    /\ \E environment \in Environments :
          /\ SameSession(o.event) = {} => environment = o.event.environment
          /\ \A i \in SameSession(o.event) : log[i].environment = environment
          /\ log' = Append(log, [session |-> o.event.session, environment |-> environment,
                                 document |-> o.event.document])
    /\ outstanding' = outstanding \ {o}

Lose(o) ==
    /\ outstanding' = outstanding \ {o}
    /\ UNCHANGED log

LogInit == outstanding = {} /\ log = <<>>

LogNext ==
    \/ \E p \in Posters : PostEvent(p)
    \/ \E o \in outstanding : Record(o) \/ Lose(o)

LogSpec == LogInit /\ [][LogNext]_logVars
================================================================================
