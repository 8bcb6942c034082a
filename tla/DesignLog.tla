------------------------------- MODULE DesignLog -------------------------------
(***************************************************************************)
(* What "My Designs" promises about the documents it stores, with no       *)
(* requests, snapshots or database rows in sight: each design is a log of  *)
(* documents of which only the newest entry, the head, is remembered here. *)
(* The head moves one number at a time, to a document different from the   *)
(* one before it, and a design once deleted stays deleted.                 *)
(***************************************************************************)
EXTENDS Naturals

CONSTANTS
    Designs,    \* the identifiers a design can get
    Docs,       \* the documents, told apart by their canonical hash
    None        \* not an entry: the head of a design that does not exist

VARIABLES
    head,       \* [Designs -> entry or None]
    live        \* the designs that have not been deleted

Entries == [nr : Nat, doc : Docs]

Init == head = [d \in Designs |-> None] /\ live = {}

Create(d) ==
    /\ head[d] = None
    /\ \E doc \in Docs : head' = [head EXCEPT ![d] = [nr |-> 1, doc |-> doc]]
    /\ live' = live \union {d}

\* A save that was under way when its design was deleted still lands, so the
\* design need not be live.
Append(d) ==
    /\ head[d] # None
    /\ \E doc \in Docs \ {head[d].doc} :
          head' = [head EXCEPT ![d] = [nr |-> head[d].nr + 1, doc |-> doc]]
    /\ live' = live

Delete(d) ==
    /\ live' = live \ {d}
    /\ head' = head

Next == \E d \in Designs : Create(d) \/ Append(d) \/ Delete(d)

Spec == Init /\ [][Next]_<<head, live>>
================================================================================
