-------------------------------- MODULE Catalog --------------------------------
(***************************************************************************)
(* What an inventory promises, with no requests or rows in sight: a map    *)
(* from names to parts.  Parts are put under their names, many at once or  *)
(* none; a name that is taken keeps its part, which gets the new document  *)
(* and nothing else; a part is edited and removed alone.                   *)
(***************************************************************************)
CONSTANTS
    Names,      \* names of parts
    Ids,        \* what tells parts apart
    Docs,       \* what a part may contain
    None        \* there is no part of that name

VARIABLES
    catalog,    \* [Names -> part or None]
    used        \* the parts there have been so far

Lifecycles == {"draft", "approved", "deprecated", "obsolete"}

Parts == [id : Ids, doc : Docs, lifecycle : Lifecycles]

Init == catalog = [n \in Names |-> None] /\ used = {}

Taken == {n \in Names : catalog[n] # None}

\* Part p is put again: it gets the document and nothing else.
Again(p, new) == \E doc \in Docs : new = [p EXCEPT !.doc = doc]

\* A part not seen before, of the first lifecycle of all that is put with it.
Fresh(n, first) ==
    \E i \in Ids \ used, doc \in Docs :
        /\ catalog'[n] = [id |-> i, doc |-> doc, lifecycle |-> first]
        /\ \A m \in Taken' \ {n} : catalog'[m].id # i

Put ==
    /\ \E first \in {"draft", "approved"} : \A n \in Names :
          \/ catalog'[n] = catalog[n]
          \/ n \in Taken /\ Again(catalog[n], catalog'[n])
          \/ n \notin Taken /\ Fresh(n, first)
    /\ used' = used \union {p.id : p \in {catalog'[n] : n \in Names} \ {None}}

Becomes(n, part) == catalog' = [catalog EXCEPT ![n] = part] /\ used' = used

Edit(n) ==
    \E doc \in Docs, lifecycle \in Lifecycles :
        Becomes(n, [catalog[n] EXCEPT !.doc = doc, !.lifecycle = lifecycle])

Remove(n) == Becomes(n, None)

Next == Put \/ \E n \in Taken : Edit(n) \/ Remove(n)

Spec == Init /\ [][Next]_<<catalog, used>>
================================================================================
