------------------------------- MODULE MCFeed -------------------------------
(* One page and two rows, for what LiveFeed says of lost rows.            *)
EXTENDS LiveFeed

CONSTANTS page, ann

OneKind    == [i \in Items |-> 1]
NobodysOwn == [i \in Items |-> Nobody]
AnnsPage   == [c \in Subscribers |-> ann]
=============================================================================
