----------------------------- MODULE ImportList -----------------------------
(***************************************************************************)
(* What the bootstraps of a target cluster promise each other: the list of *)
(* imports its controller mounts is one that they append to, each in one   *)
(* step, and from which nothing is ever lost.                              *)
(***************************************************************************)
EXTENDS Sequences

CONSTANTS
    Clusters,
    Names    \* names of source clusters, and of the imports named after them

VARIABLE lists  \* lists[c]: the imports the controller of cluster c mounts

Init == lists = [c \in Clusters |-> <<>>]

Announce(c, n) == lists' = [lists EXCEPT ![c] = Append(@, n)]

Next == \E c \in Clusters, n \in Names : Announce(c, n)

Spec == Init /\ [][Next]_lists
=============================================================================
