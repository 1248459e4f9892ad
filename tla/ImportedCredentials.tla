------------------------ MODULE ImportedCredentials ------------------------
(***************************************************************************)
(* What the import controller promises: users ask for accounts in the      *)
(* specs of imports, and each import holds credentials of accounts it has  *)
(* asked for.  Credentials are gained, lost or exchanged one at a time,    *)
(* of one import at a time, and never pass from one import to another.     *)
(***************************************************************************)
CONSTANTS Imports, Accounts

VARIABLES
    requested,  \* requested[i]: the accounts import i has ever asked for
    held        \* held[i]: the accounts whose tokens it holds

credentialVars == <<requested, held>>

Init ==
    /\ requested = [i \in Imports |-> {}]
    /\ held = [i \in Imports |-> {}]

Request(i, a) ==
    /\ requested' = [requested EXCEPT ![i] = @ \union {a}]
    /\ UNCHANGED held

Gain(i, a) ==
    /\ a \in requested[i]
    /\ held' = [held EXCEPT ![i] = @ \union {a}]
    /\ UNCHANGED requested

Lose(i, a) ==
    /\ held' = [held EXCEPT ![i] = @ \ {a}]
    /\ UNCHANGED requested

Exchange(i, a, b) ==
    /\ b \in requested[i]
    /\ held' = [held EXCEPT ![i] = (@ \ {a}) \union {b}]
    /\ UNCHANGED requested

Next ==
    \/ \E i \in Imports, a \in Accounts : Request(i, a) \/ Gain(i, a) \/ Lose(i, a)
    \/ \E i \in Imports, a, b \in Accounts : Exchange(i, a, b)

Spec == Init /\ [][Next]_credentialVars
=============================================================================
