------------------------------- MODULE Tokens -------------------------------
(***************************************************************************)
(* What travels from a source cluster to the target cluster: the tokens of *)
(* remote service accounts.  The two clusters share no other notion.       *)
(***************************************************************************)
EXTENDS Naturals

CONSTANT Accounts  \* remote service accounts: (clusterName, namespace, name)

(* A token secret of a remote service account; "serial" tells the tokens   *)
(* one account is given during its life apart.                             *)
Token == [account : Accounts, serial : Nat]

TokenOf(a, n) == [account |-> a, serial |-> n]
=============================================================================
