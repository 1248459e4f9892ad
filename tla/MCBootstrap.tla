---------------------------- MODULE MCBootstrap ----------------------------
(* Small instances of the bootstraps for TLC.                              *)
EXTENDS Bootstrap

CONSTANTS c1, c2, n1, n2, bad, r1, r2, r3

TwoClusters == {c1, c2}
ThreeNames == {n1, n2, bad}
ValidTwo == {n1, n2}
AllAccounts == TwoClusters \X ThreeNames
TwoRuns == {r1, r2}
OneRun == {r1}
ThreeRuns == {r1, r2, r3}

(* Cluster c1 imports from itself and from c2, under its own two names.    *)
FromBoth == r1 :> c1 @@ r2 :> c2
ToFirst == [r \in Runs |-> c1]
NamedApart == r1 :> n1 @@ r2 :> n2
NamedFirst == [r \in Runs |-> n1]

(* Both runs import from c2: the same command run twice.                   *)
FromSecond == [r \in Runs |-> c2]
NamedSecond == [r \in Runs |-> n2]

(* The third name is no DNS-1123 subdomain.                                *)
NamedBadly == [NamedSecond EXCEPT ![r3] = bad]
=============================================================================
