--------------------------- MODULE MCInstallation ---------------------------
(* Small instances of a target cluster for TLC.                            *)
EXTENDS Installation

CONSTANTS c1, c2, i1, a1, a2, ctl, p1

OneSeed == {c1}
TwoSeeds == {c1, c2}
SeedAndOther == {c1, i1}
OneAccount == {a1}
TwoAccounts == {a1, a2}
OnlyController == {ctl}
WithPod == {ctl, p1}

OneCluster == [a \in Accounts |-> c1]
TwoClusters == a1 :> c1 @@ a2 :> c2
RemoteFirst == [c \in Seeds |-> a1]
RemoteBoth == c1 :> a1 @@ c2 :> a2
AnyClusters == SUBSET Seeds

(* A cluster and the account in it change places with the others.          *)
ClusterSymmetry ==
    {p \in Permutations({c1, c2, a1, a2}) :
        p[c1] \in {c1, c2} /\ p[a1] = IF p[c1] = c1 THEN a1 ELSE a2}

(* A bound: users change something once, here or in a source cluster.      *)
OneChange == edits + sourceEdits <= 1

NotAnnotated == ctl :> <<>>
NamesSeeds == ctl :> <<>> @@ p1 :> <<c2, c1>>
NamesOther == ctl :> <<>> @@ p1 :> <<i1>>
=============================================================================
