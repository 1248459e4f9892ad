----------------------------- MODULE MCImporter -----------------------------
(* Small instances of the importer for TLC.                                *)
EXTENDS Importer

CONSTANTS i1, i2, a1, a2, c1, c2

OneImport == {i1}
TwoImports == {i1, i2}
OneAccount == {a1}
TwoAccounts == {a1, a2}

(* The two accounts are in different clusters; c2 may or may not be        *)
(* configured when the controller starts.                                  *)
TwoClusters == a1 :> c1 @@ a2 :> c2
OneCluster == [a \in Accounts |-> c1]
KnownCluster == {{c1}}
EitherClusters == {{c1}, {c1, c2}}

(* Sound for safety in instances where all accounts are in one cluster.    *)
Symmetry == Permutations(Imports) \union Permutations(Accounts)
=============================================================================
