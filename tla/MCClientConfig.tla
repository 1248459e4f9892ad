--------------------------- MODULE MCClientConfig ---------------------------
(* Small instances of the client configuration for TLC.                    *)
EXTENDS ClientConfig, TLC

CONSTANTS n1, n2

TwoNames == {n1, n2}

(* No definition and no property tells one name from another.              *)
NameSymmetry == Permutations(TwoNames)
=============================================================================
