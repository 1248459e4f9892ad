--------------------------- MODULE SourceClusters ---------------------------
(***************************************************************************)
(* The source clusters: the service accounts whose tokens are imported,    *)
(* and the token controller that gives them tokens.  External to the       *)
(* repository; pkg/importer only reads it, one GET at a time.              *)
(***************************************************************************)
EXTENDS Tokens, Naturals, SequencesExt

CONSTANTS
    InitialTokens,  \* how many tokens each account has at first
    MaxTokens       \* how many an account is given at a time

ASSUME TokensAssumption == InitialTokens \in Nat /\ MaxTokens \in Nat

VARIABLES
    accounts,  \* the service accounts that exist
    refs,      \* refs[a]: the secrets listed by service account a
    tokens,    \* the token secrets that exist
    minted     \* minted[a]: how many tokens account a was ever given

sourceVars == <<accounts, refs, tokens, minted>>

SourceTypeOK ==
    /\ accounts \subseteq Accounts
    /\ refs \in [Accounts -> Seq(Token)]
    /\ tokens \subseteq Token
    /\ minted \in [Accounts -> Nat]

SourceInit ==
    /\ accounts = Accounts
    /\ refs = [a \in Accounts |-> [n \in 1..InitialTokens |-> TokenOf(a, n)]]
    /\ tokens = {TokenOf(a, n) : a \in Accounts, n \in 1..InitialTokens}
    /\ minted = [a \in Accounts |-> InitialTokens]

CreateAccount(a) ==
    /\ a \notin accounts
    /\ accounts' = accounts \union {a}
    /\ UNCHANGED <<refs, tokens, minted>>

(* The secret is created first and listed by the account right after it;   *)
(* nobody looks at a secret no account lists, so the two are one step.     *)
AddToken(a) ==
    /\ a \in accounts
    /\ Len(refs[a]) < MaxTokens
    /\ minted' = [minted EXCEPT ![a] = @ + 1]
    /\ tokens' = tokens \union {TokenOf(a, minted[a] + 1)}
    /\ refs' = [refs EXCEPT ![a] = Append(@, TokenOf(a, minted[a] + 1))]
    /\ UNCHANGED accounts

DeleteToken(t) ==
    /\ tokens' = tokens \ {t}
    /\ UNCHANGED <<accounts, refs, minted>>

(* The token controller stops listing a secret that was deleted.           *)
ForgetToken(a) ==
    /\ \E k \in 1..Len(refs[a]) :
          /\ refs[a][k] \notin tokens
          /\ refs' = [refs EXCEPT ![a] = SubSeq(@, 1, k - 1)
                                          \o SubSeq(@, k + 1, Len(@))]
    /\ UNCHANGED <<accounts, tokens, minted>>

DeleteAccount(a) ==
    /\ a \in accounts
    /\ accounts' = accounts \ {a}
    /\ refs' = [refs EXCEPT ![a] = <<>>]
    /\ tokens' = {t \in tokens : t.account # a}
    /\ UNCHANGED minted

(* A service account lists tokens of its own.                              *)
TokensOwned == \A a \in Accounts : \A t \in ToSet(refs[a]) : t.account = a
=============================================================================
