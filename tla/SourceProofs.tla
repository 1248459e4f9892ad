---------------------------- MODULE SourceProofs ----------------------------
(***************************************************************************)
(* Lemmas about sequences and about the source clusters, for the proofs    *)
(* about the components that use them.                                     *)
(***************************************************************************)
EXTENDS SourceClusters, SequencesExt, SequenceTheorems, TLAPS

-----------------------------------------------------------------------------
(* Sequences and sets.                                                     *)

LEMMA AppendToSet ==
    ASSUME NEW S, NEW q \in Seq(S), NEW e \in S
    PROVE  /\ Append(q, e) \in Seq(S)
           /\ ToSet(Append(q, e)) = ToSet(q) \union {e}
<1>1. /\ Append(q, e) \in Seq(S)
      /\ Len(Append(q, e)) = Len(q) + 1
      /\ \A k \in 1..Len(q) : Append(q, e)[k] = q[k]
      /\ Append(q, e)[Len(q) + 1] = e
  BY AppendProperties
<1>2. Len(q) \in Nat /\ DOMAIN q = 1..Len(q)
  OBVIOUS
<1>3. DOMAIN Append(q, e) = 1..(Len(q) + 1)
  BY <1>1
<1>4. \A k \in 1..(Len(q) + 1) : k \in 1..Len(q) \/ k = Len(q) + 1
  BY <1>2
<1>. QED  BY <1>1, <1>2, <1>3, <1>4 DEF ToSet

LEMMA HeadTailToSet ==
    ASSUME NEW S, NEW q \in Seq(S), q # <<>>
    PROVE  /\ Head(q) \in S /\ Head(q) \in ToSet(q)
           /\ Tail(q) \in Seq(S) /\ ToSet(Tail(q)) \subseteq ToSet(q)
<1>1. /\ Head(q) \in S
      /\ Tail(q) \in Seq(S)
      /\ Len(Tail(q)) = Len(q) - 1
      /\ \A k \in 1..Len(Tail(q)) : Tail(q)[k] = q[k + 1]
  BY HeadTailProperties
<1>2. Len(q) \in Nat /\ Len(q) > 0 /\ DOMAIN q = 1..Len(q) /\ Head(q) = q[1]
  OBVIOUS
<1>3. DOMAIN Tail(q) = 1..(Len(q) - 1)
  BY <1>1
<1>4. \A k \in 1..(Len(q) - 1) : k + 1 \in 1..Len(q)
  BY <1>2
<1>. QED  BY <1>1, <1>2, <1>3, <1>4 DEF ToSet

LEMMA LastToSet ==
    ASSUME NEW S, NEW q \in Seq(S), q # <<>>
    PROVE  Last(q) \in S /\ Last(q) \in ToSet(q)
  BY DEF Last, ToSet

LEMMA ToSetType ==
    ASSUME NEW S, NEW q \in Seq(S)
    PROVE  ToSet(q) \subseteq S
  BY DEF ToSet

LEMMA EmptyToSet == ToSet(<<>>) = {}
  BY DEF ToSet

-----------------------------------------------------------------------------
(* Type correctness of the source clusters.                                *)

LEMMA TokenOfType == \A a \in Accounts, n \in Nat : TokenOf(a, n) \in Token
  BY DEF TokenOf, Token

LEMMA ForgottenRefs ==
    ASSUME NEW q \in Seq(Token), NEW k \in 1..Len(q)
    PROVE  /\ SubSeq(q, 1, k - 1) \o SubSeq(q, k + 1, Len(q)) \in Seq(Token)
           /\ ToSet(SubSeq(q, 1, k - 1) \o SubSeq(q, k + 1, Len(q)))
                  \subseteq ToSet(q)
<1>. DEFINE u == SubSeq(q, 1, k - 1)
            v == SubSeq(q, k + 1, Len(q))
<1>0. Len(q) \in Nat /\ k \in Nat /\ 1 <= k /\ k <= Len(q)
  OBVIOUS
<1>1. /\ Len(q) \in Nat /\ k \in Nat /\ 1 <= k /\ k <= Len(q)
      /\ DOMAIN q = 1..Len(q)
      /\ \A n \in 1..Len(q) : q[n] \in Token
  OBVIOUS
<1>2. /\ u \in Seq(Token)
      /\ Len(u) = k - 1
      /\ \A n \in 1..(k - 1) : u[n] = q[n]
  BY <1>1, SubSeqProperties
<1>3. /\ v \in Seq(Token)
      /\ Len(v) = Len(q) - k
      /\ \A n \in 1..(Len(q) - k) : v[n] = q[k + n]
  <2>1. \A n \in (k + 1)..Len(q) : q[n] \in Token
    BY <1>1
  <2>2. /\ v \in Seq(Token)
        /\ Len(v) = IF k + 1 <= Len(q) THEN Len(q) - (k + 1) + 1 ELSE 0
        /\ \A n \in 1..(Len(q) - (k + 1) + 1) : v[n] = q[(k + 1) + n - 1]
    BY <1>1, <2>1, SubSeqProperties
  <2>. HIDE DEF v
  <2>3. Len(v) = Len(q) - k
    <3>1. CASE k + 1 <= Len(q)
      BY <1>1, <2>2, <3>1
    <3>2. CASE ~(k + 1 <= Len(q))
      <4>1. Len(v) = 0
        BY <2>2, <3>2
      <4>2. ASSUME NEW n \in Nat, k <= n, ~(k + 1 <= n) PROVE n - k = 0
        BY <1>0, <4>2
      <4>. QED  BY <1>0, <3>2, <4>1, <4>2
    <3>. QED  BY <3>1, <3>2
  <2>4. ASSUME NEW n \in 1..(Len(q) - k)
        PROVE  v[n] = q[k + n]
    <3>1. n \in 1..(Len(q) - (k + 1) + 1) /\ (k + 1) + n - 1 = k + n
      BY <1>1
    <3>. QED  BY <2>2, <3>1
  <2>. QED  BY <2>2, <2>3, <2>4
<1>. HIDE DEF u, v
<1>4. /\ u \o v \in Seq(Token)
      /\ Len(u \o v) = Len(q) - 1
      /\ \A n \in 1..(Len(q) - 1) :
            (u \o v)[n] = IF n <= k - 1 THEN u[n] ELSE v[n - (k - 1)]
  <2>1. /\ u \o v \in Seq(Token)
        /\ Len(u \o v) = Len(u) + Len(v)
        /\ \A n \in 1..(Len(u) + Len(v)) :
              (u \o v)[n] = IF n <= Len(u) THEN u[n] ELSE v[n - Len(u)]
    BY <1>2, <1>3, ConcatProperties
  <2>2. Len(u) + Len(v) = Len(q) - 1
    BY <1>1, <1>2, <1>3
  <2>. QED  BY <1>2, <2>1, <2>2
<1>5. ASSUME NEW n \in 1..(Len(q) - 1)
      PROVE  (u \o v)[n] \in ToSet(q)
  <2>1. CASE n <= k - 1
    <3>1. n \in 1..(k - 1) /\ n \in 1..Len(q)
      BY <1>1, <2>1
    <3>2. (u \o v)[n] = u[n]
      BY <1>4, <2>1
    <3>3. (u \o v)[n] = q[n]
      BY <1>2, <3>1, <3>2
    <3>. QED  BY <3>1, <3>3 DEF ToSet
  <2>2. CASE ~(n <= k - 1)
    <3>1. n - (k - 1) \in 1..(Len(q) - k) /\ n + 1 \in 1..Len(q)
      BY <1>1, <2>2
    <3>2. (u \o v)[n] = v[n - (k - 1)]
      BY <1>1, <1>4, <2>2
    <3>3. k + (n - (k - 1)) = n + 1
      BY <1>1
    <3>4. (u \o v)[n] = q[n + 1]
      BY <1>3, <3>1, <3>2, <3>3
    <3>. QED  BY <1>1, <3>1, <3>4 DEF ToSet
  <2>. QED  BY <2>1, <2>2
<1>6. DOMAIN (u \o v) = 1..(Len(q) - 1)
  BY <1>4
<1>7. ToSet(u \o v) \subseteq ToSet(q)
  BY <1>5, <1>6 DEF ToSet
<1>. QED  BY <1>4, <1>7 DEF u, v

LEMMA SourceInitType == SourceInit => SourceTypeOK
<1>. SUFFICES ASSUME SourceInit PROVE SourceTypeOK
  OBVIOUS
<1>1. \A n \in 1..InitialTokens : n \in Nat
  BY TokensAssumption
<1>2. ASSUME NEW a \in Accounts
      PROVE  [n \in 1..InitialTokens |-> TokenOf(a, n)] \in Seq(Token)
  BY <1>1, TokenOfType, TokensAssumption, IsASeq
<1>3. refs \in [Accounts -> Seq(Token)]
  BY <1>2 DEF SourceInit
<1>4. tokens \subseteq Token
  BY <1>1, TokenOfType DEF SourceInit
<1>. QED  BY <1>3, <1>4, TokensAssumption DEF SourceInit, SourceTypeOK

(* What happens in the source clusters preserves their type.               *)
LEMMA SourceType ==
    ASSUME SourceTypeOK
    PROVE  /\ \A a \in Accounts :
                 /\ CreateAccount(a) => SourceTypeOK'
                 /\ AddToken(a) => SourceTypeOK'
                 /\ ForgetToken(a) => SourceTypeOK'
                 /\ DeleteAccount(a) => SourceTypeOK'
           /\ \A t \in tokens : DeleteToken(t) => SourceTypeOK'
<1>1. ASSUME NEW a \in Accounts, CreateAccount(a)
      PROVE  SourceTypeOK'
  BY <1>1 DEF CreateAccount, SourceTypeOK
<1>2. ASSUME NEW a \in Accounts, AddToken(a)
      PROVE  SourceTypeOK'
  <2>1. minted[a] + 1 \in Nat /\ minted' \in [Accounts -> Nat]
    BY <1>2 DEF AddToken, SourceTypeOK
  <2>2. TokenOf(a, minted[a] + 1) \in Token
    BY <2>1, TokenOfType
  <2>3. Append(refs[a], TokenOf(a, minted[a] + 1)) \in Seq(Token)
    BY <2>2, AppendToSet DEF SourceTypeOK
  <2>4. refs' \in [Accounts -> Seq(Token)]
    BY <1>2, <2>3 DEF AddToken, SourceTypeOK
  <2>. QED  BY <1>2, <2>1, <2>2, <2>4 DEF AddToken, SourceTypeOK
<1>3. ASSUME NEW a \in Accounts, ForgetToken(a)
      PROVE  SourceTypeOK'
  <2>1. PICK k \in 1..Len(refs[a]) :
            refs' = [refs EXCEPT ![a] = SubSeq(@, 1, k - 1)
                                         \o SubSeq(@, k + 1, Len(@))]
    BY <1>3 DEF ForgetToken
  <2>2. refs' \in [Accounts -> Seq(Token)]
    BY <2>1, ForgottenRefs DEF SourceTypeOK
  <2>. QED  BY <1>3, <2>2 DEF ForgetToken, SourceTypeOK
<1>4. ASSUME NEW a \in Accounts, DeleteAccount(a)
      PROVE  SourceTypeOK'
  <2>1. refs' \in [Accounts -> Seq(Token)]
    BY <1>4, EmptySeq DEF DeleteAccount, SourceTypeOK
  <2>. QED  BY <1>4, <2>1 DEF DeleteAccount, SourceTypeOK
<1>5. ASSUME NEW t \in tokens, DeleteToken(t)
      PROVE  SourceTypeOK'
  BY <1>5 DEF DeleteToken, SourceTypeOK
<1>. QED  BY <1>1, <1>2, <1>3, <1>4, <1>5

(* ... and leaves every account with tokens of its own.                    *)
LEMMA TokensStayOwned ==
    ASSUME SourceTypeOK, TokensOwned
    PROVE  /\ \A a \in Accounts :
                 /\ CreateAccount(a) => TokensOwned'
                 /\ AddToken(a) => TokensOwned'
                 /\ ForgetToken(a) => TokensOwned'
                 /\ DeleteAccount(a) => TokensOwned'
           /\ \A t \in tokens : DeleteToken(t) => TokensOwned'
<1>1. /\ refs \in [Accounts -> Seq(Token)] /\ minted \in [Accounts -> Nat]
  BY DEF SourceTypeOK
<1>2. ASSUME NEW a \in Accounts, AddToken(a)
      PROVE  TokensOwned'
  <2>1. TokenOf(a, minted[a] + 1) \in Token
    BY <1>1, TokenOfType
  <2>2. ToSet(Append(refs[a], TokenOf(a, minted[a] + 1))) =
            ToSet(refs[a]) \union {TokenOf(a, minted[a] + 1)}
    BY <1>1, <2>1, AppendToSet
  <2>3. TokenOf(a, minted[a] + 1).account = a
    BY DEF TokenOf
  <2>. QED  BY <1>1, <1>2, <2>2, <2>3 DEF AddToken, TokensOwned
<1>3. ASSUME NEW a \in Accounts, ForgetToken(a)
      PROVE  TokensOwned'
  <2>1. PICK k \in 1..Len(refs[a]) :
            refs' = [refs EXCEPT ![a] = SubSeq(@, 1, k - 1)
                                         \o SubSeq(@, k + 1, Len(@))]
    BY <1>3 DEF ForgetToken
  <2>2. ToSet(SubSeq(refs[a], 1, k - 1) \o SubSeq(refs[a], k + 1, Len(refs[a])))
            \subseteq ToSet(refs[a])
    BY <1>1, ForgottenRefs
  <2>. QED  BY <1>1, <2>1, <2>2 DEF TokensOwned
<1>4. ASSUME NEW a \in Accounts, DeleteAccount(a)
      PROVE  TokensOwned'
  BY <1>1, <1>4, EmptyToSet DEF DeleteAccount, TokensOwned
<1>5. ASSUME NEW a \in Accounts, CreateAccount(a)
      PROVE  TokensOwned'
  BY <1>5 DEF CreateAccount, TokensOwned
<1>6. ASSUME NEW t \in tokens, DeleteToken(t)
      PROVE  TokensOwned'
  BY <1>6 DEF DeleteToken, TokensOwned
<1>. QED  BY <1>2, <1>3, <1>4, <1>5, <1>6
=============================================================================
