--------------------------- MODULE IdentityProofs ---------------------------
(***************************************************************************)
(* Proofs about names and versions in the importer: which object a write   *)
(* from a copy reaches.  A copy may be as old as it likes; what counts is  *)
(* that a name is given once and that no copy is newer than the store.     *)
(***************************************************************************)
EXTENDS ImporterProofs

(* What SpecNeverReverted takes, and the API server promises: no copy of   *)
(* an import is newer than the stored one, and a copy with its uid and     *)
(* version is equal to it in every field.                                  *)
Superseded(o) ==
    /\ o.uid <= created
    /\ \A p \in sais : p.uid = o.uid =>
          p.name = o.name /\ o.rv <= p.rv /\ (o.rv = p.rv => o = p)

VersionsIdentify ==
    /\ \A p, q \in sais : p.name = q.name \/ p.uid = q.uid => p = q
    /\ \A o \in ImportCopies : Superseded(o)

IdentityInv == CredentialsInv /\ NamesIdentify /\ VersionsIdentify

LEMMA SecretCopiesType == TypeOK => SecretCopies \subseteq Secret
<1>. SUFFICES ASSUME TypeOK PROVE SecretCopies \subseteq Secret
  OBVIOUS
<1>1. ToSet(secretEvents) \subseteq Event(Secret) /\ ToSet(osl) \subseteq Secret
  BY ToSetType DEF TypeOK, StoreTypeOK, WorkerTypeOK
<1>. QED  BY <1>1 DEF SecretCopies, Event, TypeOK, StoreTypeOK, CacheTypeOK,
                      WorkerTypeOK

LEMMA ImportCopiesType == TypeOK => ImportCopies \subseteq ServiceAccountImport
<1>. SUFFICES ASSUME TypeOK PROVE ImportCopies \subseteq ServiceAccountImport
  OBVIOUS
<1>1. ToSet(saiEvents) \subseteq Event(ServiceAccountImport)
  BY ToSetType DEF TypeOK, StoreTypeOK
<1>. QED  BY <1>1 DEF ImportCopies, Reconciling, Event, TypeOK, StoreTypeOK,
                      CacheTypeOK, WorkerTypeOK

-----------------------------------------------------------------------------
(* What a step may do for names to go on identifying secrets.              *)

(* A name is only ever given to a new secret, or kept by a new version.    *)
NamesKept ==
    /\ created' \in Nat /\ created <= created'
    /\ \A s, t \in secrets' : s.name = t.name => s = t
    /\ \A s \in secrets' :
          \/ \E p \in secrets : p.name = s.name /\ p.import = s.import
          \/ s.name > created /\ s.name <= created'

(* A copy is made of a copy, or of what the server stores.                 *)
SecretsCopied == SecretCopies' \subseteq SecretCopies \union secrets'

(* A status is kept, or names copies of the import's own secrets.          *)
StatusesKept ==
    \A o \in sais' : \A n \in ToSet(o.secrets) :
        \/ \E p \in sais : p.name = o.name /\ n \in ToSet(p.secrets)
        \/ \E s \in SecretCopies : s.name = n /\ s.import = o.name

LEMMA GivenToKept ==
    ASSUME TypeOK, NamesKept, NEW n \in Nat, NEW i, GivenTo(n, i)
    PROVE  GivenTo(n, i)'
<1>1. created \in Nat /\ secrets \subseteq Secret
  BY DEF TypeOK, StoreTypeOK
<1>2. n <= created'
  BY <1>1 DEF NamesKept, GivenTo
<1>3. ASSUME NEW s \in secrets', s.name = n
      PROVE  s.import = i
  <2>1. ~(s.name > created)
    BY <1>1, <1>3 DEF GivenTo
  <2>. QED  BY <1>3, <2>1 DEF NamesKept, GivenTo
<1>. QED  BY <1>2, <1>3 DEF GivenTo

LEMMA StatusType ==
    ASSUME TypeOK, NEW o \in sais
    PROVE  ToSet(o.secrets) \subseteq Nat
<1>1. o.secrets \in Seq(Nat)
  BY DEF TypeOK, StoreTypeOK, ServiceAccountImport
<1>. QED  BY <1>1, ToSetType

LEMMA NamesIdentifyKept ==
    ASSUME TypeOK, NamesIdentify, NamesKept, SecretsCopied, StatusesKept
    PROVE  NamesIdentify'
<1>1. SecretCopies \subseteq Secret /\ secrets \subseteq Secret /\ created \in Nat
  BY SecretCopiesType DEF TypeOK, StoreTypeOK
<1>2. \A s \in SecretCopies : s.name \in Nat /\ GivenTo(s.name, s.import)'
  BY <1>1, GivenToKept DEF NamesIdentify, Secret
<1>3. ASSUME NEW s \in secrets'
      PROVE  GivenTo(s.name, s.import)'
  <2>1. s.name <= created'
    <3>1. ASSUME NEW p \in secrets, p.name = s.name
          PROVE  s.name <= created'
      BY <1>2, <3>1 DEF SecretCopies, GivenTo
    <3>. QED  BY <3>1 DEF NamesKept
  <2>. QED  BY <2>1 DEF GivenTo, NamesKept
<1>4. \A s \in SecretCopies' : GivenTo(s.name, s.import)'
  BY <1>2, <1>3 DEF SecretsCopied
<1>5. ASSUME NEW o \in sais', NEW n \in ToSet(o.secrets)
      PROVE  GivenTo(n, o.name)'
  <2>1. CASE \E p \in sais : p.name = o.name /\ n \in ToSet(p.secrets)
    BY <2>1, StatusType, GivenToKept DEF NamesIdentify
  <2>2. CASE \E s \in SecretCopies : s.name = n /\ s.import = o.name
    BY <1>2, <2>2
  <2>. QED  BY <2>1, <2>2 DEF StatusesKept
<1>. QED  BY <1>4, <1>5 DEF NamesIdentify, NamesKept

(* The two writes of secrets and their removal, and what they leave alone. *)
LEMMA StoreSecretNames ==
    ASSUME TypeOK, NamesIdentify, NEW s \in Secret, StoreSecret(s),
           \/ created' = created + 1 /\ s.name = created + 1
           \/ /\ created' = created
              /\ \E p \in secrets : p.name = s.name /\ p.import = s.import
    PROVE  /\ NamesKept
           /\ \A e \in ToSet(secretEvents') :
                 e \in ToSet(secretEvents) \/ e.obj \in secrets'
<1>1. created \in Nat /\ secrets \subseteq Secret
  BY DEF TypeOK, StoreTypeOK
<1>2. /\ Stored(s) \in Secret
      /\ Stored(s).name = s.name /\ Stored(s).import = s.import
  BY StoredType DEF Stored, Secret
<1>3. secrets' = {p \in secrets : p.name # s.name} \union {Stored(s)}
  BY <1>2 DEF StoreSecret, Put
<1>4. \A p, q \in secrets' : p.name = q.name => p = q
  BY <1>2, <1>3 DEF NamesIdentify
<1>5. \A p \in secrets' :
          \/ \E q \in secrets : q.name = p.name /\ q.import = p.import
          \/ p.name > created /\ p.name <= created'
  BY <1>1, <1>2, <1>3
<1>6. [type |-> "put", obj |-> Stored(s)] \in Event(Secret)
  BY <1>2 DEF Event
<1>7. ToSet(secretEvents') =
          ToSet(secretEvents) \union {[type |-> "put", obj |-> Stored(s)]}
  BY <1>6, AppendToSet DEF StoreSecret, TypeOK, StoreTypeOK
<1>. QED  BY <1>1, <1>3, <1>4, <1>5, <1>7 DEF NamesKept

LEMMA RemoveSecretNames ==
    ASSUME TypeOK, NamesIdentify, NEW n, RemoveSecret(n)
    PROVE  /\ NamesKept
           /\ \A e \in ToSet(secretEvents') :
                 e \in ToSet(secretEvents) \/ e.obj \in secrets
           /\ \E s \in secrets : s.name = n /\ secrets' = secrets \ {s}
<1>1. created \in Nat /\ secrets \subseteq Secret
  BY DEF TypeOK, StoreTypeOK
<1>2. PICK s \in secrets :
          /\ s.name = n
          /\ secretEvents' = Append(secretEvents, [type |-> "delete", obj |-> s])
  BY DEF RemoveSecret
<1>3. [type |-> "delete", obj |-> s] \in Event(Secret)
  BY <1>1 DEF Event
<1>4. ToSet(secretEvents') =
          ToSet(secretEvents) \union {[type |-> "delete", obj |-> s]}
  BY <1>2, <1>3, AppendToSet DEF TypeOK, StoreTypeOK
<1>5. secrets' = secrets \ {s}
  BY <1>2 DEF RemoveSecret, Drop, NamesIdentify
<1>6. created' = created
  BY DEF RemoveSecret
<1>. QED  BY <1>1, <1>2, <1>4, <1>5, <1>6 DEF NamesKept, NamesIdentify

LEMMA SecretsUnchangedNames ==
    ASSUME TypeOK, NamesIdentify, UNCHANGED <<created, secrets>>
    PROVE  NamesKept
  BY DEF TypeOK, StoreTypeOK, NamesKept, NamesIdentify

(* Where the copies of a step may come from.                               *)
LEMMA CopiedFrom ==
    ASSUME secretCache' \subseteq SecretCopies \union secrets',
           \A e \in ToSet(secretEvents') :
               e \in ToSet(secretEvents) \/ e.obj \in secrets \union secrets',
           ToSet(osl') \subseteq SecretCopies,
           osm' # {} => os' \in SecretCopies \union secrets'
    PROVE  SecretsCopied
  BY DEF SecretsCopied, SecretCopies

-----------------------------------------------------------------------------
(* Names, step by step.                                                    *)

NamesStep == NamesKept /\ SecretsCopied /\ StatusesKept

LEMMA ClearedCopies ==
    ClearLocals => ToSet(osl') \subseteq SecretCopies /\ osm' = {}
  BY EmptyToSet DEF ClearLocals

LEMMA MappedCopies ==
    ASSUME TypeOK, MapObserved
    PROVE  /\ ToSet(osl') \subseteq SecretCopies
           /\ osm' # {} => os' \in SecretCopies
<1>1. osl \in Seq(Secret)
  BY DEF TypeOK, WorkerTypeOK
<1>2. ToSet(osl') \subseteq SecretCopies
  BY EmptyToSet DEF MapObserved
<1>3. osm' # {} => os' \in ToSet(osl)
  BY <1>1, LastToSet, EmptyToSet DEF MapObserved
<1>. QED  BY <1>2, <1>3 DEF SecretCopies

(* The steps of Reconcile that only read.                                  *)
LEMMA ReadStepsNames ==
    ASSUME IdentityInv,
           \/ GetImport \/ ListSecrets \/ GetAccount \/ GetToken
           \/ KeepSecret \/ FinishReconcile
    PROVE  NamesStep /\ UNCHANGED storeVars
<1>1. TypeOK /\ NamesIdentify
  BY DEF IdentityInv, CredentialsInv
<1>2. UNCHANGED <<storeVars, secretCache>>
  BY DEF GetImport, ListSecrets, GetAccount, GetToken, KeepSecret,
         FinishReconcile, cacheVars
<1>3. NamesKept /\ StatusesKept
  BY <1>1, <1>2, SecretsUnchangedNames DEF storeVars, StatusesKept
<1>4. SUFFICES /\ ToSet(osl') \subseteq SecretCopies
               /\ osm' # {} => os' \in SecretCopies
  BY <1>2, <1>3, CopiedFrom DEF NamesStep, storeVars, SecretCopies
<1>5. /\ UNCHANGED <<osl, osm, os>> => /\ ToSet(osl') \subseteq SecretCopies
                                       /\ osm' # {} => os' \in SecretCopies
  BY DEF SecretCopies
<1>6. CASE GetImport \/ GetAccount \/ GetToken \/ FinishReconcile
  BY <1>1, <1>5, <1>6, ClearedCopies, MappedCopies
     DEF GetImport, GetAccount, GetToken, FinishReconcile, Requeue, Finish
<1>7. CASE ListSecrets
  <2>1. IsFiniteSet(Selected)
    BY <1>1, FS_Subset DEF Selected, TypeOK, CacheTypeOK
  <2>2. ToSet(osl') \subseteq Selected
    BY <1>7, <2>1, SetToSeqsType, ToSetType DEF ListSecrets
  <2>. QED  BY <1>7, <2>2 DEF ListSecrets, Selected, SecretCopies
<1>8. CASE KeepSecret
  BY <1>8 DEF KeepSecret, NextDesired, SecretCopies
<1>. QED  BY <1>6, <1>7, <1>8

(* The names that a status is set to are those of the listed copies.       *)
LEMMA UpdateStatusNames ==
    ASSUME IdentityInv, UpdateStatus
    PROVE  NamesStep /\ UNCHANGED <<created, secrets, secretEvents, requested>>
<1>1. /\ TypeOK /\ NamesIdentify
      /\ sai \in ServiceAccountImport /\ sai.name = req
      /\ osl \in Seq(Secret) /\ \A s \in ToSet(osl) : s.import = req
  BY DEF UpdateStatus, Reconciling, IdentityInv, CredentialsInv, TypeOK,
         WorkerTypeOK, Provenance, LocalsOwned
<1>2. UNCHANGED <<created, secrets, secretEvents, requested, secretCache>>
  BY DEF UpdateStatus, StoreStatus, StoreImport, FailCall, storeVars, cacheVars
<1>3. NamesKept
  BY <1>1, <1>2, SecretsUnchangedNames
<1>4. SecretsCopied
  <2>1. /\ ToSet(osl') \subseteq SecretCopies
        /\ osm' # {} => os' \in SecretCopies
    BY ClearedCopies DEF UpdateStatus, FailCall, Requeue, SecretCopies
  <2>. QED  BY <1>2, <2>1, CopiedFrom DEF SecretCopies
<1>5. StatusesKept
  <2>1. CASE StoreStatus
    <3>1. /\ Stored(NewImport).name = req
          /\ Stored(NewImport).secrets = NamesOf(osl)
      BY <1>1 DEF Stored, NewImport, ServiceAccountImport
    <3>2. \A n \in ToSet(NamesOf(osl)) : \E s \in ToSet(osl) : s.name = n
      BY <1>1 DEF NamesOf, ToSet
    <3>3. sais' \subseteq sais \union {Stored(NewImport)}
      BY <2>1 DEF StoreStatus, StoreImport, Put
    <3>. QED  BY <1>1, <3>1, <3>2, <3>3 DEF StatusesKept, SecretCopies
  <2>2. CASE UNCHANGED storeVars
    BY <2>2 DEF storeVars, StatusesKept
  <2>. QED  BY <2>1, <2>2 DEF UpdateStatus, FailCall
<1>. QED  BY <1>2, <1>3, <1>4, <1>5 DEF NamesStep

(* How one step changes the secrets of import i: at most one is made,      *)
(* replaced or removed, and a new one holds what i has asked for.          *)
MadeFor(s, i) == s \in Secret /\ s.import = i /\ s.data.account \in requested[i]

OneSecretOf(i) ==
    \/ secrets' = secrets
    \/ \E s \in Secret : MadeFor(s, i) /\ secrets' = secrets \union {s}
    \/ \E p \in secrets : p.import = i /\ secrets' = secrets \ {p}
    \/ \E p \in secrets, s \in Secret :
          p.import = i /\ MadeFor(s, i) /\ secrets' = (secrets \ {p}) \union {s}

(* A secret made with a new name is one more.                              *)
LEMMA NewSecretStep ==
    ASSUME IdentityInv, NEW i, NEW s \in Secret, MadeFor(s, i), StoreSecret(s),
           created' = created + 1, s.name = created + 1
    PROVE  OneSecretOf(i)
<1>1. /\ Stored(s) \in Secret /\ Stored(s).name = s.name
      /\ Stored(s).import = s.import /\ Stored(s).data = s.data
  BY StoredType DEF Stored, Secret
<1>2. created \in Nat
  BY DEF IdentityInv, CredentialsInv, TypeOK, StoreTypeOK
<1>3. \A p \in secrets : p.name <= created
  BY DEF IdentityInv, NamesIdentify, SecretCopies, GivenTo
<1>4. secrets' = secrets \union {Stored(s)}
  <2>1. \A p \in secrets : p.name # s.name
    BY <1>2, <1>3
  <2>. QED  BY <1>1, <2>1 DEF StoreSecret, Put
<1>5. MadeFor(Stored(s), i)
  BY <1>1 DEF MadeFor
<1>. QED  BY <1>1, <1>4, <1>5 DEF OneSecretOf

(* A new version of a secret takes the place of one of the same import:    *)
(* whatever copy it was made from has a name no other import's secret has. *)
LEMMA NewVersionStep ==
    ASSUME IdentityInv, NEW i, NEW s \in Secret, MadeFor(s, i), StoreSecret(s),
           NEW p \in secrets, p.name = s.name, p.import = i
    PROVE  OneSecretOf(i)
<1>1. /\ Stored(s) \in Secret /\ Stored(s).name = s.name
      /\ Stored(s).import = s.import /\ Stored(s).data = s.data
  BY StoredType DEF Stored, Secret
<1>2. secrets' = (secrets \ {p}) \union {Stored(s)}
  <2>1. {q \in secrets : q.name # s.name} = secrets \ {p}
    BY DEF IdentityInv, NamesIdentify
  <2>. QED  BY <1>1, <2>1 DEF StoreSecret, Put
<1>3. MadeFor(Stored(s), i)
  BY <1>1 DEF MadeFor
<1>. QED  BY <1>1, <1>2, <1>3 DEF OneSecretOf

LEMMA WriteStepsNames ==
    ASSUME IdentityInv, CreateSecret \/ UpdateSecret \/ DeleteSecret
    PROVE  NamesStep /\ OneSecretOf(req) /\ UNCHANGED <<sais, saiEvents, requested>>
<1>1. /\ TypeOK /\ NamesIdentify /\ created \in Nat /\ sai.name = req
      /\ sai.spec \in requested[req]
  BY DEF CreateSecret, UpdateSecret, DeleteSecret, Reconciling, IdentityInv,
         CredentialsInv, TypeOK, StoreTypeOK, Provenance, LocalsOwned,
         SpecsRequested, ImportCopies
<1>2. /\ dss # <<>> => MadeFor(Head(dss), req)
      /\ osm # {} => os \in Secret /\ os.import = req /\ GivenTo(os.name, req)
  <2>1. dss # <<>> => Head(dss) \in Secret /\ Head(dss) \in ToSet(dss)
    BY <1>1, HeadTailToSet DEF TypeOK, WorkerTypeOK
  <2>2. osm # {} => os \in Secret /\ os \in SecretCopies /\ os.import = req
    BY DEF SecretCopies, IdentityInv, CredentialsInv, TypeOK, WorkerTypeOK,
           Provenance, LocalsOwned
  <2>. QED  BY <1>1, <2>1, <2>2 DEF MadeFor, IdentityInv, NamesIdentify,
                                    CredentialsInv, Provenance, LocalsOwned
<1>3. /\ UNCHANGED <<sais, saiEvents, requested>>
      /\ secretCache' = secretCache
  BY DEF CreateSecret, UpdateSecret, DeleteSecret, StoreNewSecret, StoreData,
         StoreSecret, RemoveSecret, FailCall, storeVars, cacheVars
<1>4. StatusesKept
  BY <1>3 DEF StatusesKept
<1>5. ASSUME UNCHANGED storeVars
      PROVE  /\ NamesKept /\ OneSecretOf(req)
             /\ \A e \in ToSet(secretEvents') : e \in ToSet(secretEvents)
  BY <1>1, <1>5, SecretsUnchangedNames DEF storeVars, OneSecretOf
<1>6. ASSUME NamesKept,
             \A e \in ToSet(secretEvents') :
                 e \in ToSet(secretEvents) \/ e.obj \in secrets \union secrets',
             ToSet(osl') \subseteq SecretCopies,
             osm' # {} => os' \in SecretCopies \union secrets'
      PROVE  NamesStep
  BY <1>3, <1>4, <1>6, CopiedFrom DEF NamesStep, SecretCopies
<1>7. ASSUME NextDesired, os' \in SecretCopies \union secrets' \/ UNCHANGED os
      PROVE  /\ ToSet(osl') \subseteq SecretCopies
             /\ osm' # {} => os' \in SecretCopies \union secrets'
  BY <1>7 DEF NextDesired, SecretCopies
<1>8. CASE CreateSecret
  <2>1. /\ NamesKept /\ OneSecretOf(req)
        /\ \A e \in ToSet(secretEvents') :
              e \in ToSet(secretEvents) \/ e.obj \in secrets \union secrets'
    <3>1. CASE StoreNewSecret
      <4>. DEFINE s == [Head(dss) EXCEPT !.name = created + 1]
      <4>1. /\ s \in Secret /\ s.name = created + 1
            /\ s.import = req /\ s.data = Head(dss).data
        BY <1>1, <1>2, <1>8, NamedSecretType DEF CreateSecret, MadeFor, Secret
      <4>2. MadeFor(s, req)
        BY <1>2, <1>8, <4>1 DEF CreateSecret, MadeFor
      <4>3. StoreSecret(s) /\ created' = created + 1
        BY <3>1 DEF StoreNewSecret
      <4>. HIDE DEF s
      <4>4. /\ NamesKept
            /\ \A e \in ToSet(secretEvents') :
                  e \in ToSet(secretEvents) \/ e.obj \in secrets'
        BY <1>1, <4>1, <4>3, StoreSecretNames
      <4>5. OneSecretOf(req)
        BY <4>1, <4>2, <4>3, NewSecretStep
      <4>. QED  BY <4>4, <4>5
    <3>. QED  BY <1>5, <1>8, <3>1 DEF CreateSecret, FailCall
  <2>2. /\ ToSet(osl') \subseteq SecretCopies
        /\ osm' # {} => os' \in SecretCopies \union secrets'
    BY <1>7, <1>8, ClearedCopies DEF CreateSecret, FailCall, Requeue
  <2>. QED  BY <1>3, <1>6, <2>1, <2>2
<1>9. CASE UpdateSecret
  <2>1. /\ os \in Secret /\ os.import = req /\ GivenTo(os.name, req)
        /\ MadeFor(Head(dss), req)
    BY <1>2, <1>9 DEF UpdateSecret
  <2>2. /\ NewSecret \in Secret /\ NewSecret.name = os.name
        /\ MadeFor(NewSecret, req)
    BY <2>1 DEF MadeFor, NewSecret, Secret
  <2>3. /\ NamesKept /\ OneSecretOf(req)
        /\ \A e \in ToSet(secretEvents') :
              e \in ToSet(secretEvents) \/ e.obj \in secrets \union secrets'
        /\ StoreData => Stored(NewSecret) \in secrets'
    <3>1. CASE StoreData
      <4>1. PICK p \in secrets : p.name = os.name
        BY <3>1 DEF StoreData, SecretIsCurrent
      <4>2. p.name = NewSecret.name /\ p.import = req
        BY <2>1, <2>2, <4>1 DEF GivenTo
      <4>3. StoreSecret(NewSecret) /\ created' = created
        BY <3>1 DEF StoreData
      <4>4. /\ NamesKept
            /\ \A e \in ToSet(secretEvents') :
                  e \in ToSet(secretEvents) \/ e.obj \in secrets'
        BY <1>1, <2>2, <4>2, <4>3, StoreSecretNames DEF MadeFor
      <4>5. OneSecretOf(req)
        BY <2>2, <4>2, <4>3, NewVersionStep
      <4>6. Stored(NewSecret) \in secrets'
        BY <4>3 DEF StoreSecret, Put
      <4>. QED  BY <4>4, <4>5, <4>6
    <3>2. CASE UNCHANGED storeVars
      <4>1. ~StoreData
        <5>1. StoreData => secretEvents' # secretEvents
          BY <1>1 DEF StoreData, StoreSecret, TypeOK, StoreTypeOK
        <5>. QED  BY <3>2, <5>1 DEF storeVars
      <4>. QED  BY <1>5, <3>2, <4>1
    <3>. QED  BY <1>9, <3>1, <3>2 DEF UpdateSecret, FailCall
  <2>4. /\ ToSet(osl') \subseteq SecretCopies
        /\ osm' # {} => os' \in SecretCopies \union secrets'
    BY <1>7, <1>9, <2>3, ClearedCopies DEF UpdateSecret, FailCall, Requeue
  <2>. QED  BY <1>3, <1>6, <2>3, <2>4
<1>10. CASE DeleteSecret
  <2>1. os \in Secret /\ os.import = req /\ GivenTo(os.name, req)
    BY <1>2, <1>10 DEF DeleteSecret
  <2>2. /\ NamesKept /\ OneSecretOf(req)
        /\ \A e \in ToSet(secretEvents') :
              e \in ToSet(secretEvents) \/ e.obj \in secrets \union secrets'
    <3>1. CASE RemoveSecret(os.name)
      BY <1>1, <2>1, <3>1, RemoveSecretNames DEF GivenTo, OneSecretOf
    <3>. QED  BY <1>5, <1>10, <3>1 DEF DeleteSecret, FailCall
  <2>3. /\ ToSet(osl') \subseteq SecretCopies
        /\ osm' # {} => os' \in SecretCopies \union secrets'
    BY <1>10, ClearedCopies DEF DeleteSecret, FailCall, Requeue, SecretCopies
  <2>. QED  BY <1>3, <1>6, <2>2, <2>3
<1>. QED  BY <1>8, <1>9, <1>10

(* Starting and stopping, the events, and the queue.  The store is read    *)
(* at most: all copies are made of the store or of events.                 *)
LEMMA ControllerNames ==
    ASSUME IdentityInv,
           \/ Start \/ Die \/ HandleImportEvent \/ HandleSecretEvent \/ Resync
           \/ \E i \in Imports : TakeRequest(i),
           UNCHANGED <<created, sais, secrets>>
    PROVE  NamesStep
<1>1. TypeOK /\ NamesIdentify
  BY DEF IdentityInv, CredentialsInv
<1>2. NamesKept /\ StatusesKept
  BY <1>1, SecretsUnchangedNames DEF StatusesKept
<1>3. CASE Start
  BY <1>2, <1>3, EmptyToSet, CopiedFrom
     DEF Start, localVars, NamesStep, SecretCopies
<1>4. CASE Die
  BY <1>2, <1>4, EmptyToSet, ClearedCopies, CopiedFrom DEF Die, NamesStep
<1>5. CASE HandleSecretEvent
  <2>1. /\ Head(secretEvents) \in ToSet(secretEvents)
        /\ ToSet(Tail(secretEvents)) \subseteq ToSet(secretEvents)
    BY <1>1, <1>5, HeadTailToSet DEF HandleSecretEvent, TypeOK, StoreTypeOK
  <2>2. secretCache' \subseteq secretCache \union {Head(secretEvents).obj}
    BY <1>5 DEF HandleSecretEvent, Apply, Put, Drop
  <2>. QED  BY <1>2, <1>5, <2>1, <2>2, CopiedFrom
            DEF HandleSecretEvent, localVars, NamesStep, SecretCopies
<1>6. CASE HandleImportEvent \/ Resync \/ \E i \in Imports : TakeRequest(i)
  BY <1>2, <1>6 DEF HandleImportEvent, Resync, TakeRequest, storeVars, cacheVars,
                    localVars, NamesStep, SecretsCopied, SecretCopies
<1>. QED  BY <1>3, <1>4, <1>5, <1>6

(* Users and the collector.                                                *)
LEMMA UsersNames ==
    ASSUME TypeOK, NamesIdentify,
           UNCHANGED <<secretCache, osl, osm, os>>
    PROVE  /\ \A i \in Imports, a \in Accounts : CreateImport(i, a) => NamesStep
           /\ \A o \in sais, a \in Accounts : EditSpec(o, a) => NamesStep
           /\ \A o \in sais : DeleteImport(o) => NamesStep
           /\ \A s \in secrets :
                 DeleteSecretByHand(s) \/ CollectGarbage(s) => NamesStep
<1>1. /\ created \in Nat /\ secrets \subseteq Secret
      /\ sais \subseteq ServiceAccountImport
  BY DEF TypeOK, StoreTypeOK
<1>2. ASSUME secrets' = secrets, secretEvents' = secretEvents,
             created' = created \/ created' = created + 1, StatusesKept
      PROVE  NamesStep
  <2>1. NamesKept
    BY <1>1, <1>2 DEF NamesKept, NamesIdentify
  <2>. QED  BY <1>2, <2>1 DEF NamesStep, SecretsCopied, SecretCopies
<1>3. ASSUME NEW i \in Imports, NEW a \in Accounts, CreateImport(i, a)
      PROVE  NamesStep
  <2>. DEFINE o == [name |-> i, uid |-> created + 1, rv |-> 0, spec |-> a,
                    secrets |-> <<>>]
  <2>1. StoreImport(o) /\ created' = created + 1
    BY <1>3 DEF CreateImport
  <2>2. Stored(o).secrets = <<>>
    BY DEF Stored
  <2>. HIDE DEF o
  <2>. QED  BY <1>2, <2>1, <2>2, EmptyToSet DEF StoreImport, Put, StatusesKept
<1>4. ASSUME NEW o \in sais, NEW a \in Accounts, EditSpec(o, a)
      PROVE  NamesStep
  <2>. DEFINE n == [o EXCEPT !.spec = a]
  <2>1. StoreImport(n) /\ created' = created
    BY <1>4 DEF EditSpec
  <2>2. Stored(n).secrets = o.secrets /\ Stored(n).name = o.name
    BY <1>1 DEF Stored, ServiceAccountImport
  <2>. HIDE DEF n
  <2>. QED  BY <1>2, <2>1, <2>2 DEF StoreImport, Put, StatusesKept
<1>5. ASSUME NEW o \in sais, DeleteImport(o)
      PROVE  NamesStep
  BY <1>2, <1>5 DEF DeleteImport, StatusesKept
<1>6. ASSUME NEW s \in secrets, DeleteSecretByHand(s) \/ CollectGarbage(s)
      PROVE  NamesStep
  <2>1. RemoveSecret(s.name)
    BY <1>6 DEF DeleteSecretByHand, CollectGarbage
  <2>2. /\ NamesKept
        /\ \A e \in ToSet(secretEvents') :
              e \in ToSet(secretEvents) \/ e.obj \in secrets
    BY <2>1, RemoveSecretNames
  <2>3. SecretsCopied
    BY <2>2, CopiedFrom DEF SecretCopies
  <2>. QED  BY <2>1, <2>2, <2>3 DEF NamesStep, RemoveSecret, StatusesKept
<1>. QED  BY <1>3, <1>4, <1>5, <1>6

LEMMA EnvironmentNames ==
    ASSUME IdentityInv, Prepare \/ UseTarget \/ UseSource \/ Collect \/ Forget
    PROVE  NamesStep
<1>1. TypeOK /\ NamesIdentify
  BY DEF IdentityInv, CredentialsInv
<1>2. UNCHANGED <<secretCache, osl, osm, os>>
  BY DEF Prepare, UseTarget, UseSource, Collect, Forget, controllerVars,
         cacheVars, localVars
<1>3. CASE Prepare \/ UseTarget \/ Collect
  BY <1>1, <1>2, <1>3, UsersNames DEF Prepare, UseTarget, Collect
<1>4. CASE UseSource \/ Forget
  <2>1. UNCHANGED storeVars
    BY <1>4 DEF UseSource, Forget
  <2>2. NamesKept
    BY <1>1, <2>1, SecretsUnchangedNames DEF storeVars
  <2>. QED  BY <1>2, <2>1, <2>2 DEF NamesStep, SecretsCopied, SecretCopies,
                                    StatusesKept, storeVars
<1>. QED  BY <1>3, <1>4

(* Every step of the importer.                                             *)
LEMMA ReconcileNames ==
    ASSUME IdentityInv, Reconcile
    PROVE  NamesStep /\ OneSecretOf(req) /\ UNCHANGED requested
  BY ReadStepsNames, UpdateStatusNames, WriteStepsNames
     DEF Reconcile, OneSecretOf, storeVars

LEMMA NamesStepped ==
    ASSUME IdentityInv, [Next]_vars
    PROVE  NamesStep
<1>1. CASE \/ Start \/ Crash \/ HandleImportEvent \/ HandleSecretEvent \/ Resync
           \/ \E i \in Imports : TakeRequest(i)
  <2>1. UNCHANGED <<created, sais, secrets>>
    BY <1>1 DEF Start, Crash, HandleImportEvent, HandleSecretEvent, Resync,
                TakeRequest, storeVars
  <2>. QED  BY <1>1, <2>1, ControllerNames DEF Crash
<1>2. CASE UNCHANGED vars
  <2>1. TypeOK /\ NamesIdentify
    BY DEF IdentityInv, CredentialsInv
  <2>2. NamesKept
    BY <1>2, <2>1, SecretsUnchangedNames DEF vars, storeVars
  <2>. QED  BY <1>2, <2>2 DEF vars, storeVars, cacheVars, localVars, NamesStep,
                              SecretsCopied, SecretCopies, StatusesKept
<1>. QED  BY <1>1, <1>2, ReconcileNames, EnvironmentNames DEF Next, Others

-----------------------------------------------------------------------------
(* What a step may do for versions to go on identifying imports.           *)

(* An import is stored with a new uid, or in place of an older version.    *)
ImportsKept ==
    /\ created' \in Nat /\ created <= created'
    /\ \A p, q \in sais' : p.name = q.name \/ p.uid = q.uid => p = q
    /\ \A q \in sais' :
          \/ q \in sais
          \/ q.uid > created /\ q.uid <= created'
          \/ \E p \in sais : p.uid = q.uid /\ p.name = q.name /\ p.rv < q.rv

ImportsCopied == ImportCopies' \subseteq ImportCopies \union sais'

VersionsStep == ImportsKept /\ ImportsCopied

LEMMA VersionsIdentifyKept ==
    ASSUME TypeOK, TypeOK', VersionsIdentify, VersionsStep
    PROVE  VersionsIdentify'
<1>1. /\ created \in Nat /\ sais \subseteq ServiceAccountImport
      /\ sais' \subseteq ServiceAccountImport
      /\ ImportCopies \subseteq ServiceAccountImport
  BY ImportCopiesType DEF TypeOK, StoreTypeOK
<1>2. \A p \in sais : p \in ImportCopies
  BY DEF ImportCopies
<1>3. ASSUME NEW o \in ImportCopies
      PROVE  Superseded(o)'
  <2>1. o.uid \in Nat /\ o.rv \in Nat /\ Superseded(o)
    BY <1>1 DEF ServiceAccountImport, VersionsIdentify
  <2>2. o.uid <= created'
    BY <1>1, <2>1 DEF Superseded, VersionsStep, ImportsKept
  <2>3. ASSUME NEW p \in sais', p.uid = o.uid
        PROVE  p.name = o.name /\ o.rv <= p.rv /\ (o.rv = p.rv => o = p)
    <3>1. CASE p \in sais
      BY <2>1, <2>3, <3>1 DEF Superseded
    <3>2. CASE p.uid > created
      BY <1>1, <2>1, <2>3, <3>2 DEF Superseded
    <3>3. CASE \E q \in sais : q.uid = p.uid /\ q.name = p.name /\ q.rv < p.rv
      <4>1. PICK q \in sais : q.uid = p.uid /\ q.name = p.name /\ q.rv < p.rv
        BY <3>3
      <4>2. q.name = o.name /\ o.rv <= q.rv
        BY <2>1, <2>3, <4>1 DEF Superseded
      <4>3. q.rv \in Nat /\ p.rv \in Nat
        BY <1>1 DEF ServiceAccountImport
      <4>. QED  BY <2>1, <4>1, <4>2, <4>3
    <3>. QED  BY <3>1, <3>2, <3>3 DEF VersionsStep, ImportsKept
  <2>. QED  BY <2>2, <2>3 DEF Superseded
<1>4. ASSUME NEW o \in sais'
      PROVE  Superseded(o)'
  <2>1. o.rv \in Nat /\ \A p \in sais' : p.uid = o.uid => p = o
    BY <1>1 DEF ServiceAccountImport, VersionsStep, ImportsKept
  <2>2. o.uid <= created'
    <3>1. ASSUME NEW p \in sais, p.uid = o.uid
          PROVE  o.uid <= created'
      BY <1>2, <1>3, <3>1 DEF Superseded
    <3>. QED  BY <3>1 DEF VersionsStep, ImportsKept
  <2>. QED  BY <2>1, <2>2 DEF Superseded
<1>. QED  BY <1>3, <1>4 DEF VersionsIdentify, VersionsStep, ImportsKept,
                            ImportsCopied

(* The write of an import, new or in place of the version it came from.    *)
LEMMA StoreImportVersions ==
    ASSUME TypeOK, VersionsIdentify, NEW o \in ServiceAccountImport,
           StoreImport(o),
           \/ /\ created' = created + 1 /\ o.uid = created + 1
              /\ \A p \in sais : p.name # o.name
           \/ /\ created' = created
              /\ \E p \in sais : p.name = o.name /\ p.uid = o.uid /\ p.rv = o.rv
    PROVE  /\ ImportsKept
           /\ \A e \in ToSet(saiEvents') :
                 e \in ToSet(saiEvents) \/ e.obj \in sais'
<1>1. /\ created \in Nat /\ sais \subseteq ServiceAccountImport
      /\ \A p \in sais : p.uid \in Nat /\ p.rv \in Nat /\ p.uid <= created
      /\ \A p, q \in sais : p.name = q.name \/ p.uid = q.uid => p = q
  BY DEF TypeOK, StoreTypeOK, ServiceAccountImport, VersionsIdentify,
         Superseded, ImportCopies
<1>2. /\ Stored(o) \in ServiceAccountImport
      /\ Stored(o).name = o.name /\ Stored(o).uid = o.uid
      /\ Stored(o).rv = o.rv + 1 /\ o.rv \in Nat
  BY StoredType DEF Stored, ServiceAccountImport
<1>3. /\ sais' = {p \in sais : p.name # o.name} \union {Stored(o)}
      /\ saiEvents' = Append(saiEvents, [type |-> "put", obj |-> Stored(o)])
  BY <1>2 DEF StoreImport, Put
<1>. HIDE DEF Stored
<1>4. \A p \in sais : p.name # o.name => p.uid # o.uid
  BY <1>1
<1>5. \A p, q \in sais' : p.name = q.name \/ p.uid = q.uid => p = q
  BY <1>1, <1>2, <1>3, <1>4
<1>6. \A q \in sais' :
          \/ q \in sais
          \/ q.uid > created /\ q.uid <= created'
          \/ \E p \in sais : p.uid = q.uid /\ p.name = q.name /\ p.rv < q.rv
  BY <1>1, <1>2, <1>3
<1>7. [type |-> "put", obj |-> Stored(o)] \in Event(ServiceAccountImport)
  BY <1>2 DEF Event
<1>8. ToSet(saiEvents') =
          ToSet(saiEvents) \union {[type |-> "put", obj |-> Stored(o)]}
  BY <1>3, <1>7, AppendToSet DEF TypeOK, StoreTypeOK
<1>. QED  BY <1>1, <1>3, <1>5, <1>6, <1>8 DEF ImportsKept

LEMMA ImportsUnchanged ==
    ASSUME TypeOK, VersionsIdentify, sais' \subseteq sais,
           created' = created \/ created' = created + 1
    PROVE  ImportsKept
  BY DEF TypeOK, StoreTypeOK, ImportsKept, VersionsIdentify

LEMMA ImportsCopiedFrom ==
    ASSUME saiCache' \subseteq ImportCopies \union sais',
           \A e \in ToSet(saiEvents') :
               e \in ToSet(saiEvents) \/ e.obj \in sais \union sais',
           Reconciling' => sai' \in ImportCopies \union sais'
    PROVE  ImportsCopied
  BY DEF ImportsCopied, ImportCopies

-----------------------------------------------------------------------------
(* Versions, step by step.                                                 *)

(* The steps of Reconcile but one store no import, and the import in hand  *)
(* is a copy of what they found in the cache.                              *)
LEMMA OtherStepsVersions ==
    ASSUME IdentityInv, Reconcile, ~UpdateStatus
    PROVE  VersionsStep /\ UNCHANGED sais
<1>1. TypeOK /\ VersionsIdentify
  BY DEF IdentityInv, CredentialsInv
<1>2. /\ UNCHANGED <<sais, saiEvents, saiCache>>
      /\ created' = created \/ created' = created + 1
  BY DEF Reconcile, GetImport, ListSecrets, GetAccount, GetToken, CreateSecret,
         UpdateSecret, KeepSecret, DeleteSecret, FinishReconcile, StoreNewSecret,
         StoreData, StoreSecret, RemoveSecret, FailCall, storeVars, cacheVars
<1>3. \/ ~Reconciling'
      \/ Reconciling /\ sai' = sai
      \/ sai' \in saiCache
  BY DEF Reconcile, GetImport, ListSecrets, GetAccount, GetToken, CreateSecret,
         UpdateSecret, KeepSecret, DeleteSecret, FinishReconcile, FailCall,
         Requeue, Finish, NextDesired, Reconciling
<1>4. ImportsCopied
  BY <1>2, <1>3 DEF ImportsCopied, ImportCopies
<1>. QED  BY <1>1, <1>2, <1>4, ImportsUnchanged DEF VersionsStep

(* The status is only written over the version it was read with, and that  *)
(* version has the spec that is written with it.                           *)
LEMMA UpdateStatusVersions ==
    ASSUME IdentityInv, UpdateStatus
    PROVE  /\ VersionsStep
           /\ \A o \in sais' :
                 \E p \in sais : p.name = o.name /\ p.uid = o.uid /\ p.spec = o.spec
<1>1. /\ TypeOK /\ VersionsIdentify
      /\ Reconciling /\ sai \in ServiceAccountImport /\ sai \in ImportCopies
  BY DEF UpdateStatus, Reconciling, IdentityInv, CredentialsInv, TypeOK,
         WorkerTypeOK, ImportCopies
<1>2. UNCHANGED <<created, saiCache>>
  BY DEF UpdateStatus, StoreStatus, FailCall, storeVars, cacheVars
<1>3. /\ NewImport \in ServiceAccountImport
      /\ NewImport.name = sai.name /\ NewImport.uid = sai.uid
      /\ NewImport.rv = sai.rv /\ NewImport.spec = sai.spec
  BY <1>1, NamesOfType DEF NewImport, ServiceAccountImport, TypeOK, WorkerTypeOK
<1>4. /\ Stored(NewImport).name = sai.name /\ Stored(NewImport).uid = sai.uid
      /\ Stored(NewImport).spec = sai.spec
  BY <1>3 DEF Stored, ServiceAccountImport
<1>5. CASE StoreStatus
  <2>1. PICK p \in sais : p.uid = sai.uid /\ p.rv = sai.rv
    BY <1>5 DEF StoreStatus, ImportIsCurrent
  <2>2. p = sai
    BY <1>1, <2>1 DEF VersionsIdentify, Superseded
  <2>3. StoreImport(NewImport)
    BY <1>5 DEF StoreStatus
  <2>4. /\ ImportsKept
        /\ \A e \in ToSet(saiEvents') :
              e \in ToSet(saiEvents) \/ e.obj \in sais'
    BY <1>1, <1>2, <1>3, <2>2, <2>3, StoreImportVersions
  <2>5. Stored(NewImport) \in sais' /\ sais' \subseteq sais \union {Stored(NewImport)}
    BY <2>3 DEF StoreImport, Put
  <2>6. Reconciling' => sai' \in ImportCopies \union sais'
    BY <1>1, <2>5 DEF UpdateStatus, FailCall, Requeue, Reconciling
  <2>7. ImportsCopied
    BY <1>2, <2>4, <2>6, ImportsCopiedFrom DEF ImportCopies
  <2>. QED  BY <1>4, <2>2, <2>4, <2>5, <2>7 DEF VersionsStep
<1>6. CASE UNCHANGED storeVars /\ Requeue
  <2>1. ImportsCopied
    BY <1>2, <1>6 DEF Requeue, Reconciling, storeVars, ImportsCopied, ImportCopies
  <2>. QED  BY <1>1, <1>2, <1>6, <2>1, ImportsUnchanged DEF storeVars, VersionsStep
<1>. QED  BY <1>5, <1>6 DEF UpdateStatus, FailCall

LEMMA ControllerVersions ==
    ASSUME IdentityInv,
           \/ Start \/ Die \/ HandleImportEvent \/ HandleSecretEvent \/ Resync
           \/ \E i \in Imports : TakeRequest(i),
           UNCHANGED <<created, sais, secrets>>
    PROVE  VersionsStep
<1>1. TypeOK /\ VersionsIdentify
  BY DEF IdentityInv, CredentialsInv
<1>2. ImportsKept
  BY <1>1, ImportsUnchanged
<1>3. CASE Start
  BY <1>2, <1>3, EmptyToSet DEF Start, Reconciling, VersionsStep, ImportsCopied,
                                ImportCopies
<1>4. CASE Die
  BY <1>2, <1>4, EmptyToSet DEF Die, Reconciling, VersionsStep, ImportsCopied,
                                ImportCopies
<1>5. CASE HandleImportEvent
  <2>1. /\ Head(saiEvents) \in ToSet(saiEvents)
        /\ ToSet(Tail(saiEvents)) \subseteq ToSet(saiEvents)
    BY <1>1, <1>5, HeadTailToSet DEF HandleImportEvent, TypeOK, StoreTypeOK
  <2>2. saiCache' \subseteq saiCache \union {Head(saiEvents).obj}
    BY <1>5 DEF HandleImportEvent, Apply, Put, Drop
  <2>3. Reconciling' = Reconciling /\ sai' = sai
    BY <1>5 DEF HandleImportEvent, localVars, Reconciling
  <2>. QED  BY <1>2, <1>5, <2>1, <2>2, <2>3, ImportsCopiedFrom
            DEF HandleImportEvent, VersionsStep, ImportCopies
<1>6. CASE HandleSecretEvent \/ Resync \/ \E i \in Imports : TakeRequest(i)
  BY <1>2, <1>6 DEF HandleSecretEvent, Resync, TakeRequest, storeVars, cacheVars,
                    localVars, Reconciling, VersionsStep, ImportsCopied,
                    ImportCopies
<1>. QED  BY <1>3, <1>4, <1>5, <1>6

LEMMA UsersVersions ==
    ASSUME TypeOK, VersionsIdentify, UNCHANGED <<saiCache, pc, sai>>
    PROVE  /\ \A i \in Imports, a \in Accounts : CreateImport(i, a) => VersionsStep
           /\ \A o \in sais, a \in Accounts : EditSpec(o, a) => VersionsStep
           /\ \A o \in sais : DeleteImport(o) => VersionsStep
           /\ \A s \in secrets :
                 DeleteSecretByHand(s) \/ CollectGarbage(s) => VersionsStep
<1>1. created \in Nat /\ sais \subseteq ServiceAccountImport
  BY DEF TypeOK, StoreTypeOK
<1>2. ASSUME \A e \in ToSet(saiEvents') :
                 e \in ToSet(saiEvents) \/ e.obj \in sais \union sais'
      PROVE  ImportsCopied
  BY <1>2, ImportsCopiedFrom DEF Reconciling, ImportCopies
<1>3. ASSUME NEW i \in Imports, NEW a \in Accounts, CreateImport(i, a)
      PROVE  VersionsStep
  <2>. DEFINE o == [name |-> i, uid |-> created + 1, rv |-> 0, spec |-> a,
                    secrets |-> <<>>]
  <2>1. o \in ServiceAccountImport /\ o.uid = created + 1 /\ o.name = i
    BY <1>1 DEF ServiceAccountImport
  <2>2. /\ StoreImport(o) /\ created' = created + 1
        /\ \A p \in sais : p.name # i
    BY <1>3 DEF CreateImport
  <2>. HIDE DEF o
  <2>. QED  BY <1>2, <2>1, <2>2, StoreImportVersions DEF VersionsStep
<1>4. ASSUME NEW o \in sais, NEW a \in Accounts, EditSpec(o, a)
      PROVE  VersionsStep
  <2>. DEFINE n == [o EXCEPT !.spec = a]
  <2>1. /\ n \in ServiceAccountImport
        /\ n.name = o.name /\ n.uid = o.uid /\ n.rv = o.rv
    BY <1>1 DEF ServiceAccountImport
  <2>2. StoreImport(n) /\ created' = created
    BY <1>4 DEF EditSpec
  <2>. HIDE DEF n
  <2>. QED  BY <1>2, <2>1, <2>2, StoreImportVersions DEF VersionsStep
<1>5. ASSUME NEW o \in sais, DeleteImport(o)
      PROVE  VersionsStep
  <2>1. [type |-> "delete", obj |-> o] \in Event(ServiceAccountImport)
    BY <1>1 DEF Event
  <2>2. ToSet(saiEvents') =
            ToSet(saiEvents) \union {[type |-> "delete", obj |-> o]}
    BY <1>5, <2>1, AppendToSet DEF DeleteImport, TypeOK, StoreTypeOK
  <2>. QED  BY <1>2, <1>5, <2>2, ImportsUnchanged DEF DeleteImport, VersionsStep
<1>6. ASSUME NEW s \in secrets, DeleteSecretByHand(s) \/ CollectGarbage(s)
      PROVE  VersionsStep
  BY <1>2, <1>6, ImportsUnchanged
     DEF DeleteSecretByHand, CollectGarbage, RemoveSecret, VersionsStep
<1>. QED  BY <1>3, <1>4, <1>5, <1>6

LEMMA VersionsStepped ==
    ASSUME IdentityInv, [Next]_vars
    PROVE  VersionsStep
<1>1. TypeOK /\ VersionsIdentify
  BY DEF IdentityInv, CredentialsInv
<1>2. CASE Reconcile
  BY <1>2, OtherStepsVersions, UpdateStatusVersions
<1>3. CASE \/ Start \/ Crash \/ HandleImportEvent \/ HandleSecretEvent \/ Resync
           \/ \E i \in Imports : TakeRequest(i)
  <2>1. UNCHANGED <<created, sais, secrets>>
    BY <1>3 DEF Start, Crash, HandleImportEvent, HandleSecretEvent, Resync,
                TakeRequest, storeVars
  <2>. QED  BY <1>3, <2>1, ControllerVersions DEF Crash
<1>4. CASE Prepare \/ UseTarget \/ UseSource \/ Collect \/ Forget
  <2>1. UNCHANGED <<saiCache, pc, sai>>
    BY <1>4 DEF Prepare, UseTarget, UseSource, Collect, Forget, controllerVars,
                cacheVars, localVars
  <2>2. CASE Prepare \/ UseTarget \/ Collect
    BY <1>1, <2>1, <2>2, UsersVersions DEF Prepare, UseTarget, Collect
  <2>3. CASE UNCHANGED storeVars
    BY <1>1, <2>1, <2>3, ImportsUnchanged
       DEF storeVars, VersionsStep, ImportsCopied, ImportCopies, Reconciling
  <2>. QED  BY <1>4, <2>2, <2>3 DEF UseSource, Forget
<1>5. CASE UNCHANGED vars
  BY <1>1, <1>5, ImportsUnchanged
     DEF vars, storeVars, cacheVars, localVars, VersionsStep, ImportsCopied,
         ImportCopies, Reconciling
<1>. QED  BY <1>2, <1>3, <1>4, <1>5 DEF Next, Others

-----------------------------------------------------------------------------
(* Theorems.                                                               *)

LEMMA IdentityInit == Init => IdentityInv
<1>. SUFFICES ASSUME Init PROVE IdentityInv
  OBVIOUS
<1>1. CredentialsInv
  BY CredentialsInit
<1>2. SecretCopies = {} /\ sais = {} /\ ImportCopies = {} /\ secrets = {}
  BY EmptyToSet DEF Init, StoreInit, SecretCopies, ImportCopies, Reconciling
<1>. QED  BY <1>1, <1>2 DEF IdentityInv, NamesIdentify, VersionsIdentify

LEMMA IdentityStep ==
    ASSUME IdentityInv, [Next]_vars
    PROVE  IdentityInv'
<1>1. CredentialsInv /\ CredentialsInv'
  BY CredentialsStep DEF IdentityInv
<1>2. TypeOK /\ TypeOK'
  BY <1>1 DEF CredentialsInv
<1>3. NamesIdentify'
  BY <1>2, NamesStepped, NamesIdentifyKept DEF NamesStep, IdentityInv
<1>4. VersionsIdentify'
  BY <1>2, VersionsStepped, VersionsIdentifyKept DEF IdentityInv
<1>. QED  BY <1>1, <1>3, <1>4 DEF IdentityInv

LEMMA IdentityInductive == Spec => []IdentityInv
<1>1. IdentityInv /\ [Next]_vars => IdentityInv'
  BY IdentityStep
<1>. QED  BY <1>1, IdentityInit, PTL DEF Spec

(* A name is given to one secret in all time, and every copy of a secret,  *)
(* and every status, has it with the import that it was given for.         *)
THEOREM NamesIdentifyHolds == Spec => []NamesIdentify
  BY IdentityInductive, PTL DEF IdentityInv

(* What the webhook would mount from a status is never another import's.   *)
THEOREM StatusesHold == Spec => []StatusListsOwnSecrets
<1>1. IdentityInv => StatusListsOwnSecrets
  BY DEF IdentityInv, NamesIdentify, GivenTo, StatusListsOwnSecrets
<1>. QED  BY <1>1, IdentityInductive, PTL

(* A reconciliation changes secrets of the import it is for, and no other, *)
(* although it updates and deletes by the names of stale copies.           *)
THEOREM OthersUntouchedHolds == Spec => OthersUntouched
<1>. DEFINE A == Reconcile =>
                   \A s \in (secrets \ secrets') \union (secrets' \ secrets) :
                       s.import = req
<1>1. IdentityInv /\ [Next]_vars => [A]_vars
  BY ReconcileNames DEF OneSecretOf, MadeFor
<1>. QED  BY <1>1, IdentityInductive, PTL DEF Spec, OthersUntouched

(* The spec of an import is what its user wrote last: the status update,   *)
(* which writes the whole cached object, is refused when it is behind.     *)
THEOREM SpecKept == Spec => SpecNeverReverted
<1>. DEFINE A == Reconcile =>
                   \A o \in sais' : \E p \in sais : /\ p.name = o.name
                                                    /\ p.uid = o.uid
                                                    /\ p.spec = o.spec
<1>1. IdentityInv /\ [Next]_vars => [A]_vars
  BY OtherStepsVersions, UpdateStatusVersions
<1>. QED  BY <1>1, IdentityInductive, PTL DEF Spec, SpecNeverReverted

-----------------------------------------------------------------------------
(* The importer implements ImportedCredentials.                            *)

HeldBy(i) == {s.data.account : s \in SecretsOf(i)}
Held == [i \in Imports |-> HeldBy(i)]

Idle == UNCHANGED <<requested, Held>>

(* Each way in which one secret of import i changes is a step of the       *)
(* abstract specification, or none: the account it had may still be held   *)
(* through another secret.                                                 *)
LEMMA OneSecretImplements ==
    ASSUME TypeOK, NEW i \in Imports, OneSecretOf(i), UNCHANGED requested
    PROVE  Idle \/ Credentials!Next
<1>1. secrets \subseteq Secret /\ \A s \in Secret : s.data.account \in Accounts
  BY DEF TypeOK, StoreTypeOK, Secret, Token
<1>2. CASE secrets' = secrets
  BY <1>2 DEF Idle, Held, HeldBy, SecretsOf
<1>3. ASSUME NEW s \in Secret, MadeFor(s, i), secrets' = secrets \union {s}
      PROVE  Credentials!Gain(i, s.data.account)
  <2>1. /\ HeldBy(i)' = HeldBy(i) \union {s.data.account}
        /\ \A j \in Imports : j # i => HeldBy(j)' = HeldBy(j)
    BY <1>3 DEF HeldBy, SecretsOf, MadeFor
  <2>2. Held' = [Held EXCEPT ![i] = @ \union {s.data.account}]
    BY <2>1 DEF Held
  <2>. QED  BY <1>3, <2>2 DEF Credentials!Gain, Held, HeldBy, MadeFor
<1>4. ASSUME NEW p \in secrets, p.import = i, secrets' = secrets \ {p}
      PROVE  Idle \/ Credentials!Lose(i, p.data.account)
  <2>1. /\ \/ HeldBy(i)' = HeldBy(i)
           \/ HeldBy(i)' = HeldBy(i) \ {p.data.account}
        /\ \A j \in Imports : j # i => HeldBy(j)' = HeldBy(j)
    BY <1>4 DEF HeldBy, SecretsOf
  <2>2. Held' = Held \/ Held' = [Held EXCEPT ![i] = @ \ {p.data.account}]
    BY <2>1 DEF Held
  <2>. QED  BY <2>2 DEF Credentials!Lose, Idle, Held, HeldBy
<1>5. ASSUME NEW p \in secrets, NEW s \in Secret, p.import = i, MadeFor(s, i),
             secrets' = (secrets \ {p}) \union {s}
      PROVE  \/ Credentials!Gain(i, s.data.account)
             \/ Credentials!Exchange(i, p.data.account, s.data.account)
  <2>1. /\ \/ HeldBy(i)' = HeldBy(i) \union {s.data.account}
           \/ HeldBy(i)' =
                  (HeldBy(i) \ {p.data.account}) \union {s.data.account}
        /\ \A j \in Imports : j # i => HeldBy(j)' = HeldBy(j)
    BY <1>5 DEF HeldBy, SecretsOf, MadeFor
  <2>2. \/ Held' = [Held EXCEPT ![i] = @ \union {s.data.account}]
        \/ Held' = [Held EXCEPT ![i] =
                        (@ \ {p.data.account}) \union {s.data.account}]
    BY <2>1 DEF Held
  <2>. QED  BY <1>5, <2>2 DEF Credentials!Gain, Credentials!Exchange, Held,
                              HeldBy, MadeFor
<1>. QED  BY <1>1, <1>2, <1>3, <1>4, <1>5 DEF OneSecretOf, Credentials!Next

LEMMA UsersImplement ==
    ASSUME IdentityInv, Prepare \/ UseTarget \/ Collect
    PROVE  Idle \/ Credentials!Next
<1>1. /\ TypeOK /\ NamesIdentify /\ requested \in [Imports -> SUBSET Accounts]
      /\ secrets \subseteq Secret /\ sais \subseteq ServiceAccountImport
  BY DEF IdentityInv, CredentialsInv, TypeOK, StoreTypeOK
<1>2. ASSUME NEW i \in Imports, NEW a \in Accounts, secrets' = secrets,
             requested' = [requested EXCEPT ![i] = @ \union {a}]
      PROVE  Credentials!Next
  <2>1. Credentials!Request(i, a)
    BY <1>2 DEF Credentials!Request, SecretsOf
  <2>. QED  BY <2>1 DEF Credentials!Next
<1>3. ASSUME NEW i \in Imports, NEW a \in Accounts, CreateImport(i, a)
      PROVE  Credentials!Next
  BY <1>2, <1>3 DEF CreateImport, StoreImport
<1>4. ASSUME NEW o \in sais, NEW a \in Accounts, EditSpec(o, a)
      PROVE  Credentials!Next
  <2>1. o.name \in Imports
    BY <1>1 DEF ServiceAccountImport
  <2>. QED  BY <1>2, <1>4, <2>1 DEF EditSpec, StoreImport
<1>5. ASSUME NEW o \in sais, DeleteImport(o)
      PROVE  Idle
  BY <1>5 DEF DeleteImport, Idle, Held, HeldBy, SecretsOf
<1>6. ASSUME NEW s \in secrets, DeleteSecretByHand(s) \/ CollectGarbage(s)
      PROVE  Idle \/ Credentials!Next
  <2>1. RemoveSecret(s.name)
    BY <1>6 DEF DeleteSecretByHand, CollectGarbage
  <2>2. PICK p \in secrets : secrets' = secrets \ {p}
    BY <1>1, <2>1, RemoveSecretNames
  <2>3. p.import \in Imports
    BY <1>1 DEF Secret
  <2>4. OneSecretOf(p.import) /\ UNCHANGED requested
    BY <2>1, <2>2 DEF OneSecretOf, RemoveSecret
  <2>. QED  BY <1>1, <2>3, <2>4, OneSecretImplements
<1>. QED  BY <1>3, <1>4, <1>5, <1>6 DEF Prepare, UseTarget, Collect

LEMMA CredentialsSimulated ==
    ASSUME IdentityInv, [Next]_vars
    PROVE  Idle \/ Credentials!Next
<1>1. CASE Reconcile
  <2>1. TypeOK /\ req \in Imports
    BY <1>1 DEF IdentityInv, CredentialsInv, TypeOK, WorkerTypeOK, Reconcile,
                GetImport, ListSecrets, UpdateStatus, GetAccount, GetToken,
                CreateSecret, UpdateSecret, KeepSecret, DeleteSecret,
                FinishReconcile
  <2>. QED  BY <1>1, <2>1, ReconcileNames, OneSecretImplements
<1>2. CASE UNCHANGED <<requested, secrets>>
  BY <1>2 DEF Idle, Held, HeldBy, SecretsOf
<1>3. CASE \/ Start \/ Crash \/ HandleImportEvent \/ HandleSecretEvent \/ Resync
           \/ UseSource \/ Forget \/ (\E i \in Imports : TakeRequest(i))
           \/ UNCHANGED vars
  BY <1>2, <1>3 DEF Start, Crash, HandleImportEvent, HandleSecretEvent, Resync,
                    UseSource, Forget, TakeRequest, vars, storeVars
<1>. QED  BY <1>1, <1>3, UsersImplement DEF Next, Others

(* The reconciliation, with its caches, versions, lost answers and faults, *)
(* is as good as giving and taking credentials one at a time, to one       *)
(* import at a time, and only what that import has asked for.              *)
THEOREM CredentialsImplementedHolds == Spec => CredentialsImplemented
<1>1. Init => Credentials!Init
  BY DEF Init, StoreInit, Credentials!Init, SecretsOf
<1>2. IdentityInv /\ [Next]_vars =>
          [Credentials!Next]_<<requested, [i \in Imports |->
              {s.data.account : s \in SecretsOf(i)}]>>
  BY CredentialsSimulated DEF Idle, Held, HeldBy
<1>. QED  BY <1>1, <1>2, IdentityInductive, PTL
          DEF Spec, CredentialsImplemented, Credentials!Spec,
              Credentials!credentialVars
=============================================================================
