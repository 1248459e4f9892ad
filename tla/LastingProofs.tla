---------------------------- MODULE LastingProofs ----------------------------
(***************************************************************************)
(* Proofs about what lasts: until a user deletes or edits something, no    *)
(* secret that was ever made goes away, although the controller deletes    *)
(* secrets by the names of stale copies and the collector those without an *)
(* owner.  So what a pod mounts is there.                                  *)
(***************************************************************************)
EXTENDS InstallationProofs

Undisturbed == edits = 0 /\ sourceEdits = 0

(* Every token that an account lists can be read, and accounts have tokens *)
(* or none has.                                                            *)
SourcesWhole ==
    /\ accounts = Accounts
    /\ \A a \in Accounts : ToSet(refs[a]) \subseteq tokens
    /\ \A a \in Accounts : refs[a] = <<>> => tokens = {}

(* A secret, stored or not, with a token that can be read and an owner     *)
(* that exists; without a remote UID, as every secret is made.             *)
Sound(s) ==
    /\ s.remoteUID = NoUID /\ s.data \in tokens
    /\ \E o \in sais : o.uid = s.owner

Stands(n) == \E s \in secrets : s.name = n

StoreSound ==
    /\ \A o \in ImportCopies : \E p \in sais : p.uid = o.uid
    /\ \A s \in SecretCopies : Sound(s) /\ Stands(s.name)
    /\ \A o \in sais : \A n \in ToSet(o.secrets) : Stands(n)

(* The reconciliation that applies anything has a desired secret for the   *)
(* one key of the map, so it comes to no key left to delete.               *)
LocalsSound ==
    /\ pc = "token" => ToSet(remaining) \subseteq tokens
    /\ \A s \in ToSet(dss) : Sound(s)
    /\ osm \subseteq {NoUID}
    /\ pc = "apply" /\ osm # {} => dss # <<>>

PodsSound ==
    /\ \A o \in HookCopies : \A n \in ToSet(o.secrets) : Stands(n)
    /\ \A p \in Pods : \A k \in 1..Len(volumes[p]) : Stands(volumes[p][k].secret)

(* What a bootstrap is about to write can be read, and has an owner.       *)
BootSound(c) ==
    /\ stage[c] \in {"import", "secret"} => fetched[c] \in tokens
    /\ stage[c] = "secret" => \E o \in sais : o.uid = owner[c]

BootsSound == \A c \in Seeds : BootSound(c)

LastingInv ==
    Undisturbed =>
        SourcesWhole /\ StoreSound /\ LocalsSound /\ BootsSound /\ PodsSound

-----------------------------------------------------------------------------
(* What a step may do while nothing is disturbed.                          *)

StoreLasts ==
    /\ \A s \in secrets : \E p \in secrets' : p.name = s.name
    /\ \A o \in sais : \E p \in sais' : p.uid = o.uid
    /\ \A s \in secrets' : Sound(s)'
    /\ UNCHANGED <<accounts, refs, tokens>>

LastingStep == StoreLasts /\ LocalsSound'

TargetSound == IdentityInv /\ SourcesWhole /\ StoreSound /\ LocalsSound

LEMMA StoreSoundKept ==
    ASSUME SourcesWhole, StoreSound, NamesStep, VersionsStep, StoreLasts
    PROVE  /\ SourcesWhole' /\ StoreSound'
           /\ \A n : Stands(n) => Stands(n)'
<1>1. SourcesWhole'
  BY DEF SourcesWhole, StoreLasts
<1>2. ASSUME NEW n, Stands(n)
      PROVE  Stands(n)'
  BY <1>2 DEF Stands, StoreLasts
<1>3. \A o \in ImportCopies' : \E p \in sais' : p.uid = o.uid
  BY DEF VersionsStep, ImportsCopied, StoreSound, StoreLasts
<1>4. ASSUME NEW s \in SecretCopies
      PROVE  Sound(s)' /\ Stands(s.name)'
  BY <1>2 DEF StoreSound, Sound, StoreLasts
<1>5. \A s \in SecretCopies' : Sound(s)' /\ Stands(s.name)'
  <2>1. \A s \in secrets' : Sound(s)' /\ Stands(s.name)'
    BY DEF StoreLasts, Stands
  <2>. QED  BY <1>4, <2>1 DEF NamesStep, SecretsCopied
<1>6. \A o \in sais' : \A n \in ToSet(o.secrets) : Stands(n)'
  BY <1>2, <1>4 DEF NamesStep, StatusesKept, StoreSound
<1>. QED  BY <1>1, <1>2, <1>3, <1>5, <1>6 DEF StoreSound

LEMMA StoreUnchanged ==
    ASSUME StoreSound, UNCHANGED <<sais, secrets, accounts, refs, tokens>>
    PROVE  StoreLasts
<1>1. \A s \in secrets : Sound(s)
  BY DEF StoreSound, SecretCopies
<1>. QED  BY <1>1 DEF StoreLasts, Sound

(* A secret is stored, new or in a new version.                            *)
LEMMA StoreSecretLasts ==
    ASSUME StoreSound, NEW s \in Secret, Sound(s), StoreSecret(s),
           UNCHANGED <<accounts, refs, tokens>>
    PROVE  StoreLasts
<1>1. /\ Stored(s).name = s.name /\ Stored(s).remoteUID = s.remoteUID
      /\ Stored(s).data = s.data /\ Stored(s).owner = s.owner
  BY DEF Stored, Secret
<1>2. /\ secrets' = {p \in secrets : p.name # s.name} \union {Stored(s)}
      /\ sais' = sais
  BY <1>1 DEF StoreSecret, Put
<1>3. \A p \in secrets : Sound(p)
  BY DEF StoreSound, SecretCopies
<1>4. Sound(Stored(s))
  BY <1>1 DEF Sound
<1>5. \A p \in secrets' : Sound(p)'
  BY <1>2, <1>3, <1>4 DEF Sound
<1>6. \A p \in secrets : \E q \in secrets' : q.name = p.name
  BY <1>1, <1>2
<1>. QED  BY <1>2, <1>5, <1>6 DEF StoreLasts

(* The worker's locals.                                                    *)
LEMMA LocalsCleared ==
    ASSUME ClearLocals, pc' \in {"down", "idle"}
    PROVE  LocalsSound'
  BY EmptyToSet DEF ClearLocals, LocalsSound

LEMMA LocalsUnchanged ==
    ASSUME LocalsSound, StoreLasts, UNCHANGED <<remaining, dss, osm>>,
           pc' = pc \/ pc' \notin {"token", "apply"}
    PROVE  LocalsSound'
<1>1. \A s \in ToSet(dss) : Sound(s)'
  BY DEF LocalsSound, Sound, StoreLasts
<1>. QED  BY <1>1 DEF LocalsSound, StoreLasts

LEMMA MapObservedSound ==
    ASSUME StoreSound, MapObserved, \A s \in ToSet(dss') : Sound(s)',
           dss' = <<>> => tokens = {}
    PROVE  LocalsSound'
<1>1. \A s \in ToSet(osl) : Sound(s)
  BY DEF StoreSound, SecretCopies
<1>2. osm' \subseteq {NoUID} /\ (osm' # {} => tokens # {}) /\ pc' = "apply"
  BY <1>1 DEF MapObserved, Sound
<1>. QED  BY <1>2 DEF LocalsSound

(* The next desired secret takes the one key with it.                      *)
LEMMA NextDesiredSound ==
    ASSUME TypeOK, LocalsSound, StoreLasts, pc = "apply", dss # <<>>, NextDesired
    PROVE  LocalsSound'
<1>1. Head(dss) \in ToSet(dss) /\ ToSet(Tail(dss)) \subseteq ToSet(dss)
  BY HeadTailToSet DEF TypeOK, WorkerTypeOK
<1>2. osm' = {}
  BY <1>1 DEF NextDesired, LocalsSound, Sound
<1>3. \A s \in ToSet(dss') : Sound(s)'
  BY <1>1 DEF NextDesired, LocalsSound, Sound, StoreLasts
<1>. QED  BY <1>2, <1>3 DEF NextDesired, LocalsSound

-----------------------------------------------------------------------------
(* The worker's steps.                                                     *)

LEMMA MadeSound ==
    ASSUME StoreSound, NEW o \in ImportCopies, NEW t \in tokens
    PROVE  Sound(MakeServiceAccountImportSecret(o, t))
  BY DEF StoreSound, Sound, MakeServiceAccountImportSecret,
         ExportServiceAccountSecret

LEMMA ReadSourceLasts ==
    ASSUME TargetSound, GetAccount \/ GetToken, StoreLasts
    PROVE  LocalsSound'
<1>1. /\ TypeOK /\ SourcesWhole /\ StoreSound /\ LocalsSound
      /\ Reconciling /\ sai \in ServiceAccountImport /\ sai \in ImportCopies
  BY DEF TargetSound, IdentityInv, CredentialsInv, GetAccount, GetToken,
         Reconciling, TypeOK, WorkerTypeOK, ImportCopies
<1>2. /\ UNCHANGED <<sais, tokens>>
      /\ \A s \in ToSet(dss) : Sound(s) /\ Sound(s)'
  BY <1>1 DEF GetAccount, GetToken, storeVars, sourceVars, LocalsSound, Sound
<1>3. CASE Requeue
  BY <1>3, LocalsCleared DEF Requeue
<1>4. CASE GetAccount /\ ~Requeue
  <2>1. remaining' = refs[sai.spec] /\ UNCHANGED dss
    BY <1>4 DEF GetAccount
  <2>2. /\ ToSet(remaining') \subseteq tokens
        /\ remaining' = <<>> => tokens = {}
    BY <1>1, <2>1 DEF SourcesWhole, ServiceAccountImport
  <2>3. CASE remaining' = <<>>
    <3>1. MapObserved
      BY <1>4, <2>3 DEF GetAccount
    <3>. QED  BY <1>1, <1>2, <2>1, <2>2, <2>3, <3>1, MapObservedSound
  <2>4. CASE remaining' # <<>>
    <3>1. pc' = "token" /\ UNCHANGED osm
      BY <1>4, <2>4 DEF GetAccount
    <3>. QED  BY <1>1, <1>2, <2>1, <2>2, <3>1 DEF LocalsSound
  <2>. QED  BY <2>3, <2>4
<1>5. CASE GetToken /\ ~Requeue
  <2>1. /\ pc = "token" /\ remaining \in Seq(Token) /\ remaining # <<>>
        /\ dss \in Seq(Secret)
    BY <1>1, <1>5 DEF GetToken, TypeOK, WorkerTypeOK
  <2>2. /\ Head(remaining) \in tokens /\ Head(remaining) \in Token
        /\ ToSet(Tail(remaining)) \subseteq tokens
    BY <1>1, <2>1, HeadTailToSet DEF LocalsSound
  <2>3. PICK s \in Secret :
            s = MakeServiceAccountImportSecret(sai, Head(remaining)) /\ Sound(s)
    BY <1>1, <2>2, MakeSecretType, MadeSound
  <2>4. dss' = Append(dss, s) /\ remaining' = Tail(remaining)
    BY <1>5, <2>2, <2>3 DEF GetToken
  <2>5. Sound(s)'
    BY <1>2, <2>3 DEF Sound
  <2>6. /\ \A p \in ToSet(dss') : Sound(p)'
        /\ dss' # <<>>
    BY <1>2, <2>1, <2>3, <2>4, <2>5, AppendToSet, EmptyToSet
  <2>7. CASE remaining' = <<>>
    <3>1. MapObserved
      BY <1>5, <2>7 DEF GetToken
    <3>. QED  BY <1>1, <2>6, <3>1, MapObservedSound
  <2>8. CASE remaining' # <<>>
    <3>1. pc' = "token" /\ UNCHANGED osm
      BY <1>5, <2>1, <2>8 DEF GetToken
    <3>. QED  BY <1>1, <1>2, <2>2, <2>4, <2>6, <3>1 DEF LocalsSound
  <2>. QED  BY <2>7, <2>8
<1>. QED  BY <1>3, <1>4, <1>5

LEMMA ReadStepsLast ==
    ASSUME TargetSound,
           \/ GetImport \/ ListSecrets \/ GetAccount \/ GetToken
           \/ KeepSecret \/ FinishReconcile
    PROVE  LastingStep
<1>1. TypeOK /\ StoreSound /\ LocalsSound
  BY DEF TargetSound, IdentityInv, CredentialsInv
<1>2. UNCHANGED <<sais, secrets, accounts, refs, tokens>>
  BY DEF GetImport, ListSecrets, GetAccount, GetToken, KeepSecret,
         FinishReconcile, storeVars, sourceVars
<1>3. StoreLasts
  BY <1>1, <1>2, StoreUnchanged
<1>. SUFFICES LocalsSound'
  BY <1>3 DEF LastingStep
<1>4. CASE GetImport \/ ListSecrets
  <2>1. CASE Finish
    BY <2>1, LocalsCleared DEF Finish
  <2>2. CASE ~Finish
    <3>1. UNCHANGED <<remaining, dss, osm>> /\ pc' \notin {"token", "apply"}
      BY <1>4, <2>2 DEF GetImport, ListSecrets
    <3>. QED  BY <1>1, <1>3, <3>1, LocalsUnchanged
  <2>. QED  BY <2>1, <2>2
<1>5. CASE GetAccount \/ GetToken
  BY <1>3, <1>5, ReadSourceLasts
<1>6. CASE KeepSecret
  BY <1>1, <1>3, <1>6, NextDesiredSound DEF KeepSecret
<1>7. CASE FinishReconcile
  BY <1>7, LocalsCleared DEF FinishReconcile, Finish
<1>. QED  BY <1>4, <1>5, <1>6, <1>7

(* The new version of an import has the uid of the one it replaces.        *)
LEMMA UpdateStatusLasts ==
    ASSUME TargetSound, UpdateStatus
    PROVE  LastingStep
<1>1. /\ TypeOK /\ VersionsIdentify /\ StoreSound /\ LocalsSound
      /\ sai \in ServiceAccountImport /\ sai \in ImportCopies
  BY DEF TargetSound, IdentityInv, CredentialsInv, UpdateStatus, Reconciling,
         TypeOK, WorkerTypeOK, ImportCopies
<1>2. /\ UNCHANGED <<secrets, accounts, refs, tokens>>
      /\ \A s \in secrets : Sound(s)
  BY <1>1 DEF UpdateStatus, StoreStatus, StoreImport, FailCall, storeVars,
              sourceVars, StoreSound, SecretCopies
<1>3. StoreLasts
  <2>1. CASE UNCHANGED sais
    BY <1>1, <1>2, <2>1, StoreUnchanged
  <2>2. CASE StoreStatus
    <3>1. /\ NewImport.name = sai.name /\ NewImport.uid = sai.uid
          /\ NewImport \in ServiceAccountImport
      BY <1>1, NamesOfType DEF NewImport, TypeOK, WorkerTypeOK,
                               ServiceAccountImport
    <3>2. /\ Stored(NewImport).name = sai.name
          /\ Stored(NewImport).uid = sai.uid
      BY <3>1 DEF Stored, ServiceAccountImport
    <3>3. sais' = {p \in sais : p.name # sai.name} \union {Stored(NewImport)}
      BY <2>2, <3>2 DEF StoreStatus, StoreImport, Put
    <3>4. \A p \in sais : p.name = sai.name => p.uid = sai.uid
      <4>1. PICK q \in sais : q.uid = sai.uid /\ q.rv = sai.rv
        BY <2>2 DEF StoreStatus, ImportIsCurrent
      <4>2. q.name = sai.name
        BY <1>1, <4>1 DEF VersionsIdentify, Superseded
      <4>. QED  BY <1>1, <4>1, <4>2 DEF VersionsIdentify
    <3>5. \A o \in sais : \E p \in sais' : p.uid = o.uid
      BY <3>2, <3>3, <3>4
    <3>. QED  BY <1>2, <3>5 DEF StoreLasts, Sound
  <2>. QED  BY <2>1, <2>2 DEF UpdateStatus, FailCall, storeVars
<1>4. CASE Requeue
  BY <1>3, <1>4, LocalsCleared DEF Requeue, LastingStep
<1>5. CASE ~Requeue
  <2>1. UNCHANGED <<remaining, dss, osm>> /\ pc' = "account"
    BY <1>5 DEF UpdateStatus, FailCall
  <2>. QED  BY <1>1, <1>3, <2>1, LocalsUnchanged DEF LastingStep
<1>. QED  BY <1>4, <1>5

(* The writes store sound secrets, and nothing is deleted.                 *)
LEMMA WriteStepsLast ==
    ASSUME TargetSound, CreateSecret \/ UpdateSecret \/ DeleteSecret
    PROVE  LastingStep
<1>1. /\ TypeOK /\ StoreSound /\ LocalsSound /\ pc = "apply" /\ dss # <<>>
      /\ dss \in Seq(Secret) /\ created \in Nat
      /\ osm # {} => os \in Secret /\ os \in SecretCopies
  BY DEF TargetSound, IdentityInv, CredentialsInv, TypeOK, StoreTypeOK,
         WorkerTypeOK, CreateSecret, UpdateSecret, DeleteSecret, LocalsSound,
         SecretCopies
<1>2. /\ Head(dss) \in Secret /\ Sound(Head(dss))
  BY <1>1, HeadTailToSet DEF LocalsSound
<1>3. UNCHANGED <<accounts, refs, tokens>>
  BY DEF CreateSecret, UpdateSecret, DeleteSecret, sourceVars
<1>4. CreateSecret \/ UpdateSecret
  BY <1>1 DEF DeleteSecret
<1>5. StoreLasts
  <2>1. CASE UNCHANGED storeVars
    BY <1>1, <1>3, <2>1, StoreUnchanged DEF storeVars
  <2>2. CASE StoreNewSecret
    <3>. DEFINE s == [Head(dss) EXCEPT !.name = created + 1]
    <3>1. s \in Secret
      BY <1>1, <1>2, NamedSecretType
    <3>2. /\ s.remoteUID = Head(dss).remoteUID
          /\ s.data = Head(dss).data /\ s.owner = Head(dss).owner
      BY <1>2 DEF Secret
    <3>3. StoreSecret(s)
      BY <2>2 DEF StoreNewSecret
    <3>. HIDE DEF s
    <3>4. Sound(s)
      BY <1>2, <3>2 DEF Sound
    <3>. QED  BY <1>1, <1>3, <3>1, <3>3, <3>4, StoreSecretLasts
  <2>3. CASE UpdateSecret /\ StoreData
    <3>1. os \in Secret /\ Sound(os)
      BY <1>1, <2>3 DEF UpdateSecret, StoreSound
    <3>2. NewSecret \in Secret /\ Sound(NewSecret) /\ StoreSecret(NewSecret)
      BY <1>2, <2>3, <3>1 DEF StoreData, NewSecret, Secret, Sound
    <3>. QED  BY <1>1, <1>3, <3>2, StoreSecretLasts
  <2>. QED  BY <1>4, <2>1, <2>2, <2>3 DEF CreateSecret, UpdateSecret, FailCall
<1>6. LocalsSound'
  <2>1. CASE Requeue
    BY <2>1, LocalsCleared DEF Requeue
  <2>2. CASE NextDesired
    BY <1>1, <1>5, <2>2, NextDesiredSound
  <2>. QED  BY <1>4, <2>1, <2>2 DEF CreateSecret, UpdateSecret, FailCall
<1>. QED  BY <1>5, <1>6 DEF LastingStep

LEMMA ReconcileLasts ==
    ASSUME TargetSound, Reconcile
    PROVE  LastingStep
  BY ReadStepsLast, UpdateStatusLasts, WriteStepsLast DEF Reconcile

-----------------------------------------------------------------------------
(* The steps around the worker.                                            *)

(* The controller's process, its watches and its queue, and steps beside   *)
(* the importer.                                                           *)
LEMMA ProcessLasts ==
    ASSUME TargetSound, UNCHANGED <<sais, secrets, sourceVars>>,
           \/ ClearLocals /\ pc' \in {"down", "idle"}
           \/ UNCHANGED <<remaining, dss, osm>> /\ (pc' = pc \/ pc' \in {"idle", "get"})
    PROVE  LastingStep
<1>1. StoreLasts
  BY StoreUnchanged DEF TargetSound, sourceVars
<1>. QED  BY <1>1, LocalsCleared, LocalsUnchanged DEF TargetSound, LastingStep

LEMMA MadeImportLasts ==
    ASSUME TargetSound, NEW i \in Imports, NEW a \in Accounts, CreateImport(i, a),
           UNCHANGED <<sourceVars, controllerVars>>
    PROVE  LastingStep
<1>1. /\ StoreSound /\ LocalsSound /\ \A s \in secrets : Sound(s)
      /\ UNCHANGED <<secrets, accounts, refs, tokens, remaining, dss, osm, pc>>
  BY DEF TargetSound, StoreSound, SecretCopies, CreateImport, StoreImport,
         sourceVars, controllerVars, localVars
<1>2. \A o \in sais : o \in sais'
  <2>. DEFINE n == [name |-> i, uid |-> created + 1, rv |-> 0, spec |-> a,
                    secrets |-> <<>>]
  <2>1. Stored(n).name = i
    BY DEF Stored
  <2>2. sais' = Put(sais, Stored(n)) /\ \A o \in sais : o.name # i
    BY DEF CreateImport, StoreImport
  <2>. HIDE DEF n
  <2>. QED  BY <2>1, <2>2 DEF Put
<1>3. StoreLasts
  BY <1>1, <1>2 DEF StoreLasts, Sound
<1>. QED  BY <1>1, <1>3, LocalsUnchanged DEF LastingStep

LEMMA MadeSeedSecretLasts ==
    ASSUME TargetSound, NEW i \in Imports, NEW u \in Nat, NEW t \in Token,
           t \in tokens, \E o \in sais : o.uid = u,
           StoreSecret([MakeServiceAccountImportSecret([name |-> i, uid |-> u], t)
                            EXCEPT !.name = created + 1]),
           UNCHANGED <<sourceVars, controllerVars>>
    PROVE  LastingStep
<1>1. /\ StoreSound /\ LocalsSound /\ created \in Nat
      /\ UNCHANGED <<accounts, refs, tokens, remaining, dss, osm, pc>>
  BY DEF TargetSound, IdentityInv, CredentialsInv, TypeOK, StoreTypeOK,
         sourceVars, controllerVars, localVars
<1>2. PICK s \in Secret :
          /\ s = [MakeServiceAccountImportSecret([name |-> i, uid |-> u], t)
                     EXCEPT !.name = created + 1]
          /\ s.remoteUID = NoUID /\ s.data = t /\ s.owner = u
  BY <1>1 DEF MakeServiceAccountImportSecret, ExportServiceAccountSecret, NoUID,
              Secret
<1>3. StoreSecret(s) /\ Sound(s)
  BY <1>2 DEF Sound
<1>4. StoreLasts
  BY <1>1, <1>3, StoreSecretLasts
<1>. QED  BY <1>1, <1>4, LocalsUnchanged DEF LastingStep

(* Users have yet to disturb anything, so every secret has an owner and    *)
(* no account lists a token that is gone: there is nothing to collect and  *)
(* nothing to forget.                                                      *)
LEMMA OthersLast ==
    ASSUME TargetSound, Undisturbed', Others
    PROVE  LastingStep
<1>1. edits \in Nat /\ sourceEdits \in Nat /\ refs \in [Accounts -> Seq(Token)]
  BY DEF TargetSound, IdentityInv, CredentialsInv, TypeOK, CountersTypeOK,
         SourceTypeOK
<1>2. ~UseTarget /\ ~UseSource
  BY <1>1 DEF UseTarget, UseSource, Edit, Undisturbed
<1>3. ~Collect
  BY DEF Collect, CollectGarbage, TargetSound, StoreSound, SecretCopies, Sound
<1>4. ~Forget
  <2>1. ASSUME NEW a \in Accounts, NEW k \in 1..Len(refs[a])
        PROVE  refs[a][k] \in tokens
    BY DEF TargetSound, SourcesWhole, ToSet
  <2>. QED  BY <2>1 DEF Forget, ForgetToken
<1>5. CASE HandleImportEvent \/ HandleSecretEvent \/ Resync
  <2>1. UNCHANGED <<sais, secrets, sourceVars, remaining, dss, osm, pc>>
    BY <1>5 DEF HandleImportEvent, HandleSecretEvent, Resync, storeVars, localVars
  <2>. QED  BY <2>1, ProcessLasts
<1>. QED  BY <1>2, <1>3, <1>4, <1>5 DEF Others

(* Every step of the installation.                                         *)
LEMMA WholeLasts ==
    ASSUME TargetSound, BootInv, BootsSound, [InstallNext]_installVars,
           Undisturbed'
    PROVE  LastingStep
<1>1. ASSUME UNCHANGED <<sais, secrets, sourceVars, remaining, dss, osm, pc>>
      PROVE  LastingStep
  BY <1>1, ProcessLasts
<1>2. ASSUME UNCHANGED vars
      PROVE  LastingStep
  BY <1>1, <1>2 DEF vars, storeVars, localVars
<1>3. ASSUME NEW c \in Seeds, Bootstrap(c)
      PROVE  LastingStep
  <2>1. /\ c \in Imports /\ Remote[c] \in Accounts
        /\ UNCHANGED <<sourceVars, controllerVars>>
    BY <1>3, InstallationAssumption DEF Bootstrap
  <2>2. CASE FetchToken(c) \/ AnnounceSeed(c)
    BY <1>1, <2>1, <2>2 DEF FetchToken, AnnounceSeed, storeVars, controllerVars,
                            localVars
  <2>3. CASE CreateSeed(c)
    <3>1. CASE CreateImport(c, Remote[c])
      BY <2>1, <3>1, MadeImportLasts
    <3>2. CASE UNCHANGED <<sais, secrets>>
      BY <1>1, <2>1, <3>2 DEF controllerVars, localVars
    <3>. QED  BY <2>3, <3>1, <3>2 DEF CreateSeed
  <2>4. CASE CreateSeedSecret(c)
    <3>1. /\ fetched[c] \in Token /\ fetched[c] \in tokens /\ owner[c] \in Nat
          /\ \E o \in sais : o.uid = owner[c]
      BY <2>4 DEF CreateSeedSecret, Advance, BootInv, BootTypeOK, BootOwned,
                  BootsSound, BootSound
    <3>. QED  BY <2>1, <2>4, <3>1, MadeSeedSecretLasts DEF CreateSeedSecret
  <2>. QED  BY <1>3, <2>2, <2>3, <2>4 DEF Bootstrap
<1>4. CASE Recreate \/ Evict \/ CrashController
  <2>1. UNCHANGED <<sais, secrets, sourceVars>> /\ ClearLocals /\ pc' = "down"
    BY <1>4 DEF Recreate, Evict, NewPod, CrashController, Crash, Die
  <2>. QED  BY <2>1, ProcessLasts
<1>5. CASE StartController \/ \E i \in Imports : TakeRequest(i)
  <2>1. /\ UNCHANGED <<sais, secrets, sourceVars, remaining, dss, osm>>
        /\ pc' \in {"idle", "get"}
    BY <1>5 DEF StartController, Start, TakeRequest, storeVars, localVars
  <2>. QED  BY <2>1, ProcessLasts
<1>6. CASE Worker
  <2>1. CASE Unauthorized
    <3>1. UNCHANGED <<sais, secrets, sourceVars>> /\ ClearLocals /\ pc' = "idle"
      BY <2>1 DEF Unauthorized, Requeue, storeVars
    <3>. QED  BY <3>1, ProcessLasts
  <2>. QED  BY <1>6, <2>1, ReconcileLasts DEF Worker, ReconcileAuthorized
<1>7. CASE Around
  BY <1>5, <1>7, OthersLast, MadeImportLasts DEF Around, CreateOtherImport
<1>8. CASE Webhook
  <2>1. UNCHANGED <<sais, secrets, sourceVars, remaining, dss, osm, pc>>
    BY <1>8 DEF Webhook, HandleHookEvent, Review, Handle, mutatePods, RestartPod,
       RestartWebhook, vars, storeVars, localVars
  <2>. QED  BY <1>1, <2>1
<1>9. CASE (\E c \in Seeds : MountFile(c)) \/ UNCHANGED installVars
  BY <1>2, <1>9 DEF MountFile, installVars, mountVars
<1>10. CASE \E c \in Seeds : Rerun(c)
  BY <1>1, <1>10 DEF Rerun, storeVars, localVars
<1>. QED  BY <1>3, <1>4, <1>5, <1>6, <1>7, <1>8, <1>9, <1>10 DEF InstallNext

(* A bootstrap goes on with what is there, and what is there stays.        *)
LEMMA BootsSoundKept ==
    ASSUME TypeOK, BootInv, BootsSound, StoreLasts, [InstallNext]_installVars
    PROVE  BootsSound'
<1>1. /\ tokens' = tokens /\ \A o \in sais : \E p \in sais' : p.uid = o.uid
      /\ stage \in [Seeds -> {"token", "import", "secret", "adoption", "done"}]
      /\ fetched \in [Seeds -> Token \union {None}] /\ owner \in [Seeds -> Nat]
  BY DEF StoreLasts, BootInv, BootTypeOK
<1>2. CASE UNCHANGED runVars
  BY <1>1, <1>2 DEF runVars, BootsSound, BootSound
<1>3. ASSUME NEW c \in Seeds, Bootstrap(c) \/ Rerun(c)
      PROVE  BootsSound'
  <2>1. \A d \in Seeds \ {c} :
            stage'[d] = stage[d] /\ fetched'[d] = fetched[d] /\ owner'[d] = owner[d]
    BY <1>1, <1>3 DEF Bootstrap, Rerun, FetchToken, CreateSeed,
       CreateSeedSecret, AnnounceSeed, Advance
  <2>2. BootSound(c)'
    <3>1. CASE FetchToken(c)
      BY <1>1, <3>1 DEF FetchToken, Advance, BootSound
    <3>2. CASE CreateSeed(c)
      <4>1. stage[c] = "import" /\ stage'[c] = "secret" /\ fetched'[c] = fetched[c]
        BY <1>1, <3>2 DEF CreateSeed, Advance
      <4>2. \E o \in sais' : o.uid = owner'[c]
        <5>1. ASSUME CreateImport(c, Remote[c]), owner'[c] = created + 1
              PROVE  \E o \in sais' : o.uid = owner'[c]
          BY <5>1 DEF CreateImport, StoreImport, Put, Stored
        <5>. QED  BY <1>1, <3>2, <5>1 DEF CreateSeed
      <4>. QED  BY <1>1, <4>1, <4>2 DEF BootsSound, BootSound
    <3>3. CASE CreateSeedSecret(c) \/ AnnounceSeed(c) \/ Rerun(c)
      BY <1>1, <3>3 DEF CreateSeedSecret, AnnounceSeed, Rerun, Advance, BootSound
    <3>. QED  BY <1>3, <3>1, <3>2, <3>3 DEF Bootstrap
  <2>. QED  BY <1>1, <2>1, <2>2 DEF BootsSound, BootSound
<1>. QED  BY <1>2, <1>3 DEF InstallNext, Recreate, Evict, NewPod, MountFile,
          StartController, CrashController, Worker, Around, Webhook,
          installVars, bootVars

LEMMA EditsCounted ==
    ASSUME TypeOK, [InstallNext]_installVars, Undisturbed'
    PROVE  Undisturbed
<1>1. edits \in Nat /\ sourceEdits \in Nat
  BY DEF TypeOK, CountersTypeOK
<1>2. /\ Edit \/ UNCHANGED edits
      /\ sourceEdits' = sourceEdits + 1 \/ UNCHANGED sourceEdits
  BY DEF InstallNext, Bootstrap, Rerun, MountFile, Recreate, Evict, NewPod,
     StartController, Start, CrashController, Crash, Worker, ReconcileAuthorized,
     Unauthorized, Reconcile, GetImport, ListSecrets, UpdateStatus, GetAccount,
     GetToken, CreateSecret, UpdateSecret, KeepSecret, DeleteSecret,
     FinishReconcile, Around, TakeRequest, CreateOtherImport, Others,
     HandleImportEvent, HandleSecretEvent, Resync, UseTarget, UseSource, Collect,
     Forget, Webhook, HandleHookEvent, Review, Handle, mutatePods, RestartPod,
     RestartWebhook, installVars, mountVars, vars, counters, editVars
<1>. QED  BY <1>1, <1>2 DEF Undisturbed, Edit

-----------------------------------------------------------------------------
(* The webhook and the pods.                                               *)

(* What the webhook reads was stored, and what is mounted was read.        *)
ReadFromStore == HookCopies' \subseteq HookCopies \union sais \union sais'

MountedFromCache ==
    \A p \in Pods : \A k \in 1..Len(volumes'[p]) :
        \/ k \in 1..Len(volumes[p]) /\ volumes'[p][k] = volumes[p][k]
        \/ \E o \in hookCache : volumes'[p][k].secret \in ToSet(o.secrets)

LEMMA WatchReads ==
    ASSUME MountTypeOK, TypeOK, TypeOK', Watch
    PROVE  ReadFromStore
<1>1. CASE UNCHANGED hookVars
  BY <1>1 DEF hookVars, HookCopies, ReadFromStore
<1>2. ASSUME NEW o \in sais \union sais', NEW type \in {"put", "delete"},
             hookEvents' = Append(hookEvents, [type |-> type, obj |-> o]),
             UNCHANGED hookCache
      PROVE  ReadFromStore
  <2>1. /\ hookEvents \in Seq(Event(ServiceAccountImport))
        /\ [type |-> type, obj |-> o] \in Event(ServiceAccountImport)
    BY DEF MountTypeOK, TypeOK, StoreTypeOK, Event
  <2>2. ToSet(hookEvents') = ToSet(hookEvents) \union {[type |-> type, obj |-> o]}
    BY <1>2, <2>1, AppendToSet
  <2>. QED  BY <1>2, <2>2 DEF HookCopies, ReadFromStore
<1>. QED  BY <1>1, <1>2 DEF Watch

LEMMA HandleHookEventReads ==
    ASSUME MountTypeOK, HandleHookEvent
    PROVE  ReadFromStore
<1>1. /\ Head(hookEvents) \in ToSet(hookEvents)
      /\ ToSet(hookEvents') \subseteq ToSet(hookEvents)
  BY HeadTailToSet DEF MountTypeOK, HandleHookEvent
<1>2. hookCache' \subseteq hookCache \union {Head(hookEvents).obj}
  BY DEF HandleHookEvent, Apply, Put, Drop
<1>. QED  BY <1>1, <1>2 DEF HookCopies, ReadFromStore

LEMMA VolumesStay ==
    ASSUME NEW P \in SUBSET Pods, MountTypeOK,
           \A p \in P : volumes'[p] = volumes[p],
           \A p \in Pods \ P : volumes'[p] = <<>>
    PROVE  MountedFromCache
<1>1. \A p \in Pods : volumes[p] \in Seq(Volume)
  BY DEF MountTypeOK
<1>. QED  BY <1>1 DEF MountedFromCache

(* One volume of one pod is appended, or the pod's volumes go.             *)
LEMMA mutatePodsMounts ==
    ASSUME MountTypeOK, NEW p \in Pods, mutatePods(p)
    PROVE  MountedFromCache
<1>1. /\ volumes \in [Pods -> Seq(Volume)] /\ volumes[p] \in Seq(Volume)
      /\ \A o \in hookCache : o \in ServiceAccountImport
  BY DEF MountTypeOK
<1>2. CASE Reject(p)
  BY <1>1, <1>2, VolumesStay, Pods \ {p} \in SUBSET Pods DEF Reject
<1>3. ASSUME NEW o \in Ready(Head(todo[p])),
             MountNext(p, Append(volumes[p], VolumeFor(o))), ~Reject(p)
      PROVE  MountedFromCache
  <2>1. /\ o \in hookCache /\ o.secrets \in Seq(Nat) /\ o.secrets # <<>>
        /\ o.name \in Imports
    BY <1>1 DEF Ready, ServiceAccountImport
  <2>2. Head(o.secrets) \in ToSet(o.secrets) /\ Head(o.secrets) \in Nat
    BY <2>1, HeadTailToSet
  <2>3. VolumeFor(o) \in Volume /\ VolumeFor(o).secret = Head(o.secrets)
    BY <2>1, <2>2 DEF VolumeFor, Volume
  <2>4. volumes' = [volumes EXCEPT ![p] = Append(volumes[p], VolumeFor(o))]
    BY <1>3 DEF MountNext, Respond
  <2>5. /\ volumes'[p] = Append(volumes[p], VolumeFor(o))
        /\ \A q \in Pods \ {p} : volumes'[q] = volumes[q]
    BY <1>1, <2>4
  <2>6. /\ Len(volumes'[p]) = Len(volumes[p]) + 1
        /\ \A k \in 1..Len(volumes[p]) : volumes'[p][k] = volumes[p][k]
        /\ volumes'[p][Len(volumes[p]) + 1] = VolumeFor(o)
    BY <1>1, <2>3, <2>5, AppendProperties
  <2>7. ASSUME NEW k \in 1..Len(volumes'[p])
        PROVE  \/ k \in 1..Len(volumes[p]) /\ volumes'[p][k] = volumes[p][k]
               \/ \E c \in hookCache : volumes'[p][k].secret \in ToSet(c.secrets)
    <3>1. k \in 1..Len(volumes[p]) \/ k = Len(volumes[p]) + 1
      BY <1>1, <2>6
    <3>. QED  BY <2>1, <2>2, <2>3, <2>6, <3>1
  <2>8. \A q \in Pods \ {p} : volumes[q] \in Seq(Volume)
    BY <1>1
  <2>. QED  BY <2>5, <2>7, <2>8 DEF MountedFromCache
<1>. QED  BY <1>2, <1>3 DEF mutatePods

LEMMA PodsMount ==
    ASSUME MountTypeOK, TypeOK, TypeOK', [InstallNext]_installVars
    PROVE  ReadFromStore /\ MountedFromCache
<1>. USE DEF podVars, hookVars
<1>1. Controller \in Pods /\ volumes \in [Pods -> Seq(Volume)]
  BY InstallationAssumption DEF MountTypeOK
<1>2. ASSUME UNCHANGED hookVars \/ (hookCache' = sais /\ hookEvents' = <<>>)
      PROVE  ReadFromStore
  BY <1>2, EmptyToSet DEF HookCopies, ReadFromStore
<1>3. ASSUME UNCHANGED volumes
      PROVE  MountedFromCache
  BY <1>3, VolumesStay, Pods \in SUBSET Pods
<1>4. CASE \/ \E c \in Seeds : Bootstrap(c)
           \/ Around
           \/ Worker /\ Watch
  BY <1>3, <1>4, WatchReads DEF Bootstrap, Around, Worker
<1>5. CASE \/ \E c \in Seeds : MountFile(c)
           \/ StartController \/ CrashController
           \/ Worker /\ ~Watch
           \/ \E c \in Seeds : Rerun(c)
           \/ UNCHANGED installVars
  BY <1>2, <1>3, <1>5 DEF MountFile, Rerun, StartController, CrashController, Worker,
     ReconcileAuthorized, Unauthorized, installVars, mountVars
<1>6. ASSUME NEW p \in Pods, Reject(p), UNCHANGED hookVars
      PROVE  ReadFromStore /\ MountedFromCache
  BY <1>1, <1>2, <1>6, VolumesStay, Pods \ {p} \in SUBSET Pods DEF Reject
<1>7. CASE Recreate \/ Evict
  BY <1>1, <1>6, <1>7 DEF Recreate, Evict, NewPod
<1>8. CASE Webhook
  <2>1. CASE HandleHookEvent
    BY <1>3, <2>1, HandleHookEventReads DEF HandleHookEvent
  <2>2. ASSUME NEW p \in Pods, Review(p)
        PROVE  ReadFromStore /\ MountedFromCache
    <3>1. UNCHANGED hookVars
      BY <2>2 DEF Review, Handle, mutatePods
    <3>2. MountedFromCache
      BY <1>3, <2>2, mutatePodsMounts DEF Review, Handle
    <3>. QED  BY <1>2, <3>1, <3>2
  <2>3. CASE \E p \in Pods \ {Controller} : RestartPod(p)
    BY <1>6, <2>3 DEF RestartPod
  <2>4. CASE RestartWebhook
    <3>1. ReadFromStore
      BY <1>2, <2>4 DEF RestartWebhook
    <3>. DEFINE P == {p \in Pods : phase[p] = "running"}
    <3>. HIDE DEF P
    <3>2. /\ P \in SUBSET Pods
          /\ \A p \in P : volumes'[p] = volumes[p]
          /\ \A p \in Pods \ P : volumes'[p] = <<>>
      BY <2>4 DEF P, RestartWebhook
    <3>. QED  BY <3>1, <3>2, VolumesStay
  <2>. QED  BY <1>8, <2>1, <2>2, <2>3, <2>4 DEF Webhook
<1>. QED  BY <1>4, <1>5, <1>7, <1>8 DEF InstallNext

-----------------------------------------------------------------------------
(* Every step keeps what lasts.                                            *)

LEMMA PodsSoundKept ==
    ASSUME StoreSound, StoreSound', PodsSound, ReadFromStore, MountedFromCache,
           \A n : Stands(n) => Stands(n)'
    PROVE  PodsSound'
<1>1. \A o \in HookCopies' : \A n \in ToSet(o.secrets) : Stands(n)'
  BY DEF ReadFromStore, PodsSound, StoreSound
<1>2. \A o \in hookCache : \A n \in ToSet(o.secrets) : Stands(n)'
  BY DEF PodsSound, HookCopies
<1>3. ASSUME NEW p \in Pods, NEW k \in 1..Len(volumes'[p])
      PROVE  Stands(volumes[p][k].secret)'
  <2>1. CASE k \in 1..Len(volumes[p]) /\ volumes'[p][k] = volumes[p][k]
    <3>1. PICK n : n = volumes[p][k].secret /\ Stands(n)
      BY <2>1 DEF PodsSound
    <3>2. Stands(n)' /\ volumes'[p][k].secret = n
      BY <2>1, <3>1
    <3>. QED  BY <3>2 DEF Stands
  <2>2. CASE \E o \in hookCache : volumes'[p][k].secret \in ToSet(o.secrets)
    <3>1. PICK n : n = volumes'[p][k].secret /\ Stands(n)'
      BY <1>2, <2>2
    <3>. QED  BY <3>1 DEF Stands
  <2>. QED  BY <2>1, <2>2 DEF MountedFromCache
<1>. QED  BY <1>1, <1>3 DEF PodsSound

LEMMA LastingStepKept ==
    ASSUME InstallInv, LastingInv, [InstallNext]_installVars
    PROVE  LastingInv'
<1>. SUFFICES ASSUME Undisturbed'
              PROVE  /\ SourcesWhole' /\ StoreSound' /\ LocalsSound'
                     /\ BootsSound' /\ PodsSound'
  BY DEF LastingInv
<1>1. /\ IdentityInv /\ BootInv /\ TypeOK /\ MountTypeOK
      /\ TypeOK' /\ NamesStep /\ VersionsStep
  BY WholeStep DEF InstallInv, WebhookInv, MountInv, IdentityInv, CredentialsInv,
                   TargetStep
<1>2. SourcesWhole /\ StoreSound /\ LocalsSound /\ BootsSound /\ PodsSound
  BY <1>1, EditsCounted DEF LastingInv
<1>3. StoreLasts /\ LocalsSound'
  BY <1>1, <1>2, WholeLasts DEF TargetSound, LastingStep
<1>4. SourcesWhole' /\ StoreSound' /\ \A n : Stands(n) => Stands(n)'
  BY <1>1, <1>2, <1>3, StoreSoundKept
<1>5. PodsSound'
  BY <1>1, <1>2, <1>4, PodsMount, PodsSoundKept
<1>6. BootsSound'
  BY <1>1, <1>2, <1>3, BootsSoundKept
<1>. QED  BY <1>3, <1>4, <1>5, <1>6

LEMMA InitialSources == SourceInit => SourcesWhole
<1>. SUFFICES ASSUME SourceInit PROVE SourcesWhole
  OBVIOUS
<1>1. /\ accounts = Accounts /\ InitialTokens \in Nat
      /\ tokens = {TokenOf(a, n) : a \in Accounts, n \in 1..InitialTokens}
      /\ \A a \in Accounts : refs[a] = [n \in 1..InitialTokens |-> TokenOf(a, n)]
  BY TokensAssumption DEF SourceInit
<1>2. ASSUME NEW a \in Accounts
      PROVE  /\ ToSet(refs[a]) \subseteq tokens
             /\ refs[a] = <<>> => tokens = {}
  <2>1. Len(refs[a]) = InitialTokens
    <3>1. refs[a] \in Seq(Token) /\ DOMAIN refs[a] = 1..InitialTokens
      BY <1>1, SourceInitType DEF SourceTypeOK
    <3>. QED  BY <1>1, <3>1, LenProperties
  <2>2. refs[a] = <<>> => InitialTokens = 0
    BY <2>1
  <2>3. ASSUME NEW n \in 1..InitialTokens
        PROVE  refs[a][n] \in tokens
    <3>1. refs[a][n] = TokenOf(a, n)
      BY <1>1
    <3>2. TokenOf(a, n) \in tokens
      BY <1>1
    <3>. QED  BY <3>1, <3>2
  <2>4. ToSet(refs[a]) \subseteq tokens
    BY <2>1, <2>3 DEF ToSet
  <2>5. InitialTokens = 0 => tokens = {}
    BY <1>1
  <2>. QED  BY <2>2, <2>4, <2>5
<1>. QED  BY <1>1, <1>2 DEF SourcesWhole

LEMMA LastingBegins == InstallInit => LastingInv
<1>. SUFFICES ASSUME InstallInit PROVE LastingInv
  OBVIOUS
<1>1. Init
  BY DEF InstallInit, MountInit
<1>2. SourcesWhole
  BY <1>1, InitialSources DEF Init
<1>3. StoreSound
  BY <1>1, EmptyToSet DEF Init, StoreInit, StoreSound, ImportCopies,
                          SecretCopies, Reconciling
<1>4. LocalsSound
  BY <1>1, EmptyToSet DEF Init, LocalsSound
<1>5. PodsSound
  BY EmptyToSet DEF InstallInit, MountInit, PodsSound, HookCopies
<1>6. BootsSound
  BY DEF InstallInit, BootsSound, BootSound
<1>. QED  BY <1>2, <1>3, <1>4, <1>5, <1>6 DEF LastingInv

-----------------------------------------------------------------------------
(* Theorem.                                                                *)

(* Until a user deletes or edits anything in either cluster, every secret  *)
(* that a running pod mounts is there, and the pod can start: what         *)
(* mutatePods read in a status of whatever age was never taken away, not   *)
(* by DeleteSecret, whose keys are used up by then, nor by the collector.  *)
THEOREM MountedExistHolds == InstallSpec => []MountedExist
<1>1. InstallInv /\ LastingInv /\ [InstallNext]_installVars => LastingInv'
  BY LastingStepKept
<1>2. LastingInv => MountedExist
  BY DEF LastingInv, Undisturbed, PodsSound, Stands, MountedExist
<1>. QED  BY <1>1, <1>2, LastingBegins, InstallInductive, PTL DEF InstallSpec
=============================================================================
