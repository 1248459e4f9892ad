--------------------------- MODULE ImporterProofs ---------------------------
(***************************************************************************)
(* Proofs about the importer, for every number of imports, accounts and    *)
(* tokens, and without any bound on edits and faults.                      *)
(***************************************************************************)
EXTENDS Importer, SourceProofs, FiniteSetTheorems

(* An enumeration of a finite set is a sequence of its elements.           *)
LEMMA SetToSeqsType ==
    ASSUME NEW S, IsFiniteSet(S), NEW l \in SetToSeqs(S)
    PROVE  l \in Seq(S)
<1>1. Cardinality(S) \in Nat
  BY FS_CardinalityType
<1>. QED  BY <1>1 DEF SetToSeqs

-----------------------------------------------------------------------------
(* Type correctness: the store.                                            *)

LEMMA PutFinite ==
    ASSUME NEW S, IsFiniteSet(S), NEW o
    PROVE  IsFiniteSet(Put(S, o))
<1>1. IsFiniteSet({p \in S : p.name # o.name})
  BY FS_Subset
<1>. QED  BY <1>1, FS_AddElement DEF Put

LEMMA DropFinite ==
    ASSUME NEW S, IsFiniteSet(S), NEW n
    PROVE  IsFiniteSet(Drop(S, n))
  BY FS_Subset DEF Drop

LEMMA StoredType ==
    /\ \A o \in ServiceAccountImport : Stored(o) \in ServiceAccountImport
    /\ \A s \in Secret : Stored(s) \in Secret
  BY DEF Stored, ServiceAccountImport, Secret

LEMMA StoreImportType ==
    ASSUME StoreTypeOK, NEW o \in ServiceAccountImport, StoreImport(o),
           created' \in Nat, requested' \in [Imports -> SUBSET Accounts]
    PROVE  StoreTypeOK'
<1>1. Stored(o) \in ServiceAccountImport
  BY StoredType
<1>2. sais' \subseteq ServiceAccountImport
  BY <1>1 DEF StoreImport, Put, StoreTypeOK
<1>3. [type |-> "put", obj |-> Stored(o)] \in Event(ServiceAccountImport)
  BY <1>1 DEF Event
<1>4. saiEvents' \in Seq(Event(ServiceAccountImport))
  BY <1>3, AppendToSet DEF StoreImport, StoreTypeOK
<1>. QED  BY <1>2, <1>4 DEF StoreImport, StoreTypeOK

LEMMA StoreSecretType ==
    ASSUME StoreTypeOK, NEW s \in Secret, StoreSecret(s), created' \in Nat
    PROVE  StoreTypeOK'
<1>1. Stored(s) \in Secret
  BY StoredType
<1>2. secrets' \subseteq Secret
  BY <1>1 DEF StoreSecret, Put, StoreTypeOK
<1>3. IsFiniteSet(secrets')
  BY PutFinite DEF StoreSecret, StoreTypeOK
<1>4. [type |-> "put", obj |-> Stored(s)] \in Event(Secret)
  BY <1>1 DEF Event
<1>5. secretEvents' \in Seq(Event(Secret))
  BY <1>4, AppendToSet DEF StoreSecret, StoreTypeOK
<1>. QED  BY <1>2, <1>3, <1>5 DEF StoreSecret, StoreTypeOK

LEMMA RemoveSecretType ==
    ASSUME StoreTypeOK, NEW n, RemoveSecret(n)
    PROVE  StoreTypeOK'
<1>1. secrets' \subseteq Secret
  BY DEF RemoveSecret, Drop, StoreTypeOK
<1>2. IsFiniteSet(secrets')
  BY DropFinite DEF RemoveSecret, StoreTypeOK
<1>3. PICK s \in secrets :
          secretEvents' = Append(secretEvents, [type |-> "delete", obj |-> s])
  BY DEF RemoveSecret
<1>4. [type |-> "delete", obj |-> s] \in Event(Secret)
  BY DEF Event, StoreTypeOK
<1>5. secretEvents' \in Seq(Event(Secret))
  BY <1>3, <1>4, AppendToSet DEF StoreTypeOK
<1>. QED  BY <1>1, <1>2, <1>5 DEF RemoveSecret, StoreTypeOK

(* What users and the garbage collector do preserves the store's type.     *)
LEMMA UsersType ==
    ASSUME StoreTypeOK
    PROVE  /\ \A i \in Imports, a \in Accounts :
                 CreateImport(i, a) => StoreTypeOK'
           /\ \A o \in sais, a \in Accounts : EditSpec(o, a) => StoreTypeOK'
           /\ \A o \in sais : DeleteImport(o) => StoreTypeOK'
           /\ \A s \in secrets : DeleteSecretByHand(s) => StoreTypeOK'
           /\ \A s \in secrets : CollectGarbage(s) => StoreTypeOK'
<1>1. ASSUME NEW i \in Imports, NEW a \in Accounts, CreateImport(i, a)
      PROVE  StoreTypeOK'
  <2>1. created + 1 \in Nat /\ created' \in Nat
    BY <1>1 DEF StoreTypeOK, CreateImport
  <2>2. requested' \in [Imports -> SUBSET Accounts]
    BY <1>1 DEF StoreTypeOK, CreateImport
  <2>3. [name |-> i, uid |-> created + 1, rv |-> 0, spec |-> a,
         secrets |-> <<>>] \in ServiceAccountImport
    BY <2>1 DEF ServiceAccountImport
  <2>. QED  BY <1>1, <2>1, <2>2, <2>3, StoreImportType DEF CreateImport
<1>2. ASSUME NEW o \in sais, NEW a \in Accounts, EditSpec(o, a)
      PROVE  StoreTypeOK'
  <2>1. [o EXCEPT !.spec = a] \in ServiceAccountImport
    BY DEF StoreTypeOK, ServiceAccountImport
  <2>2. requested' \in [Imports -> SUBSET Accounts] /\ created' \in Nat
    BY <1>2 DEF StoreTypeOK, EditSpec
  <2>. QED  BY <1>2, <2>1, <2>2, StoreImportType DEF EditSpec
<1>3. ASSUME NEW o \in sais, DeleteImport(o)
      PROVE  StoreTypeOK'
  <2>1. [type |-> "delete", obj |-> o] \in Event(ServiceAccountImport)
    BY DEF StoreTypeOK, Event
  <2>2. saiEvents' \in Seq(Event(ServiceAccountImport))
    BY <1>3, <2>1, AppendToSet DEF DeleteImport, StoreTypeOK
  <2>. QED  BY <1>3, <2>2 DEF DeleteImport, StoreTypeOK
<1>4. ASSUME NEW s \in secrets, DeleteSecretByHand(s) \/ CollectGarbage(s)
      PROVE  StoreTypeOK'
  BY <1>4, RemoveSecretType DEF DeleteSecretByHand, CollectGarbage
<1>. QED  BY <1>1, <1>2, <1>3, <1>4

-----------------------------------------------------------------------------
(* Type correctness: the worker.                                           *)

Busy == pc \notin {"down", "idle"}

LEMMA ClearedType ==
    ASSUME ClearLocals, pc' \in {"down", "idle"}
    PROVE  WorkerTypeOK'
  BY EmptySeq DEF ClearLocals, WorkerTypeOK, WorkerStates

LEMMA OutcomesType ==
    ASSUME TypeOK, Busy
    PROVE  /\ Requeue => WorkerTypeOK' /\ dirty' \subseteq Imports
           /\ Finish => WorkerTypeOK' /\ dirty' \subseteq Imports
           /\ Fault => faults' \in Nat
<1>1. Requeue => WorkerTypeOK' /\ dirty' \subseteq Imports
  BY ClearedType DEF Requeue, Busy, TypeOK, CacheTypeOK, WorkerTypeOK
<1>2. Finish => WorkerTypeOK' /\ dirty' \subseteq Imports
  BY ClearedType DEF Finish, TypeOK, CacheTypeOK
<1>3. Fault => faults' \in Nat
  BY DEF Fault, TypeOK, CountersTypeOK
<1>. QED  BY <1>1, <1>2, <1>3

LEMMA ApplyImportType ==
    ASSUME NEW S \in SUBSET ServiceAccountImport,
           NEW e \in Event(ServiceAccountImport)
    PROVE  Apply(S, e) \subseteq ServiceAccountImport
  BY DEF Apply, Event, Put, Drop

LEMMA ApplySecretType ==
    ASSUME NEW S \in SUBSET Secret, IsFiniteSet(S), NEW e \in Event(Secret)
    PROVE  Apply(S, e) \subseteq Secret /\ IsFiniteSet(Apply(S, e))
<1>1. Apply(S, e) \subseteq Secret
  BY DEF Apply, Event, Put, Drop
<1>2. IsFiniteSet(Apply(S, e))
  BY PutFinite, DropFinite DEF Apply
<1>. QED  BY <1>1, <1>2

(* The import and the listed secrets the worker reads from its caches.     *)
LEMMA ReadCachesType ==
    ASSUME TypeOK, GetImport \/ ListSecrets
    PROVE  WorkerTypeOK' /\ dirty' \subseteq Imports
<1>1. CASE GetImport
  <2>1. Busy
    BY <1>1 DEF GetImport, Busy
  <2>2. CASE Finish
    BY <2>1, <2>2, OutcomesType
  <2>3. CASE \E o \in saiCache :
                /\ o.name = req
                /\ sai' = o
                /\ pc' = "list"
                /\ UNCHANGED <<dirty, req, osl, remaining, dss, osm, os>>
    BY <1>1, <2>3 DEF GetImport, TypeOK, CacheTypeOK, WorkerTypeOK, WorkerStates
  <2>. QED  BY <1>1, <2>2, <2>3 DEF GetImport
<1>2. CASE ListSecrets
  <2>1. IsFiniteSet(Selected) /\ Selected \subseteq Secret
    BY FS_Subset DEF Selected, TypeOK, CacheTypeOK
  <2>2. osl' \in Seq(Selected)
    BY <1>2, <2>1, SetToSeqsType DEF ListSecrets
  <2>3. osl' \in Seq(Secret)
    BY <2>1, <2>2, SeqMonotonic
  <2>4. pc' \in {"account", "status"}
    BY <1>2 DEF ListSecrets
  <2>. QED  BY <1>2, <2>3, <2>4
            DEF ListSecrets, TypeOK, CacheTypeOK, WorkerTypeOK, WorkerStates
<1>. QED  BY <1>1, <1>2

LEMMA NamesOfType ==
    ASSUME NEW l \in Seq(Secret)
    PROVE  NamesOf(l) \in Seq(Nat)
<1>1. Len(l) \in Nat /\ \A k \in 1..Len(l) : l[k] \in Secret
  OBVIOUS
<1>2. \A k \in 1..Len(l) : l[k].name \in Nat
  BY <1>1 DEF Secret
<1>. QED  BY <1>1, <1>2, IsASeq DEF NamesOf

LEMMA UpdateStatusType ==
    ASSUME TypeOK, UpdateStatus
    PROVE  TypeOK'
<1>1. Busy /\ sai \in ServiceAccountImport
  BY DEF UpdateStatus, Busy, TypeOK, WorkerTypeOK
<1>2. NewImport \in ServiceAccountImport
  BY <1>1, NamesOfType DEF NewImport, ServiceAccountImport, TypeOK, WorkerTypeOK
<1>3. Stored(NewImport) \in ServiceAccountImport
  BY <1>2, StoredType
<1>4. StoreStatus => StoreTypeOK'
  BY <1>2, StoreImportType DEF StoreStatus, TypeOK, StoreTypeOK
<1>5. StoreTypeOK'
  BY <1>4 DEF UpdateStatus, FailCall, storeVars, TypeOK, StoreTypeOK
<1>6. SourceTypeOK'
  BY DEF UpdateStatus, sourceVars, TypeOK, SourceTypeOK
<1>7. WorkerTypeOK' /\ dirty' \subseteq Imports
  <2>1. CASE Requeue
    BY <1>1, <2>1, OutcomesType
  <2>2. CASE /\ sai' = Stored(NewImport)
             /\ pc' = "account"
             /\ UNCHANGED <<dirty, req, osl, remaining, dss, osm, os, faults>>
    BY <1>3, <2>2
       DEF UpdateStatus, TypeOK, CacheTypeOK, WorkerTypeOK, WorkerStates
  <2>. QED  BY <2>1, <2>2 DEF UpdateStatus, FailCall
<1>8. CacheTypeOK'
  BY <1>7 DEF UpdateStatus, cacheVars, TypeOK, CacheTypeOK
<1>9. faults' \in Nat
  BY <1>1, OutcomesType DEF UpdateStatus, FailCall, TypeOK, CountersTypeOK
<1>10. CountersTypeOK'
  BY <1>9 DEF UpdateStatus, editVars, TypeOK, CountersTypeOK
<1>. QED  BY <1>5, <1>6, <1>7, <1>8, <1>10 DEF TypeOK

LEMMA MakeSecretType ==
    ASSUME NEW o \in ServiceAccountImport, NEW t \in Token
    PROVE  MakeServiceAccountImportSecret(o, t) \in Secret
  BY DEF MakeServiceAccountImportSecret, ExportServiceAccountSecret, NoUID,
         ServiceAccountImport, Secret

LEMMA MapObservedType ==
    ASSUME osl \in Seq(Secret), MapObserved
    PROVE  /\ osl' \in Seq(Secret) /\ pc' = "apply"
           /\ osm' \subseteq Nat /\ (osm' # {} => os' \in Secret)
<1>1. ToSet(osl) \subseteq Secret
  BY ToSetType
<1>2. osm' \subseteq Nat
  BY <1>1 DEF MapObserved, Secret
<1>3. osm' # {} => os' \in Secret
  BY LastToSet, EmptyToSet DEF MapObserved
<1>. QED  BY <1>2, <1>3, EmptySeq DEF MapObserved

(* The account and the tokens the worker reads from the source cluster.    *)
LEMMA ReadSourceType ==
    ASSUME TypeOK, GetAccount \/ GetToken
    PROVE  TypeOK'
<1>1. Busy /\ sai \in ServiceAccountImport /\ sai.spec \in Accounts
  BY DEF GetAccount, GetToken, Busy, TypeOK, WorkerTypeOK, ServiceAccountImport
<1>2. osl \in Seq(Secret) /\ dss \in Seq(Secret) /\ remaining \in Seq(Token)
  BY DEF TypeOK, WorkerTypeOK
<1>3. WorkerTypeOK' /\ dirty' \subseteq Imports
  <2>1. CASE Requeue
    BY <1>1, <2>1, OutcomesType
  <2>2. CASE /\ GetAccount
             /\ remaining' = refs[sai.spec]
             /\ IF remaining' = <<>>
                   THEN MapObserved
                   ELSE pc' = "token" /\ UNCHANGED <<osl, osm, os>>
             /\ UNCHANGED <<dirty, req, sai, dss, faults>>
    <3>1. remaining' \in Seq(Token)
      BY <1>1, <2>2 DEF TypeOK, SourceTypeOK
    <3>2. CASE MapObserved
      BY <1>1, <1>2, <2>2, <3>1, <3>2, MapObservedType
         DEF GetAccount, TypeOK, CacheTypeOK, WorkerTypeOK, WorkerStates
    <3>3. CASE remaining' # <<>> /\ pc' = "token" /\ UNCHANGED <<osl, osm, os>>
      BY <1>1, <1>2, <2>2, <3>1, <3>3
         DEF GetAccount, TypeOK, CacheTypeOK, WorkerTypeOK, WorkerStates
    <3>. QED  BY <2>2, <3>2, <3>3
  <2>3. CASE /\ GetToken
             /\ dss' = IF Head(remaining) \in tokens
                          THEN Append(dss, MakeServiceAccountImportSecret(
                                               sai, Head(remaining)))
                          ELSE dss
             /\ remaining' = Tail(remaining)
             /\ IF remaining' = <<>>
                   THEN MapObserved
                   ELSE UNCHANGED <<pc, osl, osm, os>>
             /\ UNCHANGED <<dirty, req, sai, faults>>
    <3>1. remaining # <<>>
      BY <2>3 DEF GetToken, TypeOK, WorkerTypeOK
    <3>2. Head(remaining) \in Token /\ remaining' \in Seq(Token)
      BY <1>2, <2>3, <3>1, HeadTailToSet
    <3>3. dss' \in Seq(Secret)
      BY <1>1, <1>2, <2>3, <3>2, MakeSecretType, AppendToSet
    <3>4. CASE MapObserved
      BY <1>1, <1>2, <2>3, <3>2, <3>3, <3>4, MapObservedType
         DEF GetToken, TypeOK, CacheTypeOK, WorkerTypeOK, WorkerStates
    <3>5. CASE remaining' # <<>> /\ UNCHANGED <<pc, osl, osm, os>>
      BY <1>1, <1>2, <2>3, <3>2, <3>3, <3>5
         DEF GetToken, TypeOK, CacheTypeOK, WorkerTypeOK, WorkerStates
    <3>. QED  BY <2>3, <3>4, <3>5
  <2>. QED  BY <2>1, <2>2, <2>3 DEF GetAccount, GetToken
<1>4. faults' \in Nat
  BY <1>1, OutcomesType DEF GetAccount, GetToken, TypeOK, CountersTypeOK
<1>5. UNCHANGED <<storeVars, sourceVars, cacheVars, srcClients, editVars>>
  BY DEF GetAccount, GetToken
<1>6. StoreTypeOK' /\ SourceTypeOK'
  BY <1>5 DEF storeVars, sourceVars, TypeOK, StoreTypeOK, SourceTypeOK
<1>7. CacheTypeOK' /\ CountersTypeOK'
  BY <1>3, <1>4, <1>5
     DEF cacheVars, editVars, TypeOK, CacheTypeOK, CountersTypeOK
<1>. QED  BY <1>3, <1>6, <1>7 DEF TypeOK

LEMMA NamedSecretType ==
    \A s \in Secret, n \in Nat : [s EXCEPT !.name = n] \in Secret
  BY DEF Secret

(* The steps that compare the desired and the observed secrets.            *)
LEMMA NextDesiredType ==
    ASSUME TypeOK, pc = "apply", dss # <<>>, NextDesired,
           osm' # {} => os' \in Secret
    PROVE  WorkerTypeOK' /\ dirty' \subseteq Imports /\ faults' \in Nat
<1>1. dss' \in Seq(Secret)
  BY HeadTailToSet DEF NextDesired, TypeOK, WorkerTypeOK
<1>. QED  BY <1>1 DEF NextDesired, TypeOK, CacheTypeOK, WorkerTypeOK,
                      WorkerStates, CountersTypeOK

LEMMA ApplyStepsType ==
    ASSUME TypeOK,
           CreateSecret \/ UpdateSecret \/ KeepSecret \/ DeleteSecret
               \/ FinishReconcile
    PROVE  TypeOK'
<1>1. Busy /\ pc = "apply"
  BY DEF CreateSecret, UpdateSecret, KeepSecret, DeleteSecret, FinishReconcile,
         Busy
<1>2. dss # <<>> => Head(dss) \in Secret
  BY HeadTailToSet DEF TypeOK, WorkerTypeOK
<1>3. created \in Nat /\ dss \in Seq(Secret) /\ (osm # {} => os \in Secret)
  BY DEF TypeOK, StoreTypeOK, WorkerTypeOK
<1>4. CASE CreateSecret
  <2>1. StoreNewSecret => StoreTypeOK'
    <3>1. [Head(dss) EXCEPT !.name = created + 1] \in Secret
      BY <1>2, <1>3, <1>4, NamedSecretType DEF CreateSecret
    <3>. QED  BY <1>3, <3>1, StoreSecretType DEF StoreNewSecret, TypeOK
  <2>2. StoreTypeOK'
    BY <1>4, <2>1 DEF CreateSecret, FailCall, storeVars, TypeOK, StoreTypeOK
  <2>3. WorkerTypeOK' /\ dirty' \subseteq Imports /\ faults' \in Nat
    <3>1. CASE Requeue
      BY <1>1, <1>4, <3>1, OutcomesType
         DEF CreateSecret, FailCall, TypeOK, CountersTypeOK, NextDesired
    <3>2. CASE NextDesired /\ UNCHANGED os
      BY <1>1, <1>3, <1>4, <3>2, NextDesiredType DEF CreateSecret, NextDesired
    <3>. QED  BY <1>4, <3>1, <3>2 DEF CreateSecret, FailCall
  <2>. QED  BY <1>4, <2>2, <2>3
            DEF CreateSecret, sourceVars, cacheVars, editVars, TypeOK,
                SourceTypeOK, CacheTypeOK, CountersTypeOK
<1>5. CASE UpdateSecret
  <2>1. os \in Secret /\ Head(dss) \in Secret
    BY <1>2, <1>3, <1>5 DEF UpdateSecret
  <2>2. NewSecret \in Secret /\ Stored(NewSecret) \in Secret
    BY <2>1, StoredType DEF NewSecret, Secret
  <2>3. StoreData => StoreTypeOK'
    BY <1>3, <2>2, StoreSecretType DEF StoreData, TypeOK
  <2>4. StoreTypeOK'
    BY <1>5, <2>3 DEF UpdateSecret, FailCall, storeVars, TypeOK, StoreTypeOK
  <2>5. WorkerTypeOK' /\ dirty' \subseteq Imports /\ faults' \in Nat
    <3>1. CASE Requeue
      BY <1>1, <1>5, <3>1, OutcomesType
         DEF UpdateSecret, FailCall, TypeOK, CountersTypeOK, NextDesired
    <3>2. CASE NextDesired /\ os' = Stored(NewSecret)
      BY <1>1, <1>5, <2>2, <3>2, NextDesiredType DEF UpdateSecret
    <3>. QED  BY <1>5, <3>1, <3>2 DEF UpdateSecret, FailCall
  <2>. QED  BY <1>5, <2>4, <2>5
            DEF UpdateSecret, sourceVars, cacheVars, editVars, TypeOK,
                SourceTypeOK, CacheTypeOK, CountersTypeOK
<1>6. CASE KeepSecret
  <2>1. WorkerTypeOK' /\ dirty' \subseteq Imports /\ faults' \in Nat
    BY <1>1, <1>3, <1>6, NextDesiredType DEF KeepSecret, NextDesired
  <2>. QED  BY <1>6, <2>1
            DEF KeepSecret, storeVars, sourceVars, cacheVars, editVars, TypeOK,
                StoreTypeOK, SourceTypeOK, CacheTypeOK, CountersTypeOK
<1>7. CASE DeleteSecret
  <2>1. StoreTypeOK'
    BY <1>7, RemoveSecretType
       DEF DeleteSecret, FailCall, storeVars, TypeOK, StoreTypeOK
  <2>2. WorkerTypeOK' /\ dirty' \subseteq Imports /\ faults' \in Nat
    <3>1. CASE Requeue
      BY <1>1, <1>7, <3>1, OutcomesType
         DEF DeleteSecret, FailCall, TypeOK, CountersTypeOK
    <3>2. CASE /\ \E key \in osm : osm' = osm \ {key}
               /\ UNCHANGED <<pc, dirty, req, sai, osl, remaining, dss, os,
                              faults>>
      BY <1>3, <1>7, <3>2 DEF DeleteSecret, TypeOK, CacheTypeOK, WorkerTypeOK,
                              CountersTypeOK
    <3>. QED  BY <1>7, <3>1, <3>2 DEF DeleteSecret, FailCall
  <2>. QED  BY <1>7, <2>1, <2>2
            DEF DeleteSecret, sourceVars, cacheVars, editVars, TypeOK,
                SourceTypeOK, CacheTypeOK, CountersTypeOK
<1>8. CASE FinishReconcile
  <2>1. WorkerTypeOK' /\ dirty' \subseteq Imports
    BY <1>1, <1>8, OutcomesType DEF FinishReconcile
  <2>. QED  BY <1>8, <2>1
            DEF FinishReconcile, storeVars, sourceVars, cacheVars, counters,
                editVars, TypeOK, StoreTypeOK, SourceTypeOK, CacheTypeOK,
                CountersTypeOK
<1>. QED  BY <1>4, <1>5, <1>6, <1>7, <1>8

-----------------------------------------------------------------------------
(* Type correctness: the whole system.                                     *)

LEMMA InitType == Init => TypeOK
<1>. SUFFICES ASSUME Init PROVE TypeOK
  OBVIOUS
<1>1. StoreTypeOK
  BY FS_EmptySet, EmptySeq DEF Init, StoreInit, StoreTypeOK
<1>2. SourceTypeOK
  BY SourceInitType DEF Init
<1>3. CacheTypeOK
  BY FS_EmptySet DEF Init, CacheTypeOK
<1>4. WorkerTypeOK
  BY EmptySeq DEF Init, WorkerTypeOK, WorkerStates
<1>. QED  BY <1>1, <1>2, <1>3, <1>4 DEF Init, CountersTypeOK, TypeOK

(* The steps of the informers and of the work queue.                       *)
LEMMA ControllerType ==
    ASSUME TypeOK,
           \/ Start \/ Crash \/ HandleImportEvent \/ HandleSecretEvent \/ Resync
           \/ \E i \in Imports : TakeRequest(i)
    PROVE  TypeOK'
<1>1. /\ sais \subseteq ServiceAccountImport /\ saiCache \subseteq ServiceAccountImport
      /\ secrets \subseteq Secret /\ secretCache \subseteq Secret
      /\ IsFiniteSet(secrets) /\ IsFiniteSet(secretCache)
      /\ dirty \subseteq Imports
  BY DEF TypeOK, StoreTypeOK, CacheTypeOK
<1>2. /\ {o.name : o \in sais} \subseteq Imports
      /\ {o.name : o \in saiCache} \subseteq Imports
      /\ {s.import : s \in secrets} \subseteq Imports
      /\ {s.import : s \in secretCache} \subseteq Imports
  BY <1>1 DEF ServiceAccountImport, Secret
<1>3. CASE Start
  <2>1. StoreTypeOK' /\ SourceTypeOK' /\ CountersTypeOK'
    BY <1>3, EmptySeq DEF Start, sourceVars, counters, editVars, TypeOK,
                          StoreTypeOK, SourceTypeOK, CountersTypeOK
  <2>2. CacheTypeOK'
    BY <1>1, <1>2, <1>3 DEF Start, CacheTypeOK
  <2>3. WorkerTypeOK'
    BY <1>3 DEF Start, localVars, TypeOK, WorkerTypeOK, WorkerStates
  <2>. QED  BY <2>1, <2>2, <2>3 DEF TypeOK
<1>4. CASE Crash
  <2>1. StoreTypeOK' /\ SourceTypeOK' /\ CountersTypeOK'
    BY <1>4, EmptySeq DEF Crash, Die, Fault, sourceVars, editVars, TypeOK,
                          StoreTypeOK, SourceTypeOK, CountersTypeOK
  <2>2. CacheTypeOK'
    BY <1>4, FS_EmptySet DEF Crash, Die, CacheTypeOK
  <2>3. WorkerTypeOK'
    BY <1>4, ClearedType DEF Crash, Die
  <2>. QED  BY <2>1, <2>2, <2>3 DEF TypeOK
<1>5. CASE HandleImportEvent
  <2>1. /\ Head(saiEvents) \in Event(ServiceAccountImport)
        /\ Tail(saiEvents) \in Seq(Event(ServiceAccountImport))
    BY <1>5, HeadTailToSet DEF HandleImportEvent, TypeOK, StoreTypeOK
  <2>2. Head(saiEvents).obj.name \in Imports
    BY <2>1 DEF Event, ServiceAccountImport
  <2>3. CacheTypeOK'
    BY <1>1, <1>5, <2>1, <2>2, ApplyImportType DEF HandleImportEvent, CacheTypeOK
  <2>4. StoreTypeOK'
    BY <1>5, <2>1 DEF HandleImportEvent, TypeOK, StoreTypeOK
  <2>. QED  BY <1>5, <2>3, <2>4
            DEF HandleImportEvent, sourceVars, localVars, counters, editVars,
                TypeOK, SourceTypeOK, WorkerTypeOK, CountersTypeOK
<1>6. CASE HandleSecretEvent
  <2>1. /\ Head(secretEvents) \in Event(Secret)
        /\ Tail(secretEvents) \in Seq(Event(Secret))
    BY <1>6, HeadTailToSet DEF HandleSecretEvent, TypeOK, StoreTypeOK
  <2>2. Head(secretEvents).obj.import \in Imports
    BY <2>1 DEF Event, Secret
  <2>3. CacheTypeOK'
    BY <1>1, <1>6, <2>1, <2>2, ApplySecretType DEF HandleSecretEvent, CacheTypeOK,
                                                 TypeOK
  <2>4. StoreTypeOK'
    BY <1>6, <2>1 DEF HandleSecretEvent, TypeOK, StoreTypeOK
  <2>. QED  BY <1>6, <2>3, <2>4
            DEF HandleSecretEvent, sourceVars, localVars, counters, editVars,
                TypeOK, SourceTypeOK, WorkerTypeOK, CountersTypeOK
<1>7. CASE Resync
  BY <1>1, <1>2, <1>7
     DEF Resync, storeVars, sourceVars, cacheVars, localVars, counters, editVars,
         TypeOK, StoreTypeOK, SourceTypeOK, CacheTypeOK, WorkerTypeOK,
         CountersTypeOK
<1>8. CASE \E i \in Imports : TakeRequest(i)
  BY <1>1, <1>8
     DEF TakeRequest, storeVars, sourceVars, cacheVars, counters, editVars,
         TypeOK, StoreTypeOK, SourceTypeOK, CacheTypeOK, WorkerTypeOK,
         WorkerStates, CountersTypeOK
<1>. QED  BY <1>3, <1>4, <1>5, <1>6, <1>7, <1>8

LEMMA ReconcileType ==
    ASSUME TypeOK, Reconcile
    PROVE  TypeOK'
<1>1. CASE GetImport \/ ListSecrets
  <2>1. WorkerTypeOK' /\ dirty' \subseteq Imports
    BY <1>1, ReadCachesType
  <2>. QED  BY <1>1, <2>1
            DEF GetImport, ListSecrets, storeVars, sourceVars, cacheVars,
                counters, editVars, TypeOK, StoreTypeOK, SourceTypeOK,
                CacheTypeOK, CountersTypeOK
<1>. QED  BY <1>1, UpdateStatusType, ReadSourceType, ApplyStepsType DEF Reconcile

LEMMA EnvironmentType ==
    ASSUME TypeOK, Prepare \/ UseTarget \/ UseSource \/ Collect \/ Forget
    PROVE  TypeOK'
<1>1. CASE Prepare \/ UseTarget \/ Collect
  <2>1. StoreTypeOK'
    BY <1>1, UsersType DEF Prepare, UseTarget, Collect, TypeOK
  <2>2. CountersTypeOK'
    BY <1>1 DEF Prepare, UseTarget, Collect, Edit, controllerVars, editVars,
                TypeOK, CountersTypeOK
  <2>. QED  BY <1>1, <2>1, <2>2
            DEF Prepare, UseTarget, Collect, sourceVars, controllerVars,
                cacheVars, localVars, TypeOK, SourceTypeOK, CacheTypeOK,
                WorkerTypeOK
<1>2. CASE UseSource \/ Forget
  <2>1. SourceTypeOK'
    BY <1>2, SourceType DEF UseSource, Forget, TypeOK
  <2>2. CountersTypeOK'
    BY <1>2 DEF UseSource, Forget, controllerVars, editVars, TypeOK,
                CountersTypeOK
  <2>. QED  BY <1>2, <2>1, <2>2
            DEF UseSource, Forget, storeVars, controllerVars, cacheVars,
                localVars, TypeOK, StoreTypeOK, CacheTypeOK, WorkerTypeOK
<1>. QED  BY <1>1, <1>2

LEMMA TypeStep ==
    ASSUME TypeOK, [Next]_vars
    PROVE  TypeOK'
<1>1. CASE Next
  BY <1>1, ControllerType, ReconcileType, EnvironmentType DEF Next, Others
<1>2. CASE UNCHANGED vars
  BY <1>2 DEF vars, storeVars, sourceVars, cacheVars, localVars, counters,
              editVars, TypeOK, StoreTypeOK, SourceTypeOK, CacheTypeOK,
              WorkerTypeOK, CountersTypeOK
<1>. QED  BY <1>1, <1>2

(* Every variable always has its type, and Reconcile never reads a local   *)
(* that was not set: there is an import when it is listed for, a token     *)
(* left when one is fetched, a secret when one is updated or deleted.      *)
THEOREM TypeCorrect == Spec => []TypeOK
<1>1. TypeOK /\ [Next]_vars => TypeOK'
  BY TypeStep
<1>. QED  BY <1>1, InitType, PTL DEF Spec

-----------------------------------------------------------------------------
(* Provenance.                                                             *)

CredentialsInv == TypeOK /\ Provenance /\ RequestedCredentialsOnly

LEMMA ClearedOwned ==
    ASSUME ClearLocals, pc' \in {"down", "idle"}
    PROVE  LocalsOwned' /\ ~Reconciling'
  BY EmptyToSet DEF ClearLocals, LocalsOwned, Reconciling

LEMMA OutcomesOwned == Requeue \/ Finish => LocalsOwned' /\ ~Reconciling'
  BY ClearedOwned DEF Requeue, Finish

(* A write of an import whose spec was requested leaves only such copies.  *)
LEMMA StoreImportRequested ==
    ASSUME TypeOK, SpecsRequested, NEW o \in ServiceAccountImport, StoreImport(o),
           requested' \in [Imports -> SUBSET Accounts],
           \A i \in Imports : requested[i] \subseteq requested'[i],
           o.spec \in requested'[o.name]
    PROVE  \A p \in sais' \union {e.obj : e \in ToSet(saiEvents')} :
               p.spec \in requested'[p.name]
<1>1. /\ Stored(o) \in ServiceAccountImport
      /\ Stored(o).spec = o.spec /\ Stored(o).name = o.name
  BY StoredType DEF Stored, ServiceAccountImport
<1>2. [type |-> "put", obj |-> Stored(o)] \in Event(ServiceAccountImport)
  BY <1>1 DEF Event
<1>3. ToSet(saiEvents') =
          ToSet(saiEvents) \union {[type |-> "put", obj |-> Stored(o)]}
  BY <1>2, AppendToSet DEF StoreImport, TypeOK, StoreTypeOK
<1>4. ToSet(saiEvents) \subseteq Event(ServiceAccountImport)
  BY ToSetType DEF TypeOK, StoreTypeOK
<1>5. ASSUME NEW p \in sais \union {e.obj : e \in ToSet(saiEvents)}
      PROVE  p.spec \in requested'[p.name]
  <2>1. p.name \in Imports
    BY <1>4 DEF TypeOK, StoreTypeOK, Event, ServiceAccountImport
  <2>2. p.spec \in requested[p.name]
    BY DEF SpecsRequested, ImportCopies
  <2>. QED  BY <2>1, <2>2
<1>6. sais' \subseteq sais \union {Stored(o)}
  BY DEF StoreImport, Put
<1>. QED  BY <1>1, <1>3, <1>5, <1>6

(* Users write specs that are requested from then on, in every copy.       *)
LEMMA UsersRequested ==
    ASSUME TypeOK, SpecsRequested, RequestedCredentialsOnly,
           UNCHANGED <<saiCache, pc, sai>>
    PROVE  /\ \A i \in Imports, a \in Accounts :
                 CreateImport(i, a) => SpecsRequested' /\ RequestedCredentialsOnly'
           /\ \A o \in sais, a \in Accounts :
                 EditSpec(o, a) => SpecsRequested' /\ RequestedCredentialsOnly'
           /\ \A o \in sais :
                 DeleteImport(o) => SpecsRequested' /\ RequestedCredentialsOnly'
           /\ \A s \in secrets :
                 DeleteSecretByHand(s) \/ CollectGarbage(s) =>
                     SpecsRequested' /\ RequestedCredentialsOnly'
<1>1. /\ requested \in [Imports -> SUBSET Accounts]
      /\ sais \subseteq ServiceAccountImport /\ secrets \subseteq Secret
      /\ created \in Nat
      /\ saiCache \subseteq ServiceAccountImport
      /\ Reconciling => sai \in ServiceAccountImport
  BY DEF TypeOK, StoreTypeOK, CacheTypeOK, WorkerTypeOK, Reconciling
<1>2. UNCHANGED <<saiCache, pc, sai>>
  OBVIOUS
<1>3. ASSUME NEW i \in Imports, NEW a \in Accounts, CreateImport(i, a)
      PROVE  SpecsRequested' /\ RequestedCredentialsOnly'
  <2>. DEFINE o == [name |-> i, uid |-> created + 1, rv |-> 0, spec |-> a,
                    secrets |-> <<>>]
  <2>1. o \in ServiceAccountImport /\ o.spec = a /\ o.name = i
    BY <1>1 DEF ServiceAccountImport
  <2>2. /\ requested' \in [Imports -> SUBSET Accounts]
        /\ \A j \in Imports : requested[j] \subseteq requested'[j]
        /\ a \in requested'[i]
    BY <1>1, <1>3 DEF CreateImport
  <2>3. StoreImport(o)
    BY <1>3 DEF CreateImport
  <2>. HIDE DEF o
  <2>4. \A p \in sais' \union {e.obj : e \in ToSet(saiEvents')} :
            p.spec \in requested'[p.name]
    BY <2>1, <2>2, <2>3, StoreImportRequested
  <2>5. \A p \in saiCache \union (IF Reconciling THEN {sai} ELSE {}) :
            p.spec \in requested'[p.name]
    BY <1>1, <2>2 DEF SpecsRequested, ImportCopies, ServiceAccountImport
  <2>6. SpecsRequested'
    BY <1>2, <2>4, <2>5 DEF SpecsRequested, ImportCopies, Reconciling
  <2>7. RequestedCredentialsOnly'
    BY <1>1, <2>2, <2>3 DEF StoreImport, RequestedCredentialsOnly, Secret
  <2>. QED  BY <2>6, <2>7
<1>4. ASSUME NEW o \in sais, NEW a \in Accounts, EditSpec(o, a)
      PROVE  SpecsRequested' /\ RequestedCredentialsOnly'
  <2>. DEFINE n == [o EXCEPT !.spec = a]
  <2>1. n \in ServiceAccountImport /\ n.spec = a /\ n.name = o.name
    BY <1>1 DEF ServiceAccountImport
  <2>2. /\ requested' \in [Imports -> SUBSET Accounts]
        /\ \A j \in Imports : requested[j] \subseteq requested'[j]
        /\ a \in requested'[o.name]
    BY <1>1, <1>4 DEF EditSpec, ServiceAccountImport
  <2>3. StoreImport(n)
    BY <1>4 DEF EditSpec
  <2>. HIDE DEF n
  <2>4. \A p \in sais' \union {e.obj : e \in ToSet(saiEvents')} :
            p.spec \in requested'[p.name]
    BY <2>1, <2>2, <2>3, StoreImportRequested
  <2>5. \A p \in saiCache \union (IF Reconciling THEN {sai} ELSE {}) :
            p.spec \in requested'[p.name]
    BY <1>1, <2>2 DEF SpecsRequested, ImportCopies, ServiceAccountImport
  <2>6. SpecsRequested'
    BY <1>2, <2>4, <2>5 DEF SpecsRequested, ImportCopies, Reconciling
  <2>7. RequestedCredentialsOnly'
    BY <1>1, <2>2, <2>3 DEF StoreImport, RequestedCredentialsOnly, Secret
  <2>. QED  BY <2>6, <2>7
<1>5. ASSUME NEW o \in sais, DeleteImport(o)
      PROVE  SpecsRequested' /\ RequestedCredentialsOnly'
  <2>1. [type |-> "delete", obj |-> o] \in Event(ServiceAccountImport)
    BY <1>1 DEF Event
  <2>2. ToSet(saiEvents') =
            ToSet(saiEvents) \union {[type |-> "delete", obj |-> o]}
    BY <1>5, <2>1, AppendToSet DEF DeleteImport, TypeOK, StoreTypeOK
  <2>. QED  BY <1>2, <1>5, <2>2 DEF DeleteImport, SpecsRequested, ImportCopies,
                                    Reconciling, RequestedCredentialsOnly
<1>6. ASSUME NEW s \in secrets, DeleteSecretByHand(s) \/ CollectGarbage(s)
      PROVE  SpecsRequested' /\ RequestedCredentialsOnly'
  BY <1>2, <1>6 DEF DeleteSecretByHand, CollectGarbage, RemoveSecret, Drop,
                    SpecsRequested, ImportCopies, Reconciling,
                    RequestedCredentialsOnly
<1>. QED  BY <1>3, <1>4, <1>5, <1>6

LEMMA SourceOwned ==
    ASSUME TypeOK, TokensOwned, UseSource \/ Forget
    PROVE  TokensOwned'
  BY TokensStayOwned DEF UseSource, Forget, TypeOK

LEMMA SpecsKept ==
    ASSUME SpecsRequested, UNCHANGED <<sais, saiCache, saiEvents, requested>>,
           Reconciling' => (Reconciling /\ sai' = sai) \/ sai' \in saiCache
    PROVE  SpecsRequested'
  BY DEF SpecsRequested, ImportCopies

LEMMA CredentialsKept ==
    ASSUME RequestedCredentialsOnly, secrets' \subseteq secrets,
           UNCHANGED requested
    PROVE  RequestedCredentialsOnly'
  BY DEF RequestedCredentialsOnly

(* Reading from the caches.                                                *)
LEMMA ReadCachesInv ==
    ASSUME CredentialsInv, GetImport \/ ListSecrets
    PROVE  Provenance' /\ RequestedCredentialsOnly'
<1>1. /\ UNCHANGED <<created, sais, secrets, saiEvents, secretEvents, requested,
                     refs, saiCache, secretCache>>
  BY DEF GetImport, ListSecrets, storeVars, sourceVars, cacheVars
<1>2. TokensOwned' /\ RequestedCredentialsOnly'
  BY <1>1 DEF CredentialsInv, Provenance, TokensOwned, RequestedCredentialsOnly
<1>3. CASE GetImport
  <2>1. CASE Finish
    BY <1>1, <1>2, <2>1, OutcomesOwned, SpecsKept DEF CredentialsInv, Provenance
  <2>2. CASE \E o \in saiCache :
                /\ o.name = req
                /\ sai' = o
                /\ pc' = "list"
                /\ UNCHANGED <<dirty, req, osl, remaining, dss, osm, os>>
    <3>1. SpecsRequested'
      BY <1>1, <2>2, SpecsKept DEF CredentialsInv, Provenance
    <3>2. ~Reconciling /\ Reconciling'
      BY <1>3, <2>2 DEF GetImport, Reconciling
    <3>3. LocalsOwned'
      BY <2>2, <3>2, EmptyToSet DEF CredentialsInv, Provenance, LocalsOwned
    <3>. QED  BY <1>2, <3>1, <3>3 DEF Provenance
  <2>. QED  BY <1>2, <1>3, <2>1, <2>2 DEF GetImport, Provenance
<1>4. CASE ListSecrets
  <2>1. /\ Reconciling /\ Reconciling'
        /\ UNCHANGED <<req, sai, remaining, dss, osm, os>>
    BY <1>4 DEF ListSecrets, Reconciling
  <2>2. SpecsRequested'
    BY <1>1, <2>1, SpecsKept DEF CredentialsInv, Provenance
  <2>3. IsFiniteSet(Selected)
    BY FS_Subset DEF Selected, CredentialsInv, TypeOK, CacheTypeOK
  <2>4. ToSet(osl') \subseteq Selected
    BY <1>4, <2>3, SetToSeqsType, ToSetType DEF ListSecrets
  <2>5. \A s \in ToSet(osl') : s.import = req
    BY <2>1, <2>4 DEF Selected, CredentialsInv, Provenance, LocalsOwned
  <2>6. LocalsOwned'
    BY <2>1, <2>5 DEF CredentialsInv, Provenance, LocalsOwned
  <2>. QED  BY <1>2, <2>2, <2>6 DEF Provenance
<1>. QED  BY <1>3, <1>4

(* The update of the status.                                               *)
LEMMA UpdateStatusInv ==
    ASSUME CredentialsInv, UpdateStatus
    PROVE  Provenance' /\ RequestedCredentialsOnly'
<1>1. /\ Reconciling
      /\ sai \in ServiceAccountImport /\ sai.spec \in requested[sai.name]
      /\ requested \in [Imports -> SUBSET Accounts]
  BY DEF UpdateStatus, Reconciling, CredentialsInv, TypeOK, StoreTypeOK,
         WorkerTypeOK, Provenance, SpecsRequested, ImportCopies
<1>2. /\ UNCHANGED <<refs, saiCache>>
  BY DEF UpdateStatus, sourceVars, cacheVars
<1>3. TokensOwned'
  BY <1>2 DEF CredentialsInv, Provenance, TokensOwned
<1>4. /\ NewImport \in ServiceAccountImport
      /\ NewImport.spec = sai.spec /\ NewImport.name = sai.name
  BY <1>1, NamesOfType DEF NewImport, ServiceAccountImport, CredentialsInv,
                           TypeOK, WorkerTypeOK
<1>5. /\ Stored(NewImport).spec = sai.spec /\ Stored(NewImport).name = sai.name
  BY <1>4 DEF Stored, ServiceAccountImport
<1>6. UNCHANGED requested /\ secrets' = secrets
  BY DEF UpdateStatus, StoreStatus, StoreImport, FailCall, storeVars
<1>7. \A p \in sais' \union {e.obj : e \in ToSet(saiEvents')} :
          p.spec \in requested'[p.name]
  <2>1. CASE StoreStatus
    BY <1>1, <1>4, <1>6, <2>1, StoreImportRequested
       DEF StoreStatus, CredentialsInv, Provenance
  <2>2. CASE UNCHANGED storeVars
    BY <2>2 DEF storeVars, CredentialsInv, Provenance, SpecsRequested, ImportCopies
  <2>. QED  BY <2>1, <2>2 DEF UpdateStatus, FailCall
<1>8. \A p \in saiCache' : p.spec \in requested'[p.name]
  BY <1>2, <1>6 DEF CredentialsInv, Provenance, SpecsRequested, ImportCopies
<1>9. LocalsOwned' /\ (Reconciling' => sai'.spec \in requested'[sai'.name])
  <2>1. CASE Requeue
    BY <2>1, OutcomesOwned
  <2>2. CASE /\ sai' = Stored(NewImport)
             /\ pc' = "account"
             /\ UNCHANGED <<dirty, req, osl, remaining, dss, osm, os, faults>>
    <3>1. Reconciling'
      BY <2>2 DEF Reconciling
    <3>. QED  BY <1>1, <1>5, <1>6, <2>2, <3>1
              DEF CredentialsInv, Provenance, LocalsOwned
  <2>. QED  BY <2>1, <2>2 DEF UpdateStatus, FailCall
<1>10. SpecsRequested'
  BY <1>7, <1>8, <1>9 DEF SpecsRequested, ImportCopies
<1>. QED  BY <1>3, <1>6, <1>9, <1>10, CredentialsKept DEF CredentialsInv, Provenance

(* Taking the observed secrets into the map.                               *)
LEMMA MapObservedOwned ==
    ASSUME osl \in Seq(Secret), \A s \in ToSet(osl) : s.import = req, MapObserved
    PROVE  osl' = <<>> /\ (osm' # {} => os'.import = req) /\ pc' = "apply"
<1>1. osm' # {} => os' \in ToSet(osl)
  BY LastToSet, EmptyToSet DEF MapObserved
<1>. QED  BY <1>1 DEF MapObserved

(* Reading from the source cluster.                                        *)
LEMMA ReadSourceInv ==
    ASSUME CredentialsInv, GetAccount \/ GetToken
    PROVE  Provenance' /\ RequestedCredentialsOnly'
<1>1. /\ UNCHANGED <<created, sais, secrets, saiEvents, secretEvents, requested,
                     refs, tokens, saiCache, secretCache>>
  BY DEF GetAccount, GetToken, storeVars, sourceVars, cacheVars
<1>2. TokensOwned' /\ RequestedCredentialsOnly'
  BY <1>1 DEF CredentialsInv, Provenance, TokensOwned, RequestedCredentialsOnly
<1>3. /\ Reconciling /\ sai.name = req
      /\ sai \in ServiceAccountImport /\ sai.spec \in Accounts
      /\ osl \in Seq(Secret) /\ dss \in Seq(Secret) /\ remaining \in Seq(Token)
  BY DEF GetAccount, GetToken, Reconciling, CredentialsInv, TypeOK, WorkerTypeOK,
         ServiceAccountImport, Provenance, LocalsOwned
<1>4. CASE Requeue
  BY <1>1, <1>2, <1>4, OutcomesOwned, SpecsKept DEF CredentialsInv, Provenance
<1>5. CASE /\ GetAccount
           /\ remaining' = refs[sai.spec]
           /\ IF remaining' = <<>>
                 THEN MapObserved
                 ELSE pc' = "token" /\ UNCHANGED <<osl, osm, os>>
           /\ UNCHANGED <<dirty, req, sai, dss, faults>>
  <2>1. Reconciling'
    BY <1>5 DEF MapObserved, Reconciling
  <2>2. \A t \in ToSet(remaining') : t.account = sai.spec
    BY <1>3, <1>5 DEF CredentialsInv, Provenance, TokensOwned
  <2>3. \A s \in ToSet(osl) : s.import = req
    BY DEF CredentialsInv, Provenance, LocalsOwned
  <2>4. /\ \A s \in ToSet(osl') : s.import = req
        /\ osm' # {} => os'.import = req
    <3>1. CASE MapObserved
      BY <1>3, <2>3, <3>1, MapObservedOwned, EmptyToSet
    <3>2. CASE UNCHANGED <<osl, osm, os>>
      BY <2>3, <3>2 DEF CredentialsInv, Provenance, LocalsOwned
    <3>. QED  BY <1>5, <3>1, <3>2
  <2>5. LocalsOwned'
    BY <1>3, <1>5, <2>1, <2>2, <2>4 DEF CredentialsInv, Provenance, LocalsOwned
  <2>. QED  BY <1>1, <1>2, <1>3, <1>5, <2>5, SpecsKept DEF CredentialsInv, Provenance
<1>6. CASE /\ GetToken
           /\ dss' = IF Head(remaining) \in tokens
                        THEN Append(dss, MakeServiceAccountImportSecret(
                                             sai, Head(remaining)))
                        ELSE dss
           /\ remaining' = Tail(remaining)
           /\ IF remaining' = <<>>
                 THEN MapObserved
                 ELSE UNCHANGED <<pc, osl, osm, os>>
           /\ UNCHANGED <<dirty, req, sai, faults>>
  <2>1. Reconciling'
    BY <1>3, <1>6 DEF MapObserved, Reconciling
  <2>2. remaining # <<>>
    BY <1>6 DEF GetToken, CredentialsInv, TypeOK, WorkerTypeOK
  <2>3. /\ Head(remaining) \in Token /\ Head(remaining) \in ToSet(remaining)
        /\ ToSet(remaining') \subseteq ToSet(remaining)
    BY <1>3, <1>6, <2>2, HeadTailToSet
  <2>4. \A t \in ToSet(remaining) : t.account = sai.spec
    BY DEF CredentialsInv, Provenance, LocalsOwned
  <2>5. \A s \in ToSet(dss') : s.import = req /\ s.data.account = sai.spec
    <3>. DEFINE d == MakeServiceAccountImportSecret(sai, Head(remaining))
    <3>1. d \in Secret
      BY <1>3, <2>3, MakeSecretType
    <3>2. d.import = req /\ d.data.account = sai.spec
      BY <1>3, <2>3, <2>4 DEF MakeServiceAccountImportSecret,
                              ExportServiceAccountSecret
    <3>. HIDE DEF d
    <3>3. ToSet(dss') \subseteq ToSet(dss) \union {d}
      BY <1>3, <1>6, <3>1, AppendToSet DEF d
    <3>. QED  BY <3>2, <3>3 DEF CredentialsInv, Provenance, LocalsOwned
  <2>6. \A s \in ToSet(osl) : s.import = req
    BY DEF CredentialsInv, Provenance, LocalsOwned
  <2>7. /\ \A s \in ToSet(osl') : s.import = req
        /\ osm' # {} => os'.import = req
    <3>1. CASE MapObserved
      BY <1>3, <2>6, <3>1, MapObservedOwned, EmptyToSet
    <3>2. CASE UNCHANGED <<osl, osm, os>>
      BY <2>6, <3>2 DEF CredentialsInv, Provenance, LocalsOwned
    <3>. QED  BY <1>6, <3>1, <3>2
  <2>8. LocalsOwned'
    BY <1>3, <1>6, <2>1, <2>3, <2>4, <2>5, <2>7 DEF LocalsOwned
  <2>. QED  BY <1>1, <1>2, <1>3, <1>6, <2>8, SpecsKept DEF CredentialsInv, Provenance
<1>. QED  BY <1>4, <1>5, <1>6 DEF GetAccount, GetToken

(* The steps that compare the desired and the observed secrets.  The one   *)
(* that matters is the update: the secret it overwrites and the desired    *)
(* secret whose data it takes are both of the import in hand.              *)
LEMMA NextDesiredOwned ==
    ASSUME CredentialsInv, pc = "apply", dss # <<>>, NextDesired,
           osm' # {} => os'.import = req
    PROVE  LocalsOwned' /\ Reconciling'
<1>1. ToSet(dss') \subseteq ToSet(dss)
  BY HeadTailToSet DEF NextDesired, CredentialsInv, TypeOK, WorkerTypeOK
<1>. QED  BY <1>1 DEF NextDesired, CredentialsInv, Provenance, LocalsOwned,
                      Reconciling

LEMMA StoreSecretRequested ==
    ASSUME RequestedCredentialsOnly, NEW s \in Secret, StoreSecret(s),
           s.data.account \in requested[s.import]
    PROVE  RequestedCredentialsOnly'
<1>1. Stored(s).data = s.data /\ Stored(s).import = s.import
  BY DEF Stored, Secret
<1>2. secrets' \subseteq secrets \union {Stored(s)} /\ requested' = requested
  BY DEF StoreSecret, Put
<1>. QED  BY <1>1, <1>2 DEF RequestedCredentialsOnly

LEMMA ApplyStepsInv ==
    ASSUME CredentialsInv,
           CreateSecret \/ UpdateSecret \/ KeepSecret \/ DeleteSecret
               \/ FinishReconcile
    PROVE  Provenance' /\ RequestedCredentialsOnly'
<1>1. /\ UNCHANGED <<sais, saiEvents, requested, refs, saiCache>>
  BY DEF CreateSecret, UpdateSecret, KeepSecret, DeleteSecret, FinishReconcile,
         StoreNewSecret, StoreData, StoreSecret, RemoveSecret, FailCall,
         storeVars, sourceVars, cacheVars
<1>2. TokensOwned'
  BY <1>1 DEF CredentialsInv, Provenance, TokensOwned
<1>3. /\ Reconciling /\ pc = "apply" /\ sai.name = req
      /\ sai \in ServiceAccountImport /\ sai.spec \in requested[sai.name]
  BY DEF CreateSecret, UpdateSecret, KeepSecret, DeleteSecret, FinishReconcile,
         Reconciling, CredentialsInv, TypeOK, WorkerTypeOK, Provenance,
         LocalsOwned, SpecsRequested, ImportCopies
<1>4. /\ dss # <<>> => /\ Head(dss) \in Secret
                       /\ Head(dss).import = req
                       /\ Head(dss).data.account \in requested[req]
      /\ osm # {} => os \in Secret /\ os.import = req
      /\ created \in Nat
  BY <1>3, HeadTailToSet DEF CredentialsInv, TypeOK, StoreTypeOK, WorkerTypeOK,
                             Provenance, LocalsOwned
<1>5. ASSUME LocalsOwned', Reconciling', sai' = sai
      PROVE  Provenance'
  BY <1>1, <1>2, <1>3, <1>5, SpecsKept DEF CredentialsInv, Provenance
<1>6. CASE CreateSecret
  <2>1. RequestedCredentialsOnly'
    <3>1. CASE StoreNewSecret
      <4>. DEFINE s == [Head(dss) EXCEPT !.name = created + 1]
      <4>1. s \in Secret /\ s.import = req /\ s.data = Head(dss).data
        BY <1>4, <1>6, NamedSecretType DEF CreateSecret, Secret
      <4>2. StoreSecret(s)
        BY <3>1 DEF StoreNewSecret
      <4>. HIDE DEF s
      <4>. QED  BY <1>4, <1>6, <4>1, <4>2, StoreSecretRequested
                DEF CreateSecret, CredentialsInv
    <3>2. CASE UNCHANGED storeVars
      BY <3>2, CredentialsKept DEF storeVars, CredentialsInv
    <3>. QED  BY <1>6, <3>1, <3>2 DEF CreateSecret, FailCall
  <2>2. CASE NextDesired /\ UNCHANGED os
    <3>1. LocalsOwned' /\ Reconciling' /\ sai' = sai
      BY <1>3, <1>4, <1>6, <2>2, NextDesiredOwned DEF CreateSecret, NextDesired
    <3>. QED  BY <1>5, <2>1, <3>1
  <2>3. CASE Requeue
    BY <1>1, <1>2, <2>1, <2>3, OutcomesOwned, SpecsKept
       DEF CredentialsInv, Provenance
  <2>. QED  BY <1>6, <2>2, <2>3 DEF CreateSecret, FailCall
<1>7. CASE UpdateSecret
  <2>1. os \in Secret /\ os.import = req /\ Head(dss) \in Secret
    BY <1>4, <1>7 DEF UpdateSecret
  <2>2. /\ NewSecret \in Secret
        /\ NewSecret.import = req /\ NewSecret.data = Head(dss).data
    BY <2>1 DEF NewSecret, Secret
  <2>3. Stored(NewSecret).import = req
    BY <2>2 DEF Stored, Secret
  <2>4. RequestedCredentialsOnly'
    <3>1. CASE StoreData
      BY <1>4, <1>7, <2>2, <3>1, StoreSecretRequested
         DEF UpdateSecret, StoreData, CredentialsInv
    <3>2. CASE UNCHANGED storeVars
      BY <3>2, CredentialsKept DEF storeVars, CredentialsInv
    <3>. QED  BY <1>7, <3>1, <3>2 DEF UpdateSecret, FailCall
  <2>5. CASE NextDesired /\ os' = Stored(NewSecret)
    <3>1. LocalsOwned' /\ Reconciling' /\ sai' = sai
      BY <1>3, <1>7, <2>3, <2>5, NextDesiredOwned DEF UpdateSecret, NextDesired
    <3>. QED  BY <1>5, <2>4, <3>1
  <2>6. CASE Requeue
    BY <1>1, <1>2, <2>4, <2>6, OutcomesOwned, SpecsKept
       DEF CredentialsInv, Provenance
  <2>. QED  BY <1>7, <2>5, <2>6 DEF UpdateSecret, FailCall
<1>8. CASE KeepSecret
  <2>1. LocalsOwned' /\ Reconciling' /\ sai' = sai
    BY <1>3, <1>4, <1>8, NextDesiredOwned DEF KeepSecret, NextDesired
  <2>. QED  BY <1>5, <1>8, <2>1, CredentialsKept
            DEF KeepSecret, storeVars, CredentialsInv
<1>9. CASE DeleteSecret
  <2>1. RequestedCredentialsOnly'
    BY <1>9, CredentialsKept DEF DeleteSecret, RemoveSecret, Drop, FailCall,
                                  storeVars, CredentialsInv
  <2>2. CASE /\ \E key \in osm : osm' = osm \ {key}
             /\ UNCHANGED <<pc, dirty, req, sai, osl, remaining, dss, os, faults>>
    BY <1>3, <1>5, <2>1, <2>2 DEF CredentialsInv, Provenance, LocalsOwned,
                                  Reconciling
  <2>3. CASE Requeue
    BY <1>1, <1>2, <2>1, <2>3, OutcomesOwned, SpecsKept
       DEF CredentialsInv, Provenance
  <2>. QED  BY <1>9, <2>2, <2>3 DEF DeleteSecret, FailCall
<1>10. CASE FinishReconcile
  <2>1. RequestedCredentialsOnly'
    BY <1>10, CredentialsKept DEF FinishReconcile, storeVars, CredentialsInv
  <2>. QED  BY <1>1, <1>2, <1>10, <2>1, OutcomesOwned, SpecsKept
            DEF FinishReconcile, CredentialsInv, Provenance
<1>. QED  BY <1>6, <1>7, <1>8, <1>9, <1>10

(* Starting, stopping, and the events.                                     *)
LEMMA ControllerInv ==
    ASSUME CredentialsInv,
           \/ Start \/ Crash \/ HandleImportEvent \/ HandleSecretEvent \/ Resync
           \/ \E i \in Imports : TakeRequest(i)
    PROVE  Provenance' /\ RequestedCredentialsOnly'
<1>1. UNCHANGED <<sais, secrets, requested, refs>>
  BY DEF Start, Crash, Die, HandleImportEvent, HandleSecretEvent, Resync, TakeRequest,
         storeVars, sourceVars
<1>2. TokensOwned' /\ RequestedCredentialsOnly'
  BY <1>1 DEF CredentialsInv, Provenance, TokensOwned, RequestedCredentialsOnly
<1>3. CASE Start
  <2>1. LocalsOwned' /\ ~Reconciling'
    BY <1>3, EmptyToSet DEF Start, localVars, Reconciling, CredentialsInv,
                            Provenance, LocalsOwned
  <2>2. SpecsRequested'
    BY <1>1, <1>3, <2>1, EmptyToSet DEF Start, CredentialsInv, Provenance,
                                        SpecsRequested, ImportCopies
  <2>. QED  BY <1>2, <2>1, <2>2 DEF Provenance
<1>4. CASE Crash
  <2>1. LocalsOwned' /\ ~Reconciling'
    BY <1>4, ClearedOwned DEF Crash, Die
  <2>2. SpecsRequested'
    BY <1>1, <1>4, <2>1, EmptyToSet DEF Crash, Die, CredentialsInv, Provenance,
                                        SpecsRequested, ImportCopies
  <2>. QED  BY <1>2, <2>1, <2>2 DEF Provenance
<1>5. CASE HandleImportEvent
  <2>1. /\ Head(saiEvents) \in ToSet(saiEvents)
        /\ ToSet(Tail(saiEvents)) \subseteq ToSet(saiEvents)
    BY <1>5, HeadTailToSet DEF HandleImportEvent, CredentialsInv, TypeOK,
                               StoreTypeOK
  <2>2. saiCache' \subseteq saiCache \union {Head(saiEvents).obj}
    BY <1>5 DEF HandleImportEvent, Apply, Put, Drop
  <2>3. UNCHANGED <<localVars, pc>>
    BY <1>5 DEF HandleImportEvent
  <2>4. SpecsRequested'
    BY <1>1, <1>5, <2>1, <2>2, <2>3
       DEF HandleImportEvent, localVars, CredentialsInv, Provenance,
           SpecsRequested, ImportCopies, Reconciling
  <2>5. LocalsOwned'
    BY <2>3 DEF localVars, CredentialsInv, Provenance, LocalsOwned, Reconciling
  <2>. QED  BY <1>2, <2>4, <2>5 DEF Provenance
<1>6. CASE HandleSecretEvent \/ Resync
  <2>1. UNCHANGED <<saiCache, saiEvents, localVars, pc>>
    BY <1>6 DEF HandleSecretEvent, Resync, storeVars, cacheVars
  <2>. QED  BY <1>1, <1>2, <2>1
            DEF localVars, CredentialsInv, Provenance, SpecsRequested,
                ImportCopies, LocalsOwned, Reconciling
<1>7. CASE \E i \in Imports : TakeRequest(i)
  <2>1. /\ UNCHANGED <<saiCache, saiEvents, sai, osl, remaining, dss, osm, os>>
        /\ ~Reconciling /\ ~Reconciling'
    BY <1>7 DEF TakeRequest, storeVars, cacheVars, Reconciling
  <2>2. LocalsOwned'
    BY <2>1, EmptyToSet DEF CredentialsInv, Provenance, LocalsOwned
  <2>. QED  BY <1>1, <1>2, <2>1, <2>2, SpecsKept DEF CredentialsInv, Provenance
<1>. QED  BY <1>3, <1>4, <1>5, <1>6, <1>7

LEMMA EnvironmentInv ==
    ASSUME CredentialsInv, Prepare \/ UseTarget \/ UseSource \/ Collect \/ Forget
    PROVE  Provenance' /\ RequestedCredentialsOnly'
<1>1. UNCHANGED <<pc, localVars, saiCache>>
  BY DEF Prepare, UseTarget, UseSource, Collect, Forget, controllerVars, cacheVars
<1>2. LocalsOwned'
  BY <1>1 DEF localVars, CredentialsInv, Provenance, LocalsOwned, Reconciling
<1>3. CASE Prepare \/ UseTarget \/ Collect
  <2>1. TokensOwned'
    BY <1>3 DEF Prepare, UseTarget, Collect, sourceVars, CredentialsInv,
                Provenance, TokensOwned
  <2>2. UNCHANGED <<saiCache, pc, sai>>
    BY <1>1 DEF localVars
  <2>3. SpecsRequested' /\ RequestedCredentialsOnly'
    BY <1>3, <2>2, UsersRequested
       DEF Prepare, UseTarget, Collect, CredentialsInv, Provenance
  <2>. QED  BY <1>2, <2>1, <2>3 DEF Provenance
<1>4. CASE UseSource \/ Forget
  <2>1. UNCHANGED storeVars
    BY <1>4 DEF UseSource, Forget
  <2>2. SpecsRequested' /\ RequestedCredentialsOnly'
    BY <1>1, <2>1 DEF storeVars, localVars, CredentialsInv, Provenance,
                      SpecsRequested, ImportCopies, Reconciling,
                      RequestedCredentialsOnly
  <2>. QED  BY <1>2, <1>4, <2>2, SourceOwned DEF CredentialsInv, Provenance
<1>. QED  BY <1>3, <1>4

LEMMA CredentialsInit == Init => CredentialsInv
<1>. SUFFICES ASSUME Init PROVE CredentialsInv
  OBVIOUS
<1>1. LocalsOwned /\ ~Reconciling
  BY EmptyToSet DEF Init, LocalsOwned, Reconciling
<1>2. SpecsRequested /\ RequestedCredentialsOnly
  BY <1>1, EmptyToSet DEF Init, StoreInit, SpecsRequested, ImportCopies,
                          RequestedCredentialsOnly
<1>3. ASSUME NEW a \in Accounts, NEW t \in ToSet(refs[a])
      PROVE  t.account = a
  <2>1. refs[a] = [n \in 1..InitialTokens |-> TokenOf(a, n)]
    BY DEF Init, SourceInit
  <2>. QED  BY <2>1 DEF ToSet, TokenOf
<1>. QED  BY <1>1, <1>2, <1>3, InitType DEF CredentialsInv, Provenance,
                                            TokensOwned

LEMMA CredentialsStep ==
    ASSUME CredentialsInv, [Next]_vars
    PROVE  CredentialsInv'
<1>1. TypeOK'
  BY TypeStep DEF CredentialsInv
<1>2. SUFFICES Provenance' /\ RequestedCredentialsOnly'
  BY <1>1 DEF CredentialsInv
<1>3. CASE Reconcile
  BY <1>3, ReadCachesInv, UpdateStatusInv, ReadSourceInv, ApplyStepsInv
     DEF Reconcile
<1>4. CASE UNCHANGED vars
  BY <1>4 DEF vars, storeVars, sourceVars, cacheVars, localVars, CredentialsInv,
              Provenance, SpecsRequested, ImportCopies, TokensOwned,
              LocalsOwned, Reconciling, RequestedCredentialsOnly
<1>. QED  BY <1>3, <1>4, ControllerInv, EnvironmentInv DEF Next, Others

LEMMA CredentialsInductive == Spec => []CredentialsInv
<1>1. CredentialsInv /\ [Next]_vars => CredentialsInv'
  BY CredentialsStep
<1>. QED  BY <1>1, CredentialsInit, PTL DEF Spec

(* Everything the worker has in its hands is of the import it reconciles.  *)
THEOREM ProvenanceHolds == Spec => []Provenance
  BY CredentialsInductive, PTL DEF CredentialsInv

(* No imported secret ever holds a token of an account its import did not  *)
(* ask for, however stale the caches are, whatever fails and whenever the  *)
(* controller restarts.                                                    *)
THEOREM RequestedCredentials == Spec => []RequestedCredentialsOnly
  BY CredentialsInductive, PTL DEF CredentialsInv
=============================================================================
