------------------------- MODULE InstallationProofs -------------------------
(***************************************************************************)
(* Proofs about a whole target cluster: for any number of clusters,        *)
(* imports, pods and faults, what goes from a status through the webhook   *)
(* into a pod, and from the controller's pod into its clients, is what was *)
(* asked for.                                                              *)
(***************************************************************************)
EXTENDS Installation, IdentityProofs

-----------------------------------------------------------------------------
(* The target cluster.  Bootstraps, pods and refused calls add steps to    *)
(* those of the importer, which keep its invariant as well.                *)

RequestsKept == \A i \in Imports : requested[i] \subseteq requested'[i]

TargetStep == IdentityInv' /\ NamesStep /\ VersionsStep /\ RequestsKept

(* What IdentityInv' takes, part by part.                                  *)
LEMMA TargetStepOf ==
    ASSUME IdentityInv, TypeOK', Provenance', RequestedCredentialsOnly',
           NamesStep, VersionsStep, RequestsKept
    PROVE  TargetStep
<1>1. TypeOK /\ NamesIdentify /\ VersionsIdentify
  BY DEF IdentityInv, CredentialsInv
<1>2. NamesIdentify'
  BY <1>1, NamesIdentifyKept DEF NamesStep
<1>3. VersionsIdentify'
  BY <1>1, VersionsIdentifyKept
<1>. QED  BY <1>2, <1>3 DEF TargetStep, IdentityInv, CredentialsInv

LEMMA UsersRequests ==
    ASSUME TypeOK
    PROVE  /\ \A i \in Imports, a \in Accounts : CreateImport(i, a) => RequestsKept
           /\ \A o \in sais, a \in Accounts : EditSpec(o, a) => RequestsKept
<1>1. /\ requested \in [Imports -> SUBSET Accounts]
      /\ \A o \in sais : o.name \in Imports
  BY DEF TypeOK, StoreTypeOK, ServiceAccountImport
<1>. QED  BY <1>1 DEF CreateImport, EditSpec, RequestsKept

(* The importer's own steps.                                               *)
LEMMA ImporterStep ==
    ASSUME IdentityInv, [Next]_vars
    PROVE  TargetStep
<1>1. IdentityInv' /\ NamesStep /\ VersionsStep
  BY IdentityStep, NamesStepped, VersionsStepped
<1>2. TypeOK
  BY DEF IdentityInv, CredentialsInv
<1>3. Prepare \/ UseTarget => RequestsKept
  BY <1>2, UsersRequests DEF Prepare, UseTarget, DeleteImport,
     DeleteSecretByHand, RemoveSecret, RequestsKept
<1>4. UNCHANGED requested => RequestsKept
  BY DEF RequestsKept
<1>5. Reconcile => UNCHANGED requested
  BY ReconcileNames
<1>6. \/ Start \/ Crash \/ HandleImportEvent \/ HandleSecretEvent \/ Resync
      \/ UseSource \/ Collect \/ Forget \/ (\E i \in Imports : TakeRequest(i))
      \/ UNCHANGED vars
      => UNCHANGED requested
  BY DEF Start, Crash, HandleImportEvent, HandleSecretEvent, Resync, UseSource,
         Collect, CollectGarbage, RemoveSecret, Forget, TakeRequest, vars, storeVars
<1>7. RequestsKept
  BY <1>3, <1>4, <1>5, <1>6 DEF Next, Others
<1>. QED  BY <1>1, <1>7 DEF TargetStep

(* A bootstrap, or a user, makes an import of a name that is free.         *)
LEMMA MadeImport ==
    ASSUME IdentityInv, NEW i \in Imports, NEW a \in Accounts, CreateImport(i, a),
           UNCHANGED <<sourceVars, controllerVars, editVars>>
    PROVE  TargetStep
<1>1. TypeOK /\ NamesIdentify /\ VersionsIdentify
  BY DEF IdentityInv, CredentialsInv
<1>2. /\ UNCHANGED <<accounts, refs, tokens, minted>>
      /\ UNCHANGED <<saiCache, secretCache, dirty, srcClients, pc, faults>>
      /\ UNCHANGED <<req, sai, osl, remaining, dss, osm, os, edits, sourceEdits>>
  BY DEF sourceVars, controllerVars, cacheVars, localVars, editVars
<1>3. TypeOK'
  <2>1. StoreTypeOK'
    BY <1>1, UsersType DEF TypeOK
  <2>. QED  BY <1>1, <1>2, <2>1 DEF TypeOK, SourceTypeOK, CacheTypeOK,
                                    WorkerTypeOK, CountersTypeOK
<1>4. Provenance' /\ RequestedCredentialsOnly'
  <2>1. SpecsRequested' /\ RequestedCredentialsOnly'
    BY <1>1, <1>2, UsersRequested DEF IdentityInv, CredentialsInv, Provenance
  <2>2. TokensOwned' /\ LocalsOwned'
    BY <1>2 DEF IdentityInv, CredentialsInv, Provenance, TokensOwned,
                LocalsOwned, Reconciling
  <2>. QED  BY <2>1, <2>2 DEF Provenance
<1>. QED  BY <1>1, <1>2, <1>3, <1>4, UsersNames, UsersVersions, UsersRequests,
             TargetStepOf

(* A bootstrap that finds its import there only asks for its account.      *)
LEMMA AccountAskedFor ==
    ASSUME IdentityInv, NEW i \in Imports, NEW a \in Accounts,
           requested' = [requested EXCEPT ![i] = @ \union {a}],
           UNCHANGED <<created, sais, secrets, saiEvents, secretEvents>>,
           UNCHANGED <<sourceVars, controllerVars, editVars>>
    PROVE  TargetStep
<1>1. /\ TypeOK /\ NamesIdentify /\ VersionsIdentify /\ Provenance
      /\ RequestedCredentialsOnly
      /\ requested \in [Imports -> SUBSET Accounts]
  BY DEF IdentityInv, CredentialsInv, TypeOK, StoreTypeOK
<1>2. /\ UNCHANGED <<accounts, refs, tokens, minted>>
      /\ UNCHANGED <<saiCache, secretCache, dirty, srcClients, pc, faults>>
      /\ UNCHANGED <<req, sai, osl, remaining, dss, osm, os, edits, sourceEdits>>
  BY DEF sourceVars, controllerVars, cacheVars, localVars, editVars
<1>3. /\ requested' \in [Imports -> SUBSET Accounts]
      /\ \A j \in Imports : requested[j] \subseteq requested'[j]
  BY <1>1
<1>4. TypeOK'
  BY <1>1, <1>2, <1>3 DEF TypeOK, StoreTypeOK, SourceTypeOK, CacheTypeOK,
                          WorkerTypeOK, CountersTypeOK
<1>5. Provenance'
  <2>1. ImportCopies' = ImportCopies /\ ImportCopies \subseteq ServiceAccountImport
    BY <1>1, <1>2, ImportCopiesType DEF ImportCopies, Reconciling
  <2>2. SpecsRequested'
    BY <1>1, <1>3, <2>1 DEF Provenance, SpecsRequested, ServiceAccountImport
  <2>. QED  BY <1>1, <1>2, <2>2 DEF Provenance, TokensOwned, LocalsOwned, Reconciling
<1>6. RequestedCredentialsOnly'
  BY <1>1, <1>3 DEF RequestedCredentialsOnly, TypeOK, StoreTypeOK, Secret
<1>7. NamesKept /\ ImportsKept
  BY <1>1, <1>2, SecretsUnchangedNames, ImportsUnchanged
<1>8. StatusesKept /\ SecretsCopied /\ ImportsCopied /\ RequestsKept
  BY <1>2, <1>3 DEF StatusesKept, SecretsCopied, SecretCopies, ImportsCopied,
                    ImportCopies, Reconciling, RequestsKept
<1>. QED  BY <1>4, <1>5, <1>6, <1>7, <1>8, TargetStepOf DEF NamesStep, VersionsStep

(* A bootstrap makes a secret with the token it has read before, named as  *)
(* no secret ever was, for the import that it made or found: that import   *)
(* may be gone, or name another account, by now.                           *)
LEMMA MadeSeedSecret ==
    ASSUME IdentityInv, NEW i \in Imports, NEW u \in Nat, NEW t \in Token,
           t.account \in requested[i],
           created' = created + 1,
           StoreSecret([MakeServiceAccountImportSecret([name |-> i, uid |-> u], t)
                            EXCEPT !.name = created + 1]),
           UNCHANGED <<sourceVars, controllerVars, editVars>>
    PROVE  TargetStep
<1>1. /\ TypeOK /\ NamesIdentify /\ VersionsIdentify /\ TokensOwned
      /\ LocalsOwned /\ RequestedCredentialsOnly /\ SpecsRequested
      /\ created \in Nat
  BY DEF IdentityInv, CredentialsInv, Provenance, TypeOK, StoreTypeOK
<1>2. /\ UNCHANGED <<accounts, refs, tokens, minted>>
      /\ UNCHANGED <<saiCache, secretCache, dirty, srcClients, pc, faults>>
      /\ UNCHANGED <<req, sai, osl, remaining, dss, osm, os, edits, sourceEdits>>
      /\ UNCHANGED <<sais, saiEvents, requested>>
  BY DEF sourceVars, controllerVars, cacheVars, localVars, editVars, StoreSecret
<1>3. PICK s \in Secret :
          /\ s = [MakeServiceAccountImportSecret([name |-> i, uid |-> u], t)
                     EXCEPT !.name = created + 1]
          /\ s.name = created + 1 /\ s.import = i /\ s.data = t
  BY <1>1 DEF MakeServiceAccountImportSecret, ExportServiceAccountSecret, NoUID,
              Secret
<1>4. StoreSecret(s)
  BY <1>3
<1>5. TypeOK'
  <2>1. StoreTypeOK'
    BY <1>1, <1>3, <1>4, StoreSecretType DEF TypeOK
  <2>. QED  BY <1>1, <1>2, <2>1 DEF TypeOK, SourceTypeOK, CacheTypeOK,
                                    WorkerTypeOK, CountersTypeOK
<1>6. RequestedCredentialsOnly'
  BY <1>1, <1>3, <1>4, StoreSecretRequested
<1>7. Provenance'
  BY <1>1, <1>2 DEF Provenance, SpecsRequested, ImportCopies, TokensOwned,
                    LocalsOwned, Reconciling
<1>8. /\ NamesKept
      /\ \A e \in ToSet(secretEvents') :
            e \in ToSet(secretEvents) \/ e.obj \in secrets'
  BY <1>1, <1>3, <1>4, StoreSecretNames
<1>9. SecretsCopied
  BY <1>2, <1>8, CopiedFrom DEF SecretCopies
<1>10. ImportsKept
  BY <1>1, <1>2, ImportsUnchanged
<1>11. StatusesKept /\ ImportsCopied /\ RequestsKept
  BY <1>2 DEF StatusesKept, ImportsCopied, ImportCopies, Reconciling, RequestsKept
<1>. QED  BY <1>5, <1>6, <1>7, <1>8, <1>9, <1>10, <1>11,
             TargetStepOf DEF NamesStep, VersionsStep

(* A pod that is deleted takes the controller's memory with it.            *)
LEMMA PodDeleted ==
    ASSUME IdentityInv, Die, faults' \in Nat,
           UNCHANGED <<created, sais, secrets, requested, sourceVars, editVars>>
    PROVE  TargetStep
<1>1. /\ TypeOK /\ SpecsRequested /\ TokensOwned /\ RequestedCredentialsOnly
      /\ UNCHANGED <<accounts, refs, tokens, minted, edits, sourceEdits>>
  BY DEF IdentityInv, CredentialsInv, Provenance, sourceVars, editVars
<1>2. WorkerTypeOK' /\ LocalsOwned' /\ ~Reconciling'
  BY ClearedType, ClearedOwned DEF Die
<1>3. TypeOK'
  BY <1>1, <1>2, EmptySeq, FS_EmptySet
     DEF Die, TypeOK, StoreTypeOK, SourceTypeOK, CacheTypeOK, CountersTypeOK
<1>4. Provenance' /\ RequestedCredentialsOnly'
  BY <1>1, <1>2, EmptyToSet
     DEF Die, Provenance, SpecsRequested, ImportCopies, TokensOwned,
         RequestedCredentialsOnly
<1>5. RequestsKept
  BY DEF RequestsKept
<1>. QED  BY <1>3, <1>4, <1>5, ControllerNames, ControllerVersions, TargetStepOf

(* A call that a source cluster refuses: the request is queued again.      *)
LEMMA CallRefused ==
    ASSUME IdentityInv, Busy, Requeue,
           UNCHANGED <<storeVars, sourceVars, cacheVars, srcClients, counters>>
    PROVE  TargetStep
<1>1. /\ TypeOK /\ NamesIdentify /\ VersionsIdentify /\ Provenance
      /\ RequestedCredentialsOnly
  BY DEF IdentityInv, CredentialsInv
<1>2. /\ UNCHANGED <<created, sais, secrets, saiEvents, secretEvents, requested>>
      /\ UNCHANGED <<accounts, refs, tokens, minted, saiCache, secretCache>>
      /\ UNCHANGED <<edits, sourceEdits, faults>>
  BY DEF storeVars, sourceVars, cacheVars, counters, editVars
<1>3. /\ WorkerTypeOK' /\ dirty' \subseteq Imports
      /\ LocalsOwned' /\ ~Reconciling'
  BY <1>1, OutcomesType, OutcomesOwned
<1>4. TypeOK'
  BY <1>1, <1>2, <1>3
     DEF TypeOK, StoreTypeOK, SourceTypeOK, CacheTypeOK, CountersTypeOK
<1>5. Provenance' /\ RequestedCredentialsOnly'
  BY <1>1, <1>2, <1>3
     DEF Provenance, SpecsRequested, ImportCopies, TokensOwned,
         RequestedCredentialsOnly
<1>6. SecretsCopied
  BY <1>2, ClearedCopies, CopiedFrom DEF Requeue, SecretCopies
<1>7. NamesKept /\ ImportsKept
  BY <1>1, <1>2, SecretsUnchangedNames, ImportsUnchanged
<1>8. StatusesKept /\ ImportsCopied /\ RequestsKept
  BY <1>2, <1>3 DEF StatusesKept, ImportsCopied, ImportCopies, RequestsKept
<1>. QED  BY <1>4, <1>5, <1>6, <1>7, <1>8, TargetStepOf DEF NamesStep, VersionsStep

(* A step beside the importer, of which at most the faults are counted.    *)
LEMMA BesideImporter ==
    ASSUME IdentityInv, faults' \in Nat,
           UNCHANGED <<storeVars, sourceVars, cacheVars, dirty, srcClients, pc,
                       localVars, editVars>>
    PROVE  TargetStep
<1>1. TypeOK /\ NamesIdentify /\ VersionsIdentify
  BY DEF IdentityInv, CredentialsInv
<1>2. /\ UNCHANGED <<created, sais, secrets, saiEvents, secretEvents, requested>>
      /\ UNCHANGED <<accounts, refs, tokens, minted, saiCache, secretCache>>
      /\ UNCHANGED <<req, sai, osl, remaining, dss, osm, os, edits, sourceEdits>>
  BY DEF storeVars, sourceVars, cacheVars, localVars, editVars
<1>3. TypeOK'
  BY <1>1, <1>2 DEF TypeOK, StoreTypeOK, SourceTypeOK, CacheTypeOK,
                    WorkerTypeOK, CountersTypeOK
<1>4. Provenance' /\ RequestedCredentialsOnly'
  BY <1>2 DEF IdentityInv, CredentialsInv, Provenance, SpecsRequested,
              ImportCopies, TokensOwned, LocalsOwned, Reconciling,
              RequestedCredentialsOnly
<1>5. NamesKept /\ ImportsKept
  BY <1>1, <1>2, SecretsUnchangedNames, ImportsUnchanged
<1>6. StatusesKept /\ SecretsCopied /\ ImportsCopied /\ RequestsKept
  BY <1>2 DEF StatusesKept, SecretsCopied, SecretCopies, ImportsCopied,
              ImportCopies, Reconciling, RequestsKept
<1>. QED  BY <1>3, <1>4, <1>5, <1>6, TargetStepOf DEF NamesStep, VersionsStep

-----------------------------------------------------------------------------
(* Bootstraps.  What one has read is a token of the controller's own       *)
(* account in its cluster, and before it writes that it has asked for the  *)
(* account, under the cluster's name.                                      *)

BootTypeOK ==
    /\ stage \in [Seeds -> {"token", "import", "secret", "adoption", "done"}]
    /\ fetched \in [Seeds -> Token \union {None}]
    /\ owner \in [Seeds -> Nat]
    /\ template \in Seq(Seeds)

BootOwned(c) ==
    /\ stage[c] \in {"import", "secret"} =>
          fetched[c] \in Token /\ fetched[c].account = Remote[c]
    /\ stage[c] = "secret" => Remote[c] \in requested[c]

BootInv == BootTypeOK /\ \A c \in Seeds : BootOwned(c)

LEMMA BootStays ==
    ASSUME BootInv, RequestsKept, UNCHANGED bootVars
    PROVE  BootInv'
<1>1. UNCHANGED <<stage, fetched, owner, template>>
  BY DEF bootVars, runVars
<1>2. \A c \in Seeds : requested[c] \subseteq requested'[c]
  BY InstallationAssumption DEF RequestsKept
<1>. QED  BY <1>1, <1>2 DEF BootInv, BootTypeOK, BootOwned

(* One bootstrap goes on, or starts again, and the others wait.            *)
LEMMA BootMoves ==
    ASSUME BootInv, RequestsKept, NEW c \in Seeds,
           NEW at \in {"token", "import", "secret", "adoption", "done"},
           NEW t \in Token \union {None}, NEW u \in Nat,
           stage' = [stage EXCEPT ![c] = at],
           fetched' = [fetched EXCEPT ![c] = t],
           owner' = [owner EXCEPT ![c] = u],
           template' \in Seq(Seeds),
           at \in {"import", "secret"} => t \in Token /\ t.account = Remote[c],
           at = "secret" => Remote[c] \in requested'[c]
    PROVE  BootInv'
<1>1. BootTypeOK /\ BootTypeOK'
  BY DEF BootInv, BootTypeOK
<1>2. /\ stage'[c] = at /\ fetched'[c] = t
      /\ \A d \in Seeds \ {c} : stage'[d] = stage[d] /\ fetched'[d] = fetched[d]
  BY <1>1 DEF BootTypeOK
<1>3. \A d \in Seeds : requested[d] \subseteq requested'[d]
  BY InstallationAssumption DEF RequestsKept
<1>4. \A d \in Seeds \ {c} : BootOwned(d)'
  BY <1>2, <1>3 DEF BootInv, BootOwned
<1>5. BootOwned(c)'
  BY <1>2 DEF BootOwned
<1>. QED  BY <1>1, <1>4, <1>5 DEF BootInv

LEMMA BootstrapMoves ==
    ASSUME IdentityInv, BootInv, RequestsKept, NEW c \in Seeds,
           Bootstrap(c) \/ Rerun(c)
    PROVE  BootInv'
<1>1. /\ stage \in [Seeds -> {"token", "import", "secret", "adoption", "done"}]
      /\ fetched \in [Seeds -> Token \union {None}] /\ owner \in [Seeds -> Nat]
      /\ template \in Seq(Seeds) /\ Append(template, c) \in Seq(Seeds)
      /\ fetched[c] \in Token \union {None} /\ owner[c] \in Nat /\ NoUID \in Nat
  BY AppendToSet DEF BootInv, BootTypeOK, NoUID
<1>2. fetched = [fetched EXCEPT ![c] = fetched[c]] /\ owner = [owner EXCEPT ![c] = owner[c]]
  BY <1>1
<1>3. CASE FetchToken(c)
  <2>1. /\ Remote[c] \in Accounts /\ refs[Remote[c]] \in Seq(Token)
        /\ refs[Remote[c]] # <<>>
    BY <1>3, InstallationAssumption
       DEF FetchToken, IdentityInv, CredentialsInv, TypeOK, SourceTypeOK
  <2>2. PICK t \in Token : t = Head(refs[Remote[c]]) /\ t.account = Remote[c]
    BY <2>1, HeadTailToSet DEF IdentityInv, CredentialsInv, Provenance, TokensOwned
  <2>3. /\ stage' = [stage EXCEPT ![c] = "import"]
        /\ fetched' = [fetched EXCEPT ![c] = t]
        /\ owner' = owner /\ template' = template
    BY <1>3, <2>2 DEF FetchToken, Advance
  <2>. QED  BY <1>1, <1>2, <2>2, <2>3, BootMoves
<1>4. CASE CreateSeed(c)
  <2>1. /\ c \in Imports /\ created \in Nat /\ sais \subseteq ServiceAccountImport
        /\ requested \in [Imports -> SUBSET Accounts]
    BY InstallationAssumption DEF IdentityInv, CredentialsInv, TypeOK, StoreTypeOK
  <2>2. /\ stage[c] = "import" /\ stage' = [stage EXCEPT ![c] = "secret"]
        /\ fetched' = fetched /\ template' = template
    BY <1>4 DEF CreateSeed, Advance
  <2>3. Remote[c] \in requested'[c]
    BY <1>4, <2>1 DEF CreateSeed, CreateImport
  <2>4. PICK u \in Nat : owner' = [owner EXCEPT ![c] = u]
    BY <1>4, <2>1 DEF CreateSeed, ServiceAccountImport
  <2>5. fetched[c] \in Token /\ fetched[c].account = Remote[c]
    BY <2>2 DEF BootInv, BootOwned
  <2>. QED  BY <1>1, <1>2, <2>2, <2>3, <2>4, <2>5, BootMoves
<1>5. CASE CreateSeedSecret(c) \/ Rerun(c)
  <2>1. \E at \in {"token", "adoption"} : stage' = [stage EXCEPT ![c] = at]
    BY <1>5 DEF CreateSeedSecret, Rerun, Advance
  <2>2. /\ fetched' = [fetched EXCEPT ![c] = None]
        /\ owner' = [owner EXCEPT ![c] = NoUID] /\ template' = template
    BY <1>5 DEF CreateSeedSecret, Rerun
  <2>. QED  BY <1>1, <2>1, <2>2, BootMoves
<1>6. CASE AnnounceSeed(c)
  <2>1. /\ stage' = [stage EXCEPT ![c] = "done"]
        /\ fetched' = [fetched EXCEPT ![c] = fetched[c]]
        /\ owner' = [owner EXCEPT ![c] = owner[c]]
    BY <1>2, <1>6 DEF AnnounceSeed, Advance
  <2>2. template' \in Seq(Seeds)
    BY <1>1, <1>6 DEF AnnounceSeed
  <2>. QED  BY <1>1, <2>1, <2>2, BootMoves
<1>. QED  BY <1>3, <1>4, <1>5, <1>6 DEF Bootstrap

-----------------------------------------------------------------------------
(* Every step, for the importer.                                           *)

LEMMA WholeStep ==
    ASSUME IdentityInv, BootInv, [InstallNext]_installVars
    PROVE  TargetStep
<1>1. faults \in Nat
  BY DEF IdentityInv, CredentialsInv, TypeOK, CountersTypeOK
<1>2. ASSUME UNCHANGED vars
      PROVE  TargetStep
  BY <1>2, ImporterStep
<1>3. ASSUME NEW c \in Seeds, Bootstrap(c)
      PROVE  TargetStep
  <2>1. /\ c \in Imports /\ Remote[c] \in Accounts
        /\ UNCHANGED <<sourceVars, controllerVars, editVars>>
    BY <1>3, InstallationAssumption DEF Bootstrap
  <2>2. CASE FetchToken(c) \/ AnnounceSeed(c)
    <3>1. UNCHANGED vars
      BY <2>1, <2>2 DEF FetchToken, AnnounceSeed, vars, controllerVars, counters,
                        editVars
    <3>. QED  BY <1>2, <3>1
  <2>3. CASE CreateSeed(c)
    BY <2>1, <2>3, MadeImport, AccountAskedFor DEF CreateSeed
  <2>4. CASE CreateSeedSecret(c)
    <3>1. /\ fetched[c] \in Token /\ fetched[c].account \in requested[c]
          /\ owner[c] \in Nat
      BY <2>4 DEF CreateSeedSecret, Advance, BootInv, BootTypeOK, BootOwned
    <3>. QED  BY <2>1, <2>4, <3>1, MadeSeedSecret DEF CreateSeedSecret
  <2>. QED  BY <1>3, <2>2, <2>3, <2>4 DEF Bootstrap
<1>4. CASE Recreate \/ Evict
  <2>1. faults' \in Nat
    BY <1>1, <1>4 DEF Recreate, Evict, Fault
  <2>. QED  BY <1>4, <2>1, PodDeleted DEF Recreate, Evict, NewPod
<1>5. CASE StartController \/ CrashController
  BY <1>5, ImporterStep DEF StartController, CrashController, Next
<1>6. CASE Worker
  <2>1. CASE Reconcile
    BY <2>1, ImporterStep DEF Next
  <2>2. CASE Unauthorized
    BY <2>2, CallRefused DEF Unauthorized, Calling, Busy
  <2>. QED  BY <1>6, <2>1, <2>2 DEF Worker, ReconcileAuthorized
<1>7. CASE Around
  <2>1. CASE (\E i \in Imports : TakeRequest(i)) \/ Others
    BY <2>1, ImporterStep DEF Next
  <2>2. CASE CreateOtherImport
    BY <2>2, MadeImport DEF CreateOtherImport
  <2>. QED  BY <1>7, <2>1, <2>2 DEF Around
<1>8. CASE Webhook
  <2>1. CASE HandleHookEvent \/ \E p \in Pods : Review(p)
    BY <1>2, <2>1 DEF HandleHookEvent, Review, Handle, mutatePods
  <2>2. CASE RestartWebhook \/ \E p \in Pods : RestartPod(p)
    <3>1. faults' \in Nat
      BY <1>1, <2>2 DEF RestartWebhook, RestartPod, Fault
    <3>. QED  BY <2>2, <3>1, BesideImporter DEF RestartWebhook, RestartPod
  <2>. QED  BY <1>8, <2>1, <2>2 DEF Webhook
<1>9. CASE (\E c \in Seeds : MountFile(c)) \/ UNCHANGED installVars
  BY <1>2, <1>9 DEF MountFile, installVars, mountVars
<1>10. ASSUME NEW c \in Seeds, Rerun(c)
       PROVE  TargetStep
  <2>1. faults' \in Nat
    BY <1>1, <1>10 DEF Rerun, Fault
  <2>. QED  BY <1>10, <2>1, BesideImporter DEF Rerun
<1>. QED  BY <1>3, <1>4, <1>5, <1>6, <1>7, <1>8, <1>9, <1>10 DEF InstallNext

-----------------------------------------------------------------------------
(* The webhook.  It may read an import in any version; whatever version it *)
(* is, each name in its status was given to the import's own secrets.      *)

HookCopies == hookCache \union {e.obj : e \in ToSet(hookEvents)}

StatusesGiven ==
    \A o \in HookCopies : \A n \in ToSet(o.secrets) : GivenTo(n, o.name)

VolumesGiven ==
    \A p \in Pods : \A k \in 1..Len(volumes[p]) :
        GivenTo(volumes[p][k].secret, volumes[p][k].path)

(* A review has mounted what it has not still to look up, in this order.   *)
Matches(vs, left, names) ==
    /\ Len(vs) + Len(left) = Len(names)
    /\ \A k \in 1..Len(vs) : vs[k].path = names[k]
    /\ \A k \in 1..Len(left) : left[k] = names[Len(vs) + k]

InOrder(p) ==
    IF phase[p] = "wanted"
       THEN volumes[p] = <<>>
       ELSE Matches(volumes[p], todo[p], annotation[p])

VolumesInOrder == \A p \in Pods : InOrder(p)

MountInv == MountTypeOK /\ StatusesGiven /\ VolumesGiven /\ VolumesInOrder

WebhookInv == IdentityInv /\ MountInv

(* Names stay with the imports they were given for.                        *)
NamesStayGiven ==
    \A n \in Nat, i \in Imports : GivenTo(n, i) => GivenTo(n, i)'

LEMMA StayGiven ==
    ASSUME IdentityInv, TargetStep
    PROVE  NamesStayGiven
<1>1. TypeOK /\ NamesKept
  BY DEF IdentityInv, CredentialsInv, TargetStep, NamesStep
<1>. QED  BY <1>1, GivenToKept DEF NamesStayGiven

LEMMA MatchesFirst ==
    ASSUME NEW names \in Seq(Imports)
    PROVE  Matches(<<>>, names, names)
  BY DEF Matches

LEMMA MatchesNext ==
    ASSUME NEW names \in Seq(Imports), NEW left \in Seq(Imports), left # <<>>,
           NEW vs \in Seq(Volume), NEW v \in Volume, v.path = Head(left),
           Matches(vs, left, names)
    PROVE  Matches(Append(vs, v), Tail(left), names)
<1>1. /\ Len(vs) \in Nat /\ Len(left) \in Nat /\ Len(left) > 0
      /\ Head(left) = left[1]
      /\ Len(Tail(left)) = Len(left) - 1
      /\ \A k \in 1..Len(Tail(left)) : Tail(left)[k] = left[k + 1]
  BY HeadTailProperties
<1>2. /\ Len(Append(vs, v)) = Len(vs) + 1
      /\ \A k \in 1..Len(vs) : Append(vs, v)[k] = vs[k]
      /\ Append(vs, v)[Len(vs) + 1] = v
  BY AppendProperties
<1>3. ASSUME NEW k \in 1..Len(Append(vs, v))
      PROVE  Append(vs, v)[k].path = names[k]
  <2>1. CASE k \in 1..Len(vs)
    BY <1>2, <2>1 DEF Matches
  <2>2. CASE k = Len(vs) + 1
    <3>1. left[1] = names[Len(vs) + 1]
      BY <1>1 DEF Matches
    <3>. QED  BY <1>1, <1>2, <2>2, <3>1
  <2>. QED  BY <1>1, <1>2, <2>1, <2>2
<1>4. ASSUME NEW k \in 1..Len(Tail(left))
      PROVE  Tail(left)[k] = names[Len(Append(vs, v)) + k]
  <2>1. k + 1 \in 1..Len(left) /\ Len(vs) + (k + 1) = Len(Append(vs, v)) + k
    BY <1>1, <1>2
  <2>. QED  BY <1>1, <2>1 DEF Matches
<1>5. Len(Append(vs, v)) + Len(Tail(left)) = Len(names)
  BY <1>1, <1>2 DEF Matches
<1>. QED  BY <1>3, <1>4, <1>5 DEF Matches

(* A pod that is rejected has nothing left of its review.                  *)
LEMMA Rejected ==
    ASSUME MountInv, NEW p \in Pods, Reject(p),
           NamesStayGiven,
           annotation' \in [Pods -> Seq(Imports)],
           \A q \in Pods \ {p} : annotation'[q] = annotation[q]
    PROVE  /\ phase' \in [Pods -> {"wanted", "mutating", "running"}]
           /\ todo' \in [Pods -> Seq(Imports)]
           /\ volumes' \in [Pods -> Seq(Volume)]
           /\ \A q \in Pods : phase'[q] = "mutating" <=> todo'[q] # <<>>
           /\ VolumesGiven' /\ VolumesInOrder'
<1>1. /\ phase \in [Pods -> {"wanted", "mutating", "running"}]
      /\ todo \in [Pods -> Seq(Imports)]
      /\ volumes \in [Pods -> Seq(Volume)]
      /\ \A q \in Pods : phase[q] = "mutating" <=> todo[q] # <<>>
  BY DEF MountInv, MountTypeOK
<1>2. /\ phase'[p] = "wanted" /\ todo'[p] = <<>> /\ volumes'[p] = <<>>
      /\ \A q \in Pods \ {p} : /\ phase'[q] = phase[q] /\ todo'[q] = todo[q]
                               /\ volumes'[q] = volumes[q]
  BY <1>1 DEF Reject
<1>3. /\ phase' \in [Pods -> {"wanted", "mutating", "running"}]
      /\ todo' \in [Pods -> Seq(Imports)]
      /\ volumes' \in [Pods -> Seq(Volume)]
  BY <1>1 DEF Reject
<1>4. \A q \in Pods : phase'[q] = "mutating" <=> todo'[q] # <<>>
  BY <1>1, <1>2
<1>5. ASSUME NEW q \in Pods, NEW k \in 1..Len(volumes'[q])
      PROVE  GivenTo(volumes[q][k].secret, volumes[q][k].path)'
  <2>1. q # p /\ volumes'[q] = volumes[q] /\ k \in 1..Len(volumes[q])
    BY <1>2, <1>5
  <2>2. volumes[q][k] \in Volume
    BY <1>1, <2>1
  <2>3. GivenTo(volumes[q][k].secret, volumes[q][k].path)
    BY <2>1 DEF MountInv, VolumesGiven
  <2>4. GivenTo(volumes[q][k].secret, volumes[q][k].path)'
    BY <2>1, <2>2, <2>3 DEF Volume, NamesStayGiven
  <2>. QED  BY <2>1, <2>4
<1>6. VolumesInOrder'
  BY <1>2 DEF MountInv, VolumesInOrder, InOrder
<1>. QED  BY <1>3, <1>4, <1>5, <1>6 DEF VolumesGiven

(* What is read from the watch is a version the API server has stored.     *)
LEMMA WatchStep ==
    ASSUME WebhookInv, TargetStep, Watch
    PROVE  /\ hookCache' \subseteq ServiceAccountImport
           /\ hookEvents' \in Seq(Event(ServiceAccountImport))
           /\ StatusesGiven'
<1>1. /\ hookCache \subseteq ServiceAccountImport
      /\ hookEvents \in Seq(Event(ServiceAccountImport))
      /\ sais \subseteq ServiceAccountImport /\ sais' \subseteq ServiceAccountImport
  BY DEF WebhookInv, MountInv, MountTypeOK, IdentityInv, CredentialsInv, TypeOK,
         StoreTypeOK, TargetStep
<1>2. HookCopies \subseteq ServiceAccountImport
  BY <1>1, ToSetType DEF HookCopies, Event
<1>3. ASSUME NEW o \in HookCopies \union sais \union sais',
             NEW n \in ToSet(o.secrets)
      PROVE  GivenTo(n, o.name)'
  <2>1. CASE o \in sais'
    BY <1>3, <2>1 DEF TargetStep, IdentityInv, NamesIdentify
  <2>2. CASE o \in HookCopies \union sais
    <3>1. o.name \in Imports /\ o.secrets \in Seq(Nat)
      BY <1>1, <1>2, <2>2 DEF ServiceAccountImport
    <3>2. n \in Nat
      BY <3>1, <1>3, ToSetType
    <3>3. GivenTo(n, o.name)
      BY <1>3, <2>2 DEF WebhookInv, MountInv, StatusesGiven, IdentityInv,
                        NamesIdentify
    <3>4. NamesStayGiven
      BY StayGiven DEF WebhookInv
    <3>. QED  BY <3>1, <3>2, <3>3, <3>4 DEF NamesStayGiven
  <2>. QED  BY <2>1, <2>2
<1>4. CASE UNCHANGED hookVars
  <2>1. HookCopies' = HookCopies
    BY <1>4 DEF hookVars, HookCopies
  <2>. QED  BY <1>1, <1>3, <1>4, <2>1 DEF hookVars, StatusesGiven
<1>5. ASSUME NEW o \in sais \union sais', NEW type \in {"put", "delete"},
             hookEvents' = Append(hookEvents, [type |-> type, obj |-> o]),
             UNCHANGED hookCache
      PROVE  /\ hookCache' \subseteq ServiceAccountImport
             /\ hookEvents' \in Seq(Event(ServiceAccountImport))
             /\ StatusesGiven'
  <2>1. [type |-> type, obj |-> o] \in Event(ServiceAccountImport)
    BY <1>1 DEF Event
  <2>2. /\ hookEvents' \in Seq(Event(ServiceAccountImport))
        /\ ToSet(hookEvents') =
               ToSet(hookEvents) \union {[type |-> type, obj |-> o]}
    BY <1>1, <1>5, <2>1, AppendToSet
  <2>3. HookCopies' = HookCopies \union {o}
    BY <1>5, <2>2 DEF HookCopies
  <2>. QED  BY <1>1, <1>3, <1>5, <2>2, <2>3 DEF StatusesGiven
<1>. QED  BY <1>4, <1>5 DEF Watch

(* The webhook's cache and its pods do not disturb each other's part of    *)
(* the invariant.                                                          *)
LEMMA PodsStay ==
    ASSUME WebhookInv, TargetStep, UNCHANGED podVars,
           hookCache' \subseteq ServiceAccountImport,
           hookEvents' \in Seq(Event(ServiceAccountImport)),
           StatusesGiven'
    PROVE  MountInv'
<1>1. UNCHANGED <<annotation, phase, todo, volumes>>
  BY DEF podVars
<1>2. MountTypeOK'
  BY <1>1 DEF WebhookInv, MountInv, MountTypeOK
<1>3. VolumesInOrder'
  BY <1>1 DEF WebhookInv, MountInv, VolumesInOrder, InOrder
<1>4. VolumesGiven'
  <2>1. NamesStayGiven
    BY StayGiven DEF WebhookInv
  <2>2. ASSUME NEW p \in Pods, NEW k \in 1..Len(volumes[p])
        PROVE  GivenTo(volumes[p][k].secret, volumes[p][k].path)'
    <3>1. volumes[p] \in Seq(Volume)
      BY DEF WebhookInv, MountInv, MountTypeOK
    <3>2. volumes[p][k] \in Volume
      BY <3>1
    <3>3. GivenTo(volumes[p][k].secret, volumes[p][k].path)
      BY DEF WebhookInv, MountInv, VolumesGiven
    <3>. QED  BY <1>1, <2>1, <3>2, <3>3 DEF Volume, NamesStayGiven
  <2>. QED  BY <1>1, <2>2 DEF VolumesGiven
<1>. QED  BY <1>2, <1>3, <1>4 DEF MountInv

LEMMA HandleHookEventStep ==
    ASSUME WebhookInv, TargetStep, HandleHookEvent
    PROVE  MountInv'
<1>1. /\ hookCache \subseteq ServiceAccountImport /\ hookEvents # <<>>
      /\ hookEvents \in Seq(Event(ServiceAccountImport))
      /\ hookCache' = Apply(hookCache, Head(hookEvents))
      /\ hookEvents' = Tail(hookEvents)
      /\ UNCHANGED podVars
  BY DEF WebhookInv, MountInv, MountTypeOK, HandleHookEvent
<1>2. /\ Head(hookEvents) \in Event(ServiceAccountImport)
      /\ Head(hookEvents) \in ToSet(hookEvents)
      /\ hookEvents' \in Seq(Event(ServiceAccountImport))
      /\ ToSet(hookEvents') \subseteq ToSet(hookEvents)
  BY <1>1, HeadTailToSet
<1>3. /\ hookCache' \subseteq ServiceAccountImport
      /\ hookCache' \subseteq hookCache \union {Head(hookEvents).obj}
  BY <1>1, <1>2, ApplyImportType DEF Apply, Put, Drop
<1>4. HookCopies' \subseteq HookCopies
  BY <1>2, <1>3 DEF HookCopies
<1>5. UNCHANGED <<created, secrets>>
  BY DEF HandleHookEvent, vars, storeVars
<1>6. StatusesGiven'
  BY <1>4, <1>5 DEF WebhookInv, MountInv, StatusesGiven, GivenTo
<1>. QED  BY <1>1, <1>2, <1>3, <1>6, PodsStay

(* Pod p's review goes on with the volumes vs, and the others' wait.       *)
LEMMA ReviewStep ==
    ASSUME WebhookInv, NEW p \in Pods,
           UNCHANGED <<created, secrets, hookVars, annotation>>,
           NEW vs \in Seq(Volume), NEW left \in Seq(Imports),
           NEW ph \in {"mutating", "running"}, ph = "mutating" <=> left # <<>>,
           phase' = [phase EXCEPT ![p] = ph],
           todo' = [todo EXCEPT ![p] = left],
           volumes' = [volumes EXCEPT ![p] = vs],
           Matches(vs, left, annotation[p]),
           \A k \in 1..Len(vs) : GivenTo(vs[k].secret, vs[k].path)
    PROVE  MountInv'
<1>1. /\ MountTypeOK /\ VolumesGiven /\ VolumesInOrder /\ StatusesGiven
      /\ phase \in [Pods -> {"wanted", "mutating", "running"}]
      /\ todo \in [Pods -> Seq(Imports)] /\ volumes \in [Pods -> Seq(Volume)]
      /\ UNCHANGED <<created, secrets, hookCache, hookEvents, annotation>>
  BY DEF WebhookInv, MountInv, MountTypeOK, hookVars
<1>2. /\ phase'[p] = ph /\ todo'[p] = left /\ volumes'[p] = vs
      /\ \A q \in Pods \ {p} : /\ phase'[q] = phase[q] /\ todo'[q] = todo[q]
                               /\ volumes'[q] = volumes[q]
  BY <1>1
<1>3. MountTypeOK'
  <2>1. /\ phase' \in [Pods -> {"wanted", "mutating", "running"}]
        /\ todo' \in [Pods -> Seq(Imports)] /\ volumes' \in [Pods -> Seq(Volume)]
    BY <1>1
  <2>2. \A q \in Pods : phase'[q] = "mutating" <=> todo'[q] # <<>>
    BY <1>1, <1>2 DEF MountTypeOK
  <2>. QED  BY <1>1, <2>1, <2>2 DEF MountTypeOK
<1>4. StatusesGiven'
  <2>1. StatusesGiven /\ UNCHANGED <<created, secrets, hookCache, hookEvents>>
    BY <1>1
  <2>2. HookCopies' = HookCopies
    BY <2>1 DEF HookCopies
  <2>. QED  BY <2>1, <2>2 DEF StatusesGiven, GivenTo
<1>5. VolumesInOrder'
  <2>1. ASSUME NEW q \in Pods \ {p}
        PROVE  InOrder(q)'
    BY <1>1, <1>2 DEF VolumesInOrder, InOrder, Matches
  <2>2. InOrder(p)'
    BY <1>1, <1>2 DEF InOrder
  <2>. QED  BY <2>1, <2>2 DEF VolumesInOrder
<1>6. ASSUME NEW q \in Pods, NEW k \in 1..Len(volumes'[q])
      PROVE  GivenTo(volumes[q][k].secret, volumes[q][k].path)'
  <2>1. CASE q = p
    BY <1>1, <1>2, <1>6, <2>1 DEF GivenTo
  <2>2. CASE q # p
    BY <1>1, <1>2, <1>6, <2>2 DEF VolumesGiven, GivenTo
  <2>. QED  BY <2>1, <2>2
<1>. QED  BY <1>3, <1>4, <1>5, <1>6 DEF MountInv, VolumesGiven

(* One that is rejected starts again.                                      *)
LEMMA RejectStep ==
    ASSUME WebhookInv, TargetStep, NEW p \in Pods, Reject(p),
           UNCHANGED hookVars, UNCHANGED sais,
           annotation' \in [Pods -> Seq(Imports)],
           \A q \in Pods \ {p} : annotation'[q] = annotation[q]
    PROVE  MountInv'
<1>1. NamesStayGiven /\ MountInv /\ MountTypeOK
  BY StayGiven DEF WebhookInv, MountInv
<1>2. Watch
  BY DEF Watch
<1>3. MountTypeOK' /\ VolumesGiven' /\ VolumesInOrder'
  BY <1>1, <1>2, Rejected, WatchStep DEF MountTypeOK
<1>. QED  BY <1>2, <1>3, WatchStep DEF MountInv

(* The volume of an import is a secret of that import.                     *)
LEMMA VolumeOfImport ==
    ASSUME WebhookInv, NEW i \in Imports, NEW o \in Ready(i)
    PROVE  /\ VolumeFor(o) \in Volume /\ VolumeFor(o).path = i
           /\ GivenTo(VolumeFor(o).secret, VolumeFor(o).path)
<1>1. o \in HookCopies /\ o \in ServiceAccountImport /\ o.name = i /\ o.secrets # <<>>
  BY DEF Ready, HookCopies, WebhookInv, MountInv, MountTypeOK
<1>2. o.secrets \in Seq(Nat)
  BY <1>1 DEF ServiceAccountImport
<1>3. Head(o.secrets) \in Nat /\ Head(o.secrets) \in ToSet(o.secrets)
  BY <1>1, <1>2, HeadTailToSet
<1>4. GivenTo(Head(o.secrets), o.name)
  BY <1>1, <1>3 DEF WebhookInv, MountInv, StatusesGiven
<1>. QED  BY <1>1, <1>3, <1>4 DEF VolumeFor, Volume

LEMMA ReviewsStep ==
    ASSUME WebhookInv, TargetStep, NEW p \in Pods, Review(p)
    PROVE  MountInv'
<1>1. /\ UNCHANGED <<created, secrets, sais>> /\ UNCHANGED <<hookVars, annotation>>
      /\ annotation \in [Pods -> Seq(Imports)] /\ todo \in [Pods -> Seq(Imports)]
      /\ volumes \in [Pods -> Seq(Volume)] /\ InOrder(p)
      /\ annotation[p] \in Seq(Imports)
  BY DEF Review, Handle, mutatePods, vars, storeVars, WebhookInv, MountInv,
         MountTypeOK, VolumesInOrder
<1>2. CASE Handle(p)
  <2>1. /\ volumes[p] = <<>> /\ volumes[p] \in Seq(Volume)
        /\ volumes' = [volumes EXCEPT ![p] = volumes[p]]
    BY <1>1, <1>2 DEF Handle, InOrder
  <2>2. Matches(volumes[p], annotation[p], annotation[p])
    BY <1>1, <2>1, MatchesFirst
  <2>. DEFINE ph == IF annotation[p] = <<>> THEN "running" ELSE "mutating"
  <2>3. /\ phase' = [phase EXCEPT ![p] = ph] /\ ph \in {"mutating", "running"}
        /\ ph = "mutating" <=> annotation[p] # <<>>
    BY <1>2 DEF Handle
  <2>4. todo' = [todo EXCEPT ![p] = annotation[p]]
    BY <1>2 DEF Handle
  <2>5. \A k \in 1..Len(volumes[p]) : GivenTo(volumes[p][k].secret, volumes[p][k].path)
    BY DEF WebhookInv, MountInv, VolumesGiven
  <2>. HIDE DEF ph
  <2>. QED  BY <1>1, <2>1, <2>2, <2>3, <2>4, <2>5, ReviewStep
<1>3. CASE mutatePods(p)
  <2>1. CASE Reject(p)
    BY <1>1, <2>1, RejectStep
  <2>2. ASSUME NEW o \in Ready(Head(todo[p])),
               MountNext(p, Append(volumes[p], VolumeFor(o))), ~Reject(p)
        PROVE  MountInv'
    <3>. DEFINE vs == Append(volumes[p], VolumeFor(o))
    <3>1. /\ todo[p] # <<>> /\ todo[p] \in Seq(Imports)
          /\ volumes[p] \in Seq(Volume)
          /\ Matches(volumes[p], todo[p], annotation[p])
      BY <1>1, <1>3 DEF mutatePods, InOrder, WebhookInv, MountInv, MountTypeOK
    <3>2. Head(todo[p]) \in Imports /\ Tail(todo[p]) \in Seq(Imports)
      BY <3>1, HeadTailToSet
    <3>3. /\ VolumeFor(o) \in Volume /\ VolumeFor(o).path = Head(todo[p])
          /\ GivenTo(VolumeFor(o).secret, VolumeFor(o).path)
      BY <2>2, <3>2, VolumeOfImport
    <3>4. vs \in Seq(Volume) /\ Matches(vs, Tail(todo[p]), annotation[p])
      BY <1>1, <3>1, <3>3, AppendProperties, MatchesNext
    <3>5. \A k \in 1..Len(vs) : GivenTo(vs[k].secret, vs[k].path)
      <4>1. /\ Len(volumes[p]) \in Nat /\ Len(vs) = Len(volumes[p]) + 1
            /\ vs[Len(vs)] = VolumeFor(o)
            /\ \A k \in 1..Len(volumes[p]) : vs[k] = volumes[p][k]
        BY <3>1, <3>3, AppendProperties
      <4>2. \A k \in 1..Len(vs) : k \in 1..Len(volumes[p]) \/ k = Len(vs)
        BY <4>1
      <4>. HIDE DEF vs
      <4>. QED  BY <3>3, <4>1, <4>2 DEF WebhookInv, MountInv, VolumesGiven
    <3>6. \E ph \in {"mutating", "running"} :
             /\ ph = "mutating" <=> Tail(todo[p]) # <<>>
             /\ phase' = [phase EXCEPT ![p] = ph]
             /\ todo' = [todo EXCEPT ![p] = Tail(todo[p])]
             /\ volumes' = [volumes EXCEPT ![p] = vs]
      <4>1. phase[p] = "mutating" /\ phase \in [Pods -> {"wanted", "mutating", "running"}]
        BY <1>3 DEF mutatePods, WebhookInv, MountInv, MountTypeOK
      <4>2. phase = [phase EXCEPT ![p] = "mutating"]
        BY <4>1
      <4>. HIDE DEF vs
      <4>3. MountNext(p, vs)
        BY <2>2 DEF vs
      <4>. QED  BY <2>2, <4>2, <4>3 DEF MountNext, Respond
    <3>. HIDE DEF vs
    <3>. QED  BY <1>1, <3>2, <3>4, <3>5, <3>6, ReviewStep
  <2>. QED  BY <1>3, <2>1, <2>2 DEF mutatePods
<1>. QED  BY <1>2, <1>3 DEF Review

(* The webhook dies: only pods that run are left.                          *)
LEMMA RestartWebhookStep ==
    ASSUME WebhookInv, TargetStep, RestartWebhook
    PROVE  MountInv'
<1>1. /\ phase \in [Pods -> {"wanted", "mutating", "running"}]
      /\ todo \in [Pods -> Seq(Imports)] /\ volumes \in [Pods -> Seq(Volume)]
      /\ annotation \in [Pods -> Seq(Imports)]
      /\ \A p \in Pods : phase[p] = "mutating" <=> todo[p] # <<>>
      /\ sais \subseteq ServiceAccountImport
  BY DEF WebhookInv, MountInv, MountTypeOK, IdentityInv, CredentialsInv, TypeOK,
         StoreTypeOK
<1>2. /\ UNCHANGED <<created, sais, secrets, annotation>>
      /\ hookCache' = sais /\ hookEvents' = <<>>
      /\ phase' = [p \in Pods |-> IF phase[p] = "running" THEN "running" ELSE "wanted"]
      /\ todo' = [p \in Pods |-> <<>>]
      /\ volumes' = [p \in Pods |-> IF phase[p] = "running" THEN volumes[p] ELSE <<>>]
  BY DEF RestartWebhook, storeVars
<1>3. \A p \in Pods : /\ phase'[p] = "running" => /\ phase[p] = "running"
                                                 /\ todo[p] = <<>>
                                                 /\ volumes'[p] = volumes[p]
                      /\ phase'[p] # "running" => /\ phase'[p] = "wanted"
                                                 /\ volumes'[p] = <<>>
                      /\ todo'[p] = <<>>
  BY <1>1, <1>2
<1>4. MountTypeOK'
  <2>1. /\ phase' \in [Pods -> {"wanted", "mutating", "running"}]
        /\ todo' \in [Pods -> Seq(Imports)] /\ volumes' \in [Pods -> Seq(Volume)]
        /\ hookEvents' \in Seq(Event(ServiceAccountImport))
    BY <1>1, <1>2, EmptySeq
  <2>. QED  BY <1>1, <1>2, <1>3, <2>1 DEF MountTypeOK
<1>5. StatusesGiven'
  BY <1>2, EmptyToSet DEF HookCopies, StatusesGiven, WebhookInv, IdentityInv,
                          NamesIdentify, GivenTo
<1>6. VolumesInOrder'
  BY <1>2, <1>3 DEF WebhookInv, MountInv, VolumesInOrder, InOrder
<1>7. ASSUME NEW p \in Pods, NEW k \in 1..Len(volumes'[p])
      PROVE  GivenTo(volumes[p][k].secret, volumes[p][k].path)'
  <2>1. volumes'[p] = volumes[p] /\ k \in 1..Len(volumes[p])
    BY <1>3, <1>7
  <2>. QED  BY <1>2, <2>1 DEF WebhookInv, MountInv, VolumesGiven, GivenTo
<1>. QED  BY <1>4, <1>5, <1>6, <1>7 DEF MountInv, VolumesGiven

-----------------------------------------------------------------------------
(* The controller's pod and its process.                                   *)

(* Files and clients hold what the import of their cluster has asked for,  *)
(* and a process has a client for each of its volumes, or has none.        *)
ProcessInv ==
    /\ annotation[Controller] \in Seq(Seeds)
    /\ files \in [Seeds -> Token \union {None}]
    /\ creds \in [Seeds -> Token \union {None}]
    /\ pc = "down" => creds = NoTokens /\ srcClients = {}
    /\ pc # "down" => /\ phase[Controller] = "running"
                      /\ srcClients \in {Mounted, {}}
                      /\ \A c \in srcClients : creds[c] # None
    /\ \A c \in Seeds : \A t \in {files[c], creds[c]} :
          t # None => t.account \in requested[c]

InstallInv == WebhookInv /\ BootInv /\ ProcessInv

(* A step of the rest of the installation.                                 *)
LEMMA ProcessStays ==
    ASSUME InstallInv, TargetStep, UNCHANGED <<files, creds, srcClients>>,
           pc' = "down" <=> pc = "down",
           annotation'[Controller] = annotation[Controller],
           phase[Controller] = "running" =>
               /\ phase'[Controller] = "running"
               /\ volumes'[Controller] = volumes[Controller]
    PROVE  ProcessInv'
<1>1. Mounted' = Mounted \/ pc = "down"
  BY DEF InstallInv, ProcessInv, Mounted
<1>2. \A c \in Seeds : requested[c] \subseteq requested'[c]
  BY InstallationAssumption DEF TargetStep, RequestsKept
<1>3. NoTokens' = NoTokens
  BY DEF NoTokens
<1>. QED  BY <1>1, <1>2, <1>3 DEF InstallInv, ProcessInv

(* The names of a pod's volumes are those of its annotation, so the        *)
(* controller's are clusters.                                              *)
LEMMA MountedNames ==
    ASSUME InstallInv, phase[Controller] = "running"
    PROVE  Mounted = ToSet(annotation[Controller]) /\ Mounted \subseteq Seeds
<1>1. /\ Controller \in Pods /\ todo[Controller] = <<>>
      /\ Matches(volumes[Controller], <<>>, annotation[Controller])
      /\ volumes[Controller] \in Seq(Volume)
      /\ annotation[Controller] \in Seq(Seeds)
  BY InstallationAssumption DEF InstallInv, WebhookInv, MountInv, MountTypeOK,
                                VolumesInOrder, InOrder, ProcessInv
<1>2. /\ Len(volumes[Controller]) = Len(annotation[Controller])
      /\ \A k \in 1..Len(volumes[Controller]) :
            volumes[Controller][k].path = annotation[Controller][k]
  BY <1>1 DEF Matches
<1>3. Mounted = ToSet(annotation[Controller])
  BY <1>1, <1>2 DEF Mounted, ToSet
<1>. QED  BY <1>1, <1>3, ToSetType

LEMMA MountFileStep ==
    ASSUME InstallInv, NEW c \in Seeds, MountFile(c)
    PROVE  ProcessInv'
<1>1. PICK v \in ToSet(volumes[Controller]), s \in secrets :
          /\ v.path = c /\ v.secret = s.name
          /\ files' = [files EXCEPT ![c] = s.data]
  BY DEF MountFile
<1>2. s.import = c
  <2>1. Controller \in Pods
    BY InstallationAssumption
  <2>2. GivenTo(v.secret, v.path)
    BY <2>1 DEF InstallInv, WebhookInv, MountInv, MountTypeOK, VolumesGiven, ToSet
  <2>. QED  BY <1>1, <2>2 DEF GivenTo
<1>3. s.data \in Token /\ s.data.account \in requested[c]
  BY <1>2 DEF InstallInv, WebhookInv, IdentityInv, CredentialsInv, TypeOK,
              StoreTypeOK, Secret, RequestedCredentialsOnly
<1>4. /\ files' \in [Seeds -> Token \union {None}]
      /\ \A d \in Seeds : files'[d] = IF d = c THEN s.data ELSE files[d]
  BY <1>1, <1>3 DEF InstallInv, ProcessInv
<1>5. /\ UNCHANGED <<requested, srcClients, pc, annotation, phase, volumes>>
      /\ UNCHANGED creds
  BY DEF MountFile, mountVars, vars, storeVars, podVars
<1>6. UNCHANGED <<Mounted, NoTokens>>
  BY <1>5 DEF Mounted, NoTokens
<1>. QED  BY <1>3, <1>4, <1>5, <1>6 DEF InstallInv, ProcessInv

LEMMA StartControllerStep ==
    ASSUME InstallInv, StartController
    PROVE  ProcessInv'
<1>1. /\ phase[Controller] = "running" /\ pc' # "down" /\ files' = files
      /\ UNCHANGED <<requested, annotation, phase, volumes>>
      /\ MakeClients \/ FindNoImports
  BY DEF StartController, Start, podVars
<1>2. Mounted \subseteq Seeds /\ Mounted' = Mounted
  BY <1>1, MountedNames DEF Mounted
<1>3. NoTokens \in [Seeds -> Token \union {None}] /\ \A c \in Seeds : NoTokens[c] = None
  BY DEF NoTokens
<1>4. CASE MakeClients
  <2>1. /\ srcClients' = Mounted /\ creds' = files
        /\ \A c \in Mounted : files[c] # None
    BY <1>4, InstallationAssumption
       DEF MakeClients, InstallInv, WebhookInv, IdentityInv, CredentialsInv,
           TypeOK, SourceTypeOK
  <2>. QED  BY <1>1, <1>2, <2>1 DEF InstallInv, ProcessInv
<1>5. CASE FindNoImports
  BY <1>1, <1>2, <1>3, <1>5 DEF FindNoImports, InstallInv, ProcessInv
<1>. QED  BY <1>1, <1>4, <1>5

(* The end of the process, with its pod or without.                        *)
LEMMA ProcessEnds ==
    ASSUME InstallInv, Die, creds' = NoTokens, files' \in {files, NoTokens},
           UNCHANGED requested,
           annotation'[Controller] \in Seq(Seeds)
    PROVE  ProcessInv'
<1>1. pc' = "down" /\ srcClients' = {}
  BY DEF Die
<1>2. NoTokens' = NoTokens /\ NoTokens \in [Seeds -> Token \union {None}]
  BY DEF NoTokens
<1>3. \A c \in Seeds : NoTokens[c] = None
  BY DEF NoTokens
<1>. QED  BY <1>1, <1>2, <1>3 DEF InstallInv, ProcessInv

-----------------------------------------------------------------------------
(* Every step of the installation.                                         *)

LEMMA BootstrapStep ==
    ASSUME InstallInv, TargetStep, NEW c \in Seeds, Bootstrap(c)
    PROVE  InstallInv'
<1>1. /\ Watch /\ UNCHANGED podVars /\ UNCHANGED <<files, creds, srcClients, pc>>
      /\ UNCHANGED <<annotation, phase, volumes>>
  BY DEF Bootstrap, podVars, processVars, controllerVars
<1>2. MountInv'
  BY <1>1, WatchStep, PodsStay DEF InstallInv
<1>3. BootInv'
  BY BootstrapMoves DEF InstallInv, WebhookInv, TargetStep
<1>4. ProcessInv'
  BY <1>1, ProcessStays
<1>. QED  BY <1>2, <1>3, <1>4 DEF InstallInv, WebhookInv, TargetStep

(* A user runs the command again.                                          *)
LEMMA RerunStep ==
    ASSUME InstallInv, TargetStep, NEW c \in Seeds, Rerun(c)
    PROVE  InstallInv'
<1>1. /\ UNCHANGED <<sais, hookVars, podVars>>
      /\ UNCHANGED <<files, creds, srcClients, pc, annotation, phase, volumes>>
  BY DEF Rerun, podVars, processVars, storeVars
<1>2. MountInv'
  <2>1. Watch
    BY <1>1 DEF Watch
  <2>. QED  BY <1>1, <2>1, WatchStep, PodsStay DEF InstallInv
<1>3. BootInv'
  BY BootstrapMoves DEF InstallInv, WebhookInv, TargetStep
<1>4. ProcessInv'
  BY <1>1, ProcessStays
<1>. QED  BY <1>2, <1>3, <1>4 DEF InstallInv, WebhookInv, TargetStep

LEMMA NewPodStep ==
    ASSUME InstallInv, TargetStep, NEW annotated \in Seq(Seeds), NewPod(annotated)
    PROVE  InstallInv'
<1>1. /\ Controller \in Pods /\ annotated \in Seq(Imports)
      /\ annotation \in [Pods -> Seq(Imports)]
  BY InstallationAssumption DEF InstallInv, WebhookInv, MountInv, MountTypeOK
<1>2. /\ annotation' \in [Pods -> Seq(Imports)]
      /\ annotation'[Controller] = annotated
      /\ \A q \in Pods \ {Controller} : annotation'[q] = annotation[q]
  BY <1>1 DEF NewPod
<1>3. MountInv'
  BY <1>1, <1>2, RejectStep DEF InstallInv, NewPod
<1>4. ProcessInv'
  BY <1>2, ProcessEnds DEF NewPod
<1>5. BootInv'
  BY BootStays DEF NewPod, InstallInv, TargetStep
<1>. QED  BY <1>3, <1>4, <1>5 DEF InstallInv, WebhookInv, TargetStep

(* Steps that leave the bootstraps, the pods and their files alone.        *)
LEMMA TargetOnlyStep ==
    ASSUME InstallInv, TargetStep, Watch,
           UNCHANGED <<podVars, bootVars, processVars, srcClients>>,
           pc' = "down" <=> pc = "down"
    PROVE  InstallInv'
<1>1. MountInv'
  BY WatchStep, PodsStay DEF InstallInv
<1>2. ProcessInv'
  BY ProcessStays DEF podVars, processVars
<1>3. BootInv'
  BY BootStays DEF InstallInv, TargetStep
<1>. QED  BY <1>1, <1>2, <1>3 DEF InstallInv, WebhookInv, TargetStep

LEMMA ControllerProcessStep ==
    ASSUME InstallInv, TargetStep, StartController \/ CrashController
    PROVE  InstallInv'
<1>1. /\ UNCHANGED hookVars /\ UNCHANGED podVars /\ UNCHANGED <<sais, requested>>
      /\ UNCHANGED bootVars /\ annotation'[Controller] = annotation[Controller]
  BY DEF StartController, CrashController, Start, Crash, podVars
<1>2. Watch
  BY <1>1 DEF Watch
<1>3. MountInv'
  BY <1>1, <1>2, WatchStep, PodsStay DEF InstallInv
<1>4. ProcessInv'
  BY <1>1, StartControllerStep, ProcessEnds
     DEF CrashController, Crash, InstallInv, ProcessInv
<1>5. BootInv'
  BY <1>1, BootStays DEF InstallInv, TargetStep
<1>. QED  BY <1>3, <1>4, <1>5 DEF InstallInv, WebhookInv, TargetStep

LEMMA WorkerStep ==
    ASSUME InstallInv, TargetStep, Worker
    PROVE  InstallInv'
<1>1. UNCHANGED <<podVars, bootVars, processVars>>
  BY DEF Worker
<1>2. CASE Reconcile /\ Watch
  <2>1. UNCHANGED srcClients /\ pc # "down" /\ pc' # "down"
    BY <1>2 DEF Reconcile, GetImport, ListSecrets, UpdateStatus, GetAccount,
       GetToken, CreateSecret, UpdateSecret, KeepSecret, DeleteSecret,
       FinishReconcile, MapObserved, NextDesired, FailCall, Requeue, Finish
  <2>. QED  BY <1>1, <1>2, <2>1, TargetOnlyStep
<1>3. CASE Unauthorized
  <2>1. /\ UNCHANGED <<sais, hookVars, srcClients>> /\ pc # "down" /\ pc' # "down"
    BY <1>3 DEF Unauthorized, Calling, Requeue, storeVars
  <2>2. Watch
    BY <2>1 DEF Watch
  <2>. QED  BY <1>1, <2>1, <2>2, TargetOnlyStep
<1>. QED  BY <1>2, <1>3 DEF Worker, ReconcileAuthorized

LEMMA AroundStep ==
    ASSUME InstallInv, TargetStep, Around
    PROVE  InstallInv'
<1>1. Watch /\ UNCHANGED <<podVars, bootVars, processVars>>
  BY DEF Around
<1>2. UNCHANGED srcClients /\ (pc' = "down" <=> pc = "down")
  BY DEF Around, TakeRequest, Others, CreateOtherImport, HandleImportEvent,
         HandleSecretEvent, Resync, UseTarget, UseSource, Collect, Forget,
         controllerVars
<1>. QED  BY <1>1, <1>2, TargetOnlyStep

LEMMA WebhookStep ==
    ASSUME InstallInv, TargetStep, Webhook
    PROVE  InstallInv'
<1>1. /\ UNCHANGED <<bootVars, processVars, srcClients, pc>>
      /\ UNCHANGED annotation
      /\ UNCHANGED <<files, creds>>
  BY DEF Webhook, HandleHookEvent, Review, Handle, mutatePods, RestartPod,
         RestartWebhook, vars, podVars, bootVars, processVars
<1>2. MountInv'
  <2>1. ASSUME NEW p \in Pods, RestartPod(p)
        PROVE  MountInv'
    <3>1. UNCHANGED sais /\ annotation \in [Pods -> Seq(Imports)]
      BY <2>1 DEF RestartPod, storeVars, InstallInv, WebhookInv, MountInv,
                  MountTypeOK
    <3>. QED  BY <1>1, <2>1, <3>1, RejectStep DEF RestartPod, InstallInv
  <2>. QED  BY <2>1, HandleHookEventStep, ReviewsStep, RestartWebhookStep
            DEF Webhook, InstallInv
<1>3. phase[Controller] = "running" =>
          phase'[Controller] = "running" /\ volumes'[Controller] = volumes[Controller]
  <2>1. /\ Controller \in Pods /\ phase \in [Pods -> {"wanted", "mutating", "running"}]
        /\ volumes \in [Pods -> Seq(Volume)]
    BY InstallationAssumption DEF InstallInv, WebhookInv, MountInv, MountTypeOK
  <2>2. CASE HandleHookEvent
    BY <2>2 DEF HandleHookEvent, podVars
  <2>3. ASSUME NEW p \in Pods, Review(p)
        PROVE  phase[Controller] = "running" =>
                   /\ phase'[Controller] = "running"
                   /\ volumes'[Controller] = volumes[Controller]
    <3>1. CASE p = Controller
      BY <2>3, <3>1 DEF Review, Handle, mutatePods
    <3>2. CASE p # Controller
      BY <2>1, <2>3, <3>2 DEF Review, Handle, mutatePods, MountNext, Respond, Reject
    <3>. QED  BY <3>1, <3>2
  <2>4. CASE \E p \in Pods \ {Controller} : RestartPod(p)
    BY <2>1, <2>4 DEF RestartPod, Reject
  <2>5. CASE RestartWebhook
    BY <2>1, <2>5 DEF RestartWebhook
  <2>. QED  BY <2>2, <2>3, <2>4, <2>5 DEF Webhook
<1>4. ProcessInv'
  BY <1>1, <1>3, ProcessStays
<1>5. BootInv'
  BY <1>1, BootStays DEF InstallInv, TargetStep
<1>. QED  BY <1>2, <1>4, <1>5 DEF InstallInv, WebhookInv, TargetStep

LEMMA InstallStep ==
    ASSUME InstallInv, [InstallNext]_installVars
    PROVE  InstallInv'
<1>1. TargetStep
  BY WholeStep DEF InstallInv, WebhookInv
<1>2. CASE Recreate
  BY <1>1, <1>2, NewPodStep DEF Recreate, InstallInv, BootInv, BootTypeOK
<1>3. CASE Evict
  BY <1>1, <1>3, NewPodStep DEF Evict, InstallInv, ProcessInv
<1>4. CASE \E c \in Seeds : MountFile(c)
  <2>1. ProcessInv' /\ UNCHANGED <<sais, hookVars, podVars>>
    BY <1>4, MountFileStep DEF MountFile, mountVars, vars, storeVars
  <2>2. Watch
    BY <2>1 DEF Watch
  <2>3. MountInv'
    BY <1>1, <2>1, <2>2, WatchStep, PodsStay DEF InstallInv
  <2>4. BootInv'
    BY <1>1, <1>4, BootStays DEF MountFile, InstallInv, TargetStep
  <2>. QED  BY <1>1, <2>1, <2>3, <2>4 DEF InstallInv, WebhookInv, TargetStep
<1>5. CASE UNCHANGED installVars
  <2>1. /\ UNCHANGED <<sais, hookVars, podVars, bootVars, processVars, srcClients, pc>>
    BY <1>5 DEF installVars, mountVars, vars, storeVars
  <2>2. Watch
    BY <2>1 DEF Watch
  <2>. QED  BY <1>1, <2>1, <2>2, TargetOnlyStep
<1>. QED  BY <1>1, <1>2, <1>3, <1>4, <1>5, BootstrapStep, RerunStep,
             ControllerProcessStep, WorkerStep, AroundStep, WebhookStep DEF InstallNext

LEMMA InstallBegins == InstallInit => InstallInv
<1>. SUFFICES ASSUME InstallInit PROVE InstallInv
  OBVIOUS
<1>1. IdentityInv
  BY IdentityInit DEF InstallInit, MountInit
<1>2. /\ hookCache = {} /\ hookEvents = <<>> /\ annotation = Annotation
      /\ phase = [p \in Pods |-> "wanted"] /\ todo = [p \in Pods |-> <<>>]
      /\ volumes = [p \in Pods |-> <<>>]
  BY DEF InstallInit, MountInit
<1>3. MountTypeOK
  BY <1>2, EmptySeq, PodsAssumption DEF MountTypeOK
<1>4. HookCopies = {}
  BY <1>2, EmptyToSet DEF HookCopies
<1>5. MountInv
  BY <1>2, <1>3, <1>4 DEF MountInv, StatusesGiven, VolumesGiven, VolumesInOrder,
                          InOrder
<1>6. annotation[Controller] \in Seq(Seeds)
  BY <1>2, InstallationAssumption, EmptySeq
<1>7. BootInv
  BY EmptySeq DEF InstallInit, BootInv, BootTypeOK, BootOwned, NoTokens, NoUID
<1>8. files = NoTokens /\ creds = NoTokens /\ pc = "down" /\ srcClients = {}
  BY DEF InstallInit, MountInit, Init
<1>9. ProcessInv
  BY <1>6, <1>8 DEF ProcessInv, NoTokens
<1>. QED  BY <1>1, <1>5, <1>7, <1>9 DEF InstallInv, WebhookInv

LEMMA InstallInductive == InstallSpec => []InstallInv
<1>1. InstallInv /\ [InstallNext]_installVars => InstallInv'
  BY InstallStep
<1>. QED  BY <1>1, InstallBegins, PTL DEF InstallSpec

-----------------------------------------------------------------------------
(* Theorems.                                                               *)

(* Every variable of the webhook, the bootstraps and the controller's pod  *)
(* has its type: a review that goes on has a name left to look up          *)
(* (mutatePods), a bootstrap has the token it is about to write, and only  *)
(* a process that runs has clients.                                        *)
THEOREM InstallTypeCorrect == InstallSpec => []InstallTypeOK
<1>1. InstallInv => InstallTypeOK
  BY InstallationAssumption DEF InstallInv, WebhookInv, MountInv, BootInv,
     BootTypeOK, BootOwned, ProcessInv, InstallTypeOK
<1>. QED  BY <1>1, InstallInductive, PTL

(* A pod that runs has a volume for each import it was annotated with, in  *)
(* their order, and each volume that exists is a secret of that import:    *)
(* whatever version of the status mutatePods read, and whatever users, the *)
(* controller and the collector have done since.                           *)
THEOREM MountedAsAnnotatedHolds == InstallSpec => []MountedAsAnnotated
<1>1. InstallInv => MountedAsAnnotated
  <2>. SUFFICES ASSUME InstallInv, NEW p \in Pods, phase[p] = "running"
                PROVE  /\ [k \in 1..Len(volumes[p]) |-> volumes[p][k].path]
                              = annotation[p]
                       /\ \A k \in 1..Len(volumes[p]) : \A s \in secrets :
                             s.name = volumes[p][k].secret =>
                                 s.import = volumes[p][k].path
    BY DEF MountedAsAnnotated
  <2>1. /\ todo[p] = <<>> /\ Matches(volumes[p], <<>>, annotation[p])
        /\ annotation[p] \in Seq(Imports)
    BY DEF InstallInv, WebhookInv, MountInv, MountTypeOK, VolumesInOrder, InOrder
  <2>2. /\ Len(volumes[p]) = Len(annotation[p])
        /\ \A k \in 1..Len(volumes[p]) : volumes[p][k].path = annotation[p][k]
    BY <2>1 DEF Matches
  <2>3. [k \in 1..Len(volumes[p]) |-> volumes[p][k].path] = annotation[p]
    BY <2>1, <2>2
  <2>. QED  BY <2>3 DEF InstallInv, WebhookInv, MountInv, VolumesGiven, GivenTo
<1>. QED  BY <1>1, InstallInductive, PTL

(* A controller that runs has a client for every cluster that was in the   *)
(* annotation of its pod, and no other, or none at all.                    *)
THEOREM ClientsAsAnnouncedHolds == InstallSpec => []ClientsAsAnnounced
<1>1. InstallInv => ClientsAsAnnounced
  BY MountedNames DEF ClientsAsAnnounced, InstallInv, ProcessInv
<1>. QED  BY <1>1, InstallInductive, PTL

(* The client for a cluster was made with a token of that cluster, unless  *)
(* its import was pointed elsewhere.                                       *)
THEOREM ClientsReachTheirClusterHolds == InstallSpec => []ClientsReachTheirCluster
<1>1. InstallInv => ClientsReachTheirCluster
  <2>. SUFFICES ASSUME InstallInv, NEW c \in srcClients,
                       \A a \in requested[c] : ClusterOf[a] = c
                PROVE  ClusterOf[creds[c].account] = c
    BY DEF ClientsReachTheirCluster
  <2>1. pc # "down" /\ phase[Controller] = "running"
    BY DEF InstallInv, ProcessInv
  <2>2. c \in Seeds /\ creds[c] # None
    BY <2>1, MountedNames DEF InstallInv, ProcessInv
  <2>. QED  BY <2>2 DEF InstallInv, ProcessInv
<1>. QED  BY <1>1, InstallInductive, PTL

(* What bootstraps, pods and refused calls add to the importer lets no     *)
(* token cross from one import to another: a secret holds a token of an    *)
(* account its import's spec has named or a bootstrap of that name has     *)
(* asked for (target.go:52-75 may write one that the spec never named),    *)
(* although the bootstrap has read it long before, and names still         *)
(* identify the secrets they were given to.                                *)
THEOREM ImporterInstalled ==
    InstallSpec => [](RequestedCredentialsOnly /\ NamesIdentify)
<1>1. InstallInv => RequestedCredentialsOnly /\ NamesIdentify
  BY DEF InstallInv, WebhookInv, IdentityInv, CredentialsInv
<1>. QED  BY <1>1, InstallInductive, PTL
=============================================================================
