------------------------------ MODULE Importer ------------------------------
(***************************************************************************)
(* The service account import controller (pkg/importer): a controller with *)
(* one worker that copies the token secrets of remote service accounts     *)
(* into local secrets.  It reads ServiceAccountImports and Secrets from    *)
(* informer caches that trail the API server, reads the source clusters    *)
(* directly, and writes to the API server under optimistic locking.        *)
(*                                                                         *)
(* One call to an API is one step, so anything may happen between two      *)
(* calls of a reconciliation.  The names of the code are kept: sai is the  *)
(* import being reconciled, osl the observed secrets, dss the desired      *)
(* ones, osm the map from remote UID label to observed secret.             *)
(***************************************************************************)
EXTENDS Kubernetes, SourceClusters, SequencesExt

CONSTANTS
    ClusterOf,   \* ClusterOf[a]: the clusterName of account a
    ClientSets,  \* the sets of clusters the controller may start with
    None,        \* no import, no secret
    MaxEdits,    \* how many things users do in the target cluster
    MaxSourceEdits,  \* how many things users do in the source clusters
    MaxFaults    \* how many calls fail and how often the controller crashes

ASSUME BoundsAssumption ==
    MaxEdits \in Nat /\ MaxSourceEdits \in Nat /\ MaxFaults \in Nat

VARIABLES
    saiCache,     \* informer cache of ServiceAccountImports
    secretCache,  \* informer cache of Secrets
    dirty,        \* work queue: the requests waiting for the worker
    srcClients,   \* the clusters the controller has a client for
    pc,           \* what the worker does next, or "down"
    req,          \* the request being reconciled
    sai, osl, remaining, dss,
    osm,          \* the keys of the map of observed secrets
    os,           \* the variable every value of that map points to
    edits, sourceEdits, faults \* how much of each bound is spent

cacheVars == <<saiCache, secretCache>>
localVars == <<req, sai, osl, remaining, dss, osm, os>>
editVars == <<edits, sourceEdits>>
counters == <<editVars, faults>>
vars == <<storeVars, sourceVars, cacheVars, dirty, srcClients, pc,
          localVars, counters>>

-----------------------------------------------------------------------------
(* Starting, stopping, and the outcomes of a reconciliation.               *)

(* A bug: the desired secrets are a field of the reconciler, left behind   *)
(* by a reconciliation that failed.                                        *)
ClearLocalsButDesired ==
    /\ req' = None /\ sai' = None /\ osl' = <<>> /\ remaining' = <<>>
    /\ osm' = {} /\ os' = None
    /\ UNCHANGED dss

ClearLocals ==
    /\ req' = None /\ sai' = None /\ osl' = <<>> /\ remaining' = <<>>
    /\ dss' = <<>> /\ osm' = {} /\ os' = None

Init ==
    /\ StoreInit
    /\ SourceInit
    /\ saiCache = {} /\ secretCache = {}
    /\ dirty = {}
    /\ srcClients = {}
    /\ pc = "down"
    /\ req = None /\ sai = None /\ osl = <<>> /\ remaining = <<>>
    /\ dss = <<>> /\ osm = {} /\ os = None
    /\ edits = 0 /\ sourceEdits = 0 /\ faults = 0

(* The controller builds one client per mounted import or kubeconfig       *)
(* context, fills its caches, and only then starts its worker; the initial *)
(* lists are handled like the events of as many new objects.               *)
Start ==
    /\ pc = "down"
    /\ srcClients' \in ClientSets
    /\ saiCache' = sais /\ secretCache' = secrets
    /\ saiEvents' = <<>> /\ secretEvents' = <<>>
    /\ dirty' = {o.name : o \in sais} \union {s.import : s \in secrets}
    /\ pc' = "idle"
    /\ UNCHANGED <<created, sais, secrets, requested, sourceVars, localVars,
                   counters>>

Fault == faults < MaxFaults /\ faults' = faults + 1

(* The process ends, and with it its clients, caches, queue and locals.    *)
Die ==
    /\ pc' = "down"
    /\ saiCache' = {} /\ secretCache' = {} /\ dirty' = {}
    /\ srcClients' = {}
    /\ saiEvents' = <<>> /\ secretEvents' = <<>>
    /\ ClearLocals

Crash ==
    /\ pc # "down"
    /\ Fault
    /\ Die
    /\ UNCHANGED <<created, sais, secrets, requested, sourceVars, editVars>>

(* Reconcile returned an error: the request is queued again.  It is after  *)
(* a delay, but any waiting request may wait longer than another.          *)
Requeue ==
    /\ pc' = "idle"
    /\ dirty' = dirty \union {req}
    /\ ClearLocals

(* Reconcile returned no error.                                            *)
Finish ==
    /\ pc' = "idle"
    /\ ClearLocals
    /\ UNCHANGED dirty

(* A call that the server refuses or that never reaches it.                *)
FailCall == Fault /\ Requeue /\ UNCHANGED storeVars

-----------------------------------------------------------------------------
(* The two watches and the work queue.                                     *)

HandleImportEvent ==
    /\ pc # "down"
    /\ saiEvents # <<>>
    /\ saiCache' = Apply(saiCache, Head(saiEvents))
    /\ dirty' = dirty \union {Head(saiEvents).obj.name}
    /\ saiEvents' = Tail(saiEvents)
    /\ UNCHANGED <<created, sais, secrets, secretEvents, requested, sourceVars,
                   secretCache, srcClients, pc, localVars, counters>>

HandleSecretEvent ==
    /\ pc # "down"
    /\ secretEvents # <<>>
    /\ secretCache' = Apply(secretCache, Head(secretEvents))
    /\ dirty' = dirty \union {Head(secretEvents).obj.import}
    /\ secretEvents' = Tail(secretEvents)
    /\ UNCHANGED <<created, sais, secrets, saiEvents, requested, sourceVars,
                   saiCache, srcClients, pc, localVars, counters>>

(* Every ten hours the informers replay the objects in their caches; a     *)
(* watch is never that late.                                               *)
Resync ==
    /\ pc # "down"
    /\ saiEvents = <<>> /\ secretEvents = <<>>
    /\ dirty' = dirty \union {o.name : o \in saiCache}
                      \union {s.import : s \in secretCache}
    /\ UNCHANGED <<storeVars, sourceVars, cacheVars, srcClients, pc,
                   localVars, counters>>

TakeRequest(i) ==
    /\ pc = "idle"
    /\ i \in dirty
    /\ dirty' = dirty \ {i}
    /\ req' = i
    /\ pc' = "get"
    /\ UNCHANGED <<storeVars, sourceVars, cacheVars, srcClients,
                   sai, osl, remaining, dss, osm, os, counters>>

-----------------------------------------------------------------------------
(* The worker: gathering observations.                                     *)

GetImport ==
    /\ pc = "get"
    /\ \/ \E o \in saiCache :
             /\ o.name = req
             /\ sai' = o
             /\ pc' = "list"
             /\ UNCHANGED <<dirty, req, osl, remaining, dss, osm, os>>
       \/ /\ \A o \in saiCache : o.name # req
          /\ Finish
    /\ UNCHANGED <<storeVars, sourceVars, cacheVars, srcClients, counters>>

NamesOf(l) == [k \in 1..Len(l) |-> l[k].name]

(* What the label selector selects, and a bug: a list without one.         *)
WithoutSelector == secretCache
Selected == {s \in secretCache : s.import = sai.name}

(* The status is only written when it does not name the same set; a bug:   *)
(* when it does not name as many.                                          *)
SameNumber(l) == Len(l) = Len(sai.secrets)
StatusNames(l) == ToSet(NamesOf(l)) = ToSet(sai.secrets)

(* The cache lists the secrets in no particular order.                     *)
ListSecrets ==
    /\ pc = "list"
    /\ osl' \in SetToSeqs(Selected)
    /\ pc' = IF StatusNames(osl') THEN "account" ELSE "status"
    /\ UNCHANGED <<storeVars, sourceVars, cacheVars, dirty, srcClients,
                   req, sai, remaining, dss, osm, os, counters>>

(* The import has no status subresource: the update writes the whole       *)
(* object, the spec of the cached copy included.                           *)
NewImport == [sai EXCEPT !.secrets = NamesOf(osl)]

(* A bug: an update that carries no resourceVersion.                       *)
StoreStatusUnconditionally ==
    /\ \E p \in sais :
          /\ p.name = sai.name
          /\ StoreImport([NewImport EXCEPT !.uid = p.uid, !.rv = p.rv])
    /\ UNCHANGED <<created, requested>>

StoreStatus ==
    /\ ImportIsCurrent(sai)
    /\ StoreImport(NewImport)
    /\ UNCHANGED <<created, requested>>

UpdateStatus ==
    /\ pc = "status"
    /\ \/ /\ StoreStatus
          /\ sai' = Stored(NewImport)
          /\ pc' = "account"
          /\ UNCHANGED <<dirty, req, osl, remaining, dss, osm, os, faults>>
       \/ StoreStatus /\ Fault /\ Requeue  \* the answer is lost
       \/ /\ ~ImportIsCurrent(sai)
          /\ Requeue
          /\ UNCHANGED <<storeVars, faults>>
       \/ FailCall
    /\ UNCHANGED <<sourceVars, cacheVars, srcClients, editVars>>

-----------------------------------------------------------------------------
(* The worker: making the desired secrets from the source cluster.         *)

(* A bug: the map's values are taken before the loop has set its variable. *)
MapObservedTooEarly ==
    /\ osm' = {s.remoteUID : s \in ToSet(osl)}
    /\ os' = None
    /\ osl' = <<>>
    /\ pc' = "apply"

(* The map of observed secrets: its keys, and the one secret that all of   *)
(* its values point to, the loop variable when the loop has ended.         *)
MapObserved ==
    /\ osm' = {s.remoteUID : s \in ToSet(osl)}
    /\ os' = IF osl = <<>> THEN None ELSE Last(osl)
    /\ osl' = <<>>  \* not read any more
    /\ pc' = "apply"

(* A bug, which a comment of the code considers: an account that lists no  *)
(* token is an error.                                                      *)
GetAccountWithTokens ==
    /\ pc = "account"
    /\ IF /\ ClusterOf[sai.spec] \in srcClients
          /\ sai.spec \in accounts
          /\ refs[sai.spec] # <<>>
          THEN /\ remaining' = refs[sai.spec]
               /\ pc' = "token"
               /\ UNCHANGED <<dirty, req, sai, osl, dss, osm, os>>
          ELSE Requeue
    /\ UNCHANGED <<storeVars, sourceVars, cacheVars, srcClients, counters>>

GetAccount ==
    /\ pc = "account"
    /\ \/ /\ \/ ClusterOf[sai.spec] \notin srcClients
             \/ sai.spec \notin accounts
          /\ Requeue
          /\ UNCHANGED faults
       \/ /\ ClusterOf[sai.spec] \in srcClients
          /\ sai.spec \in accounts
          /\ remaining' = refs[sai.spec]
          /\ IF remaining' = <<>>
                THEN MapObserved
                ELSE pc' = "token" /\ UNCHANGED <<osl, osm, os>>
          /\ UNCHANGED <<dirty, req, sai, dss, faults>>
       \/ /\ ClusterOf[sai.spec] \in srcClients
          /\ Fault /\ Requeue
    /\ UNCHANGED <<storeVars, sourceVars, cacheVars, srcClients, editVars>>

(* The exported secret is a new object: the remote secret's data is copied *)
(* into it, and its own UID is still empty.                                *)
ExportServiceAccountSecret(t) == [uid |-> NoUID, data |-> t]

(* A bug: no controller reference is set.                                  *)
MakeSecretWithoutOwner(o, t) ==
    [name |-> 0, rv |-> 0, import |-> o.name, owner |-> NoUID,
     remoteUID |-> NoUID, data |-> t]

(* A desired secret: the server will give it its name and version.         *)
MakeServiceAccountImportSecret(o, t) ==
    LET s == ExportServiceAccountSecret(t)
    IN  [name |-> 0, rv |-> 0, import |-> o.name, owner |-> o.uid,
         remoteUID |-> s.uid, data |-> s.data]

(* A listed secret that does not exist is skipped.                         *)
GetToken ==
    /\ pc = "token"
    /\ \/ /\ dss' = IF Head(remaining) \in tokens
                       THEN Append(dss, MakeServiceAccountImportSecret(
                                            sai, Head(remaining)))
                       ELSE dss
          /\ remaining' = Tail(remaining)
          /\ IF remaining' = <<>>
                THEN MapObserved
                ELSE UNCHANGED <<pc, osl, osm, os>>
          /\ UNCHANGED <<dirty, req, sai, faults>>
       \/ Fault /\ Requeue
    /\ UNCHANGED <<storeVars, sourceVars, cacheVars, srcClients, editVars>>

-----------------------------------------------------------------------------
(* The worker: comparing the desired secrets to the observed ones.         *)

(* A bug: the key stays in the map, whose secrets are deleted in the end.  *)
NextDesiredKeepingKey ==
    /\ dss' = Tail(dss)
    /\ UNCHANGED <<osm, pc, dirty, req, sai, osl, remaining, faults>>

(* The next desired secret is done with, and so is its key in the map.     *)
NextDesired ==
    /\ osm' = osm \ {Head(dss).remoteUID}
    /\ dss' = Tail(dss)
    /\ UNCHANGED <<pc, dirty, req, sai, osl, remaining, faults>>

(* Whether an observed secret holds the desired data already; two bugs:    *)
(* comparing the account or the token alone.                               *)
SameAccount == Head(dss).data.account = os.data.account
SameSerial == Head(dss).data.serial = os.data.serial
SameData == Head(dss).data = os.data

StoreNewSecret ==
    /\ UnderQuota
    /\ created' = created + 1
    /\ StoreSecret([Head(dss) EXCEPT !.name = created + 1])

CreateSecret ==
    /\ pc = "apply"
    /\ dss # <<>>
    /\ Head(dss).remoteUID \notin osm
    /\ \/ StoreNewSecret /\ NextDesired /\ UNCHANGED os
       \/ StoreNewSecret /\ Fault /\ Requeue  \* the answer is lost
       \/ /\ ~UnderQuota
          /\ Requeue
          /\ UNCHANGED <<storeVars, faults>>
       \/ FailCall
    /\ UNCHANGED <<sourceVars, cacheVars, srcClients, editVars>>

NewSecret == [os EXCEPT !.data = Head(dss).data]

StoreData ==
    /\ SecretIsCurrent(os)
    /\ StoreSecret(NewSecret)
    /\ UNCHANGED created

UpdateSecret ==
    /\ pc = "apply"
    /\ dss # <<>>
    /\ Head(dss).remoteUID \in osm
    /\ ~SameData
    /\ \/ /\ StoreData
          /\ os' = Stored(NewSecret)
          /\ NextDesired
       \/ StoreData /\ Fault /\ Requeue  \* the answer is lost
       \/ /\ ~SecretIsCurrent(os)
          /\ Requeue
          /\ UNCHANGED <<storeVars, faults>>
       \/ FailCall
    /\ UNCHANGED <<sourceVars, cacheVars, srcClients, editVars>>

KeepSecret ==
    /\ pc = "apply"
    /\ dss # <<>>
    /\ Head(dss).remoteUID \in osm
    /\ SameData
    /\ NextDesired
    /\ UNCHANGED <<storeVars, sourceVars, cacheVars, srcClients, os, editVars>>

(* The keys no desired secret had: every one deletes the secret that all   *)
(* of them point to.  A delete carries no version.                         *)
DeleteSecret ==
    /\ pc = "apply"
    /\ dss = <<>>
    /\ osm # {}
    /\ \/ /\ RemoveSecret(os.name)
          /\ \E key \in osm : osm' = osm \ {key}
          /\ UNCHANGED <<pc, dirty, req, sai, osl, remaining, dss, os, faults>>
       \/ RemoveSecret(os.name) /\ Fault /\ Requeue  \* the answer is lost
       \/ /\ \A s \in secrets : s.name # os.name
          /\ Requeue
          /\ UNCHANGED <<storeVars, faults>>
       \/ FailCall
    /\ UNCHANGED <<sourceVars, cacheVars, srcClients, editVars>>

FinishReconcile ==
    /\ pc = "apply"
    /\ dss = <<>>
    /\ osm = {}
    /\ Finish
    /\ UNCHANGED <<storeVars, sourceVars, cacheVars, srcClients, counters>>

(* One step of the controller's only worker.                               *)
Reconcile ==
    \/ GetImport \/ ListSecrets \/ UpdateStatus
    \/ GetAccount \/ GetToken
    \/ CreateSecret \/ UpdateSecret \/ KeepSecret \/ DeleteSecret
    \/ FinishReconcile

-----------------------------------------------------------------------------
(* The environment.                                                        *)

controllerVars == <<cacheVars, dirty, srcClients, pc, localVars, faults>>

Edit == edits < MaxEdits /\ edits' = edits + 1

(* The imports that are there when the controller first starts.            *)
Prepare ==
    /\ pc = "down" /\ faults = 0
    /\ \E i \in Imports, a \in Accounts : CreateImport(i, a)
    /\ UNCHANGED <<sourceVars, controllerVars, editVars>>

UseTarget ==
    /\ Edit
    /\ \/ \E i \in Imports, a \in Accounts : CreateImport(i, a)
       \/ \E o \in sais : \E a \in Accounts : EditSpec(o, a)
       \/ \E o \in sais : DeleteImport(o)
       \/ \E s \in secrets : DeleteSecretByHand(s)
    /\ UNCHANGED <<sourceVars, controllerVars, sourceEdits>>

UseSource ==
    /\ sourceEdits < MaxSourceEdits /\ sourceEdits' = sourceEdits + 1
    /\ \/ \E a \in Accounts : CreateAccount(a)
       \/ \E a \in Accounts : AddToken(a)
       \/ \E t \in tokens : DeleteToken(t)
       \/ \E a \in Accounts : DeleteAccount(a)
    /\ UNCHANGED <<storeVars, controllerVars, edits>>

(* The collector has watches of its own.  That it learns of a deletion     *)
(* before the controller does is counted with the edits: it could go on    *)
(* collecting what the controller, unaware, creates again.                 *)
Collect ==
    /\ \E s \in secrets : CollectGarbage(s)
    /\ IF saiEvents = <<>> THEN UNCHANGED edits ELSE Edit
    /\ UNCHANGED <<sourceVars, controllerVars, sourceEdits>>

Forget ==
    /\ \E a \in Accounts : ForgetToken(a)
    /\ UNCHANGED <<storeVars, controllerVars, editVars>>

(* What may come between two steps of the worker.                          *)
Others ==
    \/ HandleImportEvent \/ HandleSecretEvent \/ Resync
    \/ UseTarget \/ UseSource \/ Collect \/ Forget

Next ==
    \/ Start \/ Crash \/ Prepare
    \/ \E i \in Imports : TakeRequest(i)
    \/ Reconcile
    \/ Others

Spec == Init /\ [][Next]_vars

(* The worker, the informers and the delayed queue are goroutines that     *)
(* keep running, the Deployment restarts the controller, and the work      *)
(* queue is first in first out: a waiting request is taken even though     *)
(* the worker is not idle all the time.                                    *)
Fairness ==
    /\ WF_vars(Start) /\ WF_vars(Reconcile)
    /\ WF_vars(HandleImportEvent) /\ WF_vars(HandleSecretEvent)
    /\ WF_vars(Resync)
    /\ \A i \in Imports : SF_vars(TakeRequest(i))
    /\ WF_vars(Collect) /\ WF_vars(Forget)

FairSpec == Spec /\ Fairness

-----------------------------------------------------------------------------
(* Safety.                                                                 *)

WorkerStates == {"down", "idle", "get", "list", "status", "account", "token",
                 "apply"}

(* The caches and the queue have their types.                              *)
CacheTypeOK ==
    /\ saiCache \subseteq ServiceAccountImport
    /\ secretCache \subseteq Secret
    /\ IsFiniteSet(secretCache)
    /\ dirty \subseteq Imports

(* The worker's locals are set when the lines of Reconcile that read them  *)
(* are reached.                                                            *)
WorkerTypeOK ==
    /\ pc \in WorkerStates
    /\ pc \notin {"down", "idle"} => req \in Imports
    /\ pc \notin {"down", "idle", "get"} => sai \in ServiceAccountImport
    /\ osl \in Seq(Secret)
    /\ remaining \in Seq(Token)
    /\ pc = "token" => remaining # <<>>
    /\ dss \in Seq(Secret)
    /\ osm \subseteq Nat
    /\ osm # {} => os \in Secret

CountersTypeOK == edits \in Nat /\ sourceEdits \in Nat /\ faults \in Nat

(* Every variable has its type; no line of Reconcile reads a local that    *)
(* was not set.                                                            *)
TypeOK ==
    /\ StoreTypeOK
    /\ SourceTypeOK
    /\ CacheTypeOK
    /\ WorkerTypeOK
    /\ CountersTypeOK

(* Every copy of an import, however stale, has a spec users wrote.         *)
Reconciling == pc \notin {"down", "idle", "get"}

ImportCopies ==
    sais \union saiCache \union {e.obj : e \in ToSet(saiEvents)}
         \union (IF Reconciling THEN {sai} ELSE {})

SpecsRequested == \A o \in ImportCopies : o.spec \in requested[o.name]

(* What the worker has in its hands belongs to the import it reconciles:   *)
(* observed and desired secrets are that import's, desired tokens are of   *)
(* the account in its spec.                                                *)
LocalsOwned ==
    /\ Reconciling => sai.name = req
    /\ ~Reconciling =>
          remaining = <<>> /\ dss = <<>> /\ osl = <<>> /\ osm = {}
    /\ \A t \in ToSet(remaining) : t.account = sai.spec
    /\ \A s \in ToSet(dss) : s.import = req /\ s.data.account = sai.spec
    /\ \A s \in ToSet(osl) : s.import = req
    /\ osm # {} => os.import = req

(* Where everything comes from; the next property rests on it.             *)
Provenance == SpecsRequested /\ TokensOwned /\ LocalsOwned

(* An imported secret holds a token of an account that users have asked    *)
(* for under the name of its own import, in its spec or, in Installation,  *)
(* with a bootstrap, never one asked for under another name: stale caches, *)
(* versions and locals never cross two imports.                            *)
RequestedCredentialsOnly ==
    \A s \in secrets : s.data.account \in requested[s.import]

(* While it reconciles one import, the controller creates, updates and     *)
(* deletes that import's secrets only (the label selector of               *)
(* importer.go:133 and the labels of MakeServiceAccountImportSecret).      *)
OthersUntouched ==
    [][Reconcile =>
          \A s \in (secrets \ secrets') \union (secrets' \ secrets) :
              s.import = req]_vars

SecretsOf(i) == {s \in secrets : s.import = i}

(* However stale what it reads and whatever fails, the controller gives    *)
(* and takes credentials as the abstract ImportedCredentials allows: to    *)
(* one import at a time, and only what that import has asked for.          *)
Credentials == INSTANCE ImportedCredentials WITH
    held <- [i \in Imports |-> {s.data.account : s \in SecretsOf(i)}]

CredentialsImplemented == Credentials!Spec

(* A live secret named in an import's status belongs to that import: what  *)
(* the webhook mounts from Status.Secrets is never another import's.       *)
StatusListsOwnSecrets ==
    \A o \in sais : \A s \in secrets :
        s.name \in ToSet(o.secrets) => s.import = o.name

(* Names are given once, and every copy of a secret has the name of the    *)
(* secret it was read from: so a write or a delete by name, from a copy    *)
(* however stale, reaches a secret of the import it was meant for, or none *)
(* at all, and a status names no secret of another import even in future.  *)
SecretCopies ==
    secrets \union secretCache \union {e.obj : e \in ToSet(secretEvents)}
            \union ToSet(osl) \union (IF osm # {} THEN {os} ELSE {})

GivenTo(n, i) ==
    n <= created /\ \A s \in secrets : s.name = n => s.import = i

NamesIdentify ==
    /\ \A s, t \in secrets : s.name = t.name => s = t
    /\ \A s \in SecretCopies : GivenTo(s.name, s.import)
    /\ \A o \in sais : \A n \in ToSet(o.secrets) : GivenTo(n, o.name)

(* The controller writes whole imports from its cache, yet it never undoes *)
(* a user's edit of a spec, nor revives a deleted import.                  *)
SpecNeverReverted ==
    [][Reconcile =>
          \A o \in sais' : \E p \in sais : /\ p.name = o.name
                                           /\ p.uid = o.uid
                                           /\ p.spec = o.spec]_vars

-----------------------------------------------------------------------------
(* Liveness: what holds when users have stopped editing and calls have     *)
(* stopped failing, as the bounds make sure they do.                       *)

(* The tokens a reconciliation of o would find.                            *)
LiveTokens(o) == ToSet(refs[o.spec]) \intersect tokens

Reachable(o) == ClusterOf[o.spec] \in srcClients /\ o.spec \in accounts

(* The status of every import comes to name its secrets, all of them and   *)
(* no other, whatever was lost, stale or refused on the way.               *)
StatusEventuallyAccurate ==
    <>[](\A o \in sais :
            ToSet(o.secrets) = {s.name : s \in SecretsOf(o.name)})

(* Every import whose account is known and has a token comes to have a     *)
(* secret that holds a token its account still has.                        *)
EventuallyImported ==
    <>[](\A o \in sais :
            (Reachable(o) /\ LiveTokens(o) # {}) =>
                \E s \in SecretsOf(o.name) : s.data \in LiveTokens(o))

(* When the account of an import has no token any more, its secrets go     *)
(* away, one with each reconciliation.                                     *)
EventuallyWithdrawn ==
    <>[](\A o \in sais :
            (Reachable(o) /\ LiveTokens(o) = {}) => SecretsOf(o.name) = {})

(* No secret outlives its import for ever, not even one that was created   *)
(* from a stale copy of the import after it was deleted.                   *)
OrphansCollected ==
    <>[](\A s \in secrets : \E o \in sais : o.uid = s.owner)

-----------------------------------------------------------------------------
(* What comments of the code say and the code does not do.                 *)

(* importer.go:172 "Compare observation to desired state: create, update   *)
(* or delete Secrets": an import comes to have no more secrets than its    *)
(* account has tokens.                                                     *)
EventuallyNoDuplicates ==
    <>[](\A o \in sais :
            Reachable(o) =>
                Cardinality(SecretsOf(o.name)) <= Cardinality(LiveTokens(o)))
=============================================================================
