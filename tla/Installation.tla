---------------------------- MODULE Installation ----------------------------
(***************************************************************************)
(* A whole target cluster: the import controller, the webhook, the pods    *)
(* they serve, and the controller's own pod, which is one of them.         *)
(*                                                                         *)
(* The controller gets its clients from imports mounted in its pod, one    *)
(* for each source cluster and named after it.  A bootstrap makes such an  *)
(* import, gives it a first token, waits until the controller has put that *)
(* into the import's status, and then adds the import to the annotation in *)
(* the controller's Deployment; the Deployment kills the pod, and the next *)
(* one must pass through the webhook before it can start.                  *)
(*                                                                         *)
(* What Bootstrap.tla models call by call is here the read of the remote   *)
(* token and the three steps that change the target cluster.  A bootstrap  *)
(* may end after each of them, and may be run again.  Kubelet, Deployment  *)
(* and ReplicaSet are external.                                            *)
(***************************************************************************)
EXTENDS Automount

CONSTANTS
    Controller,  \* the controller's pod
    Seeds,       \* the imports named after source clusters, and the clusters
    Remote       \* Remote[c]: the controller's own account in cluster c

ASSUME InstallationAssumption ==
    /\ Controller \in Pods
    /\ Annotation[Controller] = <<>>
    /\ Seeds \subseteq Imports
    /\ ClusterOf \in [Accounts -> Seeds]
    /\ Remote \in [Seeds -> Accounts]
    /\ \A c \in Seeds : ClusterOf[Remote[c]] = c
    /\ None \notin Token

VARIABLES
    stage,     \* stage[c]: what the bootstrap of cluster c does next
    fetched,   \* fetched[c]: the token it has read in cluster c, or None
    owner,     \* owner[c]: the uid of the import it has made or found
    template,  \* the annotation in the Deployment's pod template
    files,     \* files[c]: the token in the import mounted for c, or None
    creds      \* creds[c]: the token the client for c was made with, or None

runVars == <<stage, fetched, owner>>
bootVars == <<runVars, template>>
processVars == <<files, creds>>
installVars == <<mountVars, bootVars, processVars>>

NoTokens == [c \in Seeds |-> None]

InstallInit ==
    /\ MountInit
    /\ stage = [c \in Seeds |-> "token"]
    /\ fetched = NoTokens
    /\ owner = [c \in Seeds |-> NoUID]
    /\ template = <<>>
    /\ files = NoTokens
    /\ creds = NoTokens

-----------------------------------------------------------------------------
(* Bootstraps.                                                             *)

Advance(c, from, to) == stage[c] = from /\ stage' = [stage EXCEPT ![c] = to]

(* The first token the remote account lists.                               *)
FetchToken(c) ==
    /\ Advance(c, "token", "import")
    /\ refs[Remote[c]] # <<>>
    /\ Head(refs[Remote[c]]) \in tokens
    /\ fetched' = [fetched EXCEPT ![c] = Head(refs[Remote[c]])]
    /\ UNCHANGED <<storeVars, owner, template>>

(* An import that exists is taken as it is, whatever account its spec      *)
(* names; that its Get finds nothing is a bootstrap that goes no further.  *)
(* The user who bootstraps asks for a token of the remote account.         *)
CreateSeed(c) ==
    /\ Advance(c, "import", "secret")
    /\ \/ /\ CreateImport(c, Remote[c])
          /\ owner' = [owner EXCEPT ![c] = created + 1]
       \/ /\ \E o \in sais : o.name = c /\ owner' = [owner EXCEPT ![c] = o.uid]
          /\ requested' = [requested EXCEPT ![c] = @ \union {Remote[c]}]
          /\ UNCHANGED <<created, sais, secrets, saiEvents, secretEvents>>
    /\ UNCHANGED <<fetched, template>>

(* What was read before is written, though the token may be revoked, and   *)
(* the import deleted, edited or another one, by now.                      *)
CreateSeedSecret(c) ==
    /\ Advance(c, "secret", "adoption")
    /\ UnderQuota
    /\ created' = created + 1
    /\ StoreSecret([MakeServiceAccountImportSecret(
                        [name |-> c, uid |-> owner[c]], fetched[c])
                            EXCEPT !.name = created + 1])
    /\ fetched' = [fetched EXCEPT ![c] = None]
    /\ owner' = [owner EXCEPT ![c] = NoUID]
    /\ UNCHANGED template

(* A bug: no waiting for the status of the import.                         *)
AnnounceAtOnce(c) ==
    /\ Advance(c, "adoption", "done")
    /\ template' = Append(template, c)
    /\ UNCHANGED <<storeVars, fetched, owner>>

(* The wait and the annotation, which gets the name again if it is there   *)
(* already.  Bootstraps that run at once do not disturb each other here    *)
(* (ListsAppendOnly of Bootstrap).                                         *)
AnnounceSeed(c) ==
    /\ Advance(c, "adoption", "done")
    /\ \E o \in sais : o.name = c /\ o.secrets # <<>>
    /\ template' = Append(template, c)
    /\ UNCHANGED <<storeVars, fetched, owner>>

Bootstrap(c) ==
    /\ \/ FetchToken(c) \/ CreateSeed(c) \/ CreateSeedSecret(c)
       \/ AnnounceSeed(c)
    /\ Watch
    /\ UNCHANGED <<sourceVars, controllerVars, editVars, podVars, processVars>>

(* The command ends early, or not, and a user runs it again.               *)
Rerun(c) ==
    /\ stage[c] # "token"
    /\ Fault
    /\ stage' = [stage EXCEPT ![c] = "token"]
    /\ fetched' = [fetched EXCEPT ![c] = None]
    /\ owner' = [owner EXCEPT ![c] = NoUID]
    /\ UNCHANGED <<storeVars, sourceVars, cacheVars, dirty, srcClients, pc,
                   localVars, editVars, hookVars, podVars, template, processVars>>

-----------------------------------------------------------------------------
(* The controller's pod.                                                   *)

(* It is deleted, and its owner submits another.                           *)
NewPod(annotated) ==
    /\ Reject(Controller)
    /\ annotation' = [annotation EXCEPT ![Controller] = annotated]
    /\ Die
    /\ files' = NoTokens /\ creds' = NoTokens
    /\ UNCHANGED <<created, sais, secrets, requested, sourceVars, editVars,
                   hookVars, bootVars>>

(* The Deployment recreates its pod when the template has changed: there   *)
(* are never two controllers, and for a while there is none.               *)
Recreate ==
    /\ template # annotation[Controller]
    /\ NewPod(template)
    /\ UNCHANGED faults

Evict ==
    /\ phase[Controller] = "running"
    /\ Fault
    /\ NewPod(annotation[Controller])

(* The kubelet mounts a secret that exists and keeps the file up to date;  *)
(* the file stays when the secret goes away.                               *)
MountFile(c) ==
    /\ phase[Controller] = "running"
    /\ \E v \in ToSet(volumes[Controller]) : \E s \in secrets :
          /\ v.path = c /\ v.secret = s.name
          /\ files[c] # s.data
          /\ files' = [files EXCEPT ![c] = s.data]
    /\ UNCHANGED <<mountVars, bootVars, creds>>

Mounted == {v.path : v \in ToSet(volumes[Controller])}

(* A bug: a cluster that cannot be reached when the process starts is left *)
(* out, and not tried again.                                               *)
MakeReachableClients ==
    /\ srcClients' \in SUBSET {c \in Mounted : files[c] \in tokens}
    /\ creds' = [c \in Seeds |-> IF c \in srcClients' THEN files[c] ELSE None]

(* It makes a client of each import in its directory, and exits at once,   *)
(* to be restarted, if one of them is refused by its cluster.              *)
MakeClients ==
    /\ \A c \in Mounted : files[c] \in tokens
    /\ srcClients' = Mounted
    /\ creds' = files

(* A directory that cannot be opened, for whatever reason, is taken for    *)
(* one that is not there: the process runs, and has no client.             *)
FindNoImports ==
    /\ srcClients' = {}
    /\ creds' = NoTokens

(* The process starts when all the volumes of its pod are there.           *)
StartController ==
    /\ phase[Controller] = "running"
    /\ \A c \in Mounted : files[c] # None
    /\ Start
    /\ MakeClients \/ FindNoImports
    /\ UNCHANGED <<hookVars, podVars, bootVars, files>>

(* The container is restarted in its pod; the webhook has no part in it.   *)
CrashController ==
    /\ Crash
    /\ creds' = NoTokens
    /\ UNCHANGED <<hookVars, podVars, bootVars, files>>

-----------------------------------------------------------------------------
(* The controller's work, with the credentials it started with.            *)

Client == ClusterOf[sai.spec]
Calling == pc \in {"account", "token"} /\ Client \in srcClients
Authorized == creds[Client] \in tokens

ReconcileAuthorized ==
    /\ Calling => Authorized
    /\ Reconcile
    /\ Watch

(* A source cluster refuses a call made with a token it has revoked.       *)
Unauthorized ==
    /\ Calling /\ ~Authorized
    /\ Requeue
    /\ UNCHANGED <<storeVars, sourceVars, cacheVars, srcClients, counters, hookVars>>

Worker ==
    /\ ReconcileAuthorized \/ Unauthorized
    /\ UNCHANGED <<podVars, bootVars, processVars>>

(* Users make imports of their own, as many as there are names.            *)
CreateOtherImport ==
    /\ \E i \in Imports \ Seeds, a \in Accounts : CreateImport(i, a)
    /\ UNCHANGED <<sourceVars, controllerVars, editVars>>

Around ==
    /\ (\E i \in Imports : TakeRequest(i)) \/ Others \/ CreateOtherImport
    /\ Watch
    /\ UNCHANGED <<podVars, bootVars, processVars>>

Webhook ==
    /\ \/ HandleHookEvent
       \/ \E p \in Pods : Review(p)
       \/ \E p \in Pods \ {Controller} : RestartPod(p)
       \/ RestartWebhook
    /\ UNCHANGED <<bootVars, processVars>>

InstallNext ==
    \/ \E c \in Seeds : Bootstrap(c) \/ Rerun(c) \/ MountFile(c)
    \/ Recreate \/ Evict
    \/ StartController \/ CrashController
    \/ Worker \/ Around \/ Webhook

InstallSpec == InstallInit /\ [][InstallNext]_installVars

(* The processes, the kubelet and the controllers of Kubernetes keep       *)
(* running, and owners submit their pods again.  Nothing is assumed of     *)
(* bootstraps, which a user may interrupt.                                 *)
InstallFairness ==
    /\ WF_installVars(Recreate)
    /\ WF_installVars(StartController)
    /\ \A c \in Seeds : WF_installVars(MountFile(c))
    /\ WF_installVars(Worker)
    /\ WF_vars(HandleImportEvent) /\ WF_vars(HandleSecretEvent)
    /\ WF_vars(Resync)
    /\ \A i \in Imports : SF_vars(TakeRequest(i))
    /\ WF_vars(Collect) /\ WF_vars(Forget)
    /\ WF_mountVars(HandleHookEvent)
    /\ \A p \in Pods : WF_mountVars(Review(p))

InstallFairSpec == InstallSpec /\ InstallFairness

-----------------------------------------------------------------------------
(* Properties.                                                             *)

(* Every variable has its type; a bootstrap that is about to write a token *)
(* has one, and only a process that runs has clients.                      *)
InstallTypeOK ==
    /\ MountTypeOK
    /\ stage \in [Seeds -> {"token", "import", "secret", "adoption", "done"}]
    /\ fetched \in [Seeds -> Token \union {None}]
    /\ owner \in [Seeds -> Nat]
    /\ template \in Seq(Seeds)
    /\ files \in [Seeds -> Token \union {None}]
    /\ creds \in [Seeds -> Token \union {None}]
    /\ \A c \in Seeds : stage[c] \in {"import", "secret"} => fetched[c] # None
    /\ pc = "down" => creds = NoTokens

(* A controller that runs has a client for every cluster its pod was       *)
(* annotated with, or none at all, but never for a part of them, though    *)
(* webhook, kubelet and process are three, and each takes what the one     *)
(* before it left.                                                         *)
ClientsAsAnnounced ==
    pc # "down" =>
        /\ srcClients \in {ToSet(annotation[Controller]), {}}
        /\ \A c \in srcClients : creds[c] # None

(* The client for a cluster has a token of that cluster, unless a user has *)
(* asked for something else under the cluster's name.                      *)
ClientsReachTheirCluster ==
    \A c \in srcClients :
        (\A a \in requested[c] : ClusterOf[a] = c) =>
            ClusterOf[creds[c].account] = c

(* Nobody has changed anything in either cluster but with bootstraps, and  *)
(* none of these has announced an import a second time.                    *)
Unspoilt == edits = 0 /\ sourceEdits = 0 /\ IsInjective(template)

(* The controller always comes back after it was bootstrapped, evicted or  *)
(* killed, although its own pod needs secrets that nobody would make while *)
(* it is away: a bootstrap, ended or interrupted or run again, leaves the  *)
(* cluster in a state from which the pod can be made again, so long as no  *)
(* user changes anything else and no bootstrap that succeeded is repeated. *)
ControllerReturns == <>[](Unspoilt => pc # "down")

(* The controller, if it runs, has found the imports of its pod.           *)
ImportsFound == pc # "down" => srcClients = Mounted

(* The cluster of o's account is bootstrapped, the account has tokens, and *)
(* o has a secret already or the quota leaves room for one.                *)
Served(o) ==
    /\ Unspoilt /\ ImportsFound
    /\ SecretsOf(o.name) # {} \/ UnderQuota
    /\ ClusterOf[o.spec] \in ToSet(template)
    /\ LiveTokens(o) # {}

(* From a bootstrapped cluster every import gets a secret with a live      *)
(* token, the clusters' own imports included: what the installation is for *)
(* (README.md:163), on the conditions of ControllerReturns and if the      *)
(* controller has found its imports when it started.                       *)
BootstrappedImported ==
    <>[](\A o \in sais :
            Served(o) => \E s \in SecretsOf(o.name) : s.data \in LiveTokens(o))

(* A pod that is created before its imports or their secrets is rejected   *)
(* until they are there, and is then admitted (README.md:200), on the      *)
(* conditions of BootstrappedImported.                                     *)
EventuallyRunning ==
    <>[](\A p \in {q \in Pods : IsInjective(annotation[q])} :
            (\A n \in ToSet(annotation[p]) :
                \E o \in sais : o.name = n /\ Served(o)) =>
                    phase[p] = "running")

-----------------------------------------------------------------------------
(* What comments of the code say and the code does not do.                 *)

(* automount.go:184 "to resolve race condition [...] the controller trying *)
(* to create the pod should retry later": the controller's own pod comes   *)
(* up in the end when its imports and their accounts' tokens exist.        *)
RetriedUntilReady ==
    <>[]((\A c \in ToSet(template) : \E o \in sais :
             o.name = c /\ o.spec \in accounts /\ LiveTokens(o) # {}) =>
                 pc # "down")
=============================================================================
