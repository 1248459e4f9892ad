# Verification of multicluster-service-account

Multicluster-service-account copies the tokens of service accounts of *source
clusters* into secrets of a *target cluster* and mounts them in annotated pods.
This directory holds TLA+ models of its Go code, the TLC runs that check them
and TLAPS proofs about them.  Line numbers are those of the repository's files.

## 1. The system and its parts

| part | state | operations | model |
|---|---|---|---|
| service account import controller (`pkg/importer`, `cmd/service-account-import-controller`) | informer caches of ServiceAccountImports and Secrets, a work queue, one client per source cluster; during a reconciliation, its locals | `Add` (start), the two watches, `Reconcile`, `makeSecrets`, `MakeServiceAccountImportSecret`, `ExportServiceAccountSecret` | `Importer.tla` |
| admission webhook (`pkg/automount`, `cmd/service-account-import-admission-controller`) | an informer cache of ServiceAccountImports; per review, a copy of the pod | `Handle`, `mutatePodsFn` | `Automount.tla` |
| the controller's pod: `config/install/importer.yaml`, `main` of the controller | the Deployment's annotation, the pod's volumes, the files in them, the clients made from them | bootstrap, recreation, eviction, mounting, start, crash | `Installation.tla` |
| `kubemcsa bootstrap` (`pkg/bootstrap`) | none of its own: the variables of a sequence of API calls on two clusters | `newCluster`, `bootstrapClusters` and the calls it makes | `Bootstrap.tla`, `ImportList.tla` |
| `kubemcsa export` (`pkg/bootstrap/export.go`) | none | `Export` | the two calls it shares with bootstrap |
| client configuration (`pkg/config`) | none of its own: a loader that keeps what it read, during a call | `[Named]ConfigAndNamespace`, `All...ConfigsAndNamespaces`, `ConfigAndNamespaceForContext`, ... | `ClientConfig.tla` |
| API types (`pkg/apis`) | the schema of ServiceAccountImport | | a record of `Kubernetes.tla` |
| API server, garbage collector, quota of the target cluster | imports, secrets | create, update, delete, watch | `Kubernetes.tla` (external) |
| source clusters | service accounts, token secrets | get; users and the token controller change them | `Tokens.tla`, `SourceClusters.tla` (external) |

How they interact.  The controller *reads* imports and secrets from caches that
trail the API server and *reads* source clusters directly; it *writes* secrets
and statuses to the API server, whose watches are what makes it run again.  The
webhook reads, from a cache of its own, the statuses the controller wrote.
Bootstrap writes an import, its first secret and an annotation on the
controller's Deployment, whose new pods pass through the webhook and start the
controller with one more client.

Hard behaviours: stale caches; two watches that are not ordered; a
reconciliation of many calls with users in between; lost answers; crashes;
source clusters that are not watched at all; bootstraps that run at once or are
repeated after a failure; reviews that see an import change half way; a controller
whose own pod needs what only the controller makes; files replaced while a call
reads them.

What makes each part correct:

- importer: a secret holds a token its own import asked for; nothing of another
  import is touched; a whole-object status update never undoes an edit; statuses
  and secrets converge after any failure; nothing outlives its import;
- bootstrap: a run that succeeds is announced to the controller, and concurrent
  runs lose nothing; what is announced can be mounted; every run ends;
- webhook: a pod runs with all of its imports' secrets or not at all, with no
  other import's, and comes up once they exist;
- installation: a controller that runs has a client of each cluster it was
  bootstrapped with, of that cluster, or has none; a bootstrap that is
  interrupted or repeated before it succeeded does not keep the controller from
  coming back after it was recreated, evicted or killed; then imports and pods
  come up;
- client configuration: an answer is what was asked for, from one version of its
  file as far as client-go leaves that to the file; a call for all of them gets
  all or none.

## 2. Modules

| module | what it is |
|---|---|
| `Tokens` | a token: the account it is of and a serial number |
| `SourceClusters` | accounts, the tokens they list, the tokens that exist; creation, rotation and deletion |
| `Kubernetes` | imports and secrets in the API server, versions, watch events, optimistic locking, garbage collection |
| `Importer` | the controller; extends the two above |
| `ImportedCredentials` | abstract: what credentials each import asked for and holds; `Importer` implements it |
| `Automount` | the webhook and pods, composed with the whole of `Importer` |
| `Installation` | a target cluster: `Automount`, bootstraps, and the controller's own pod |
| `ClientConfig` | one call of `pkg/config` after another, while files change |
| `ImportList` | abstract: lists of imports that are appended to atomically |
| `Bootstrap` | any number of runs of `kubemcsa bootstrap`; implements `ImportList` |
| `SourceProofs` | lemmas on sequences and source clusters |
| `ImporterProofs`, `IdentityProofs` | theorems about `Importer`: types and credentials; names, versions and the refinement |
| `InstallationProofs`, `LastingProofs` | theorems about `Installation`: webhook, pods, clients; what exists until users interfere |
| `BootstrapProofs`, `UsableProofs` | theorems about `Bootstrap`: types and lists; tokens and imports |
| `ClientConfigProofs` | theorems about `ClientConfig` |
| `MCImporter`, `MCBootstrap`, `MCInstallation`, `MCClientConfig` | constants for TLC |

Some actions are preceded by an operator whose comment starts with "A bug": it
is what that code would be with a plausible mistake, and is used by no
specification.  A property is only kept if replacing a definition by such an
operator makes its run fail (`mutants` in `PROJECT.json`).

### Importer

One API call or one read of a cache is one step; `pc` is where the only worker
is in `Reconcile`:

| `pc` | next action | code (`importer.go`) |
|---|---|---|
| `down` | `Start` | 58-108 |
| `idle` | `TakeRequest` | 117 |
| `get` | `GetImport` | 121-129 |
| `list` | `ListSecrets` | 131-152 |
| `status` | `UpdateStatus` | 152-158 |
| `account` | `GetAccount` | 210-229 |
| `token` | `GetToken`, once per listed token | 229-250 |
| `apply` | `CreateSecret`, `UpdateSecret`, `KeepSecret`, `DeleteSecret`, `FinishReconcile` | 174-207 |

The locals keep the code's names (`sai`, `osl`, `dss`, `osm`, `os`); `remaining`
is what is left of the loop over the account's secrets.  The map `osm` is the
set of its keys, because all its values are one pointer, the loop variable `os`
(line 177); all keys are the empty UID, because line 263 reads the UID of the
secret it is about to create.  Both are modelled as the code has them.

Every call has up to four outcomes: done; done but the answer lost
(`Fault /\ Requeue`); refused by the server; never arrived (`FailCall`).  An
error of `Reconcile` requeues the request.  Decisions:

- versions are kept per object, and `created` counts the secrets ever made;
- the CRD has no status subresource, so `UpdateStatus` writes the whole object,
  with the spec the cache had; deletes carry no version (lines 155, 202);
- the delayed queue and the work queue are one set, `dirty`: nothing depends on
  how long a backoff is;
- `Resync` replays the caches only when both watches are drained: ten hours is
  much longer than a watch lags;
- an unreachable source cluster at start makes `Add` fail (line 65), which is
  a controller that stays `down`; which clusters it knows is any of `ClientSets`
  (in `Installation`, those that are mounted in its pod);
- one namespace; the label that selects an import's secrets is the field `import`;
- `ResourceQuota` (`MaxSecrets`) is needed: with two remote tokens or more every
  reconciliation creates another secret, for ever;
- users may do anything to imports, secrets, accounts and tokens, `MaxEdits` and
  `MaxSourceEdits` times; `Prepare` makes the imports that exist before the
  first start, which costs none; a collection of a secret whose import's
  deletion the controller has not heard of counts as an edit.

### Automount

`Handle` starts a review, each `mutatePods` step looks one import up in the
webhook's cache (`hookCache`, fed by `Watch` and `HandleHookEvent`) and mounts
the first secret of its status, or rejects the whole review (lines 183-193).
Several reviews interleave with each other and with every step of `Importer`.
A rejected pod is `wanted` again, since its owner retries.  All containers get
the same mounts, so a pod has one sequence of volumes.  The API server rejects
a pod two of whose volumes have one name.  The module gives the handlers;
`Installation` puts them to work.

### Installation

The question is whether the parts hold each other up.  For each source cluster
a bootstrap reads the remote token (`FetchToken`), creates an import of the
cluster's name or takes the one that is there, whatever account its spec names
(`CreateSeed`, both branches of `target.go:51-60`), stores a secret with the
token and the uid it has read before, whatever became of either (`CreateSeedSecret`),
waits for the import's status, and appends the name to the annotation in the
controller's Deployment (`AnnounceSeed`).  Between any two of these the command
may end, and users may run it again, from the first call (`Rerun`): each time
counts as a fault.  These are the calls of `Bootstrap` that touch this cluster's
imports, secrets and annotation, and the read that precedes them.  A bootstrap
is a request, by the user who runs it, for a token of the remote account, so
`requested` gains that account also when the import's spec names another.

`Recreate` then kills the controller (`importer.yaml:20-21`), and its next pod is
reviewed by the webhook as any other (`Handle`, `mutatePods`).  `MountFile` is the
kubelet: it puts the secret's token in a file, keeps it up to date, and leaves it
when the secret is gone; the process starts when all volumes are there.
`StartController` makes a client of every mounted import (`MakeClients`;
`main.go:43`, `importer.go:58-73`): all must be accepted by their clusters, since
`Add` fails otherwise, and they keep the token they were made with, so a token
revoked later makes every call `Unauthorized`.  Or it finds no import at all
(`FindNoImports`): `config.go:192-196` takes any error of opening their directory
for a directory that is not there.  `CrashController` restarts the container in
its pod; `Evict` deletes the pod.  Everything else is `Importer` and `Automount`,
step by step, with the constraint that the worker calls a cluster with the token
it has for it.  Kubelet, Deployment and ReplicaSet are external.

### ClientConfig

A call is what it is asked for: one name, no name, or all of them, from mounted
imports, kubeconfig contexts or both.  Each access to a file is a step, so that the
kubelet (`UpdateMount`) and users (`EditKubeconfig`) may act in between: a loader
asks its file for the config and then for the namespace, having read it once
(`Wrap`, lines 239-251); a call for all lists the imports, loads them one by
one, lists the contexts, and loads each of these from the file again (lines
52-71).  Opening the directory of imports may fail: then the call goes on as if
none were mounted (`NotOpened`, lines 192-196); reading it, or looking one name
up in it, may fail as well, and then so does the call (`NotRead`, lines 198-201,
228-235).  What an import's file says is a version; version `Unreadable` stands
for a file that is missing or cannot be parsed.

`ReadContext` and `ContextNamespace` are client-go's rules, modelled from the
vendored `merged_client_builder.go` (94-163).  The config is that of the context
named, else of the current one; the pod's own account stands in when there is no
current one and for a context that names no cluster; a kubeconfig that does not
exist is one without contexts, a kubeconfig that cannot be parsed is an error.
The namespace follows a rule of its own: in a pod, a context that names none, or
says `default`, comes with the pod's own namespace, unless the *current* context
of the file, which need not be the one asked for, names one; else the answer is
`default`.  So of a context only the config is the file's for certain.

### Bootstrap

`pc[r]` names the call run `r` makes next, in the order of `bootstrapClusters`
(`bootstrap.go:53-90`); `local[r]` holds the variables it carries from call to
call: the token, the import's uid, the Deployment it read.  Objects that exist
already are accepted, except that the name is appended to the annotation again.
A poll of a minute is `MaxPolls` further tries.  Any call may fail, or succeed
with its answer lost, after which the command exits; a user may run it again.
Token controllers, import controller, garbage collector, the Deployment's
controller (which changes its version) and users are the environment.  Names
that pass `newCluster` are DNS-1123 subdomains, so the annotation is faithfully
a sequence of names.  Source objects other than accounts and tokens are never
deleted.  Different clusters have different names in the runs: the code cannot
tell them apart otherwise (`target.go:58`).

## 3. Runs

| run | instance | shows |
|---|---|---|
| `importer_isolation` | 2 imports, 2 accounts, 1 edit, 1 fault | secrets, statuses and locals of two imports never mix; names in copies, however stale, identify what they are copies of; a status update never undoes an edit; implements `ImportedCredentials` |
| `importer_retarget` | 2 accounts in 2 clusters, 1 edit on each side, fairness | the right token arrives; statuses converge to the truth; orphans go |
| `importer_rotation` | 1 account, 3 edits of the source, 1 fault, fairness | resyncs are enough to follow rotations and withdrawals, whatever failed |
| `bootstrap_concurrent` | 2 source clusters, 1 target, 1 repeated run, 1 deletion, 1 status update | no name and no token is mixed up or lost; implements `ImportList` |
| `bootstrap_same` | the same bootstrap twice and one of a refused name, repeated, 1 fault, 1 deletion, fairness | what is announced can be mounted; every run ends |
| `installation_clients` | 2 clusters bootstrapped at once, 1 change by a user, here or in a source cluster (`OneChange`) | the running controller has the clients it was bootstrapped with, all of them or none, with tokens of the right clusters; a pod has all its volumes or does not run |
| `installation_converges` | 1 cluster, 1 other import and a pod that names it, 1 fault or repeated bootstrap, no edits, fairness | the controller comes back, imports get secrets, pods come up; what a pod mounts exists |
| `config_calls` | 2 names, 2 changes of files, inside or outside a pod | one version per answer where client-go leaves the namespace to the file, the right name, all imports or none |

and four that end in a counterexample:

| run | what the code does | what the repository says |
|---|---|---|
| `importer_duplicates` | a secret created twice, from a stale cache or after a lost answer, is never deleted (`importer.go:200-205`); with two remote tokens one secret with a live token is overwritten and another created, since the map has a single key, the empty UID (lines 177, 263) | "create, update or delete Secrets" (`importer.go:172`), "maintain a secret" (`README.md:163`) |
| `installation_stuck` | when the secret of its import is deleted by hand, the controller empties the import's status before it makes a new secret; if its pod is replaced just then (in the run because the bootstrap announces the import it saw adopted), the webhook rejects every further one, because only the controller would fill the status (`importer.yaml:20`, `automount.go:189`) | an error is thrown "to resolve race condition", the pod's owner "should retry later" (`automount.go:184-185`) |
| `config_several` | with several imports mounted, `ConfigAndNamespace` returns the current context or the pod's account (`config.go:44-47`) | "an error is returned" (`config.go:31`) |
| `bootstrap_rerun` | a repeated bootstrap lists its import twice (`target.go:100-104`), and no pod with the annotation is valid any more | "for each service account import, a volume is added" (`automount.go:118`) |

Bounds.  Two imports, two accounts or two runs are what it takes to mix two
things up; three would only repeat it.  One fault can be any failed call, lost
answer or crash at any step; one edit any action of a user at any moment, also
between a read of a cache and the write that follows it; three
source edits let a token be rotated and then withdrawn.  Versions and serial
numbers are not cut off: the state space is finite because edits and faults
are, and because the controller comes to rest.  In `installation_converges` one seed
and one other import are enough for every dependency: the pod needs the import's
secret, which needs the controller, which needs the seed's.  Its properties speak
of behaviours in which users edit nothing, so it allows no edits: those that do
are `installation_stuck`'s.  Its one fault may be a bootstrap run again from any
point, while the first run's import and secrets are there.  Two secrets are
what one bootstrap and one import take; a repeated bootstrap uses both up, and
then `Served` asks no secret for the other import.  `installation_clients` and
`config_calls` use symmetry, of clusters together with their accounts and of names:
they check safety only.  Deadlock is not
checked where a controller at rest, or runs that are all over, is the normal
end, or where the system really may stop: in `Installation` a controller
that a source cluster refuses cannot start (`importer.go:65`).

Fairness.  The worker, the informers and the webhook are goroutines that keep
running, the Deployments restart their pods, and the controllers of Kubernetes
keep working: weak fairness.  A request in the work queue is taken although the
worker is not idle all the time, because the queue is first in first out: strong
fairness of `TakeRequest(i)`.  Owners of pods retry (`README.md:200` and the
comment at `automount.go:184`), so in `Installation` reviews are fair too, as are
`Recreate`, `MountFile` and `StartController`: the Deployment, the kubelet and the
restart of containers.  Bootstraps are not: a user may interrupt them.  For bootstraps only the command itself is fair:
`Terminates` assumes neither a token controller nor an import controller.  Since
edits and faults are bounded, liveness says what happens once they stop.

## 4. Proofs

TLAPS proves these for every value of the constants: any number of imports,
accounts, clusters, pods, files, runs, edits and faults.  They are all the
invariants, all the action properties and both refinements that the runs check.

| theorem | says |
|---|---|
| `ImporterProofs!TypeCorrect` | `TypeOK`: no line of `Reconcile` reads a local that is not set |
| `ImporterProofs!ProvenanceHolds` | every copy of an import has a spec users wrote; what the worker holds is of the import it reconciles |
| `ImporterProofs!RequestedCredentials` | no secret ever holds a token of an account its import never asked for |
| `IdentityProofs!NamesIdentifyHolds` | names are given once: which object a write from a copy reaches |
| `IdentityProofs!StatusesHold` | `StatusListsOwnSecrets` |
| `IdentityProofs!OthersUntouchedHolds` | a reconciliation changes secrets of its own import only |
| `IdentityProofs!SpecKept` | `SpecNeverReverted`: the whole-object status update undoes no edit |
| `IdentityProofs!CredentialsImplementedHolds` | `Importer` implements `ImportedCredentials` |
| `InstallationProofs!InstallTypeCorrect` | `InstallTypeOK`: a review that goes on has a name left |
| `InstallationProofs!ImporterInstalled` | composed with bootstraps, webhook and pods, no secret holds a token of an account that neither its import's spec nor a bootstrap of that name asked for, and names are given once |
| `InstallationProofs!MountedAsAnnotatedHolds` | a running pod has the volumes of its annotation, and no other import's |
| `InstallationProofs!ClientsAsAnnouncedHolds`, `ClientsReachTheirClusterHolds` | a running controller has a client of each announced cluster or none at all, each with a token of its cluster |
| `LastingProofs!MountedExistHolds` | until users change something, what a running pod mounts exists |
| `BootstrapProofs!TypeCorrect` | `TypeOK`: no run reaches a call that needs a token without one |
| `BootstrapProofs!AnnouncedHolds` | a bootstrap that succeeded is in its target's list |
| `BootstrapProofs!ListsImplemented` | `Bootstrap` implements `ImportList` |
| `UsableProofs!CredentialsMatchHolds` | a secret made for an import has a token of the account the import's spec names |
| `UsableProofs!AnnouncedUsableHolds` | until users delete something, what is announced is adopted, has a secret and gives access |
| `ClientConfigProofs!ConfigTypeCorrect` | a loader of an import has the name of a mounted one |
| `ClientConfigProofs!OneVersionHolds` | config and namespace are of one version of one file; with a context the namespace may be `default` or the pod's own |
| `ClientConfigProofs!AsNamedHolds`, `AllOrNothingHolds` | an answer is what was asked for; a call for all returns every import or none |

*Types* are inductive as they stand, once they say which locals are set at which
`pc`.  `SourceProofs` holds what the other modules need of sequences and of the
source clusters, among others that accounts go on listing tokens of their own
(`TokensStayOwned`).

*Credentials.*  That secrets hold requested tokens is not inductive: a token is
written from locals, they came from a copy of an import, that from a cache, that
from an event.  `CredentialsInv` adds `Provenance`, which follows the spec
along all of these (`SpecsRequested`), says that accounts list their own tokens
(`TokensOwned`) and that the locals belong to the request (`LocalsOwned`).
`requested` only grows, so a spec that is stale is still one that was asked for.

*Identity.*  `Reconcile` updates and deletes by the name in a copy, and writes
an import back from a copy.  `IdentityInv` adds to `CredentialsInv` what
makes that safe.  `NamesIdentify`: the counter `created` only grows and no name
in a copy, event, local or status is above it, so a name that was freed is never
given to another import's secret.  `VersionsIdentify` is what optimistic locking
gives: a copy with the stored uid and version is the stored object, so when the conditional status update is
accepted, the spec it writes is the spec that is there.  Each step is shown
to make copies of copies only (`NamesKept`, `SecretsCopied`, ...); the
three properties of steps and the refinement then need, of each step, which
secrets it changes (`ReconcileNames`, `UsersImplement`).

*Installation.*  Every step of `Installation` is a step of `Importer`, a
bootstrap's, or leaves the importer's state alone, and keeps `IdentityInv`
(`TargetStep`).  A bootstrap writes a token it has read some calls ago under the
name of an import it may not have made, so that this keeps
`RequestedCredentialsOnly` needs `BootInv`: the token is still one of the
controller's own account in that cluster, and by then the account has been asked
for under the cluster's name, by the import's spec or by the bootstrap itself.
It need not be the account the spec names: `CreateSeed` takes an import as it is.
`MountInv` adds that what the webhook's cache and a pod's
volumes name was given to that import, and that a review's volumes and the names
it has still to look up make up the annotation (`VolumesInOrder`).  `ProcessInv`
says that a process runs only in a running pod, with a client for each volume or
with none, and that files and clients hold tokens asked for under their import's
name.  Since `NamesIdentify` speaks of all time, nothing that happens between a
review and a mount matters.

*Lasting.*  `MountedExist` needs far more than what pods mount: `LastingInv` says
that while nothing is disturbed every copy of an import or a secret, wherever
it is, is of an object that still exists (`StoreSound`), and that no
`DeleteSecret` and no collection is ever possible (`LocalsSound`, `Sound`), also
while a bootstrap is about to make a secret of what it has read (`BootsSound`).  The
key left over in the map `osm` that `DeleteSecret` needs is always used up,
because it is the only one (the remote UID is always empty, line 263) and an
account that exists lists a token that can be read, if any does
(`SourcesWhole`).

*Lists.*  That a name is appended to the list that is stored, not to an older
one, needs `ReadsAreOld`: what a run has read has a version no newer than the
stored one, and if the versions are equal so are the lists.  Then the guard of
`updateDeployment` gives both `Announced` and the refinement of `ImportList`,
whose step is the update and for which all else stutters.  `StepKinds`
classifies the steps once for both.

*Usable.*  `TokenInv` follows a run: after which call its role and binding
exist, that the token it carries is of its account, and that the uid it carries
is of an import of its own name, if of any that is still there (`RunSound`).
Imports are identified by uid and by name (`ImportsSound`); a secret
was made by a run of the import that owns it (`SecretsSound`).  `Grows` is what
every step leaves true of these.  `AdoptedInv` says that until an edit every secret
has its owner, hence is not collected, and every adopted import its secret,
hence stays adopted; together with `ListInv` each name in a list is that of
an adopted import.  `CredentialsMatchHolds` has a hypothesis, `NamesAgree`: runs
that make the same import give the target the same name.  Without it the
property is false: the code takes an existing import as it is (`target.go:58`).

*Client configuration.*  `CallInv` says that a loader has read nothing before it
is asked for the config, and has what it gave as the config when it is asked for
the namespace (`LoaderInv`), and that in a call for all, what is loaded, is being
loaded, and is still to be loaded are together all that is mounted (`ProgressInv`).

The inductive invariants were checked with TLC on the instances of section 3
before they were proved.

Assumptions, all named and evaluated by TLC: `TokensAssumption`,
`BoundsAssumption`, `QuotaAssumption`, `PodsAssumption`, `InstallationAssumption`,
`NamesAssumption` and `RunsAssumption` give the constants their types; nothing is
assumed about how large they are or that clusters have different names.
`InstallationAssumption` also says that a controller's own account in a cluster is
of that cluster, and that `None`, which stands for a missing file, is no token.

Only model-checked: all liveness under fairness, which is out of the prover's
reach (`StatusEventuallyAccurate`, `EventuallyImported`, `EventuallyWithdrawn`,
`OrphansCollected`, `Terminates`, `ControllerReturns`, `BootstrappedImported`,
`EventuallyRunning`), and the four counterexamples.

What the liveness properties do not say.  All three of `Installation` speak of
clusters in which nobody has edited or deleted anything, and in which no
bootstrap that succeeded was repeated (`Unspoilt`).  Otherwise the controller may
never come back: `installation_stuck` is what a deleted secret may do, and after
`bootstrap_rerun` its pod has two volumes of one name and is refused for ever.
After a rotation the controller would have to be restarted, and nothing does
that.  `BootstrappedImported` and `EventuallyRunning` also assume that the
controller has found its imports when it started (`ImportsFound`): when it could
not open their directory it runs without clients until it is restarted, and
nothing restarts it.  And they ask a first secret for an import only if the quota has
room for one.  A pod admitted with the name of a secret that is deleted before
the kubelet mounts it never starts (`MountedExist` says that only users can cause
this).

## 5. Not modelled, and the plan

Not modelled: the layout of kubeconfigs and YAML, the decoding of admission
requests, certificates, flags, generated and vendored code, example clients;
`kubemcsa export`, which prints a secret it gets with the two calls modelled in
`Bootstrap` and changes nothing; roles, and the namespaces other than one; the
webhook's own pods, which are in a namespace that is not under it
(`automount.yaml:5,11`), so that they do not depend on it.

Next, in this order:

1. The safety half of convergence, as invariants from which the liveness
   properties follow by fairness alone: an import whose status is wrong, or whose
   secret is missing, is in the queue, in an event or in the worker's hands.
2. That `Installation` hides nothing of `Bootstrap`: its four steps per cluster as
   an abstraction of a run, at least for the objects of the target cluster.
3. How far the collector and a repeated bootstrap may add secrets beyond one per
   import, as a bound for `MaxSecrets`.
