----------------------------- MODULE Bootstrap -----------------------------
(***************************************************************************)
(* kubemcsa bootstrap (pkg/bootstrap): a command that gives the controller *)
(* of a target cluster a first token from a source cluster.  Each run is a *)
(* sequence of calls to two API servers, and several runs, and the same    *)
(* run again after a failure, may be under way at once.  Every call is one *)
(* step; a run's pc is the name of the call it makes next.                 *)
(*                                                                         *)
(* The token controllers of the source clusters, the service account       *)
(* import controller and the garbage collector of the target clusters are  *)
(* the environment.  All objects are in the namespace of                   *)
(* multicluster-service-account.                                           *)
(***************************************************************************)
EXTENDS SourceClusters, SequencesExt, FiniteSets

CONSTANTS
    Clusters,
    Names,         \* names given to clusters in kubeconfigs or on command lines
    ValidNames,    \* those that are DNS-1123 subdomains, so without commas
    Runs,          \* the runs of kubemcsa bootstrap
    From, To,      \* a run's source and target cluster
    SourceName,    \* what a run calls its source cluster
    TargetName,    \* what a run calls its target cluster
    NoToken,
    MaxPolls,      \* how many polls a minute has
    MaxReruns,     \* how often runs are repeated
    MaxUpdates,    \* how often the deployment's status changes
    MaxEdits,      \* how often users delete a token, account or import
    MaxFaults      \* how many calls fail

ASSUME RunsAssumption ==
    /\ ValidNames \subseteq Names
    /\ Accounts = Clusters \X Names
    /\ From \in [Runs -> Clusters] /\ To \in [Runs -> Clusters]
    /\ SourceName \in [Runs -> Names] /\ TargetName \in [Runs -> Names]
    /\ NoToken \notin Token
    /\ MaxPolls \in Nat

VARIABLES
    namespaces,  \* source clusters that have the namespace
    roles,       \* source clusters that have the cluster role
    bindings,    \* accounts that have their cluster role binding
    made,        \* how many imports and secrets were ever created
    imports,     \* the ServiceAccountImports of all target clusters
    secrets,     \* their labelled secrets
    template,    \* template[c]: the controller's Deployment in cluster c
    pc,          \* pc[r]: the call run r makes next
    local,       \* local[r]: the variables of run r
    reruns, updates, edits, faults  \* how much of each bound is spent

sourceObjects == <<namespaces, roles, bindings, sourceVars>>
targetObjects == <<made, imports, secrets>>
runVars == <<pc, local>>
bounds == <<reruns, updates, edits>>
vars == <<sourceObjects, targetObjects, template, runVars, bounds, faults>>

(* An import's spec.clusterName is its own name; "account" is spec.name,   *)
(* "adopted" whether Status.Secrets is not empty.                          *)
Import == [cluster : Clusters, name : Names, uid : Nat, account : Names,
           adopted : BOOLEAN]

(* "import" is the label, "owner" the uid in the controller reference.     *)
Secret == [id : Nat, cluster : Clusters, import : Names, owner : Nat,
           data : Token]

(* The annotation of the Deployment's pod template, split at its commas,   *)
(* and the Deployment's resourceVersion.                                   *)
Template == [imports : Seq(Names), version : Nat]

NoUID == 0

NoLocals == [polls |-> 0, token |-> NoToken, uid |-> NoUID,
             read |-> [imports |-> <<>>, version |-> 0]]

Init ==
    /\ namespaces = {To[r] : r \in Runs}  \* where the controller is installed
    /\ roles = {} /\ bindings = {}
    /\ accounts = {} /\ tokens = {}
    /\ refs = [a \in Accounts |-> <<>>]
    /\ minted = [a \in Accounts |-> 0]
    /\ made = 0 /\ imports = {} /\ secrets = {}
    /\ template = [c \in Clusters |-> [imports |-> <<>>, version |-> 0]]
    /\ pc = [r \in Runs |-> "load"]
    /\ local = [r \in Runs |-> NoLocals]
    /\ reruns = 0 /\ updates = 0 /\ edits = 0 /\ faults = 0

-----------------------------------------------------------------------------
(* The outcomes of a call.                                                 *)

Goto(r, label) == pc' = [pc EXCEPT ![r] = label]

Set(r, l) == local' = [local EXCEPT ![r] = l]

End(r, outcome) == Goto(r, outcome) /\ Set(r, NoLocals)

Fault == faults < MaxFaults /\ faults' = faults + 1

(* A call that was carried out, after which the run goes on; or its answer *)
(* is lost and the command exits.                                          *)
Proceed(r, label) ==
    \/ Goto(r, label) /\ UNCHANGED <<local, faults>>
    \/ Fault /\ End(r, "failed")

ProceedWith(r, label, l) ==
    \/ Goto(r, label) /\ Set(r, l) /\ UNCHANGED faults
    \/ Fault /\ End(r, "failed")

Fail(r) == End(r, "failed") /\ UNCHANGED faults

(* A call that never reaches the server, or an interrupted command.        *)
FailCall(r) ==
    /\ pc[r] \notin {"done", "failed"}
    /\ Fault /\ End(r, "failed")
    /\ UNCHANGED <<sourceObjects, targetObjects, template, bounds>>

-----------------------------------------------------------------------------
(* In the source cluster.                                                  *)

ServiceAccount(r) == <<From[r], TargetName[r]>>

newCluster(r) ==
    /\ pc[r] = "load"
    /\ IF {SourceName[r], TargetName[r]} \subseteq ValidNames
          THEN Goto(r, "namespace") /\ UNCHANGED <<local, faults>>
          ELSE Fail(r)
    /\ UNCHANGED <<sourceObjects, targetObjects, template, bounds>>

(* What exists already is not an error, here and below.                    *)
createNamespace(r) ==
    /\ pc[r] = "namespace"
    /\ namespaces' = namespaces \union {From[r]}
    /\ Proceed(r, "role")
    /\ UNCHANGED <<roles, bindings, sourceVars, targetObjects, template, bounds>>

createClusterRole(r) ==
    /\ pc[r] = "role"
    /\ roles' = roles \union {From[r]}
    /\ Proceed(r, "account")
    /\ UNCHANGED <<namespaces, bindings, sourceVars, targetObjects, template,
                   bounds>>

createServiceAccount(r) ==
    /\ pc[r] = "account"
    /\ \/ CreateAccount(ServiceAccount(r))
       \/ ServiceAccount(r) \in accounts /\ UNCHANGED sourceVars
    /\ Proceed(r, "binding")
    /\ UNCHANGED <<namespaces, roles, bindings, targetObjects, template, bounds>>

createClusterRoleBinding(r) ==
    /\ pc[r] = "binding"
    /\ bindings' = bindings \union {ServiceAccount(r)}
    /\ Proceed(r, "wait")
    /\ UNCHANGED <<namespaces, roles, sourceVars, targetObjects, template, bounds>>

(* A bug: no time limit.                                                   *)
PollForEver(r) == UNCHANGED <<pc, local, faults>>

(* A poll that finds nothing: another one, or the minute is over.          *)
PollAgain(r) ==
    IF local[r].polls < MaxPolls
       THEN /\ Set(r, [local[r] EXCEPT !.polls = @ + 1])
            /\ UNCHANGED <<pc, faults>>
       ELSE Fail(r)

(* The first secret the account lists is its token; a bug: the name is     *)
(* used without looking whether the wait found one.                        *)
WaitIgnoringTimeout(r) ==
    /\ pc[r] = "wait"
    /\ LET listed == refs[ServiceAccount(r)]
       IN  ProceedWith(r, "token", [NoLocals EXCEPT
               !.token = IF listed = <<>> THEN NoToken ELSE Head(listed)])
    /\ UNCHANGED <<sourceObjects, targetObjects, template, bounds>>

waitForServiceAccountToken(r) ==
    /\ pc[r] = "wait"
    /\ LET listed == refs[ServiceAccount(r)]
       IN  \/ ServiceAccount(r) \notin accounts /\ Fail(r)
           \/ /\ ServiceAccount(r) \in accounts
              /\ listed = <<>>
              /\ PollAgain(r)
           \/ /\ listed # <<>>
              /\ ProceedWith(r, "token", [NoLocals EXCEPT !.token = Head(listed)])
    /\ UNCHANGED <<sourceObjects, targetObjects, template, bounds>>

(* A secret that is gone and one that has no data yet (source.go:163) are  *)
(* the same error.                                                         *)
getServiceAccountToken(r) ==
    /\ pc[r] = "token"
    /\ IF local[r].token \in tokens THEN Proceed(r, "import") ELSE Fail(r)
    /\ UNCHANGED <<sourceObjects, targetObjects, template, bounds>>

-----------------------------------------------------------------------------
(* In the target cluster.                                                  *)

(* A bug: the names of the two clusters are swapped in the spec.           *)
SwappedImport(r) ==
    [cluster |-> To[r], name |-> SourceName[r], uid |-> made + 1,
     account |-> SourceName[r], adopted |-> FALSE]

NewImport(r) ==
    [cluster |-> To[r], name |-> SourceName[r], uid |-> made + 1,
     account |-> TargetName[r], adopted |-> FALSE]

(* The imports of that name: at most one.                                  *)
ImportsOf(r) == {i \in imports : i.cluster = To[r] /\ i.name = SourceName[r]}

CreateImport(r) ==
    /\ ImportsOf(r) = {}
    /\ made' = made + 1
    /\ imports' = imports \union {NewImport(r)}
    /\ UNCHANGED secrets
    /\ ProceedWith(r, "secret", [local[r] EXCEPT !.uid = made + 1])

(* A bug, the one target.go:56 is about: an import that exists is not read.*)
CreateWithoutGet(r) ==
    /\ pc[r] = "import"
    /\ \/ CreateImport(r)
       \/ /\ ImportsOf(r) # {}
          /\ Proceed(r, "secret")
          /\ UNCHANGED targetObjects
    /\ UNCHANGED <<sourceObjects, template, bounds>>

(* An import that exists is read with a further call, for its uid; nothing *)
(* compares its spec with the one it would have been given.                *)
createServiceAccountImport(r) ==
    /\ pc[r] = "import"
    /\ \/ CreateImport(r)
       \/ /\ ImportsOf(r) # {}
          /\ Proceed(r, "get")
          /\ UNCHANGED targetObjects
    /\ UNCHANGED <<sourceObjects, template, bounds>>

getServiceAccountImport(r) ==
    /\ pc[r] = "get"
    /\ IF ImportsOf(r) = {}
          THEN Fail(r)
          ELSE \E i \in ImportsOf(r) :
                  ProceedWith(r, "secret", [local[r] EXCEPT !.uid = i.uid])
    /\ UNCHANGED <<sourceObjects, targetObjects, template, bounds>>

(* The secret's name is generated, so it is always another secret (a name  *)
(* that is taken by chance, which counts as success, is left out).         *)
createServiceAccountImportToken(r) ==
    /\ pc[r] = "secret"
    /\ made' = made + 1
    /\ secrets' = secrets \union
           {[id |-> made + 1, cluster |-> To[r], import |-> SourceName[r],
             owner |-> local[r].uid, data |-> local[r].token]}
    /\ ProceedWith(r, "adoption", NoLocals)
    /\ UNCHANGED <<sourceObjects, imports, template, bounds>>

waitForServiceAccountImportTokenAdoption(r) ==
    /\ pc[r] = "adoption"
    /\ \/ ImportsOf(r) = {} /\ Fail(r)
       \/ \E i \in ImportsOf(r) :
             \/ i.adopted /\ ProceedWith(r, "deployment", NoLocals)
             \/ ~i.adopted /\ PollAgain(r)
    /\ UNCHANGED <<sourceObjects, targetObjects, template, bounds>>

getDeployment(r) ==
    /\ pc[r] = "deployment"
    /\ ProceedWith(r, "annotate", [local[r] EXCEPT !.read = template[To[r]]])
    /\ UNCHANGED <<sourceObjects, targetObjects, template, bounds>>

(* What the Deployment is updated to: the list that was read, and the      *)
(* import's name, even when the list has it already.                       *)
Annotated(r) ==
    [imports |-> Append(local[r].read.imports, SourceName[r]),
     version |-> template[To[r]].version + 1]

(* A bug: an update that carries no resourceVersion.                       *)
UpdateUnconditionally(r) ==
    /\ pc[r] = "annotate"
    /\ template' = [template EXCEPT ![To[r]] = Annotated(r)]
    /\ UNCHANGED faults
    /\ End(r, "done")
    /\ UNCHANGED <<sourceObjects, targetObjects, bounds>>

updateDeployment(r) ==
    /\ pc[r] = "annotate"
    /\ \/ /\ template[To[r]].version = local[r].read.version
          /\ template' = [template EXCEPT ![To[r]] = Annotated(r)]
          /\ \/ End(r, "done") /\ UNCHANGED faults
             \/ Fault /\ End(r, "failed")
       \/ /\ template[To[r]].version # local[r].read.version
          /\ Fail(r)
          /\ UNCHANGED template
    /\ UNCHANGED <<sourceObjects, targetObjects, bounds>>

(* Bootstrap's next call.                                                  *)
Work(r) ==
    \/ newCluster(r)
    \/ createNamespace(r) \/ createClusterRole(r)
    \/ createServiceAccount(r) \/ createClusterRoleBinding(r)
    \/ waitForServiceAccountToken(r) \/ getServiceAccountToken(r)
    \/ createServiceAccountImport(r) \/ getServiceAccountImport(r)
    \/ createServiceAccountImportToken(r)
    \/ waitForServiceAccountImportTokenAdoption(r)
    \/ getDeployment(r) \/ updateDeployment(r)

-----------------------------------------------------------------------------
(* The environment.                                                        *)

(* A user runs the same command again.                                     *)
Rerun(r) ==
    /\ pc[r] \in {"done", "failed"}
    /\ reruns < MaxReruns /\ reruns' = reruns + 1
    /\ Goto(r, "load")
    /\ UNCHANGED <<sourceObjects, targetObjects, template, local, updates, edits,
                   faults>>

(* The token controller of a source cluster.                               *)
MintToken ==
    /\ \E a \in Accounts :
          \/ refs[a] = <<>> /\ AddToken(a)
          \/ ForgetToken(a)
    /\ UNCHANGED <<namespaces, roles, bindings, targetObjects, template, runVars,
                   bounds, faults>>

Labelled(i) == {s \in secrets : s.cluster = i.cluster /\ s.import = i.name}

(* The controller of a target cluster writes to an import's status which   *)
(* secrets have its label; it has no token of its own to import yet.       *)
Adopt ==
    /\ \E i \in imports :
          /\ i.adopted # (Labelled(i) # {})
          /\ imports' = (imports \ {i})
                            \union {[i EXCEPT !.adopted = (Labelled(i) # {})]}
    /\ UNCHANGED <<sourceObjects, made, secrets, template, runVars, bounds, faults>>

(* The garbage collector.                                                  *)
Collect ==
    /\ \E s \in secrets :
          /\ \A i \in imports : i.uid # s.owner
          /\ secrets' = secrets \ {s}
    /\ UNCHANGED <<sourceObjects, made, imports, template, runVars, bounds, faults>>

(* The Deployment's own controller writes its status.                      *)
UpdateDeploymentStatus ==
    /\ updates < MaxUpdates /\ updates' = updates + 1
    /\ \E c \in Clusters : template' = [template EXCEPT ![c].version = @ + 1]
    /\ UNCHANGED <<sourceObjects, targetObjects, runVars, reruns, edits, faults>>

UserEdit ==
    /\ edits < MaxEdits /\ edits' = edits + 1
    /\ \/ /\ \/ \E t \in tokens : DeleteToken(t)
             \/ \E a \in accounts : DeleteAccount(a)
          /\ UNCHANGED targetObjects
       \/ /\ \E i \in imports : imports' = imports \ {i}
          /\ UNCHANGED <<sourceVars, made, secrets>>
    /\ UNCHANGED <<namespaces, roles, bindings, template, runVars, reruns, updates,
                   faults>>

Next ==
    \/ \E r \in Runs : Work(r) \/ FailCall(r) \/ Rerun(r)
    \/ MintToken \/ Adopt \/ Collect
    \/ UpdateDeploymentStatus \/ UserEdit

Spec == Init /\ [][Next]_vars

(* A command that runs makes its next call; nothing else is assumed, not   *)
(* even that a token controller or an import controller is there.          *)
Fairness == \A r \in Runs : WF_vars(Work(r))

FairSpec == Spec /\ Fairness

-----------------------------------------------------------------------------
(* Properties.                                                             *)

Calls == {"load", "namespace", "role", "account", "binding", "wait", "token",
          "import", "get", "secret", "adoption", "deployment", "annotate"}

Locals == [polls : Nat, token : Token \union {NoToken}, uid : Nat, read : Template]

SourceObjectsTypeOK ==
    /\ namespaces \subseteq Clusters /\ roles \subseteq Clusters
    /\ bindings \subseteq Accounts
    /\ SourceTypeOK

TargetObjectsTypeOK ==
    /\ made \in Nat
    /\ imports \subseteq Import
    /\ secrets \subseteq Secret
    /\ template \in [Clusters -> Template]

(* A run that is about to use a token has one.                             *)
RunsTypeOK ==
    /\ pc \in [Runs -> Calls \union {"done", "failed"}]
    /\ local \in [Runs -> Locals]
    /\ \A r \in Runs :
          pc[r] \in {"token", "import", "get", "secret"} => local[r].token \in Token

BoundsTypeOK == reruns \in Nat /\ updates \in Nat /\ edits \in Nat /\ faults \in Nat

(* Every variable has its type, and a run that needs a token has one.      *)
TypeOK ==
    SourceObjectsTypeOK /\ TargetObjectsTypeOK /\ RunsTypeOK /\ BoundsTypeOK

(* A bootstrap that succeeded is in the list of imports the controller     *)
(* mounts, whatever other bootstraps of that cluster did at the same time. *)
Announced ==
    \A r \in Runs :
        pc[r] = "done" => SourceName[r] \in ToSet(template[To[r]].imports)

(* The imports the controller is told to mount can be mounted and give it  *)
(* access: each has a secret of its own, with a token of an account that   *)
(* is bound to the role -- so long as no user has deleted anything.        *)
AnnouncedUsable ==
    edits = 0 =>
        \A c \in Clusters : \A n \in ToSet(template[c].imports) :
            \E i \in imports, s \in secrets :
                /\ i.cluster = c /\ i.name = n
                /\ i.adopted
                /\ s.owner = i.uid
                /\ s.data.account \in bindings
                /\ s.data.account[1] \in roles

(* A secret made for an import holds a token that a bootstrap of that very *)
(* import fetched, of the account and cluster the import's spec names, so  *)
(* the controller will agree with it -- when different clusters are given  *)
(* different names.                                                        *)
CredentialsMatchSpec ==
    \A i \in imports : \A s \in secrets :
        s.owner = i.uid =>
            \E r \in Runs : /\ To[r] = i.cluster /\ SourceName[r] = i.name
                            /\ TargetName[r] = i.account
                            /\ s.data.account = ServiceAccount(r)
                            /\ s.import = i.name

(* The Get and the Update of annotateServiceAccountController are as good  *)
(* as one atomic append: the deployments implement the lists.              *)
Lists == INSTANCE ImportList WITH lists <- [c \in Clusters |-> template[c].imports]

ListsAppendOnly == Lists!Spec

(* The command always ends, even when no token ever comes and no import    *)
(* controller is installed.                                                *)
Terminates ==
    \A r \in Runs : pc[r] \in Calls ~> pc[r] \in {"done", "failed"}

(* automount.go:118 "for each service account import, a volume is added to *)
(* the pod": an import is listed once, or the two volumes have one name    *)
(* and no pod of the controller is accepted any more.                      *)
AnnouncedOnce ==
    \A c \in Clusters : IsInjective(template[c].imports)
=============================================================================
