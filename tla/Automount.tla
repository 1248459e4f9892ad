----------------------------- MODULE Automount -----------------------------
(***************************************************************************)
(* The admission webhook (pkg/automount) beside the service account import *)
(* controller: when a pod is created, it mounts the first secret in the    *)
(* status of each import named in the pod's annotation.  It reads imports  *)
(* from an informer cache of its own, one per iteration of its loop, and   *)
(* several pods are handled at once.                                       *)
(*                                                                         *)
(* Every container of a pod gets the same mounts, so a pod is modelled by  *)
(* one sequence of volumes and the paths, that is imports, they are        *)
(* mounted at.                                                             *)
(***************************************************************************)
EXTENDS Importer

CONSTANTS
    Pods,        \* the pods whose owners keep trying to create them
    Annotation   \* what each pod is first annotated with, see "annotation"

ASSUME PodsAssumption == Annotation \in [Pods -> Seq(Imports)]

VARIABLES
    hookCache,   \* the webhook's informer cache of ServiceAccountImports
    hookEvents,  \* watch events the webhook has not handled
    annotation,  \* annotation[p]: the imports named by pod p, split at commas
    phase,       \* phase[p]: "wanted", "mutating" or "running"
    todo,        \* todo[p]: the names its review has still to look up
    volumes      \* volumes[p]: what is mounted, and where

hookVars == <<hookCache, hookEvents>>
podVars == <<annotation, phase, todo, volumes>>

Volume == [secret : Nat, path : Imports]

MountInit ==
    /\ Init
    /\ hookCache = {} /\ hookEvents = <<>>
    /\ annotation = Annotation
    /\ phase = [p \in Pods |-> "wanted"]
    /\ todo = [p \in Pods |-> <<>>]
    /\ volumes = [p \in Pods |-> <<>>]

-----------------------------------------------------------------------------
(* Every write of an import is an event on the webhook's watch too.        *)
Watch ==
    IF sais' = sais
       THEN UNCHANGED hookVars
       ELSE /\ \/ \E o \in sais' \ sais :
                     hookEvents' = Append(hookEvents, [type |-> "put", obj |-> o])
               \/ /\ sais' \subseteq sais
                  /\ \E o \in sais \ sais' :
                        hookEvents' = Append(hookEvents,
                                             [type |-> "delete", obj |-> o])
            /\ UNCHANGED hookCache

HandleHookEvent ==
    /\ hookEvents # <<>>
    /\ hookCache' = Apply(hookCache, Head(hookEvents))
    /\ hookEvents' = Tail(hookEvents)
    /\ UNCHANGED <<vars, podVars>>

(* A bug: a review that failed is taken up where it stopped.               *)
RejectKeepingNames(p) ==
    /\ phase' = [phase EXCEPT ![p] = "wanted"]
    /\ UNCHANGED <<todo, volumes>>

(* An error response: the pod is not created and its owner tries again.    *)
Reject(p) ==
    /\ phase' = [phase EXCEPT ![p] = "wanted"]
    /\ todo' = [todo EXCEPT ![p] = <<>>]
    /\ volumes' = [volumes EXCEPT ![p] = <<>>]

(* A pod is submitted; without the annotation nothing is done to it.       *)
Handle(p) ==
    /\ phase[p] = "wanted"
    /\ phase' = [phase EXCEPT ![p] =
                    IF annotation[p] = <<>> THEN "running" ELSE "mutating"]
    /\ todo' = [todo EXCEPT ![p] = annotation[p]]
    /\ UNCHANGED <<vars, hookVars, annotation, volumes>>

(* A bug: off by one, an import with one secret has none.                  *)
ReadyWithTwo(n) == {o \in hookCache : o.name = n /\ Len(o.secrets) > 1}

(* The imports of that name in the cache, if they have a secret.           *)
Ready(n) == {o \in hookCache : o.name = n /\ o.secrets # <<>>}

(* The volume for an import: the first secret its status lists.            *)
VolumeFor(o) == [secret |-> Head(o.secrets), path |-> o.name]

(* Volumes with equal names are refused by the API server.                 *)
Distinct(vs) == IsInjective([k \in 1..Len(vs) |-> vs[k].secret])

(* The patch of a review that has no name left to look up.                 *)
Respond(p, vs) ==
    IF Distinct(vs)
       THEN /\ phase' = [phase EXCEPT ![p] = "running"]
            /\ todo' = [todo EXCEPT ![p] = <<>>]
            /\ volumes' = [volumes EXCEPT ![p] = vs]
       ELSE Reject(p)

MountNext(p, vs) ==
    IF Tail(todo[p]) = <<>>
       THEN Respond(p, vs)
       ELSE /\ todo' = [todo EXCEPT ![p] = Tail(@)]
            /\ volumes' = [volumes EXCEPT ![p] = vs]
            /\ UNCHANGED phase

(* A bug: an import that is missing or has no secret is skipped.           *)
SkipMissing(p) ==
    /\ phase[p] = "mutating"
    /\ \/ \E o \in Ready(Head(todo[p])) :
             MountNext(p, Append(volumes[p], VolumeFor(o)))
       \/ Ready(Head(todo[p])) = {} /\ MountNext(p, volumes[p])
    /\ UNCHANGED <<vars, hookVars, annotation>>

(* One iteration of the loop: one import is looked up and mounted, or the  *)
(* whole review is an error.                                               *)
mutatePods(p) ==
    /\ phase[p] = "mutating"
    /\ \/ \E o \in Ready(Head(todo[p])) :
             MountNext(p, Append(volumes[p], VolumeFor(o)))
       \/ Ready(Head(todo[p])) = {} /\ Reject(p)
    /\ UNCHANGED <<vars, hookVars, annotation>>

(* A pod is evicted; its owner submits another.                            *)
RestartPod(p) ==
    /\ phase[p] = "running"
    /\ Fault
    /\ Reject(p)
    /\ UNCHANGED <<storeVars, sourceVars, cacheVars, dirty, srcClients, pc,
                   localVars, editVars, hookVars, annotation>>

(* The webhook dies with its reviews and its cache; while it is down no    *)
(* pod is admitted, and it fills its cache before it answers again.        *)
RestartWebhook ==
    /\ Fault
    /\ hookCache' = sais /\ hookEvents' = <<>>
    /\ phase' = [p \in Pods |-> IF phase[p] = "running" THEN "running" ELSE "wanted"]
    /\ todo' = [p \in Pods |-> <<>>]
    /\ volumes' = [p \in Pods |-> IF phase[p] = "running" THEN volumes[p] ELSE <<>>]
    /\ UNCHANGED <<storeVars, sourceVars, cacheVars, dirty, srcClients, pc,
                   localVars, editVars, annotation>>

Review(p) == Handle(p) \/ mutatePods(p)

mountVars == <<vars, hookVars, podVars>>

-----------------------------------------------------------------------------
(* Properties.                                                             *)

(* Every variable of the webhook has its type; a review has names left.    *)
MountTypeOK ==
    /\ hookCache \subseteq ServiceAccountImport
    /\ hookEvents \in Seq(Event(ServiceAccountImport))
    /\ annotation \in [Pods -> Seq(Imports)]
    /\ phase \in [Pods -> {"wanted", "mutating", "running"}]
    /\ todo \in [Pods -> Seq(Imports)]
    /\ volumes \in [Pods -> Seq(Volume)]
    /\ \A p \in Pods : phase[p] = "mutating" <=> todo[p] # <<>>

(* A pod that runs has a volume for each import it named and in their      *)
(* order, none of which is a secret of another import, however stale the   *)
(* statuses were that the webhook read: a pod never runs with a part of    *)
(* its credentials, nor with another pod's.                                *)
MountedAsAnnotated ==
    \A p \in Pods : phase[p] = "running" =>
        /\ [k \in 1..Len(volumes[p]) |-> volumes[p][k].path] = annotation[p]
        /\ \A k \in 1..Len(volumes[p]) : \A s \in secrets :
              s.name = volumes[p][k].secret => s.import = volumes[p][k].path

(* A secret that a pod mounts exists, so the pod can start, until a user   *)
(* deletes something in either cluster: the controller itself, whatever it *)
(* does about duplicates and lost answers, takes no secret away.           *)
MountedExist ==
    edits = 0 /\ sourceEdits = 0 =>
        \A p \in Pods : phase[p] = "running" =>
            \A k \in 1..Len(volumes[p]) :
                \E s \in secrets : s.name = volumes[p][k].secret
=============================================================================
