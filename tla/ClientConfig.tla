---------------------------- MODULE ClientConfig ----------------------------
(***************************************************************************)
(* pkg/config: how a program in a pod finds its credentials.  It reads     *)
(* them from the service account imports mounted in the pod, from the      *)
(* contexts of a kubeconfig, or from the pod's regular service account;    *)
(* the import controller itself gets its clients this way.                 *)
(*                                                                         *)
(* The package keeps no state, but a call reads several files, and one     *)
(* file for two answers, while the kubelet and users change them.  Every   *)
(* access to a file is a step.  A call is modelled by what it is asked     *)
(* for: one name or all of them, from imports, contexts or both.  What a   *)
(* file says is abstracted to where it comes from and its version, and     *)
(* what a context of the kubeconfig says to whether it names a cluster and *)
(* a namespace: client-go fills in what is missing from the pod.           *)
(***************************************************************************)
EXTENDS Naturals, FiniteSets

CONSTANTS
    Names,      \* names of imports and of kubeconfig contexts
    NoName,     \* the empty name
    Default,    \* the namespace called default
    Error,
    MaxChanges  \* how often a file changes

ASSUME NamesAssumption ==
    NoName \notin Names /\ IsFiniteSet(Names) /\ MaxChanges \in Nat

VARIABLES
    mounted,     \* the imports mounted in the pod
    files,       \* files[n]: the version of import n's file "config"
    kubeconfig,  \* its contexts, its current context and its version
    inPod,       \* whether there is a regular service account
    changes,
    pc,          \* the step the call takes next
    call,        \* what is asked for
    stage, name, \* where and under which name the present loader looks
    wrapped,     \* what that loader has read, or Error when it has not
    config,      \* the rest.Config it has returned
    todo,        \* the names a call for all of them has still to load
    opened,      \* history: the call could open the directory of imports
    out          \* what the call returns, by name

fileVars == <<mounted, files, kubeconfig, inPod, changes>>
loaderVars == <<stage, name, wrapped, config>>
vars == <<fileVars, pc, call, loaderVars, todo, opened, out>>

Unreadable == 0  \* the version of a file that is missing or cannot be parsed

Sources == {"import", "context"}

Credentials == [kind : Sources \union {"pod"}, name : Names \union {NoName},
                version : Nat]

(* A loader reads both answers from its file at once.                      *)
ConfigAndNamespaceTuple ==
    [config : Credentials, namespace : Credentials \union {Default}]

(* Whether a context names a cluster, and which namespace it names: none,  *)
(* default or another, which is as much its own as its cluster.            *)
Contexts == [cluster : BOOLEAN, namespace : {"none", "default", "own"}]

ContextMaps == UNION {[names -> Contexts] : names \in SUBSET Names}

KubeconfigOf(versions) ==
    [contexts : ContextMaps, current : Names \union {NoName}, version : versions]

NoCall == [all |-> FALSE, name |-> NoName, uses |-> {}]

Nothing == [n \in {} |-> Error]

Broken == [contexts |-> Nothing, current |-> NoName, version |-> Unreadable]

Init ==
    /\ mounted \in SUBSET Names
    /\ files \in [mounted -> {Unreadable, 1}]
    /\ kubeconfig \in KubeconfigOf({1})
    /\ inPod \in BOOLEAN
    /\ changes = 0
    /\ pc = "ready" /\ call = NoCall
    /\ stage = "import" /\ name = NoName /\ wrapped = Error /\ config = Error
    /\ todo = {} /\ opened = TRUE /\ out = Nothing

-----------------------------------------------------------------------------
(* What the files say.                                                     *)

From(kind, n, version) == [kind |-> kind, name |-> n, version |-> version]

PodAccount == From("pod", NoName, 1)

ReadImport(n) ==
    IF files[n] = Unreadable THEN Error
    ELSE LET account == From("import", n, files[n])
         IN  [config |-> account, namespace |-> account]

(* The namespace client-go answers for a context.  In a pod one that names *)
(* none, or says default, gets the pod's own namespace, unless the current *)
(* context, which need not be the one that is asked for, names one.        *)
ContextNamespace(n) ==
    LET contexts == kubeconfig.contexts
        currentNamesOne == /\ kubeconfig.current \in DOMAIN contexts
                           /\ contexts[kubeconfig.current].namespace # "none"
    IN  IF contexts[n].namespace = "own"
           THEN From("context", n, kubeconfig.version)
        ELSE IF inPod /\ ~currentNamesOne THEN PodAccount
        ELSE Default

(* The kubeconfig loader of client-go: the context that is named, which    *)
(* must exist, or else the current one.  The pod's own account stands in   *)
(* when there is no current one, and for a context that names no cluster.  *)
(* A file that does not exist is one without contexts.                     *)
ReadContext(n) ==
    LET asked == IF n = NoName THEN kubeconfig.current ELSE n
        exists == asked \in DOMAIN kubeconfig.contexts
        usable == exists /\ kubeconfig.contexts[asked].cluster
        readable == kubeconfig.version # Unreadable
    IN  CASE readable /\ usable ->
                [config |-> From("context", asked, kubeconfig.version),
                 namespace |-> ContextNamespace(asked)]
          [] readable /\ ~usable /\ inPod /\ (exists \/ asked = NoName) ->
                [config |-> PodAccount, namespace |-> PodAccount]
          [] OTHER -> Error

Read == IF stage = "import" THEN ReadImport(name) ELSE ReadContext(name)

(* A file is read once per loader; a bug: every time.                      *)
WrapAgain == Read
Wrap == IF wrapped # Error THEN wrapped ELSE Read

-----------------------------------------------------------------------------
(* Loaders.                                                                *)

Use(source, n) ==
    /\ stage' = source /\ name' = n
    /\ wrapped' = Error /\ config' = Error
    /\ pc' = "config"

End(outcome) == pc' = outcome /\ UNCHANGED loaderVars

(* A bug: a call for all names goes on without the one that failed.        *)
SkipFailed ==
    IF call.all
       THEN End("next") /\ UNCHANGED <<todo, out>>
       ELSE Use("context", call.name) /\ UNCHANGED <<todo, out>>

(* An import that cannot be used: a call for one name falls back to the    *)
(* context of that name, any other returns the error and nothing else.     *)
Fail ==
    IF stage = "import" /\ ~call.all /\ "context" \in call.uses
       THEN Use("context", call.name) /\ UNCHANGED <<todo, out>>
       ELSE End("failed") /\ todo' = {} /\ out' = Nothing

ClientConfig ==
    /\ pc = "config"
    /\ IF Wrap = Error
          THEN Fail
          ELSE /\ wrapped' = Wrap /\ config' = Wrap.config
               /\ pc' = "namespace"
               /\ UNCHANGED <<stage, name, todo, out>>
    /\ UNCHANGED <<fileVars, call, opened>>

(* The answer for the present name joins those of the others.              *)
Returned(answer) ==
    [n \in DOMAIN out \union {name} |-> IF n = name THEN answer ELSE out[n]]

Namespace ==
    /\ pc = "namespace"
    /\ IF Wrap = Error
          THEN Fail
          ELSE /\ out' = Returned([config |-> config, namespace |-> Wrap.namespace])
               /\ End(IF call.all THEN "next" ELSE "done")
               /\ UNCHANGED todo
    /\ UNCHANGED <<fileVars, call, opened>>

-----------------------------------------------------------------------------
(* Calls.                                                                  *)

(* A bug: the name is only looked at when several imports are mounted.     *)
OnlyOrNamed(n) ==
    IF Cardinality(mounted) = 1 THEN mounted ELSE mounted \intersect {n}

(* A bug: whether the import is mounted is not looked at.                  *)
Unchecked(n) ==
    IF n # NoName THEN {n}
    ELSE IF Cardinality(mounted) = 1 THEN mounted ELSE {}

(* The mounted import that is asked for: the only one when no name is      *)
(* given, if there is only one.                                            *)
ImportNamed(n) ==
    IF n # NoName THEN mounted \intersect {n}
    ELSE IF Cardinality(mounted) = 1 THEN mounted ELSE {}

NotMounted(n, uses) ==
    IF "context" \in uses THEN Use("context", n) ELSE End("failed")

(* [Named][ServiceAccountImport]ConfigAndNamespace, ...ForContext.  A      *)
(* directory of imports that cannot be opened, read or searched is, in a   *)
(* call for one name, like one without an import of that name.             *)
CallOne(n, uses) ==
    /\ pc = "ready"
    /\ call' = [all |-> FALSE, name |-> n, uses |-> uses]
    /\ IF "import" \in uses
          THEN \/ \E i \in ImportNamed(n) : Use("import", i)
               \/ NotMounted(n, uses)
          ELSE Use("context", n)
    /\ UNCHANGED <<fileVars, todo, opened, out>>

(* AllServiceAccountImportNames: the mounted imports.  Any error of the    *)
(* open is taken to mean that there are none; one of the read is returned. *)
List ==
    /\ todo' = mounted /\ opened' = TRUE
    /\ pc' = "next"

NotOpened ==
    /\ mounted # {}
    /\ todo' = {} /\ opened' = FALSE
    /\ pc' = "next"

NotRead ==
    /\ mounted # {}
    /\ pc' = "failed"
    /\ UNCHANGED <<todo, opened>>

(* All[Named|ServiceAccountImport]ConfigsAndNamespaces: the mounted        *)
(* imports are listed first.                                               *)
CallAll(uses) ==
    /\ pc = "ready"
    /\ "import" \in uses
    /\ call' = [all |-> TRUE, name |-> NoName, uses |-> uses]
    /\ stage' = "import"
    /\ List \/ NotOpened \/ NotRead
    /\ UNCHANGED <<fileVars, name, wrapped, config, out>>

NextLoader ==
    /\ pc = "next"
    /\ \E n \in todo : Use(stage, n) /\ todo' = todo \ {n}
    /\ UNCHANGED <<fileVars, call, opened, out>>

(* When all imports are loaded the contexts are listed; each is loaded     *)
(* from the file again, and takes the place of an import of its name.      *)
ListContexts ==
    /\ pc = "next"
    /\ todo = {}
    /\ stage = "import" /\ "context" \in call.uses
    /\ IF kubeconfig.version = Unreadable
          THEN End("failed") /\ out' = Nothing /\ UNCHANGED todo
          ELSE /\ todo' = DOMAIN kubeconfig.contexts
               /\ stage' = "context"
               /\ UNCHANGED <<pc, name, wrapped, config, out>>
    /\ UNCHANGED <<fileVars, call, opened>>

ReturnAll ==
    /\ pc = "next"
    /\ todo = {}
    /\ stage = "import" => "context" \notin call.uses
    /\ End("done")
    /\ UNCHANGED <<fileVars, call, todo, opened, out>>

(* The caller has got its answer, and calls again.                         *)
Answer ==
    /\ pc \in {"done", "failed"}
    /\ pc' = "ready" /\ call' = NoCall
    /\ stage' = "import" /\ name' = NoName
    /\ wrapped' = Error /\ config' = Error
    /\ todo' = {} /\ opened' = TRUE /\ out' = Nothing
    /\ UNCHANGED fileVars

Load == ClientConfig \/ Namespace \/ NextLoader \/ ListContexts \/ ReturnAll

-----------------------------------------------------------------------------
(* The environment.                                                        *)

Change == changes < MaxChanges /\ changes' = changes + 1

(* The kubelet replaces a mounted file in one step, when its secret has    *)
(* changed; what a user has written there may be unreadable.               *)
UpdateMount ==
    /\ Change
    /\ \E n \in mounted, v \in {Unreadable, changes + 2} :
          files' = [files EXCEPT ![n] = v]
    /\ UNCHANGED <<mounted, kubeconfig, inPod, pc, call, loaderVars, todo, opened,
                   out>>

(* The contexts change, or which of them is the current one, or the file   *)
(* can no longer be parsed.                                                *)
EditKubeconfig ==
    /\ Change
    /\ \/ \E contexts \in ContextMaps :
             kubeconfig' = [kubeconfig EXCEPT !.contexts = contexts,
                                              !.version = changes + 2]
       \/ \E current \in Names \union {NoName} :
             kubeconfig' = [kubeconfig EXCEPT !.current = current,
                                              !.version = changes + 2]
       \/ kubeconfig' = Broken
    /\ UNCHANGED <<mounted, files, inPod, pc, call, loaderVars, todo, opened, out>>

Next ==
    \/ \E n \in Names \union {NoName}, uses \in SUBSET Sources \ {{}} :
          CallOne(n, uses)
    \/ \E uses \in SUBSET Sources \ {{}} : CallAll(uses)
    \/ Load \/ Answer
    \/ UpdateMount \/ EditKubeconfig

Spec == Init /\ [][Next]_vars

-----------------------------------------------------------------------------
(* Properties.                                                             *)

(* Every variable has its type; a loader that looks among the imports has  *)
(* the name of one that is mounted.                                        *)
TypeOK ==
    /\ mounted \subseteq Names
    /\ files \in [mounted -> Nat]
    /\ kubeconfig \in KubeconfigOf(Nat)
    /\ inPod \in BOOLEAN
    /\ changes \in Nat
    /\ pc \in {"ready", "config", "namespace", "next", "done", "failed"}
    /\ call \in [all : BOOLEAN, name : Names \union {NoName}, uses : SUBSET Sources]
    /\ stage \in Sources /\ name \in Names \union {NoName}
    /\ pc \in {"config", "namespace"} /\ stage = "import" => name \in mounted
    /\ wrapped \in ConfigAndNamespaceTuple \union {Error}
    /\ config \in Credentials \union {Error}
    /\ pc = "namespace" =>
          wrapped \in ConfigAndNamespaceTuple /\ config \in Credentials
    /\ todo \subseteq Names /\ opened \in BOOLEAN
    /\ \A n \in DOMAIN out : out[n] \in ConfigAndNamespaceTuple

(* The namespace that is returned with a config comes from the same file   *)
(* in the same version, whenever the kubelet replaced it: the token of an  *)
(* import, or the pod's own, is never used in the namespace of another     *)
(* account.  Only a context may come with the namespace default or, in a   *)
(* pod, with the pod's own.                                                *)
OneVersion ==
    \A n \in DOMAIN out :
        \/ out[n].namespace = out[n].config
        \/ /\ out[n].config.kind = "context"
           /\ \/ out[n].namespace = Default
              \/ inPod /\ out[n].namespace = PodAccount

(* What a call returns for a name is the import or the context of that     *)
(* name and no other's, save the pod's own account for a context that      *)
(* names no cluster; without a name it is the only import there is, the    *)
(* current context or the pod's own account.                               *)
AsNamed ==
    /\ \A n \in DOMAIN out \ {NoName} :
          \/ out[n].config.name = n
          \/ inPod /\ out[n].config = PodAccount
    /\ pc = "done" /\ ~call.all =>
          DOMAIN out \subseteq (IF call.name # NoName THEN {call.name}
                                ELSE {NoName} \union ImportNamed(NoName))

(* A call for all names returns every mounted import, under its own name   *)
(* or replaced by the context of that name, or returns nothing: it never   *)
(* returns some of the imports only.  When the directory of the imports    *)
(* could not be opened there are none of them in what it returns, although *)
(* it returns no error.                                                    *)
AllOrNothing ==
    /\ pc = "done" /\ call.all =>
          IF opened THEN mounted \subseteq DOMAIN out
          ELSE \A n \in DOMAIN out : out[n].config.kind # "import"
    /\ pc = "failed" => DOMAIN out = {}

(* config.go:31 "If several service account imports are mounted, an error  *)
(* is returned" by ConfigAndNamespace.                                     *)
SeveralAreAnError ==
    pc = "done" /\ ~call.all /\ call.name = NoName /\ call.uses = Sources =>
        Cardinality(mounted) <= 1
=============================================================================
