------------------------- MODULE ClientConfigProofs -------------------------
(***************************************************************************)
(* Proofs about the client configuration, for any number of imports and    *)
(* contexts and any number of changes of the files while a call is under   *)
(* way.                                                                    *)
(***************************************************************************)
EXTENDS ClientConfig, TLAPS

(* The names a call for one name may answer with.                          *)
NamesFor(n) ==
    IF n # NoName THEN {n} ELSE {NoName} \union ImportNamed(NoName)

(* The parts of OneVersion and AsNamed that speak of one answer.           *)
Together(answer) ==
    \/ answer.namespace = answer.config
    \/ /\ answer.config.kind = "context"
       /\ \/ answer.namespace = Default
          \/ inPod /\ answer.namespace = PodAccount

Named(account, n) ==
    \/ account.name = n
    \/ inPod /\ account = PodAccount

(* What a loader has read: no import when it looks among the contexts.     *)
Answers(reading) ==
    /\ Together(reading)
    /\ name # NoName => Named(reading.config, name)
    /\ stage # "import" => reading.config.kind # "import"

(* A loader has read nothing before its config is asked for, and both its  *)
(* answers when its namespace is.                                          *)
LoaderInv ==
    /\ pc = "config" => wrapped = Error
    /\ pc = "namespace" =>
          wrapped # Error /\ wrapped.config = config /\ Answers(wrapped)

(* What is loaded so far: nothing before a call for one name is over, and  *)
(* in a call for all of them each import that is not still to be loaded,   *)
(* or no import at all when they could not be listed.                      *)
Loading == pc \in {"config", "namespace"}

ProgressInv ==
    /\ pc \in {"ready", "failed"} => DOMAIN out = {}
    /\ pc = "next" => call.all
    /\ Loading /\ ~call.all => DOMAIN out = {} /\ name \in NamesFor(call.name)
    /\ (Loading \/ pc = "next") /\ call.all /\ opened =>
          mounted \subseteq DOMAIN out
              \union (IF stage = "import" THEN todo ELSE {})
              \union (IF stage = "import" /\ Loading THEN {name} ELSE {})
    /\ (Loading \/ pc = "next") /\ call.all /\ stage = "import" =>
          todo \subseteq mounted
    /\ (Loading \/ pc = "next") /\ call.all /\ stage = "import" /\ ~opened =>
          todo = {} /\ ~Loading
    /\ call.all /\ ~opened => \A n \in DOMAIN out : out[n].config.kind # "import"

CallInv ==
    /\ TypeOK /\ LoaderInv /\ ProgressInv
    /\ OneVersion /\ AsNamed /\ AllOrNothing

-----------------------------------------------------------------------------
(* What the operators return.                                              *)

(* The pod's own account is no account of an import or a context.          *)
LEMMA PodAccountIs ==
    /\ PodAccount \in Credentials
    /\ PodAccount.kind = "pod"
  BY DEF PodAccount, From, Credentials, Sources

LEMMA ReadImportIs ==
    ASSUME TypeOK, Loading, stage = "import", ReadImport(name) # Error
    PROVE  ReadImport(name) \in ConfigAndNamespaceTuple /\ Answers(ReadImport(name))
<1>1. name \in mounted /\ name \in Names /\ files[name] \in Nat
  BY DEF TypeOK, Loading
<1>2. PICK account : account = From("import", name, files[name])
  OBVIOUS
<1>3. account \in Credentials /\ account.name = name
  BY <1>1, <1>2 DEF From, Credentials, Sources
<1>4. ReadImport(name) = [config |-> account, namespace |-> account]
  BY <1>2 DEF ReadImport
<1>5. ReadImport(name) \in ConfigAndNamespaceTuple
  BY <1>3, <1>4 DEF ConfigAndNamespaceTuple
<1>6. Together(ReadImport(name)) /\ Named(ReadImport(name).config, name)
  BY <1>3, <1>4 DEF Together, Named
<1>. QED  BY <1>5, <1>6 DEF Answers

(* A context answers for itself, in its own namespace or in one client-go  *)
(* chooses, or the pod's own account answers for it.                       *)
LEMMA ReadContextIs ==
    ASSUME TypeOK, stage # "import", ReadContext(name) # Error
    PROVE  ReadContext(name) \in ConfigAndNamespaceTuple /\ Answers(ReadContext(name))
<1>1. /\ kubeconfig.contexts \in ContextMaps
      /\ kubeconfig.current \in Names \union {NoName}
      /\ kubeconfig.version \in Nat /\ name \in Names \union {NoName}
  BY DEF TypeOK, KubeconfigOf
<1>2. PICK asked : asked = IF name = NoName THEN kubeconfig.current ELSE name
  OBVIOUS
<1>3. PICK account : account = From("context", asked, kubeconfig.version)
  OBVIOUS
<1>4. /\ account \in Credentials /\ account.name = asked /\ account.kind = "context"
      /\ name # NoName => asked = name
  BY <1>1, <1>2, <1>3 DEF From, Credentials, Sources
<1>5. PICK namespace : namespace = ContextNamespace(asked)
  OBVIOUS
<1>6. \/ namespace = account
      \/ namespace = Default
      \/ inPod /\ namespace = PodAccount
  BY <1>3, <1>5 DEF ContextNamespace
<1>7. \/ ReadContext(name) = [config |-> account, namespace |-> namespace]
      \/ inPod /\ ReadContext(name) = [config |-> PodAccount, namespace |-> PodAccount]
  BY <1>2, <1>3, <1>5 DEF ReadContext
<1>8. CASE ReadContext(name) = [config |-> account, namespace |-> namespace]
  <2>1. namespace \in Credentials \union {Default}
    BY <1>4, <1>6, PodAccountIs
  <2>2. ReadContext(name) \in ConfigAndNamespaceTuple
    BY <1>4, <1>8, <2>1 DEF ConfigAndNamespaceTuple
  <2>3. /\ ReadContext(name).config = account
        /\ ReadContext(name).namespace = namespace
    BY <1>8
  <2>4. Together(ReadContext(name))
    BY <1>4, <1>6, <2>3 DEF Together
  <2>5. name # NoName => Named(ReadContext(name).config, name)
    BY <1>4, <2>3 DEF Named
  <2>. QED  BY <1>4, <2>2, <2>3, <2>4, <2>5 DEF Answers
<1>9. CASE /\ inPod
           /\ ReadContext(name) = [config |-> PodAccount, namespace |-> PodAccount]
  <2>1. ReadContext(name) \in ConfigAndNamespaceTuple
    BY <1>9, PodAccountIs DEF ConfigAndNamespaceTuple
  <2>2. /\ ReadContext(name).config = PodAccount
        /\ ReadContext(name).namespace = PodAccount
    BY <1>9
  <2>. QED  BY <1>9, <2>1, <2>2, PodAccountIs DEF Answers, Together, Named
<1>. QED  BY <1>7, <1>8, <1>9

LEMMA ReadType ==
    ASSUME TypeOK, Loading, Read # Error
    PROVE  Read \in ConfigAndNamespaceTuple /\ Answers(Read)
<1>1. CASE stage = "import"
  BY <1>1, ReadImportIs DEF Read
<1>2. CASE stage # "import"
  BY <1>2, ReadContextIs DEF Read
<1>. QED  BY <1>1, <1>2

(* The two answers of a loader are of one reading.                         *)
LEMMA WrapOnce ==
    ASSUME TypeOK, LoaderInv, Loading, Wrap # Error
    PROVE  /\ Wrap \in ConfigAndNamespaceTuple /\ Answers(Wrap)
           /\ pc = "namespace" => Wrap.config = config
<1>1. CASE pc = "config"
  BY <1>1, ReadType DEF LoaderInv, Wrap
<1>2. CASE pc = "namespace"
  BY <1>2 DEF LoaderInv, Wrap, TypeOK
<1>. QED  BY <1>1, <1>2 DEF Loading

LEMMA NothingAnswered ==
    DOMAIN Nothing = {}
  BY DEF Nothing

-----------------------------------------------------------------------------
(* The steps of a call.                                                    *)

(* The part of CallInv that no step of a loader can disturb.               *)
LEMMA FailStep ==
    ASSUME CallInv, Loading, Fail, UNCHANGED <<fileVars, call, opened>>
    PROVE  CallInv'
<1>1. TypeOK /\ UNCHANGED <<mounted, files, kubeconfig, inPod, changes, call, opened>>
  BY DEF CallInv, fileVars
<1>2. CASE /\ stage = "import" /\ ~call.all
           /\ Use("context", call.name) /\ UNCHANGED <<todo, out>>
  <2>1. /\ stage' = "context" /\ name' = call.name /\ pc' = "config"
        /\ wrapped' = Error /\ config' = Error /\ UNCHANGED <<todo, out>>
    BY <1>2 DEF Use
  <2>2. TypeOK'
    BY <1>1, <2>1 DEF TypeOK, Sources
  <2>3. LoaderInv' /\ OneVersion' /\ AllOrNothing'
    BY <1>1, <2>1 DEF LoaderInv, CallInv, OneVersion, AllOrNothing
  <2>4. ProgressInv'
    BY <1>1, <1>2, <2>1 DEF ProgressInv, CallInv, Loading, NamesFor
  <2>5. AsNamed'
    BY <1>1, <2>1 DEF AsNamed, CallInv
  <2>. QED  BY <2>2, <2>3, <2>4, <2>5 DEF CallInv
<1>3. CASE End("failed") /\ todo' = {} /\ out' = Nothing
  <2>1. /\ pc' = "failed" /\ UNCHANGED <<stage, name, wrapped, config>>
        /\ todo' = {} /\ DOMAIN out' = {}
    BY <1>3, NothingAnswered DEF End, loaderVars
  <2>2. TypeOK'
    BY <1>1, <2>1 DEF TypeOK
  <2>3. LoaderInv' /\ ProgressInv'
    BY <2>1 DEF LoaderInv, ProgressInv, Loading
  <2>4. OneVersion' /\ AsNamed' /\ AllOrNothing'
    BY <2>1 DEF OneVersion, AsNamed, AllOrNothing
  <2>. QED  BY <2>2, <2>3, <2>4 DEF CallInv
<1>. QED  BY <1>2, <1>3 DEF Fail

LEMMA ClientConfigStep ==
    ASSUME CallInv, ClientConfig
    PROVE  CallInv'
<1>1. /\ TypeOK /\ LoaderInv /\ Loading /\ pc = "config"
      /\ UNCHANGED <<fileVars, call, opened>>
      /\ UNCHANGED <<mounted, files, kubeconfig, inPod, changes, call, opened>>
  BY DEF CallInv, ClientConfig, Loading, fileVars
<1>2. CASE Fail
  BY <1>1, <1>2, FailStep
<1>3. CASE /\ Wrap # Error
           /\ wrapped' = Wrap /\ config' = Wrap.config
           /\ pc' = "namespace"
           /\ UNCHANGED <<stage, name, todo, out>>
  <2>1. Wrap \in ConfigAndNamespaceTuple /\ Answers(Wrap)
    BY <1>1, <1>3, WrapOnce
  <2>2. Wrap.config \in Credentials
    BY <2>1 DEF ConfigAndNamespaceTuple
  <2>3. TypeOK'
    BY <1>1, <1>3, <2>1, <2>2 DEF TypeOK
  <2>4. LoaderInv'
    <3>1. wrapped' # Error /\ wrapped'.config = config'
      BY <1>3
    <3>2. Answers(wrapped)'
      BY <1>1, <1>3, <2>1 DEF Answers, Together, Named
    <3>. QED  BY <1>3, <3>1, <3>2 DEF LoaderInv
  <2>5. ProgressInv'
    BY <1>1, <1>3 DEF ProgressInv, CallInv, Loading, NamesFor, ImportNamed
  <2>6. OneVersion' /\ AsNamed' /\ AllOrNothing'
    BY <1>1, <1>3 DEF CallInv, OneVersion, AsNamed, AllOrNothing
  <2>. QED  BY <2>3, <2>4, <2>5, <2>6 DEF CallInv
<1>. QED  BY <1>2, <1>3 DEF ClientConfig

LEMMA NamespaceStep ==
    ASSUME CallInv, Namespace
    PROVE  CallInv'
<1>1. /\ TypeOK /\ LoaderInv /\ Loading /\ pc = "namespace"
      /\ UNCHANGED <<fileVars, call, opened>>
      /\ UNCHANGED <<mounted, files, kubeconfig, inPod, changes, call, opened>>
  BY DEF CallInv, Namespace, Loading, fileVars
<1>2. CASE Fail
  BY <1>1, <1>2, FailStep
<1>3. CASE /\ Wrap # Error
           /\ out' = Returned([config |-> config, namespace |-> Wrap.namespace])
           /\ End(IF call.all THEN "next" ELSE "done")
           /\ UNCHANGED todo
  <2>1. PICK answer : answer = [config |-> config, namespace |-> Wrap.namespace]
    OBVIOUS
  <2>2. /\ DOMAIN out' = DOMAIN out \union {name}
        /\ out'[name] = answer
        /\ \A n \in DOMAIN out : n # name => out'[n] = out[n]
    BY <1>3, <2>1 DEF Returned
  <2>3. answer \in ConfigAndNamespaceTuple /\ Answers(answer)
    <3>1. /\ Wrap \in ConfigAndNamespaceTuple /\ Answers(Wrap)
          /\ Wrap.config = config
      BY <1>1, <1>3, WrapOnce
    <3>2. answer.config = Wrap.config /\ answer.namespace = Wrap.namespace
      BY <2>1, <3>1
    <3>3. answer \in ConfigAndNamespaceTuple
      BY <2>1, <3>1 DEF ConfigAndNamespaceTuple
    <3>. QED  BY <3>1, <3>2, <3>3 DEF Answers, Together, Named
  <2>4. /\ pc' = IF call.all THEN "next" ELSE "done"
        /\ UNCHANGED <<stage, name, wrapped, config, todo>>
    BY <1>3 DEF End, loaderVars
  <2>5. TypeOK'
    <3>1. \A n \in DOMAIN out' : out'[n] \in ConfigAndNamespaceTuple
      BY <1>1, <2>2, <2>3 DEF TypeOK
    <3>. QED  BY <1>1, <2>4, <3>1 DEF TypeOK
  <2>6. LoaderInv'
    BY <2>4 DEF LoaderInv
  <2>7. ProgressInv'
    <3>1. call.all /\ ~opened => \A n \in DOMAIN out' : out'[n].config.kind # "import"
      BY <1>1, <2>2, <2>3 DEF ProgressInv, CallInv, Loading, Answers
    <3>. QED  BY <1>1, <2>2, <2>4, <3>1 DEF ProgressInv, CallInv, Loading
  <2>8. OneVersion'
    BY <1>1, <2>2, <2>3 DEF OneVersion, CallInv, Answers, Together
  <2>9. AsNamed'
    <3>1. \A n \in DOMAIN out' \ {NoName} :
              \/ out'[n].config.name = n
              \/ inPod /\ out'[n].config = PodAccount
      BY <2>2, <2>3 DEF AsNamed, CallInv, Answers, Named
    <3>2. ~call.all => DOMAIN out' = {name} /\ name \in NamesFor(call.name)
      BY <1>1, <2>2 DEF ProgressInv, CallInv
    <3>. QED  BY <1>1, <3>1, <3>2 DEF AsNamed, NamesFor, ImportNamed
  <2>10. AllOrNothing'
    BY <1>1, <2>4 DEF AllOrNothing
  <2>. QED  BY <2>5, <2>6, <2>7, <2>8, <2>9, <2>10 DEF CallInv
<1>. QED  BY <1>2, <1>3 DEF Namespace

LEMMA UsesContext ==
    ASSUME TypeOK, NEW uses \in SUBSET Sources, NEW n \in Names \union {NoName},
           pc = "ready", DOMAIN out = {},
           call' = [all |-> FALSE, name |-> n, uses |-> uses],
           Use("context", n), UNCHANGED <<fileVars, todo, opened, out>>
    PROVE  CallInv'
<1>1. /\ UNCHANGED <<mounted, files, kubeconfig, inPod, changes, todo, opened, out>>
      /\ stage' = "context" /\ name' = n /\ pc' = "config"
      /\ wrapped' = Error /\ config' = Error
      /\ call'.all = FALSE /\ call'.name = n
  BY DEF fileVars, Use
<1>2. TypeOK'
  BY <1>1 DEF TypeOK, Sources
<1>3. LoaderInv' /\ OneVersion' /\ AsNamed' /\ AllOrNothing'
  BY <1>1 DEF LoaderInv, OneVersion, AsNamed, AllOrNothing
<1>4. ProgressInv'
  BY <1>1 DEF ProgressInv, Loading, NamesFor
<1>. QED  BY <1>2, <1>3, <1>4 DEF CallInv

LEMMA CallOneStep ==
    ASSUME CallInv, NEW n \in Names \union {NoName},
           NEW uses \in SUBSET Sources \ {{}}, CallOne(n, uses)
    PROVE  CallInv'
<1>1. /\ TypeOK /\ pc = "ready" /\ DOMAIN out = {}
      /\ call' = [all |-> FALSE, name |-> n, uses |-> uses]
      /\ call'.all = FALSE /\ call'.name = n
      /\ UNCHANGED <<fileVars, todo, opened, out>>
      /\ UNCHANGED <<mounted, files, kubeconfig, inPod, changes, todo, opened, out>>
  BY DEF CallInv, CallOne, ProgressInv, fileVars
<1>2. CASE Use("context", n)
  BY <1>1, <1>2, UsesContext
<1>3. ASSUME NEW i \in ImportNamed(n), Use("import", i)
      PROVE  CallInv'
  <2>1. i \in mounted /\ i \in Names /\ i \in NamesFor(n)
    BY <1>1 DEF ImportNamed, NamesFor, TypeOK
  <2>2. /\ stage' = "import" /\ name' = i /\ pc' = "config"
        /\ wrapped' = Error /\ config' = Error
    BY <1>3 DEF Use
  <2>3. TypeOK'
    BY <1>1, <2>1, <2>2 DEF TypeOK, Sources
  <2>4. LoaderInv' /\ OneVersion' /\ AsNamed' /\ AllOrNothing'
    BY <1>1, <2>2 DEF LoaderInv, OneVersion, AsNamed, AllOrNothing
  <2>5. ProgressInv'
    BY <1>1, <2>1, <2>2 DEF ProgressInv, Loading, NamesFor, ImportNamed
  <2>. QED  BY <2>3, <2>4, <2>5 DEF CallInv
<1>4. CASE End("failed")
  <2>1. pc' = "failed" /\ UNCHANGED <<stage, name, wrapped, config>>
    BY <1>4 DEF End, loaderVars
  <2>2. TypeOK'
    BY <1>1, <2>1 DEF TypeOK
  <2>3. LoaderInv' /\ OneVersion' /\ AsNamed' /\ AllOrNothing' /\ ProgressInv'
    BY <1>1, <2>1 DEF LoaderInv, OneVersion, AsNamed, AllOrNothing, ProgressInv,
                      Loading
  <2>. QED  BY <2>2, <2>3 DEF CallInv
<1>. QED  BY <1>2, <1>3, <1>4 DEF CallOne, NotMounted

LEMMA CallAllStep ==
    ASSUME CallInv, NEW uses \in SUBSET Sources \ {{}}, CallAll(uses)
    PROVE  CallInv'
<1>1. /\ TypeOK /\ DOMAIN out = {} /\ call'.all /\ stage' = "import"
      /\ call' = [all |-> TRUE, name |-> NoName, uses |-> uses]
      /\ UNCHANGED <<mounted, files, kubeconfig, inPod, changes, name, wrapped,
                     config, out>>
  BY DEF CallInv, CallAll, ProgressInv, fileVars
<1>2. /\ pc' \in {"next", "failed"} /\ opened' \in BOOLEAN
      /\ todo' \in SUBSET Names
      /\ pc' = "next" => todo' = IF opened' THEN mounted ELSE {}
  BY <1>1 DEF CallAll, List, NotOpened, NotRead, TypeOK
<1>3. TypeOK'
  BY <1>1, <1>2 DEF TypeOK, Sources
<1>4. LoaderInv' /\ OneVersion' /\ AsNamed' /\ AllOrNothing'
  BY <1>1, <1>2 DEF LoaderInv, OneVersion, AsNamed, AllOrNothing
<1>5. ProgressInv'
  BY <1>1, <1>2 DEF ProgressInv, Loading
<1>. QED  BY <1>3, <1>4, <1>5 DEF CallInv

(* A name that leaves the work still to do is the one being loaded.        *)
LEMMA NextLoaderStep ==
    ASSUME CallInv, NextLoader
    PROVE  CallInv'
<1>1. PICK n \in todo : Use(stage, n) /\ todo' = todo \ {n}
  BY DEF NextLoader
<1>2. /\ TypeOK /\ pc = "next" /\ call.all
      /\ stage' = stage /\ name' = n /\ pc' = "config"
      /\ wrapped' = Error /\ config' = Error
      /\ UNCHANGED <<mounted, files, kubeconfig, inPod, changes, call, opened, out>>
  BY <1>1 DEF CallInv, NextLoader, ProgressInv, Use, fileVars
<1>3. stage = "import" => n \in mounted /\ opened
  BY <1>1, <1>2 DEF CallInv, ProgressInv
<1>4. TypeOK'
  BY <1>1, <1>2, <1>3 DEF TypeOK
<1>5. ProgressInv'
  BY <1>1, <1>2, <1>3 DEF CallInv, ProgressInv, Loading
<1>6. LoaderInv' /\ OneVersion' /\ AsNamed' /\ AllOrNothing'
  BY <1>2 DEF CallInv, LoaderInv, OneVersion, AsNamed, AllOrNothing
<1>. QED  BY <1>4, <1>5, <1>6 DEF CallInv

(* The imports are all loaded when the contexts are listed.                *)
LEMMA ListContextsStep ==
    ASSUME CallInv, ListContexts
    PROVE  CallInv'
<1>1. /\ TypeOK /\ pc = "next" /\ call.all
      /\ opened => mounted \subseteq DOMAIN out
      /\ UNCHANGED <<mounted, files, kubeconfig, inPod, changes, call, opened>>
  BY DEF CallInv, ListContexts, ProgressInv, Loading, fileVars
<1>2. CASE End("failed") /\ out' = Nothing /\ UNCHANGED todo
  <2>1. /\ pc' = "failed" /\ UNCHANGED <<stage, name, wrapped, config, todo>>
        /\ DOMAIN out' = {}
    BY <1>2, NothingAnswered DEF End, loaderVars
  <2>2. TypeOK'
    BY <1>1, <2>1 DEF TypeOK
  <2>3. LoaderInv' /\ OneVersion' /\ AsNamed' /\ AllOrNothing' /\ ProgressInv'
    BY <2>1 DEF LoaderInv, OneVersion, AsNamed, AllOrNothing, ProgressInv, Loading
  <2>. QED  BY <2>2, <2>3 DEF CallInv
<1>3. CASE /\ todo' = DOMAIN kubeconfig.contexts
           /\ stage' = "context"
           /\ UNCHANGED <<pc, name, wrapped, config, out>>
  <2>1. DOMAIN kubeconfig.contexts \subseteq Names
    BY <1>1 DEF TypeOK, KubeconfigOf, ContextMaps
  <2>2. TypeOK'
    BY <1>1, <1>3, <2>1 DEF TypeOK, Sources
  <2>3. ProgressInv'
    BY <1>1, <1>3 DEF CallInv, ProgressInv, Loading
  <2>4. LoaderInv' /\ OneVersion' /\ AsNamed' /\ AllOrNothing'
    BY <1>1, <1>3 DEF CallInv, LoaderInv, OneVersion, AsNamed, AllOrNothing
  <2>. QED  BY <2>2, <2>3, <2>4 DEF CallInv
<1>. QED  BY <1>2, <1>3 DEF ListContexts

LEMMA ReturnAllStep ==
    ASSUME CallInv, ReturnAll
    PROVE  CallInv'
<1>1. /\ TypeOK /\ pc = "next" /\ call.all
      /\ opened => mounted \subseteq DOMAIN out
      /\ pc' = "done" /\ UNCHANGED <<stage, name, wrapped, config>>
      /\ UNCHANGED <<mounted, files, kubeconfig, inPod, changes, call, todo,
                     opened, out>>
  BY DEF CallInv, ReturnAll, ProgressInv, Loading, fileVars, End,
         loaderVars, TypeOK, Sources
<1>2. TypeOK'
  BY <1>1 DEF TypeOK
<1>3. LoaderInv' /\ ProgressInv' /\ OneVersion' /\ AsNamed' /\ AllOrNothing'
  BY <1>1 DEF CallInv, LoaderInv, ProgressInv, Loading, OneVersion, AsNamed,
              AllOrNothing
<1>. QED  BY <1>2, <1>3 DEF CallInv

LEMMA AnswerStep ==
    ASSUME CallInv, Answer
    PROVE  CallInv'
<1>1. /\ TypeOK /\ pc' = "ready" /\ call' = NoCall
      /\ stage' = "import" /\ name' = NoName /\ wrapped' = Error
      /\ config' = Error /\ todo' = {} /\ opened' = TRUE /\ DOMAIN out' = {}
      /\ UNCHANGED <<mounted, files, kubeconfig, inPod, changes>>
  BY NothingAnswered DEF CallInv, Answer, fileVars
<1>2. TypeOK'
  BY <1>1 DEF TypeOK, NoCall, Sources
<1>3. LoaderInv' /\ ProgressInv' /\ OneVersion' /\ AsNamed' /\ AllOrNothing'
  BY <1>1 DEF LoaderInv, ProgressInv, Loading, OneVersion, AsNamed, AllOrNothing
<1>. QED  BY <1>2, <1>3 DEF CallInv

(* A change of a file cannot be told from what a call has read already.    *)
LEMMA FilesChange ==
    ASSUME CallInv,
           UNCHANGED <<mounted, inPod, pc, call, loaderVars, todo, opened, out>>,
           files' \in [mounted -> Nat], kubeconfig' \in KubeconfigOf(Nat),
           changes' \in Nat
    PROVE  CallInv'
<1>1. UNCHANGED <<mounted, inPod, pc, call, stage, name, wrapped, config, todo,
                  opened, out>>
  BY DEF loaderVars
<1>2. TypeOK'
  BY <1>1 DEF CallInv, TypeOK
<1>3. LoaderInv' /\ ProgressInv'
  BY <1>1 DEF CallInv, LoaderInv, ProgressInv, Loading, NamesFor, ImportNamed,
              Answers, Together, Named
<1>4. OneVersion' /\ AsNamed' /\ AllOrNothing'
  BY <1>1 DEF CallInv, OneVersion, AsNamed, AllOrNothing, ImportNamed
<1>. QED  BY <1>2, <1>3, <1>4 DEF CallInv

LEMMA BrokenIs ==
    Broken \in KubeconfigOf(Nat)
<1>1. Nothing \in [{} -> Contexts]
  BY DEF Nothing
<1>2. Nothing \in ContextMaps
  BY <1>1 DEF ContextMaps
<1>. QED  BY <1>2 DEF Broken, KubeconfigOf, Unreadable

LEMMA EnvironmentStep ==
    ASSUME CallInv, UpdateMount \/ EditKubeconfig
    PROVE  CallInv'
<1>1. /\ files \in [mounted -> Nat] /\ kubeconfig \in KubeconfigOf(Nat)
      /\ changes \in Nat
  BY DEF CallInv, TypeOK
<1>2. Change
  BY Zenon DEF UpdateMount, EditKubeconfig
<1>3. changes' \in Nat /\ changes + 2 \in Nat
  BY <1>1, <1>2 DEF Change
<1>4. CASE UpdateMount
  BY <1>1, <1>3, <1>4, FilesChange DEF UpdateMount, Unreadable
<1>5. CASE EditKubeconfig
  <2>1. ASSUME NEW contexts \in ContextMaps,
               kubeconfig' = [kubeconfig EXCEPT !.contexts = contexts,
                                                !.version = changes + 2]
        PROVE  kubeconfig' \in KubeconfigOf(Nat)
    BY <1>1, <1>3, <2>1 DEF KubeconfigOf
  <2>2. ASSUME NEW current \in Names \union {NoName},
               kubeconfig' = [kubeconfig EXCEPT !.current = current,
                                                !.version = changes + 2]
        PROVE  kubeconfig' \in KubeconfigOf(Nat)
    BY <1>1, <1>3, <2>2 DEF KubeconfigOf
  <2>3. kubeconfig' \in KubeconfigOf(Nat)
    BY <1>5, <2>1, <2>2, BrokenIs DEF EditKubeconfig
  <2>. QED  BY <1>1, <1>3, <1>5, <2>3, FilesChange DEF EditKubeconfig
<1>. QED  BY <1>4, <1>5

-----------------------------------------------------------------------------
(* Every call.                                                             *)

LEMMA CallsInit == Init => CallInv
<1>. SUFFICES ASSUME Init PROVE CallInv
  OBVIOUS
<1>1. DOMAIN out = {}
  BY NothingAnswered DEF Init
<1>2. kubeconfig \in KubeconfigOf(Nat)
  BY DEF Init, KubeconfigOf
<1>3. TypeOK
  BY <1>1, <1>2 DEF Init, TypeOK, Unreadable, NoCall, Sources
<1>4. LoaderInv /\ ProgressInv /\ OneVersion /\ AsNamed /\ AllOrNothing
  BY <1>1 DEF Init, LoaderInv, ProgressInv, Loading, OneVersion, AsNamed,
              AllOrNothing
<1>. QED  BY <1>3, <1>4 DEF CallInv

LEMMA CallsStep == CallInv /\ [Next]_vars => CallInv'
<1>. SUFFICES ASSUME CallInv, [Next]_vars PROVE CallInv'
  OBVIOUS
<1>1. CASE UNCHANGED vars
  BY <1>1, FilesChange DEF CallInv, TypeOK, vars, fileVars
<1>2. CASE Next
  BY <1>2, CallOneStep, CallAllStep, ClientConfigStep, NamespaceStep,
     NextLoaderStep, ListContextsStep, ReturnAllStep, AnswerStep, EnvironmentStep
  DEF Next, Load
<1>. QED  BY <1>1, <1>2

LEMMA CallsInductive == Spec => []CallInv
  BY CallsInit, CallsStep, PTL DEF Spec

(* Every variable has its type, and a loader that looks among the imports  *)
(* (NewNamedServiceAccountImportConfigLoader) has the name of one that is  *)
(* mounted, whatever is mounted.                                           *)
THEOREM ConfigTypeCorrect == Spec => []TypeOK
<1>1. CallInv => TypeOK
  BY DEF CallInv
<1>. QED  BY <1>1, CallsInductive, PTL

(* The namespace configAndNamespace returns is of the file and the version *)
(* its config is of, however often the kubelet replaces that file, save    *)
(* for a context: it may come with default or with the pod's namespace.    *)
THEOREM OneVersionHolds == Spec => []OneVersion
<1>1. CallInv => OneVersion
  BY DEF CallInv
<1>. QED  BY <1>1, CallsInductive, PTL

(* What is returned for a name is the import or the context of that name:  *)
(* NamedConfigAndNamespace falls back to no other's, save the pod's own    *)
(* account for a context that names no cluster.                            *)
THEOREM AsNamedHolds == Spec => []AsNamed
<1>1. CallInv => AsNamed
  BY DEF CallInv
<1>. QED  BY <1>1, CallsInductive, PTL

(* AllNamedConfigsAndNamespaces and AllServiceAccountImport... return every *)
(* mounted import or none, whatever fails and changes on the way: none and  *)
(* an error, or none when the directory of imports cannot be opened.        *)
THEOREM AllOrNothingHolds == Spec => []AllOrNothing
<1>1. CallInv => AllOrNothing
  BY DEF CallInv
<1>. QED  BY <1>1, CallsInductive, PTL
=============================================================================
