-------------------------- MODULE BootstrapProofs --------------------------
(***************************************************************************)
(* Proofs about the bootstraps, for any number of clusters, names and      *)
(* concurrent or repeated runs, and without any bound on polls and faults. *)
(***************************************************************************)
EXTENDS Bootstrap, SourceProofs

NeedsToken == {"token", "import", "get", "secret"}

-----------------------------------------------------------------------------
(* Type correctness: the outcomes of a call.                               *)

LEMMA NoLocalsType == NoLocals \in Locals /\ NoLocals.token = NoToken
  BY EmptySeq DEF NoLocals, Locals, Template, NoUID

LEMMA ServiceAccountType == \A r \in Runs : ServiceAccount(r) \in Accounts
  BY RunsAssumption DEF ServiceAccount

(* A run moves on to another call, with other variables.                   *)
LEMMA MoveType ==
    ASSUME RunsTypeOK, NEW r \in Runs,
           NEW label \in Calls \union {"done", "failed"}, NEW l \in Locals,
           Goto(r, label), Set(r, l) \/ (l = local[r] /\ UNCHANGED local),
           label \in NeedsToken => l.token \in Token
    PROVE  RunsTypeOK'
<1>1. pc' \in [Runs -> Calls \union {"done", "failed"}]
  BY DEF Goto, RunsTypeOK
<1>2. local' \in [Runs -> Locals] /\ local'[r] = l
  BY DEF Set, RunsTypeOK
<1>3. ASSUME NEW q \in Runs, pc'[q] \in NeedsToken
      PROVE  local'[q].token \in Token
  <2>1. CASE q = r
    BY <1>2, <1>3, <2>1 DEF Goto, RunsTypeOK
  <2>2. CASE q # r
    BY <1>3, <2>2 DEF Goto, Set, RunsTypeOK, NeedsToken
  <2>. QED  BY <2>1, <2>2
<1>. QED  BY <1>1, <1>2, <1>3 DEF RunsTypeOK, NeedsToken

LEMMA EndType ==
    ASSUME RunsTypeOK, NEW r \in Runs, NEW outcome \in {"done", "failed"},
           End(r, outcome)
    PROVE  RunsTypeOK'
  BY NoLocalsType, MoveType DEF End, NeedsToken

LEMMA FaultType == faults \in Nat /\ Fault => faults' \in Nat
  BY DEF Fault

LEMMA FailType ==
    ASSUME RunsTypeOK, faults \in Nat, NEW r \in Runs, Fail(r)
    PROVE  RunsTypeOK' /\ faults' \in Nat
  BY EndType DEF Fail

LEMMA ProceedWithType ==
    ASSUME RunsTypeOK, faults \in Nat, NEW r \in Runs, NEW label \in Calls,
           NEW l \in Locals,
           ProceedWith(r, label, l) \/ (l = local[r] /\ Proceed(r, label)),
           label \in NeedsToken => l.token \in Token
    PROVE  RunsTypeOK' /\ faults' \in Nat
<1>1. CASE Fault /\ End(r, "failed")
  BY <1>1, EndType, FaultType
<1>2. CASE /\ Goto(r, label) /\ UNCHANGED faults
           /\ Set(r, l) \/ (l = local[r] /\ UNCHANGED local)
  BY <1>2, MoveType
<1>. QED  BY <1>1, <1>2 DEF Proceed, ProceedWith

LEMMA PollAgainType ==
    ASSUME RunsTypeOK, faults \in Nat, NEW r \in Runs, PollAgain(r),
           pc[r] \notin NeedsToken
    PROVE  RunsTypeOK' /\ faults' \in Nat
<1>1. CASE Fail(r)
  BY <1>1, FailType
<1>2. CASE /\ Set(r, [local[r] EXCEPT !.polls = @ + 1])
           /\ UNCHANGED <<pc, faults>>
  <2>1. [local[r] EXCEPT !.polls = @ + 1] \in Locals
    BY DEF RunsTypeOK, Locals
  <2>2. local' \in [Runs -> Locals]
    BY <1>2, <2>1 DEF Set, RunsTypeOK
  <2>3. \A q \in Runs : pc[q] \in NeedsToken => local'[q].token \in Token
    BY <1>2, <2>1 DEF Set, RunsTypeOK, NeedsToken
  <2>. QED  BY <1>2, <2>2, <2>3 DEF RunsTypeOK, NeedsToken
<1>. QED  BY <1>1, <1>2 DEF PollAgain

-----------------------------------------------------------------------------
(* Type correctness: the calls.                                            *)

LEMMA SourceCallsType ==
    ASSUME TypeOK, NEW r \in Runs,
           \/ newCluster(r) \/ createNamespace(r) \/ createClusterRole(r)
           \/ createServiceAccount(r) \/ createClusterRoleBinding(r)
    PROVE  TypeOK'
<1>1. RunsTypeOK /\ faults \in Nat /\ local[r] \in Locals
  BY DEF TypeOK, BoundsTypeOK, RunsTypeOK
<1>2. SourceObjectsTypeOK'
  BY RunsAssumption, ServiceAccountType, SourceType
     DEF newCluster, createNamespace, createClusterRole, createServiceAccount,
         createClusterRoleBinding, sourceObjects, sourceVars, TypeOK,
         SourceObjectsTypeOK, SourceTypeOK
<1>3. RunsTypeOK' /\ faults' \in Nat
  <2>1. \A label \in {"role", "account", "binding", "wait"} :
            label \in Calls /\ label \notin NeedsToken
    BY DEF Calls, NeedsToken
  <2>2. CASE newCluster(r)
    <3>1. CASE Fail(r)
      BY <1>1, <3>1, FailType
    <3>2. CASE Goto(r, "namespace") /\ UNCHANGED <<local, faults>>
      BY <1>1, <3>2, MoveType DEF Calls, NeedsToken
    <3>. QED  BY <2>2, <3>1, <3>2 DEF newCluster
  <2>3. CASE ~newCluster(r)
    BY <1>1, <2>1, <2>3, ProceedWithType
       DEF createNamespace, createClusterRole, createServiceAccount,
           createClusterRoleBinding
  <2>. QED  BY <2>2, <2>3
<1>4. UNCHANGED <<targetObjects, template, bounds>>
  BY DEF newCluster, createNamespace, createClusterRole, createServiceAccount,
         createClusterRoleBinding
<1>. QED  BY <1>2, <1>3, <1>4 DEF TypeOK, targetObjects, bounds,
                                  TargetObjectsTypeOK, BoundsTypeOK

LEMMA TokenCallsType ==
    ASSUME TypeOK, NEW r \in Runs,
           waitForServiceAccountToken(r) \/ getServiceAccountToken(r)
    PROVE  TypeOK'
<1>1. /\ RunsTypeOK /\ faults \in Nat /\ local[r] \in Locals
      /\ refs[ServiceAccount(r)] \in Seq(Token)
  BY ServiceAccountType DEF TypeOK, BoundsTypeOK, RunsTypeOK,
                            SourceObjectsTypeOK, SourceTypeOK
<1>2. RunsTypeOK' /\ faults' \in Nat
  <2>1. CASE waitForServiceAccountToken(r)
    <3>1. CASE PollAgain(r)
      BY <1>1, <2>1, <3>1, PollAgainType
         DEF waitForServiceAccountToken, NeedsToken
    <3>2. CASE Fail(r)
      BY <1>1, <3>2, FailType
    <3>3. CASE refs[ServiceAccount(r)] # <<>>
               /\ ProceedWith(r, "token", [NoLocals EXCEPT
                                  !.token = Head(refs[ServiceAccount(r)])])
      <4>. DEFINE t == Head(refs[ServiceAccount(r)])
      <4>1. t \in Token
        BY <1>1, <3>3, HeadTailToSet
      <4>2. /\ [NoLocals EXCEPT !.token = t] \in Locals
            /\ [NoLocals EXCEPT !.token = t].token = t
        BY <4>1, NoLocalsType DEF Locals
      <4>. QED  BY <1>1, <3>3, <4>1, <4>2, ProceedWithType DEF Calls
    <3>. QED  BY <2>1, <3>1, <3>2, <3>3 DEF waitForServiceAccountToken
  <2>2. CASE getServiceAccountToken(r)
    <3>1. local[r].token \in Token
      BY <2>2 DEF getServiceAccountToken, TypeOK, RunsTypeOK
    <3>. QED  BY <1>1, <2>2, <3>1, FailType, ProceedWithType
              DEF getServiceAccountToken, Calls
  <2>. QED  BY <2>1, <2>2
<1>3. UNCHANGED <<sourceObjects, targetObjects, template, bounds>>
  BY DEF waitForServiceAccountToken, getServiceAccountToken
<1>. QED  BY <1>2, <1>3 DEF TypeOK, sourceObjects, sourceVars, targetObjects,
                            bounds, SourceObjectsTypeOK, SourceTypeOK,
                            TargetObjectsTypeOK, BoundsTypeOK

LEMMA ImportCallsType ==
    ASSUME TypeOK, NEW r \in Runs,
           createServiceAccountImport(r) \/ getServiceAccountImport(r)
    PROVE  TypeOK'
<1>1. /\ RunsTypeOK /\ faults \in Nat /\ local[r] \in Locals
      /\ local[r].token \in Token /\ made \in Nat
  BY DEF TypeOK, BoundsTypeOK, RunsTypeOK, TargetObjectsTypeOK,
         createServiceAccountImport, getServiceAccountImport
<1>2. ASSUME NEW u \in Nat
      PROVE  /\ [local[r] EXCEPT !.uid = u] \in Locals
             /\ [local[r] EXCEPT !.uid = u].token \in Token
  BY <1>1 DEF Locals
<1>3. RunsTypeOK' /\ faults' \in Nat
  <2>1. CASE CreateImport(r)
    <3>1. made + 1 \in Nat /\ "secret" \in Calls
      BY <1>1 DEF Calls
    <3>2. ProceedWith(r, "secret", [local[r] EXCEPT !.uid = made + 1])
      BY <2>1 DEF CreateImport
    <3>. QED  BY <1>1, <1>2, <3>1, <3>2, ProceedWithType
  <2>2. CASE Proceed(r, "get")
    BY <1>1, <2>2, ProceedWithType DEF Calls
  <2>3. CASE Fail(r)
    BY <1>1, <2>3, FailType
  <2>4. ASSUME NEW i \in ImportsOf(r),
               ProceedWith(r, "secret", [local[r] EXCEPT !.uid = i.uid])
        PROVE  RunsTypeOK' /\ faults' \in Nat
    <3>1. i.uid \in Nat
      BY DEF ImportsOf, TypeOK, TargetObjectsTypeOK, Import
    <3>. QED  BY <1>1, <1>2, <2>4, <3>1, ProceedWithType DEF Calls
  <2>. QED  BY <2>1, <2>2, <2>3, <2>4
            DEF createServiceAccountImport, getServiceAccountImport
<1>4. TargetObjectsTypeOK'
  <2>1. NewImport(r) \in Import
    BY <1>1, RunsAssumption DEF NewImport, Import
  <2>. QED  BY <1>1, <2>1
            DEF createServiceAccountImport, getServiceAccountImport, CreateImport,
                targetObjects, TypeOK, TargetObjectsTypeOK
<1>5. UNCHANGED <<sourceObjects, bounds>>
  BY DEF createServiceAccountImport, getServiceAccountImport
<1>. QED  BY <1>3, <1>4, <1>5 DEF TypeOK, sourceObjects, sourceVars, bounds,
                                  SourceObjectsTypeOK, SourceTypeOK, BoundsTypeOK

LEMMA SecretCallsType ==
    ASSUME TypeOK, NEW r \in Runs,
           \/ createServiceAccountImportToken(r)
           \/ waitForServiceAccountImportTokenAdoption(r)
    PROVE  TypeOK'
<1>1. RunsTypeOK /\ faults \in Nat /\ local[r] \in Locals
  BY DEF TypeOK, BoundsTypeOK, RunsTypeOK
<1>2. RunsTypeOK' /\ faults' \in Nat
  <2>1. ASSUME NEW label \in {"adoption", "deployment"},
               ProceedWith(r, label, NoLocals)
        PROVE  RunsTypeOK' /\ faults' \in Nat
    BY <1>1, <2>1, NoLocalsType, ProceedWithType DEF Calls, NeedsToken
  <2>2. CASE createServiceAccountImportToken(r)
    BY <2>1, <2>2 DEF createServiceAccountImportToken
  <2>3. CASE waitForServiceAccountImportTokenAdoption(r)
    <3>1. pc[r] \notin NeedsToken
      BY <2>3 DEF waitForServiceAccountImportTokenAdoption, NeedsToken
    <3>2. \/ Fail(r) \/ PollAgain(r) \/ ProceedWith(r, "deployment", NoLocals)
      BY <2>3 DEF waitForServiceAccountImportTokenAdoption
    <3>. QED  BY <1>1, <2>1, <3>1, <3>2, FailType, PollAgainType
  <2>. QED  BY <2>2, <2>3
<1>3. TargetObjectsTypeOK'
  <2>1. CASE createServiceAccountImportToken(r)
    <3>1. [id |-> made + 1, cluster |-> To[r], import |-> SourceName[r],
           owner |-> local[r].uid, data |-> local[r].token] \in Secret
      BY <1>1, <2>1, RunsAssumption
         DEF createServiceAccountImportToken, Secret, TypeOK, RunsTypeOK, Locals,
             TargetObjectsTypeOK
    <3>. QED  BY <2>1, <3>1 DEF createServiceAccountImportToken, TypeOK,
                                TargetObjectsTypeOK
  <2>2. CASE waitForServiceAccountImportTokenAdoption(r)
    BY <2>2 DEF waitForServiceAccountImportTokenAdoption, targetObjects, TypeOK,
                TargetObjectsTypeOK
  <2>. QED  BY <2>1, <2>2
<1>4. UNCHANGED <<sourceObjects, bounds>>
  BY DEF createServiceAccountImportToken, waitForServiceAccountImportTokenAdoption
<1>. QED  BY <1>2, <1>3, <1>4 DEF TypeOK, sourceObjects, sourceVars, bounds,
                                  SourceObjectsTypeOK, SourceTypeOK, BoundsTypeOK

LEMMA DeploymentCallsType ==
    ASSUME TypeOK, NEW r \in Runs, getDeployment(r) \/ updateDeployment(r)
    PROVE  TypeOK'
<1>1. /\ RunsTypeOK /\ faults \in Nat /\ local[r] \in Locals
      /\ template[To[r]] \in Template
  BY RunsAssumption DEF TypeOK, BoundsTypeOK, RunsTypeOK, TargetObjectsTypeOK
<1>2. RunsTypeOK' /\ faults' \in Nat
  <2>1. CASE getDeployment(r)
    <3>1. [local[r] EXCEPT !.read = template[To[r]]] \in Locals
      BY <1>1 DEF Locals
    <3>. QED  BY <1>1, <2>1, <3>1, ProceedWithType
              DEF getDeployment, Calls, NeedsToken
  <2>2. CASE updateDeployment(r)
    BY <1>1, <2>2, FailType, EndType, FaultType DEF updateDeployment
  <2>. QED  BY <2>1, <2>2
<1>3. TargetObjectsTypeOK'
  <2>1. Annotated(r) \in Template
    BY <1>1, RunsAssumption, AppendToSet DEF Annotated, Template, Locals
  <2>. QED  BY <2>1 DEF getDeployment, updateDeployment, targetObjects, TypeOK,
                        TargetObjectsTypeOK
<1>4. UNCHANGED <<sourceObjects, bounds>>
  BY DEF getDeployment, updateDeployment
<1>. QED  BY <1>2, <1>3, <1>4 DEF TypeOK, sourceObjects, sourceVars, bounds,
                                  SourceObjectsTypeOK, SourceTypeOK, BoundsTypeOK

-----------------------------------------------------------------------------
(* Type correctness: every step.                                           *)

LEMMA WorkType ==
    ASSUME TypeOK, NEW r \in Runs, Work(r)
    PROVE  TypeOK'
  BY SourceCallsType, TokenCallsType, ImportCallsType, SecretCallsType,
     DeploymentCallsType DEF Work

LEMMA RepeatType ==
    ASSUME TypeOK, NEW r \in Runs, FailCall(r) \/ Rerun(r)
    PROVE  TypeOK'
<1>1. RunsTypeOK /\ faults \in Nat /\ reruns \in Nat /\ local[r] \in Locals
  BY DEF TypeOK, BoundsTypeOK, RunsTypeOK
<1>2. RunsTypeOK' /\ faults' \in Nat
  <2>1. CASE FailCall(r)
    BY <1>1, <2>1, EndType, FaultType DEF FailCall
  <2>2. CASE Rerun(r)
    BY <1>1, <2>2, MoveType DEF Rerun, Calls, NeedsToken
  <2>. QED  BY <2>1, <2>2
<1>3. UNCHANGED <<sourceObjects, targetObjects, template>>
  BY DEF FailCall, Rerun
<1>4. reruns' \in Nat /\ UNCHANGED <<updates, edits>>
  BY <1>1 DEF FailCall, Rerun, bounds
<1>. QED  BY <1>2, <1>3, <1>4 DEF TypeOK, sourceObjects, sourceVars, targetObjects,
                                  SourceObjectsTypeOK, SourceTypeOK,
                                  TargetObjectsTypeOK, BoundsTypeOK

LEMMA ControllersType ==
    ASSUME TypeOK, MintToken \/ Adopt \/ Collect
    PROVE  TypeOK'
<1>1. SourceObjectsTypeOK'
  <2>1. CASE MintToken
    BY <2>1, SourceType DEF MintToken, TypeOK, SourceObjectsTypeOK
  <2>2. CASE Adopt \/ Collect
    BY <2>2 DEF Adopt, Collect, sourceObjects, sourceVars, TypeOK,
                SourceObjectsTypeOK, SourceTypeOK
  <2>. QED  BY <2>1, <2>2
<1>2. TargetObjectsTypeOK'
  <2>1. CASE Adopt
    <3>1. PICK i \in imports :
              imports' = (imports \ {i})
                             \union {[i EXCEPT !.adopted = (Labelled(i) # {})]}
      BY <2>1 DEF Adopt
    <3>2. [i EXCEPT !.adopted = (Labelled(i) # {})] \in Import
      <4>1. (Labelled(i) # {}) \in BOOLEAN
        OBVIOUS
      <4>. QED  BY <4>1, Zenon DEF TypeOK, TargetObjectsTypeOK, Import
    <3>. QED  BY <2>1, <3>1, <3>2 DEF Adopt, TypeOK, TargetObjectsTypeOK
  <2>2. CASE MintToken \/ Collect
    BY <2>2 DEF MintToken, Collect, targetObjects, TypeOK, TargetObjectsTypeOK
  <2>. QED  BY <2>1, <2>2
<1>3. UNCHANGED <<runVars, bounds, faults>>
  BY DEF MintToken, Adopt, Collect
<1>. QED  BY <1>1, <1>2, <1>3 DEF runVars, bounds, TypeOK, RunsTypeOK, BoundsTypeOK

LEMMA UsersType ==
    ASSUME TypeOK, UpdateDeploymentStatus \/ UserEdit
    PROVE  TypeOK'
<1>1. SourceObjectsTypeOK'
  <2>1. SourceTypeOK'
    BY SourceType DEF UpdateDeploymentStatus, UserEdit, sourceObjects, sourceVars,
                      TypeOK, SourceObjectsTypeOK, SourceTypeOK
  <2>. QED  BY <2>1 DEF UpdateDeploymentStatus, UserEdit, sourceObjects, TypeOK,
                        SourceObjectsTypeOK
<1>2. TargetObjectsTypeOK'
  <2>1. \A c \in Clusters :
            [template[c] EXCEPT !.version = @ + 1] \in Template
    BY DEF TypeOK, TargetObjectsTypeOK, Template
  <2>2. template' \in [Clusters -> Template]
    BY <2>1 DEF UpdateDeploymentStatus, UserEdit, TypeOK, TargetObjectsTypeOK
  <2>. QED  BY <2>2 DEF UpdateDeploymentStatus, UserEdit, targetObjects, TypeOK,
                        TargetObjectsTypeOK
<1>3. UNCHANGED runVars /\ BoundsTypeOK'
  BY DEF UpdateDeploymentStatus, UserEdit, TypeOK, BoundsTypeOK
<1>. QED  BY <1>1, <1>2, <1>3 DEF runVars, TypeOK, RunsTypeOK

LEMMA StepType ==
    ASSUME TypeOK, [Next]_vars
    PROVE  TypeOK'
<1>1. CASE Next
  BY <1>1, WorkType, RepeatType, ControllersType, UsersType DEF Next
<1>2. CASE UNCHANGED vars
  BY <1>2 DEF vars, sourceObjects, sourceVars, targetObjects, runVars, bounds,
              TypeOK, SourceObjectsTypeOK, SourceTypeOK, TargetObjectsTypeOK,
              RunsTypeOK, BoundsTypeOK
<1>. QED  BY <1>1, <1>2

LEMMA InitType == Init => TypeOK
<1>. SUFFICES ASSUME Init PROVE TypeOK
  OBVIOUS
<1>1. SourceObjectsTypeOK
  BY EmptySeq, RunsAssumption DEF Init, SourceObjectsTypeOK, SourceTypeOK
<1>2. TargetObjectsTypeOK
  <2>1. [imports |-> <<>>, version |-> 0] \in Template
    BY EmptySeq DEF Template
  <2>. QED  BY <2>1 DEF Init, TargetObjectsTypeOK
<1>3. RunsTypeOK
  BY NoLocalsType DEF Init, RunsTypeOK, Calls
<1>. QED  BY <1>1, <1>2, <1>3 DEF Init, TypeOK, BoundsTypeOK

(* Every variable always has its type: among others, no call that sends a  *)
(* token is reached without one.                                           *)
THEOREM TypeCorrect == Spec => []TypeOK
<1>1. TypeOK /\ [Next]_vars => TypeOK'
  BY StepType
<1>. QED  BY <1>1, InitType, PTL DEF Spec

-----------------------------------------------------------------------------
(* The list of imports in the deployment.                                  *)

(* What a run has read is what is stored, unless the version has changed:  *)
(* the reason why a conditional update is as good as an atomic append.     *)
ReadsAreOld ==
    \A r \in Runs : pc[r] = "annotate" =>
        /\ local[r].read.version <= template[To[r]].version
        /\ local[r].read.version = template[To[r]].version =>
              local[r].read.imports = template[To[r]].imports

ListInv == TypeOK /\ ReadsAreOld /\ Announced

(* What one step may do to the deployments: a name is appended to a list   *)
(* with a new version, or only versions grow.                              *)
Appends(r) ==
    /\ pc[r] = "annotate"
    /\ template[To[r]].version = local[r].read.version
    /\ template' = [template EXCEPT ![To[r]] = Annotated(r)]
    /\ End(r, "done") \/ End(r, "failed")

OnlyVersions ==
    /\ template' \in [Clusters -> Template]
    /\ \A c \in Clusters : /\ template'[c].imports = template[c].imports
                           /\ \/ template'[c] = template[c]
                              \/ template'[c].version = template[c].version + 1

(* How the runs move when no list changes: none comes to an end with       *)
(* success, and one that is to update has just read.                       *)
Moves ==
    \A r \in Runs :
        /\ pc'[r] = "done" => pc[r] = "done"
        /\ pc'[r] = "annotate" =>
              \/ pc[r] = "annotate" /\ local'[r] = local[r]
              \/ local'[r].read = template[To[r]] /\ template' = template

LEMMA MoveOnly ==
    ASSUME TypeOK, NEW r \in Runs, NEW label, NEW l \in Locals,
           Goto(r, label), Set(r, l) \/ UNCHANGED local,
           label # "done",
           label = "annotate" => /\ Set(r, l) /\ UNCHANGED template
                                 /\ l.read = template[To[r]]
    PROVE  Moves
<1>1. pc \in [Runs -> Calls \union {"done", "failed"}] /\ local \in [Runs -> Locals]
  BY DEF TypeOK, RunsTypeOK
<1>2. ASSUME NEW q \in Runs, q # r
      PROVE  pc'[q] = pc[q] /\ local'[q] = local[q]
  BY <1>1, <1>2 DEF Goto, Set
<1>3. pc'[r] = label /\ (Set(r, l) => local'[r] = l)
  BY <1>1 DEF Goto, Set
<1>. QED  BY <1>2, <1>3 DEF Moves

LEMMA FailMoves ==
    ASSUME TypeOK, NEW r \in Runs, Fail(r) \/ End(r, "failed")
    PROVE  Moves
  BY NoLocalsType, MoveOnly DEF Fail, End

LEMMA ProceedMoves ==
    ASSUME TypeOK, NEW r \in Runs, NEW label, NEW l \in Locals,
           Proceed(r, label) \/ ProceedWith(r, label, l),
           label \notin {"done", "annotate"}
    PROVE  Moves
<1>1. CASE End(r, "failed")
  BY <1>1, FailMoves
<1>2. CASE Goto(r, label) /\ (Set(r, l) \/ UNCHANGED local)
  BY <1>2, MoveOnly
<1>. QED  BY <1>1, <1>2 DEF Proceed, ProceedWith

LEMMA PollMoves ==
    ASSUME TypeOK, NEW r \in Runs, PollAgain(r), pc[r] # "annotate"
    PROVE  Moves
<1>1. CASE Fail(r)
  BY <1>1, FailMoves
<1>2. CASE UNCHANGED pc /\ Set(r, [local[r] EXCEPT !.polls = @ + 1])
  <2>1. \A q \in Runs : q # r => local'[q] = local[q]
    BY <1>2 DEF Set, TypeOK, RunsTypeOK
  <2>. QED  BY <1>2, <2>1 DEF Moves
<1>. QED  BY <1>1, <1>2 DEF PollAgain

(* Every call but the last leaves the deployments alone.                   *)
LEMMA CallsKeepTemplate ==
    ASSUME NEW r \in Runs, Work(r), ~updateDeployment(r)
    PROVE  UNCHANGED template
  BY DEF Work, newCluster, createNamespace, createClusterRole,
         createServiceAccount, createClusterRoleBinding,
         waitForServiceAccountToken, getServiceAccountToken,
         createServiceAccountImport, getServiceAccountImport,
         createServiceAccountImportToken,
         waitForServiceAccountImportTokenAdoption, getDeployment

LEMMA CallsMove ==
    ASSUME TypeOK, NEW r \in Runs, Work(r), ~updateDeployment(r)
    PROVE  Moves
<1>1. local[r] \in Locals
  BY DEF TypeOK, RunsTypeOK
<1>2. CASE newCluster(r)
  <2>1. CASE Goto(r, "namespace") /\ UNCHANGED local
    BY <1>1, <2>1, MoveOnly
  <2>2. CASE Fail(r)
    BY <2>2, FailMoves
  <2>. QED  BY <1>2, <2>1, <2>2 DEF newCluster
<1>3. CASE \/ createNamespace(r) \/ createClusterRole(r)
           \/ createServiceAccount(r) \/ createClusterRoleBinding(r)
           \/ getServiceAccountToken(r)
  <2>1. \E label \in {"role", "account", "binding", "wait", "import"} :
          Proceed(r, label) \/ Fail(r)
    BY <1>3 DEF createNamespace, createClusterRole, createServiceAccount,
                createClusterRoleBinding, getServiceAccountToken
  <2>. QED  BY <1>1, <2>1, ProceedMoves, FailMoves
<1>4. CASE waitForServiceAccountToken(r)
  <2>1. ASSUME refs[ServiceAccount(r)] # <<>>,
               ProceedWith(r, "token", [NoLocals EXCEPT
                               !.token = Head(refs[ServiceAccount(r)])])
        PROVE  Moves
    <3>1. refs[ServiceAccount(r)] \in Seq(Token)
      BY ServiceAccountType DEF TypeOK, SourceObjectsTypeOK, SourceTypeOK
    <3>2. Head(refs[ServiceAccount(r)]) \in Token
      BY <2>1, <3>1, HeadTailToSet
    <3>3. [NoLocals EXCEPT !.token = Head(refs[ServiceAccount(r)])] \in Locals
      BY <3>2, NoLocalsType DEF Locals
    <3>. QED  BY <2>1, <3>3, ProceedMoves
  <2>. QED  BY <1>4, <2>1, PollMoves, FailMoves DEF waitForServiceAccountToken
<1>5. CASE createServiceAccountImport(r) \/ getServiceAccountImport(r)
  <2>1. ASSUME NEW u \in Nat, ProceedWith(r, "secret", [local[r] EXCEPT !.uid = u])
        PROVE  Moves
    <3>1. [local[r] EXCEPT !.uid = u] \in Locals
      BY <1>1 DEF Locals
    <3>. QED  BY <2>1, <3>1, ProceedMoves
  <2>2. made + 1 \in Nat /\ \A i \in ImportsOf(r) : i.uid \in Nat
    BY DEF ImportsOf, TypeOK, TargetObjectsTypeOK, Import
  <2>3. CreateImport(r) => Moves
    BY <2>1, <2>2 DEF CreateImport
  <2>4. CASE createServiceAccountImport(r)
    <3>1. ASSUME NEW label \in {"get"}, Proceed(r, label)
          PROVE  Moves
      BY <1>1, <3>1, ProceedMoves
    <3>. QED  BY <2>3, <2>4, <3>1 DEF createServiceAccountImport
  <2>5. CASE getServiceAccountImport(r)
    <3>1. CASE Fail(r)
      BY <3>1, FailMoves
    <3>. QED  BY <2>1, <2>2, <2>5, <3>1 DEF getServiceAccountImport
  <2>. QED  BY <1>5, <2>4, <2>5
<1>6. CASE \/ createServiceAccountImportToken(r)
           \/ waitForServiceAccountImportTokenAdoption(r)
  BY <1>6, NoLocalsType, ProceedMoves, PollMoves, FailMoves
     DEF createServiceAccountImportToken, waitForServiceAccountImportTokenAdoption
<1>7. CASE getDeployment(r)
  <2>. DEFINE l == [local[r] EXCEPT !.read = template[To[r]]]
  <2>1. l \in Locals /\ l.read = template[To[r]]
    BY <1>1, RunsAssumption DEF TypeOK, TargetObjectsTypeOK, Locals
  <2>2. Goto(r, "annotate") /\ Set(r, l) => Moves
    BY <1>7, <2>1, MoveOnly DEF getDeployment
  <2>. QED  BY <1>7, <2>2, FailMoves DEF getDeployment, ProceedWith
<1>. QED  BY <1>2, <1>3, <1>4, <1>5, <1>6, <1>7 DEF Work

(* Every step appends one name to one list, or changes no list.            *)
LEMMA StepKinds ==
    ASSUME TypeOK, [Next]_vars
    PROVE  \/ Moves /\ OnlyVersions
           \/ \E r \in Runs : Appends(r)
<1>1. UNCHANGED template => OnlyVersions
  BY DEF OnlyVersions, TypeOK, TargetObjectsTypeOK
<1>2. UNCHANGED runVars => Moves
  BY DEF runVars, Moves
<1>3. ASSUME NEW r \in Runs, Work(r)
      PROVE  (Moves /\ OnlyVersions) \/ Appends(r)
  BY <1>1, <1>3, CallsKeepTemplate, CallsMove, FailMoves
     DEF updateDeployment, Appends, Fail
<1>4. ASSUME NEW r \in Runs, FailCall(r) \/ Rerun(r)
      PROVE  Moves /\ OnlyVersions
  <2>1. local[r] \in Locals
    BY DEF TypeOK, RunsTypeOK
  <2>. QED  BY <1>1, <1>4, <2>1, FailMoves, MoveOnly DEF FailCall, Rerun
<1>5. CASE MintToken \/ Adopt \/ Collect \/ UserEdit \/ UNCHANGED vars
  BY <1>1, <1>2, <1>5 DEF MintToken, Adopt, Collect, UserEdit, vars
<1>6. CASE UpdateDeploymentStatus
  <2>1. PICK c \in Clusters : template' = [template EXCEPT ![c].version = @ + 1]
    BY <1>6 DEF UpdateDeploymentStatus
  <2>2. [template[c] EXCEPT !.version = @ + 1] \in Template
    BY DEF TypeOK, TargetObjectsTypeOK, Template
  <2>3. OnlyVersions
    BY <2>1, <2>2 DEF OnlyVersions, TypeOK, TargetObjectsTypeOK, Template
  <2>. QED  BY <1>2, <1>6, <2>3 DEF UpdateDeploymentStatus
<1>. QED  BY <1>3, <1>4, <1>5, <1>6 DEF Next

LEMMA ListInvInit == Init => ListInv
  BY InitType DEF Init, ListInv, ReadsAreOld, Announced

LEMMA ListInvStep ==
    ASSUME ListInv, [Next]_vars
    PROVE  ListInv'
<1>1. TypeOK /\ TypeOK'
  BY StepType DEF ListInv
<1>2. template \in [Clusters -> Template] /\ template' \in [Clusters -> Template]
  BY <1>1 DEF TypeOK, TargetObjectsTypeOK
<1>3. \A r \in Runs : To[r] \in Clusters /\ local[r].read \in Template
  BY <1>1, RunsAssumption DEF TypeOK, RunsTypeOK, Locals
<1>4. CASE Moves /\ OnlyVersions
  <2>1. \A r \in Runs : template'[To[r]].imports = template[To[r]].imports
    BY <1>3, <1>4 DEF OnlyVersions
  <2>2. Announced'
    BY <1>4, <2>1 DEF ListInv, Announced, Moves
  <2>3. ReadsAreOld'
    <3>. SUFFICES ASSUME NEW r \in Runs, pc'[r] = "annotate"
                  PROVE  /\ local'[r].read.version <= template'[To[r]].version
                         /\ local'[r].read.version = template'[To[r]].version =>
                              local'[r].read.imports = template'[To[r]].imports
      BY DEF ReadsAreOld
    <3>1. /\ template[To[r]].version \in Nat
          /\ template'[To[r]].version \in Nat
          /\ local[r].read.version \in Nat
      BY <1>2, <1>3 DEF Template
    <3>2. CASE local'[r].read = template[To[r]] /\ template' = template
      BY <3>1, <3>2
    <3>3. CASE pc[r] = "annotate" /\ local'[r] = local[r]
      <4>1. /\ local[r].read.version <= template[To[r]].version
            /\ local[r].read.version = template[To[r]].version =>
                 local[r].read.imports = template[To[r]].imports
        BY <3>3 DEF ListInv, ReadsAreOld
      <4>2. \/ template'[To[r]] = template[To[r]]
            \/ template'[To[r]].version = template[To[r]].version + 1
        BY <1>3, <1>4 DEF OnlyVersions
      <4>. QED  BY <2>1, <3>1, <3>3, <4>1, <4>2
    <3>. QED  BY <1>4, <3>2, <3>3 DEF Moves
  <2>. QED  BY <1>1, <2>2, <2>3 DEF ListInv
<1>5. ASSUME NEW r \in Runs, Appends(r)
      PROVE  ListInv'
  <2>. DEFINE c == To[r]
  <2>1. /\ pc[r] = "annotate"
        /\ template[c].version = local[r].read.version
        /\ template' = [template EXCEPT ![c] = Annotated(r)]
        /\ c \in Clusters
    BY <1>3, <1>5 DEF Appends
  <2>2. local[r].read.imports = template[c].imports
    BY <2>1 DEF ListInv, ReadsAreOld
  <2>3. /\ template'[c].imports = Append(template[c].imports, SourceName[r])
        /\ template'[c].version = template[c].version + 1
        /\ \A d \in Clusters : d # c => template'[d] = template[d]
    BY <1>2, <2>1, <2>2 DEF Annotated
  <2>4. ToSet(template'[c].imports)
          = ToSet(template[c].imports) \union {SourceName[r]}
    <3>1. template[c].imports \in Seq(Names) /\ SourceName[r] \in Names
      BY <1>2, <2>1, RunsAssumption DEF Template
    <3>. QED  BY <2>3, <3>1, AppendToSet
  <2>5. \E outcome \in {"done", "failed"} :
          pc' = [pc EXCEPT ![r] = outcome] /\ local' = [local EXCEPT ![r] = NoLocals]
    BY <1>5 DEF Appends, End, Goto, Set
  <2>6. /\ pc'[r] \in {"done", "failed"}
        /\ \A q \in Runs : q # r => pc'[q] = pc[q] /\ local'[q] = local[q]
    BY <1>1, <2>5 DEF TypeOK, RunsTypeOK
  <2>7. Announced'
    <3>. SUFFICES ASSUME NEW q \in Runs, pc'[q] = "done"
                  PROVE  SourceName[q] \in ToSet(template'[To[q]].imports)
      BY DEF Announced
    <3>1. CASE q = r
      BY <2>4, <3>1
    <3>2. CASE q # r
      <4>1. SourceName[q] \in ToSet(template[To[q]].imports)
        BY <2>6, <3>2 DEF ListInv, Announced
      <4>2. CASE To[q] = c
        BY <2>4, <4>1, <4>2
      <4>3. CASE To[q] # c
        BY <1>3, <2>3, <4>1, <4>3
      <4>. QED  BY <4>2, <4>3
    <3>. QED  BY <3>1, <3>2
  <2>8. ReadsAreOld'
    <3>. SUFFICES ASSUME NEW q \in Runs, pc'[q] = "annotate"
                  PROVE  /\ local'[q].read.version <= template'[To[q]].version
                         /\ local'[q].read.version = template'[To[q]].version =>
                              local'[q].read.imports = template'[To[q]].imports
      BY DEF ReadsAreOld
    <3>1. q # r /\ pc[q] = "annotate" /\ local'[q] = local[q]
      BY <2>6
    <3>2. /\ local[q].read.version <= template[To[q]].version
          /\ local[q].read.version = template[To[q]].version =>
               local[q].read.imports = template[To[q]].imports
      BY <3>1 DEF ListInv, ReadsAreOld
    <3>3. local[q].read.version \in Nat /\ template[To[q]].version \in Nat
      BY <1>2, <1>3 DEF Template
    <3>4. CASE To[q] = c
      BY <2>3, <3>1, <3>2, <3>3, <3>4
    <3>5. CASE To[q] # c
      BY <1>3, <2>3, <3>1, <3>2, <3>5
    <3>. QED  BY <3>4, <3>5
  <2>. QED  BY <1>1, <2>7, <2>8 DEF ListInv
<1>. QED  BY <1>1, <1>4, <1>5, StepKinds

(* A bootstrap that ended with success is in the list of imports, whatever *)
(* the other bootstraps of the same target did between the Get and the     *)
(* Update of annotateServiceAccountController.                             *)
THEOREM AnnouncedHolds == Spec => []Announced
<1>1. ListInv /\ [Next]_vars => ListInv'
  BY ListInvStep
<1>2. ListInv => Announced
  BY DEF ListInv
<1>. QED  BY <1>1, <1>2, ListInvInit, PTL DEF Spec

-----------------------------------------------------------------------------
(* The deployments implement the lists.                                    *)

ListsOf == [c \in Clusters |-> template[c].imports]

LEMMA StepImplements ==
    ASSUME ListInv, [Next]_vars
    PROVE  ListsOf' = ListsOf \/ Lists!Next
<1>1. TypeOK
  BY DEF ListInv
<1>2. CASE OnlyVersions
  BY <1>2 DEF OnlyVersions, ListsOf
<1>3. ASSUME NEW r \in Runs, Appends(r)
      PROVE  Lists!Next
  <2>1. /\ To[r] \in Clusters /\ SourceName[r] \in Names
        /\ template \in [Clusters -> Template]
    BY <1>1, RunsAssumption DEF TypeOK, TargetObjectsTypeOK
  <2>2. local[r].read.imports = template[To[r]].imports
    BY <1>3 DEF Appends, ListInv, ReadsAreOld
  <2>3. ListsOf' = [ListsOf EXCEPT ![To[r]] = Append(@, SourceName[r])]
    BY <1>3, <2>1, <2>2 DEF Appends, Annotated, ListsOf
  <2>4. Lists!Announce(To[r], SourceName[r])
    BY <2>3 DEF Lists!Announce, ListsOf
  <2>. QED  BY <2>1, <2>4 DEF Lists!Next
<1>. QED  BY <1>1, <1>2, <1>3, StepKinds

(* Reading the deployment, appending a name and writing it back, with the  *)
(* version that was read, is as good as appending to the list in one step. *)
THEOREM ListsImplemented == Spec => ListsAppendOnly
<1>1. Init => Lists!Init
  BY DEF Init, Lists!Init
<1>2. ListInv /\ [Next]_vars => [Lists!Next]_ListsOf
  BY StepImplements
<1>3. ListInv /\ [Next]_vars => ListInv'
  BY ListInvStep
<1>. QED  BY <1>1, <1>2, <1>3, ListInvInit, PTL
          DEF Spec, ListsAppendOnly, Lists!Spec, ListsOf
=============================================================================
