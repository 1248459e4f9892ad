---------------------------- MODULE UsableProofs ----------------------------
(***************************************************************************)
(* Proofs about what the bootstraps leave for the controller: the imports  *)
(* it is told to mount have secrets with tokens that give it access, and a *)
(* secret holds a token of the account its import names.                   *)
(***************************************************************************)
EXTENDS BootstrapProofs

-----------------------------------------------------------------------------
(* The invariants.                                                         *)

AfterRole == Calls \ {"load", "namespace", "role"}
AfterBinding == AfterRole \ {"account", "binding"}

Bound(a) == a \in bindings /\ a[1] \in roles

(* What the calls that a run has made have left, and what it has in hand:  *)
(* its own account's token, and the uid of an import of its own name.      *)
RunSound(r) ==
    /\ pc[r] \in AfterRole => From[r] \in roles
    /\ pc[r] \in AfterBinding => Bound(ServiceAccount(r))
    /\ pc[r] \in NeedsToken => local[r].token.account = ServiceAccount(r)
    /\ pc[r] = "secret" =>
          /\ local[r].uid <= made
          /\ \A i \in imports : i.uid = local[r].uid => i \in ImportsOf(r)

(* Uids and names identify imports; each name was given by a bootstrap.    *)
ImportsSound ==
    /\ \A i \in imports : i.uid <= made
    /\ \A i, j \in imports :
          i.uid = j.uid \/ (i.cluster = j.cluster /\ i.name = j.name) => i = j

(* A secret was made by a bootstrap of the import that owns it, if that is *)
(* still there, with the token of the bootstrap's account.                 *)
MadeBy(s, r) ==
    /\ s.cluster = To[r] /\ s.import = SourceName[r]
    /\ s.data.account = ServiceAccount(r)

SecretSound(s) ==
    /\ s.owner <= made
    /\ Bound(s.data.account)
    /\ \E r \in Runs : MadeBy(s, r)
    /\ \A i \in imports : i.uid = s.owner =>
          i.cluster = s.cluster /\ i.name = s.import

SecretsSound == \A s \in secrets : SecretSound(s)

RunsSound == \A r \in Runs : RunSound(r)

TokenInv ==
    TypeOK /\ TokensOwned /\ ImportsSound /\ SecretsSound /\ RunsSound

(* The cluster's imports of one name are given the target's one name.      *)
NamesAgree ==
    \A r, q \in Runs :
        To[r] = To[q] /\ SourceName[r] = SourceName[q] => TargetName[r] = TargetName[q]

ImportsNamed ==
    \A i \in imports : \A r \in Runs :
        To[r] = i.cluster /\ SourceName[r] = i.name => TargetName[r] = i.account

(* Until a user deletes something, every secret has its import, every      *)
(* adopted import a secret, and every announced import was adopted.        *)
Adopted(c, n) ==
    \E i \in imports : i.cluster = c /\ i.name = n /\ i.adopted

Owned(u) == \E i \in imports : i.uid = u

AdoptedInv ==
    edits = 0 =>
        /\ \A s \in secrets : Owned(s.owner)
        /\ \A i \in imports : i.adopted => \E s \in secrets : s.owner = i.uid
        /\ \A r \in Runs :
              /\ pc[r] = "secret" => Owned(local[r].uid)
              /\ pc[r] \in {"deployment", "annotate"} => Adopted(To[r], SourceName[r])
        /\ \A c \in Clusters : \A n \in ToSet(template[c].imports) : Adopted(c, n)

-----------------------------------------------------------------------------
(* How the calls move their runs.                                          *)

(* Every step: what a bootstrap relies on stays, and what has an old uid   *)
(* is what it was.                                                         *)
SameImport(i, j) ==
    i.uid = j.uid /\ i.cluster = j.cluster /\ i.name = j.name /\ i.account = j.account

Grows ==
    /\ made' \in Nat /\ made <= made'
    /\ roles \subseteq roles' /\ bindings \subseteq bindings'
    /\ \A i \in imports' : i.uid > made \/ \E j \in imports : SameImport(i, j)

LEMMA RunStays ==
    ASSUME TypeOK, TypeOK', Grows, NEW r \in Runs, RunSound(r), pc'[r] = pc[r],
           local'[r].token = local[r].token, local'[r].uid = local[r].uid
    PROVE  RunSound(r)'
<1>1. /\ local[r].uid \in Nat /\ made \in Nat /\ made' \in Nat
      /\ \A i \in imports' : i.uid \in Nat
  BY DEF TypeOK, RunsTypeOK, Locals, TargetObjectsTypeOK, Import
<1>2. ServiceAccount(r)' = ServiceAccount(r)
  BY DEF ServiceAccount
<1>3. ASSUME pc[r] = "secret"
      PROVE  /\ local[r].uid <= made'
             /\ \A i \in imports' : i.uid = local[r].uid => i \in ImportsOf(r)'
  BY <1>1, <1>3 DEF RunSound, Grows, SameImport, ImportsOf
<1>. QED  BY <1>2, <1>3 DEF RunSound, Grows, Bound

LEMMA RunMoves ==
    ASSUME TypeOK, TypeOK', Grows, RunsSound, NEW r \in Runs, RunSound(r)',
           \A q \in Runs \ {r} : pc'[q] = pc[q] /\ local'[q] = local[q]
    PROVE  RunsSound'
<1>1. ASSUME NEW q \in Runs \ {r}
      PROVE  RunSound(q)'
  BY RunStays DEF RunsSound
<1>. QED  BY <1>1 DEF RunsSound

LEMMA RunsStay ==
    ASSUME TypeOK, TypeOK', Grows, RunsSound, UNCHANGED runVars
    PROVE  RunsSound'
  BY RunStays DEF RunsSound, runVars

(* A run that goes on with a call has what that call needs.                *)
Prepared(r, label, l) ==
    /\ label \in AfterRole => From[r] \in roles'
    /\ label \in AfterBinding => Bound(ServiceAccount(r))'
    /\ label \in NeedsToken => l.token.account = ServiceAccount(r)
    /\ label = "secret" =>
          /\ l.uid <= made'
          /\ \A i \in imports' : i.uid = l.uid => i \in ImportsOf(r)'

LEMMA GotoSound ==
    ASSUME TypeOK, TypeOK', Grows, RunsSound, NEW r \in Runs, NEW label,
           NEW l \in Locals, Goto(r, label),
           Set(r, l) \/ (l = local[r] /\ UNCHANGED local),
           Prepared(r, label, l)
    PROVE  RunsSound'
<1>1. pc \in [Runs -> Calls \union {"done", "failed"}] /\ local \in [Runs -> Locals]
  BY DEF TypeOK, RunsTypeOK
<1>2. pc'[r] = label /\ local'[r] = l
  BY <1>1 DEF Goto, Set
<1>3. \A q \in Runs \ {r} : pc'[q] = pc[q] /\ local'[q] = local[q]
  BY <1>1 DEF Goto, Set
<1>4. ServiceAccount(r)' = ServiceAccount(r)
  BY DEF ServiceAccount
<1>5. RunSound(r)'
  BY <1>2, <1>4 DEF RunSound, Prepared
<1>. QED  BY <1>3, <1>5, RunMoves

LEMMA EndSound ==
    ASSUME TypeOK, TypeOK', Grows, RunsSound, NEW r \in Runs,
           NEW outcome \in {"done", "failed"}, End(r, outcome)
    PROVE  RunsSound'
<1>1. Prepared(r, outcome, NoLocals)
  BY DEF Prepared, AfterRole, AfterBinding, Calls, NeedsToken
<1>. QED  BY <1>1, NoLocalsType, GotoSound DEF End

LEMMA ProceedSound ==
    ASSUME TypeOK, TypeOK', Grows, RunsSound, NEW r \in Runs, NEW label,
           NEW l \in Locals,
           ProceedWith(r, label, l) \/ (l = local[r] /\ Proceed(r, label)),
           Prepared(r, label, l)
    PROVE  RunsSound'
  BY GotoSound, EndSound DEF Proceed, ProceedWith

LEMMA PollSound ==
    ASSUME TypeOK, TypeOK', Grows, RunsSound, NEW r \in Runs, PollAgain(r)
    PROVE  RunsSound'
<1>1. CASE Fail(r)
  BY <1>1, EndSound DEF Fail
<1>2. CASE UNCHANGED pc /\ Set(r, [local[r] EXCEPT !.polls = @ + 1])
  <2>1. local \in [Runs -> Locals]
    BY DEF TypeOK, RunsTypeOK
  <2>2. /\ local'[r].token = local[r].token /\ local'[r].uid = local[r].uid
        /\ \A q \in Runs \ {r} : local'[q] = local[q]
    BY <1>2, <2>1 DEF Set, Locals
  <2>. QED  BY <1>2, <2>2, RunStays, RunMoves DEF RunsSound
<1>. QED  BY <1>1, <1>2 DEF PollAgain

-----------------------------------------------------------------------------
(* The calls.                                                              *)

LEMMA ImportsStay ==
    ASSUME TypeOK, UNCHANGED imports, made' \in Nat, made <= made',
           roles \subseteq roles', bindings \subseteq bindings'
    PROVE  Grows
  BY DEF Grows, SameImport

LEMMA SourceCallsSound ==
    ASSUME TokenInv, TypeOK', NEW r \in Runs,
           \/ newCluster(r) \/ createNamespace(r) \/ createClusterRole(r)
           \/ createServiceAccount(r) \/ createClusterRoleBinding(r)
    PROVE  RunsSound' /\ Grows
<1>1. TypeOK /\ RunsSound /\ RunSound(r) /\ local[r] \in Locals
  BY DEF TokenInv, RunsSound, TypeOK, RunsTypeOK
<1>2. Grows
  <2>1. made \in Nat /\ made <= made /\ UNCHANGED <<made, imports>>
    BY <1>1 DEF newCluster, createNamespace, createClusterRole,
       createServiceAccount, createClusterRoleBinding, targetObjects, TypeOK,
       TargetObjectsTypeOK
  <2>2. roles \subseteq roles' /\ bindings \subseteq bindings'
    BY DEF newCluster, createNamespace, createClusterRole, createServiceAccount,
           createClusterRoleBinding, sourceObjects
  <2>. QED  BY <1>1, <2>1, <2>2, ImportsStay
<1>3. ASSUME NEW label \in {"namespace", "role"}
      PROVE  Prepared(r, label, local[r])
  BY <1>3 DEF Prepared, AfterRole, AfterBinding, NeedsToken
<1>4. CASE newCluster(r)
  <2>1. \/ Goto(r, "namespace") /\ UNCHANGED local
        \/ End(r, "failed")
    BY <1>4 DEF newCluster, Fail
  <2>. QED  BY <1>1, <1>2, <1>3, <2>1, GotoSound, EndSound
<1>5. CASE createNamespace(r)
  BY <1>1, <1>2, <1>3, <1>5, ProceedSound DEF createNamespace
<1>6. CASE createClusterRole(r)
  <2>1. Proceed(r, "account") /\ From[r] \in roles'
    BY <1>6 DEF createClusterRole
  <2>2. Prepared(r, "account", local[r])
    BY <2>1 DEF Prepared, AfterBinding, NeedsToken
  <2>. QED  BY <1>1, <1>2, <2>1, <2>2, ProceedSound
<1>7. CASE createServiceAccount(r)
  <2>1. Proceed(r, "binding") /\ From[r] \in roles'
    BY <1>1, <1>7 DEF createServiceAccount, RunSound, AfterRole, Calls
  <2>2. Prepared(r, "binding", local[r])
    BY <2>1 DEF Prepared, AfterBinding, NeedsToken
  <2>. QED  BY <1>1, <1>2, <2>1, <2>2, ProceedSound
<1>8. CASE createClusterRoleBinding(r)
  <2>1. /\ Proceed(r, "wait") /\ From[r] \in roles'
        /\ ServiceAccount(r) \in bindings' /\ ServiceAccount(r)[1] = From[r]
    BY <1>1, <1>8 DEF createClusterRoleBinding, RunSound, AfterRole, Calls,
                      ServiceAccount
  <2>2. Prepared(r, "wait", local[r])
    BY <2>1 DEF Prepared, NeedsToken, Bound, ServiceAccount
  <2>. QED  BY <1>1, <1>2, <2>1, <2>2, ProceedSound
<1>. QED  BY <1>2, <1>4, <1>5, <1>6, <1>7, <1>8

(* A call that changes nothing but its run, which needs what it needed.    *)
LEMMA BoundStays ==
    ASSUME NEW r \in Runs, RunSound(r), pc[r] \in AfterBinding,
           roles \subseteq roles', bindings \subseteq bindings'
    PROVE  From[r] \in roles' /\ Bound(ServiceAccount(r))'
  BY DEF RunSound, AfterBinding, Bound, ServiceAccount

LEMMA TokenCallsSound ==
    ASSUME TokenInv, TypeOK', NEW r \in Runs,
           waitForServiceAccountToken(r) \/ getServiceAccountToken(r)
    PROVE  RunsSound' /\ Grows
<1>1. /\ TypeOK /\ RunsSound /\ RunSound(r) /\ local[r] \in Locals
      /\ refs[ServiceAccount(r)] \in Seq(Token) /\ TokensOwned
      /\ ServiceAccount(r) \in Accounts
  BY ServiceAccountType DEF TokenInv, RunsSound, TypeOK, RunsTypeOK,
                            SourceObjectsTypeOK, SourceTypeOK
<1>2. UNCHANGED <<made, imports, roles, bindings>> /\ made \in Nat
  BY <1>1 DEF waitForServiceAccountToken, getServiceAccountToken, sourceObjects,
              targetObjects, TypeOK, TargetObjectsTypeOK
<1>3. Grows
  BY <1>1, <1>2, ImportsStay
<1>4. From[r] \in roles' /\ Bound(ServiceAccount(r))'
  BY <1>1, <1>2, BoundStays DEF waitForServiceAccountToken,
     getServiceAccountToken, AfterBinding, AfterRole, Calls
<1>5. CASE waitForServiceAccountToken(r)
  <2>1. CASE PollAgain(r)
    BY <1>1, <1>3, <2>1, PollSound
  <2>2. CASE Fail(r)
    BY <1>1, <1>3, <2>2, EndSound DEF Fail
  <2>3. CASE /\ refs[ServiceAccount(r)] # <<>>
             /\ ProceedWith(r, "token", [NoLocals EXCEPT
                                !.token = Head(refs[ServiceAccount(r)])])
    <3>1. PICK t : t = Head(refs[ServiceAccount(r)])
      OBVIOUS
    <3>2. t \in Token /\ t.account = ServiceAccount(r)
      BY <1>1, <2>3, <3>1, HeadTailToSet DEF TokensOwned
    <3>. DEFINE l == [NoLocals EXCEPT !.token = t]
    <3>3. l \in Locals /\ l.token = t
      BY <3>2, NoLocalsType DEF Locals
    <3>4. Prepared(r, "token", l)
      BY <1>4, <3>2, <3>3 DEF Prepared
    <3>. QED  BY <1>1, <1>3, <2>3, <3>1, <3>3, <3>4, ProceedSound
  <2>. QED  BY <1>5, <2>1, <2>2, <2>3 DEF waitForServiceAccountToken
<1>6. CASE getServiceAccountToken(r)
  <2>1. Fail(r) \/ Proceed(r, "import")
    BY <1>6 DEF getServiceAccountToken
  <2>2. local[r].token.account = ServiceAccount(r)
    BY <1>1, <1>6 DEF getServiceAccountToken, RunSound, NeedsToken
  <2>3. Prepared(r, "import", local[r])
    BY <1>4, <2>2 DEF Prepared
  <2>. QED  BY <1>1, <1>3, <2>1, <2>3, ProceedSound, EndSound DEF Fail
<1>. QED  BY <1>3, <1>5, <1>6

LEMMA ImportCallsSound ==
    ASSUME TokenInv, TypeOK', NEW r \in Runs,
           createServiceAccountImport(r) \/ getServiceAccountImport(r)
    PROVE  RunsSound' /\ Grows
<1>1. /\ TypeOK /\ RunsSound /\ RunSound(r) /\ ImportsSound
      /\ local[r] \in Locals /\ made \in Nat
      /\ \A i \in imports : i.uid \in Nat /\ i.uid <= made
  BY DEF TokenInv, RunsSound, ImportsSound, TypeOK, RunsTypeOK,
         TargetObjectsTypeOK, Import
<1>2. UNCHANGED <<roles, bindings>>
  BY DEF createServiceAccountImport, getServiceAccountImport, sourceObjects
<1>3. From[r] \in roles' /\ Bound(ServiceAccount(r))'
  BY <1>1, <1>2, BoundStays DEF createServiceAccountImport,
     getServiceAccountImport, AfterBinding, AfterRole, Calls
<1>4. local[r].token.account = ServiceAccount(r)
  BY <1>1 DEF createServiceAccountImport, getServiceAccountImport, RunSound,
              NeedsToken
<1>5. ASSUME NEW u \in Nat, u <= made', Grows,
             \A i \in imports' : i.uid = u => i \in ImportsOf(r)',
             ProceedWith(r, "secret", [local[r] EXCEPT !.uid = u])
      PROVE  RunsSound'
  <2>. DEFINE l == [local[r] EXCEPT !.uid = u]
  <2>1. l \in Locals /\ l.uid = u /\ l.token = local[r].token
    BY <1>1 DEF Locals
  <2>2. ProceedWith(r, "secret", l)
    BY <1>5
  <2>. HIDE DEF l
  <2>3. Prepared(r, "secret", l)
    BY <1>3, <1>4, <1>5, <2>1 DEF Prepared
  <2>. QED  BY <1>1, <1>5, <2>1, <2>2, <2>3, ProceedSound
<1>6. CASE CreateImport(r)
  <2>1. /\ made' = made + 1 /\ imports' = imports \union {NewImport(r)}
        /\ ProceedWith(r, "secret", [local[r] EXCEPT !.uid = made + 1])
        /\ NewImport(r).uid = made + 1
        /\ NewImport(r).cluster = To[r] /\ NewImport(r).name = SourceName[r]
    BY <1>6 DEF CreateImport, NewImport
  <2>2. Grows
    BY <1>1, <1>2, <2>1 DEF Grows, SameImport
  <2>3. \A i \in imports' : i.uid = made + 1 => i \in ImportsOf(r)'
    BY <1>1, <2>1 DEF ImportsOf
  <2>4. PICK u \in Nat : u = made + 1
    BY <1>1
  <2>5. u <= made' /\ ProceedWith(r, "secret", [local[r] EXCEPT !.uid = u])
    BY <2>1, <2>4
  <2>6. \A i \in imports' : i.uid = u => i \in ImportsOf(r)'
    BY <2>3, <2>4
  <2>. QED  BY <1>5, <2>2, <2>4, <2>5, <2>6
<1>7. CASE UNCHANGED targetObjects
  <2>1. Grows
    BY <1>1, <1>2, <1>7, ImportsStay DEF targetObjects
  <2>2. CASE Proceed(r, "get")
    <3>1. Prepared(r, "get", local[r])
      BY <1>3, <1>4 DEF Prepared
    <3>. QED  BY <1>1, <2>1, <2>2, <3>1, ProceedSound
  <2>3. CASE Fail(r)
    BY <1>1, <2>1, <2>3, EndSound DEF Fail
  <2>4. ASSUME NEW i \in ImportsOf(r),
               ProceedWith(r, "secret", [local[r] EXCEPT !.uid = i.uid])
        PROVE  RunsSound'
    <3>1. i \in imports /\ i.uid \in Nat /\ i.uid <= made'
      BY <1>1, <1>7 DEF ImportsOf, targetObjects
    <3>2. \A j \in imports' : j.uid = i.uid => j \in ImportsOf(r)'
      BY <1>1, <1>7, <3>1 DEF ImportsSound, ImportsOf, targetObjects
    <3>. QED  BY <1>5, <2>1, <2>4, <3>1, <3>2
  <2>5. CASE getServiceAccountImport(r)
    BY <2>1, <2>3, <2>4, <2>5 DEF getServiceAccountImport
  <2>6. CASE createServiceAccountImport(r) /\ ~CreateImport(r)
    BY <2>1, <2>2, <2>6 DEF createServiceAccountImport
  <2>7. ~CreateImport(r)
    BY <1>1, <1>7 DEF CreateImport, targetObjects
  <2>. QED  BY <2>5, <2>6, <2>7
<1>. QED  BY <1>6, <1>7 DEF createServiceAccountImport, getServiceAccountImport

LEMMA LastCallsSound ==
    ASSUME TokenInv, TypeOK', NEW r \in Runs,
           \/ createServiceAccountImportToken(r)
           \/ waitForServiceAccountImportTokenAdoption(r)
           \/ getDeployment(r) \/ updateDeployment(r)
    PROVE  RunsSound' /\ Grows
<1>1. /\ TypeOK /\ RunsSound /\ RunSound(r) /\ local[r] \in Locals /\ made \in Nat
      /\ template[To[r]] \in Template
  BY RunsAssumption DEF TokenInv, RunsSound, TypeOK, RunsTypeOK,
                        TargetObjectsTypeOK
<1>2. /\ UNCHANGED <<imports, roles, bindings>>
      /\ made' = made \/ made' = made + 1
  BY DEF createServiceAccountImportToken, getDeployment, updateDeployment,
         waitForServiceAccountImportTokenAdoption, sourceObjects, targetObjects
<1>3. Grows
  BY <1>1, <1>2, ImportsStay
<1>4. From[r] \in roles' /\ Bound(ServiceAccount(r))'
  BY <1>1, <1>2, BoundStays DEF createServiceAccountImportToken, getDeployment,
     updateDeployment, waitForServiceAccountImportTokenAdoption, AfterBinding,
     AfterRole, Calls
<1>5. ASSUME NEW label \in {"adoption", "deployment", "annotate"}, NEW l
      PROVE  Prepared(r, label, l)
  BY <1>4 DEF Prepared, NeedsToken
<1>6. CASE \E label \in {"adoption", "deployment"} : ProceedWith(r, label, NoLocals)
  BY <1>1, <1>3, <1>5, <1>6, NoLocalsType, ProceedSound
<1>7. CASE PollAgain(r) \/ Fail(r) \/ End(r, "done") \/ End(r, "failed")
  BY <1>1, <1>3, <1>7, PollSound, EndSound DEF Fail
<1>8. CASE getDeployment(r)
  <2>. DEFINE l == [local[r] EXCEPT !.read = template[To[r]]]
  <2>1. l \in Locals
    BY <1>1 DEF Locals
  <2>2. ProceedWith(r, "annotate", l)
    BY <1>8 DEF getDeployment
  <2>. HIDE DEF l
  <2>. QED  BY <1>1, <1>3, <1>5, <2>1, <2>2, ProceedSound
<1>. QED  BY <1>3, <1>6, <1>7, <1>8
          DEF createServiceAccountImportToken, updateDeployment,
              waitForServiceAccountImportTokenAdoption


LEMMA RepeatSound ==
    ASSUME TokenInv, TypeOK', NEW r \in Runs, FailCall(r) \/ Rerun(r)
    PROVE  RunsSound' /\ Grows
<1>1. TypeOK /\ RunsSound /\ local[r] \in Locals /\ made \in Nat
  BY DEF TokenInv, TypeOK, RunsTypeOK, TargetObjectsTypeOK
<1>2. Grows
  BY <1>1, ImportsStay DEF FailCall, Rerun, sourceObjects, targetObjects
<1>3. Prepared(r, "load", local[r])
  BY DEF Prepared, AfterRole, AfterBinding, NeedsToken
<1>. QED  BY <1>1, <1>2, <1>3, EndSound, GotoSound DEF FailCall, Rerun

(* What the controllers and the users do.                                  *)
Environment ==
    \/ MintToken \/ Adopt \/ Collect
    \/ UpdateDeploymentStatus \/ UserEdit \/ UNCHANGED vars

LEMMA EnvironmentSound ==
    ASSUME TokenInv, TypeOK', Environment
    PROVE  RunsSound' /\ Grows
<1>1. TypeOK /\ RunsSound /\ made \in Nat
  BY DEF TokenInv, TypeOK, TargetObjectsTypeOK
<1>2. UNCHANGED <<runVars, made, roles, bindings>>
  BY DEF Environment, MintToken, Adopt, Collect, UpdateDeploymentStatus,
         UserEdit, vars, sourceObjects, targetObjects
<1>3. \A i \in imports' : \E j \in imports : SameImport(i, j)
  <2>1. CASE Adopt
    <3>1. PICK i \in imports :
              imports' = (imports \ {i})
                             \union {[i EXCEPT !.adopted = (Labelled(i) # {})]}
      BY <2>1 DEF Adopt
    <3>2. PICK b : b = (Labelled(i) # {})
      OBVIOUS
    <3>3. SameImport([i EXCEPT !.adopted = b], i)
      BY <1>1 DEF SameImport, TypeOK, TargetObjectsTypeOK, Import
    <3>4. \A j \in imports : SameImport(j, j)
      BY DEF SameImport
    <3>. QED  BY <3>1, <3>2, <3>3, <3>4
  <2>2. CASE ~Adopt
    <3>1. imports' \subseteq imports
      BY <2>2 DEF Environment, MintToken, Collect, UpdateDeploymentStatus,
                  UserEdit, vars, targetObjects
    <3>. QED  BY <3>1 DEF SameImport
  <2>. QED  BY <2>1, <2>2
<1>4. Grows
  BY <1>1, <1>2, <1>3 DEF Grows
<1>. QED  BY <1>1, <1>2, <1>4, RunsStay

LEMMA StepSound ==
    ASSUME TokenInv, TypeOK', [Next]_vars
    PROVE  RunsSound' /\ Grows
<1>1. ASSUME NEW r \in Runs, Work(r)
      PROVE  RunsSound' /\ Grows
  BY <1>1, SourceCallsSound, TokenCallsSound, ImportCallsSound, LastCallsSound
     DEF Work
<1>. QED  BY <1>1, RepeatSound, EnvironmentSound DEF Next, Environment

-----------------------------------------------------------------------------
(* The invariant.                                                          *)

LEMMA TokensOwnedStep ==
    ASSUME TokenInv, [Next]_vars
    PROVE  TokensOwned'
<1>1. SourceTypeOK /\ TokensOwned
  BY DEF TokenInv, TypeOK, SourceObjectsTypeOK
<1>2. CASE UNCHANGED sourceVars
  BY <1>1, <1>2 DEF TokensOwned, sourceVars
<1>3. ASSUME NEW r \in Runs, Work(r)
      PROVE  UNCHANGED sourceVars \/ CreateAccount(ServiceAccount(r))
  BY <1>3 DEF Work, newCluster, createNamespace, createClusterRole,
     createServiceAccount, createClusterRoleBinding, waitForServiceAccountToken,
     getServiceAccountToken, createServiceAccountImport, getServiceAccountImport,
     createServiceAccountImportToken, waitForServiceAccountImportTokenAdoption,
     getDeployment, updateDeployment, sourceObjects
<1>4. ASSUME NEW r \in Runs, FailCall(r) \/ Rerun(r)
      PROVE  UNCHANGED sourceVars
  BY <1>4 DEF FailCall, Rerun, sourceObjects
<1>5. CASE Environment
  <2>1. CASE MintToken
    BY <1>1, <2>1, TokensStayOwned DEF MintToken
  <2>2. CASE UserEdit
    BY <1>1, <1>2, <2>2, TokensStayOwned DEF UserEdit, SourceTypeOK
  <2>. QED  BY <1>2, <1>5, <2>1, <2>2 DEF Environment, Adopt, Collect,
            UpdateDeploymentStatus, vars, sourceObjects
<1>. QED  BY <1>1, <1>2, <1>3, <1>4, <1>5, ServiceAccountType, TokensStayOwned
          DEF Next, Environment

(* How a step changes the imports.                                         *)
LEMMA ImportKinds ==
    ASSUME [Next]_vars
    PROVE  \/ UNCHANGED imports
           \/ \E r \in Runs : createServiceAccountImport(r) /\ CreateImport(r)
           \/ Adopt
           \/ UserEdit /\ imports' \subseteq imports
<1>1. ASSUME NEW r \in Runs, Work(r) \/ FailCall(r) \/ Rerun(r)
      PROVE  UNCHANGED imports \/ (createServiceAccountImport(r) /\ CreateImport(r))
  BY <1>1 DEF Work, newCluster, createNamespace, createClusterRole,
     createServiceAccount, createClusterRoleBinding, waitForServiceAccountToken,
     getServiceAccountToken, createServiceAccountImport, getServiceAccountImport,
     createServiceAccountImportToken, waitForServiceAccountImportTokenAdoption,
     getDeployment, updateDeployment, targetObjects, FailCall, Rerun
<1>2. MintToken \/ Collect \/ UpdateDeploymentStatus \/ UNCHANGED vars
      => UNCHANGED imports
  BY DEF MintToken, Collect, UpdateDeploymentStatus, vars, targetObjects
<1>3. UserEdit => imports' \subseteq imports
  BY DEF UserEdit, targetObjects
<1>. QED  BY <1>1, <1>2, <1>3 DEF Next

(* How a step changes the secrets.                                         *)
LEMMA SecretKinds ==
    ASSUME [Next]_vars
    PROVE  \/ UNCHANGED secrets
           \/ \E r \in Runs : createServiceAccountImportToken(r)
           \/ Collect
<1>1. ASSUME NEW r \in Runs, Work(r) \/ FailCall(r) \/ Rerun(r)
      PROVE  UNCHANGED secrets \/ createServiceAccountImportToken(r)
  BY <1>1 DEF Work, newCluster, createNamespace, createClusterRole,
     createServiceAccount, createClusterRoleBinding, waitForServiceAccountToken,
     getServiceAccountToken, createServiceAccountImport, getServiceAccountImport,
     CreateImport, waitForServiceAccountImportTokenAdoption,
     getDeployment, updateDeployment, targetObjects, FailCall, Rerun
<1>2. MintToken \/ Adopt \/ UpdateDeploymentStatus \/ UserEdit \/ UNCHANGED vars
      => UNCHANGED secrets
  BY DEF MintToken, Adopt, UpdateDeploymentStatus, UserEdit, vars, targetObjects
<1>. QED  BY <1>1, <1>2 DEF Next

LEMMA ImportsSoundStep ==
    ASSUME TokenInv, TypeOK', [Next]_vars
    PROVE  ImportsSound'
<1>1. ImportsSound /\ made \in Nat /\ \A i \in imports : i.uid \in Nat
  BY DEF TokenInv, TypeOK, TargetObjectsTypeOK, Import
<1>2. Grows
  BY StepSound
<1>3. ASSUME NEW r \in Runs, CreateImport(r)
      PROVE  ImportsSound'
  <2>1. /\ imports' = imports \union {NewImport(r)} /\ made' = made + 1
        /\ NewImport(r).uid = made + 1
        /\ NewImport(r).cluster = To[r] /\ NewImport(r).name = SourceName[r]
        /\ \A i \in imports : ~(i.cluster = To[r] /\ i.name = SourceName[r])
    BY <1>3 DEF CreateImport, NewImport, ImportsOf
  <2>2. \A i \in imports : i.uid # made + 1 /\ i.uid <= made'
    BY <1>1, <2>1 DEF ImportsSound
  <2>. QED  BY <1>1, <2>1, <2>2 DEF ImportsSound
<1>4. CASE imports' \subseteq imports
  BY <1>1, <1>2, <1>4 DEF ImportsSound, Grows
<1>5. CASE Adopt
  <2>1. PICK i \in imports, b \in BOOLEAN :
            imports' = (imports \ {i}) \union {[i EXCEPT !.adopted = b]}
    BY <1>5 DEF Adopt
  <2>2. PICK k : k = [i EXCEPT !.adopted = b]
    OBVIOUS
  <2>3. k.uid = i.uid /\ k.cluster = i.cluster /\ k.name = i.name
    BY <2>2 DEF TokenInv, TypeOK, TargetObjectsTypeOK, Import
  <2>4. imports' = (imports \ {i}) \union {k} /\ made' = made
    BY <1>5, <2>1, <2>2 DEF Adopt
  <2>5. \A j \in imports \ {i} :
            /\ j.uid # k.uid
            /\ ~(j.cluster = k.cluster /\ j.name = k.name)
    BY <1>1, <2>3 DEF ImportsSound
  <2>6. \A j \in imports' : j.uid <= made'
    BY <1>1, <2>3, <2>4 DEF ImportsSound
  <2>7. \A j, l \in imports' :
            j.uid = l.uid \/ (j.cluster = l.cluster /\ j.name = l.name) => j = l
    BY <1>1, <2>4, <2>5 DEF ImportsSound
  <2>. QED  BY <2>6, <2>7 DEF ImportsSound
<1>. QED  BY <1>3, <1>4, <1>5, ImportKinds

(* What holds of a secret once goes on to hold.                            *)
LEMMA SecretStays ==
    ASSUME TypeOK, TypeOK', Grows, NEW s, s.owner \in Nat, SecretSound(s)
    PROVE  SecretSound(s)'
<1>1. made \in Nat /\ made' \in Nat /\ \A i \in imports' : i.uid \in Nat
  BY DEF TypeOK, TargetObjectsTypeOK, Import
<1>2. s.owner <= made /\ s.owner <= made'
  BY <1>1 DEF SecretSound, Grows
<1>3. \A i \in imports' : i.uid = s.owner =>
          i.cluster = s.cluster /\ i.name = s.import
  BY <1>1, <1>2 DEF SecretSound, Grows, SameImport
<1>. QED  BY <1>2, <1>3 DEF SecretSound, Grows, Bound, MadeBy, ServiceAccount

LEMMA SecretsSoundStep ==
    ASSUME TokenInv, TypeOK', [Next]_vars
    PROVE  SecretsSound'
<1>1. /\ TypeOK /\ Grows /\ \A s \in secrets : s.owner \in Nat /\ SecretSound(s)
  BY StepSound DEF TokenInv, SecretsSound, TypeOK,
                   TargetObjectsTypeOK, Secret
<1>2. CASE secrets' \subseteq secrets
  BY <1>1, <1>2, SecretStays DEF SecretsSound
<1>3. ASSUME NEW r \in Runs, createServiceAccountImportToken(r)
      PROVE  SecretsSound'
  <2>1. PICK s : s = [id |-> made + 1, cluster |-> To[r], import |-> SourceName[r],
                      owner |-> local[r].uid, data |-> local[r].token]
    OBVIOUS
  <2>2. secrets' = secrets \union {s}
    BY <1>3, <2>1 DEF createServiceAccountImportToken
  <2>3. /\ RunSound(r) /\ pc[r] = "secret" /\ local[r].uid \in Nat
        /\ Bound(ServiceAccount(r))
    BY <1>3 DEF TokenInv, RunsSound, RunSound, createServiceAccountImportToken,
                TypeOK, RunsTypeOK, Locals, AfterBinding, AfterRole, Calls
  <2>4. s.owner \in Nat /\ SecretSound(s)
    <3>1. MadeBy(s, r)
      BY <2>1, <2>3 DEF MadeBy, RunSound, NeedsToken
    <3>. QED  BY <2>1, <2>3, <3>1 DEF SecretSound, RunSound, ImportsOf, MadeBy
  <2>. QED  BY <1>1, <2>2, <2>4, SecretStays DEF SecretsSound
<1>. QED  BY <1>2, <1>3, SecretKinds DEF Collect

LEMMA TokenInvInit == Init => TokenInv
<1>. SUFFICES ASSUME Init PROVE TokenInv
  OBVIOUS
<1>1. TokensOwned
  BY EmptyToSet DEF Init, TokensOwned
<1>2. ImportsSound /\ SecretsSound
  BY DEF Init, ImportsSound, SecretsSound
<1>3. RunsSound
  BY DEF Init, RunsSound, RunSound, AfterRole, AfterBinding, NeedsToken
<1>. QED  BY <1>1, <1>2, <1>3, InitType DEF TokenInv

LEMMA TokenInvStep ==
    ASSUME TokenInv, [Next]_vars
    PROVE  TokenInv'
<1>1. TypeOK'
  BY StepType DEF TokenInv
<1>. QED  BY <1>1, StepSound, TokensOwnedStep, ImportsSoundStep, SecretsSoundStep
          DEF TokenInv

-----------------------------------------------------------------------------
(* The credentials match.                                                  *)

LEMMA ImportsNamedStep ==
    ASSUME NamesAgree, TokenInv, ImportsNamed, [Next]_vars
    PROVE  ImportsNamed'
<1>1. ASSUME NEW r \in Runs, CreateImport(r)
      PROVE  ImportsNamed'
  BY <1>1 DEF CreateImport, NewImport, NamesAgree, ImportsNamed
<1>2. CASE imports' \subseteq imports
  BY <1>2 DEF ImportsNamed
<1>3. CASE Adopt
  <2>1. PICK i \in imports, b \in BOOLEAN :
            imports' = (imports \ {i}) \union {[i EXCEPT !.adopted = b]}
    BY <1>3 DEF Adopt
  <2>2. PICK k : k = [i EXCEPT !.adopted = b]
    OBVIOUS
  <2>3. SameImport(k, i)
    BY <2>2 DEF SameImport, TokenInv, TypeOK, TargetObjectsTypeOK, Import
  <2>4. \A j \in imports' : \E l \in imports :
            j.cluster = l.cluster /\ j.name = l.name /\ j.account = l.account
    BY <2>1, <2>2, <2>3 DEF SameImport
  <2>. QED  BY <2>4 DEF ImportsNamed
<1>. QED  BY <1>1, <1>2, <1>3, ImportKinds

(* So long as the bootstraps of one cluster's import of one name agree on  *)
(* the name of their target -- different clusters are given different      *)
(* names --, a secret that createServiceAccountImportToken made for an     *)
(* import holds a token of the account and cluster that the import's spec  *)
(* names, whatever the bootstraps, the controllers and the users of the    *)
(* clusters did in between, and however often a bootstrap was repeated.    *)
THEOREM CredentialsMatchHolds ==
    ASSUME NamesAgree
    PROVE  Spec => []CredentialsMatchSpec
<1>1. Init => TokenInv /\ ImportsNamed
  BY TokenInvInit DEF Init, ImportsNamed
<1>2. TokenInv /\ ImportsNamed /\ [Next]_vars => (TokenInv /\ ImportsNamed)'
  BY TokenInvStep, ImportsNamedStep
<1>3. TokenInv /\ ImportsNamed => CredentialsMatchSpec
  <2>. SUFFICES ASSUME TokenInv, ImportsNamed, NEW i \in imports,
                       NEW s \in secrets, s.owner = i.uid
                PROVE  \E r \in Runs :
                          /\ To[r] = i.cluster /\ SourceName[r] = i.name
                          /\ TargetName[r] = i.account
                          /\ s.data.account = ServiceAccount(r)
                          /\ s.import = i.name
    BY DEF CredentialsMatchSpec
  <2>1. PICK r \in Runs : MadeBy(s, r)
    BY DEF TokenInv, SecretsSound, SecretSound
  <2>2. i.cluster = s.cluster /\ i.name = s.import
    BY DEF TokenInv, SecretsSound, SecretSound
  <2>. QED  BY <2>1, <2>2 DEF MadeBy, ImportsNamed
<1>. QED  BY <1>1, <1>2, <1>3, PTL DEF Spec

-----------------------------------------------------------------------------
(* What is announced is usable: how the runs reach the calls that need an  *)
(* import, and an import that was adopted.                                 *)

Annotating == {"deployment", "annotate"}

Reaches(r, label, l) ==
    /\ label = "secret" => Owned(l.uid)'
    /\ label \in Annotating => \/ pc[r] \in Annotating
                               \/ Adopted(To[r], SourceName[r])

RunsReach ==
    \A r \in Runs :
        /\ pc'[r] = "secret" =>
              \/ pc[r] = "secret" /\ local'[r].uid = local[r].uid
              \/ Owned(local[r].uid)'
        /\ pc'[r] \in Annotating =>
              \/ pc[r] \in Annotating
              \/ Adopted(To[r], SourceName[r])

LEMMA GotoReaches ==
    ASSUME TypeOK, NEW r \in Runs, NEW label, NEW l \in Locals, Goto(r, label),
           Set(r, l) \/ (l = local[r] /\ UNCHANGED local), Reaches(r, label, l)
    PROVE  RunsReach
<1>1. pc \in [Runs -> Calls \union {"done", "failed"}] /\ local \in [Runs -> Locals]
  BY DEF TypeOK, RunsTypeOK
<1>2. pc'[r] = label /\ local'[r] = l
  BY <1>1 DEF Goto, Set
<1>3. \A q \in Runs \ {r} : pc'[q] = pc[q] /\ local'[q] = local[q]
  BY <1>1 DEF Goto, Set
<1>. QED  BY <1>2, <1>3 DEF RunsReach, Reaches, Owned

LEMMA EndReaches ==
    ASSUME TypeOK, NEW r \in Runs, NEW outcome \in {"done", "failed"},
           End(r, outcome)
    PROVE  RunsReach
<1>1. Reaches(r, outcome, NoLocals)
  BY DEF Reaches, Annotating
<1>. QED  BY <1>1, NoLocalsType, GotoReaches DEF End

LEMMA ProceedReaches ==
    ASSUME TypeOK, NEW r \in Runs, NEW label, NEW l \in Locals,
           ProceedWith(r, label, l) \/ (l = local[r] /\ Proceed(r, label)),
           Reaches(r, label, l)
    PROVE  RunsReach
  BY GotoReaches, EndReaches DEF Proceed, ProceedWith

LEMMA PollReaches ==
    ASSUME TypeOK, NEW r \in Runs, PollAgain(r), pc[r] # "secret"
    PROVE  RunsReach
<1>1. CASE Fail(r)
  BY <1>1, EndReaches DEF Fail
<1>2. CASE UNCHANGED pc /\ Set(r, [local[r] EXCEPT !.polls = @ + 1])
  <2>1. \A q \in Runs \ {r} : local'[q] = local[q]
    BY <1>2 DEF Set, TypeOK, RunsTypeOK
  <2>. QED  BY <1>2, <2>1 DEF RunsReach
<1>. QED  BY <1>1, <1>2 DEF PollAgain

LEMMA CallsReach ==
    ASSUME TypeOK, NEW r \in Runs, Work(r)
    PROVE  RunsReach
<1>1. /\ local[r] \in Locals /\ made \in Nat /\ \A i \in imports : i.uid \in Nat
      /\ template[To[r]] \in Template /\ refs[ServiceAccount(r)] \in Seq(Token)
  BY RunsAssumption, ServiceAccountType
     DEF TypeOK, RunsTypeOK, TargetObjectsTypeOK, SourceObjectsTypeOK,
         SourceTypeOK, Import
<1>2. CASE Fail(r) \/ End(r, "done") \/ End(r, "failed")
  BY <1>2, EndReaches DEF Fail
<1>3. ASSUME NEW label, label \notin Annotating \union {"secret"}, NEW l
      PROVE  Reaches(r, label, l)
  BY <1>3 DEF Reaches
<1>4. ASSUME NEW label \in {"namespace", "role", "account", "binding", "wait",
                            "import", "get"},
             Proceed(r, label)
      PROVE  RunsReach
  BY <1>1, <1>3, <1>4, ProceedReaches DEF Annotating
<1>5. CASE newCluster(r)
  <2>1. CASE Goto(r, "namespace") /\ UNCHANGED local
    BY <1>1, <1>3, <2>1, GotoReaches DEF Annotating
  <2>. QED  BY <1>2, <1>5, <2>1 DEF newCluster
<1>6. CASE \/ createNamespace(r) \/ createClusterRole(r)
           \/ createServiceAccount(r) \/ createClusterRoleBinding(r)
           \/ getServiceAccountToken(r)
  BY <1>2, <1>4, <1>6
     DEF createNamespace, createClusterRole, createServiceAccount,
         createClusterRoleBinding, getServiceAccountToken
<1>7. CASE waitForServiceAccountToken(r)
  <2>1. ASSUME refs[ServiceAccount(r)] # <<>>,
               ProceedWith(r, "token", [NoLocals EXCEPT
                               !.token = Head(refs[ServiceAccount(r)])])
        PROVE  RunsReach
    <3>1. Head(refs[ServiceAccount(r)]) \in Token
      BY <1>1, <2>1, HeadTailToSet
    <3>2. [NoLocals EXCEPT !.token = Head(refs[ServiceAccount(r)])] \in Locals
      BY <3>1, NoLocalsType DEF Locals
    <3>3. PICK l \in Locals : ProceedWith(r, "token", l)
      BY <2>1, <3>2
    <3>. QED  BY <1>3, <3>3, ProceedReaches DEF Annotating
  <2>2. PollAgain(r) => RunsReach
    BY <1>7, PollReaches DEF waitForServiceAccountToken
  <2>. QED  BY <1>2, <1>7, <2>1, <2>2 DEF waitForServiceAccountToken
<1>8. CASE createServiceAccountImport(r) \/ getServiceAccountImport(r)
  <2>1. ASSUME NEW u \in Nat, \E i \in imports' : i.uid = u,
               ProceedWith(r, "secret", [local[r] EXCEPT !.uid = u])
        PROVE  RunsReach
    <3>1. PICK l \in Locals : l.uid = u /\ ProceedWith(r, "secret", l)
      <4>. DEFINE l == [local[r] EXCEPT !.uid = u]
      <4>1. l \in Locals /\ l.uid = u
        BY <1>1 DEF Locals
      <4>. QED  BY <2>1, <4>1
    <3>2. Reaches(r, "secret", l)
      BY <2>1, <3>1 DEF Reaches, Owned, Annotating
    <3>. QED  BY <3>1, <3>2, ProceedReaches
  <2>2. CASE CreateImport(r)
    <3>1. PICK u \in Nat : u = made + 1
      BY <1>1
    <3>2. ProceedWith(r, "secret", [local[r] EXCEPT !.uid = u])
      BY <2>2, <3>1 DEF CreateImport
    <3>3. \E i \in imports' : i.uid = u
      <4>1. NewImport(r) \in imports' /\ NewImport(r).uid = u
        BY <2>2, <3>1 DEF CreateImport, NewImport
      <4>. QED  BY <4>1
    <3>. QED  BY <2>1, <3>2, <3>3
  <2>3. CASE getServiceAccountImport(r)
    BY <1>1, <1>2, <2>1, <2>3
       DEF getServiceAccountImport, ImportsOf, targetObjects
  <2>. QED  BY <1>4, <1>8, <2>2, <2>3 DEF createServiceAccountImport
<1>9. CASE createServiceAccountImportToken(r)
  BY <1>3, <1>9, NoLocalsType, ProceedReaches
     DEF createServiceAccountImportToken, Annotating
<1>10. CASE waitForServiceAccountImportTokenAdoption(r)
  <2>1. ASSUME NEW i \in ImportsOf(r), i.adopted,
               ProceedWith(r, "deployment", NoLocals)
        PROVE  RunsReach
    <3>1. Reaches(r, "deployment", NoLocals)
      BY <2>1 DEF Reaches, Adopted, ImportsOf
    <3>. QED  BY <2>1, <3>1, NoLocalsType, ProceedReaches
  <2>2. PollAgain(r) => RunsReach
    BY <1>10, PollReaches DEF waitForServiceAccountImportTokenAdoption
  <2>. QED  BY <1>2, <1>10, <2>1, <2>2
            DEF waitForServiceAccountImportTokenAdoption
<1>11. CASE getDeployment(r)
  <2>1. PICK l \in Locals : ProceedWith(r, "annotate", l)
    <3>1. [local[r] EXCEPT !.read = template[To[r]]] \in Locals
      BY <1>1 DEF Locals
    <3>. QED  BY <1>11, <3>1 DEF getDeployment
  <2>2. Reaches(r, "annotate", l)
    BY <1>11 DEF Reaches, Annotating, getDeployment
  <2>. QED  BY <2>1, <2>2, ProceedReaches
<1>12. CASE updateDeployment(r)
  BY <1>2, <1>12 DEF updateDeployment
<1>. QED  BY <1>5, <1>6, <1>7, <1>8, <1>9, <1>10, <1>11, <1>12 DEF Work

LEMMA StepReaches ==
    ASSUME TypeOK, [Next]_vars
    PROVE  RunsReach
<1>1. ASSUME NEW r \in Runs, FailCall(r) \/ Rerun(r)
      PROVE  RunsReach
  <2>1. local[r] \in Locals
    BY DEF TypeOK, RunsTypeOK
  <2>2. Reaches(r, "load", local[r])
    BY DEF Reaches, Annotating
  <2>. QED  BY <1>1, <2>1, <2>2, EndReaches, GotoReaches DEF FailCall, Rerun
<1>2. UNCHANGED runVars => RunsReach
  BY DEF runVars, RunsReach
<1>. QED  BY <1>1, <1>2, CallsReach DEF Next, MintToken, Adopt, Collect,
          UpdateDeploymentStatus, UserEdit, vars

(* What nobody deletes stays: secrets, and imports that have been adopted. *)
Kept ==
    /\ secrets \subseteq secrets'
    /\ \A i \in imports : i.adopted => i \in imports'
    /\ \A i \in imports : Owned(i.uid)'

LEMMA StepKeeps ==
    ASSUME TokenInv, AdoptedInv, edits = 0, [Next]_vars, ~UserEdit
    PROVE  Kept
<1>1. /\ \A s \in secrets : SecretSound(s) /\ Owned(s.owner)
      /\ \A i \in imports : i.adopted => \E s \in secrets : s.owner = i.uid
  BY DEF TokenInv, SecretsSound, AdoptedInv
<1>2. secrets \subseteq secrets'
  <2>1. ~Collect
    BY <1>1 DEF Collect, Owned
  <2>. QED  BY <2>1, SecretKinds DEF createServiceAccountImportToken
<1>3. CASE imports \subseteq imports'
  BY <1>2, <1>3 DEF Kept, Owned
<1>4. CASE Adopt
  <2>1. PICK i \in imports, b \in BOOLEAN :
            /\ i.adopted # (Labelled(i) # {})
            /\ imports' = (imports \ {i}) \union {[i EXCEPT !.adopted = b]}
    BY <1>4 DEF Adopt
  <2>2. ~i.adopted
    <3>. SUFFICES ASSUME i.adopted PROVE FALSE
      OBVIOUS
    <3>1. PICK s \in secrets : s.owner = i.uid
      BY <1>1
    <3>2. s \in Labelled(i)
      BY <1>1, <3>1 DEF SecretSound, Labelled
    <3>3. i.adopted \in BOOLEAN
      BY DEF TokenInv, TypeOK, TargetObjectsTypeOK, Import
    <3>. QED  BY <2>1, <3>2, <3>3
  <2>3. [i EXCEPT !.adopted = b].uid = i.uid
    BY DEF TokenInv, TypeOK, TargetObjectsTypeOK, Import
  <2>. QED  BY <1>2, <2>1, <2>2, <2>3 DEF Kept, Owned
<1>5. UNCHANGED imports \/ (\E r \in Runs : CreateImport(r))
      => imports \subseteq imports'
  BY DEF CreateImport
<1>. QED  BY <1>3, <1>4, <1>5, ImportKinds

(* An import that has become adopted has a secret: one with its label, and *)
(* with another owner there would be two imports of one name.              *)
LEMMA AdoptedHaveSecrets ==
    ASSUME TokenInv, AdoptedInv, edits = 0, [Next]_vars, ~UserEdit
    PROVE  \A i \in imports' : i.adopted => \E s \in secrets' : s.owner = i.uid
<1>1. Kept
  BY StepKeeps
<1>2. /\ \A s \in secrets : SecretSound(s) /\ Owned(s.owner)
      /\ \A i \in imports : i.adopted => \E s \in secrets' : s.owner = i.uid
  BY <1>1 DEF TokenInv, SecretsSound, AdoptedInv, Kept
<1>3. UNCHANGED imports \/ (\E r \in Runs : CreateImport(r))
      => \A i \in imports' : i \in imports \/ ~i.adopted
  <2>1. \A r \in Runs : ~NewImport(r).adopted
    BY DEF NewImport
  <2>2. \A r \in Runs : CreateImport(r) =>
            \A i \in imports' : i \in imports \/ i = NewImport(r)
    BY DEF CreateImport
  <2>. QED  BY <2>1, <2>2, Zenon
<1>4. CASE Adopt
  <2>1. PICK i \in imports, b \in BOOLEAN :
            /\ b = (Labelled(i) # {})
            /\ imports' = (imports \ {i}) \union {[i EXCEPT !.adopted = b]}
    BY <1>4 DEF Adopt
  <2>2. PICK k : k = [i EXCEPT !.adopted = b]
    OBVIOUS
  <2>3. k.uid = i.uid /\ k.adopted = b
    BY <2>2 DEF TokenInv, TypeOK, TargetObjectsTypeOK, Import
  <2>4. ASSUME b
        PROVE  \E s \in secrets' : s.owner = i.uid
    <3>1. PICK s \in secrets : s.cluster = i.cluster /\ s.import = i.name
      BY <2>1, <2>4 DEF Labelled
    <3>2. PICK j \in imports : j.uid = s.owner
      BY <1>2 DEF Owned
    <3>3. j.cluster = i.cluster /\ j.name = i.name
      BY <1>2, <3>1, <3>2 DEF SecretSound
    <3>4. j = i
      BY <3>3 DEF TokenInv, ImportsSound
    <3>. QED  BY <1>1, <3>2, <3>4 DEF Kept
  <2>. QED  BY <1>2, <2>1, <2>2, <2>3, <2>4
<1>. QED  BY <1>2, <1>3, <1>4, ImportKinds

LEMMA AdoptedInvStep ==
    ASSUME TokenInv, ListInv, AdoptedInv, [Next]_vars
    PROVE  AdoptedInv'
<1>. SUFFICES ASSUME edits' = 0 PROVE AdoptedInv'
  BY DEF AdoptedInv
<1>1. edits = 0 /\ ~UserEdit
  <2>1. edits' = edits \/ (UserEdit /\ edits' = edits + 1)
    BY DEF Next, Work, newCluster, createNamespace, createClusterRole,
       createServiceAccount, createClusterRoleBinding, waitForServiceAccountToken,
       getServiceAccountToken, createServiceAccountImport, getServiceAccountImport,
       createServiceAccountImportToken, waitForServiceAccountImportTokenAdoption,
       getDeployment, updateDeployment, FailCall, Rerun, MintToken, Adopt, Collect,
       UpdateDeploymentStatus, UserEdit, vars, bounds
  <2>2. edits \in Nat /\ (UserEdit => edits' = edits + 1)
    BY DEF TokenInv, TypeOK, BoundsTypeOK, UserEdit
  <2>. QED  BY <2>1, <2>2
<1>2. Kept /\ RunsReach
  BY <1>1, StepKeeps, StepReaches DEF TokenInv
<1>3. \A i \in imports' : i.adopted => \E s \in secrets' : s.owner = i.uid
  BY <1>1, AdoptedHaveSecrets
<1>4. \A c, n : Adopted(c, n) => Adopted(c, n)'
  BY <1>2 DEF Kept, Adopted
<1>5. \A u : Owned(u) => \E i \in imports' : i.uid = u
  BY <1>2 DEF Kept, Owned
<1>6. \A s \in secrets' : Owned(s.owner)'
  <2>1. ASSUME NEW r \in Runs, createServiceAccountImportToken(r)
        PROVE  \A s \in secrets' :
                  s \in secrets \/ (pc[r] = "secret" /\ s.owner = local[r].uid)
    <3>1. PICK s : /\ s.owner = local[r].uid
                   /\ secrets' = secrets \union {s}
      BY <2>1 DEF createServiceAccountImportToken
    <3>. QED  BY <2>1, <3>1 DEF createServiceAccountImportToken
  <2>2. \A s \in secrets' :
            \/ s \in secrets
            \/ \E r \in Runs : pc[r] = "secret" /\ s.owner = local[r].uid
    BY <2>1, SecretKinds DEF Collect
  <2>3. /\ \A s \in secrets : Owned(s.owner)
        /\ \A r \in Runs : pc[r] = "secret" => Owned(local[r].uid)
    BY <1>1 DEF AdoptedInv
  <2>4. \A s \in secrets' : Owned(s.owner)
    BY <2>2, <2>3, Zenon
  <2>. QED  BY <1>5, <2>4 DEF Owned
<1>7. ASSUME NEW r \in Runs
      PROVE  /\ pc'[r] = "secret" => Owned(local[r].uid)'
             /\ pc'[r] \in {"deployment", "annotate"} => Adopted(To[r], SourceName[r])'
  BY <1>1, <1>2, <1>4, <1>5 DEF AdoptedInv, RunsReach, Annotating, Owned
<1>8. ASSUME NEW c \in Clusters, NEW n \in ToSet(template'[c].imports)
      PROVE  Adopted(c, n)'
  <2>1. CASE n \in ToSet(template[c].imports)
    BY <1>1, <1>4, <2>1 DEF AdoptedInv
  <2>2. ASSUME NEW r \in Runs, Appends(r), n \notin ToSet(template[c].imports)
        PROVE  Adopted(c, n)'
    <3>1. /\ pc[r] = "annotate" /\ To[r] \in Clusters /\ SourceName[r] \in Names
          /\ template \in [Clusters -> Template]
          /\ template[To[r]].imports \in Seq(Names)
          /\ local[r].read.imports = template[To[r]].imports
      BY <2>2, RunsAssumption DEF Appends, ListInv, ReadsAreOld, TypeOK,
                                  TargetObjectsTypeOK, Template
    <3>2. template'[To[r]].imports = Append(template[To[r]].imports, SourceName[r])
      BY <2>2, <3>1 DEF Appends, Annotated
    <3>3. ToSet(template'[To[r]].imports)
              = ToSet(template[To[r]].imports) \union {SourceName[r]}
      BY <3>1, <3>2, AppendToSet
    <3>4. c = To[r]
      BY <1>8, <2>2, <3>1 DEF Appends
    <3>5. n = SourceName[r]
      BY <1>8, <2>2, <3>3, <3>4
    <3>. QED  BY <1>1, <1>4, <3>1, <3>4, <3>5 DEF AdoptedInv
  <2>3. OnlyVersions => n \in ToSet(template[c].imports)
    BY <1>8 DEF OnlyVersions
  <2>. QED  BY <2>1, <2>2, <2>3, StepKinds DEF ListInv
<1>. QED  BY <1>3, <1>6, <1>7, <1>8 DEF AdoptedInv

UsableInv == TokenInv /\ ListInv /\ AdoptedInv

(* Until a user deletes something, every import that a bootstrap has added *)
(* to the deployment's annotation can be mounted and gives access: it has  *)
(* been adopted, and owns a secret with a token of an account that is      *)
(* bound to the role, whatever several bootstraps did at once, however     *)
(* they failed and however often they were repeated.                       *)
THEOREM AnnouncedUsableHolds == Spec => []AnnouncedUsable
<1>1. Init => UsableInv
  <2>1. Init => AdoptedInv
    BY EmptyToSet DEF Init, AdoptedInv
  <2>. QED  BY <2>1, TokenInvInit, ListInvInit DEF UsableInv
<1>2. UsableInv /\ [Next]_vars => UsableInv'
  BY TokenInvStep, ListInvStep, AdoptedInvStep DEF UsableInv
<1>3. UsableInv => AnnouncedUsable
  <2>. SUFFICES ASSUME TokenInv, AdoptedInv, edits = 0, NEW c \in Clusters,
                       NEW n \in ToSet(template[c].imports)
                PROVE  \E i \in imports, s \in secrets :
                          /\ i.cluster = c /\ i.name = n
                          /\ i.adopted
                          /\ s.owner = i.uid
                          /\ s.data.account \in bindings
                          /\ s.data.account[1] \in roles
    BY DEF UsableInv, AnnouncedUsable
  <2>1. PICK i \in imports : i.cluster = c /\ i.name = n /\ i.adopted
    BY DEF AdoptedInv, Adopted
  <2>2. PICK s \in secrets : s.owner = i.uid
    BY <2>1 DEF AdoptedInv
  <2>3. Bound(s.data.account)
    BY DEF TokenInv, SecretsSound, SecretSound
  <2>. QED  BY <2>1, <2>2, <2>3 DEF Bound
<1>. QED  BY <1>1, <1>2, <1>3, PTL DEF Spec
=============================================================================
