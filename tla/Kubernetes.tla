----------------------------- MODULE Kubernetes -----------------------------
(***************************************************************************)
(* The target cluster as the repository's programs see it: an API server   *)
(* that stores ServiceAccountImports and Secrets under optimistic locking, *)
(* the two watch streams it feeds, and the garbage collector.  None of     *)
(* this is code of the repository: it is the part of Kubernetes that       *)
(* pkg/importer relies on, written down from the way it is called there.   *)
(*                                                                         *)
(* One namespace is modelled.  Both the label of an imported secret and    *)
(* its controller reference name the import it was made for, so a single   *)
(* field "import" stands for the two of them.                              *)
(***************************************************************************)
EXTENDS Tokens, Naturals, Sequences, FiniteSets

CONSTANTS
    Imports,     \* names of the ServiceAccountImports
    MaxSecrets   \* the namespace's quota of imported secrets

ASSUME QuotaAssumption == MaxSecrets \in Nat

VARIABLES
    created,       \* how many objects were ever created
    sais,          \* the stored ServiceAccountImports
    secrets,       \* the stored Secrets that carry an import's label
    saiEvents,     \* watch events on imports the controller has not handled
    secretEvents,  \* watch events on secrets the controller has not handled
    requested      \* history: the accounts users ever asked for under a name

storeVars == <<created, sais, secrets, saiEvents, secretEvents, requested>>

-----------------------------------------------------------------------------
(* Objects and events.                                                     *)

(* "uid" is the creation that made the object, "rv" the resourceVersion of *)
(* this copy of it, counted per object; "spec" is the account to import    *)
(* and "secrets" the names in Status.Secrets.                              *)
ServiceAccountImport ==
    [name : Imports, uid : Nat, rv : Nat, spec : Accounts, secrets : Seq(Nat)]

(* An API object that does not exist yet has the empty UID.                *)
NoUID == 0

(* "name" is the generated name, no other secret ever has it; "owner" is   *)
(* the uid in the controller reference, "remoteUID" the label              *)
(* multicluster.admiralty.io/remote-secret.uid, and "data" the remote      *)
(* token from which all five data keys were derived.                       *)
Secret ==
    [name : Nat, rv : Nat, import : Imports, owner : Nat, remoteUID : Nat,
     data : Token]

Event(Object) == [type : {"put", "delete"}, obj : Object]

Put(S, o) == {p \in S : p.name # o.name} \union {o}
Drop(S, n) == {p \in S : p.name # n}

(* What an informer does to its cache with one event.                      *)
Apply(S, e) == IF e.type = "put" THEN Put(S, e.obj) ELSE Drop(S, e.obj.name)

StoreTypeOK ==
    /\ created \in Nat
    /\ sais \subseteq ServiceAccountImport
    /\ secrets \subseteq Secret
    /\ IsFiniteSet(secrets)
    /\ saiEvents \in Seq(Event(ServiceAccountImport))
    /\ secretEvents \in Seq(Event(Secret))
    /\ requested \in [Imports -> SUBSET Accounts]

StoreInit ==
    /\ created = 0
    /\ sais = {}
    /\ secrets = {}
    /\ saiEvents = <<>>
    /\ secretEvents = <<>>
    /\ requested = [i \in Imports |-> {}]

-----------------------------------------------------------------------------
(* Writes.  Each one sends one watch event.                                *)

(* What the server stores and answers: the object in its next version.     *)
Stored(o) == [o EXCEPT !.rv = @ + 1]

StoreImport(o) ==
    /\ sais' = Put(sais, Stored(o))
    /\ saiEvents' = Append(saiEvents, [type |-> "put", obj |-> Stored(o)])
    /\ UNCHANGED <<secrets, secretEvents>>

StoreSecret(s) ==
    /\ secrets' = Put(secrets, Stored(s))
    /\ secretEvents' = Append(secretEvents, [type |-> "put", obj |-> Stored(s)])
    /\ UNCHANGED <<sais, saiEvents, requested>>

RemoveSecret(n) ==
    /\ secrets' = Drop(secrets, n)
    /\ \E s \in secrets :
          /\ s.name = n
          /\ secretEvents' = Append(secretEvents, [type |-> "delete", obj |-> s])
    /\ UNCHANGED <<created, sais, saiEvents, requested>>

(* An update is refused with a conflict unless it carries the stored       *)
(* object's resourceVersion, and with NotFound when there is none.         *)
ImportIsCurrent(o) == \E p \in sais : p.uid = o.uid /\ p.rv = o.rv
SecretIsCurrent(s) == \E p \in secrets : p.name = s.name /\ p.rv = s.rv

(* An admission plug-in refuses to create a secret above the quota.        *)
UnderQuota == Cardinality(secrets) < MaxSecrets

-----------------------------------------------------------------------------
(* What users and the garbage collector do.                                *)

CreateImport(i, a) ==
    /\ \A o \in sais : o.name # i
    /\ created' = created + 1
    /\ StoreImport([name |-> i, uid |-> created + 1, rv |-> 0, spec |-> a,
                    secrets |-> <<>>])
    /\ requested' = [requested EXCEPT ![i] = @ \union {a}]

EditSpec(o, a) ==
    /\ o.spec # a
    /\ StoreImport([o EXCEPT !.spec = a])
    /\ UNCHANGED created
    /\ requested' = [requested EXCEPT ![o.name] = @ \union {a}]

DeleteImport(o) ==
    /\ sais' = sais \ {o}
    /\ saiEvents' = Append(saiEvents, [type |-> "delete", obj |-> o])
    /\ UNCHANGED <<created, secrets, secretEvents, requested>>

DeleteSecretByHand(s) == RemoveSecret(s.name)

(* The collector deletes a secret whose owner no longer exists, even when  *)
(* an import of the same name has been created since.                      *)
CollectGarbage(s) ==
    /\ s.owner # NoUID
    /\ \A o \in sais : o.uid # s.owner
    /\ RemoveSecret(s.name)
=============================================================================
