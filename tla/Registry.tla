------------------------------ MODULE Registry -------------------------------
(***************************************************************************)
(* The rows of an account that its requests look up by name: SSH keys      *)
(* (keys/manager.py, keys/views.py), access keys (identity/views.py,       *)
(* createuseraccess) and the service account (identity/manager.py).  No    *)
(* request is a transaction and no name is a constraint of the database:   *)
(* every lookup and every save is a step.                                  *)
(***************************************************************************)
EXTENDS FiniteSets

CONSTANTS Names, Fingerprints,  \* of SSH keys
          KeyIds, AccessKeys, ServiceIds,  \* generated ids: a bound on new rows
          ApiWorkers, CeleryWorkers, Shells,
          CrashingProcs,        \* processes that may be killed
          None

Procs == ApiWorkers \cup CeleryWorkers \cup Shells

ASSUME NoneAssumption == None \notin Names \cup KeyIds \cup AccessKeys

VARIABLES keys,        \* UserKey rows: [id, name, fingerprint]
          access,      \* the User row of each access key
          services,    \* User rows of type SERVICE
          used,        \* ids that have been generated
          pc, arg,     \* what each process does, with what it has looked up
          beaten,      \* history: requests another one got ahead of
          crossed,     \* history: rows saved by such requests
          removed,     \* history: access keys whose deletion was answered
          revoked      \* history: access keys that were last switched off

rows    == <<keys, access, services, used>>
history == <<beaten, crossed, removed, revoked>>
vars    == <<rows, pc, arg, history>>

Key == [id : KeyIds, name : Names, fingerprint : Fingerprints]
NoKey == [id |-> None, name |-> None, fingerprint |-> None]
NewKey == [id : {None}, name : Names, fingerprint : Fingerprints]
Ids == KeyIds \cup AccessKeys \cup ServiceIds

StoreLabels  == {"fingerprint", "save"}
AccessLabels == {"enable", "disable", "remove"}
Args == [none |-> {NoKey}, fingerprint |-> NewKey, save |-> NewKey, delete |-> Key,
         enable |-> AccessKeys, disable |-> AccessKeys, remove |-> AccessKeys,
         service |-> {NoKey}]

(* Every variable keeps to its values: a process has looked up what its next
   step needs, and rows have generated ids, each its own. *)
TypeOK ==
  /\ keys \subseteq Key
  /\ \A j, k \in keys : j.id = k.id => j = k
  /\ access \in [AccessKeys -> {"none", "active", "inactive"}]
  /\ services \subseteq ServiceIds
  /\ used \subseteq Ids
  /\ {k.id : k \in keys} \cup services \cup {a \in AccessKeys : access[a] # "none"} \subseteq used
  /\ pc \in [Procs -> DOMAIN Args]
  /\ \A p \in Procs : arg[p] \in Args[pc[p]]
  /\ beaten \subseteq Procs /\ crossed \subseteq Ids
  /\ removed \subseteq AccessKeys /\ revoked \subseteq AccessKeys

Init ==
  /\ keys = {} /\ services = {} /\ used = {}
  /\ access = [a \in AccessKeys |-> "none"]
  /\ pc = [p \in Procs |-> "none"]
  /\ arg = [p \in Procs |-> NoKey]
  /\ beaten = {} /\ crossed = {} /\ removed = {} /\ revoked = {}

-----------------------------------------------------------------------------
(* Control *)

Idle(p) == pc[p] = "none"

Goto(p, l, x) == /\ pc' = [pc EXCEPT ![p] = l]
                 /\ arg' = [arg EXCEPT ![p] = x]

Return(p) == Goto(p, "none", NoKey)

Unused(id) == id \notin used              \* IdGenerator never repeats itself
New(id) == Unused(id) /\ used' = used \cup {id}

(* p saves a row with this id; "rivals" have checked for such a row before. *)
Outrun(p, id, rivals) ==
  /\ beaten' = (beaten \ {p}) \cup (rivals \ {p})
  /\ crossed' = IF p \in beaten THEN crossed \cup {id} ELSE crossed

-----------------------------------------------------------------------------
(* UserKeyManager.store_key, of an imported key or of one just generated *)

Same(j, k) == j.name = k.name \/ j.fingerprint = k.fingerprint

(* The name is not looked for. *)
CheckName_Skipped(p, n, f) ==
  /\ p \in ApiWorkers /\ Idle(p)
  /\ Goto(p, "fingerprint", [id |-> None, name |-> n, fingerprint |-> f])
  /\ UNCHANGED <<rows, history>>

CheckName(p, n, f) ==
  /\ p \in ApiWorkers /\ Idle(p)
  /\ \A k \in keys : k.name # n
  /\ Goto(p, "fingerprint", [id |-> None, name |-> n, fingerprint |-> f])
  /\ UNCHANGED <<rows, history>>

(* CreateKeys: an import brings the client's public key, which may be known;
   generate_sshkey makes one that nobody has. *)
ImportKey(p, n) == \E f \in Fingerprints : CheckName(p, n, f)

GenerateKey(p, n) == \E f \in Fingerprints :
  /\ \A k \in keys : k.fingerprint # f
  /\ \A q \in Procs : pc[q] \in StoreLabels => arg[q].fingerprint # f
  /\ CheckName(p, n, f)

CheckFingerprint(p) ==
  /\ pc[p] = "fingerprint"
  /\ IF \E k \in keys : k.fingerprint = arg[p].fingerprint
     THEN Return(p) /\ beaten' = beaten \ {p}
     ELSE Goto(p, "save", arg[p]) /\ UNCHANGED beaten
  /\ UNCHANGED <<rows, crossed, removed, revoked>>

(* generate_id is forgotten. *)
SaveKey_WithoutId(p) ==
  /\ pc[p] = "save"
  /\ keys' = keys \cup {arg[p]}
  /\ Return(p)
  /\ UNCHANGED <<access, services, used, history>>

SaveKey(p) ==
  /\ pc[p] = "save"
  /\ \E i \in KeyIds :
       /\ New(i)
       /\ keys' = keys \cup {[arg[p] EXCEPT !.id = i]}
       /\ Outrun(p, i, {q \in Procs : pc[q] \in StoreLabels /\ Same(arg[q], arg[p])})
  /\ Return(p)
  /\ UNCHANGED <<access, services, removed, revoked>>

(* DeleteKeys: get() raises when two rows have the name, and 500 is answered. *)
FindKey(p, n) ==
  /\ p \in ApiWorkers /\ Idle(p)
  /\ \E k \in keys : /\ \A j \in keys : j.name = n <=> j = k
                     /\ Goto(p, "delete", k)
  /\ UNCHANGED <<rows, history>>

DeleteKey(p) ==
  /\ pc[p] = "delete"
  /\ keys' = keys \ {arg[p]}
  /\ Return(p)
  /\ UNCHANGED <<access, services, used, history>>

-----------------------------------------------------------------------------
(* Access keys *)

(* user_authentication_rule, for the user of an access key *)
MayLogIn(a) == access[a] = "active"

(* One INSERT, of an active user. *)
InsertAccessKey(a) ==
  /\ New(a)
  /\ access' = [access EXCEPT ![a] = "active"]
  /\ UNCHANGED <<keys, services, pc, arg, history>>

CreateAccessKey(p, a) == p \in ApiWorkers /\ Idle(p) /\ InsertAccessKey(a)

(* The command createuseraccess *)
CreateUserAccess(p, a) == p \in Shells /\ Idle(p) /\ InsertAccessKey(a)

(* ModifyUser: the row is read first, and written or deleted in a later step.
   History: who asks to enable a key no longer counts on its being off. *)
FindAccessKey(p, a, l) ==
  /\ p \in ApiWorkers /\ Idle(p)
  /\ access[a] # "none"
  /\ Goto(p, l, a)
  /\ revoked' = IF l = "enable" THEN revoked \ {a} ELSE revoked
  /\ UNCHANGED <<rows, beaten, crossed, removed>>

Enabling(a) == \E q \in Procs : pc[q] = "enable" /\ arg[q] = a
Revoked(a) == revoked' = IF Enabling(a) THEN revoked ELSE revoked \cup {a}

(* The row that was read is saved, with the state it had. *)
SaveAccessKey_Unchanged(p) ==
  /\ pc[p] \in {"enable", "disable"}
  /\ UNCHANGED access
  /\ crossed' = IF access[arg[p]] = "none" THEN crossed \cup {arg[p]} ELSE crossed
  /\ IF pc[p] = "disable" THEN Revoked(arg[p]) ELSE UNCHANGED revoked
  /\ Return(p)
  /\ UNCHANGED <<keys, services, used, beaten, removed>>

(* save(): a row that was deleted meanwhile is inserted again. *)
SaveAccessKey(p) ==
  LET a == arg[p] IN
  /\ pc[p] \in {"enable", "disable"}
  /\ access' = [access EXCEPT ![a] = IF pc[p] = "enable" THEN "active" ELSE "inactive"]
  /\ crossed' = IF access[a] = "none" THEN crossed \cup {a} ELSE crossed
  /\ IF pc[p] = "disable" THEN Revoked(a) ELSE UNCHANGED revoked
  /\ Return(p)
  /\ UNCHANGED <<keys, services, used, beaten, removed>>

(* The key is switched off for good instead of deleted. *)
DeleteAccessKey_Disabled(p) ==
  /\ pc[p] = "remove"
  /\ access' = [access EXCEPT ![arg[p]] = "inactive"]
  /\ removed' = removed \cup {arg[p]}
  /\ Revoked(arg[p])
  /\ Return(p)
  /\ UNCHANGED <<keys, services, used, beaten, crossed>>

DeleteAccessKey(p) ==
  LET a == arg[p] IN
  /\ pc[p] = "remove"
  /\ access' = [access EXCEPT ![a] = "none"]
  /\ removed' = removed \cup {a}
  /\ Revoked(a)
  /\ Return(p)
  /\ UNCHANGED <<keys, services, used, beaten, crossed>>

-----------------------------------------------------------------------------
(* ServiceAccount.create_or_get, for the token of the guests of a cluster or of
   an image: by a task, a view or the command createkubeimage *)

(* It is created whether there is one or not. *)
FindService_Always(p) ==
  /\ Idle(p)
  /\ Goto(p, "service", NoKey)
  /\ UNCHANGED <<rows, history>>

FindService(p) ==
  /\ Idle(p)
  /\ services = {}
  /\ Goto(p, "service", NoKey)
  /\ UNCHANGED <<rows, history>>

CreateService(p) ==
  /\ pc[p] = "service"
  /\ \E s \in ServiceIds : /\ New(s)
                           /\ services' = services \cup {s}
                           /\ Outrun(p, s, {q \in Procs : pc[q] = "service"})
  /\ Return(p)
  /\ UNCHANGED <<keys, access, removed, revoked>>

-----------------------------------------------------------------------------
Crash(p) ==
  /\ p \in CrashingProcs /\ ~Idle(p)
  /\ Return(p)
  /\ beaten' = beaten \ {p}
  /\ UNCHANGED <<rows, crossed, removed, revoked>>

Request(p) ==
  \/ \E n \in Names : ImportKey(p, n) \/ GenerateKey(p, n) \/ FindKey(p, n)
  \/ \E a \in AccessKeys : \/ CreateAccessKey(p, a) \/ CreateUserAccess(p, a)
                           \/ \E l \in AccessLabels : FindAccessKey(p, a, l)
  \/ FindService(p)

Run(p) == \/ CheckFingerprint(p) \/ SaveKey(p) \/ DeleteKey(p)
          \/ SaveAccessKey(p) \/ DeleteAccessKey(p)
          \/ CreateService(p)

Step(p) == Request(p) \/ Run(p) \/ Crash(p)

Next == \E p \in Procs : Step(p)

Spec == Init /\ [][Next]_vars

-----------------------------------------------------------------------------
(* Properties *)

(* Two keys of an account have the same name or the same fingerprint only if
   one was saved by a request that another got ahead of after its check; both
   names are then lost to launches and to DeleteKeys, where get() raises. *)
KeysAreUnique ==
  \A j, k \in keys : Same(j, k) => j = k \/ {j.id, k.id} \cap crossed # {}

(* Likewise an account has one service account. *)
OneServiceAccount == \A s, t \in services : s = t \/ {s, t} \cap crossed # {}

(* Once the request that switched an access key off or deleted it has been
   answered the key does not log in, whatever other requests on it were under
   way, until somebody asks to enable it. *)
RevokedIsRefused == \A a \in revoked : ~MayLogIn(a)

(* A deleted access key has no row again, unless a change of its status was
   under way: its save inserts the row. *)
RemovedIsGone == \A a \in removed \ crossed : access[a] = "none"
=============================================================================
