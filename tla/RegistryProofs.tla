--------------------------- MODULE RegistryProofs ----------------------------
(***************************************************************************)
(* Theorems about Registry, for any names, ids, workers and crashes, and   *)
(* about the launches that run beside it.  TypeOK is inductive together    *)
(* with Held; the other invariants need what a request that has looked     *)
(* something up may still count on.                                        *)
(***************************************************************************)
EXTENDS LaunchRequest, TLAPS

(* A request on an access key has found its row, so the id is in use; and so
   it was of every key that was ever switched off or deleted. *)
Held == /\ DOMAIN arg = Procs
        /\ \A p \in Procs : pc[p] \in AccessLabels => arg[p] \in used
        /\ revoked \subseteq used /\ removed \subseteq used

(* What a request has checked for still holds if nobody got ahead of it. *)
Checked ==
  \A p \in Procs \ beaten :
    /\ pc[p] \in StoreLabels => \A k \in keys : k.name # arg[p].name
    /\ pc[p] = "save" => \A k \in keys : k.fingerprint # arg[p].fingerprint
    /\ pc[p] = "service" => services = {}

(* Nobody counts on a key being off while it is being enabled. *)
NotEnabling == \A p \in Procs : pc[p] = "enable" => arg[p] \notin revoked

IInv == /\ TypeOK /\ Held /\ Checked /\ NotEnabling
        /\ KeysAreUnique /\ OneServiceAccount /\ RevokedIsRefused /\ RemovedIsGone

-----------------------------------------------------------------------------
(* The actions, with what they take from the requests that start them. *)
LEMMA StepCases ==
  ASSUME Next
  PROVE  \E p \in Procs :
           \/ \E n \in Names, f \in Fingerprints : CheckName(p, n, f)
           \/ \E n \in Names : FindKey(p, n)
           \/ \E a \in AccessKeys : InsertAccessKey(a)
           \/ \E a \in AccessKeys, l \in AccessLabels : FindAccessKey(p, a, l)
           \/ FindService(p)
           \/ CheckFingerprint(p) \/ SaveKey(p) \/ DeleteKey(p)
           \/ SaveAccessKey(p) \/ DeleteAccessKey(p) \/ CreateService(p)
           \/ Crash(p)
<1>1. PICK p \in Procs : Step(p)
  BY DEF Next
<1>2. CASE \E n \in Names : ImportKey(p, n) \/ GenerateKey(p, n)
  BY <1>2 DEF ImportKey, GenerateKey
<1>3. CASE \E a \in AccessKeys : CreateAccessKey(p, a) \/ CreateUserAccess(p, a)
  BY <1>3 DEF CreateAccessKey, CreateUserAccess
<1>4. CASE \E n \in Names : FindKey(p, n)
  BY <1>4
<1>5. CASE \E a \in AccessKeys, l \in AccessLabels : FindAccessKey(p, a, l)
  BY <1>5
<1>6. CASE FindService(p) \/ Run(p) \/ Crash(p)
  BY <1>6 DEF Run
<1> QED BY <1>1, <1>2, <1>3, <1>4, <1>5, <1>6, Zenon DEF Step, Request

(* What a request that has looked something up holds. *)
LEMMA ArgTypes ==
  ASSUME TypeOK, NEW p \in Procs
  PROVE  /\ pc[p] \in StoreLabels => arg[p] \in NewKey
         /\ pc[p] = "delete" => arg[p] \in Key
         /\ pc[p] \in AccessLabels => arg[p] \in AccessKeys
<1>1. arg[p] \in Args[pc[p]]
  BY DEF TypeOK
<1> QED BY <1>1 DEF Args, StoreLabels, AccessLabels

LEMMA GotoArgs ==
  ASSUME TypeOK, Held, NEW p \in Procs, NEW l \in DOMAIN Args, NEW x \in Args[l],
         Goto(p, l, x)
  PROVE  /\ pc' \in [Procs -> DOMAIN Args]
         /\ \A q \in Procs : arg'[q] \in Args[pc'[q]]
         /\ DOMAIN arg' = Procs
         /\ pc'[p] = l /\ arg'[p] = x
         /\ \A q \in Procs \ {p} : pc'[q] = pc[q] /\ arg'[q] = arg[q]
<1>1. /\ pc \in [Procs -> DOMAIN Args]
      /\ \A q \in Procs : arg[q] \in Args[pc[q]]
      /\ DOMAIN arg = Procs
  BY DEF TypeOK, Held
<1>2. /\ pc' \in [Procs -> DOMAIN Args]
      /\ DOMAIN arg' = Procs
      /\ pc'[p] = l /\ arg'[p] = x
      /\ \A q \in Procs \ {p} : pc'[q] = pc[q] /\ arg'[q] = arg[q]
  BY <1>1 DEF Goto
<1>3. ASSUME NEW q \in Procs PROVE arg'[q] \in Args[pc'[q]]
  <2>1. CASE q = p
    BY <1>2, <2>1
  <2>2. CASE q # p
    BY <1>1, <1>2, <2>2
  <2> QED BY <2>1, <2>2
<1> QED BY <1>2, <1>3

LEMMA ReturnArgs ==
  ASSUME TypeOK, Held, NEW p \in Procs, Return(p)
  PROVE  /\ pc' \in [Procs -> DOMAIN Args]
         /\ \A q \in Procs : arg'[q] \in Args[pc'[q]]
         /\ DOMAIN arg' = Procs
         /\ pc'[p] = "none"
         /\ \A q \in Procs \ {p} : pc'[q] = pc[q] /\ arg'[q] = arg[q]
<1>1. "none" \in DOMAIN Args /\ NoKey \in Args["none"]
  BY DEF Args
<1> QED BY <1>1, GotoArgs DEF Return

(* TypeOK and Held are preserved together. *)
LEMMA TypeStep ==
  ASSUME TypeOK, Held, [Next]_vars
  PROVE  TypeOK' /\ Held'
<1> USE DEF rows, history
<1>1. CASE UNCHANGED vars
  BY <1>1 DEF vars, TypeOK, Held
<1>2. CASE Next
  <2>1. PICK p \in Procs :
           \/ \E n \in Names, f \in Fingerprints : CheckName(p, n, f)
           \/ \E n \in Names : FindKey(p, n)
           \/ \E a \in AccessKeys : InsertAccessKey(a)
           \/ \E a \in AccessKeys, l \in AccessLabels : FindAccessKey(p, a, l)
           \/ FindService(p)
           \/ CheckFingerprint(p) \/ SaveKey(p) \/ DeleteKey(p)
           \/ SaveAccessKey(p) \/ DeleteAccessKey(p) \/ CreateService(p)
           \/ Crash(p)
    BY <1>2, StepCases, Zenon
  <2>2. CASE \E n \in Names, f \in Fingerprints : CheckName(p, n, f)
    <3>1. PICK n \in Names, f \in Fingerprints : CheckName(p, n, f)
      BY <2>2
    <3> DEFINE x == [id |-> None, name |-> n, fingerprint |-> f]
    <3>2. "fingerprint" \in DOMAIN Args /\ x \in Args["fingerprint"]
      BY DEF Args, NewKey
    <3>3. Goto(p, "fingerprint", x) /\ UNCHANGED <<rows, history>>
      BY <3>1 DEF CheckName
    <3> QED BY <3>2, <3>3, GotoArgs DEF TypeOK, Held, AccessLabels
  <2>3. CASE \E n \in Names : FindKey(p, n)
    <3>1. PICK k \in keys : Goto(p, "delete", k) /\ UNCHANGED <<rows, history>>
      BY <2>3 DEF FindKey
    <3>2. "delete" \in DOMAIN Args /\ k \in Args["delete"]
      BY DEF Args, TypeOK
    <3> QED BY <3>1, <3>2, GotoArgs DEF TypeOK, Held, AccessLabels
  <2>4. CASE \E a \in AccessKeys : InsertAccessKey(a)
    <3>1. PICK a \in AccessKeys : InsertAccessKey(a)
      BY <2>4
    <3>2. /\ access' = [access EXCEPT ![a] = "active"] /\ used' = used \cup {a}
          /\ UNCHANGED <<keys, services, pc, arg, history>>
      BY <3>1 DEF InsertAccessKey, New
    <3>3. access' \in [AccessKeys -> {"none", "active", "inactive"}]
          /\ \A b \in AccessKeys : access'[b] # "none" => b \in used'
      BY <3>2 DEF TypeOK
    <3>4. Held'
      BY <3>2 DEF Held
    <3> QED BY <3>2, <3>3, <3>4 DEF TypeOK, Ids
  <2>5. CASE \E a \in AccessKeys, l \in AccessLabels : FindAccessKey(p, a, l)
    <3>1. PICK a \in AccessKeys, l \in AccessLabels : FindAccessKey(p, a, l)
      BY <2>5
    <3>2. l \in DOMAIN Args /\ a \in Args[l]
      BY DEF Args, AccessLabels
    <3>3. /\ Goto(p, l, a) /\ revoked' \subseteq revoked /\ access[a] # "none"
          /\ UNCHANGED <<rows, beaten, crossed, removed>>
      BY <3>1 DEF FindAccessKey
    <3>4. a \in used
      BY <3>3 DEF TypeOK
    <3> QED BY <3>2, <3>3, <3>4, GotoArgs DEF TypeOK, Held
  <2>6. CASE FindService(p)
    <3>1. "service" \in DOMAIN Args /\ NoKey \in Args["service"]
      BY DEF Args
    <3>2. Goto(p, "service", NoKey) /\ UNCHANGED <<rows, history>>
      BY <2>6 DEF FindService
    <3> QED BY <3>1, <3>2, GotoArgs DEF TypeOK, Held, AccessLabels
  <2>7. CASE CheckFingerprint(p)
    <3>1. /\ beaten' \subseteq beaten /\ UNCHANGED <<rows, crossed, removed, revoked>>
          /\ Return(p) \/ Goto(p, "save", arg[p])
      BY <2>7 DEF CheckFingerprint
    <3>2. CASE Return(p)
      BY <3>1, <3>2, ReturnArgs DEF TypeOK, Held, AccessLabels
    <3>3. CASE Goto(p, "save", arg[p])
      <4>1. "save" \in DOMAIN Args /\ arg[p] \in Args["save"]
        BY <2>7, ArgTypes DEF CheckFingerprint, StoreLabels, Args
      <4> QED BY <3>1, <3>3, <4>1, GotoArgs DEF TypeOK, Held, AccessLabels
    <3> QED BY <3>1, <3>2, <3>3
  <2>8. CASE SaveKey(p)
    <3>1. PICK i \in KeyIds : New(i) /\ keys' = keys \cup {[arg[p] EXCEPT !.id = i]}
                              /\ crossed' \subseteq crossed \cup {i} /\ beaten' \subseteq Procs
      BY <2>8 DEF SaveKey, Outrun, TypeOK
    <3>2. Return(p) /\ UNCHANGED <<access, services, removed, revoked>>
      BY <2>8 DEF SaveKey
    <3>3. i \notin used /\ used' = used \cup {i}
      BY <3>1 DEF New, Unused
    <3> DEFINE k == [arg[p] EXCEPT !.id = i]
    <3>4. k \in Key /\ k.id = i
      BY <2>8, ArgTypes DEF SaveKey, StoreLabels, NewKey, Key
    <3>5. /\ keys \subseteq Key /\ keys' = keys \cup {k}
          /\ \A j, m \in keys : j.id = m.id => j = m
          /\ \A m \in keys : m.id \in used
      BY <3>1 DEF TypeOK
    <3> HIDE DEF k
    <3>7. \A j, m \in keys' : j.id = m.id => j = m
      BY <3>3, <3>4, <3>5
    <3>8. keys' \subseteq Key /\ {m.id : m \in keys'} \subseteq used'
      BY <3>3, <3>4, <3>5
    <3>6. Held'
      BY <3>2, <3>3, ReturnArgs DEF Held, AccessLabels
    <3> QED BY <3>1, <3>2, <3>3, <3>6, <3>7, <3>8, ReturnArgs DEF TypeOK, Ids
  <2>9. CASE DeleteKey(p)
    <3>1. Return(p) /\ keys' \subseteq keys /\ UNCHANGED <<access, services, used, history>>
      BY <2>9 DEF DeleteKey
    <3> QED BY <3>1, ReturnArgs DEF TypeOK, Held, AccessLabels
  <2>10. CASE SaveAccessKey(p) \/ DeleteAccessKey(p)
    <3>1. PICK s \in {"none", "active", "inactive"} : access' = [access EXCEPT ![arg[p]] = s]
      BY <2>10 DEF SaveAccessKey, DeleteAccessKey
    <3>2. arg[p] \in AccessKeys /\ arg[p] \in used
      BY <2>10, ArgTypes DEF SaveAccessKey, DeleteAccessKey, AccessLabels, Held
    <3>3. /\ Return(p) /\ UNCHANGED <<keys, services, used, beaten>>
          /\ crossed' \subseteq crossed \cup {arg[p]}
          /\ removed' \subseteq removed \cup {arg[p]}
          /\ revoked' \subseteq revoked \cup {arg[p]}
      BY <2>10 DEF SaveAccessKey, DeleteAccessKey, Revoked
    <3>4. /\ access' \in [AccessKeys -> {"none", "active", "inactive"}]
          /\ \A b \in AccessKeys : access'[b] # "none" => b \in used
      BY <3>1, <3>2 DEF TypeOK
    <3>5. Held'
      BY <3>2, <3>3, ReturnArgs DEF Held, AccessLabels
    <3> QED BY <3>2, <3>3, <3>4, <3>5, ReturnArgs DEF TypeOK, Ids
  <2>11. CASE CreateService(p)
    <3>1. PICK s \in ServiceIds : New(s) /\ services' = services \cup {s}
                                /\ crossed' \subseteq crossed \cup {s} /\ beaten' \subseteq Procs
      BY <2>11 DEF CreateService, Outrun, TypeOK
    <3>2. /\ Return(p) /\ UNCHANGED <<keys, access, removed, revoked>>
          /\ used' = used \cup {s}
      BY <2>11, <3>1 DEF CreateService, New
    <3>3. Held'
      BY <3>2, ReturnArgs DEF Held, AccessLabels
    <3> QED BY <3>1, <3>2, <3>3, ReturnArgs DEF TypeOK, Ids
  <2>12. CASE Crash(p)
    <3>1. Return(p) /\ beaten' \subseteq beaten /\ UNCHANGED <<rows, crossed, removed, revoked>>
      BY <2>12 DEF Crash
    <3> QED BY <3>1, ReturnArgs DEF TypeOK, Held, AccessLabels
  <2> QED BY <2>1, <2>2, <2>3, <2>4, <2>5, <2>6, <2>7, <2>8, <2>9, <2>10, <2>11, <2>12, Zenon
<1> QED BY <1>1, <1>2

(* The names and fingerprints of keys, and the service account: a request that
   nobody got ahead of saves what its check has found to be free. *)
LEMMA UniqueStep ==
  ASSUME TypeOK, Held, Checked, KeysAreUnique, OneServiceAccount, [Next]_vars
  PROVE  Checked' /\ KeysAreUnique' /\ OneServiceAccount'
<1> USE DEF rows, history
<1>1. CASE UNCHANGED vars
  BY <1>1 DEF vars, Checked, KeysAreUnique, OneServiceAccount, Same, StoreLabels
<1>2. CASE Next
  <2>1. PICK p \in Procs :
           \/ \E n \in Names, f \in Fingerprints : CheckName(p, n, f)
           \/ \E n \in Names : FindKey(p, n)
           \/ \E a \in AccessKeys : InsertAccessKey(a)
           \/ \E a \in AccessKeys, l \in AccessLabels : FindAccessKey(p, a, l)
           \/ FindService(p)
           \/ CheckFingerprint(p) \/ SaveKey(p) \/ DeleteKey(p)
           \/ SaveAccessKey(p) \/ DeleteAccessKey(p) \/ CreateService(p)
           \/ Crash(p)
    BY <1>2, StepCases, Zenon
  <2>2. CASE \E n \in Names, f \in Fingerprints : CheckName(p, n, f)
    <3>1. PICK n \in Names, f \in Fingerprints : CheckName(p, n, f)
      BY <2>2
    <3> DEFINE x == [id |-> None, name |-> n, fingerprint |-> f]
    <3>2. "fingerprint" \in DOMAIN Args /\ x \in Args["fingerprint"]
      BY DEF Args, NewKey
    <3>3. /\ Goto(p, "fingerprint", x) /\ UNCHANGED <<rows, history>>
          /\ \A k \in keys : k.name # x.name
      BY <3>1 DEF CheckName
    <3>4. /\ pc'[p] = "fingerprint" /\ arg'[p] = x
          /\ \A q \in Procs \ {p} : pc'[q] = pc[q] /\ arg'[q] = arg[q]
      BY <3>2, <3>3, GotoArgs
    <3>5. Checked'
      BY <3>3, <3>4 DEF Checked, StoreLabels
    <3> QED BY <3>3, <3>5 DEF KeysAreUnique, OneServiceAccount, Same
  <2>3. CASE \E n \in Names : FindKey(p, n)
    <3>1. PICK k \in keys : Goto(p, "delete", k) /\ UNCHANGED <<rows, history>>
      BY <2>3 DEF FindKey
    <3>2. "delete" \in DOMAIN Args /\ k \in Args["delete"]
      BY DEF Args, TypeOK
    <3>3. Checked'
      BY <3>1, <3>2, GotoArgs DEF Checked, StoreLabels
    <3> QED BY <3>1, <3>3 DEF KeysAreUnique, OneServiceAccount, Same
  <2>4. CASE \E a \in AccessKeys : InsertAccessKey(a)
    <3>1. UNCHANGED <<keys, services, pc, arg, history>>
      BY <2>4 DEF InsertAccessKey
    <3> QED BY <3>1 DEF Checked, KeysAreUnique, OneServiceAccount, Same, StoreLabels
  <2>5. CASE \E a \in AccessKeys, l \in AccessLabels : FindAccessKey(p, a, l)
    <3>1. PICK a \in AccessKeys, l \in AccessLabels :
            Goto(p, l, a) /\ UNCHANGED <<rows, beaten, crossed, removed>>
      BY <2>5 DEF FindAccessKey
    <3>2. l \in DOMAIN Args /\ a \in Args[l] /\ l \notin StoreLabels \cup {"service"}
      BY DEF Args, AccessLabels, StoreLabels
    <3>3. Checked'
      BY <3>1, <3>2, GotoArgs DEF Checked, StoreLabels
    <3> QED BY <3>1, <3>3 DEF KeysAreUnique, OneServiceAccount, Same
  <2>6. CASE FindService(p)
    <3>1. "service" \in DOMAIN Args /\ NoKey \in Args["service"]
      BY DEF Args
    <3>2. Goto(p, "service", NoKey) /\ services = {} /\ UNCHANGED <<rows, history>>
      BY <2>6 DEF FindService
    <3>3. Checked'
      BY <3>1, <3>2, GotoArgs DEF Checked, StoreLabels
    <3> QED BY <3>2, <3>3 DEF KeysAreUnique, OneServiceAccount, Same
  <2>7. CASE CheckFingerprint(p)
    <3>1. pc[p] = "fingerprint" /\ UNCHANGED <<rows, crossed, removed, revoked>>
      BY <2>7 DEF CheckFingerprint
    <3>2. CASE Return(p) /\ beaten' = beaten \ {p}
      <4>1. Checked'
        BY <3>1, <3>2, ReturnArgs DEF Checked, StoreLabels
      <4> QED BY <3>1, <4>1 DEF KeysAreUnique, OneServiceAccount, Same
    <3>3. CASE /\ Goto(p, "save", arg[p]) /\ UNCHANGED beaten
               /\ ~ \E k \in keys : k.fingerprint = arg[p].fingerprint
      <4>1. "save" \in DOMAIN Args /\ arg[p] \in Args["save"]
        BY <3>1, ArgTypes DEF StoreLabels, Args
      <4>2. Checked'
        BY <3>1, <3>3, <4>1, GotoArgs DEF Checked, StoreLabels
      <4> QED BY <3>1, <4>2 DEF KeysAreUnique, OneServiceAccount, Same
    <3> QED BY <2>7, <3>2, <3>3 DEF CheckFingerprint
  <2>8. CASE SaveKey(p)
    <3> DEFINE rivals == {q \in Procs : pc[q] \in StoreLabels /\ Same(arg[q], arg[p])}
    <3>1. PICK i \in KeyIds : /\ keys' = keys \cup {[arg[p] EXCEPT !.id = i]}
                              /\ beaten' = (beaten \ {p}) \cup (rivals \ {p})
                              /\ crossed' = IF p \in beaten THEN crossed \cup {i} ELSE crossed
      BY <2>8 DEF SaveKey, Outrun
    <3>2. pc[p] = "save" /\ Return(p) /\ UNCHANGED <<access, services, removed, revoked>>
      BY <2>8 DEF SaveKey
    <3>3. arg[p] \in NewKey
      BY <3>2, ArgTypes DEF StoreLabels
    <3> DEFINE k == [arg[p] EXCEPT !.id = i]
    <3>4. /\ keys' = keys \cup {k} /\ k.id = i
          /\ k.name = arg[p].name /\ k.fingerprint = arg[p].fingerprint
      <4>1. /\ k.id = i
            /\ k.name = arg[p].name /\ k.fingerprint = arg[p].fingerprint
        BY <3>3 DEF NewKey
      <4> QED BY <3>1, <4>1
    <3> HIDE DEF k
    <3>5. /\ pc'[p] = "none"
          /\ \A q \in Procs \ {p} : pc'[q] = pc[q] /\ arg'[q] = arg[q]
      BY <3>2, ReturnArgs
    <3>6. ASSUME NEW q \in Procs \ beaten', pc'[q] \in StoreLabels
          PROVE  /\ \A m \in keys' : m.name # arg'[q].name
                 /\ pc'[q] = "save" => \A m \in keys' : m.fingerprint # arg'[q].fingerprint
      <4>1. q # p /\ q \notin beaten /\ pc'[q] = pc[q] /\ arg'[q] = arg[q] /\ q \notin rivals
        BY <3>1, <3>5, <3>6 DEF StoreLabels
      <4>2. k.name # arg[q].name /\ k.fingerprint # arg[q].fingerprint
        BY <3>4, <3>6, <4>1 DEF Same
      <4> QED BY <3>4, <3>6, <4>1, <4>2 DEF Checked
    <3>7. Checked'
      <4>1. \A q \in Procs \ beaten' : pc'[q] = "service" => services' = {}
        BY <3>1, <3>2, <3>5 DEF Checked
      <4> QED BY <3>6, <4>1 DEF Checked, StoreLabels
    <3>8. KeysAreUnique'
      <4>1. CASE p \in beaten
        BY <3>1, <3>4, <4>1 DEF KeysAreUnique, Same
      <4>2. CASE p \notin beaten
        <5>1. \A m \in keys : ~Same(m, k) /\ ~Same(k, m)
          BY <3>2, <3>4, <4>2 DEF Checked, StoreLabels, Same
        <5>2. \A m, j \in keys : Same(j, m) => j = m \/ {j.id, m.id} \cap crossed # {}
          BY DEF KeysAreUnique
        <5>3. crossed' = crossed
          BY <3>1, <4>2
        <5>4. \A m, j \in keys' : Same(j, m) => j = m \/ {j.id, m.id} \cap crossed' # {}
          BY <3>4, <5>1, <5>2, <5>3
        <5> QED BY <5>4 DEF KeysAreUnique, Same
      <4> QED BY <4>1, <4>2
    <3> QED BY <3>1, <3>2, <3>7, <3>8 DEF OneServiceAccount
  <2>9. CASE DeleteKey(p)
    <3>1. Return(p) /\ keys' \subseteq keys /\ UNCHANGED <<access, services, used, history>>
      BY <2>9 DEF DeleteKey
    <3>2. Checked'
      BY <3>1, ReturnArgs DEF Checked, StoreLabels
    <3> QED BY <3>1, <3>2 DEF KeysAreUnique, OneServiceAccount, Same
  <2>10. CASE SaveAccessKey(p) \/ DeleteAccessKey(p)
    <3>1. /\ Return(p) /\ UNCHANGED <<keys, services, used, beaten>>
          /\ crossed \subseteq crossed'
      BY <2>10 DEF SaveAccessKey, DeleteAccessKey
    <3>2. Checked'
      BY <3>1, ReturnArgs DEF Checked, StoreLabels
    <3> QED BY <3>1, <3>2 DEF KeysAreUnique, OneServiceAccount, Same
  <2>11. CASE CreateService(p)
    <3>1. PICK s \in ServiceIds :
            /\ services' = services \cup {s}
            /\ beaten' = (beaten \ {p}) \cup ({q \in Procs : pc[q] = "service"} \ {p})
            /\ crossed' = IF p \in beaten THEN crossed \cup {s} ELSE crossed
      BY <2>11 DEF CreateService, Outrun
    <3>2. pc[p] = "service" /\ Return(p) /\ UNCHANGED <<keys, access, removed, revoked>>
      BY <2>11 DEF CreateService
    <3>3. Checked'
      BY <3>1, <3>2, ReturnArgs DEF Checked, StoreLabels
    <3>4. KeysAreUnique'
      BY <3>1, <3>2 DEF KeysAreUnique, Same
    <3>5. OneServiceAccount'
      <4>1. p \in beaten \/ services = {}
        BY <3>2 DEF Checked
      <4> QED BY <3>1, <4>1 DEF OneServiceAccount
    <3> QED BY <3>3, <3>4, <3>5
  <2>12. CASE Crash(p)
    <3>1. /\ Return(p) /\ beaten' = beaten \ {p}
          /\ UNCHANGED <<rows, crossed, removed, revoked>>
      BY <2>12 DEF Crash
    <3>2. Checked'
      BY <3>1, ReturnArgs DEF Checked, StoreLabels
    <3> QED BY <3>1, <3>2 DEF KeysAreUnique, OneServiceAccount, Same
  <2> QED BY <2>1, <2>2, <2>3, <2>4, <2>5, <2>6, <2>7, <2>8, <2>9, <2>10, <2>11, <2>12, Zenon
<1> QED BY <1>1, <1>2

(* Access keys: a key that is off for good is not being switched on. *)
LEMMA AccessStep ==
  ASSUME TypeOK, Held, NotEnabling, RevokedIsRefused, RemovedIsGone, [Next]_vars
  PROVE  NotEnabling' /\ RevokedIsRefused' /\ RemovedIsGone'
<1> USE DEF rows, history, MayLogIn
<1>1. CASE UNCHANGED vars
  BY <1>1 DEF vars, NotEnabling, RevokedIsRefused, RemovedIsGone
<1>2. CASE Next
  <2>1. PICK p \in Procs :
           \/ \E n \in Names, f \in Fingerprints : CheckName(p, n, f)
           \/ \E n \in Names : FindKey(p, n)
           \/ \E a \in AccessKeys : InsertAccessKey(a)
           \/ \E a \in AccessKeys, l \in AccessLabels : FindAccessKey(p, a, l)
           \/ FindService(p)
           \/ CheckFingerprint(p) \/ SaveKey(p) \/ DeleteKey(p)
           \/ SaveAccessKey(p) \/ DeleteAccessKey(p) \/ CreateService(p)
           \/ Crash(p)
    BY <1>2, StepCases, Zenon
  <2>2. CASE \E n \in Names, f \in Fingerprints : CheckName(p, n, f)
    <3>1. PICK n \in Names, f \in Fingerprints : CheckName(p, n, f)
      BY <2>2
    <3> DEFINE x == [id |-> None, name |-> n, fingerprint |-> f]
    <3>2. "fingerprint" \in DOMAIN Args /\ x \in Args["fingerprint"]
      BY DEF Args, NewKey
    <3>3. /\ Goto(p, "fingerprint", x) /\ UNCHANGED <<rows, history>>
          /\ \A k \in keys : k.name # x.name
      BY <3>1 DEF CheckName
    <3>4. NotEnabling'
      BY <3>2, <3>3, GotoArgs DEF NotEnabling
    <3> QED BY <3>3, <3>4 DEF RevokedIsRefused, RemovedIsGone
  <2>3. CASE \E n \in Names : FindKey(p, n)
    <3>1. PICK k \in keys : Goto(p, "delete", k) /\ UNCHANGED <<rows, history>>
      BY <2>3 DEF FindKey
    <3>2. "delete" \in DOMAIN Args /\ k \in Args["delete"]
      BY DEF Args, TypeOK
    <3>3. NotEnabling'
      BY <3>1, <3>2, GotoArgs DEF NotEnabling
    <3> QED BY <3>1, <3>3 DEF RevokedIsRefused, RemovedIsGone
  <2>4. CASE \E a \in AccessKeys : InsertAccessKey(a)
    <3>1. PICK a \in AccessKeys : InsertAccessKey(a)
      BY <2>4
    <3>2. /\ access' = [access EXCEPT ![a] = "active"] /\ a \notin used
          /\ UNCHANGED <<keys, services, pc, arg, history>>
      BY <3>1 DEF InsertAccessKey, New, Unused
    <3>3. a \notin revoked /\ a \notin removed
      BY <3>2 DEF Held
    <3>4. \A b \in AccessKeys \ {a} : access'[b] = access[b]
      BY <3>2 DEF TypeOK
    <3> QED BY <3>2, <3>3, <3>4 DEF TypeOK, NotEnabling, RevokedIsRefused, RemovedIsGone
  <2>5. CASE \E a \in AccessKeys, l \in AccessLabels : FindAccessKey(p, a, l)
    <3>1. PICK a \in AccessKeys, l \in AccessLabels : FindAccessKey(p, a, l)
      BY <2>5
    <3>2. l \in DOMAIN Args /\ a \in Args[l]
      BY DEF Args, AccessLabels
    <3>3. /\ Goto(p, l, a) /\ UNCHANGED <<rows, beaten, crossed, removed>>
          /\ revoked' = IF l = "enable" THEN revoked \ {a} ELSE revoked
      BY <3>1 DEF FindAccessKey
    <3>4. NotEnabling'
      BY <3>2, <3>3, GotoArgs DEF NotEnabling
    <3> QED BY <3>3, <3>4 DEF RevokedIsRefused, RemovedIsGone
  <2>6. CASE FindService(p)
    <3>1. "service" \in DOMAIN Args /\ NoKey \in Args["service"]
      BY DEF Args
    <3>2. Goto(p, "service", NoKey) /\ UNCHANGED <<rows, history>>
      BY <2>6 DEF FindService
    <3>3. NotEnabling'
      BY <3>1, <3>2, GotoArgs DEF NotEnabling
    <3> QED BY <3>2, <3>3 DEF RevokedIsRefused, RemovedIsGone
  <2>7. CASE CheckFingerprint(p)
    <3>1. /\ pc[p] = "fingerprint" /\ UNCHANGED <<rows, crossed, removed, revoked>>
          /\ Return(p) \/ Goto(p, "save", arg[p])
      BY <2>7 DEF CheckFingerprint
    <3>2. "save" \in DOMAIN Args /\ arg[p] \in Args["save"]
      BY <3>1, ArgTypes DEF StoreLabels, Args
    <3>3. NotEnabling'
      BY <3>1, <3>2, GotoArgs, ReturnArgs DEF NotEnabling
    <3> QED BY <3>1, <3>3 DEF RevokedIsRefused, RemovedIsGone
  <2>8. CASE SaveKey(p)
    <3>1. PICK i \in KeyIds : crossed \subseteq crossed'
      BY <2>8 DEF SaveKey, Outrun
    <3>2. Return(p) /\ UNCHANGED <<access, services, removed, revoked>>
      BY <2>8 DEF SaveKey
    <3>3. NotEnabling'
      BY <3>2, ReturnArgs DEF NotEnabling
    <3> QED BY <3>1, <3>2, <3>3 DEF RevokedIsRefused, RemovedIsGone
  <2>9. CASE DeleteKey(p)
    <3>1. Return(p) /\ UNCHANGED <<access, services, used, history>>
      BY <2>9 DEF DeleteKey
    <3>2. NotEnabling'
      BY <3>1, ReturnArgs DEF NotEnabling
    <3> QED BY <3>1, <3>2 DEF RevokedIsRefused, RemovedIsGone
  <2>10. CASE SaveAccessKey(p)
    <3> DEFINE a == arg[p]
               s == IF pc[p] = "enable" THEN "active" ELSE "inactive"
    <3>1. /\ Return(p) /\ pc[p] \in {"enable", "disable"}
          /\ access' = [access EXCEPT ![a] = s]
          /\ crossed' = IF access[a] = "none" THEN crossed \cup {a} ELSE crossed
          /\ IF pc[p] = "disable" THEN Revoked(a) ELSE UNCHANGED revoked
          /\ UNCHANGED <<keys, services, used, beaten, removed>>
      BY <2>10 DEF SaveAccessKey
    <3>2. a \in AccessKeys
      BY <3>1, ArgTypes DEF AccessLabels
    <3>3. access'[a] = s /\ \A b \in AccessKeys \ {a} : access'[b] = access[b]
      BY <3>1, <3>2 DEF TypeOK
    <3>4. NotEnabling'
      BY <3>1, ReturnArgs DEF NotEnabling, Revoked, Enabling
    <3>5. RevokedIsRefused'
      <4>1. CASE pc[p] = "enable"
        <5>1. a \notin revoked /\ revoked' = revoked
          BY <3>1, <4>1 DEF NotEnabling
        <5> QED BY <3>3, <5>1 DEF RevokedIsRefused, TypeOK
      <4>2. CASE pc[p] = "disable"
        <5>1. access'[a] # "active" /\ revoked' \subseteq revoked \cup {a}
          BY <3>1, <3>3, <4>2 DEF Revoked
        <5> QED BY <3>2, <3>3, <5>1 DEF RevokedIsRefused, TypeOK
      <4> QED BY <3>1, <4>1, <4>2
    <3>6. RemovedIsGone'
      BY <3>1, <3>2, <3>3 DEF RemovedIsGone, TypeOK
    <3> QED BY <3>4, <3>5, <3>6
  <2>11. CASE DeleteAccessKey(p)
    <3> DEFINE a == arg[p]
    <3>1. /\ Return(p) /\ pc[p] = "remove"
          /\ access' = [access EXCEPT ![a] = "none"]
          /\ removed' = removed \cup {a} /\ Revoked(a)
          /\ UNCHANGED <<keys, services, used, beaten, crossed>>
      BY <2>11 DEF DeleteAccessKey
    <3>2. a \in AccessKeys
      BY <3>1, ArgTypes DEF AccessLabels
    <3>3. access'[a] = "none" /\ \A b \in AccessKeys \ {a} : access'[b] = access[b]
      BY <3>1, <3>2 DEF TypeOK
    <3>4. NotEnabling'
      BY <3>1, ReturnArgs DEF NotEnabling, Revoked, Enabling
    <3>5. revoked' \subseteq revoked \cup {a}
      BY <3>1 DEF Revoked
    <3> QED BY <3>1, <3>3, <3>4, <3>5 DEF RevokedIsRefused, RemovedIsGone, TypeOK
  <2>12. CASE CreateService(p)
    <3>1. crossed \subseteq crossed' /\ Return(p) /\ UNCHANGED <<keys, access, removed, revoked>>
      BY <2>12 DEF CreateService, Outrun
    <3>2. NotEnabling'
      BY <3>1, ReturnArgs DEF NotEnabling
    <3> QED BY <3>1, <3>2 DEF RevokedIsRefused, RemovedIsGone
  <2>13. CASE Crash(p)
    <3>1. Return(p) /\ UNCHANGED <<rows, crossed, removed, revoked>>
      BY <2>13 DEF Crash
    <3>2. NotEnabling'
      BY <3>1, ReturnArgs DEF NotEnabling
    <3> QED BY <3>1, <3>2 DEF RevokedIsRefused, RemovedIsGone
  <2> QED BY <2>1, <2>2, <2>3, <2>4, <2>5, <2>6, <2>7, <2>8, <2>9, <2>10, <2>11, <2>12,
             <2>13, Zenon
<1> QED BY <1>1, <1>2

-----------------------------------------------------------------------------
LEMMA InvInit == Init => IInv
<1> SUFFICES ASSUME Init PROVE IInv
  OBVIOUS
<1>1. /\ "none" \in DOMAIN Args /\ NoKey \in Args["none"]
      /\ \A p \in Procs : pc[p] = "none" /\ arg[p] = NoKey
      /\ pc \in [Procs -> {"none"}] /\ DOMAIN arg = Procs
  BY DEF Init, Args
<1>2. TypeOK
  BY <1>1 DEF Init, TypeOK
<1>3. Held /\ NotEnabling
  BY <1>1 DEF Init, Held, NotEnabling, AccessLabels
<1>4. Checked /\ KeysAreUnique /\ OneServiceAccount
  BY <1>1 DEF Init, Checked, KeysAreUnique, OneServiceAccount, StoreLabels
<1>5. RevokedIsRefused /\ RemovedIsGone
  BY DEF Init, RevokedIsRefused, RemovedIsGone
<1> QED BY <1>2, <1>3, <1>4, <1>5 DEF IInv

LEMMA InvHolds == Spec => []IInv
<1>1. IInv /\ [Next]_vars => IInv'
  BY TypeStep, UniqueStep, AccessStep DEF IInv
<1> QED BY InvInit, <1>1, PTL DEF Spec

(* Every reachable state is well typed: requests hold what they looked up, rows
   have ids of their own. *)
THEOREM TypeCorrect == Spec => []TypeOK
BY InvHolds, PTL DEF IInv

(* store_key: names and fingerprints are unique but for requests that another
   one got ahead of between their checks and their save. *)
THEOREM KeyNamesAreUnique == Spec => []KeysAreUnique
BY InvHolds, PTL DEF IInv

(* create_or_get: an account has one service account, with the same exception. *)
THEOREM ServiceIsUnique == Spec => []OneServiceAccount
BY InvHolds, PTL DEF IInv

(* ModifyUser: an access key that was switched off or deleted does not log in,
   whatever other requests on it were under way. *)
THEOREM RevocationHolds == Spec => []RevokedIsRefused
BY InvHolds, PTL DEF IInv

(* ModifyUser: a deleted key gets a row again only from a change of status that
   was under way. *)
THEOREM RemovalHolds == Spec => []RemovedIsGone
BY InvHolds, PTL DEF IInv

-----------------------------------------------------------------------------
(* Launches only read the keys: beside them, Registry is as it is alone, and all
   theorems above hold of LaunchSpec, which the runs check. *)
THEOREM LaunchesOnlyRead == LaunchSpec => Spec
<1>1. LaunchInit => Init
  BY DEF LaunchInit
<1>2. [LaunchNext]_<<vars, launch>> => [Next]_vars
  <2>1. CASE LaunchNext
    BY <2>1 DEF LaunchNext, Next, PrepareNetworkInterface, PrepareSshKeys, Define, LaunchCrash
  <2> QED BY <2>1
<1> QED BY <1>1, <1>2, PTL DEF LaunchSpec, Spec

=============================================================================
