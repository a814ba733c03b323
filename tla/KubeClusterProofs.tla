------------------------- MODULE KubeClusterProofs -------------------------
(***************************************************************************)
(* Theorems about KubeCluster, for any clusters, machines and processes,   *)
(* whichever of them are killed and whatever fails.                        *)
(*                                                                         *)
(* The argument: a creation is taken from the queue once and boots one     *)
(* controller, which posts its secrets once, so a cluster's secret has one *)
(* writer at a time (Once, Merged).  A deletion is alone with its cluster, *)
(* or else the cluster counts as crossed (Alone).  The row then tells what *)
(* is in Vault (Secrets) and which controller to terminate (Released), and *)
(* the scripts tell which status may still be saved (Settled).             *)
(***************************************************************************)
EXTENDS KubeCluster, TLAPS

EarlyLabels == {"token_read", "token_write", "launch"}
AdminLabels == {"admin_read", "admin_write", "ready"}
NodeLabels  == {"node_vm", "node_add", "node_save", "node_booted"}
Controls(v, c) == role[v] = "controller" /\ cluster[v] = c
Faulted == crossed \cup clobbered \cup spoiled

(* The parts of TypeOK. *)
LocalOK ==
  /\ at \in [Procs -> Labels]
  /\ on \in [Procs -> Clusters \cup {NoCluster}]
  /\ machine \in [Procs -> Vms \cup {NoVm}]
  /\ handle \in [Procs -> [status : Statuses, primary : Vms \cup {NoVm}]]
  /\ secrets \in [Procs -> SUBSET Keys]
  /\ \A p \in Procs : at[p] = "idle" <=> on[p] = NoCluster
RowsOK ==
  /\ status \in [Clusters -> Statuses]
  /\ primary \in [Clusters -> Vms \cup {NoVm}]
  /\ vault \in [Clusters -> SUBSET Keys]
  /\ queued \subseteq Clusters
VmsOK ==
  /\ vmRows \subseteq Vms /\ domains \subseteq Vms /\ doomed \subseteq Vms
  /\ script \in [Vms -> {"none", "runs", "posted", "fails", "ended", "silent"}]
  /\ role \in [Vms -> Roles]
  /\ cluster \in [Vms -> Clusters \cup {NoCluster}]
HistoryOK == \A s \in {deleted, crossed, clobbered, spoiled} : s \subseteq Clusters

(* Only launched machines have rows and run, each for one cluster. *)
GuestsOK == \A v \in Vms :
  /\ role[v] = "none" => v \notin vmRows \cup domains
  /\ role[v] # "none" => cluster[v] \in Clusters

(* The machine a process works on. *)
MachinesOK == \A p \in Procs : LET v == machine[p] IN
  /\ at[p] \in {"booted", "primary"} => v \in Vms /\ Controls(v, on[p])
  /\ at[p] \in AdminLabels => v \in Vms /\ Controls(v, on[p]) /\ script[v] # "runs"
  /\ at[p] \in NodeLabels => v \in Vms /\ role[v] = "node" /\ cluster[v] = on[p]

(* A primary is a controller of its cluster. *)
PrimariesOK ==
  /\ \A c \in Clusters : primary[c] # NoVm => Controls(primary[c], c)
  /\ \A p \in Procs : handle[p].primary # NoVm => Controls(handle[p].primary, on[p])

(* No row is ever saved with this status. *)
NoneTerminated ==
  /\ \A c \in Clusters : status[c] # "TERMINATED"
  /\ \A p \in Procs : handle[p].status # "TERMINATED"

TypeInv == TypeOK /\ GuestsOK /\ MachinesOK /\ PrimariesOK /\ NoneTerminated

(* A cluster is created once, has one controller, and that reports once. *)
QueuedOnce == \A c \in queued :
  /\ \A p \in Procs : at[p] \in CreateLabels \cup {"failed"} => on[p] # c
  /\ \A v \in Vms : ~Controls(v, c)
HeldOnce == \A p, q \in Procs :
  /\ {at[p], at[q]} \subseteq CreateLabels /\ on[p] = on[q] => p = q
  /\ {at[p], at[q]} \subseteq AdminLabels /\ machine[p] = machine[q] => p = q
  /\ at[p] = "failed" /\ at[q] \in EarlyLabels => on[p] # on[q]
NotYetBooted == \A p \in Procs :
  at[p] \in EarlyLabels => \A v \in Vms : ~Controls(v, on[p])
OneController == \A v, w \in Vms :
  Controls(v, cluster[w]) /\ role[w] = "controller" => v = w
Once == QueuedOnce /\ HeldOnce /\ NotYetBooted /\ OneController

(* Between the two calls of store_dict nobody adds to the secret. *)
Merged == \A p \in Procs :
  at[p] \in {"token_write", "admin_write"} => vault[on[p]] \subseteq secrets[p]

(* A deletion is alone with its cluster, and a cluster that is being deleted,
   or has been, is taken by nobody else; unless it counts as crossed. *)
Gone == \A c \in deleted \ crossed : status[c] = "none" /\ vault[c] = {}
Alone ==
  /\ \A p \in Procs : on[p] \notin crossed /\ at[p] # "idle" =>
       LET c == on[p] IN
       /\ status[c] # "none" /\ handle[p].status # "none"
       /\ c \notin deleted
       /\ at[p] \in DeleteLabels => \A q \in Procs \ {p} : on[q] # c
       /\ at[p] \notin DeleteLabels => "DELETING" \notin {status[c], handle[p].status}
       /\ at[p] \in DeleteLabels \ {"deleting"} =>
            status[c] = "DELETING" /\ handle[p].status = "DELETING"
       /\ at[p] \in {"controller", "delete"} => vault[c] = {}
  /\ Gone

(* What is in Vault. *)
SecretsOfHandlers == \A p \in Procs : on[p] \notin crossed /\ at[p] # "idle" =>
  /\ at[p] = "launch" => Stored(on[p], {"kubeadm_token"})
  /\ at[p] = "admin_write" => "kubeadm_token" \in secrets[p]
  /\ at[p] = "ready" \/ handle[p].status = "READY" => Stored(on[p], Keys)
SecretsOfRows == \A c \in Clusters \ crossed :
  /\ status[c] \notin {"none", "DELETING"} =>
       \A v \in Vms : Controls(v, c) => Stored(c, {"kubeadm_token"})
  /\ status[c] = "READY" => Stored(c, Keys)
Secrets == SecretsOfHandlers /\ SecretsOfRows

(* Which controller a deletion terminates. *)
GuestsHaveRows == \A v \in Vms : cluster[v] \in Clusters \ spoiled =>
  /\ v \in domains => v \in vmRows
  /\ role[v] = "controller" /\ v \notin vmRows => v \in doomed
DoomedByDeletion == \A v \in doomed :
  /\ role[v] = "controller"
  /\ cluster[v] \notin crossed => status[cluster[v]] \in {"none", "DELETING"}
RowHasController == \A v \in domains \ doomed : LET c == cluster[v] IN
  role[v] = "controller" /\ c \notin Faulted =>
    \/ primary[c] = v
    \/ \E p \in Procs : on[p] = c /\ at[p] \in {"booted", "primary"} /\ machine[p] = v
HandleHasController == \A p \in Procs : on[p] \notin Faulted =>
  /\ at[p] \in {"delete_key", "controller"} => primary[on[p]] \in {handle[p].primary, NoVm}
  /\ at[p] = "delete" => \A v \in domains : Controls(v, on[p]) => v \in doomed
Released == /\ GuestsHaveRows /\ DoomedByDeletion /\ RowHasController
            /\ HandleHasController /\ ControllerIsReleased

(* Which status may still be saved. *)
ReadyHasController == \A c \in Clusters \ Faulted :
  status[c] = "READY" => \E v \in Vms : Controls(v, c)
ReportingNotFailed == \A p \in Procs :
  at[p] \in AdminLabels /\ on[p] \notin Faulted => handle[p].status # "FAILED"
FailedIsEnded == \A c \in Clusters \ Faulted : status[c] = "FAILED" =>
  /\ c \notin queued
  /\ \A p \in Procs : at[p] \in EarlyLabels => on[p] # c
  /\ \A v \in Vms : Controls(v, c) => script[v] = "ended"
FailingIsEnded == \A p \in Procs : at[p] = "failed" /\ on[p] \notin Faulted =>
  \A v \in Vms : Controls(v, on[p]) => script[v] = "ended"
Settled == ReadyHasController /\ ReportingNotFailed /\ FailedIsEnded /\ FailingIsEnded

IInv == TypeInv /\ Once /\ Merged /\ Alone /\ Secrets /\ Released /\ Settled
-----------------------------------------------------------------------------
(* What a step may be, with the calls it makes resolved: every step is one of
   these effects (EffectStep), which is all that the invariant needs of it.  *)

Rest == <<row, vault, queued, doomed>>  \* what most steps leave alone

(* A request takes a cluster. *)
Takes(p) == \E c \in Clusters, l \in {"token_read", "node_secrets", "deleting"} :
  /\ Get(p, c, l, NoVm)
  /\ IF l = "token_read" THEN c \in queued /\ queued' = queued \ {c} ELSE queued' = queued
  /\ UNCHANGED <<row, vault, guests, doomed>>

(* A message for a cluster that is gone is dropped. *)
Drops == \E c \in queued :
  /\ ~Exists(c) /\ queued' = queued \ {c}
  /\ UNCHANGED <<row, vault, guests, doomed, local, history>>

(* A request takes the cluster of the machine v whose script reports. *)
TakesReport(p, v, r, before, after, l) ==
  /\ v \in domains /\ role[v] = r
  /\ script[v] = before /\ script' = [script EXCEPT ![v] = after]
  /\ Get(p, cluster[v], l, v)
  /\ UNCHANGED <<Rest, vmRows, domains, role, cluster>>

TakesNode(p, v)    == TakesReport(p, v, "node", "runs", "posted", "node_vm")
TakesPosted(p, v)  == TakesReport(p, v, "controller", "runs", "posted", "admin_read")
TakesFailure(p, v) == TakesReport(p, v, "controller", "fails", "ended", "failed")

(* A script goes on, and no cluster hears of it. *)
Scripts(v) ==
  /\ \/ script[v] \in {"runs", "posted"} /\ script' = [script EXCEPT ![v] = "fails"]
     \/ script[v] \in {"runs", "fails"} /\ script' = [script EXCEPT ![v] = "silent"]
     \/ /\ role[v] = "controller" => ~Exists(cluster[v])
        /\ script[v] \in {"runs", "fails"}
        /\ script' = [script EXCEPT ![v] = IF script[v] = "runs" THEN "posted" ELSE "ended"]
  /\ UNCHANGED <<Rest, vmRows, domains, role, cluster, local, history>>

(* A handler goes on to its next statement. *)
Passes(p) ==
  /\ \/ at[p] = "booted" /\ machine[p] \in vmRows /\ Goto(p, "primary")
     \/ at[p] = "node_vm" /\ Goto(p, "node_add")
     \/ at[p] = "node_add" /\ Goto(p, "node_save")
     \/ /\ at[p] = "node_secrets" /\ Goto(p, "node_launch")
        /\ Stored(on[p], {"kubeadm_token", "ca_sha"})
  /\ UNCHANGED <<Rest, guests, history>>

(* The creation raises, and goes on with setting the cluster as failed. *)
CreationRaises(p) ==
  /\ Goto(p, "failed")
  /\ \/ at[p] \in EarlyLabels /\ UNCHANGED vmRows /\ (UNCHANGED history \/ Spoil(p))
     \/ at[p] = "booted" /\ machine[p] \notin vmRows /\ UNCHANGED <<vmRows, history>>
     \/ at[p] = "booted" /\ vmRows' \in {vmRows, vmRows \ {machine[p]}} /\ Spoil(p)
  /\ UNCHANGED <<Rest, domains, script, role, cluster>>

PrimaryRefused(p) ==
  /\ at[p] = "primary" /\ machine[p] \notin vmRows
  /\ at' = [at EXCEPT ![p] = "failed"]
  /\ handle' = [handle EXCEPT ![p] = [handle[p] EXCEPT !.primary = machine[p]]]
  /\ UNCHANGED <<Rest, on, machine, secrets, guests, history>>

(* A handler ends, and saves nothing. *)
Stops(p) ==
  /\ at[p] # "idle" /\ Return(p)
  /\ \/ /\ at[p] \in NodeLabels \cup {"node_secrets", "node_launch"}
        /\ UNCHANGED <<vmRows, history>>
     \/ UNCHANGED vmRows /\ Spoil(p)
     \/ at[p] = "node_booted" /\ vmRows' = vmRows \ {machine[p]} /\ Spoil(p)
  /\ UNCHANGED <<Rest, domains, script, role, cluster>>

Reads(p) ==
  /\ \/ at[p] = "token_read" /\ at' = [at EXCEPT ![p] = "token_write"]
     \/ at[p] = "admin_read" /\ at' = [at EXCEPT ![p] = "admin_write"]
  /\ secrets' = [secrets EXCEPT ![p] = vault[on[p]]]
  /\ UNCHANGED <<Rest, on, machine, handle, guests, history>>

Writes(p) ==
  /\ \/ /\ at[p] = "token_write" /\ Goto(p, "launch")
        /\ vault' = [vault EXCEPT ![on[p]] = secrets[p] \cup {"kubeadm_token"}]
     \/ /\ at[p] = "admin_write" /\ Goto(p, "ready")
        /\ vault' = [vault EXCEPT ![on[p]] = secrets[p] \cup {"ca_sha", "admin.conf"}]
  /\ UNCHANGED <<row, queued, doomed, guests, history>>

Boots(p, v) ==
  /\ Fresh(v)
  /\ vmRows' = vmRows \cup {v} /\ domains' = domains \cup {v}
  /\ script' = [script EXCEPT ![v] = "runs"]
  /\ \/ /\ at[p] = "launch" /\ at' = [at EXCEPT ![p] = "booted"]
        /\ role' = [role EXCEPT ![v] = "controller"]
     \/ /\ at[p] = "node_launch" /\ at' = [at EXCEPT ![p] = "node_booted"]
        /\ role' = [role EXCEPT ![v] = "node"]
  /\ cluster' = [cluster EXCEPT ![v] = on[p]]
  /\ machine' = [machine EXCEPT ![p] = v]
  /\ UNCHANGED <<Rest, on, handle, secrets, history>>

(* A handler ends with a save. *)
Saves(p) == \E h \in [status : Statuses, primary : Vms \cup {NoVm}] :
  /\ \/ at[p] = "primary" /\ h = [handle[p] EXCEPT !.primary = machine[p]]
     \/ at[p] = "failed" /\ h = With(p, "FAILED")
     \/ at[p] = "ready" /\ h = With(p, "READY")
     \/ at[p] = "node_save" /\ h = handle[p]
  /\ Save(p, h) /\ Return(p)
  /\ UNCHANGED <<vault, queued, doomed, guests>>

DeletionStarts(p) ==
  /\ at[p] = "deleting" /\ at' = [at EXCEPT ![p] = "delete_key"]
  /\ Save(p, With(p, "DELETING"))
  /\ handle' = [handle EXCEPT ![p] = With(p, "DELETING")]
  /\ UNCHANGED <<vault, queued, doomed, guests, on, machine, secrets>>

KeyGoes(p) ==
  /\ at[p] = "delete_key" /\ Goto(p, "controller")
  /\ vault' = [vault EXCEPT ![on[p]] = {}]
  /\ UNCHANGED <<row, queued, doomed, guests, history>>

ControllerGoes(p) ==
  /\ at[p] = "controller" /\ Goto(p, "delete") /\ ~Refused(handle[p])
  /\ doomed' = doomed \cup ({handle[p].primary} \ {NoVm})
  /\ UNCHANGED <<row, vault, queued, guests, history>>

RowGoes(p) ==
  /\ at[p] = "delete" /\ Return(p)
  /\ status' = [status EXCEPT ![on[p]] = "none"]
  /\ primary' = [primary EXCEPT ![on[p]] = NoVm]
  /\ deleted' = deleted \cup {on[p]}
  /\ UNCHANGED <<vault, queued, doomed, guests, crossed, clobbered, spoiled>>

MachineGoes(v) ==
  /\ v \in vmRows /\ vmRows' = vmRows \ {v} /\ domains' = domains \ {v}
  /\ primary' = [c \in Clusters |-> IF primary[c] = v THEN NoVm ELSE primary[c]]
  /\ IF v \in doomed THEN UNCHANGED history
     ELSE /\ spoiled' = spoiled \cup {cluster[v]}
          /\ UNCHANGED <<deleted, crossed, clobbered>>
  /\ UNCHANGED <<status, vault, queued, local, script, role, cluster, doomed>>

Effect == \/ Drops
          \/ \E v \in Vms : Scripts(v) \/ MachineGoes(v)
          \/ \E p \in Procs, v \in Vms : 
               TakesNode(p, v) \/ TakesPosted(p, v) \/ TakesFailure(p, v) \/ Boots(p, v)
          \/ \E p \in Procs : \/ Takes(p) \/ Passes(p) \/ CreationRaises(p)
                              \/ PrimaryRefused(p) \/ Stops(p) \/ Reads(p)
                              \/ Writes(p) \/ Saves(p)
                              \/ DeletionStarts(p) \/ KeyGoes(p)
                              \/ ControllerGoes(p) \/ RowGoes(p)

(* Each step of the model is one of the effects. *)
LEMMA EffectStep == IInv /\ Next => Effect
<1> SUFFICES ASSUME IInv, Next PROVE Effect
  OBVIOUS
<1> USE NoneAssumption
        DEF row, guests, local, history, Rest, Goto, Return, Raise, Spoil,
            SaveAndReturn, CreateLabels, EarlyLabels, NodeLabels
<1>h. \A p \in Procs : /\ handle[p] \in [status : Statuses, primary : Vms \cup {NoVm}]
                       /\ machine[p] \in Vms \cup {NoVm}
  BY DEF IInv, TypeInv, TypeOK
<1>1. ASSUME NEW p \in Procs, FindImageFails(p) PROVE CreationRaises(p)
  BY <1>1, <1>h DEF FindImageFails, CreationRaises
<1>2. ASSUME NEW p \in Procs, ReadSecret(p, "token_read", "token_write")
      PROVE  Reads(p) \/ CreationRaises(p)
  BY <1>2, <1>h DEF ReadSecret, Reads, CreationRaises
<1>3. ASSUME NEW p \in Procs, WriteSecret(p, "token_write", {"kubeadm_token"}, "launch")
      PROVE  Writes(p) \/ CreationRaises(p)
  BY <1>3, <1>h DEF WriteSecret, Writes, CreationRaises
<1>4. ASSUME NEW p \in Procs, NEW v \in Vms, Boot(p, v, "launch", "controller", "booted")
      PROVE  Boots(p, v)
  BY <1>4, <1>h DEF Boot, Boots
<1>5. ASSUME NEW p \in Procs, LaunchFails(p, "launch") PROVE CreationRaises(p)
  BY <1>5, <1>h DEF LaunchFails, CreationRaises
<1>6. ASSUME NEW p \in Procs, BootFails(p, "booted") PROVE CreationRaises(p)
  BY <1>6, <1>h DEF BootFails, CreationRaises
<1>7. ASSUME NEW p \in Procs, ControllerCreated(p) PROVE Passes(p) \/ CreationRaises(p)
  BY <1>7, <1>h DEF ControllerCreated, Passes, CreationRaises
<1>8. ASSUME NEW p \in Procs, SetPrimary(p) PROVE Saves(p) \/ PrimaryRefused(p)
  BY <1>8, <1>h DEF SetPrimary, With, Statuses, Save, Refused, Saves, PrimaryRefused
<1>9. ASSUME NEW p \in Procs, SetClusterAsFailed(p) PROVE Saves(p) \/ Stops(p)
  BY <1>9, <1>h DEF SetClusterAsFailed, With, Statuses, Save, Refused, Saves, Stops
<1>10. ASSUME NEW p \in Procs, ReadSecret(p, "admin_read", "admin_write")
      PROVE  Reads(p) \/ Stops(p)
  BY <1>10, <1>h DEF ReadSecret, Reads, Stops
<1>11. ASSUME NEW p \in Procs, WriteSecret(p, "admin_write", {"ca_sha", "admin.conf"}, "ready")
      PROVE  Writes(p) \/ Stops(p)
  BY <1>11, <1>h DEF WriteSecret, Writes, Stops
<1>12. ASSUME NEW p \in Procs, SetClusterAsReady(p) PROVE Saves(p) \/ Stops(p)
  BY <1>12, <1>h DEF SetClusterAsReady, With, Statuses, Save, Refused, Saves, Stops
<1>13. ASSUME NEW p \in Procs, FindNode(p) PROVE Passes(p) \/ Stops(p)
  BY <1>13, <1>h DEF FindNode, Passes, Stops
<1>14. ASSUME NEW p \in Procs, AssociateNode(p) PROVE Passes(p) \/ Stops(p)
  BY <1>14, <1>h DEF AssociateNode, Passes, Stops
<1>15. ASSUME NEW p \in Procs, SaveNode(p) PROVE Saves(p) \/ Stops(p)
  BY <1>15, <1>h DEF SaveNode, With, Statuses, Save, Refused, Saves, Stops
<1>16. ASSUME NEW p \in Procs, JoinSecrets(p) PROVE Passes(p) \/ Stops(p)
  BY <1>16, <1>h DEF JoinSecrets, Passes, Stops
<1>17. ASSUME NEW p \in Procs, NEW v \in Vms, Boot(p, v, "node_launch", "node", "node_booted")
      PROVE  Boots(p, v)
  BY <1>17, <1>h DEF Boot, Boots
<1>18. ASSUME NEW p \in Procs, LaunchFails(p, "node_launch") PROVE Stops(p)
  BY <1>18, <1>h DEF LaunchFails, Stops
<1>19. ASSUME NEW p \in Procs, BootFails(p, "node_booted") PROVE Stops(p)
  BY <1>19, <1>h DEF BootFails, Stops
<1>20. ASSUME NEW p \in Procs, NodeCreated(p) PROVE Stops(p)
  BY <1>20, <1>h DEF NodeCreated, Stops
<1>21. ASSUME NEW p \in Procs, SetDeleting(p) PROVE DeletionStarts(p) \/ Stops(p)
  BY <1>21, <1>h DEF SetDeleting, With, Statuses, Save, Refused, DeletionStarts, Stops
<1>22. ASSUME NEW p \in Procs, DeleteKey(p) PROVE KeyGoes(p) \/ Stops(p)
  BY <1>22, <1>h DEF DeleteKey, KeyGoes, Stops
<1>23. ASSUME NEW p \in Procs, TerminateController(p) PROVE ControllerGoes(p) \/ Stops(p)
  BY <1>23, <1>h DEF TerminateController, ControllerGoes, Stops
<1>24. ASSUME NEW p \in Procs, DeleteRow(p) PROVE RowGoes(p)
  BY <1>24, <1>h DEF DeleteRow, RowGoes
<1>25. ASSUME NEW p \in Procs, Crash(p) PROVE Stops(p)
  BY <1>25, <1>h DEF Crash, Stops
<1>26. ASSUME NEW p \in Procs, NEW c \in Clusters, TakeCreateCluster(p, c)
      PROVE  Takes(p) \/ Drops
  BY <1>26, <1>h DEF TakeCreateCluster, Takes, Drops
<1>27. ASSUME NEW p \in Procs, NEW c \in Clusters, AddNode(p, c) PROVE Takes(p)
  BY <1>27, <1>h DEF AddNode, Takes
<1>28. ASSUME NEW p \in Procs, NEW c \in Clusters, DeleteCluster(p, c) PROVE Takes(p)
  BY <1>28, <1>h DEF DeleteCluster, Takes
<1>29. ASSUME NEW v \in Vms, CommandFails(v) \/ FallsSilent(v) PROVE Scripts(v)
  BY <1>29 DEF CommandFails, FallsSilent, ScriptGoes, Scripts
<1>30. ASSUME NEW p \in Procs, NEW v \in Vms, ControllerReports(p, v)
       PROVE  TakesPosted(p, v) \/ TakesFailure(p, v) \/ Scripts(v)
  BY <1>30, <1>h DEF ControllerReports, Post, TakesReport, TakesPosted, TakesFailure, Scripts
<1>31. ASSUME NEW p \in Procs, NEW v \in Vms, NodeReports(p, v)
       PROVE  TakesNode(p, v) \/ Scripts(v)
  BY <1>31, <1>h DEF NodeReports, Post, TakesReport, TakesNode, Scripts
<1>32. ASSUME NEW v \in Vms, TerminateTask(v) PROVE MachineGoes(v)
  BY <1>32, <1>h DEF TerminateTask, Terminated, MachineGoes
<1>33. ASSUME NEW v \in Vms, OwnerTerminates(v) PROVE MachineGoes(v)
  BY <1>33, <1>h DEF OwnerTerminates, Terminated, MachineGoes
<1> QED BY <1>1, <1>2, <1>3, <1>4, <1>5, <1>6, <1>7, <1>8, <1>9, <1>10, <1>11, <1>12,
           <1>13, <1>14, <1>15, <1>16, <1>17, <1>18, <1>19, <1>20, <1>21, <1>22, <1>23,
           <1>24, <1>25, <1>26, <1>27, <1>28, <1>29, <1>30, <1>31, <1>32, <1>33
        DEF Effect, Next, Run, Create, Report, Add, Delete, SetClusterToken, SetClusterSecrets,
            CreateController, CreateNode, Reports, Procs

(* The links to the nodes are no part of the effects. *)
LEMMA AssociatedStep == IInv /\ Next => (associated \in [Clusters -> SUBSET Vms])'
<1> SUFFICES ASSUME IInv, Next PROVE associated' \in [Clusters -> SUBSET Vms]
  OBVIOUS
<1> USE DEF IInv, TypeInv, TypeOK, MachinesOK, NodeLabels
<1>1. ASSUME NEW p \in Procs, AssociateNode(p)
      PROVE  associated' \in [Clusters -> SUBSET Vms]
  BY <1>1 DEF AssociateNode
<1>2. ASSUME NEW p \in Procs, DeleteRow(p)
      PROVE  associated' \in [Clusters -> SUBSET Vms]
  BY <1>2 DEF DeleteRow
<1>3. ASSUME NEW v \in Vms, Terminated(v)
      PROVE  associated' \in [Clusters -> SUBSET Vms]
  BY <1>3 DEF Terminated
<1>4. ASSUME NEW p \in Procs, Run(p), ~AssociateNode(p), ~DeleteRow(p)
      PROVE  UNCHANGED associated
  BY <1>4 DEF Run, Create, Report, Add, Delete, SetClusterToken, SetClusterSecrets,
       CreateController, CreateNode, FindImageFails, ReadSecret, WriteSecret, Boot,
       LaunchFails, BootFails, ControllerCreated, SetPrimary, SetClusterAsFailed,
       SetClusterAsReady, FindNode, SaveNode, JoinSecrets, NodeCreated, SetDeleting,
       DeleteKey, TerminateController
<1>5. ASSUME NEW p \in Procs, Crash(p)
      PROVE  UNCHANGED associated
  BY <1>5 DEF Crash
<1>6. ASSUME NEW p \in Procs, NEW c \in Clusters,
             TakeCreateCluster(p, c) \/ AddNode(p, c) \/ DeleteCluster(p, c)
      PROVE  UNCHANGED associated
  BY <1>6 DEF TakeCreateCluster, AddNode, DeleteCluster
<1>7. ASSUME NEW v \in Vms, CommandFails(v) \/ FallsSilent(v) \/ Reports(v)
      PROVE  UNCHANGED associated
  BY <1>7 DEF CommandFails, FallsSilent, ScriptGoes, Reports, ControllerReports, NodeReports, Post
<1> QED BY <1>1, <1>2, <1>3, <1>4, <1>5, <1>6, <1>7
        DEF Next, TerminateTask, OwnerTerminates

(* What each handler holds keeps to its values. *)
LEMMA LocalOKStep == IInv /\ Effect => LocalOK'
<1> SUFFICES ASSUME IInv, Effect PROVE LocalOK'
  OBVIOUS
<1> USE NoneAssumption
        DEF Goto, Return, Get, Spoil, Save, Rest, row, guests, local, history,
            Fresh, Exists, Others, Refused, With, NoHandle, CreateLabels,
            DeleteLabels, EarlyLabels, AdminLabels, NodeLabels,
            IInv, TypeInv, TypeOK, LocalOK, GuestsOK, Labels, Statuses, Keys
<1>1. ASSUME Drops PROVE LocalOK' BY <1>1 DEF Drops
<1>2. ASSUME NEW p \in Procs, Takes(p) PROVE LocalOK' BY <1>2 DEF Takes
<1>3. ASSUME NEW p \in Procs, NEW v \in Vms, TakesNode(p, v) PROVE LocalOK'
  BY <1>3 DEF TakesNode, TakesReport
<1>4. ASSUME NEW p \in Procs, NEW v \in Vms, TakesPosted(p, v) PROVE LocalOK'
  BY <1>4 DEF TakesPosted, TakesReport
<1>5. ASSUME NEW p \in Procs, NEW v \in Vms, TakesFailure(p, v) PROVE LocalOK'
  BY <1>5 DEF TakesFailure, TakesReport
<1>6. ASSUME NEW v \in Vms, Scripts(v) PROVE LocalOK' BY <1>6 DEF Scripts
<1>7. ASSUME NEW p \in Procs, Passes(p) PROVE LocalOK' BY <1>7 DEF Passes
<1>8. ASSUME NEW p \in Procs, CreationRaises(p) PROVE LocalOK' BY <1>8 DEF CreationRaises
<1>9. ASSUME NEW p \in Procs, PrimaryRefused(p) PROVE LocalOK' BY <1>9 DEF PrimaryRefused
<1>10. ASSUME NEW p \in Procs, Stops(p) PROVE LocalOK' BY <1>10 DEF Stops
<1>11. ASSUME NEW p \in Procs, Reads(p) PROVE LocalOK' BY <1>11 DEF Reads
<1>12. ASSUME NEW p \in Procs, Writes(p) PROVE LocalOK' BY <1>12 DEF Writes
<1>13. ASSUME NEW p \in Procs, NEW v \in Vms, Boots(p, v) PROVE LocalOK'
  <2>1. /\ at' \in [Procs -> Labels] /\ machine' \in [Procs -> Vms \cup {NoVm}]
        /\ UNCHANGED <<on, handle, secrets>>
    BY <1>13 DEF Boots
  <2>2. \A q \in Procs : at'[q] = "idle" <=> on'[q] = NoCluster
    BY <1>13 DEF Boots
  <2> QED BY <2>1, <2>2
<1>14. ASSUME NEW p \in Procs, Saves(p) PROVE LocalOK' BY <1>14 DEF Saves
<1>15. ASSUME NEW p \in Procs, DeletionStarts(p) PROVE LocalOK' BY <1>15 DEF DeletionStarts
<1>16. ASSUME NEW p \in Procs, KeyGoes(p) PROVE LocalOK' BY <1>16 DEF KeyGoes
<1>17. ASSUME NEW p \in Procs, ControllerGoes(p) PROVE LocalOK' BY <1>17 DEF ControllerGoes
<1>18. ASSUME NEW p \in Procs, RowGoes(p) PROVE LocalOK' BY <1>18 DEF RowGoes
<1>19. ASSUME NEW v \in Vms, MachineGoes(v) PROVE LocalOK' BY <1>19 DEF MachineGoes
<1> QED BY <1>1, <1>2, <1>3, <1>4, <1>5, <1>6, <1>7, <1>8, <1>9, <1>10, <1>11, <1>12,
           <1>13, <1>14, <1>15, <1>16, <1>17, <1>18, <1>19 DEF Effect

(* So do the rows, the secrets and the queue, ... *)
LEMMA RowsOKStep == IInv /\ Effect => RowsOK'
<1> SUFFICES ASSUME IInv, Effect PROVE RowsOK'
  OBVIOUS
<1> USE NoneAssumption
        DEF Goto, Return, Get, Spoil, Save, Rest, row, guests, local, history,
            Fresh, Exists, Others, Refused, With, NoHandle, CreateLabels,
            DeleteLabels, EarlyLabels, AdminLabels, NodeLabels,
            IInv, TypeInv, TypeOK, RowsOK, Statuses, Keys
<1>1. ASSUME Drops PROVE RowsOK' BY <1>1 DEF Drops
<1>2. ASSUME NEW p \in Procs, Takes(p) PROVE RowsOK' BY <1>2 DEF Takes
<1>3. ASSUME NEW p \in Procs, NEW v \in Vms, TakesNode(p, v) PROVE RowsOK'
  BY <1>3 DEF TakesNode, TakesReport
<1>4. ASSUME NEW p \in Procs, NEW v \in Vms, TakesPosted(p, v) PROVE RowsOK'
  BY <1>4 DEF TakesPosted, TakesReport
<1>5. ASSUME NEW p \in Procs, NEW v \in Vms, TakesFailure(p, v) PROVE RowsOK'
  BY <1>5 DEF TakesFailure, TakesReport
<1>6. ASSUME NEW v \in Vms, Scripts(v) PROVE RowsOK' BY <1>6 DEF Scripts
<1>7. ASSUME NEW p \in Procs, Passes(p) PROVE RowsOK' BY <1>7 DEF Passes
<1>8. ASSUME NEW p \in Procs, CreationRaises(p) PROVE RowsOK' BY <1>8 DEF CreationRaises
<1>9. ASSUME NEW p \in Procs, PrimaryRefused(p) PROVE RowsOK' BY <1>9 DEF PrimaryRefused
<1>10. ASSUME NEW p \in Procs, Stops(p) PROVE RowsOK' BY <1>10 DEF Stops
<1>11. ASSUME NEW p \in Procs, Reads(p) PROVE RowsOK' BY <1>11 DEF Reads
<1>12. ASSUME NEW p \in Procs, Writes(p) PROVE RowsOK' BY <1>12 DEF Writes
<1>13. ASSUME NEW p \in Procs, NEW v \in Vms, Boots(p, v) PROVE RowsOK' BY <1>13 DEF Boots
<1>14. ASSUME NEW p \in Procs, Saves(p) PROVE RowsOK' BY <1>14 DEF Saves
<1>15. ASSUME NEW p \in Procs, DeletionStarts(p) PROVE RowsOK' BY <1>15 DEF DeletionStarts
<1>16. ASSUME NEW p \in Procs, KeyGoes(p) PROVE RowsOK' BY <1>16 DEF KeyGoes
<1>17. ASSUME NEW p \in Procs, ControllerGoes(p) PROVE RowsOK' BY <1>17 DEF ControllerGoes
<1>18. ASSUME NEW p \in Procs, RowGoes(p) PROVE RowsOK' BY <1>18 DEF RowGoes
<1>19. ASSUME NEW v \in Vms, MachineGoes(v) PROVE RowsOK' BY <1>19 DEF MachineGoes
<1> QED BY <1>1, <1>2, <1>3, <1>4, <1>5, <1>6, <1>7, <1>8, <1>9, <1>10, <1>11, <1>12,
           <1>13, <1>14, <1>15, <1>16, <1>17, <1>18, <1>19 DEF Effect

(* ... the machines ... *)
LEMMA VmsOKStep == IInv /\ Effect => VmsOK'
<1> SUFFICES ASSUME IInv, Effect PROVE VmsOK'
  OBVIOUS
<1> USE NoneAssumption
        DEF Goto, Return, Get, Spoil, Save, Rest, row, guests, local, history,
            Fresh, Exists, Others, Refused, With, NoHandle, CreateLabels,
            DeleteLabels, EarlyLabels, AdminLabels, NodeLabels,
            IInv, TypeInv, TypeOK, VmsOK, Roles
<1>1. ASSUME Drops PROVE VmsOK' BY <1>1 DEF Drops
<1>2. ASSUME NEW p \in Procs, Takes(p) PROVE VmsOK' BY <1>2 DEF Takes
<1>3. ASSUME NEW p \in Procs, NEW v \in Vms, TakesNode(p, v) PROVE VmsOK'
  BY <1>3 DEF TakesNode, TakesReport
<1>4. ASSUME NEW p \in Procs, NEW v \in Vms, TakesPosted(p, v) PROVE VmsOK'
  BY <1>4 DEF TakesPosted, TakesReport
<1>5. ASSUME NEW p \in Procs, NEW v \in Vms, TakesFailure(p, v) PROVE VmsOK'
  BY <1>5 DEF TakesFailure, TakesReport
<1>6. ASSUME NEW v \in Vms, Scripts(v) PROVE VmsOK' BY <1>6 DEF Scripts
<1>7. ASSUME NEW p \in Procs, Passes(p) PROVE VmsOK' BY <1>7 DEF Passes
<1>8. ASSUME NEW p \in Procs, CreationRaises(p) PROVE VmsOK' BY <1>8 DEF CreationRaises
<1>9. ASSUME NEW p \in Procs, PrimaryRefused(p) PROVE VmsOK' BY <1>9 DEF PrimaryRefused
<1>10. ASSUME NEW p \in Procs, Stops(p) PROVE VmsOK' BY <1>10 DEF Stops
<1>11. ASSUME NEW p \in Procs, Reads(p) PROVE VmsOK' BY <1>11 DEF Reads
<1>12. ASSUME NEW p \in Procs, Writes(p) PROVE VmsOK' BY <1>12 DEF Writes
<1>13. ASSUME NEW p \in Procs, NEW v \in Vms, Boots(p, v) PROVE VmsOK'
  <2>1. vmRows' \subseteq Vms /\ domains' \subseteq Vms /\ doomed' \subseteq Vms
    BY <1>13 DEF Boots
  <2>2. script' \in [Vms -> {"none", "runs", "posted", "fails", "ended", "silent"}]
    BY <1>13 DEF Boots
  <2>3. role' \in [Vms -> Roles] /\ cluster' \in [Vms -> Clusters \cup {NoCluster}]
    BY <1>13 DEF Boots
  <2> QED BY <2>1, <2>2, <2>3
<1>14. ASSUME NEW p \in Procs, Saves(p) PROVE VmsOK' BY <1>14 DEF Saves
<1>15. ASSUME NEW p \in Procs, DeletionStarts(p) PROVE VmsOK' BY <1>15 DEF DeletionStarts
<1>16. ASSUME NEW p \in Procs, KeyGoes(p) PROVE VmsOK' BY <1>16 DEF KeyGoes
<1>17. ASSUME NEW p \in Procs, ControllerGoes(p) PROVE VmsOK' BY <1>17 DEF ControllerGoes
<1>18. ASSUME NEW p \in Procs, RowGoes(p) PROVE VmsOK' BY <1>18 DEF RowGoes
<1>19. ASSUME NEW v \in Vms, MachineGoes(v) PROVE VmsOK' BY <1>19 DEF MachineGoes
<1> QED BY <1>1, <1>2, <1>3, <1>4, <1>5, <1>6, <1>7, <1>8, <1>9, <1>10, <1>11, <1>12,
           <1>13, <1>14, <1>15, <1>16, <1>17, <1>18, <1>19 DEF Effect

(* ... and the history. *)
LEMMA HistoryOKStep == IInv /\ Effect => HistoryOK'
<1> SUFFICES ASSUME IInv, Effect PROVE HistoryOK'
  OBVIOUS
<1> USE NoneAssumption
        DEF Goto, Return, Get, Spoil, Save, Rest, row, guests, local, history,
            Fresh, Exists, Others, Refused, With, NoHandle, CreateLabels,
            DeleteLabels, EarlyLabels, AdminLabels, NodeLabels,
            IInv, TypeInv, TypeOK, HistoryOK, GuestsOK
<1>1. ASSUME Drops PROVE HistoryOK' BY <1>1 DEF Drops
<1>2. ASSUME NEW p \in Procs, Takes(p) PROVE HistoryOK' BY <1>2 DEF Takes
<1>3. ASSUME NEW p \in Procs, NEW v \in Vms, TakesNode(p, v) PROVE HistoryOK'
  BY <1>3 DEF TakesNode, TakesReport
<1>4. ASSUME NEW p \in Procs, NEW v \in Vms, TakesPosted(p, v) PROVE HistoryOK'
  BY <1>4 DEF TakesPosted, TakesReport
<1>5. ASSUME NEW p \in Procs, NEW v \in Vms, TakesFailure(p, v) PROVE HistoryOK'
  BY <1>5 DEF TakesFailure, TakesReport
<1>6. ASSUME NEW v \in Vms, Scripts(v) PROVE HistoryOK' BY <1>6 DEF Scripts
<1>7. ASSUME NEW p \in Procs, Passes(p) PROVE HistoryOK' BY <1>7 DEF Passes
<1>8. ASSUME NEW p \in Procs, CreationRaises(p) PROVE HistoryOK' BY <1>8 DEF CreationRaises
<1>9. ASSUME NEW p \in Procs, PrimaryRefused(p) PROVE HistoryOK' BY <1>9 DEF PrimaryRefused
<1>10. ASSUME NEW p \in Procs, Stops(p) PROVE HistoryOK' BY <1>10 DEF Stops
<1>11. ASSUME NEW p \in Procs, Reads(p) PROVE HistoryOK' BY <1>11 DEF Reads
<1>12. ASSUME NEW p \in Procs, Writes(p) PROVE HistoryOK' BY <1>12 DEF Writes
<1>13. ASSUME NEW p \in Procs, NEW v \in Vms, Boots(p, v) PROVE HistoryOK'
  BY <1>13 DEF Boots
<1>14. ASSUME NEW p \in Procs, Saves(p) PROVE HistoryOK' BY <1>14 DEF Saves
<1>15. ASSUME NEW p \in Procs, DeletionStarts(p) PROVE HistoryOK'
  BY <1>15 DEF DeletionStarts
<1>16. ASSUME NEW p \in Procs, KeyGoes(p) PROVE HistoryOK' BY <1>16 DEF KeyGoes
<1>17. ASSUME NEW p \in Procs, ControllerGoes(p) PROVE HistoryOK'
  BY <1>17 DEF ControllerGoes
<1>18. ASSUME NEW p \in Procs, RowGoes(p) PROVE HistoryOK' BY <1>18 DEF RowGoes
<1>19. ASSUME NEW v \in Vms, MachineGoes(v) PROVE HistoryOK' BY <1>19 DEF MachineGoes
<1> QED BY <1>1, <1>2, <1>3, <1>4, <1>5, <1>6, <1>7, <1>8, <1>9, <1>10, <1>11, <1>12,
           <1>13, <1>14, <1>15, <1>16, <1>17, <1>18, <1>19 DEF Effect

(* A machine gets its role and its cluster when it is booted, and keeps them. *)
LEMMA GuestsOKStep == IInv /\ Effect => GuestsOK'
<1> SUFFICES ASSUME IInv, Effect PROVE GuestsOK'
  OBVIOUS
<1> USE NoneAssumption
        DEF Goto, Return, Get, Spoil, Save, Rest, row, guests, local, history,
            Fresh, Exists, Others, Refused, With, NoHandle, CreateLabels,
            DeleteLabels, EarlyLabels, AdminLabels, NodeLabels,
            IInv, TypeInv, TypeOK, GuestsOK
<1>1. ASSUME Drops PROVE GuestsOK' BY <1>1 DEF Drops
<1>2. ASSUME NEW p \in Procs, Takes(p) PROVE GuestsOK' BY <1>2 DEF Takes
<1>3. ASSUME NEW p \in Procs, NEW v \in Vms, TakesNode(p, v) PROVE GuestsOK'
  BY <1>3 DEF TakesNode, TakesReport
<1>4. ASSUME NEW p \in Procs, NEW v \in Vms, TakesPosted(p, v) PROVE GuestsOK'
  BY <1>4 DEF TakesPosted, TakesReport
<1>5. ASSUME NEW p \in Procs, NEW v \in Vms, TakesFailure(p, v) PROVE GuestsOK'
  BY <1>5 DEF TakesFailure, TakesReport
<1>6. ASSUME NEW v \in Vms, Scripts(v) PROVE GuestsOK' BY <1>6 DEF Scripts
<1>7. ASSUME NEW p \in Procs, Passes(p) PROVE GuestsOK' BY <1>7 DEF Passes
<1>8. ASSUME NEW p \in Procs, CreationRaises(p) PROVE GuestsOK' BY <1>8 DEF CreationRaises
<1>9. ASSUME NEW p \in Procs, PrimaryRefused(p) PROVE GuestsOK' BY <1>9 DEF PrimaryRefused
<1>10. ASSUME NEW p \in Procs, Stops(p) PROVE GuestsOK' BY <1>10 DEF Stops
<1>11. ASSUME NEW p \in Procs, Reads(p) PROVE GuestsOK' BY <1>11 DEF Reads
<1>12. ASSUME NEW p \in Procs, Writes(p) PROVE GuestsOK' BY <1>12 DEF Writes
<1>13. ASSUME NEW p \in Procs, NEW v \in Vms, Boots(p, v) PROVE GuestsOK' BY <1>13 DEF Boots
<1>14. ASSUME NEW p \in Procs, Saves(p) PROVE GuestsOK' BY <1>14 DEF Saves
<1>15. ASSUME NEW p \in Procs, DeletionStarts(p) PROVE GuestsOK' BY <1>15 DEF DeletionStarts
<1>16. ASSUME NEW p \in Procs, KeyGoes(p) PROVE GuestsOK' BY <1>16 DEF KeyGoes
<1>17. ASSUME NEW p \in Procs, ControllerGoes(p) PROVE GuestsOK' BY <1>17 DEF ControllerGoes
<1>18. ASSUME NEW p \in Procs, RowGoes(p) PROVE GuestsOK' BY <1>18 DEF RowGoes
<1>19. ASSUME NEW v \in Vms, MachineGoes(v) PROVE GuestsOK' BY <1>19 DEF MachineGoes
<1> QED BY <1>1, <1>2, <1>3, <1>4, <1>5, <1>6, <1>7, <1>8, <1>9, <1>10, <1>11, <1>12,
           <1>13, <1>14, <1>15, <1>16, <1>17, <1>18, <1>19 DEF Effect

(* A handler works on a machine of its own cluster: the one it booted, or the one
   that reported. *)
LEMMA MachinesOKStep == IInv /\ Effect => MachinesOK'
<1> SUFFICES ASSUME IInv, Effect PROVE MachinesOK'
  OBVIOUS
<1> USE NoneAssumption
        DEF Goto, Return, Get, Spoil, Save, Rest, row, guests, local, history,
            Fresh, Exists, Others, Refused, With, NoHandle, CreateLabels,
            DeleteLabels, EarlyLabels, AdminLabels, NodeLabels,
            IInv, TypeInv, TypeOK, MachinesOK, GuestsOK, Once, HeldOnce, Controls
<1>1. ASSUME Drops PROVE MachinesOK' BY <1>1 DEF Drops
<1>2. ASSUME NEW p \in Procs, Takes(p) PROVE MachinesOK' BY <1>2 DEF Takes
<1>3. ASSUME NEW p \in Procs, NEW v \in Vms, TakesNode(p, v) PROVE MachinesOK'
  BY <1>3 DEF TakesNode, TakesReport
<1>4. ASSUME NEW p \in Procs, NEW v \in Vms, TakesPosted(p, v) PROVE MachinesOK'
  BY <1>4 DEF TakesPosted, TakesReport
<1>5. ASSUME NEW p \in Procs, NEW v \in Vms, TakesFailure(p, v) PROVE MachinesOK'
  BY <1>5 DEF TakesFailure, TakesReport
<1>6. ASSUME NEW v \in Vms, Scripts(v) PROVE MachinesOK' BY <1>6 DEF Scripts
<1>7. ASSUME NEW p \in Procs, Passes(p) PROVE MachinesOK' BY <1>7 DEF Passes
<1>8. ASSUME NEW p \in Procs, CreationRaises(p) PROVE MachinesOK' BY <1>8 DEF CreationRaises
<1>9. ASSUME NEW p \in Procs, PrimaryRefused(p) PROVE MachinesOK' BY <1>9 DEF PrimaryRefused
<1>10. ASSUME NEW p \in Procs, Stops(p) PROVE MachinesOK' BY <1>10 DEF Stops
<1>11. ASSUME NEW p \in Procs, Reads(p) PROVE MachinesOK' BY <1>11 DEF Reads
<1>12. ASSUME NEW p \in Procs, Writes(p) PROVE MachinesOK' BY <1>12 DEF Writes
<1>13. ASSUME NEW p \in Procs, NEW v \in Vms, Boots(p, v) PROVE MachinesOK'
  BY <1>13 DEF Boots
<1>14. ASSUME NEW p \in Procs, Saves(p) PROVE MachinesOK' BY <1>14 DEF Saves
<1>15. ASSUME NEW p \in Procs, DeletionStarts(p) PROVE MachinesOK'
  BY <1>15 DEF DeletionStarts
<1>16. ASSUME NEW p \in Procs, KeyGoes(p) PROVE MachinesOK' BY <1>16 DEF KeyGoes
<1>17. ASSUME NEW p \in Procs, ControllerGoes(p) PROVE MachinesOK'
  BY <1>17 DEF ControllerGoes
<1>18. ASSUME NEW p \in Procs, RowGoes(p) PROVE MachinesOK' BY <1>18 DEF RowGoes
<1>19. ASSUME NEW v \in Vms, MachineGoes(v) PROVE MachinesOK' BY <1>19 DEF MachineGoes
<1> QED BY <1>1, <1>2, <1>3, <1>4, <1>5, <1>6, <1>7, <1>8, <1>9, <1>10, <1>11, <1>12,
           <1>13, <1>14, <1>15, <1>16, <1>17, <1>18, <1>19 DEF Effect

(* Only a controller is saved as primary, into the row of its cluster. *)
LEMMA PrimariesOKStep == IInv /\ Effect => PrimariesOK'
<1> SUFFICES ASSUME IInv, Effect PROVE PrimariesOK'
  OBVIOUS
<1> USE NoneAssumption
        DEF Goto, Return, Get, Spoil, Save, Rest, row, guests, local, history,
            Fresh, Exists, Others, Refused, With, NoHandle, CreateLabels,
            DeleteLabels, EarlyLabels, AdminLabels, NodeLabels,
            IInv, TypeInv, TypeOK, PrimariesOK, GuestsOK, MachinesOK, Controls
<1>1. ASSUME Drops PROVE PrimariesOK' BY <1>1 DEF Drops
<1>2. ASSUME NEW p \in Procs, Takes(p) PROVE PrimariesOK' BY <1>2 DEF Takes
<1>3. ASSUME NEW p \in Procs, NEW v \in Vms, TakesNode(p, v) PROVE PrimariesOK'
  BY <1>3 DEF TakesNode, TakesReport
<1>4. ASSUME NEW p \in Procs, NEW v \in Vms, TakesPosted(p, v) PROVE PrimariesOK'
  BY <1>4 DEF TakesPosted, TakesReport
<1>5. ASSUME NEW p \in Procs, NEW v \in Vms, TakesFailure(p, v) PROVE PrimariesOK'
  BY <1>5 DEF TakesFailure, TakesReport
<1>6. ASSUME NEW v \in Vms, Scripts(v) PROVE PrimariesOK' BY <1>6 DEF Scripts
<1>7. ASSUME NEW p \in Procs, Passes(p) PROVE PrimariesOK' BY <1>7 DEF Passes
<1>8. ASSUME NEW p \in Procs, CreationRaises(p) PROVE PrimariesOK'
  BY <1>8 DEF CreationRaises
<1>9. ASSUME NEW p \in Procs, PrimaryRefused(p) PROVE PrimariesOK'
  BY <1>9 DEF PrimaryRefused
<1>10. ASSUME NEW p \in Procs, Stops(p) PROVE PrimariesOK' BY <1>10 DEF Stops
<1>11. ASSUME NEW p \in Procs, Reads(p) PROVE PrimariesOK' BY <1>11 DEF Reads
<1>12. ASSUME NEW p \in Procs, Writes(p) PROVE PrimariesOK' BY <1>12 DEF Writes
<1>13. ASSUME NEW p \in Procs, NEW v \in Vms, Boots(p, v) PROVE PrimariesOK'
  BY <1>13 DEF Boots
<1>14. ASSUME NEW p \in Procs, Saves(p) PROVE PrimariesOK' BY <1>14 DEF Saves
<1>15. ASSUME NEW p \in Procs, DeletionStarts(p) PROVE PrimariesOK'
  BY <1>15 DEF DeletionStarts
<1>16. ASSUME NEW p \in Procs, KeyGoes(p) PROVE PrimariesOK' BY <1>16 DEF KeyGoes
<1>17. ASSUME NEW p \in Procs, ControllerGoes(p) PROVE PrimariesOK'
  BY <1>17 DEF ControllerGoes
<1>18. ASSUME NEW p \in Procs, RowGoes(p) PROVE PrimariesOK' BY <1>18 DEF RowGoes
<1>19. ASSUME NEW v \in Vms, MachineGoes(v) PROVE PrimariesOK' BY <1>19 DEF MachineGoes
<1> QED BY <1>1, <1>2, <1>3, <1>4, <1>5, <1>6, <1>7, <1>8, <1>9, <1>10, <1>11, <1>12,
           <1>13, <1>14, <1>15, <1>16, <1>17, <1>18, <1>19 DEF Effect

(* Every save is of the status that was read, of READY, FAILED or DELETING. *)
LEMMA NoneTerminatedStep == IInv /\ Effect => NoneTerminated'
<1> SUFFICES ASSUME IInv, Effect PROVE NoneTerminated'
  OBVIOUS
<1> USE NoneAssumption
        DEF Goto, Return, Get, Spoil, Save, Rest, row, guests, local, history,
            Fresh, Exists, Others, Refused, With, NoHandle, CreateLabels,
            DeleteLabels, EarlyLabels, AdminLabels, NodeLabels,
            IInv, TypeInv, TypeOK, NoneTerminated, GuestsOK
<1>1. ASSUME Drops PROVE NoneTerminated' BY <1>1 DEF Drops
<1>2. ASSUME NEW p \in Procs, Takes(p) PROVE NoneTerminated' BY <1>2 DEF Takes
<1>3. ASSUME NEW p \in Procs, NEW v \in Vms, TakesNode(p, v) PROVE NoneTerminated'
  BY <1>3 DEF TakesNode, TakesReport
<1>4. ASSUME NEW p \in Procs, NEW v \in Vms, TakesPosted(p, v) PROVE NoneTerminated'
  BY <1>4 DEF TakesPosted, TakesReport
<1>5. ASSUME NEW p \in Procs, NEW v \in Vms, TakesFailure(p, v) PROVE NoneTerminated'
  BY <1>5 DEF TakesFailure, TakesReport
<1>6. ASSUME NEW v \in Vms, Scripts(v) PROVE NoneTerminated' BY <1>6 DEF Scripts
<1>7. ASSUME NEW p \in Procs, Passes(p) PROVE NoneTerminated' BY <1>7 DEF Passes
<1>8. ASSUME NEW p \in Procs, CreationRaises(p) PROVE NoneTerminated'
  BY <1>8 DEF CreationRaises
<1>9. ASSUME NEW p \in Procs, PrimaryRefused(p) PROVE NoneTerminated'
  BY <1>9 DEF PrimaryRefused
<1>10. ASSUME NEW p \in Procs, Stops(p) PROVE NoneTerminated' BY <1>10 DEF Stops
<1>11. ASSUME NEW p \in Procs, Reads(p) PROVE NoneTerminated' BY <1>11 DEF Reads
<1>12. ASSUME NEW p \in Procs, Writes(p) PROVE NoneTerminated' BY <1>12 DEF Writes
<1>13. ASSUME NEW p \in Procs, NEW v \in Vms, Boots(p, v) PROVE NoneTerminated'
  BY <1>13 DEF Boots
<1>14. ASSUME NEW p \in Procs, Saves(p) PROVE NoneTerminated' BY <1>14 DEF Saves
<1>15. ASSUME NEW p \in Procs, DeletionStarts(p) PROVE NoneTerminated'
  BY <1>15 DEF DeletionStarts
<1>16. ASSUME NEW p \in Procs, KeyGoes(p) PROVE NoneTerminated' BY <1>16 DEF KeyGoes
<1>17. ASSUME NEW p \in Procs, ControllerGoes(p) PROVE NoneTerminated'
  BY <1>17 DEF ControllerGoes
<1>18. ASSUME NEW p \in Procs, RowGoes(p) PROVE NoneTerminated' BY <1>18 DEF RowGoes
<1>19. ASSUME NEW v \in Vms, MachineGoes(v) PROVE NoneTerminated' BY <1>19 DEF MachineGoes
<1> QED BY <1>1, <1>2, <1>3, <1>4, <1>5, <1>6, <1>7, <1>8, <1>9, <1>10, <1>11, <1>12,
           <1>13, <1>14, <1>15, <1>16, <1>17, <1>18, <1>19 DEF Effect

(* A creation that is still queued has left nothing behind. *)
LEMMA QueuedOnceStep == IInv /\ Effect => QueuedOnce'
<1> SUFFICES ASSUME IInv, Effect PROVE QueuedOnce'
  OBVIOUS
<1> USE NoneAssumption
        DEF Goto, Return, Get, Spoil, Save, Rest, row, guests, local, history,
            Fresh, Exists, Others, Refused, With, NoHandle, CreateLabels,
            DeleteLabels, EarlyLabels, AdminLabels, NodeLabels,
            IInv, TypeInv, TypeOK, QueuedOnce, GuestsOK, MachinesOK, Controls, Once
<1>1. ASSUME Drops PROVE QueuedOnce' BY <1>1 DEF Drops
<1>2. ASSUME NEW p \in Procs, Takes(p) PROVE QueuedOnce' BY <1>2 DEF Takes
<1>3. ASSUME NEW p \in Procs, NEW v \in Vms, TakesNode(p, v) PROVE QueuedOnce'
  BY <1>3 DEF TakesNode, TakesReport
<1>4. ASSUME NEW p \in Procs, NEW v \in Vms, TakesPosted(p, v) PROVE QueuedOnce'
  BY <1>4 DEF TakesPosted, TakesReport
<1>5. ASSUME NEW p \in Procs, NEW v \in Vms, TakesFailure(p, v) PROVE QueuedOnce'
  BY <1>5 DEF TakesFailure, TakesReport
<1>6. ASSUME NEW v \in Vms, Scripts(v) PROVE QueuedOnce' BY <1>6 DEF Scripts
<1>7. ASSUME NEW p \in Procs, Passes(p) PROVE QueuedOnce' BY <1>7 DEF Passes
<1>8. ASSUME NEW p \in Procs, CreationRaises(p) PROVE QueuedOnce' BY <1>8 DEF CreationRaises
<1>9. ASSUME NEW p \in Procs, PrimaryRefused(p) PROVE QueuedOnce' BY <1>9 DEF PrimaryRefused
<1>10. ASSUME NEW p \in Procs, Stops(p) PROVE QueuedOnce' BY <1>10 DEF Stops
<1>11. ASSUME NEW p \in Procs, Reads(p) PROVE QueuedOnce' BY <1>11 DEF Reads
<1>12. ASSUME NEW p \in Procs, Writes(p) PROVE QueuedOnce' BY <1>12 DEF Writes
<1>13. ASSUME NEW p \in Procs, NEW v \in Vms, Boots(p, v) PROVE QueuedOnce'
  BY <1>13 DEF Boots
<1>14. ASSUME NEW p \in Procs, Saves(p) PROVE QueuedOnce' BY <1>14 DEF Saves
<1>15. ASSUME NEW p \in Procs, DeletionStarts(p) PROVE QueuedOnce'
  BY <1>15 DEF DeletionStarts
<1>16. ASSUME NEW p \in Procs, KeyGoes(p) PROVE QueuedOnce' BY <1>16 DEF KeyGoes
<1>17. ASSUME NEW p \in Procs, ControllerGoes(p) PROVE QueuedOnce'
  BY <1>17 DEF ControllerGoes
<1>18. ASSUME NEW p \in Procs, RowGoes(p) PROVE QueuedOnce' BY <1>18 DEF RowGoes
<1>19. ASSUME NEW v \in Vms, MachineGoes(v) PROVE QueuedOnce' BY <1>19 DEF MachineGoes
<1> QED BY <1>1, <1>2, <1>3, <1>4, <1>5, <1>6, <1>7, <1>8, <1>9, <1>10, <1>11, <1>12,
           <1>13, <1>14, <1>15, <1>16, <1>17, <1>18, <1>19 DEF Effect

(* No two processes create one cluster, or serve the posts of one controller. *)
LEMMA HeldOnceStep == IInv /\ Effect => HeldOnce'
<1> SUFFICES ASSUME IInv, Effect PROVE HeldOnce'
  OBVIOUS
<1> USE NoneAssumption
        DEF Goto, Return, Get, Spoil, Save, Rest, row, guests, local, history,
            Fresh, Exists, Others, Refused, With, NoHandle, CreateLabels,
            DeleteLabels, EarlyLabels, AdminLabels, NodeLabels,
            IInv, TypeInv, TypeOK, HeldOnce, GuestsOK, MachinesOK, Controls, Once,
            QueuedOnce, NotYetBooted
<1>1. ASSUME Drops PROVE HeldOnce' BY <1>1 DEF Drops
<1>2. ASSUME NEW p \in Procs, Takes(p) PROVE HeldOnce' BY <1>2 DEF Takes
<1>3. ASSUME NEW p \in Procs, NEW v \in Vms, TakesNode(p, v) PROVE HeldOnce'
  BY <1>3 DEF TakesNode, TakesReport
<1>4. ASSUME NEW p \in Procs, NEW v \in Vms, TakesPosted(p, v) PROVE HeldOnce'
  BY <1>4 DEF TakesPosted, TakesReport
<1>5. ASSUME NEW p \in Procs, NEW v \in Vms, TakesFailure(p, v) PROVE HeldOnce'
  BY <1>5 DEF TakesFailure, TakesReport
<1>6. ASSUME NEW v \in Vms, Scripts(v) PROVE HeldOnce' BY <1>6 DEF Scripts
<1>7. ASSUME NEW p \in Procs, Passes(p) PROVE HeldOnce' BY <1>7 DEF Passes
<1>8. ASSUME NEW p \in Procs, CreationRaises(p) PROVE HeldOnce' BY <1>8 DEF CreationRaises
<1>9. ASSUME NEW p \in Procs, PrimaryRefused(p) PROVE HeldOnce' BY <1>9 DEF PrimaryRefused
<1>10. ASSUME NEW p \in Procs, Stops(p) PROVE HeldOnce' BY <1>10 DEF Stops
<1>11. ASSUME NEW p \in Procs, Reads(p) PROVE HeldOnce' BY <1>11 DEF Reads
<1>12. ASSUME NEW p \in Procs, Writes(p) PROVE HeldOnce' BY <1>12 DEF Writes
<1>13. ASSUME NEW p \in Procs, NEW v \in Vms, Boots(p, v) PROVE HeldOnce' BY <1>13 DEF Boots
<1>14. ASSUME NEW p \in Procs, Saves(p) PROVE HeldOnce' BY <1>14 DEF Saves
<1>15. ASSUME NEW p \in Procs, DeletionStarts(p) PROVE HeldOnce' BY <1>15 DEF DeletionStarts
<1>16. ASSUME NEW p \in Procs, KeyGoes(p) PROVE HeldOnce' BY <1>16 DEF KeyGoes
<1>17. ASSUME NEW p \in Procs, ControllerGoes(p) PROVE HeldOnce' BY <1>17 DEF ControllerGoes
<1>18. ASSUME NEW p \in Procs, RowGoes(p) PROVE HeldOnce' BY <1>18 DEF RowGoes
<1>19. ASSUME NEW v \in Vms, MachineGoes(v) PROVE HeldOnce' BY <1>19 DEF MachineGoes
<1> QED BY <1>1, <1>2, <1>3, <1>4, <1>5, <1>6, <1>7, <1>8, <1>9, <1>10, <1>11, <1>12,
           <1>13, <1>14, <1>15, <1>16, <1>17, <1>18, <1>19 DEF Effect

(* No controller exists until its creation has booted it. *)
LEMMA NotYetBootedStep == IInv /\ Effect => NotYetBooted'
<1> SUFFICES ASSUME IInv, Effect PROVE NotYetBooted'
  OBVIOUS
<1> USE NoneAssumption
        DEF Goto, Return, Get, Spoil, Save, Rest, row, guests, local, history,
            Fresh, Exists, Others, Refused, With, NoHandle, CreateLabels,
            DeleteLabels, EarlyLabels, AdminLabels, NodeLabels,
            IInv, TypeInv, TypeOK, NotYetBooted, GuestsOK, Controls, Once, QueuedOnce,
            HeldOnce
<1>1. ASSUME Drops PROVE NotYetBooted' BY <1>1 DEF Drops
<1>2. ASSUME NEW p \in Procs, Takes(p) PROVE NotYetBooted' BY <1>2 DEF Takes
<1>3. ASSUME NEW p \in Procs, NEW v \in Vms, TakesNode(p, v) PROVE NotYetBooted'
  BY <1>3 DEF TakesNode, TakesReport
<1>4. ASSUME NEW p \in Procs, NEW v \in Vms, TakesPosted(p, v) PROVE NotYetBooted'
  BY <1>4 DEF TakesPosted, TakesReport
<1>5. ASSUME NEW p \in Procs, NEW v \in Vms, TakesFailure(p, v) PROVE NotYetBooted'
  BY <1>5 DEF TakesFailure, TakesReport
<1>6. ASSUME NEW v \in Vms, Scripts(v) PROVE NotYetBooted' BY <1>6 DEF Scripts
<1>7. ASSUME NEW p \in Procs, Passes(p) PROVE NotYetBooted' BY <1>7 DEF Passes
<1>8. ASSUME NEW p \in Procs, CreationRaises(p) PROVE NotYetBooted'
  BY <1>8 DEF CreationRaises
<1>9. ASSUME NEW p \in Procs, PrimaryRefused(p) PROVE NotYetBooted'
  BY <1>9 DEF PrimaryRefused
<1>10. ASSUME NEW p \in Procs, Stops(p) PROVE NotYetBooted' BY <1>10 DEF Stops
<1>11. ASSUME NEW p \in Procs, Reads(p) PROVE NotYetBooted' BY <1>11 DEF Reads
<1>12. ASSUME NEW p \in Procs, Writes(p) PROVE NotYetBooted' BY <1>12 DEF Writes
<1>13. ASSUME NEW p \in Procs, NEW v \in Vms, Boots(p, v) PROVE NotYetBooted'
  BY <1>13 DEF Boots
<1>14. ASSUME NEW p \in Procs, Saves(p) PROVE NotYetBooted' BY <1>14 DEF Saves
<1>15. ASSUME NEW p \in Procs, DeletionStarts(p) PROVE NotYetBooted'
  BY <1>15 DEF DeletionStarts
<1>16. ASSUME NEW p \in Procs, KeyGoes(p) PROVE NotYetBooted' BY <1>16 DEF KeyGoes
<1>17. ASSUME NEW p \in Procs, ControllerGoes(p) PROVE NotYetBooted'
  BY <1>17 DEF ControllerGoes
<1>18. ASSUME NEW p \in Procs, RowGoes(p) PROVE NotYetBooted' BY <1>18 DEF RowGoes
<1>19. ASSUME NEW v \in Vms, MachineGoes(v) PROVE NotYetBooted' BY <1>19 DEF MachineGoes
<1> QED BY <1>1, <1>2, <1>3, <1>4, <1>5, <1>6, <1>7, <1>8, <1>9, <1>10, <1>11, <1>12,
           <1>13, <1>14, <1>15, <1>16, <1>17, <1>18, <1>19 DEF Effect

(* A cluster has one controller at most. *)
LEMMA OneControllerStep == IInv /\ Effect => OneController'
<1> SUFFICES ASSUME IInv, Effect PROVE OneController'
  OBVIOUS
<1> USE NoneAssumption
        DEF Goto, Return, Get, Spoil, Save, Rest, row, guests, local, history,
            Fresh, Exists, Others, Refused, With, NoHandle, CreateLabels,
            DeleteLabels, EarlyLabels, AdminLabels, NodeLabels,
            IInv, TypeInv, TypeOK, OneController, GuestsOK, Controls, Once, NotYetBooted
<1>1. ASSUME Drops PROVE OneController' BY <1>1 DEF Drops
<1>2. ASSUME NEW p \in Procs, Takes(p) PROVE OneController' BY <1>2 DEF Takes
<1>3. ASSUME NEW p \in Procs, NEW v \in Vms, TakesNode(p, v) PROVE OneController'
  BY <1>3 DEF TakesNode, TakesReport
<1>4. ASSUME NEW p \in Procs, NEW v \in Vms, TakesPosted(p, v) PROVE OneController'
  BY <1>4 DEF TakesPosted, TakesReport
<1>5. ASSUME NEW p \in Procs, NEW v \in Vms, TakesFailure(p, v) PROVE OneController'
  BY <1>5 DEF TakesFailure, TakesReport
<1>6. ASSUME NEW v \in Vms, Scripts(v) PROVE OneController' BY <1>6 DEF Scripts
<1>7. ASSUME NEW p \in Procs, Passes(p) PROVE OneController' BY <1>7 DEF Passes
<1>8. ASSUME NEW p \in Procs, CreationRaises(p) PROVE OneController'
  BY <1>8 DEF CreationRaises
<1>9. ASSUME NEW p \in Procs, PrimaryRefused(p) PROVE OneController'
  BY <1>9 DEF PrimaryRefused
<1>10. ASSUME NEW p \in Procs, Stops(p) PROVE OneController' BY <1>10 DEF Stops
<1>11. ASSUME NEW p \in Procs, Reads(p) PROVE OneController' BY <1>11 DEF Reads
<1>12. ASSUME NEW p \in Procs, Writes(p) PROVE OneController' BY <1>12 DEF Writes
<1>13. ASSUME NEW p \in Procs, NEW v \in Vms, Boots(p, v) PROVE OneController'
  BY <1>13 DEF Boots
<1>14. ASSUME NEW p \in Procs, Saves(p) PROVE OneController' BY <1>14 DEF Saves
<1>15. ASSUME NEW p \in Procs, DeletionStarts(p) PROVE OneController'
  BY <1>15 DEF DeletionStarts
<1>16. ASSUME NEW p \in Procs, KeyGoes(p) PROVE OneController' BY <1>16 DEF KeyGoes
<1>17. ASSUME NEW p \in Procs, ControllerGoes(p) PROVE OneController'
  BY <1>17 DEF ControllerGoes
<1>18. ASSUME NEW p \in Procs, RowGoes(p) PROVE OneController' BY <1>18 DEF RowGoes
<1>19. ASSUME NEW v \in Vms, MachineGoes(v) PROVE OneController' BY <1>19 DEF MachineGoes
<1> QED BY <1>1, <1>2, <1>3, <1>4, <1>5, <1>6, <1>7, <1>8, <1>9, <1>10, <1>11, <1>12,
           <1>13, <1>14, <1>15, <1>16, <1>17, <1>18, <1>19 DEF Effect

(* What store_dict read is still all that is stored when it writes: nobody else
   creates the cluster or serves its controller. *)
LEMMA MergedStep == IInv /\ Effect => Merged'
<1> SUFFICES ASSUME IInv, Effect PROVE Merged'
  OBVIOUS
<1> USE NoneAssumption
        DEF Goto, Return, Get, Spoil, Save, Rest, row, guests, local, history,
            Fresh, Exists, Others, Refused, With, NoHandle, CreateLabels,
            DeleteLabels, EarlyLabels, AdminLabels, NodeLabels,
            IInv, TypeInv, TypeOK, Merged, MachinesOK, Controls, Once, HeldOnce,
            NotYetBooted, OneController
<1>1. ASSUME Drops PROVE Merged' BY <1>1 DEF Drops
<1>2. ASSUME NEW p \in Procs, Takes(p) PROVE Merged' BY <1>2 DEF Takes
<1>3. ASSUME NEW p \in Procs, NEW v \in Vms, TakesNode(p, v) PROVE Merged'
  BY <1>3 DEF TakesNode, TakesReport
<1>4. ASSUME NEW p \in Procs, NEW v \in Vms, TakesPosted(p, v) PROVE Merged'
  BY <1>4 DEF TakesPosted, TakesReport
<1>5. ASSUME NEW p \in Procs, NEW v \in Vms, TakesFailure(p, v) PROVE Merged'
  BY <1>5 DEF TakesFailure, TakesReport
<1>6. ASSUME NEW v \in Vms, Scripts(v) PROVE Merged' BY <1>6 DEF Scripts
<1>7. ASSUME NEW p \in Procs, Passes(p) PROVE Merged' BY <1>7 DEF Passes
<1>8. ASSUME NEW p \in Procs, CreationRaises(p) PROVE Merged' BY <1>8 DEF CreationRaises
<1>9. ASSUME NEW p \in Procs, PrimaryRefused(p) PROVE Merged' BY <1>9 DEF PrimaryRefused
<1>10. ASSUME NEW p \in Procs, Stops(p) PROVE Merged' BY <1>10 DEF Stops
<1>11. ASSUME NEW p \in Procs, Reads(p) PROVE Merged' BY <1>11 DEF Reads
<1>12. ASSUME NEW p \in Procs, Writes(p) PROVE Merged' BY <1>12 DEF Writes
<1>13. ASSUME NEW p \in Procs, NEW v \in Vms, Boots(p, v) PROVE Merged' BY <1>13 DEF Boots
<1>14. ASSUME NEW p \in Procs, Saves(p) PROVE Merged' BY <1>14 DEF Saves
<1>15. ASSUME NEW p \in Procs, DeletionStarts(p) PROVE Merged' BY <1>15 DEF DeletionStarts
<1>16. ASSUME NEW p \in Procs, KeyGoes(p) PROVE Merged' BY <1>16 DEF KeyGoes
<1>17. ASSUME NEW p \in Procs, ControllerGoes(p) PROVE Merged' BY <1>17 DEF ControllerGoes
<1>18. ASSUME NEW p \in Procs, RowGoes(p) PROVE Merged' BY <1>18 DEF RowGoes
<1>19. ASSUME NEW v \in Vms, MachineGoes(v) PROVE Merged' BY <1>19 DEF MachineGoes
<1> QED BY <1>1, <1>2, <1>3, <1>4, <1>5, <1>6, <1>7, <1>8, <1>9, <1>10, <1>11, <1>12,
           <1>13, <1>14, <1>15, <1>16, <1>17, <1>18, <1>19 DEF Effect

(* A cluster that is being deleted is nobody else's, unless it is crossed. *)
LEMMA AloneStep == IInv /\ Effect => Alone'
<1> SUFFICES ASSUME IInv, Effect PROVE Alone'
  OBVIOUS
<1> USE NoneAssumption
        DEF Goto, Return, Get, Spoil, Save, Rest, row, guests, local, history,
            Fresh, Exists, Others, Refused, With, NoHandle, CreateLabels,
            DeleteLabels, EarlyLabels, AdminLabels, NodeLabels,
            IInv, TypeInv, TypeOK, Alone, GuestsOK, Gone
<1>1. ASSUME Drops PROVE Alone' BY <1>1 DEF Drops
<1>2. ASSUME NEW p \in Procs, Takes(p) PROVE Alone' BY <1>2 DEF Takes
<1>3. ASSUME NEW p \in Procs, NEW v \in Vms, TakesNode(p, v) PROVE Alone'
  BY <1>3 DEF TakesNode, TakesReport
<1>4. ASSUME NEW p \in Procs, NEW v \in Vms, TakesPosted(p, v) PROVE Alone'
  BY <1>4 DEF TakesPosted, TakesReport
<1>5. ASSUME NEW p \in Procs, NEW v \in Vms, TakesFailure(p, v) PROVE Alone'
  BY <1>5 DEF TakesFailure, TakesReport
<1>6. ASSUME NEW v \in Vms, Scripts(v) PROVE Alone' BY <1>6 DEF Scripts
<1>7. ASSUME NEW p \in Procs, Passes(p) PROVE Alone' BY <1>7 DEF Passes
<1>8. ASSUME NEW p \in Procs, CreationRaises(p) PROVE Alone' BY <1>8 DEF CreationRaises
<1>9. ASSUME NEW p \in Procs, PrimaryRefused(p) PROVE Alone' BY <1>9 DEF PrimaryRefused
<1>10. ASSUME NEW p \in Procs, Stops(p) PROVE Alone' BY <1>10 DEF Stops
<1>11. ASSUME NEW p \in Procs, Reads(p) PROVE Alone' BY <1>11 DEF Reads
<1>12. ASSUME NEW p \in Procs, Writes(p) PROVE Alone'
  <2>1. Gone'
    BY <1>12 DEF Writes
  <2> QED BY <1>12, <2>1 DEF Writes
<1>13. ASSUME NEW p \in Procs, NEW v \in Vms, Boots(p, v) PROVE Alone' BY <1>13 DEF Boots
<1>14. ASSUME NEW p \in Procs, Saves(p) PROVE Alone' BY <1>14 DEF Saves
<1>15. ASSUME NEW p \in Procs, DeletionStarts(p) PROVE Alone' BY <1>15 DEF DeletionStarts
<1>16. ASSUME NEW p \in Procs, KeyGoes(p) PROVE Alone' BY <1>16 DEF KeyGoes
<1>17. ASSUME NEW p \in Procs, ControllerGoes(p) PROVE Alone' BY <1>17 DEF ControllerGoes
<1>18. ASSUME NEW p \in Procs, RowGoes(p) PROVE Alone' BY <1>18 DEF RowGoes
<1>19. ASSUME NEW v \in Vms, MachineGoes(v) PROVE Alone' BY <1>19 DEF MachineGoes
<1> QED BY <1>1, <1>2, <1>3, <1>4, <1>5, <1>6, <1>7, <1>8, <1>9, <1>10, <1>11, <1>12,
           <1>13, <1>14, <1>15, <1>16, <1>17, <1>18, <1>19 DEF Effect

(* A handler that comes to a label has stored what comes before. *)
LEMMA SecretsOfHandlersStep == IInv /\ Effect => SecretsOfHandlers'
<1> SUFFICES ASSUME IInv, Effect PROVE SecretsOfHandlers'
  OBVIOUS
<1> USE NoneAssumption
        DEF Goto, Return, Get, Spoil, Save, Rest, row, guests, local, history,
            Fresh, Exists, Others, Refused, With, NoHandle, CreateLabels,
            DeleteLabels, EarlyLabels, AdminLabels, NodeLabels,
            IInv, TypeInv, TypeOK, SecretsOfHandlers, GuestsOK, MachinesOK, Controls,
            Merged, Alone, Secrets, SecretsOfRows, Stored, Keys
<1>1. ASSUME Drops PROVE SecretsOfHandlers' BY <1>1 DEF Drops
<1>2. ASSUME NEW p \in Procs, Takes(p) PROVE SecretsOfHandlers' BY <1>2 DEF Takes
<1>3. ASSUME NEW p \in Procs, NEW v \in Vms, TakesNode(p, v) PROVE SecretsOfHandlers'
  BY <1>3 DEF TakesNode, TakesReport
<1>4. ASSUME NEW p \in Procs, NEW v \in Vms, TakesPosted(p, v) PROVE SecretsOfHandlers'
  BY <1>4 DEF TakesPosted, TakesReport
<1>5. ASSUME NEW p \in Procs, NEW v \in Vms, TakesFailure(p, v) PROVE SecretsOfHandlers'
  BY <1>5 DEF TakesFailure, TakesReport
<1>6. ASSUME NEW v \in Vms, Scripts(v) PROVE SecretsOfHandlers' BY <1>6 DEF Scripts
<1>7. ASSUME NEW p \in Procs, Passes(p) PROVE SecretsOfHandlers' BY <1>7 DEF Passes
<1>8. ASSUME NEW p \in Procs, CreationRaises(p) PROVE SecretsOfHandlers'
  BY <1>8 DEF CreationRaises
<1>9. ASSUME NEW p \in Procs, PrimaryRefused(p) PROVE SecretsOfHandlers'
  BY <1>9 DEF PrimaryRefused
<1>10. ASSUME NEW p \in Procs, Stops(p) PROVE SecretsOfHandlers' BY <1>10 DEF Stops
<1>11. ASSUME NEW p \in Procs, Reads(p) PROVE SecretsOfHandlers' BY <1>11 DEF Reads
<1>12. ASSUME NEW p \in Procs, Writes(p) PROVE SecretsOfHandlers' BY <1>12 DEF Writes
<1>13. ASSUME NEW p \in Procs, NEW v \in Vms, Boots(p, v) PROVE SecretsOfHandlers'
  BY <1>13 DEF Boots
<1>14. ASSUME NEW p \in Procs, Saves(p) PROVE SecretsOfHandlers' BY <1>14 DEF Saves
<1>15. ASSUME NEW p \in Procs, DeletionStarts(p) PROVE SecretsOfHandlers'
  BY <1>15 DEF DeletionStarts
<1>16. ASSUME NEW p \in Procs, KeyGoes(p) PROVE SecretsOfHandlers' BY <1>16 DEF KeyGoes
<1>17. ASSUME NEW p \in Procs, ControllerGoes(p) PROVE SecretsOfHandlers'
  BY <1>17 DEF ControllerGoes
<1>18. ASSUME NEW p \in Procs, RowGoes(p) PROVE SecretsOfHandlers' BY <1>18 DEF RowGoes
<1>19. ASSUME NEW v \in Vms, MachineGoes(v) PROVE SecretsOfHandlers'
  BY <1>19 DEF MachineGoes
<1> QED BY <1>1, <1>2, <1>3, <1>4, <1>5, <1>6, <1>7, <1>8, <1>9, <1>10, <1>11, <1>12,
           <1>13, <1>14, <1>15, <1>16, <1>17, <1>18, <1>19 DEF Effect

(* A controller boots once the token is stored, and the row becomes READY once its
   secrets are. *)
LEMMA SecretsOfRowsStep == IInv /\ Effect => SecretsOfRows'
<1> SUFFICES ASSUME IInv, Effect PROVE SecretsOfRows'
  OBVIOUS
<1> USE NoneAssumption
        DEF Goto, Return, Get, Spoil, Save, Rest, row, guests, local, history,
            Fresh, Exists, Others, Refused, With, NoHandle, CreateLabels,
            DeleteLabels, EarlyLabels, AdminLabels, NodeLabels,
            IInv, TypeInv, TypeOK, SecretsOfRows, GuestsOK, MachinesOK, Controls,
            Merged, Alone, Secrets, SecretsOfHandlers, Stored, Keys
<1>1. ASSUME Drops PROVE SecretsOfRows' BY <1>1 DEF Drops
<1>2. ASSUME NEW p \in Procs, Takes(p) PROVE SecretsOfRows' BY <1>2 DEF Takes
<1>3. ASSUME NEW p \in Procs, NEW v \in Vms, TakesNode(p, v) PROVE SecretsOfRows'
  BY <1>3 DEF TakesNode, TakesReport
<1>4. ASSUME NEW p \in Procs, NEW v \in Vms, TakesPosted(p, v) PROVE SecretsOfRows'
  BY <1>4 DEF TakesPosted, TakesReport
<1>5. ASSUME NEW p \in Procs, NEW v \in Vms, TakesFailure(p, v) PROVE SecretsOfRows'
  BY <1>5 DEF TakesFailure, TakesReport
<1>6. ASSUME NEW v \in Vms, Scripts(v) PROVE SecretsOfRows' BY <1>6 DEF Scripts
<1>7. ASSUME NEW p \in Procs, Passes(p) PROVE SecretsOfRows' BY <1>7 DEF Passes
<1>8. ASSUME NEW p \in Procs, CreationRaises(p) PROVE SecretsOfRows'
  BY <1>8 DEF CreationRaises
<1>9. ASSUME NEW p \in Procs, PrimaryRefused(p) PROVE SecretsOfRows'
  BY <1>9 DEF PrimaryRefused
<1>10. ASSUME NEW p \in Procs, Stops(p) PROVE SecretsOfRows' BY <1>10 DEF Stops
<1>11. ASSUME NEW p \in Procs, Reads(p) PROVE SecretsOfRows' BY <1>11 DEF Reads
<1>12. ASSUME NEW p \in Procs, Writes(p) PROVE SecretsOfRows' BY <1>12 DEF Writes
<1>13. ASSUME NEW p \in Procs, NEW v \in Vms, Boots(p, v) PROVE SecretsOfRows'
  BY <1>13 DEF Boots
<1>14. ASSUME NEW p \in Procs, Saves(p) PROVE SecretsOfRows' BY <1>14 DEF Saves
<1>15. ASSUME NEW p \in Procs, DeletionStarts(p) PROVE SecretsOfRows'
  BY <1>15 DEF DeletionStarts
<1>16. ASSUME NEW p \in Procs, KeyGoes(p) PROVE SecretsOfRows' BY <1>16 DEF KeyGoes
<1>17. ASSUME NEW p \in Procs, ControllerGoes(p) PROVE SecretsOfRows'
  BY <1>17 DEF ControllerGoes
<1>18. ASSUME NEW p \in Procs, RowGoes(p) PROVE SecretsOfRows' BY <1>18 DEF RowGoes
<1>19. ASSUME NEW v \in Vms, MachineGoes(v) PROVE SecretsOfRows' BY <1>19 DEF MachineGoes
<1> QED BY <1>1, <1>2, <1>3, <1>4, <1>5, <1>6, <1>7, <1>8, <1>9, <1>10, <1>11, <1>12,
           <1>13, <1>14, <1>15, <1>16, <1>17, <1>18, <1>19 DEF Effect

(* A controller loses its row by a deletion only, or else its cluster is spoiled. *)
LEMMA GuestsHaveRowsStep == IInv /\ Effect => GuestsHaveRows'
<1> SUFFICES ASSUME IInv, Effect PROVE GuestsHaveRows'
  OBVIOUS
<1> USE NoneAssumption
        DEF Goto, Return, Get, Spoil, Save, Rest, row, guests, local, history,
            Fresh, Exists, Others, Refused, With, NoHandle, CreateLabels,
            DeleteLabels, EarlyLabels, AdminLabels, NodeLabels,
            IInv, TypeInv, TypeOK, GuestsHaveRows, GuestsOK, MachinesOK, Controls,
            Released
<1>1. ASSUME Drops PROVE GuestsHaveRows' BY <1>1 DEF Drops
<1>2. ASSUME NEW p \in Procs, Takes(p) PROVE GuestsHaveRows' BY <1>2 DEF Takes
<1>3. ASSUME NEW p \in Procs, NEW v \in Vms, TakesNode(p, v) PROVE GuestsHaveRows'
  BY <1>3 DEF TakesNode, TakesReport
<1>4. ASSUME NEW p \in Procs, NEW v \in Vms, TakesPosted(p, v) PROVE GuestsHaveRows'
  BY <1>4 DEF TakesPosted, TakesReport
<1>5. ASSUME NEW p \in Procs, NEW v \in Vms, TakesFailure(p, v) PROVE GuestsHaveRows'
  BY <1>5 DEF TakesFailure, TakesReport
<1>6. ASSUME NEW v \in Vms, Scripts(v) PROVE GuestsHaveRows' BY <1>6 DEF Scripts
<1>7. ASSUME NEW p \in Procs, Passes(p) PROVE GuestsHaveRows' BY <1>7 DEF Passes
<1>8. ASSUME NEW p \in Procs, CreationRaises(p) PROVE GuestsHaveRows'
  BY <1>8 DEF CreationRaises
<1>9. ASSUME NEW p \in Procs, PrimaryRefused(p) PROVE GuestsHaveRows'
  BY <1>9 DEF PrimaryRefused
<1>10. ASSUME NEW p \in Procs, Stops(p) PROVE GuestsHaveRows' BY <1>10 DEF Stops
<1>11. ASSUME NEW p \in Procs, Reads(p) PROVE GuestsHaveRows' BY <1>11 DEF Reads
<1>12. ASSUME NEW p \in Procs, Writes(p) PROVE GuestsHaveRows' BY <1>12 DEF Writes
<1>13. ASSUME NEW p \in Procs, NEW v \in Vms, Boots(p, v) PROVE GuestsHaveRows'
  BY <1>13 DEF Boots
<1>14. ASSUME NEW p \in Procs, Saves(p) PROVE GuestsHaveRows' BY <1>14 DEF Saves
<1>15. ASSUME NEW p \in Procs, DeletionStarts(p) PROVE GuestsHaveRows'
  BY <1>15 DEF DeletionStarts
<1>16. ASSUME NEW p \in Procs, KeyGoes(p) PROVE GuestsHaveRows' BY <1>16 DEF KeyGoes
<1>17. ASSUME NEW p \in Procs, ControllerGoes(p) PROVE GuestsHaveRows'
  BY <1>17 DEF ControllerGoes
<1>18. ASSUME NEW p \in Procs, RowGoes(p) PROVE GuestsHaveRows' BY <1>18 DEF RowGoes
<1>19. ASSUME NEW v \in Vms, MachineGoes(v) PROVE GuestsHaveRows' BY <1>19 DEF MachineGoes
<1> QED BY <1>1, <1>2, <1>3, <1>4, <1>5, <1>6, <1>7, <1>8, <1>9, <1>10, <1>11, <1>12,
           <1>13, <1>14, <1>15, <1>16, <1>17, <1>18, <1>19 DEF Effect

(* Only the deletion of a cluster dooms its controller. *)
LEMMA DoomedByDeletionStep == IInv /\ Effect => DoomedByDeletion'
<1> SUFFICES ASSUME IInv, Effect PROVE DoomedByDeletion'
  OBVIOUS
<1> USE NoneAssumption
        DEF Goto, Return, Get, Spoil, Save, Rest, row, guests, local, history,
            Fresh, Exists, Others, Refused, With, NoHandle, CreateLabels,
            DeleteLabels, EarlyLabels, AdminLabels, NodeLabels,
            IInv, TypeInv, TypeOK, DoomedByDeletion, GuestsOK, MachinesOK, PrimariesOK,
            Controls, Alone, Released
<1>1. ASSUME Drops PROVE DoomedByDeletion' BY <1>1 DEF Drops
<1>2. ASSUME NEW p \in Procs, Takes(p) PROVE DoomedByDeletion' BY <1>2 DEF Takes
<1>3. ASSUME NEW p \in Procs, NEW v \in Vms, TakesNode(p, v) PROVE DoomedByDeletion'
  BY <1>3 DEF TakesNode, TakesReport
<1>4. ASSUME NEW p \in Procs, NEW v \in Vms, TakesPosted(p, v) PROVE DoomedByDeletion'
  BY <1>4 DEF TakesPosted, TakesReport
<1>5. ASSUME NEW p \in Procs, NEW v \in Vms, TakesFailure(p, v) PROVE DoomedByDeletion'
  BY <1>5 DEF TakesFailure, TakesReport
<1>6. ASSUME NEW v \in Vms, Scripts(v) PROVE DoomedByDeletion' BY <1>6 DEF Scripts
<1>7. ASSUME NEW p \in Procs, Passes(p) PROVE DoomedByDeletion' BY <1>7 DEF Passes
<1>8. ASSUME NEW p \in Procs, CreationRaises(p) PROVE DoomedByDeletion'
  BY <1>8 DEF CreationRaises
<1>9. ASSUME NEW p \in Procs, PrimaryRefused(p) PROVE DoomedByDeletion'
  BY <1>9 DEF PrimaryRefused
<1>10. ASSUME NEW p \in Procs, Stops(p) PROVE DoomedByDeletion' BY <1>10 DEF Stops
<1>11. ASSUME NEW p \in Procs, Reads(p) PROVE DoomedByDeletion' BY <1>11 DEF Reads
<1>12. ASSUME NEW p \in Procs, Writes(p) PROVE DoomedByDeletion' BY <1>12 DEF Writes
<1>13. ASSUME NEW p \in Procs, NEW v \in Vms, Boots(p, v) PROVE DoomedByDeletion'
  BY <1>13 DEF Boots
<1>14. ASSUME NEW p \in Procs, Saves(p) PROVE DoomedByDeletion' BY <1>14 DEF Saves
<1>15. ASSUME NEW p \in Procs, DeletionStarts(p) PROVE DoomedByDeletion'
  BY <1>15 DEF DeletionStarts
<1>16. ASSUME NEW p \in Procs, KeyGoes(p) PROVE DoomedByDeletion' BY <1>16 DEF KeyGoes
<1>17. ASSUME NEW p \in Procs, ControllerGoes(p) PROVE DoomedByDeletion'
  BY <1>17 DEF ControllerGoes
<1>18. ASSUME NEW p \in Procs, RowGoes(p) PROVE DoomedByDeletion' BY <1>18 DEF RowGoes
<1>19. ASSUME NEW v \in Vms, MachineGoes(v) PROVE DoomedByDeletion' BY <1>19 DEF MachineGoes
<1> QED BY <1>1, <1>2, <1>3, <1>4, <1>5, <1>6, <1>7, <1>8, <1>9, <1>10, <1>11, <1>12,
           <1>13, <1>14, <1>15, <1>16, <1>17, <1>18, <1>19 DEF Effect

(* The row names the controller that runs, or its creation still has to save it. *)
LEMMA RowHasControllerStep == IInv /\ Effect => RowHasController'
<1> SUFFICES ASSUME IInv, Effect PROVE RowHasController'
  OBVIOUS
<1> USE NoneAssumption
        DEF Goto, Return, Get, Spoil, Save, Rest, row, guests, local, history,
            Fresh, Exists, Others, Refused, With, NoHandle, CreateLabels,
            DeleteLabels, EarlyLabels, AdminLabels, NodeLabels,
            IInv, TypeInv, TypeOK, RowHasController, GuestsOK, MachinesOK, PrimariesOK,
            Controls, Once, HeldOnce, NotYetBooted, OneController, Released,
            GuestsHaveRows, Faulted
<1>1. ASSUME Drops PROVE RowHasController' BY <1>1 DEF Drops
<1>2. ASSUME NEW p \in Procs, Takes(p) PROVE RowHasController'
  <2> SUFFICES ASSUME NEW w \in domains' \ doomed', NEW c, c = cluster'[w],
                      role'[w] = "controller", c \notin Faulted'
               PROVE  \/ primary'[c] = w
                      \/ \E q \in Procs : /\ on'[q] = c /\ machine'[q] = w
                                         /\ at'[q] \in {"booted", "primary"}
    BY DEF RowHasController
  <2>1. /\ w \in domains \ doomed /\ role[w] = "controller" /\ c = cluster[w]
        /\ c \notin Faulted /\ w \in Vms
    BY <1>2 DEF Takes
  <2>2. CASE primary[c] = w
    BY <1>2, <2>1, <2>2 DEF Takes
  <2>3. CASE \E q \in Procs : on[q] = c /\ at[q] \in {"booted", "primary"} /\ machine[q] = w
    <3> PICK q \in Procs : on[q] = c /\ at[q] \in {"booted", "primary"} /\ machine[q] = w
      BY <2>3
    <3> QED BY <1>2, <2>1 DEF Takes
  <2> QED BY <2>1, <2>2, <2>3
<1>3. ASSUME NEW p \in Procs, NEW v \in Vms, TakesNode(p, v) PROVE RowHasController'
  BY <1>3 DEF TakesNode, TakesReport
<1>4. ASSUME NEW p \in Procs, NEW v \in Vms, TakesPosted(p, v) PROVE RowHasController'
  BY <1>4 DEF TakesPosted, TakesReport
<1>5. ASSUME NEW p \in Procs, NEW v \in Vms, TakesFailure(p, v) PROVE RowHasController'
  BY <1>5 DEF TakesFailure, TakesReport
<1>6. ASSUME NEW v \in Vms, Scripts(v) PROVE RowHasController' BY <1>6 DEF Scripts
<1>7. ASSUME NEW p \in Procs, Passes(p) PROVE RowHasController' BY <1>7 DEF Passes
<1>8. ASSUME NEW p \in Procs, CreationRaises(p) PROVE RowHasController'
  BY <1>8 DEF CreationRaises
<1>9. ASSUME NEW p \in Procs, PrimaryRefused(p) PROVE RowHasController'
  BY <1>9 DEF PrimaryRefused
<1>10. ASSUME NEW p \in Procs, Stops(p) PROVE RowHasController'
  <2> SUFFICES ASSUME NEW w \in domains' \ doomed', NEW c, c = cluster'[w],
                      role'[w] = "controller", c \notin Faulted'
               PROVE  \/ primary'[c] = w
                      \/ \E q \in Procs : /\ on'[q] = c /\ machine'[q] = w
                                         /\ at'[q] \in {"booted", "primary"}
    BY DEF RowHasController
  <2>1. /\ w \in domains \ doomed /\ role[w] = "controller" /\ c = cluster[w]
        /\ c \notin Faulted /\ w \in Vms
    BY <1>10 DEF Stops
  <2>2. CASE primary[c] = w
    BY <1>10, <2>1, <2>2 DEF Stops
  <2>3. CASE \E q \in Procs : on[q] = c /\ at[q] \in {"booted", "primary"} /\ machine[q] = w
    <3> PICK q \in Procs : on[q] = c /\ at[q] \in {"booted", "primary"} /\ machine[q] = w
      BY <2>3
    <3> QED BY <1>10, <2>1 DEF Stops
  <2> QED BY <2>1, <2>2, <2>3
<1>11. ASSUME NEW p \in Procs, Reads(p) PROVE RowHasController' BY <1>11 DEF Reads
<1>12. ASSUME NEW p \in Procs, Writes(p) PROVE RowHasController'
  <2> SUFFICES ASSUME NEW w \in domains' \ doomed', NEW c, c = cluster'[w],
                      role'[w] = "controller", c \notin Faulted'
               PROVE  \/ primary'[c] = w
                      \/ \E q \in Procs : /\ on'[q] = c /\ machine'[q] = w
                                         /\ at'[q] \in {"booted", "primary"}
    BY DEF RowHasController
  <2>1. /\ w \in domains \ doomed /\ role[w] = "controller" /\ c = cluster[w]
        /\ c \notin Faulted /\ w \in Vms
    BY <1>12 DEF Writes
  <2>2. CASE primary[c] = w
    BY <1>12, <2>1, <2>2 DEF Writes
  <2>3. CASE \E q \in Procs : on[q] = c /\ at[q] \in {"booted", "primary"} /\ machine[q] = w
    <3> PICK q \in Procs : on[q] = c /\ at[q] \in {"booted", "primary"} /\ machine[q] = w
      BY <2>3
    <3> QED BY <1>12, <2>1 DEF Writes
  <2> QED BY <2>1, <2>2, <2>3
<1>13. ASSUME NEW p \in Procs, NEW v \in Vms, Boots(p, v) PROVE RowHasController'
  <2> SUFFICES ASSUME NEW w \in domains' \ doomed', NEW c, c = cluster'[w],
                      role'[w] = "controller", c \notin Faulted'
               PROVE  \/ primary'[c] = w
                      \/ \E q \in Procs : /\ on'[q] = c /\ machine'[q] = w
                                         /\ at'[q] \in {"booted", "primary"}
    BY DEF RowHasController
  <2>1. CASE w = v
    BY <1>13, <2>1 DEF Boots
  <2>2. CASE w # v
    <3>1. /\ w \in domains \ doomed /\ role[w] = "controller" /\ c = cluster[w]
          /\ c \notin Faulted /\ w \in Vms
      BY <1>13, <2>2 DEF Boots
    <3>2. CASE primary[c] = w
      BY <1>13, <3>1, <3>2 DEF Boots
    <3>3. CASE \E q \in Procs : on[q] = c /\ at[q] \in {"booted", "primary"} /\ machine[q] = w
      <4> PICK q \in Procs : on[q] = c /\ at[q] \in {"booted", "primary"} /\ machine[q] = w
        BY <3>3
      <4>1. q # p
        BY <1>13 DEF Boots
      <4> QED BY <1>13, <3>1, <4>1 DEF Boots
    <3> QED BY <3>1, <3>2, <3>3
  <2> QED BY <2>1, <2>2
<1>14. ASSUME NEW p \in Procs, Saves(p) PROVE RowHasController'
  <2> SUFFICES ASSUME NEW w \in domains' \ doomed', NEW c, c = cluster'[w],
                      role'[w] = "controller", c \notin Faulted'
               PROVE  \/ primary'[c] = w
                      \/ \E q \in Procs : /\ on'[q] = c /\ machine'[q] = w
                                         /\ at'[q] \in {"booted", "primary"}
    BY DEF RowHasController
  <2>1. /\ w \in domains \ doomed /\ role[w] = "controller" /\ c = cluster[w]
        /\ c \notin Faulted /\ w \in Vms
    BY <1>14 DEF Saves
  <2>2. CASE primary[c] = w
    BY <1>14, <2>1, <2>2 DEF Saves
  <2>3. CASE \E q \in Procs : on[q] = c /\ at[q] \in {"booted", "primary"} /\ machine[q] = w
    <3> PICK q \in Procs : on[q] = c /\ at[q] \in {"booted", "primary"} /\ machine[q] = w
      BY <2>3
    <3> QED BY <1>14, <2>1 DEF Saves
  <2> QED BY <2>1, <2>2, <2>3
<1>15. ASSUME NEW p \in Procs, DeletionStarts(p) PROVE RowHasController'
  BY <1>15 DEF DeletionStarts
<1>16. ASSUME NEW p \in Procs, KeyGoes(p) PROVE RowHasController' BY <1>16 DEF KeyGoes
<1>17. ASSUME NEW p \in Procs, ControllerGoes(p) PROVE RowHasController'
  BY <1>17 DEF ControllerGoes
<1>18. ASSUME NEW p \in Procs, RowGoes(p) PROVE RowHasController'
  <2> SUFFICES ASSUME NEW w \in domains' \ doomed', NEW c, c = cluster'[w],
                      role'[w] = "controller", c \notin Faulted'
               PROVE  \/ primary'[c] = w
                      \/ \E q \in Procs : /\ on'[q] = c /\ machine'[q] = w
                                         /\ at'[q] \in {"booted", "primary"}
    BY DEF RowHasController
  <2>1. /\ w \in domains \ doomed /\ role[w] = "controller" /\ c = cluster[w]
        /\ c \notin Faulted /\ w \in Vms
    BY <1>18 DEF RowGoes
  <2>2. CASE primary[c] = w
    BY <1>18, <2>1, <2>2 DEF RowGoes, HandleHasController
  <2>3. CASE \E q \in Procs : on[q] = c /\ at[q] \in {"booted", "primary"} /\ machine[q] = w
    <3> PICK q \in Procs : on[q] = c /\ at[q] \in {"booted", "primary"} /\ machine[q] = w
      BY <2>3
    <3> QED BY <1>18, <2>1 DEF RowGoes
  <2> QED BY <2>1, <2>2, <2>3
<1>19. ASSUME NEW v \in Vms, MachineGoes(v) PROVE RowHasController' BY <1>19 DEF MachineGoes
<1> QED BY <1>1, <1>2, <1>3, <1>4, <1>5, <1>6, <1>7, <1>8, <1>9, <1>10, <1>11, <1>12,
           <1>13, <1>14, <1>15, <1>16, <1>17, <1>18, <1>19 DEF Effect

(* The deletion has read the primary of the row that it deletes. *)
LEMMA HandleHasControllerStep == IInv /\ Effect => HandleHasController'
<1> SUFFICES ASSUME IInv, Effect PROVE HandleHasController'
  OBVIOUS
<1> USE NoneAssumption
        DEF Goto, Return, Get, Spoil, Save, Rest, row, guests, local, history,
            Fresh, Exists, Others, Refused, With, NoHandle, CreateLabels,
            DeleteLabels, EarlyLabels, AdminLabels, NodeLabels,
            IInv, TypeInv, TypeOK, HandleHasController, GuestsOK, MachinesOK,
            PrimariesOK, Controls, Alone, Released, GuestsHaveRows, RowHasController,
            DoomedByDeletion, Faulted
<1>1. ASSUME Drops PROVE HandleHasController' BY <1>1 DEF Drops
<1>2. ASSUME NEW p \in Procs, Takes(p) PROVE HandleHasController' BY <1>2 DEF Takes
<1>3. ASSUME NEW p \in Procs, NEW v \in Vms, TakesNode(p, v) PROVE HandleHasController'
  BY <1>3 DEF TakesNode, TakesReport
<1>4. ASSUME NEW p \in Procs, NEW v \in Vms, TakesPosted(p, v) PROVE HandleHasController'
  BY <1>4 DEF TakesPosted, TakesReport
<1>5. ASSUME NEW p \in Procs, NEW v \in Vms, TakesFailure(p, v) PROVE HandleHasController'
  BY <1>5 DEF TakesFailure, TakesReport
<1>6. ASSUME NEW v \in Vms, Scripts(v) PROVE HandleHasController' BY <1>6 DEF Scripts
<1>7. ASSUME NEW p \in Procs, Passes(p) PROVE HandleHasController' BY <1>7 DEF Passes
<1>8. ASSUME NEW p \in Procs, CreationRaises(p) PROVE HandleHasController'
  BY <1>8 DEF CreationRaises
<1>9. ASSUME NEW p \in Procs, PrimaryRefused(p) PROVE HandleHasController'
  BY <1>9 DEF PrimaryRefused
<1>10. ASSUME NEW p \in Procs, Stops(p) PROVE HandleHasController' BY <1>10 DEF Stops
<1>11. ASSUME NEW p \in Procs, Reads(p) PROVE HandleHasController' BY <1>11 DEF Reads
<1>12. ASSUME NEW p \in Procs, Writes(p) PROVE HandleHasController' BY <1>12 DEF Writes
<1>13. ASSUME NEW p \in Procs, NEW v \in Vms, Boots(p, v) PROVE HandleHasController'
  BY <1>13 DEF Boots
<1>14. ASSUME NEW p \in Procs, Saves(p) PROVE HandleHasController' BY <1>14 DEF Saves
<1>15. ASSUME NEW p \in Procs, DeletionStarts(p) PROVE HandleHasController'
  BY <1>15 DEF DeletionStarts
<1>16. ASSUME NEW p \in Procs, KeyGoes(p) PROVE HandleHasController' BY <1>16 DEF KeyGoes
<1>17. ASSUME NEW p \in Procs, ControllerGoes(p) PROVE HandleHasController'
  BY <1>17 DEF ControllerGoes
<1>18. ASSUME NEW p \in Procs, RowGoes(p) PROVE HandleHasController' BY <1>18 DEF RowGoes
<1>19. ASSUME NEW v \in Vms, MachineGoes(v) PROVE HandleHasController'
  BY <1>19 DEF MachineGoes
<1> QED BY <1>1, <1>2, <1>3, <1>4, <1>5, <1>6, <1>7, <1>8, <1>9, <1>10, <1>11, <1>12,
           <1>13, <1>14, <1>15, <1>16, <1>17, <1>18, <1>19 DEF Effect

(* So the row goes after its controller was doomed. *)
LEMMA ControllerIsReleasedStep == IInv /\ Effect => ControllerIsReleased'
<1> SUFFICES ASSUME IInv, Effect PROVE ControllerIsReleased'
  OBVIOUS
<1> USE NoneAssumption
        DEF Goto, Return, Get, Spoil, Save, Rest, row, guests, local, history,
            Fresh, Exists, Others, Refused, With, NoHandle, CreateLabels,
            DeleteLabels, EarlyLabels, AdminLabels, NodeLabels,
            IInv, TypeInv, TypeOK, ControllerIsReleased, GuestsOK, MachinesOK, Controls,
            Alone, Gone, Released, HandleHasController, Faulted
<1>1. ASSUME Drops PROVE ControllerIsReleased' BY <1>1 DEF Drops
<1>2. ASSUME NEW p \in Procs, Takes(p) PROVE ControllerIsReleased' BY <1>2 DEF Takes
<1>3. ASSUME NEW p \in Procs, NEW v \in Vms, TakesNode(p, v) PROVE ControllerIsReleased'
  BY <1>3 DEF TakesNode, TakesReport
<1>4. ASSUME NEW p \in Procs, NEW v \in Vms, TakesPosted(p, v) PROVE ControllerIsReleased'
  BY <1>4 DEF TakesPosted, TakesReport
<1>5. ASSUME NEW p \in Procs, NEW v \in Vms, TakesFailure(p, v) PROVE ControllerIsReleased'
  BY <1>5 DEF TakesFailure, TakesReport
<1>6. ASSUME NEW v \in Vms, Scripts(v) PROVE ControllerIsReleased' BY <1>6 DEF Scripts
<1>7. ASSUME NEW p \in Procs, Passes(p) PROVE ControllerIsReleased' BY <1>7 DEF Passes
<1>8. ASSUME NEW p \in Procs, CreationRaises(p) PROVE ControllerIsReleased'
  BY <1>8 DEF CreationRaises
<1>9. ASSUME NEW p \in Procs, PrimaryRefused(p) PROVE ControllerIsReleased'
  BY <1>9 DEF PrimaryRefused
<1>10. ASSUME NEW p \in Procs, Stops(p) PROVE ControllerIsReleased' BY <1>10 DEF Stops
<1>11. ASSUME NEW p \in Procs, Reads(p) PROVE ControllerIsReleased' BY <1>11 DEF Reads
<1>12. ASSUME NEW p \in Procs, Writes(p) PROVE ControllerIsReleased' BY <1>12 DEF Writes
<1>13. ASSUME NEW p \in Procs, NEW v \in Vms, Boots(p, v) PROVE ControllerIsReleased'
  BY <1>13 DEF Boots
<1>14. ASSUME NEW p \in Procs, Saves(p) PROVE ControllerIsReleased' BY <1>14 DEF Saves
<1>15. ASSUME NEW p \in Procs, DeletionStarts(p) PROVE ControllerIsReleased'
  BY <1>15 DEF DeletionStarts
<1>16. ASSUME NEW p \in Procs, KeyGoes(p) PROVE ControllerIsReleased' BY <1>16 DEF KeyGoes
<1>17. ASSUME NEW p \in Procs, ControllerGoes(p) PROVE ControllerIsReleased'
  BY <1>17 DEF ControllerGoes
<1>18. ASSUME NEW p \in Procs, RowGoes(p) PROVE ControllerIsReleased' BY <1>18 DEF RowGoes
<1>19. ASSUME NEW v \in Vms, MachineGoes(v) PROVE ControllerIsReleased'
  BY <1>19 DEF MachineGoes
<1> QED BY <1>1, <1>2, <1>3, <1>4, <1>5, <1>6, <1>7, <1>8, <1>9, <1>10, <1>11, <1>12,
           <1>13, <1>14, <1>15, <1>16, <1>17, <1>18, <1>19 DEF Effect

(* A cluster is READY by the post of its controller, ... *)
LEMMA ReadyHasControllerStep == IInv /\ Effect => ReadyHasController'
<1> SUFFICES ASSUME IInv, Effect PROVE ReadyHasController'
  OBVIOUS
<1> USE NoneAssumption
        DEF Goto, Return, Get, Spoil, Save, Rest, row, guests, local, history,
            Fresh, Exists, Others, Refused, With, NoHandle, CreateLabels,
            DeleteLabels, EarlyLabels, AdminLabels, NodeLabels,
            IInv, TypeInv, TypeOK, ReadyHasController, GuestsOK, MachinesOK, Controls,
            Alone, Settled, Faulted
<1>1. ASSUME Drops PROVE ReadyHasController' BY <1>1 DEF Drops
<1>2. ASSUME NEW p \in Procs, Takes(p) PROVE ReadyHasController' BY <1>2 DEF Takes
<1>3. ASSUME NEW p \in Procs, NEW v \in Vms, TakesNode(p, v) PROVE ReadyHasController'
  BY <1>3 DEF TakesNode, TakesReport
<1>4. ASSUME NEW p \in Procs, NEW v \in Vms, TakesPosted(p, v) PROVE ReadyHasController'
  BY <1>4 DEF TakesPosted, TakesReport
<1>5. ASSUME NEW p \in Procs, NEW v \in Vms, TakesFailure(p, v) PROVE ReadyHasController'
  BY <1>5 DEF TakesFailure, TakesReport
<1>6. ASSUME NEW v \in Vms, Scripts(v) PROVE ReadyHasController' BY <1>6 DEF Scripts
<1>7. ASSUME NEW p \in Procs, Passes(p) PROVE ReadyHasController' BY <1>7 DEF Passes
<1>8. ASSUME NEW p \in Procs, CreationRaises(p) PROVE ReadyHasController'
  BY <1>8 DEF CreationRaises
<1>9. ASSUME NEW p \in Procs, PrimaryRefused(p) PROVE ReadyHasController'
  BY <1>9 DEF PrimaryRefused
<1>10. ASSUME NEW p \in Procs, Stops(p) PROVE ReadyHasController' BY <1>10 DEF Stops
<1>11. ASSUME NEW p \in Procs, Reads(p) PROVE ReadyHasController' BY <1>11 DEF Reads
<1>12. ASSUME NEW p \in Procs, Writes(p) PROVE ReadyHasController' BY <1>12 DEF Writes
<1>13. ASSUME NEW p \in Procs, NEW v \in Vms, Boots(p, v) PROVE ReadyHasController'
  BY <1>13 DEF Boots
<1>14. ASSUME NEW p \in Procs, Saves(p) PROVE ReadyHasController' BY <1>14 DEF Saves
<1>15. ASSUME NEW p \in Procs, DeletionStarts(p) PROVE ReadyHasController'
  BY <1>15 DEF DeletionStarts
<1>16. ASSUME NEW p \in Procs, KeyGoes(p) PROVE ReadyHasController' BY <1>16 DEF KeyGoes
<1>17. ASSUME NEW p \in Procs, ControllerGoes(p) PROVE ReadyHasController'
  BY <1>17 DEF ControllerGoes
<1>18. ASSUME NEW p \in Procs, RowGoes(p) PROVE ReadyHasController' BY <1>18 DEF RowGoes
<1>19. ASSUME NEW v \in Vms, MachineGoes(v) PROVE ReadyHasController'
  BY <1>19 DEF MachineGoes
<1> QED BY <1>1, <1>2, <1>3, <1>4, <1>5, <1>6, <1>7, <1>8, <1>9, <1>10, <1>11, <1>12,
           <1>13, <1>14, <1>15, <1>16, <1>17, <1>18, <1>19 DEF Effect

(* ... which no view serves for a cluster that has failed. *)
LEMMA ReportingNotFailedStep == IInv /\ Effect => ReportingNotFailed'
<1> SUFFICES ASSUME IInv, Effect PROVE ReportingNotFailed'
  OBVIOUS
<1> USE NoneAssumption
        DEF Goto, Return, Get, Spoil, Save, Rest, row, guests, local, history,
            Fresh, Exists, Others, Refused, With, NoHandle, CreateLabels,
            DeleteLabels, EarlyLabels, AdminLabels, NodeLabels,
            IInv, TypeInv, TypeOK, ReportingNotFailed, GuestsOK, MachinesOK, Controls,
            Alone, Settled, FailedIsEnded, Faulted
<1>1. ASSUME Drops PROVE ReportingNotFailed' BY <1>1 DEF Drops
<1>2. ASSUME NEW p \in Procs, Takes(p) PROVE ReportingNotFailed' BY <1>2 DEF Takes
<1>3. ASSUME NEW p \in Procs, NEW v \in Vms, TakesNode(p, v) PROVE ReportingNotFailed'
  BY <1>3 DEF TakesNode, TakesReport
<1>4. ASSUME NEW p \in Procs, NEW v \in Vms, TakesPosted(p, v) PROVE ReportingNotFailed'
  BY <1>4 DEF TakesPosted, TakesReport
<1>5. ASSUME NEW p \in Procs, NEW v \in Vms, TakesFailure(p, v) PROVE ReportingNotFailed'
  BY <1>5 DEF TakesFailure, TakesReport
<1>6. ASSUME NEW v \in Vms, Scripts(v) PROVE ReportingNotFailed' BY <1>6 DEF Scripts
<1>7. ASSUME NEW p \in Procs, Passes(p) PROVE ReportingNotFailed' BY <1>7 DEF Passes
<1>8. ASSUME NEW p \in Procs, CreationRaises(p) PROVE ReportingNotFailed'
  BY <1>8 DEF CreationRaises
<1>9. ASSUME NEW p \in Procs, PrimaryRefused(p) PROVE ReportingNotFailed'
  BY <1>9 DEF PrimaryRefused
<1>10. ASSUME NEW p \in Procs, Stops(p) PROVE ReportingNotFailed' BY <1>10 DEF Stops
<1>11. ASSUME NEW p \in Procs, Reads(p) PROVE ReportingNotFailed' BY <1>11 DEF Reads
<1>12. ASSUME NEW p \in Procs, Writes(p) PROVE ReportingNotFailed' BY <1>12 DEF Writes
<1>13. ASSUME NEW p \in Procs, NEW v \in Vms, Boots(p, v) PROVE ReportingNotFailed'
  BY <1>13 DEF Boots
<1>14. ASSUME NEW p \in Procs, Saves(p) PROVE ReportingNotFailed' BY <1>14 DEF Saves
<1>15. ASSUME NEW p \in Procs, DeletionStarts(p) PROVE ReportingNotFailed'
  BY <1>15 DEF DeletionStarts
<1>16. ASSUME NEW p \in Procs, KeyGoes(p) PROVE ReportingNotFailed' BY <1>16 DEF KeyGoes
<1>17. ASSUME NEW p \in Procs, ControllerGoes(p) PROVE ReportingNotFailed'
  BY <1>17 DEF ControllerGoes
<1>18. ASSUME NEW p \in Procs, RowGoes(p) PROVE ReportingNotFailed' BY <1>18 DEF RowGoes
<1>19. ASSUME NEW v \in Vms, MachineGoes(v) PROVE ReportingNotFailed'
  BY <1>19 DEF MachineGoes
<1> QED BY <1>1, <1>2, <1>3, <1>4, <1>5, <1>6, <1>7, <1>8, <1>9, <1>10, <1>11, <1>12,
           <1>13, <1>14, <1>15, <1>16, <1>17, <1>18, <1>19 DEF Effect

(* It is FAILED when its controller, if it has one, has posted for the last time. *)
LEMMA FailedIsEndedStep == IInv /\ Effect => FailedIsEnded'
<1> SUFFICES ASSUME IInv, Effect PROVE FailedIsEnded'
  OBVIOUS
<1> USE NoneAssumption
        DEF Goto, Return, Get, Spoil, Save, Rest, row, guests, local, history,
            Fresh, Exists, Others, Refused, With, NoHandle, CreateLabels,
            DeleteLabels, EarlyLabels, AdminLabels, NodeLabels,
            IInv, TypeInv, TypeOK, FailedIsEnded, GuestsOK, MachinesOK, Controls, Once,
            QueuedOnce, HeldOnce, Alone, Settled, FailingIsEnded, Faulted
<1>1. ASSUME Drops PROVE FailedIsEnded' BY <1>1 DEF Drops
<1>2. ASSUME NEW p \in Procs, Takes(p) PROVE FailedIsEnded' BY <1>2 DEF Takes
<1>3. ASSUME NEW p \in Procs, NEW v \in Vms, TakesNode(p, v) PROVE FailedIsEnded'
  BY <1>3 DEF TakesNode, TakesReport
<1>4. ASSUME NEW p \in Procs, NEW v \in Vms, TakesPosted(p, v) PROVE FailedIsEnded'
  BY <1>4 DEF TakesPosted, TakesReport
<1>5. ASSUME NEW p \in Procs, NEW v \in Vms, TakesFailure(p, v) PROVE FailedIsEnded'
  BY <1>5 DEF TakesFailure, TakesReport
<1>6. ASSUME NEW v \in Vms, Scripts(v) PROVE FailedIsEnded' BY <1>6 DEF Scripts
<1>7. ASSUME NEW p \in Procs, Passes(p) PROVE FailedIsEnded' BY <1>7 DEF Passes
<1>8. ASSUME NEW p \in Procs, CreationRaises(p) PROVE FailedIsEnded'
  BY <1>8 DEF CreationRaises
<1>9. ASSUME NEW p \in Procs, PrimaryRefused(p) PROVE FailedIsEnded'
  BY <1>9 DEF PrimaryRefused
<1>10. ASSUME NEW p \in Procs, Stops(p) PROVE FailedIsEnded' BY <1>10 DEF Stops
<1>11. ASSUME NEW p \in Procs, Reads(p) PROVE FailedIsEnded' BY <1>11 DEF Reads
<1>12. ASSUME NEW p \in Procs, Writes(p) PROVE FailedIsEnded' BY <1>12 DEF Writes
<1>13. ASSUME NEW p \in Procs, NEW v \in Vms, Boots(p, v) PROVE FailedIsEnded'
  BY <1>13 DEF Boots
<1>14. ASSUME NEW p \in Procs, Saves(p) PROVE FailedIsEnded' BY <1>14 DEF Saves
<1>15. ASSUME NEW p \in Procs, DeletionStarts(p) PROVE FailedIsEnded'
  BY <1>15 DEF DeletionStarts
<1>16. ASSUME NEW p \in Procs, KeyGoes(p) PROVE FailedIsEnded' BY <1>16 DEF KeyGoes
<1>17. ASSUME NEW p \in Procs, ControllerGoes(p) PROVE FailedIsEnded'
  BY <1>17 DEF ControllerGoes
<1>18. ASSUME NEW p \in Procs, RowGoes(p) PROVE FailedIsEnded' BY <1>18 DEF RowGoes
<1>19. ASSUME NEW v \in Vms, MachineGoes(v) PROVE FailedIsEnded' BY <1>19 DEF MachineGoes
<1> QED BY <1>1, <1>2, <1>3, <1>4, <1>5, <1>6, <1>7, <1>8, <1>9, <1>10, <1>11, <1>12,
           <1>13, <1>14, <1>15, <1>16, <1>17, <1>18, <1>19 DEF Effect

(* So it is when the failure is about to be saved. *)
LEMMA FailingIsEndedStep == IInv /\ Effect => FailingIsEnded'
<1> SUFFICES ASSUME IInv, Effect PROVE FailingIsEnded'
  OBVIOUS
<1> USE NoneAssumption
        DEF Goto, Return, Get, Spoil, Save, Rest, row, guests, local, history,
            Fresh, Exists, Others, Refused, With, NoHandle, CreateLabels,
            DeleteLabels, EarlyLabels, AdminLabels, NodeLabels,
            IInv, TypeInv, TypeOK, FailingIsEnded, GuestsOK, MachinesOK, Controls, Once,
            QueuedOnce, HeldOnce, NotYetBooted, OneController, Released, GuestsHaveRows,
            DoomedByDeletion, Alone, Settled, Faulted
<1>1. ASSUME Drops PROVE FailingIsEnded' BY <1>1 DEF Drops
<1>2. ASSUME NEW p \in Procs, Takes(p) PROVE FailingIsEnded' BY <1>2 DEF Takes
<1>3. ASSUME NEW p \in Procs, NEW v \in Vms, TakesNode(p, v) PROVE FailingIsEnded'
  BY <1>3 DEF TakesNode, TakesReport
<1>4. ASSUME NEW p \in Procs, NEW v \in Vms, TakesPosted(p, v) PROVE FailingIsEnded'
  BY <1>4 DEF TakesPosted, TakesReport
<1>5. ASSUME NEW p \in Procs, NEW v \in Vms, TakesFailure(p, v) PROVE FailingIsEnded'
  BY <1>5 DEF TakesFailure, TakesReport
<1>6. ASSUME NEW v \in Vms, Scripts(v) PROVE FailingIsEnded' BY <1>6 DEF Scripts
<1>7. ASSUME NEW p \in Procs, Passes(p) PROVE FailingIsEnded'
  <2>1. /\ \A q \in Procs : at'[q] = "failed" => at[q] = "failed"
        /\ UNCHANGED <<on, guests, history>>
    BY <1>7 DEF Passes
  <2> QED BY <2>1
<1>8. ASSUME NEW p \in Procs, CreationRaises(p) PROVE FailingIsEnded'
  BY <1>8 DEF CreationRaises
<1>9. ASSUME NEW p \in Procs, PrimaryRefused(p) PROVE FailingIsEnded'
  BY <1>9 DEF PrimaryRefused
<1>10. ASSUME NEW p \in Procs, Stops(p) PROVE FailingIsEnded' BY <1>10 DEF Stops
<1>11. ASSUME NEW p \in Procs, Reads(p) PROVE FailingIsEnded' BY <1>11 DEF Reads
<1>12. ASSUME NEW p \in Procs, Writes(p) PROVE FailingIsEnded' BY <1>12 DEF Writes
<1>13. ASSUME NEW p \in Procs, NEW v \in Vms, Boots(p, v) PROVE FailingIsEnded'
  BY <1>13 DEF Boots
<1>14. ASSUME NEW p \in Procs, Saves(p) PROVE FailingIsEnded' BY <1>14 DEF Saves
<1>15. ASSUME NEW p \in Procs, DeletionStarts(p) PROVE FailingIsEnded'
  BY <1>15 DEF DeletionStarts
<1>16. ASSUME NEW p \in Procs, KeyGoes(p) PROVE FailingIsEnded' BY <1>16 DEF KeyGoes
<1>17. ASSUME NEW p \in Procs, ControllerGoes(p) PROVE FailingIsEnded'
  BY <1>17 DEF ControllerGoes
<1>18. ASSUME NEW p \in Procs, RowGoes(p) PROVE FailingIsEnded' BY <1>18 DEF RowGoes
<1>19. ASSUME NEW v \in Vms, MachineGoes(v) PROVE FailingIsEnded' BY <1>19 DEF MachineGoes
<1> QED BY <1>1, <1>2, <1>3, <1>4, <1>5, <1>6, <1>7, <1>8, <1>9, <1>10, <1>11, <1>12,
           <1>13, <1>14, <1>15, <1>16, <1>17, <1>18, <1>19 DEF Effect

-----------------------------------------------------------------------------
(* The rows and the messages that the view has made. *)
LEMMA InitInv == Init => IInv
<1> SUFFICES ASSUME Init PROVE IInv
  OBVIOUS
<1> USE NoneAssumption
        DEF Init, NoHandle, Labels, Statuses, Keys, Roles, CreateLabels, DeleteLabels,
            EarlyLabels, AdminLabels, NodeLabels
<1>1. TypeInv
  BY DEF TypeInv, TypeOK, GuestsOK, MachinesOK, PrimariesOK, NoneTerminated,
         Controls
<1>2. Once
  BY DEF Once, QueuedOnce, HeldOnce, NotYetBooted, OneController, Controls
<1>3. Merged /\ Alone
  BY DEF Merged, Alone, Gone
<1>4. Secrets
  BY DEF Secrets, SecretsOfHandlers, SecretsOfRows, Stored, Controls
<1>5. Released
  BY DEF Released, GuestsHaveRows, DoomedByDeletion, RowHasController,
         HandleHasController, ControllerIsReleased, Controls
<1>6. Settled
  BY DEF Settled, ReadyHasController, ReportingNotFailed, FailedIsEnded, FailingIsEnded,
         Controls
<1> QED BY <1>1, <1>2, <1>3, <1>4, <1>5, <1>6 DEF IInv

(* A step of somebody else. *)
LEMMA StutterInv == IInv /\ UNCHANGED vars => IInv'
<1> SUFFICES ASSUME IInv, UNCHANGED vars PROVE IInv'
  OBVIOUS
<1> USE DEF vars, row, guests, local, history, Controls, Faulted, Stored
<1>1. TypeInv'
  <2>1. TypeOK'
    BY DEF IInv, TypeInv, TypeOK
  <2>2. GuestsOK' /\ MachinesOK' /\ PrimariesOK' /\ NoneTerminated'
    BY DEF IInv, TypeInv, GuestsOK, MachinesOK, PrimariesOK, NoneTerminated
  <2> QED BY <2>1, <2>2 DEF TypeInv
<1>2. Once'
  BY DEF IInv, Once, QueuedOnce, HeldOnce, NotYetBooted, OneController
<1>3. Merged' /\ Alone'
  BY DEF IInv, Merged, Alone, Gone
<1>4. Secrets'
  BY DEF IInv, Secrets, SecretsOfHandlers, SecretsOfRows
<1>5. Released'
  BY DEF IInv, Released, GuestsHaveRows, DoomedByDeletion, RowHasController,
         HandleHasController, ControllerIsReleased
<1>6. Settled'
  BY DEF IInv, Settled, ReadyHasController, ReportingNotFailed, FailedIsEnded,
         FailingIsEnded
<1> QED BY <1>1, <1>2, <1>3, <1>4, <1>5, <1>6 DEF IInv

(* Every effect keeps every part. *)
LEMMA InvStep == IInv /\ [Next]_vars => IInv'
<1> SUFFICES ASSUME IInv, Next PROVE IInv'
  BY StutterInv
<1>0. Effect
  BY EffectStep
<1>1. TypeInv'
  <2>1. TypeOK'
    BY <1>0, AssociatedStep, LocalOKStep, RowsOKStep, VmsOKStep, HistoryOKStep
       DEF TypeOK, LocalOK, RowsOK, VmsOK, HistoryOK
  <2> QED BY <1>0, <2>1, GuestsOKStep, MachinesOKStep, PrimariesOKStep, NoneTerminatedStep
         DEF TypeInv
<1>2. Once'
  BY <1>0, QueuedOnceStep, HeldOnceStep, NotYetBootedStep, OneControllerStep DEF Once
<1>3. Merged' /\ Alone'
  BY <1>0, MergedStep, AloneStep
<1>4. Secrets'
  BY <1>0, SecretsOfHandlersStep, SecretsOfRowsStep DEF Secrets
<1>5. Released'
  BY <1>0, GuestsHaveRowsStep, DoomedByDeletionStep, RowHasControllerStep,
     HandleHasControllerStep, ControllerIsReleasedStep
     DEF Released
<1>6. Settled'
  BY <1>0, ReadyHasControllerStep, ReportingNotFailedStep, FailedIsEndedStep,
     FailingIsEndedStep
     DEF Settled
<1> QED BY <1>1, <1>2, <1>3, <1>4, <1>5, <1>6 DEF IInv

(* IInv is an inductive invariant. *)
THEOREM Invariant == Spec => []IInv
<1> QED BY InitInv, InvStep, PTL DEF Spec

-----------------------------------------------------------------------------
(* Every variable keeps to its values. *)
THEOREM TypeCorrect == Spec => []TypeOK
<1>1. IInv => TypeOK
  BY DEF IInv, TypeInv
<1> QED BY Invariant, <1>1, PTL

(* Whichever steps of the creation or of the callbacks failed, set_cluster_as_ready
   finds all that a READY cluster needs in Vault, and only a deletion removes it. *)
THEOREM ReadyIsUsable == Spec => []ReadyHasSecrets
<1>1. IInv => ReadyHasSecrets
  BY DEF IInv, Secrets, SecretsOfRows, ReadyHasSecrets, ConfigIsAnswered,
         GetClusterConfig, Exists, Stored, Keys
<1> QED BY Invariant, <1>1, PTL

(* A deleted cluster stays without row and secret: what was queued or ran for it
   finds no row to take, or was taken by the deletion (crossed). *)
THEOREM DeletionIsFinal == Spec => []DeletedStaysDeleted
<1>1. IInv => DeletedStaysDeleted
  BY DEF IInv, Alone, Gone, DeletedStaysDeleted
<1> QED BY Invariant, <1>1, PTL

(* delete_cluster has the controller terminated that runs: the row it read named
   it, unless it was saved from a stale handle (clobbered), or nobody saved it
   (spoiled). *)
THEOREM DeletionReleases == Spec => []ControllerIsReleased
<1>1. IInv => ControllerIsReleased
  BY DEF IInv, Released
<1> QED BY Invariant, <1>1, PTL

(* The two calls of store_dict lose no key, whoever runs between them: a cluster's
   secret has one writer at a time. *)
THEOREM SecretsMerge == Spec => SecretsAreMerged
<1> DEFINE Merges == \A c \in Clusters :
             \/ vault[c] \subseteq vault'[c]
             \/ \E p \in Procs : on[p] = c /\ at[p] = "delete_key"
<1>1. IInv /\ [Next]_vars => [Merges]_vars
  <2> SUFFICES ASSUME IInv, Next PROVE Merges
    OBVIOUS
  <2> USE DEF Rest, row, IInv, TypeInv, TypeOK
  <2>1. ASSUME NEW p \in Procs, Writes(p) PROVE Merges
    BY <2>1 DEF Writes, Merged
  <2>2. ASSUME NEW p \in Procs, KeyGoes(p) PROVE Merges
    BY <2>2 DEF KeyGoes
  <2>3. ASSUME UNCHANGED vault PROVE Merges
    BY <2>3
  <2>4. Effect
    BY EffectStep
  <2> HIDE DEF Merges
  <2> QED BY <2>1, <2>2, <2>3, <2>4
          DEF Effect, Drops, Scripts, MachineGoes, TakesNode, TakesPosted, TakesFailure,
              TakesReport, Boots, Takes, Passes, CreationRaises, PrimaryRefused, Stops,
              Reads, Saves, DeletionStarts, ControllerGoes, RowGoes
<1> QED BY Invariant, <1>1, PTL DEF Spec, SecretsAreMerged

(* A status is saved from a handle that is not stale only while the row allows it:
   READY is never saved over FAILED, FAILED over READY only by the last post of the
   controller, and nothing after the deletion. *)
THEOREM StatusIsForward == Spec => StatusMovesForward
<1> DEFINE Moves == \A c \in Clusters :
             \/ status'[c] = status[c]
             \/ <<status[c], status'[c]>> \in Forward
             \/ status[c] = "READY" /\ status'[c] = "FAILED" /\ GaveUp(c)
             \/ c \in (clobbered \cup crossed \cup spoiled)'
<1>1. IInv /\ [Next]_vars => [Moves]_vars
  <2> SUFFICES ASSUME IInv, Next PROVE Moves
    OBVIOUS
  <2> USE DEF Rest, row, IInv, TypeInv, TypeOK, Statuses, Forward, Alone, NoneTerminated
  <2>1. ASSUME NEW p \in Procs, Saves(p) PROVE Moves
    <3>1. CASE at[p] \in {"primary", "node_save"}
      BY <2>1, <3>1 DEF Saves, Save
    <3>2. CASE at[p] = "failed"
      <4>1. on[p] \in Faulted \/ (status[on[p]] = "READY" => GaveUp(on[p]))
        BY <3>2 DEF Settled, ReadyHasController, FailingIsEnded, Controls, GaveUp
      <4> QED BY <2>1, <3>2, <4>1 DEF Saves, Save, With, Faulted, DeleteLabels
    <3>3. CASE at[p] = "ready"
      <4>1. on[p] \in Faulted \/ handle[p].status # "FAILED"
        BY <3>3 DEF Settled, ReportingNotFailed, AdminLabels
      <4> QED BY <2>1, <3>3, <4>1 DEF Saves, Save, With, Faulted, DeleteLabels
    <3> QED BY <2>1, <3>1, <3>2, <3>3 DEF Saves
  <2>2. ASSUME NEW p \in Procs, DeletionStarts(p) PROVE Moves
    BY <2>2 DEF DeletionStarts, Save, With
  <2>3. ASSUME NEW p \in Procs, RowGoes(p) PROVE Moves
    BY <2>3 DEF RowGoes, DeleteLabels
  <2>4. ASSUME UNCHANGED status PROVE Moves
    BY <2>4
  <2>5. Effect
    BY EffectStep
  <2> HIDE DEF Moves
  <2> QED BY <2>1, <2>2, <2>3, <2>4, <2>5
          DEF Effect, Drops, Scripts, MachineGoes, TakesNode, TakesPosted, TakesFailure,
              TakesReport, Boots, Takes, Passes, CreationRaises, PrimaryRefused, Stops,
              Reads, Writes, KeyGoes, ControllerGoes
<1> QED BY Invariant, <1>1, PTL DEF Spec, StatusMovesForward
=============================================================================
