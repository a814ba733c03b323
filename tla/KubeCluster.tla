----------------------------- MODULE KubeCluster -----------------------------
(***************************************************************************)
(* Kubernetes clusters: kube/manager.py run by the views (kube/views.py),  *)
(* by task_create_cluster (kube/tasks.py) and called back by the scripts   *)
(* of the guests (kube/cloudinit_scripts), with the cluster's secrets in   *)
(* Vault (vault/vault.py).                                                 *)
(*                                                                         *)
(* Every request reads the cluster's row into a handle of its own, and     *)
(* save() writes back all of the row from that handle.  A machine is used  *)
(* by its contract (VmContract): create_vm boots a guest and returns, or   *)
(* raises and may leave the row or the guest behind.                       *)
(***************************************************************************)
EXTENDS FiniteSets

CONSTANTS Clusters, Vms,
          ApiWorkers, CeleryWorkers,
          CrashingProcs,  \* processes that may be killed
          Faults,         \* which calls to the outside may fail
          NoVm, NoCluster

Procs == ApiWorkers \cup CeleryWorkers

ASSUME ProcsAssumption == ApiWorkers \cap CeleryWorkers = {}
ASSUME NoneAssumption == NoVm \notin Vms /\ NoCluster \notin Clusters

VARIABLES status, primary,  \* the KubeCluster row; status "none" without one
          associated,       \* associated_instances
          vault,            \* the keys of the cluster's secret
          queued,           \* task_create_cluster messages
          at, on, machine,  \* each process: where it is, on which cluster and VM
          handle,           \* its cluster_db
          secrets,          \* what store_dict read
          vmRows, domains,  \* VMs with a row, with a booted guest (or one stopped since)
          script,           \* what the script of each guest has come to
          role, cluster,    \* what each VM was launched for
          doomed,           \* VMs whose termination was asked for
          deleted, crossed, clobbered, spoiled  \* history, see below

row     == <<status, primary>>
guests  == <<vmRows, domains, script, role, cluster>>
local   == <<at, on, machine, handle, secrets>>
history == <<deleted, crossed, clobbered, spoiled>>
vars    == <<row, associated, vault, queued, local, guests, doomed, history>>

Statuses == {"none", "BUILDING", "FAILED", "READY", "DELETING", "TERMINATED"}
Keys == {"kubeadm_token", "ca_sha", "admin.conf"}
Roles == {"none", "controller", "node"}
NoHandle == [status |-> "none", primary |-> NoVm]

Labels == {"idle", "token_read", "token_write", "launch", "booted", "primary", "failed",
           "admin_read", "admin_write", "ready", "node_vm", "node_add", "node_save",
           "node_secrets", "node_launch", "node_booted",
           "deleting", "delete_key", "controller", "delete"}

(* Every variable keeps to its values, and a process has a cluster exactly
   when it is in a handler. *)
TypeOK ==
  /\ status \in [Clusters -> Statuses]
  /\ primary \in [Clusters -> Vms \cup {NoVm}]
  /\ associated \in [Clusters -> SUBSET Vms]
  /\ vault \in [Clusters -> SUBSET Keys]
  /\ queued \subseteq Clusters
  /\ at \in [Procs -> Labels]
  /\ on \in [Procs -> Clusters \cup {NoCluster}]
  /\ machine \in [Procs -> Vms \cup {NoVm}]
  /\ handle \in [Procs -> [status : Statuses, primary : Vms \cup {NoVm}]]
  /\ secrets \in [Procs -> SUBSET Keys]
  /\ vmRows \subseteq Vms /\ domains \subseteq Vms /\ doomed \subseteq Vms
  /\ script \in [Vms -> {"none", "runs", "posted", "fails", "ended", "silent"}]
  /\ role \in [Vms -> Roles]
  /\ cluster \in [Vms -> Clusters \cup {NoCluster}]
  /\ \A s \in {deleted, crossed, clobbered, spoiled} : s \subseteq Clusters
  /\ \A p \in Procs : at[p] = "idle" <=> on[p] = NoCluster

(* prepare_cluster has made the rows and the view has queued the tasks. *)
Init ==
  /\ status = [c \in Clusters |-> "BUILDING"]
  /\ primary = [c \in Clusters |-> NoVm]
  /\ associated = [c \in Clusters |-> {}]
  /\ vault = [c \in Clusters |-> {}]
  /\ queued = Clusters
  /\ at = [p \in Procs |-> "idle"]
  /\ on = [p \in Procs |-> NoCluster]
  /\ machine = [p \in Procs |-> NoVm]
  /\ handle = [p \in Procs |-> NoHandle]
  /\ secrets = [p \in Procs |-> {}]
  /\ vmRows = {} /\ domains = {} /\ doomed = {}
  /\ script = [v \in Vms |-> "none"]
  /\ role = [v \in Vms |-> "none"]
  /\ cluster = [v \in Vms |-> NoCluster]
  /\ deleted = {} /\ crossed = {} /\ clobbered = {} /\ spoiled = {}

-----------------------------------------------------------------------------
(* Control *)

DeleteLabels == {"deleting", "delete_key", "controller", "delete"}
Exists(c) == status[c] # "none"
Others(p, c) == {q \in Procs \ {p} : on[q] = c}

(* KubeClusterManager(name or id): the row is read into the handle.  History:
   a deletion and another request are under way together, or a request takes a
   cluster whose deletion has broken off. *)
Get(p, c, l, v) ==
  /\ at[p] = "idle"
  /\ Exists(c)
  /\ at' = [at EXCEPT ![p] = l]
  /\ on' = [on EXCEPT ![p] = c]
  /\ machine' = [machine EXCEPT ![p] = v]
  /\ handle' = [handle EXCEPT ![p] = [status |-> status[c], primary |-> primary[c]]]
  /\ crossed' = IF \/ \E q \in Others(p, c) : l = "deleting" \/ at[q] \in DeleteLabels
                   \/ status[c] = "DELETING" /\ l # "deleting"
                THEN crossed \cup {c} ELSE crossed
  /\ UNCHANGED <<secrets, deleted, clobbered, spoiled>>

Goto(p, l) == /\ at' = [at EXCEPT ![p] = l]
              /\ UNCHANGED <<on, machine, handle, secrets>>

Return(p) == /\ at' = [at EXCEPT ![p] = "idle"]
             /\ on' = [on EXCEPT ![p] = NoCluster]
             /\ machine' = [machine EXCEPT ![p] = NoVm]
             /\ handle' = [handle EXCEPT ![p] = NoHandle]
             /\ secrets' = [secrets EXCEPT ![p] = {}]

(* task_create_cluster catches every exception of create_cluster and sets the
   cluster as failed; the views answer 500. *)
CreateLabels == {"token_read", "token_write", "launch", "booted", "primary"}
Raise(p) == IF at[p] \in CreateLabels THEN Goto(p, "failed") ELSE Return(p)

(* A failure that nobody makes up for: history. *)
Spoil(p) == /\ spoiled' = spoiled \cup {on[p]}
            /\ UNCHANGED <<deleted, crossed, clobbered>>

(* save(): UPDATE, and INSERT if there is no row to update.  The database
   refuses a primary without a VirtualMachine row.  History: the row had
   changed since the handle was read. *)
Refused(h) == h.primary # NoVm /\ h.primary \notin vmRows
Save(p, h) ==
  LET c == on[p] IN
  /\ ~Refused(h)
  /\ status' = [status EXCEPT ![c] = h.status]
  /\ primary' = [primary EXCEPT ![c] = h.primary]
  /\ clobbered' = IF handle[p] = [status |-> status[c], primary |-> primary[c]]
                  THEN clobbered ELSE clobbered \cup {c}
  /\ UNCHANGED <<deleted, crossed, spoiled>>

(* A handler's last statement is a save of h: it returns, or the save raises. *)
SaveAndReturn(p, h) ==
  \/ Save(p, h) /\ Return(p)
  \/ Refused(h) /\ Raise(p) /\ Spoil(p) /\ UNCHANGED row

With(p, s) == [handle[p] EXCEPT !.status = s]

-----------------------------------------------------------------------------
(* Vault.store_dict: the secret is read, merged and written. *)

ReadSecret(p, l, next) ==
  /\ at[p] = l
  /\ \/ /\ secrets' = [secrets EXCEPT ![p] = vault[on[p]]]
        /\ at' = [at EXCEPT ![p] = next]
        /\ UNCHANGED <<on, machine, handle, history>>
     \/ "vault" \in Faults /\ Raise(p) /\ Spoil(p)
  /\ UNCHANGED <<row, associated, vault, queued, guests, doomed>>

(* The value replaces what was there. *)
WriteSecret_Unmerged(p, l, value, next) ==
  /\ at[p] = l
  /\ \/ /\ vault' = [vault EXCEPT ![on[p]] = value]
        /\ Goto(p, next) /\ UNCHANGED history
     \/ "vault" \in Faults /\ Raise(p) /\ Spoil(p) /\ UNCHANGED vault
  /\ UNCHANGED <<row, associated, queued, guests, doomed>>

WriteSecret(p, l, value, next) ==
  /\ at[p] = l
  /\ \/ /\ vault' = [vault EXCEPT ![on[p]] = secrets[p] \cup value]
        /\ Goto(p, next) /\ UNCHANGED history
     \/ "vault" \in Faults /\ Raise(p) /\ Spoil(p) /\ UNCHANGED vault
  /\ UNCHANGED <<row, associated, queued, guests, doomed>>

(* get_secret: a path without a secret, or a secret without the key, raises. *)
Stored(c, ks) == ks \subseteq vault[c]

(* get_cluster_config, and ConfigKubeCluster, which answers 200 with it *)
GetClusterConfig(c) == Stored(c, {"admin.conf"})
ConfigIsAnswered(c) == Exists(c) /\ GetClusterConfig(c)

-----------------------------------------------------------------------------
(* create_vm, by its contract *)

Fresh(v) == role[v] = "none"              \* a newly generated id

Boot(p, v, l, r, next) ==
  /\ at[p] = l
  /\ Fresh(v)
  /\ vmRows' = vmRows \cup {v}
  /\ domains' = domains \cup {v}
  /\ script' = [script EXCEPT ![v] = "runs"]
  /\ role' = [role EXCEPT ![v] = r]
  /\ cluster' = [cluster EXCEPT ![v] = on[p]]
  /\ machine' = [machine EXCEPT ![p] = v]
  /\ at' = [at EXCEPT ![p] = next]
  /\ UNCHANGED <<row, associated, vault, queued, on, handle, secrets, doomed, history>>

(* It raises before the guest runs (of what VmLifecycle says may be left then,
   nothing counts here), or after, with the row dropped or left. *)
LaunchFails(p, l) ==
  /\ at[p] = l
  /\ "launch" \in Faults
  /\ Raise(p)
  /\ UNCHANGED <<guests, history>>
  /\ UNCHANGED <<row, associated, vault, queued, doomed>>

BootFails(p, l) ==
  /\ at[p] = l
  /\ "launch" \in Faults
  /\ \/ UNCHANGED <<row, vmRows, associated>>
     \/ /\ vmRows' = vmRows \ {machine[p]}
        /\ UNCHANGED <<row, associated>>
  /\ Raise(p) /\ Spoil(p)
  /\ UNCHANGED <<vault, queued, domains, script, role, cluster, doomed>>

-----------------------------------------------------------------------------
(* task_create_cluster: create_cluster *)

(* The message is acknowledged late and delivered again. *)
TakeCreateCluster_Redelivered(p, c) ==
  /\ p \in CeleryWorkers /\ at[p] = "idle" /\ c \in queued
  /\ \/ Get(p, c, "token_read", NoVm)
     \/ ~Exists(c) /\ UNCHANGED <<local, history>>
  /\ UNCHANGED <<row, associated, vault, queued, guests, doomed>>

(* The creation starts although the cluster is gone. *)
TakeCreateCluster_Blind(p, c) ==
  /\ p \in CeleryWorkers /\ at[p] = "idle" /\ c \in queued
  /\ queued' = queued \ {c}
  /\ \/ Get(p, c, "token_read", NoVm)
     \/ ~Exists(c) /\ Goto(p, "token_read") /\ UNCHANGED history
  /\ UNCHANGED <<row, associated, vault, guests, doomed>>

(* A message for a cluster without a row raises before the try. *)
TakeCreateCluster(p, c) ==
  /\ p \in CeleryWorkers /\ at[p] = "idle" /\ c \in queued
  /\ queued' = queued \ {c}
  /\ \/ Get(p, c, "token_read", NoVm)
     \/ ~Exists(c) /\ UNCHANGED <<local, history>>
  /\ UNCHANGED <<row, associated, vault, guests, doomed>>

(* The image is looked up first, by its tags. *)
FindImageFails(p) ==
  /\ at[p] = "token_read"
  /\ "image" \in Faults
  /\ Raise(p)
  /\ UNCHANGED <<row, associated, vault, queued, guests, doomed, history>>

SetClusterToken(p) ==
  \/ ReadSecret(p, "token_read", "token_write")
  \/ WriteSecret(p, "token_write", {"kubeadm_token"}, "launch")

CreateController(p) ==
  \/ \E v \in Vms : Boot(p, v, "launch", "controller", "booted")
  \/ LaunchFails(p, "launch")
  \/ BootFails(p, "booted")

(* create_vm has returned; VirtualMachine.objects.get *)
ControllerCreated(p) ==
  /\ at[p] = "booted"
  /\ IF machine[p] \in vmRows THEN Goto(p, "primary") ELSE Raise(p)
  /\ UNCHANGED <<row, associated, vault, queued, guests, doomed, history>>

(* When the save is refused, the handle keeps the primary it was given. *)
SetPrimary(p) ==
  LET h == [handle[p] EXCEPT !.primary = machine[p]] IN
  /\ at[p] = "primary"
  /\ \/ Save(p, h) /\ Return(p)
     \/ /\ Refused(h)
        /\ handle' = [handle EXCEPT ![p] = h]
        /\ at' = [at EXCEPT ![p] = "failed"]
        /\ UNCHANGED <<row, on, machine, secrets, history>>
  /\ UNCHANGED <<associated, vault, queued, guests, doomed>>


SetClusterAsFailed(p) ==
  /\ at[p] = "failed"
  /\ SaveAndReturn(p, With(p, "FAILED"))
  /\ UNCHANGED <<associated, vault, queued, guests, doomed>>

-----------------------------------------------------------------------------
(* The scripts of the guests and the views they post to.  A script "runs" until
   its post reaches the view ("posted"); under its trap a failure makes it post
   Success=false ("fails", then "ended"), once.  cloud-init runs it at the first
   boot only.  Of a node only the post counts: its failures change nothing, and
   nothing makes it post. *)

ScriptGoes(v, before, after) ==
  /\ "guest" \in Faults /\ v \in domains /\ role[v] = "controller"
  /\ script[v] \in before
  /\ script' = [script EXCEPT ![v] = after]
  /\ UNCHANGED <<row, associated, vault, queued, local, vmRows, domains, role, cluster,
                 doomed, history>>

(* A command under the trap fails: before the post; the curl of the post, whose
   reply is lost whether or not the view is done with it, or has saved; or what
   the script does after it. *)
CommandFails(v) == ScriptGoes(v, {"runs", "posted"}, "fails")

(* No view ever hears of the script (again): a command fails before the trap is
   set, the machine is stopped by its guest or by ModifyVM, or the post is answered
   without the view, by a 401 once the token has expired or a 5xx, which curl -s
   without -f takes for a success. *)
FallsSilent(v) == ScriptGoes(v, {"runs", "fails"}, "silent")

Post(p, v, before, after, l) ==
  /\ p \in ApiWorkers /\ at[p] = "idle"
  /\ script[v] = before /\ v \in domains
  /\ script' = [script EXCEPT ![v] = after]
  /\ \/ Get(p, cluster[v], l, v)
     \/ ~Exists(cluster[v]) /\ UNCHANGED <<local, history>>
  /\ UNCHANGED <<row, associated, vault, queued, vmRows, domains, role, cluster, doomed>>

(* InitAdminKubeCluster *)
ControllerReports(p, v) ==
  /\ role[v] = "controller"
  /\ \/ Post(p, v, "runs", "posted", "admin_read")
     \/ Post(p, v, "fails", "ended", "failed")

(* An error of Vault is logged and not raised. *)
SetClusterSecrets_ErrorIgnored(p) ==
  \/ ReadSecret(p, "admin_read", "admin_write")
  \/ WriteSecret(p, "admin_write", {"ca_sha", "admin.conf"}, "ready")
  \/ /\ at[p] = "admin_write" /\ "vault" \in Faults
     /\ Goto(p, "ready")
     /\ UNCHANGED <<row, associated, vault, queued, guests, doomed, history>>

SetClusterSecrets(p) ==
  \/ ReadSecret(p, "admin_read", "admin_write")
  \/ WriteSecret(p, "admin_write", {"ca_sha", "admin.conf"}, "ready")

(* The reply is still to come when the status is saved (CommandFails). *)
SetClusterAsReady(p) ==
  /\ at[p] = "ready"
  /\ SaveAndReturn(p, With(p, "READY"))
  /\ UNCHANGED <<associated, vault, queued, guests, doomed>>

(* NodeAddAdminKubeCluster; of Success=false it only makes a log entry. *)
NodeReports(p, v) ==
  /\ role[v] = "node"
  /\ Post(p, v, "runs", "posted", "node_vm")

FindNode(p) ==
  /\ at[p] = "node_vm"
  /\ IF machine[p] \in vmRows THEN Goto(p, "node_add") ELSE Return(p)
  /\ UNCHANGED <<row, associated, vault, queued, guests, doomed, history>>

AssociateNode(p) ==
  LET c == on[p] IN
  /\ at[p] = "node_add"
  /\ IF Exists(c) /\ machine[p] \in vmRows
     THEN /\ associated' = [associated EXCEPT ![c] = @ \cup {machine[p]}]
          /\ Goto(p, "node_save")
     ELSE Raise(p) /\ UNCHANGED associated
  /\ UNCHANGED <<row, vault, queued, guests, doomed, history>>

SaveNode(p) ==
  /\ at[p] = "node_save"
  /\ SaveAndReturn(p, handle[p])
  /\ UNCHANGED <<associated, vault, queued, guests, doomed>>

-----------------------------------------------------------------------------
(* ModifyKubeCluster "add-node" *)

AddNode(p, c) ==
  /\ p \in ApiWorkers
  /\ status[c] = "READY" /\ primary[c] # NoVm
  /\ Get(p, c, "node_secrets", NoVm)
  /\ UNCHANGED <<row, associated, vault, queued, guests, doomed>>

JoinSecrets(p) ==
  /\ at[p] = "node_secrets"
  /\ IF Stored(on[p], {"kubeadm_token", "ca_sha"}) /\ ~Refused(handle[p])
     THEN Goto(p, "node_launch")
     ELSE Raise(p)
  /\ UNCHANGED <<row, associated, vault, queued, guests, doomed, history>>

CreateNode(p) ==
  \/ \E v \in Vms : Boot(p, v, "node_launch", "node", "node_booted")
  \/ LaunchFails(p, "node_launch")
  \/ BootFails(p, "node_booted")

NodeCreated(p) ==
  /\ at[p] = "node_booted"
  /\ Return(p)
  /\ UNCHANGED <<row, associated, vault, queued, guests, doomed, history>>

-----------------------------------------------------------------------------
(* TerminateKubeCluster: delete_cluster *)

DeleteCluster(p, c) ==
  /\ p \in ApiWorkers
  /\ Get(p, c, "deleting", NoVm)
  /\ UNCHANGED <<row, associated, vault, queued, guests, doomed>>

SetDeleting(p) ==
  /\ at[p] = "deleting"
  /\ \/ /\ Save(p, With(p, "DELETING"))
        /\ handle' = [handle EXCEPT ![p] = With(p, "DELETING")]
        /\ at' = [at EXCEPT ![p] = "delete_key"]
        /\ UNCHANGED <<on, machine, secrets>>
     \/ Refused(handle[p]) /\ Raise(p) /\ Spoil(p) /\ UNCHANGED row
  /\ UNCHANGED <<associated, vault, queued, guests, doomed>>

(* An error of Vault is logged and not raised. *)
DeleteKey_ErrorIgnored(p) ==
  /\ at[p] = "delete_key"
  /\ \/ vault' = [vault EXCEPT ![on[p]] = {}]
     \/ "vault" \in Faults /\ UNCHANGED vault
  /\ Goto(p, "controller")
  /\ UNCHANGED <<row, associated, queued, guests, doomed, history>>

DeleteKey(p) ==
  /\ at[p] = "delete_key"
  /\ \/ /\ vault' = [vault EXCEPT ![on[p]] = {}]
        /\ Goto(p, "controller") /\ UNCHANGED history
     \/ "vault" \in Faults /\ Raise(p) /\ Spoil(p) /\ UNCHANGED vault
  /\ UNCHANGED <<row, associated, queued, guests, doomed>>

(* The controller is terminated of clusters that became READY only, though the
   handle says DELETING by now. *)
TerminateController_OfReady(p) ==
  LET v == handle[p].primary IN
  /\ at[p] = "controller"
  /\ IF Refused(handle[p])
     THEN Raise(p) /\ Spoil(p) /\ UNCHANGED doomed
     ELSE /\ doomed' = IF handle[p].status = "READY" THEN doomed \cup ({v} \ {NoVm}) ELSE doomed
          /\ Goto(p, "delete") /\ UNCHANGED history
  /\ UNCHANGED <<row, associated, vault, queued, guests>>

(* The primary of the handle is fetched, which raises if its row is gone. *)
TerminateController(p) ==
  LET v == handle[p].primary IN
  /\ at[p] = "controller"
  /\ IF Refused(handle[p])
     THEN Raise(p) /\ Spoil(p) /\ UNCHANGED doomed
     ELSE /\ doomed' = doomed \cup ({v} \ {NoVm})
          /\ Goto(p, "delete") /\ UNCHANGED history
  /\ UNCHANGED <<row, associated, vault, queued, guests>>

DeleteRow(p) ==
  LET c == on[p] IN
  /\ at[p] = "delete"
  /\ status' = [status EXCEPT ![c] = "none"]
  /\ primary' = [primary EXCEPT ![c] = NoVm]
  /\ associated' = [associated EXCEPT ![c] = {}]
  /\ deleted' = deleted \cup {c}
  /\ Return(p)
  /\ UNCHANGED <<vault, queued, guests, doomed, crossed, clobbered, spoiled>>

-----------------------------------------------------------------------------
(* A machine is terminated, by a queued task or by its owner's request: its row
   goes (primary: SET_NULL, associated_instances: the link goes with it). *)

Terminated(v) ==
  /\ v \in vmRows
  /\ vmRows' = vmRows \ {v}
  /\ domains' = domains \ {v}
  /\ primary' = [c \in Clusters |-> IF primary[c] = v THEN NoVm ELSE primary[c]]
  /\ associated' = [c \in Clusters |-> associated[c] \ {v}]
  /\ UNCHANGED <<status, vault, queued, local, script, role, cluster, doomed>>

TerminateTask(v) == v \in doomed /\ Terminated(v) /\ UNCHANGED history

OwnerTerminates(v) ==
  /\ v \notin doomed
  /\ Terminated(v)
  /\ spoiled' = spoiled \cup {cluster[v]}
  /\ UNCHANGED <<deleted, crossed, clobbered>>

(* A worker is killed; whether the post it was serving fails, or is answered 502,
   is for CommandFails. *)
Crash(p) ==
  /\ p \in CrashingProcs /\ at[p] # "idle"
  /\ Return(p) /\ Spoil(p)
  /\ UNCHANGED <<row, associated, vault, queued, guests, doomed>>

-----------------------------------------------------------------------------
Create(p) == \/ FindImageFails(p) \/ SetClusterToken(p) \/ CreateController(p)
             \/ ControllerCreated(p) \/ SetPrimary(p) \/ SetClusterAsFailed(p)
Report(p) == \/ SetClusterSecrets(p) \/ SetClusterAsReady(p)
             \/ FindNode(p) \/ AssociateNode(p) \/ SaveNode(p)
Add(p) == JoinSecrets(p) \/ CreateNode(p) \/ NodeCreated(p)
Delete(p) == \/ SetDeleting(p) \/ DeleteKey(p) \/ TerminateController(p) \/ DeleteRow(p)
Run(p) == Create(p) \/ Report(p) \/ Add(p) \/ Delete(p)

Reports(v) == \E p \in ApiWorkers : ControllerReports(p, v) \/ NodeReports(p, v)

Next == \/ \E p \in Procs : Run(p) \/ Crash(p)
        \/ \E p \in Procs, c \in Clusters :
             TakeCreateCluster(p, c) \/ AddNode(p, c) \/ DeleteCluster(p, c)
        \/ \E v \in Vms : \/ CommandFails(v) \/ FallsSilent(v) \/ Reports(v)
                          \/ TerminateTask(v) \/ OwnerTerminates(v)

Spec == Init /\ [][Next]_vars

Fairness == /\ \A p \in Procs : WF_vars(Run(p))
            /\ \A c \in Clusters : SF_vars(\E p \in Procs : TakeCreateCluster(p, c))
            /\ \A v \in Vms : SF_vars(\E p \in ApiWorkers : ControllerReports(p, v))

FairSpec == Spec /\ Fairness

-----------------------------------------------------------------------------
(* Properties *)

(* The admin.conf of a READY cluster is answered, and what the join of a node
   needs is in Vault, whichever step of the creation or of a callback failed,
   unless the cluster was being deleted when a request took it. *)
ReadyHasSecrets == \A c \in Clusters :
  status[c] = "READY" /\ c \notin crossed =>
    ConfigIsAnswered(c) /\ Stored(c, {"kubeadm_token", "ca_sha"})

(* store_dict reads and writes in two calls, but no writer of a cluster's
   secret ever loses what another wrote: the token is stored before the guest
   that reports the rest exists.  Only the deletion takes keys away. *)
SecretsAreMerged ==
  [][\A c \in Clusters : \/ vault[c] \subseteq vault'[c]
                         \/ \E p \in Procs : on[p] = c /\ at[p] = "delete_key"]_vars

(* A deleted cluster keeps no secret and gets none again, and is never found in a
   status of the living again, although its creation may still be queued and its
   guest may still report.  (The row is deleted, though the code speaks of a state
   TERMINATED.) *)
DeletedStaysDeleted == \A c \in deleted \ crossed :
  status[c] \in {"none", "TERMINATED"} /\ vault[c] = {}

(* The controller of a deleted cluster does not run on unasked for, unless the
   row lost it: overwritten by a stale handle, or never set because create_vm
   raised or its worker was killed. *)
ControllerIsReleased == \A c \in deleted \ (crossed \cup clobbered \cup spoiled) :
  \A v \in domains : role[v] = "controller" /\ cluster[v] = c => v \in doomed

(* The status of a cluster moves forward and a row that is gone stays gone, with one
   step back: a READY cluster becomes FAILED when its controller, whose post had
   got through, posts Success=false all the same.  No step checks it: what keeps it
   is the order of the requests, so that stale saves, requests on a cluster being
   deleted and what failures leave behind are the only exceptions. *)
Forward == {<<"BUILDING", "READY">>, <<"BUILDING", "FAILED">>, <<"BUILDING", "DELETING">>,
            <<"READY", "DELETING">>, <<"FAILED", "DELETING">>, <<"DELETING", "none">>}
GaveUp(c) == \E v \in Vms : role[v] = "controller" /\ cluster[v] = c /\ script[v] = "ended"
StatusMovesForward ==
  [][\A c \in Clusters : \/ status'[c] = status[c]
                         \/ <<status[c], status'[c]>> \in Forward
                         \/ status[c] = "READY" /\ status'[c] = "FAILED" /\ GaveUp(c)
                         \/ c \in (clobbered \cup crossed \cup spoiled)']_vars

(* A cluster does not stay in BUILDING: every way its creation can fail and every
   post of its controller that a view serves is followed by a save of another
   status.  Exceptions: no view hears of the controller; a stale save put BUILDING
   back; or somebody was killed, could not store the secrets, or had the controller
   terminated. *)
Silent(c) == \E v \in Vms : role[v] = "controller" /\ cluster[v] = c /\ script[v] = "silent"

-----------------------------------------------------------------------------
(* What the code's own text promises and its steps do not keep. *)

(* delete_cluster: "Terminates a Kubernetes cluster by deleting associated
   resources": also the nodes in its associated_instances. *)
AssociatedAreReleased ==
  [][\A c \in Clusters : c \in (deleted' \ deleted) \ crossed =>
       associated[c] \subseteq doomed]_vars
=============================================================================
