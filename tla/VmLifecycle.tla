----------------------------- MODULE VmLifecycle -----------------------------
(***************************************************************************)
(* The life of a virtual machine: vmmanager/vm_manager.py run by the API   *)
(* workers (views.py), the Celery workers (tasks.py) and the operator's    *)
(* shell (management/commands/terminateinstance.py).                       *)
(*                                                                         *)
(* The record of one VM is spread over four places that no transaction     *)
(* spans: its database row, the row of its volume, its directory, and its  *)
(* libvirt domain.  Every step below is one write to one of these places;  *)
(* between two steps any other process may run, or this one may die.       *)
(***************************************************************************)
EXTENDS Libvirt, Naturals

CONSTANTS ApiWorkers,     \* gunicorn workers serving the views
          CeleryWorkers,  \* processes consuming the task queue
          Shells,         \* operators running "terminateinstance"
          Creators,       \* processes that call create_vm
          CleaningProcs,  \* processes whose CLEAN_UP_ON_FAIL is true
          CrashingProcs,  \* processes that may be killed
          Faults,         \* which calls to the outside may fail
          MaxPending,     \* bound: queued terminate tasks per VM
          NoVm

Procs == ApiWorkers \cup CeleryWorkers \cup Shells

ASSUME ProcsAssumption ==
  /\ ApiWorkers \cap CeleryWorkers = {}
  /\ ApiWorkers \cap Shells = {}
  /\ CeleryWorkers \cap Shells = {}
  /\ Creators \subseteq ApiWorkers \cup CeleryWorkers
ASSUME MaxPendingAssumption == MaxPending \in Nat
ASSUME NoVmAssumption == NoVm \notin Vms

VARIABLES vmRow,      \* the VirtualMachine row: its state, or "none"
          volRow,     \* the Volume row of the boot disk: its state, or "none"
          linked,     \* VMs whose Volume row refers to the VirtualMachine row
          files,      \* the VM's directory: "absent", "dir", "disk" (with the image)
          pending,    \* task_terminate_instance messages in the broker
          pc, job, arg,    \* what each process runs, for which VM, and where it is
          virtual_disks,   \* processes whose instance.virtual_disks is not empty
          response,   \* history: what became of the VM's create_vm call
          doomed,     \* history: VMs whose termination somebody asked for
          terminated  \* history: VMs for which terminate_instance returned

db      == <<vmRow, volRow, linked>>
local   == <<pc, job, arg, virtual_disks>>
history == <<response, doomed, terminated>>
vars    == <<libvirt, db, files, pending, local, history>>

TryLabels     == {"copy", "save_volume", "populate", "attach", "define",
                  "check", "create", "autostart", "finish"}
CleanUpLabels == {"drop_row", "drop_dir", "drop_disks"}
LaunchLabels  == {"mkdir"} \cup TryLabels \cup CleanUpLabels
StartLabels   == {"check", "create", "autostart"}
TerminateLabels == {"find_row", "find_domain", "stop", "await", "undefine",
                    "rmtree", "drop_volumes", "drop_vm"}
LabelsOf == [none |-> {"idle"}, launch |-> LaunchLabels,
             start |-> StartLabels, terminate |-> TerminateLabels]
Jobs == {"none", "launch", "start", "terminate"}
Labels == {"idle"} \cup LaunchLabels \cup TerminateLabels

(* Every variable keeps to its values, and each process is at a label of the
   job it runs, on a VM exactly when it runs one. *)
TypeOK ==
  /\ LibvirtTypeOK
  /\ vmRow \in [Vms -> {"none", "CREATING", "AVAILABLE"}]
  /\ volRow \in [Vms -> {"none", "CREATING", "ATTACHED"}]
  /\ linked \subseteq Vms
  /\ files \in [Vms -> {"absent", "dir", "disk"}]
  /\ pending \in [Vms -> 0..MaxPending]
  /\ pc \in [Procs -> Labels]
  /\ job \in [Procs -> Jobs]
  /\ arg \in [Procs -> Vms \cup {NoVm}]
  /\ virtual_disks \subseteq Procs
  /\ response \in [Vms -> {"none", "pending", "launched", "raised", "lost"}]
  /\ doomed \subseteq Vms
  /\ terminated \subseteq Vms
  /\ \A p \in Procs : /\ pc[p] \in LabelsOf[job[p]]
                      /\ (arg[p] = NoVm) <=> (job[p] = "none")

Init ==
  /\ LibvirtInit
  /\ vmRow = [v \in Vms |-> "none"]
  /\ volRow = [v \in Vms |-> "none"]
  /\ linked = {}
  /\ files = [v \in Vms |-> "absent"]
  /\ pending = [v \in Vms |-> 0]
  /\ pc = [p \in Procs |-> "idle"]
  /\ job = [p \in Procs |-> "none"]
  /\ arg = [p \in Procs |-> NoVm]
  /\ virtual_disks = {}
  /\ response = [v \in Vms |-> "none"]
  /\ doomed = {}
  /\ terminated = {}

-----------------------------------------------------------------------------
(* Control: a process is at a label, takes a job, goes on or returns. *)

At(p, l) == pc[p] = l

Begin(p, j, v, l) == /\ job[p] = "none"
                     /\ job' = [job EXCEPT ![p] = j]
                     /\ arg' = [arg EXCEPT ![p] = v]
                     /\ pc' = [pc EXCEPT ![p] = l]
                     /\ UNCHANGED virtual_disks

Goto(p, l) == /\ pc' = [pc EXCEPT ![p] = l]
              /\ UNCHANGED <<job, arg, virtual_disks>>

Return(p) == /\ pc' = [pc EXCEPT ![p] = "idle"]
             /\ job' = [job EXCEPT ![p] = "none"]
             /\ arg' = [arg EXCEPT ![p] = NoVm]
             /\ virtual_disks' = virtual_disks \ {p}

Answer(v, r) == /\ response' = [response EXCEPT ![v] = r]
                /\ UNCHANGED <<doomed, terminated>>

(* An exception in _create_virtual_machine is caught and leads to _clean_up,
   which deletes the row and the directory only under CLEAN_UP_ON_FAIL; in the
   other jobs it ends the job (an error response, a failed task). *)
Raise(p) == IF job[p] = "launch"
            THEN Goto(p, IF p \in CleaningProcs THEN "drop_row" ELSE "drop_disks")
            ELSE Return(p)

-----------------------------------------------------------------------------
(* create_vm *)

PrepareVmDb(p, v) ==
  /\ p \in Creators
  /\ response[v] = "none"                       \* a newly generated id
  /\ Begin(p, "launch", v, "mkdir")
  /\ vmRow' = [vmRow EXCEPT ![v] = "CREATING"]
  /\ Answer(v, "pending")
  /\ UNCHANGED <<libvirt, volRow, linked, files, pending>>

(* mkdir is outside create_vm's try: when it fails nothing is cleaned up. *)
GenerateVmPath(p) ==
  LET v == arg[p] IN
  /\ At(p, "mkdir")
  /\ \/ /\ files' = [files EXCEPT ![v] = "dir"]
        /\ Goto(p, "copy")
        /\ UNCHANGED history
     \/ /\ "mkdir" \in Faults
        /\ Return(p)
        /\ Answer(v, "raised")
        /\ UNCHANGED files
  /\ UNCHANGED <<libvirt, db, pending>>

CopyImage(p) ==
  /\ At(p, "copy")
  /\ files' = [files EXCEPT ![arg[p]] = "disk"]
  /\ Goto(p, "save_volume")
  /\ UNCHANGED <<libvirt, db, pending, history>>

SaveVolume(p) ==
  LET v == arg[p] IN
  /\ At(p, "save_volume")
  /\ volRow' = [volRow EXCEPT ![v] = "CREATING"]
  /\ linked' = linked \cup {v}
  /\ Goto(p, "populate")
  /\ UNCHANGED <<libvirt, vmRow, files, pending, history>>

(* resize, populate_metadata and add_virtual_disk: only now does the process
   remember the disk it would have to delete. *)
AddVirtualDisk(p) ==
  /\ At(p, "populate")
  /\ pc' = [pc EXCEPT ![p] = "attach"]
  /\ virtual_disks' = virtual_disks \cup {p}
  /\ UNCHANGED <<libvirt, db, files, pending, job, arg, history>>

(* The state of the volume is set and never saved. *)
AttachVolume_Unsaved(p) ==
  /\ At(p, "attach")
  /\ Goto(p, "define")
  /\ UNCHANGED <<libvirt, db, files, pending, history>>

AttachVolume(p) ==
  LET v == arg[p] IN
  /\ At(p, "attach")
  /\ volRow' = [volRow EXCEPT ![v] = "ATTACHED"]
  /\ Goto(p, "define")
  /\ UNCHANGED <<libvirt, vmRow, linked, files, pending, history>>

DefineDomain(p) ==
  /\ At(p, "define")
  /\ DefineXML(arg[p])
  /\ Goto(p, "check")
  /\ UNCHANGED <<db, files, pending, history>>

(* The save is repeated after the id was answered. *)
FinishVmDb_Repeated(p) ==
  LET v == arg[p] IN
  /\ At(p, "finish")
  /\ vmRow' = [vmRow EXCEPT ![v] = "AVAILABLE"]
  /\ Answer(v, "launched")
  /\ UNCHANGED <<libvirt, volRow, linked, files, pending, local>>

FinishVmDb(p) ==
  LET v == arg[p] IN
  /\ At(p, "finish")
  /\ vmRow' = [vmRow EXCEPT ![v] = "AVAILABLE"]   \* save(): UPDATE, else INSERT
  /\ Return(p)
  /\ Answer(v, "launched")
  /\ UNCHANGED <<libvirt, volRow, linked, files, pending>>

(* Any other failure inside the try: image, resize, cloud-init, libvirt. *)
LaunchFails(p) ==
  /\ "launch" \in Faults
  /\ job[p] = "launch" /\ pc[p] \in TryLabels
  /\ Raise(p)
  /\ UNCHANGED <<libvirt, db, files, pending, history>>

-----------------------------------------------------------------------------
(* VirtualMachineInstance.start(), the end of a launch and ModifyVM "start" *)

(* Every start goes on as the end of a launch. *)
StartContinue_AlwaysFinish(p) == Goto(p, "finish")

StartContinue(p) == IF job[p] = "launch" THEN Goto(p, "finish") ELSE Return(p)

CheckActive(p) ==
  LET v == arg[p] IN
  /\ At(p, "check")
  /\ IF v \in active       THEN StartContinue(p)
     ELSE IF v \in defined THEN Goto(p, "create")
     ELSE Raise(p)
  /\ UNCHANGED <<libvirt, db, files, pending, history>>

CreateDomain(p) ==
  LET v == arg[p] IN
  /\ At(p, "create")
  /\ IF ShutOff(v) /\ files[v] = "disk"
     THEN Boot(v) /\ Goto(p, "autostart")
     ELSE UNCHANGED libvirt /\ Raise(p)
  /\ UNCHANGED <<db, files, pending, history>>

SetAutostart(p) ==
  LET v == arg[p] IN
  /\ At(p, "autostart")
  /\ IF v \in defined
     THEN AutostartOn(v) /\ StartContinue(p)
     ELSE UNCHANGED libvirt /\ Raise(p)
  /\ UNCHANGED <<db, files, pending, history>>

-----------------------------------------------------------------------------
(* _clean_up: after an exception inside the try *)

CleanUpRow(p) ==
  LET v == arg[p] IN
  /\ At(p, "drop_row")
  /\ vmRow' = [vmRow EXCEPT ![v] = "none"]
  /\ linked' = linked \ {v}                       \* on_delete=SET_NULL
  /\ Goto(p, "drop_dir")
  /\ UNCHANGED <<libvirt, volRow, files, pending, history>>

(* rmtree; its errors are logged and swallowed, whatever it got removed. *)
RemoveFiles(v) == \/ files' = [files EXCEPT ![v] = "absent"]
                  \/ "rmtree" \in Faults /\ UNCHANGED files
                  \/ /\ "rmtree" \in Faults /\ files[v] = "disk"
                     /\ files' = [files EXCEPT ![v] = "dir"]

CleanUpDir(p) ==
  /\ At(p, "drop_dir")
  /\ RemoveFiles(arg[p])
  /\ Goto(p, "drop_disks")
  /\ UNCHANGED <<libvirt, db, pending, history>>

(* _del_disks knows the volumes of instance.virtual_disks only. *)
CleanUpDisks(p) ==
  LET v == arg[p] IN
  /\ At(p, "drop_disks")
  /\ IF p \in virtual_disks
     THEN /\ volRow' = [volRow EXCEPT ![v] = "none"]
          /\ linked' = linked \ {v}
     ELSE UNCHANGED <<volRow, linked>>
  /\ Return(p)
  /\ Answer(v, "raised")
  /\ UNCHANGED <<libvirt, vmRow, files, pending>>

-----------------------------------------------------------------------------
(* The views and the command that act on an existing VM *)

TerminateVM(p, v) ==
  /\ p \in ApiWorkers /\ job[p] = "none"
  /\ Known(v)                                     \* otherwise 404
  /\ pending[v] < MaxPending
  /\ pending' = [pending EXCEPT ![v] = @ + 1]
  /\ doomed' = doomed \cup {v}
  /\ UNCHANGED <<libvirt, db, files, local, response, terminated>>

StartVM(p, v) ==
  /\ p \in ApiWorkers
  /\ Known(v)
  /\ Begin(p, "start", v, "check")
  /\ UNCHANGED <<libvirt, db, files, pending, history>>

(* ModifyVM "stop" does not wait: it asks the guest to shut down. *)
StopVM(p, v) ==
  /\ p \in ApiWorkers /\ job[p] = "none"
  /\ v \in active
  /\ AutostartOff(v)
  /\ UNCHANGED <<db, files, pending, local, history>>

TakeTerminate(p, v) ==
  /\ p \in CeleryWorkers
  /\ pending[v] > 0
  /\ Begin(p, "terminate", v, "find_row")
  /\ pending' = [pending EXCEPT ![v] = @ - 1]     \* acknowledged when taken
  /\ UNCHANGED <<libvirt, db, files, history>>

TerminateInstanceCommand(p, v) ==
  /\ p \in Shells
  /\ vmRow[v] # "none"
  /\ Begin(p, "terminate", v, "find_row")
  /\ doomed' = doomed \cup {v}
  /\ UNCHANGED <<libvirt, db, files, pending, response, terminated>>

-----------------------------------------------------------------------------
(* terminate_instance *)

FindRow(p) ==
  /\ At(p, "find_row")
  /\ IF vmRow[arg[p]] # "none" THEN Goto(p, "find_domain") ELSE Raise(p)
  /\ UNCHANGED <<libvirt, db, files, pending, history>>

(* "force" taken at its word: a missing domain does not stop the termination. *)
FindDomain_Forced(p) ==
  /\ At(p, "find_domain")
  /\ Goto(p, IF Known(arg[p]) THEN "stop" ELSE "rmtree")
  /\ UNCHANGED <<libvirt, db, files, pending, history>>

FindDomain(p) ==
  /\ At(p, "find_domain")
  /\ IF Known(arg[p]) THEN Goto(p, "stop") ELSE Raise(p)
  /\ UNCHANGED <<libvirt, db, files, pending, history>>

StopInstance(p) ==
  LET v == arg[p] IN
  /\ At(p, "stop")
  /\ \/ ShutOff(v) /\ Goto(p, "undefine") /\ UNCHANGED libvirt
     \/ v \in active /\ AutostartOff(v) /\ Goto(p, "await")
     \/ v \notin defined /\ Raise(p) /\ UNCHANGED libvirt
  /\ UNCHANGED <<db, files, pending, history>>

(* The wait loop never gives up on a graceful shutdown. *)
ForceOff_Never(p) ==
  /\ At(p, "await")
  /\ UNCHANGED vars

(* The wait loop gave up on a graceful shutdown and calls destroy(). *)
ForceOff(p) ==
  /\ At(p, "await")
  /\ PowerOff(arg[p])
  /\ UNCHANGED <<db, files, pending, local, history>>

(* The wait loop's isActive() answers FALSE, or raises for a vanished domain. *)
Stopped(p) ==
  LET v == arg[p] IN
  /\ At(p, "await")
  /\ v \notin active
  /\ IF v \in defined THEN Goto(p, "undefine") ELSE Raise(p)
  /\ UNCHANGED <<libvirt, db, files, pending, history>>

(* The domain's configuration survives the termination. *)
UndefineDomain_Skipped(p) ==
  /\ At(p, "undefine")
  /\ IF arg[p] \in defined THEN Goto(p, "rmtree") ELSE Raise(p)
  /\ UNCHANGED <<libvirt, db, files, pending, history>>

UndefineDomain(p) ==
  LET v == arg[p] IN
  /\ At(p, "undefine")
  /\ IF v \in defined
     THEN Undefine(v) /\ Goto(p, "rmtree")
     ELSE UNCHANGED libvirt /\ Raise(p)
  /\ UNCHANGED <<db, files, pending, history>>

RemoveTree(p) ==
  /\ At(p, "rmtree")
  /\ RemoveFiles(arg[p])
  /\ Goto(p, "drop_volumes")
  /\ UNCHANGED <<libvirt, db, pending, history>>

(* The volumes are left to the foreign key's SET_NULL. *)
DropVolumes_Skipped(p) ==
  /\ At(p, "drop_volumes")
  /\ Goto(p, "drop_vm")
  /\ UNCHANGED <<libvirt, db, files, pending, history>>

(* Volume.objects.filter(virtual_machine=vm_db): the linked ones only. *)
DropVolumes(p) ==
  LET v == arg[p] IN
  /\ At(p, "drop_volumes")
  /\ volRow' = [volRow EXCEPT ![v] = IF v \in linked THEN "none" ELSE @]
  /\ linked' = linked \ {v}
  /\ Goto(p, "drop_vm")
  /\ UNCHANGED <<libvirt, vmRow, files, pending, history>>

DropVm(p) ==
  LET v == arg[p] IN
  /\ At(p, "drop_vm")
  /\ vmRow' = [vmRow EXCEPT ![v] = "none"]
  /\ linked' = linked \ {v}                       \* on_delete=SET_NULL
  /\ terminated' = terminated \cup {v}
  /\ Return(p)
  /\ UNCHANGED <<libvirt, volRow, files, pending, response, doomed>>

(* libvirt or the database refuses a call of terminate_instance. *)
TerminateFails(p) ==
  /\ "terminate" \in Faults
  /\ job[p] = "terminate" /\ pc[p] # "rmtree"
  /\ Raise(p)
  /\ UNCHANGED <<libvirt, db, files, pending, history>>

-----------------------------------------------------------------------------
(* The environment *)

GuestPowersOff(v) == /\ PowerOff(v)
                     /\ UNCHANGED <<db, files, pending, local, history>>

(* A killed process forgets what it was doing: a gunicorn worker at its
   timeout, a Celery worker whose message is already acknowledged. *)
Crash(p) ==
  /\ p \in CrashingProcs /\ job[p] # "none"
  /\ Return(p)
  /\ IF job[p] = "launch" THEN Answer(arg[p], "lost") ELSE UNCHANGED history
  /\ UNCHANGED <<libvirt, db, files, pending>>

-----------------------------------------------------------------------------
Launch(p) == \/ GenerateVmPath(p) \/ CopyImage(p) \/ SaveVolume(p)
             \/ AddVirtualDisk(p) \/ AttachVolume(p) \/ DefineDomain(p)
             \/ FinishVmDb(p)
Start(p) == CheckActive(p) \/ CreateDomain(p) \/ SetAutostart(p)
CleanUp(p) == CleanUpRow(p) \/ CleanUpDir(p) \/ CleanUpDisks(p)
Terminate(p) == \/ FindRow(p) \/ FindDomain(p) \/ StopInstance(p)
                \/ ForceOff(p) \/ Stopped(p) \/ UndefineDomain(p)
                \/ RemoveTree(p) \/ DropVolumes(p) \/ DropVm(p)
Step(p) == Launch(p) \/ Start(p) \/ CleanUp(p) \/ Terminate(p)
Fails(p) == LaunchFails(p) \/ TerminateFails(p)
Request(p, v) == \/ PrepareVmDb(p, v) \/ TerminateVM(p, v) \/ StartVM(p, v)
                 \/ StopVM(p, v) \/ TerminateInstanceCommand(p, v)

Next == \/ \E p \in Procs : Step(p) \/ Fails(p) \/ Crash(p)
        \/ \E p \in Procs, v \in Vms : Request(p, v) \/ TakeTerminate(p, v)
        \/ \E v \in Vms : GuestPowersOff(v)

Spec == Init /\ [][Next]_vars

(* A process that is running goes on running.  A waiting loop's destroy() is
   reached because it counts seconds, whatever the guest does.  The broker
   hands out messages in order, so a queued one is taken in the end. *)
Fairness == /\ \A p \in Procs : WF_vars(Step(p))
            /\ \A v \in Vms :
                 SF_vars(\E p \in CeleryWorkers : TakeTerminate(p, v))

FairSpec == Spec /\ Fairness

-----------------------------------------------------------------------------
(* Properties *)

(* The VM of a launch that answered with its id is whole until somebody asks
   for its termination: the row is AVAILABLE, the domain is defined, the image
   is on disk and the volume is attached to the row.  Other processes start
   and stop the domain meanwhile, and launches of other VMs fail. *)
Whole(v) == /\ vmRow[v] = "AVAILABLE"
            /\ v \in defined
            /\ files[v] = "disk"
            /\ volRow[v] = "ATTACHED" /\ v \in linked
LaunchedIsWhole ==
  \A v \in Vms : response[v] = "launched" /\ v \notin doomed => Whole(v)

(* A launch owns the pieces it is putting together: no termination of its VM
   gets past the domain lookup before the launch defines the domain, and none
   of the pieces disappears. *)
Preparing(p) == job[p] = "launch"
                /\ pc[p] \in {"save_volume", "populate", "attach", "define"}
PreparationUndisturbed ==
  \A p \in Procs : Preparing(p) =>
     /\ vmRow[arg[p]] = "CREATING" /\ files[arg[p]] = "disk"
     /\ ~Known(arg[p])
     /\ \A q \in Procs \ {p} :
          arg[q] = arg[p] => pc[q] \in {"find_row", "find_domain"}

(* Whatever fails or dies half-way through a termination, a VM whose launch
   succeeded never keeps a domain whose row or disk is gone: the domain is
   undefined before the first of them is deleted. *)
DomainKeepsRecords ==
  \A v \in Vms : response[v] = "launched" /\ v \in defined =>
     vmRow[v] # "none" /\ files[v] = "disk"

(* A volume row that no VM row refers to, which no termination can find any
   more, is left only by a launch that failed. *)
NoOrphanVolume ==
  \A v \in Vms : volRow[v] # "none" /\ v \notin linked =>
     response[v] \in {"pending", "raised", "lost"}

(* A termination that returned left no row, no volume, no file and no
   persistent domain, and they stay away: no stale handle brings one back. *)
TerminatedLeavesNothing ==
  \A v \in terminated : /\ vmRow[v] = "none" /\ volRow[v] = "none"
                        /\ files[v] = "absent" /\ v \notin defined

(* Once clients stop pressing "start", a VM with a queued terminate task
   loses its database row, although guests may ignore the shutdown request
   and requests for the same VM arrive twice. *)
Starts == \E p \in ApiWorkers, v \in Vms : StartVM(p, v)
TerminationCompletes ==
  <>[][~Starts]_vars =>
    \A v \in Vms : pending[v] > 0 ~> vmRow[v] = "none"

(* The answers of the API can be relied upon (VmContract): an answered launch
   keeps all its records until its termination is asked for, from then on they
   only disappear, and a VM that is gone, or whose launch failed, never counts
   as launched again. *)
Cleared(v) == /\ vmRow[v] = "none" /\ volRow[v] = "none"
              /\ files[v] = "absent" /\ v \notin defined
PhaseOf(v) == CASE response[v] = "none"             -> "new"
                [] response[v] = "pending"          -> "launching"
                [] response[v] \in {"raised", "lost"} -> "failed"
                [] response[v] = "launched"         -> IF Whole(v) THEN "up"
                                                       ELSE IF Cleared(v) THEN "gone"
                                                       ELSE "ending"
Contract == INSTANCE VmContract WITH phase <- [v \in Vms |-> PhaseOf(v)], asked <- doomed
ImplementsContract == Contract!Spec

-----------------------------------------------------------------------------
(* What the code's own text promises and its steps do not keep. *)

(* create_vm: "If this process fails, the function will clean up after itself":
   a launch that failed in a cleaning process leaves no domain behind. *)
FailedLaunchLeavesNoDomain ==
  \A v \in Vms : response[v] = "raised" => ~Known(v)

(* terminate_instance: "Stop the instance and undefine (remove) from Virsh":
   the guest of a terminated VM does not run. *)
TerminatedIsOff == \A v \in terminated : ~Known(v)

(* "Successfully terminated instance": the row of a terminated VM is gone. *)
TerminatedStaysGone == \A v \in terminated : vmRow[v] = "none"
=============================================================================
