------------------------------ MODULE VmImages ------------------------------
(***************************************************************************)
(* Disk images (vmmanager/image_manager.py) and how they are made from     *)
(* virtual machines (vm_manager.py: create_virtual_machine_image), over    *)
(* VmPower.  An image is prepared as a row in state CREATING by the API,   *)
(* then a Celery worker, or the API itself for the images of Kubernetes    *)
(* nodes, stops the machine, copies its disk, starts or terminates the     *)
(* machine, cleans the copy and registers it.  Meanwhile other requests    *)
(* start, stop, terminate and copy the same machine.                       *)
(***************************************************************************)
EXTENDS VmPower

CONSTANTS Images,         \* ids of Image rows; an image of a VM has a file of its own
          BaseFiles,      \* image files put on the host by the operator
          RegisterFiles,  \* the paths clients try to register
          ApiWorkers, CeleryWorkers, Shells,
          CrashingProcs,  \* processes that may be killed
          NoImage

ASSUME ImagesAssumption == /\ NoImage \notin Images
                           /\ Images \cap BaseFiles = {}
                           /\ RegisterFiles \subseteq Images \cup BaseFiles
ASSUME ProcsAssumption == Procs = ApiWorkers \cup CeleryWorkers \cup Shells

VARIABLES imgRow,     \* the Image row: its state, or "none"
          target,     \* the file the image is to be registered for
          named,      \* images whose row has its image_path
          meta,       \* images whose row has its metadata
          file,       \* the disk file made for an image
          torn,       \* images copied from a disk that was in use
          vmRows, disks,     \* VMs with a database row, with a directory
          queued,     \* images with a task_create_image message
          source,     \* the VM that message names
          script,     \* of a machine launched to become an image of a
                      \* Kubernetes node: what its preparation has come to
          step, img,  \* what each process does, for which image
          wasRunning, \* processes whose before_state is "running"
          ephemeral,  \* processes with terminate_after_creation
          meddled, crossed  \* history, see the properties

rows    == <<imgRow, target, named, meta>>
store   == <<file, torn, vmRows, disks>>
broker  == <<queued, source, script>>
job     == <<step, img, wasRunning, ephemeral>>
history == <<meddled, crossed>>
vars    == <<libvirt, power, rows, store, broker, job, history>>

Files == Images \cup BaseFiles

Steps == {"none", "start", "stop", "enqueue", "find", "stopping", "convert", "converting",
          "end_row", "end_stopping", "undefine", "remove",
          "restart", "restarting", "sysprep", "sparsify", "check", "save", "mark", "mark_named",
          "mark_whole"}

(* Every variable keeps to its values; a process works on an image or a VM
   exactly when it has a job, and only a job that called start() or stop() is
   inside one. *)
TypeOK ==
  /\ PowerTypeOK
  /\ imgRow \in [Images -> {"none", "CREATING", "AVAILABLE", "ERROR"}]
  /\ target \in [Images -> Files \cup {NoImage}]
  /\ file \in [Images -> {"absent", "partial", "copied", "prepared", "ready"}]
  /\ source \in [Images -> Vms \cup {NoVm}]
  /\ script \in [Vms -> {"unborn", "none", "runs", "failed", "posted"}]
  /\ step \in [Procs -> Steps]
  /\ img \in [Procs -> Images \cup {NoImage}]
  /\ vmRows \subseteq Vms /\ disks \subseteq Vms
  /\ \A s \in {named, meta, torn, queued, meddled, crossed} : s \subseteq Images
  /\ wasRunning \subseteq Procs /\ ephemeral \subseteq Procs
  /\ \A p \in Procs :
       /\ step[p] = "none" <=> (img[p] = NoImage /\ dom[p] = NoVm)
       /\ at[p] # "out" =>
            step[p] \in {"start", "stop", "stopping", "end_stopping", "restarting"}

(* Machines that users have launched before, and ids not yet in use. *)
Init ==
  /\ script \in [Vms -> {"unborn", "none"}]
  /\ vmRows = {v \in Vms : script[v] = "none"}
  /\ disks = vmRows
  /\ PowerInit(vmRows)
  /\ imgRow = [i \in Images |-> "none"]
  /\ target = [i \in Images |-> NoImage]
  /\ file = [i \in Images |-> "absent"]
  /\ named = {} /\ meta = {} /\ torn = {}
  /\ ephemeral = {} /\ wasRunning = {} /\ queued = {}
  /\ source = [i \in Images |-> NoVm]
  /\ step = [p \in Procs |-> "none"]
  /\ img = [p \in Procs |-> NoImage]
  /\ meddled = {} /\ crossed = {}

-----------------------------------------------------------------------------
(* Control *)

Idle(p) == step[p] = "none"
Step(p, s) == step' = [step EXCEPT ![p] = s] /\ UNCHANGED <<img, wasRunning, ephemeral>>
NotPower == UNCHANGED <<libvirt, power>>

(* A job on VM v begins.  History: the images being made from v at that time,
   and the new one if v is in other hands already, are meddled with. *)
Others(p, v) == {q \in Procs \ {p} : dom[q] = v /\ v # NoVm}
Begin(p, s, i, v) ==
  /\ Idle(p)
  /\ step' = [step EXCEPT ![p] = s]
  /\ img' = [img EXCEPT ![p] = i]
  /\ dom' = [dom EXCEPT ![p] = v]
  /\ meddled' = meddled \cup
       (({img[q] : q \in Others(p, v)} \cup
         (IF Others(p, v) # {} THEN {i} ELSE {})) \ {NoImage})
  /\ UNCHANGED <<wasRunning, crossed>>

End(p) == /\ step' = [step EXCEPT ![p] = "none"]
          /\ img' = [img EXCEPT ![p] = NoImage]
          /\ dom' = [dom EXCEPT ![p] = NoVm]
          /\ wasRunning' = wasRunning \ {p}
          /\ ephemeral' = ephemeral \ {p}

(* The exception handlers: task_create_image marks the image as failed, the
   views and the other task only answer or end. *)
RaiseTo(p, handler) == IF p \in CeleryWorkers /\ img[p] # NoImage
                       THEN Step(p, handler) /\ UNCHANGED dom
                       ELSE End(p)
Raise(p) == RaiseTo(p, "mark")
NotPowerButDom == UNCHANGED <<libvirt, at, patient, waited>>

-----------------------------------------------------------------------------
(* The calls of VmPower, as steps of the composition.  Booting a machine tears
   the copies that are being made of its disk. *)

Call(p) == /\ PowerStep(p)
           /\ UNCHANGED <<rows, store, broker, job, history>>

BootingCall(p) ==
  /\ StartCreate(p)
  /\ torn' = torn \cup
       {img[q] : q \in {r \in Procs : /\ step[r] = "converting"
                                      /\ dom[r] \in active' \ active}}
  /\ UNCHANGED <<rows, file, vmRows, disks, broker, job, history>>

(* ModifyVM "start" and "stop" *)
StartVM(p, v) ==
  /\ p \in ApiWorkers /\ Known(v)
  /\ Begin(p, "start", NoImage, v)
  /\ CallStart(p)
  /\ UNCHANGED <<libvirt, rows, store, broker, ephemeral>>

StopVM(p, v) ==
  /\ p \in ApiWorkers /\ Known(v)
  /\ Begin(p, "stop", NoImage, v)
  /\ CallStopNoWait(p)
  /\ UNCHANGED <<libvirt, rows, store, broker, ephemeral>>

Answer(p) ==
  /\ step[p] \in {"start", "stop"}
  /\ \E how \in {"returned", "raised"} : Collect(p, how)
  /\ End(p)
  /\ UNCHANGED <<libvirt, rows, store, broker, history>>

-----------------------------------------------------------------------------
(* The row of an image *)

Prepare(i, f) == /\ imgRow[i] = "none"             \* a newly generated id
                 /\ imgRow' = [imgRow EXCEPT ![i] = "CREATING"]
                 /\ target' = [target EXCEPT ![i] = f]
                 /\ UNCHANGED <<named, meta>>

(* ModifyVM "create-image": the row, then the message. *)
PrepareUserImage(p, i, v) ==
  /\ p \in ApiWorkers /\ Known(v)
  /\ Prepare(i, i)
  /\ source' = [source EXCEPT ![i] = v]
  /\ Begin(p, "enqueue", i, NoVm)
  /\ NotPowerButDom
  /\ UNCHANGED <<store, ephemeral, queued, script>>

Enqueue(p) ==
  /\ step[p] = "enqueue"
  /\ queued' = queued \cup {img[p]}
  /\ End(p)
  /\ NotPowerButDom
  /\ UNCHANGED <<rows, store, source, script, history>>

(* The message is acknowledged when it is taken. *)
TakeCreateImage(p, i) ==
  /\ p \in CeleryWorkers /\ i \in queued
  /\ queued' = queued \ {i}
  /\ source' = [source EXCEPT ![i] = NoVm]
  /\ Begin(p, "find", i, source[i])
  /\ NotPowerButDom
  /\ UNCHANGED <<rows, store, script, ephemeral>>

(* generate_kubernetes_image: create_vm, which VmLifecycle models step by step,
   of a machine that runs the preparation script when it boots. *)
GenerateKubeImage(v) ==
  /\ script[v] = "unborn"
  /\ script' = [script EXCEPT ![v] = "runs"]
  /\ vmRows' = vmRows \cup {v} /\ disks' = disks \cup {v}
  /\ defined' = defined \cup {v} /\ active' = active \cup {v}
  /\ autostart' = autostart \cup {v}
  /\ UNCHANGED <<power, rows, file, torn, queued, source, job, history>>

CreateKubeImage(p, v) == p \in ApiWorkers /\ Idle(p) /\ GenerateKubeImage(v)
CreateKubeImageCommand(p, v) == p \in Shells /\ Idle(p) /\ GenerateKubeImage(v)

(* A command of the script fails: the trap posts Success=false, which
   PrepareAdminKubeCluster logs, or the post finds no row or no API.  The
   machine is left as it is. *)
ScriptFails(v) ==
  /\ script[v] = "runs" /\ v \in active
  /\ script' = [script EXCEPT ![v] = "failed"]
  /\ UNCHANGED <<libvirt, power, rows, store, queued, source, job, history>>

(* The script gets to its end and posts Success=true.  (It may be one that goes
   on after the machine was stopped and started.) *)
ScriptPosts(v) == /\ script[v] = "runs" /\ v \in active
                  /\ script' = [script EXCEPT ![v] = "posted"]

(* The API itself makes the image and terminates the machine. *)
RegisterKubeImage(p, i, v) ==
  /\ v \in vmRows
  /\ Prepare(i, i)
  /\ ephemeral' = ephemeral \cup {p}
  /\ Begin(p, "find", i, v)
  /\ NotPowerButDom
  /\ UNCHANGED <<store, queued, source>>

PrepareKubeImage(p, i, v) ==
  p \in ApiWorkers /\ ScriptPosts(v) /\ RegisterKubeImage(p, i, v)

(* register_guest_image saves the row before it looks at the path. *)
RegisterGuestImage(p, i, f) ==
  /\ Prepare(i, f)
  /\ Begin(p, "check", i, NoVm)
  /\ NotPowerButDom
  /\ UNCHANGED <<store, broker, ephemeral>>

RegisterImage(p, i, f) == p \in ApiWorkers /\ RegisterGuestImage(p, i, f)
RegisterImageCommand(p, i, f) == p \in Shells /\ RegisterGuestImage(p, i, f)

-----------------------------------------------------------------------------
(* create_virtual_machine_image *)

(* The machine is asked to stop and not waited for. *)
FindInstance_NoWait(p) ==
  /\ step[p] = "find"
  /\ IF Known(dom[p])
     THEN /\ wasRunning' = IF GetState(dom[p]) = "running" THEN wasRunning \cup {p} ELSE wasRunning
          /\ CallStopNoWait(p)
          /\ step' = [step EXCEPT ![p] = "stopping"]
          /\ UNCHANGED <<dom, img, ephemeral>>
     ELSE Raise(p) /\ UNCHANGED <<at, patient, waited>>
  /\ UNCHANGED <<libvirt, rows, store, broker, history>>

(* The state is read before the machine is stopped. *)
FindInstance(p) ==
  /\ step[p] = "find"
  /\ IF Known(dom[p])
     THEN /\ wasRunning' = IF GetState(dom[p]) = "running" THEN wasRunning \cup {p} ELSE wasRunning
          /\ CallStop(p)
          /\ step' = [step EXCEPT ![p] = "stopping"]
          /\ UNCHANGED <<dom, img, ephemeral>>
     ELSE Raise(p) /\ UNCHANGED <<at, patient, waited>>
  /\ UNCHANGED <<libvirt, rows, store, broker, history>>

Stopping(p) ==
  /\ step[p] = "stopping"
  /\ \/ Collect(p, "returned") /\ Step(p, "convert") /\ UNCHANGED dom
     \/ Collect(p, "raised") /\ Raise(p)
  /\ UNCHANGED <<libvirt, rows, store, broker, history>>

ConvertBegins(p) ==
  /\ step[p] = "convert"
  /\ IF dom[p] \in disks
     THEN /\ file' = [file EXCEPT ![img[p]] = "partial"]
          /\ torn' = IF dom[p] \in active THEN torn \cup {img[p]} ELSE torn
          /\ Step(p, "converting") /\ UNCHANGED dom
     ELSE Raise(p) /\ UNCHANGED <<file, torn>>
  /\ NotPowerButDom
  /\ UNCHANGED <<rows, vmRows, disks, broker, history>>

(* The machine stays off after a copy that succeeded. *)
ConvertEnds_NoRestart(p) ==
  /\ step[p] = "converting"
  /\ \/ /\ file' = [file EXCEPT ![img[p]] = "copied"]
        /\ Step(p, IF p \in ephemeral THEN "end_row" ELSE "sysprep")
        /\ UNCHANGED dom
     \/ "convert" \in Faults /\ Raise(p) /\ UNCHANGED file
  /\ NotPowerButDom
  /\ UNCHANGED <<rows, torn, vmRows, disks, broker, history>>

(* The failure of qemu-img goes unnoticed. *)
ConvertEnds_ErrorIgnored(p) ==
  /\ step[p] = "converting"
  /\ \/ file' = [file EXCEPT ![img[p]] = "copied"]
     \/ "convert" \in Faults /\ UNCHANGED file
  /\ Step(p, IF p \in ephemeral THEN "end_row"
             ELSE IF p \in wasRunning THEN "restart" ELSE "sysprep")
  /\ UNCHANGED dom
  /\ NotPowerButDom
  /\ UNCHANGED <<rows, torn, vmRows, disks, broker, history>>

(* The machine is terminated whatever it was launched for. *)
ConvertEnds_AlwaysTerminates(p) ==
  /\ step[p] = "converting"
  /\ \/ /\ file' = [file EXCEPT ![img[p]] = "copied"]
        /\ Step(p, "end_row")
        /\ UNCHANGED dom
     \/ "convert" \in Faults /\ Raise(p) /\ UNCHANGED file
  /\ NotPowerButDom
  /\ UNCHANGED <<rows, torn, vmRows, disks, broker, history>>

(* What was running is started again, unless it was launched for the image. *)
ConvertEnds(p) ==
  /\ step[p] = "converting"
  /\ \/ /\ file' = [file EXCEPT ![img[p]] = "copied"]
        /\ Step(p, IF p \in ephemeral THEN "end_row"
                   ELSE IF p \in wasRunning THEN "restart" ELSE "sysprep")
        /\ UNCHANGED dom
     \/ "convert" \in Faults /\ Raise(p) /\ UNCHANGED file
  /\ NotPowerButDom
  /\ UNCHANGED <<rows, torn, vmRows, disks, broker, history>>

Restart(p) ==
  /\ step[p] = "restart"
  /\ CallStart(p) /\ Step(p, "restarting")
  /\ UNCHANGED <<libvirt, dom, rows, store, broker, history>>

Restarting(p) ==
  /\ step[p] = "restarting"
  /\ \/ Collect(p, "returned") /\ Step(p, "sysprep") /\ UNCHANGED dom
     \/ Collect(p, "raised") /\ Raise(p)
  /\ UNCHANGED <<libvirt, rows, store, broker, history>>

(* virt-sysprep, then virt-sparsify, on the copy. *)
Clean(p, s, done, next) ==
  /\ step[p] = s
  /\ \/ /\ file' = [file EXCEPT ![img[p]] = done]
        /\ Step(p, next) /\ UNCHANGED dom
     \/ "clean" \in Faults /\ Raise(p) /\ UNCHANGED file
  /\ NotPowerButDom
  /\ UNCHANGED <<rows, torn, vmRows, disks, broker, history>>

Sysprep(p)  == Clean(p, "sysprep", "prepared", "sparsify")
Sparsify(p) == Clean(p, "sparsify", "ready", "check")

-----------------------------------------------------------------------------
(* _register_image and mark_image_as_failed *)

Taken(f) == \E j \in named : target[j] = f

(* Only the file is checked for, not another row with its path. *)
RegisterCheck_PathOnly(p) ==
  LET i == img[p]  f == target[i] IN
  /\ step[p] = "check"
  /\ IF f \in BaseFiles \/ file[f] # "absent"
     THEN Step(p, "save") /\ UNCHANGED <<dom, crossed>>
     ELSE Raise(p) /\ UNCHANGED crossed
  /\ NotPowerButDom
  /\ UNCHANGED <<rows, store, broker, meddled>>

(* The file must exist and no row may have the path.  History: registrations
   of one file that both passed this check before either saved. *)
RegisterCheck(p) ==
  LET i == img[p]  f == target[i]
      rivals == {img[q] : q \in {r \in Procs \ {p} :
                                   step[r] = "save" /\ target[img[r]] = f}}
  IN
  /\ step[p] = "check"
  /\ IF (f \in BaseFiles \/ file[f] # "absent") /\ ~Taken(f)
     THEN /\ Step(p, "save") /\ UNCHANGED dom
          /\ crossed' = IF rivals = {} THEN crossed ELSE crossed \cup rivals \cup {i}
     ELSE Raise(p) /\ UNCHANGED crossed
  /\ NotPowerButDom
  /\ UNCHANGED <<rows, store, broker, meddled>>

(* Path and state are saved before the metadata is read. *)
RegisterSave_StateFirst(p) ==
  LET i == img[p] IN
  /\ step[p] = "save"
  /\ imgRow' = [imgRow EXCEPT ![i] = "AVAILABLE"]
  /\ named' = named \cup {i}
  /\ \/ meta' = meta \cup {i} /\ End(p)
     \/ "info" \in Faults /\ RaiseTo(p, "mark_named") /\ UNCHANGED meta
  /\ NotPowerButDom
  /\ UNCHANGED <<target, store, broker, history>>

(* set_image_metadata raises, with the path already on the handle. *)
MetadataFails(p) == /\ "info" \in Faults
                    /\ RaiseTo(p, "mark_named")
                    /\ UNCHANGED <<imgRow, named, meta>>

(* The save raises, with path, metadata and state on the handle. *)
SaveFails(p) == /\ "save" \in Faults
                /\ RaiseTo(p, "mark_whole")
                /\ UNCHANGED <<imgRow, named, meta>>

(* qemu-img info for the metadata, then one save of path, metadata and state. *)
RegisterSave(p) ==
  LET i == img[p] IN
  /\ step[p] = "save"
  /\ \/ /\ imgRow' = [imgRow EXCEPT ![i] = "AVAILABLE"]
        /\ named' = named \cup {i}
        /\ meta' = meta \cup {i}
        /\ End(p)
     \/ MetadataFails(p)
     \/ SaveFails(p)
  /\ NotPowerButDom
  /\ UNCHANGED <<target, store, broker, history>>

MarkSteps == {"mark", "mark_named", "mark_whole"}

(* The metadata was set on the row before the step that failed. *)
MarkAsFailed_WithMetadata(p) ==
  LET i == img[p] IN
  /\ step[p] \in MarkSteps
  /\ imgRow' = [imgRow EXCEPT ![i] = "ERROR"]
  /\ named' = IF step[p] # "mark" THEN named \cup {i} ELSE named
  /\ meta' = meta \cup {i}
  /\ End(p)
  /\ NotPowerButDom
  /\ UNCHANGED <<target, store, broker, history>>

(* The state is saved together with what the failed attempt has set on the
   handle: nothing, the path, or the path and the metadata. *)
MarkAsFailed(p) ==
  LET i == img[p] IN
  /\ step[p] \in MarkSteps
  /\ \/ /\ imgRow' = [imgRow EXCEPT ![i] = "ERROR"]
        /\ named' = IF step[p] # "mark" THEN named \cup {i} ELSE named
        /\ meta' = IF step[p] = "mark_whole" THEN meta \cup {i} ELSE meta
     \/ "save" \in Faults /\ UNCHANGED <<imgRow, named, meta>>
  /\ End(p)
  /\ NotPowerButDom
  /\ UNCHANGED <<target, store, broker, history>>

-----------------------------------------------------------------------------
(* terminate_instance, as a task of its own or at the end of an image *)

TerminateTask(p, v) ==
  /\ p \in CeleryWorkers /\ Known(v)
  /\ Begin(p, "end_row", NoImage, v)
  /\ NotPowerButDom
  /\ UNCHANGED <<rows, store, broker, ephemeral>>

TerminateFind(p) ==
  /\ step[p] = "end_row"
  /\ IF dom[p] \in vmRows /\ Known(dom[p])
     THEN CallStop(p) /\ Step(p, "end_stopping") /\ UNCHANGED dom
     ELSE Raise(p) /\ UNCHANGED <<at, patient, waited>>
  /\ UNCHANGED <<libvirt, rows, store, broker, history>>

TerminateStopping(p) ==
  /\ step[p] = "end_stopping"
  /\ \/ Collect(p, "returned") /\ Step(p, "undefine") /\ UNCHANGED dom
     \/ Collect(p, "raised") /\ Raise(p)
  /\ UNCHANGED <<libvirt, rows, store, broker, history>>

TerminateUndefine(p) ==
  /\ step[p] = "undefine"
  /\ IF dom[p] \in defined
     THEN Undefine(dom[p]) /\ Step(p, "remove") /\ UNCHANGED dom
     ELSE Raise(p) /\ UNCHANGED libvirt
  /\ UNCHANGED <<at, patient, waited, rows, store, broker, history>>

(* The directory and the rows, which VmLifecycle models one by one. *)
TerminateRemove(p) ==
  /\ step[p] = "remove"
  /\ vmRows' = vmRows \ {dom[p]}
  /\ disks' = disks \ {dom[p]}
  /\ IF img[p] = NoImage THEN End(p) ELSE Step(p, "sysprep") /\ UNCHANGED dom
  /\ NotPowerButDom
  /\ UNCHANGED <<rows, file, torn, broker, history>>

-----------------------------------------------------------------------------
GuestPowersOff(v) ==
  /\ PowerOff(v)
  /\ UNCHANGED <<power, rows, store, broker, job, history>>

Crash(p) ==
  /\ p \in CrashingProcs /\ ~Idle(p)
  /\ at' = [at EXCEPT ![p] = "out"]
  /\ waited' = [waited EXCEPT ![p] = 0]
  /\ patient' = patient \ {p}
  /\ End(p)
  /\ UNCHANGED <<libvirt, rows, store, broker, history>>

-----------------------------------------------------------------------------
Create(p) == \/ FindInstance(p) \/ Stopping(p) \/ ConvertBegins(p) \/ ConvertEnds(p)
             \/ Restart(p) \/ Restarting(p) \/ Sysprep(p) \/ Sparsify(p)
Register(p) == RegisterCheck(p) \/ RegisterSave(p) \/ MarkAsFailed(p)
Terminate(p) == \/ TerminateFind(p) \/ TerminateStopping(p)
                \/ TerminateUndefine(p) \/ TerminateRemove(p)
Run(p) == \/ Call(p) \/ BootingCall(p) \/ Answer(p) \/ Enqueue(p)
          \/ Create(p) \/ Register(p) \/ Terminate(p)
Request(p, v) == \/ StartVM(p, v) \/ StopVM(p, v) \/ TerminateTask(p, v)
                 \/ CreateKubeImage(p, v) \/ CreateKubeImageCommand(p, v)
NewImage(p, i) == \/ \E v \in Vms : PrepareUserImage(p, i, v) \/ PrepareKubeImage(p, i, v)
                  \/ \E f \in RegisterFiles : RegisterImage(p, i, f) \/ RegisterImageCommand(p, i, f)

Next == \/ \E p \in Procs : Run(p) \/ Crash(p)
        \/ \E p \in Procs, v \in Vms : Request(p, v)
        \/ \E p \in Procs, i \in Images : NewImage(p, i) \/ TakeCreateImage(p, i)
        \/ \E v \in Vms : GuestPowersOff(v) \/ ScriptFails(v)

Spec == Init /\ [][Next]_vars

(* A process in a handler goes on; a queued message is taken in the end. *)
Fairness == /\ \A p \in Procs : WF_vars(Run(p))
            /\ \A i \in Images : SF_vars(\E p \in CeleryWorkers : TakeCreateImage(p, i))

FairSpec == Spec /\ Fairness

-----------------------------------------------------------------------------
(* Properties *)

(* An AVAILABLE image made from a VM is the whole, cleaned copy of its disk,
   and of a disk nobody wrote to, unless another job on the VM overlapped. *)
ImageIsWhole ==
  \A i \in Images : imgRow[i] = "AVAILABLE" /\ target[i] = i =>
     file[i] = "ready" /\ (i \in torn => i \in meddled)

(* Nobody is making an image that a launch can copy any more, and if it was made
   from a VM its file is the whole, cleaned copy, although get_image_from_id looks
   at the id and the owner and not at the state: copy_image needs the path and
   metadata["format"], which are set last.  (Not every such image is AVAILABLE: the
   handler of a last save that failed saves them with the state ERROR.) *)
Copyable(i) == imgRow[i] # "none" /\ i \in meta
CopyableIsWhole == \A i \in Images : Copyable(i) =>
  imgRow[i] \in {"AVAILABLE", "ERROR"} /\ (target[i] = i => file[i] = "ready")

(* No two images share a file, unless their registrations crossed between
   the check and the save. *)
OneImagePerFile ==
  \A i, j \in {k \in Images : imgRow[k] = "AVAILABLE"} :
     i # j /\ target[i] = target[j] => i \in crossed /\ j \in crossed

(* When the image of a VM becomes AVAILABLE the VM is as it was before, if
   nobody else handled it: off if it was off, otherwise booted with autostart
   (its guest may have powered off since). *)
Restored(p) == IF p \in wasRunning THEN dom[p] \in autostart ELSE dom[p] \notin active
SourceRestored ==
  [][\A p \in Procs : LET i == img[p] IN
       /\ dom[p] # NoVm /\ i \notin meddled /\ p \notin ephemeral
       /\ i # NoImage /\ imgRow'[i] = "AVAILABLE" /\ imgRow[i] # "AVAILABLE"
       => Restored(p)]_vars

(* A machine launched to become an image is given up, with its disk, for the
   whole copy of that disk, written while nobody wrote to the disk, unless
   another job on the machine overlapped. *)
DiskOutlivesCopy ==
  [][\A p \in ephemeral :
       step[p] = "remove" /\ dom[p] \in disks \ disks' =>
         file[img[p]] = "copied" /\ (img[p] \in torn => img[p] \in meddled)]_vars

(* The creation of an image gives up no machine but one that was launched to become
   it and has reported; every other row and disk goes by a termination request. *)
MachineOutlivesImage ==
  [][\A v \in (vmRows \ vmRows') \cup (disks \ disks') :
       \/ script[v] = "posted"
       \/ \E p \in Procs : step[p] = "remove" /\ dom[p] = v /\ img[p] = NoImage]_vars

(* AVAILABLE and ERROR are final: no late step of another job and no failed
   attempt takes an image back. *)
ImageStateIsFinal ==
  [][\A i \in Images : imgRow[i] \in {"AVAILABLE", "ERROR"} => imgRow'[i] = imgRow[i]]_vars

(* Once clients stop pressing "start", an image whose message was queued gets
   a final state if its worker is not killed and the database takes its saves:
   guests that ignore the shutdown request, failures of the other steps,
   terminations of the VM and other images of it do not stop it. *)
Starts == \E p \in Procs, v \in Vms : StartVM(p, v)

-----------------------------------------------------------------------------
(* What the code's own text promises and its steps do not keep. *)

(* start(): "Start an instance and set autostart to 1 for host reboots". *)
StartedHasAutostart ==
  \A p \in Procs : step[p] = "start" /\ at[p] = "returned" => dom[p] \in autostart

(* create_virtual_machine_image: "get the current state so we can start it back
   up if it was on before": also when the image comes to nothing. *)
FailedImageRestoresSource ==
  \A p \in Procs : step[p] = "mark" /\ p \in wasRunning /\ img[p] \notin meddled =>
     dom[p] \in autostart
=============================================================================
