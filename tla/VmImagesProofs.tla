--------------------------- MODULE VmImagesProofs ----------------------------
(***************************************************************************)
(* Theorems about VmImages, for any machines, images and processes,        *)
(* whichever of them are killed and whatever fails.                        *)
(*                                                                         *)
(* The argument: an image is made by one process at a time, the only one   *)
(* that writes its row and its file, so the label of that process tells    *)
(* what is in the file (Owned, FilesOK).  A machine that two processes     *)
(* work on at once has its images counted as meddled with (Alone); of a    *)
(* machine that one process has for itself the label tells whether it is   *)
(* off or has autostart (Quiet), since nobody else boots it, and a copy is *)
(* only made while it is off (TornOK).  A path is registered twice only by *)
(* two registrations that are both past their check (Registered).          *)
(***************************************************************************)
EXTENDS VmImages, TLAPS

StartLabels == {"start", "create", "autostart"}
StopLabels  == {"stop", "stop_autostart", "loop", "shutdown", "destroy"}
Answers     == {"returned", "raised"}
StopSteps   == {"stopping", "end_stopping"}
DomainSteps == {"stopping", "convert", "converting", "restart", "restarting",
                "end_stopping", "undefine", "remove"}
ImageSteps  == {"enqueue", "find", "stopping", "convert", "converting", "restart",
                "restarting", "sysprep", "sparsify", "check", "save"} \cup MarkSteps
EndSteps    == {"end_row", "end_stopping", "undefine", "remove"}
LastSteps   == {"sysprep", "sparsify", "check", "save"}

(* The parts of TypeOK that are not PowerTypeOK. *)
RowsOK ==
  /\ imgRow \in [Images -> {"none", "CREATING", "AVAILABLE", "ERROR"}]
  /\ target \in [Images -> Files \cup {NoImage}]
  /\ file \in [Images -> {"absent", "partial", "copied", "prepared", "ready"}]
  /\ source \in [Images -> Vms \cup {NoVm}]
  /\ script \in [Vms -> {"unborn", "none", "runs", "failed", "posted"}]
  /\ vmRows \subseteq Vms /\ disks \subseteq Vms
  /\ \A s \in {named, meta, torn, queued} : s \subseteq Images
ProcsOK ==
  /\ step \in [Procs -> Steps]
  /\ img \in [Procs -> Images \cup {NoImage}]
  /\ wasRunning \subseteq Procs /\ ephemeral \subseteq Procs
  /\ meddled \subseteq Images /\ crossed \subseteq Images
  /\ \A p \in Procs :
       /\ step[p] = "none" <=> (img[p] = NoImage /\ dom[p] = NoVm)
       /\ at[p] # "out" =>
            step[p] \in {"start", "stop", "stopping", "end_stopping", "restarting"}

(* What a process works on, by its step. *)
JobsOK == \A p \in Procs :
  /\ step[p] \in {"start", "stop"} => img[p] = NoImage
  /\ step[p] \in ImageSteps => img[p] \in Images
  /\ step[p] \in DomainSteps => dom[p] \in Vms
  /\ p \in ephemeral => /\ img[p] \in Images /\ dom[p] \in Vms
                         /\ script[dom[p]] = "posted"
  /\ step[p] \in EndSteps /\ img[p] # NoImage => p \in ephemeral
  /\ step[p] \in {"restart", "restarting"} => p \in wasRunning

(* Which call of VmPower it is in, by its step; the stop of a machine that is
   to be copied or terminated is patient. *)
CallsOK == \A p \in Procs :
  /\ step[p] \in {"start", "restarting"} => at[p] \in StartLabels \cup Answers
  /\ step[p] = "stop" => at[p] \in StopLabels \cup Answers
  /\ step[p] \in StopSteps => /\ at[p] \in StopLabels \cup Answers
                              /\ at[p] \in StopLabels => p \in patient
  /\ step[p] \notin StopSteps \cup {"start", "stop", "restarting"} => at[p] = "out"

(* An image that is being made is one process's or one message's. *)
Owned ==
  /\ \A p \in Procs : img[p] # NoImage =>
       /\ imgRow[img[p]] = "CREATING" /\ img[p] \notin queued
       /\ \A q \in Procs \ {p} : img[q] # img[p]
  /\ \A i \in queued : imgRow[i] = "CREATING"
  /\ \A i \in Images : /\ i \in meta => imgRow[i] \in {"AVAILABLE", "ERROR"}
                       /\ imgRow[i] = "AVAILABLE" => i \in named

(* What is in the file of an image. *)
FilesOK ==
  /\ \A i \in Images : /\ imgRow[i] = "none" => file[i] = "absent"
                       /\ imgRow[i] = "AVAILABLE" \/ i \in meta =>
                            (target[i] = i => file[i] = "ready")
  /\ \A p \in Procs : img[p] # NoImage =>
       LET f == file[img[p]] IN
       /\ step[p] \in EndSteps \cup {"restart", "restarting", "sysprep"} => f = "copied"
       /\ step[p] = "sparsify" => f = "prepared"
       /\ step[p] = "check" => f \in {"absent", "ready"}
       /\ step[p] \in {"save", "mark_whole"} /\ target[img[p]] = img[p] => f = "ready"

(* Two processes on one machine: its images are meddled with. *)
Alone == \A p, q \in Procs :
  p # q /\ dom[p] = dom[q] /\ dom[p] # NoVm /\ img[p] # NoImage => img[p] \in meddled

(* A machine that has not been launched is in nobody's hands. *)
Unborn == \A v \in Vms : script[v] = "unborn" =>
  /\ v \notin vmRows /\ ~Known(v)
  /\ \A p \in Procs : dom[p] # v
  /\ \A i \in Images : source[i] # v

(* The machine of an image that nobody meddled with: off while it is copied,
   and as it was before at the end. *)
Off(p) == dom[p] \notin active
Quiet == \A p \in Procs : img[p] # NoImage /\ img[p] \notin meddled =>
  /\ step[p] \in {"convert", "converting", "restart"} => Off(p)
  /\ step[p] = "stopping" /\ at[p] = "returned" => Off(p)
  /\ step[p] = "restarting" /\ at[p] \in {"start", "create"} => Off(p)
  /\ step[p] = "restarting" /\ at[p] = "returned" => dom[p] \in autostart
  /\ step[p] \in LastSteps /\ p \notin ephemeral /\ dom[p] # NoVm => Restored(p)

TornOK == torn \subseteq meddled

(* Images of one path are past the check together. *)
Registered == \A p \in Procs : step[p] = "save" =>
  /\ \A i \in Images : imgRow[i] = "AVAILABLE" /\ target[i] = target[img[p]] =>
       {i, img[p]} \subseteq crossed
  /\ \A q \in Procs \ {p} : step[q] = "save" /\ target[img[q]] = target[img[p]] =>
       {img[p], img[q]} \subseteq crossed

IInv == /\ TypeOK /\ JobsOK /\ CallsOK /\ Owned /\ FilesOK /\ Alone /\ Unborn
        /\ Quiet /\ TornOK /\ Registered /\ OneImagePerFile

-----------------------------------------------------------------------------
(* What a step may be, with the exceptions resolved: every step is one of
   these effects (EffectStep), which is all that the invariant needs of it. *)

Unhurt == <<libvirt, rows, store, broker>>
Leaves(p) == at' = [at EXCEPT ![p] = "out"]     \* the call it is in
Enters(p, l) == at' = [at EXCEPT ![p] = l] /\ UNCHANGED <<dom, waited>>

(* A call of VmPower boots the domain, goes on, or ends. *)
Boots(p) ==
  /\ at[p] = "create" /\ Boot(dom[p]) /\ Goto(p, "autostart")
  /\ torn' = torn \cup {img[q] : q \in {r \in Procs : step[r] = "converting" /\ dom[r] = dom[p]}}
  /\ UNCHANGED <<rows, file, vmRows, disks, broker, job, history>>

CallGoes(p) ==
  /\ \/ at[p] = "start" /\ ShutOff(dom[p]) /\ Goto(p, "create") /\ UNCHANGED libvirt
     \/ /\ at[p] \in StopLabels
        /\ \E l \in StopLabels : at' = [at EXCEPT ![p] = l]
        /\ waited' \in [Procs -> 0..ForceStopTime]
        /\ active' \in {active, active \ {dom[p]}}
        /\ autostart' \in {autostart, autostart \ {dom[p]}}
        /\ UNCHANGED <<defined, dom, patient>>
  /\ UNCHANGED <<rows, store, broker, job, history>>

CallEnds(p) ==
  /\ \E how \in Answers :
       /\ Leave(p, how)
       /\ \/ /\ at[p] \in StartLabels \cup StopLabels /\ how = "raised"
             /\ UNCHANGED libvirt
          \/ /\ at[p] = "start" /\ dom[p] \in active
             /\ how = "returned" /\ UNCHANGED libvirt
          \/ at[p] = "autostart" /\ how = "returned" /\ AutostartOn(dom[p])
          \/ /\ at[p] \in StopLabels /\ (dom[p] \notin active \/ p \notin patient)
             /\ how = "returned" /\ UNCHANGED libvirt
  /\ UNCHANGED <<rows, store, broker, job, history>>

(* A request or a task takes a machine, an image, or both. *)
TakesMachine(p, v, s) ==
  /\ s \in {"start", "stop", "end_row"} /\ Known(v) /\ v \in Vms
  /\ Begin(p, s, NoImage, v)
  /\ IF s = "end_row" THEN UNCHANGED <<at, patient, waited>>
     ELSE at[p] = "out" /\ at' = [at EXCEPT ![p] = s] /\ UNCHANGED <<patient, waited>>
  /\ UNCHANGED <<Unhurt, ephemeral>>

PreparesUserImage(p, i, v) ==
  /\ Known(v) /\ Prepare(i, i)
  /\ source' = [source EXCEPT ![i] = v]
  /\ Begin(p, "enqueue", i, NoVm)
  /\ NotPowerButDom
  /\ UNCHANGED <<store, ephemeral, queued, script>>

PreparesKubeImage(p, i, v) ==
  /\ script[v] = "runs" /\ script' = [script EXCEPT ![v] = "posted"]
  /\ RegisterKubeImage(p, i, v)

Registers(p, i) == \E f \in RegisterFiles : RegisterGuestImage(p, i, f)

TakesImage(p, i) ==
  /\ i \in queued /\ queued' = queued \ {i}
  /\ source' = [source EXCEPT ![i] = NoVm]
  /\ Begin(p, "find", i, source[i])
  /\ NotPowerButDom
  /\ UNCHANGED <<rows, store, script, ephemeral>>

(* The exception handlers, the answers and the kill: the job ends as it is,
   or goes on with marking its image. *)
Ends(p) ==
  /\ step[p] # "none" /\ End(p) /\ Leaves(p)
  /\ patient' \in {patient, patient \ {p}}
  /\ waited' \in {waited, [waited EXCEPT ![p] = 0]}
  /\ UNCHANGED <<Unhurt, history>>

Marks(p) ==
  /\ step[p] \in (ImageSteps \cup EndSteps) \ {"enqueue"} /\ img[p] \in Images
  /\ \E s \in MarkSteps : Step(p, s) /\ (s = "mark_whole" => step[p] = "save")
  /\ Leaves(p)
  /\ UNCHANGED <<dom, patient, waited, Unhurt, history>>

(* A handler enters stop(), or has its answer. *)
Stops(p) ==
  /\ Known(dom[p]) /\ at[p] = "out" /\ Enters(p, "stop")
  /\ patient' = patient \cup {p}
  /\ \/ /\ step[p] = "find" /\ step' = [step EXCEPT ![p] = "stopping"]
        /\ wasRunning' \in {wasRunning, wasRunning \cup {p}}
        /\ UNCHANGED <<img, ephemeral>>
     \/ step[p] = "end_row" /\ Step(p, "end_stopping")
  /\ UNCHANGED <<Unhurt, history>>

IsStopped(p) ==
  /\ at[p] = "returned" /\ Leaves(p)
  /\ \/ step[p] = "stopping" /\ Step(p, "convert")
     \/ step[p] = "end_stopping" /\ Step(p, "undefine")
  /\ UNCHANGED <<dom, patient, waited, Unhurt, history>>

BeginsCopy(p) ==
  /\ step[p] = "convert" /\ Step(p, "converting")
  /\ file' = [file EXCEPT ![img[p]] = "partial"]
  /\ torn' = IF dom[p] \in active THEN torn \cup {img[p]} ELSE torn
  /\ UNCHANGED <<libvirt, power, rows, vmRows, disks, broker, history>>

Copies(p) ==
  /\ \/ /\ step[p] = "converting" /\ file' = [file EXCEPT ![img[p]] = "copied"]
        /\ \/ p \in ephemeral /\ Step(p, "end_row")
           \/ p \notin ephemeral /\ p \in wasRunning /\ Step(p, "restart")
           \/ p \notin ephemeral /\ p \notin wasRunning /\ Step(p, "sysprep")
     \/ /\ step[p] = "sysprep" /\ file' = [file EXCEPT ![img[p]] = "prepared"]
        /\ Step(p, "sparsify")
     \/ /\ step[p] = "sparsify" /\ file' = [file EXCEPT ![img[p]] = "ready"]
        /\ Step(p, "check")
  /\ UNCHANGED <<libvirt, power, rows, torn, vmRows, disks, broker, history>>

Restarts(p) ==
  /\ step[p] = "restart" /\ Step(p, "restarting")
  /\ Enters(p, "start") /\ UNCHANGED patient
  /\ UNCHANGED <<Unhurt, history>>

IsRestarted(p) ==
  /\ step[p] = "restarting" /\ Step(p, "sysprep")
  /\ at[p] = "returned" /\ Leaves(p)
  /\ UNCHANGED <<dom, patient, waited, Unhurt, history>>

Checks(p) ==
  LET f == target[img[p]]
      rivals == {img[q] : q \in {r \in Procs \ {p} : step[r] = "save" /\ target[img[r]] = f}}
  IN
  /\ step[p] = "check" /\ Step(p, "save")
  /\ f \in BaseFiles \/ file[f] # "absent"
  /\ ~Taken(f)
  /\ crossed' = IF rivals = {} THEN crossed ELSE crossed \cup rivals \cup {img[p]}
  /\ UNCHANGED <<libvirt, power, rows, store, broker, meddled>>

(* The last save of an image. *)
Saves(p) ==
  /\ \/ /\ step[p] = "save" /\ imgRow' = [imgRow EXCEPT ![img[p]] = "AVAILABLE"]
        /\ named' = named \cup {img[p]} /\ meta' = meta \cup {img[p]}
     \/ /\ step[p] \in MarkSteps
        /\ imgRow' = [imgRow EXCEPT ![img[p]] = "ERROR"]
        /\ named' \in {named, named \cup {img[p]}}
        /\ meta' = IF step[p] = "mark_whole" THEN meta \cup {img[p]} ELSE meta
  /\ End(p) /\ NotPowerButDom
  /\ UNCHANGED <<target, store, broker, history>>

Enqueues(p) ==
  /\ step[p] = "enqueue" /\ End(p) /\ NotPowerButDom
  /\ queued' = queued \cup {img[p]}
  /\ UNCHANGED <<rows, store, source, script, history>>

Undefines(p) ==
  /\ step[p] = "undefine" /\ Undefine(dom[p]) /\ Step(p, "remove")
  /\ UNCHANGED <<power, rows, store, broker, history>>

Removes(p) ==
  /\ step[p] = "remove"
  /\ vmRows' = vmRows \ {dom[p]} /\ disks' = disks \ {dom[p]}
  /\ IF img[p] = NoImage THEN End(p) ELSE Step(p, "sysprep") /\ UNCHANGED dom
  /\ NotPowerButDom
  /\ UNCHANGED <<rows, file, torn, broker, history>>

ScriptStops(v) == /\ script[v] = "runs" /\ script' = [script EXCEPT ![v] = "failed"]
                  /\ UNCHANGED <<libvirt, power, rows, store, queued, source, job, history>>

Effect ==
  \/ \E v \in Vms : GenerateKubeImage(v) \/ ScriptStops(v) \/ GuestPowersOff(v)
  \/ \E p \in Procs, v \in Vms : \E s \in {"start", "stop", "end_row"} : TakesMachine(p, v, s)
  \/ \E p \in Procs, i \in Images, v \in Vms :
       PreparesUserImage(p, i, v) \/ PreparesKubeImage(p, i, v)
  \/ \E p \in Procs, i \in Images : Registers(p, i) \/ TakesImage(p, i)
  \/ \E p \in Procs :
       \/ Boots(p) \/ CallGoes(p) \/ CallEnds(p) \/ Ends(p) \/ Marks(p)
       \/ Stops(p) \/ IsStopped(p) \/ BeginsCopy(p) \/ Copies(p)
       \/ Restarts(p) \/ IsRestarted(p) \/ Checks(p) \/ Saves(p)
       \/ Enqueues(p) \/ Undefines(p) \/ Removes(p)

(* A handler that raises ends its job, or marks its image. *)
LEMMA Raises ==
  ASSUME NEW p \in Procs, NEW s \in MarkSteps, TypeOK, JobsOK, s = "mark_whole" => step[p] = "save",
         step[p] # "none", step[p] # "enqueue", RaiseTo(p, s), Leaves(p),
         UNCHANGED <<patient, waited, Unhurt, history>>
  PROVE  Ends(p) \/ Marks(p)
<1>1. CASE p \in CeleryWorkers /\ img[p] # NoImage
  <2>1. img[p] \in Images /\ step[p] \in ImageSteps \cup EndSteps
    BY <1>1 DEF TypeOK, JobsOK, Steps, ImageSteps, EndSteps, MarkSteps
  <2> QED BY <1>1, <2>1 DEF RaiseTo, Marks
<1>2. CASE ~(p \in CeleryWorkers /\ img[p] # NoImage)
  BY <1>2 DEF RaiseTo, Ends
<1> QED BY <1>1, <1>2

(* Each step of the model is one of the effects. *)
LEMMA EffectStep == IInv /\ Next => Effect
<1> SUFFICES ASSUME IInv, Next PROVE Effect
  OBVIOUS
<1>t. TypeOK /\ JobsOK /\ CallsOK
  BY DEF IInv
<1>a. at \in [Procs -> PowerLabels]
  BY <1>t DEF TypeOK, PowerTypeOK
<1> USE DEF Unhurt, libvirt, power, rows, store, broker, job, history, NotPower,
           NotPowerButDom
<1>1. ASSUME NEW p \in Procs, Call(p)
      PROVE  CallGoes(p) \/ CallEnds(p)
  <2> USE <1>t, <1>a DEF TypeOK, PowerTypeOK, LibvirtTypeOK, Goto, Leave, StartLabels,
              StopLabels, Answers, Call, CallGoes, CallEnds
  <2>1. CASE StartIsActive(p)
    BY <1>1, <2>1 DEF StartIsActive
  <2>2. CASE StartAutostart(p)
    BY <1>1, <2>2 DEF StartAutostart
  <2>3. CASE StopIsActive(p)
    BY <1>1, <2>3 DEF StopIsActive, ShutOff
  <2>4. CASE StopAutostart(p)
    BY <1>1, <2>4 DEF StopAutostart, AutostartOff
  <2>5. CASE StopLoop(p)
    BY <1>1, <2>5 DEF StopLoop, ShutOff
  <2>6. CASE StopShutdown(p)
    <3>1. waited[p] \in 0..ForceStopTime /\ ForceStopTime \in Nat
      BY ForceStopTimeAssumption
    <3>2. CASE dom[p] \notin active
      BY <1>1, <2>6, <3>2 DEF StopShutdown, NotRunning
    <3>3. CASE dom[p] \in active
      BY <1>1, <2>6, <3>1, <3>3 DEF StopShutdown
    <3> QED BY <3>2, <3>3
  <2>7. CASE StopDestroy(p)
    BY <1>1, <2>7 DEF StopDestroy, PowerOff, NotRunning
  <2> QED BY <1>1, <2>1, <2>2, <2>3, <2>4, <2>5, <2>6, <2>7 DEF PowerStep
<1>2. ASSUME NEW p \in Procs, BootingCall(p)
      PROVE  Boots(p) \/ CallEnds(p)
  BY <1>2, <1>t DEF BootingCall, StartCreate, Boots, CallEnds, Boot, ShutOff, Leave,
                  StartLabels, Answers, TypeOK, PowerTypeOK, LibvirtTypeOK
<1>3. ASSUME NEW p \in Procs, NEW v \in Vms, StartVM(p, v)
      PROVE  TakesMachine(p, v, "start")
  BY <1>3, <1>t, <1>a DEF StartVM, CallStart, Enter, TakesMachine, Leaves, CallsOK,
                          StopSteps
<1>4. ASSUME NEW p \in Procs, NEW v \in Vms, StopVM(p, v)
      PROVE  TakesMachine(p, v, "stop")
  BY <1>4, <1>t, <1>a DEF StopVM, CallStopNoWait, Enter, TakesMachine, Leaves, CallsOK,
                          StopSteps
<1>5. ASSUME NEW p \in Procs, Answer(p)
      PROVE  Ends(p)
  BY <1>5, <1>t, <1>a DEF Answer, Collect, Ends, Leaves, CallsOK, StopSteps
<1>6. ASSUME NEW p \in Procs, NEW i \in Images, NEW v \in Vms, PrepareUserImage(p, i, v)
      PROVE  PreparesUserImage(p, i, v)
  BY <1>6, <1>t, <1>a DEF PrepareUserImage, PreparesUserImage, Leaves, CallsOK, StopSteps
<1>7. ASSUME NEW p \in Procs, Enqueue(p)
      PROVE  Enqueues(p)
  BY <1>7, <1>t, <1>a DEF Enqueue, Enqueues, Leaves, CallsOK, StopSteps
<1>8. ASSUME NEW p \in Procs, NEW i \in Images, TakeCreateImage(p, i)
      PROVE  TakesImage(p, i)
  BY <1>8, <1>t, <1>a DEF TakeCreateImage, TakesImage, Leaves, CallsOK, StopSteps
<1>9. ASSUME NEW p \in Procs, NEW v \in Vms, CreateKubeImage(p, v)
      PROVE  GenerateKubeImage(v)
  BY <1>9, <1>t, <1>a DEF CreateKubeImage, GenerateKubeImage, Leaves, CallsOK, StopSteps
<1>10. ASSUME NEW p \in Procs, NEW v \in Vms, CreateKubeImageCommand(p, v)
      PROVE  GenerateKubeImage(v)
  BY <1>10, <1>t, <1>a DEF CreateKubeImageCommand, GenerateKubeImage, Leaves, CallsOK,
                           StopSteps
<1>11. ASSUME NEW v \in Vms, ScriptFails(v)
      PROVE  ScriptStops(v)
  BY <1>11, <1>t, <1>a DEF ScriptFails, ScriptStops, Leaves, CallsOK, StopSteps
<1>12. ASSUME NEW p \in Procs, NEW i \in Images, NEW v \in Vms, PrepareKubeImage(p, i, v)
      PROVE  PreparesKubeImage(p, i, v)
  BY <1>12, <1>t, <1>a DEF PrepareKubeImage, ScriptPosts, PreparesKubeImage, Leaves,
                           CallsOK, StopSteps
<1>13. ASSUME NEW p \in Procs, NEW i \in Images, NEW f \in RegisterFiles,
              RegisterImage(p, i, f)
      PROVE  Registers(p, i)
  BY <1>13, <1>t, <1>a DEF RegisterImage, Registers, Leaves, CallsOK, StopSteps
<1>14. ASSUME NEW p \in Procs, NEW i \in Images, NEW f \in RegisterFiles,
              RegisterImageCommand(p, i, f)
      PROVE  Registers(p, i)
  BY <1>14, <1>t, <1>a DEF RegisterImageCommand, Registers, Leaves, CallsOK, StopSteps
<1>15. ASSUME NEW p \in Procs, FindInstance(p)
      PROVE  Stops(p) \/ Ends(p) \/ Marks(p)
  <2>1. \/ Stops(p)
        \/ /\ step[p] \notin {"none", "enqueue"} /\ Leaves(p)
           /\ RaiseTo(p, "mark")
           /\ UNCHANGED <<patient, waited, Unhurt, history>>
    <3>1. CASE Known(dom[p])
      BY <1>15, <3>1 DEF FindInstance, CallStop, Enter, Enters, Stops
    <3>2. CASE ~Known(dom[p])
      BY <1>15, <1>t, <1>a, <3>2 DEF FindInstance, Raise, Leaves, CallsOK, StopSteps
    <3> QED BY <3>1, <3>2
  <2> QED BY <2>1, <1>t, Raises DEF MarkSteps
<1>16. ASSUME NEW p \in Procs, Stopping(p)
      PROVE  IsStopped(p) \/ Ends(p) \/ Marks(p)
  <2>1. \/ IsStopped(p)
        \/ /\ step[p] \notin {"none", "enqueue"} /\ Leaves(p)
           /\ \E s \in MarkSteps : RaiseTo(p, s) /\ (s = "mark_whole" => step[p] = "save")
           /\ UNCHANGED <<patient, waited, Unhurt, history>>
    BY <1>16, <1>t, <1>a DEF Stopping, Collect, IsStopped, Raise, Leaves, CallsOK,
                             StopSteps, MarkSteps
  <2> QED BY <2>1, <1>t, Raises
<1>17. ASSUME NEW p \in Procs, ConvertBegins(p)
      PROVE  BeginsCopy(p) \/ Ends(p) \/ Marks(p)
  <2>1. \/ BeginsCopy(p)
        \/ /\ step[p] \notin {"none", "enqueue"} /\ Leaves(p)
           /\ \E s \in MarkSteps : RaiseTo(p, s) /\ (s = "mark_whole" => step[p] = "save")
           /\ UNCHANGED <<patient, waited, Unhurt, history>>
    BY <1>17, <1>t, <1>a DEF ConvertBegins, BeginsCopy, Raise, Leaves, CallsOK, StopSteps,
                             MarkSteps
  <2> QED BY <2>1, <1>t, Raises
<1>18. ASSUME NEW p \in Procs, ConvertEnds(p)
      PROVE  Copies(p) \/ Ends(p) \/ Marks(p)
  <2>1. \/ Copies(p)
        \/ /\ step[p] \notin {"none", "enqueue"} /\ Leaves(p)
           /\ \E s \in MarkSteps : RaiseTo(p, s) /\ (s = "mark_whole" => step[p] = "save")
           /\ UNCHANGED <<patient, waited, Unhurt, history>>
    BY <1>18, <1>t, <1>a DEF ConvertEnds, Copies, Raise, Leaves, CallsOK, StopSteps,
                             MarkSteps
  <2> QED BY <2>1, <1>t, Raises
<1>19. ASSUME NEW p \in Procs, Restart(p)
      PROVE  Restarts(p)
  BY <1>19, <1>t, <1>a DEF Restart, CallStart, Enter, Enters, Restarts, Leaves, CallsOK,
                           StopSteps
<1>20. ASSUME NEW p \in Procs, Restarting(p)
      PROVE  IsRestarted(p) \/ Ends(p) \/ Marks(p)
  <2>1. \/ IsRestarted(p)
        \/ /\ step[p] \notin {"none", "enqueue"} /\ Leaves(p)
           /\ \E s \in MarkSteps : RaiseTo(p, s) /\ (s = "mark_whole" => step[p] = "save")
           /\ UNCHANGED <<patient, waited, Unhurt, history>>
    BY <1>20, <1>t, <1>a DEF Restarting, Collect, IsRestarted, Raise, Leaves, CallsOK,
                             StopSteps, MarkSteps
  <2> QED BY <2>1, <1>t, Raises
<1>21. ASSUME NEW p \in Procs, Sysprep(p)
      PROVE  Copies(p) \/ Ends(p) \/ Marks(p)
  <2>1. \/ Copies(p)
        \/ /\ step[p] \notin {"none", "enqueue"} /\ Leaves(p)
           /\ \E s \in MarkSteps : RaiseTo(p, s) /\ (s = "mark_whole" => step[p] = "save")
           /\ UNCHANGED <<patient, waited, Unhurt, history>>
    BY <1>21, <1>t, <1>a DEF Sysprep, Clean, Copies, Raise, Leaves, CallsOK, StopSteps,
                             MarkSteps
  <2> QED BY <2>1, <1>t, Raises
<1>22. ASSUME NEW p \in Procs, Sparsify(p)
      PROVE  Copies(p) \/ Ends(p) \/ Marks(p)
  <2>1. \/ Copies(p)
        \/ /\ step[p] \notin {"none", "enqueue"} /\ Leaves(p)
           /\ \E s \in MarkSteps : RaiseTo(p, s) /\ (s = "mark_whole" => step[p] = "save")
           /\ UNCHANGED <<patient, waited, Unhurt, history>>
    BY <1>22, <1>t, <1>a DEF Sparsify, Clean, Copies, Raise, Leaves, CallsOK, StopSteps,
                             MarkSteps
  <2> QED BY <2>1, <1>t, Raises
<1>23. ASSUME NEW p \in Procs, RegisterCheck(p)
      PROVE  Checks(p) \/ Ends(p) \/ Marks(p)
  <2>1. \/ Checks(p)
        \/ /\ step[p] \notin {"none", "enqueue"} /\ Leaves(p)
           /\ \E s \in MarkSteps : RaiseTo(p, s) /\ (s = "mark_whole" => step[p] = "save")
           /\ UNCHANGED <<patient, waited, Unhurt, history>>
    BY <1>23, <1>t, <1>a DEF RegisterCheck, Checks, Raise, Leaves, CallsOK, StopSteps,
                             MarkSteps
  <2> QED BY <2>1, <1>t, Raises
<1>24. ASSUME NEW p \in Procs, RegisterSave(p)
      PROVE  Saves(p) \/ Ends(p) \/ Marks(p)
  <2>1. \/ Saves(p)
        \/ /\ step[p] \notin {"none", "enqueue"} /\ Leaves(p)
           /\ \E s \in MarkSteps : RaiseTo(p, s) /\ (s = "mark_whole" => step[p] = "save")
           /\ UNCHANGED <<patient, waited, Unhurt, history>>
    BY <1>24, <1>t, <1>a DEF RegisterSave, MetadataFails, SaveFails, Saves, Raise, Leaves,
                             CallsOK, StopSteps, MarkSteps
  <2> QED BY <2>1, <1>t, Raises
<1>25. ASSUME NEW p \in Procs, MarkAsFailed(p)
      PROVE  Saves(p) \/ Ends(p)
  <2>1. at[p] = "out" /\ step[p] \in MarkSteps
    BY <1>25, <1>t DEF MarkAsFailed, CallsOK, StopSteps, MarkSteps
  <2>2. CASE UNCHANGED <<imgRow, named, meta>>
    BY <1>25, <1>a, <2>1, <2>2 DEF MarkAsFailed, Ends, Leaves, MarkSteps
  <2>3. CASE ~UNCHANGED <<imgRow, named, meta>>
    BY <1>25, <2>1, <2>3 DEF MarkAsFailed, Saves, MarkSteps
  <2> QED BY <2>2, <2>3
<1>26. ASSUME NEW p \in Procs, NEW v \in Vms, TerminateTask(p, v)
      PROVE  TakesMachine(p, v, "end_row")
  BY <1>26, <1>t, <1>a DEF TerminateTask, TakesMachine, Leaves, CallsOK, StopSteps
<1>27. ASSUME NEW p \in Procs, TerminateFind(p)
      PROVE  Stops(p) \/ Ends(p) \/ Marks(p)
  <2>1. \/ Stops(p)
        \/ /\ step[p] \notin {"none", "enqueue"} /\ Leaves(p)
           /\ \E s \in MarkSteps : RaiseTo(p, s) /\ (s = "mark_whole" => step[p] = "save")
           /\ UNCHANGED <<patient, waited, Unhurt, history>>
    BY <1>27, <1>t, <1>a DEF TerminateFind, CallStop, Enter, Enters, Stops, Raise, Leaves,
                             CallsOK, StopSteps, MarkSteps
  <2> QED BY <2>1, <1>t, Raises
<1>28. ASSUME NEW p \in Procs, TerminateStopping(p)
      PROVE  IsStopped(p) \/ Ends(p) \/ Marks(p)
  <2>1. \/ IsStopped(p)
        \/ /\ step[p] \notin {"none", "enqueue"} /\ Leaves(p)
           /\ \E s \in MarkSteps : RaiseTo(p, s) /\ (s = "mark_whole" => step[p] = "save")
           /\ UNCHANGED <<patient, waited, Unhurt, history>>
    BY <1>28, <1>t, <1>a DEF TerminateStopping, Collect, IsStopped, Raise, Leaves,
                             CallsOK, StopSteps, MarkSteps
  <2> QED BY <2>1, <1>t, Raises
<1>29. ASSUME NEW p \in Procs, TerminateUndefine(p)
      PROVE  Undefines(p) \/ Ends(p) \/ Marks(p)
  <2>1. \/ Undefines(p)
        \/ /\ step[p] \notin {"none", "enqueue"} /\ Leaves(p)
           /\ \E s \in MarkSteps : RaiseTo(p, s) /\ (s = "mark_whole" => step[p] = "save")
           /\ UNCHANGED <<patient, waited, Unhurt, history>>
    BY <1>29, <1>t, <1>a DEF TerminateUndefine, Undefines, Raise, Leaves, CallsOK,
                             StopSteps, MarkSteps
  <2> QED BY <2>1, <1>t, Raises
<1>30. ASSUME NEW p \in Procs, TerminateRemove(p)
      PROVE  Removes(p)
  BY <1>30, <1>t, <1>a DEF TerminateRemove, Removes, Leaves, CallsOK, StopSteps
<1>31. ASSUME NEW v \in Vms, GuestPowersOff(v)
      PROVE  GuestPowersOff(v)
  BY <1>31, <1>t, <1>a DEF GuestPowersOff, Leaves, CallsOK, StopSteps
<1>32. ASSUME NEW p \in Procs, Crash(p)
      PROVE  Ends(p)
  BY <1>32 DEF Crash, Idle, Ends, Leaves
<1> QED BY <1>1, <1>2, <1>3, <1>4, <1>5, <1>6, <1>7, <1>8, <1>9, <1>10, <1>11, <1>12,
           <1>13, <1>14, <1>15, <1>16, <1>17, <1>18, <1>19, <1>20, <1>21, <1>22, <1>23,
           <1>24, <1>25, <1>26, <1>27, <1>28, <1>29, <1>30, <1>31, <1>32
        DEF Effect, Next, Run, Create, Register, Terminate, Request, NewImage

(* The calls of VmPower keep to their labels and values, and every process in
   one has a machine. *)
LEMMA PowerTypeOKStep == IInv /\ Effect => PowerTypeOK'
<1> SUFFICES ASSUME IInv, Effect PROVE PowerTypeOK'
  OBVIOUS
<1> USE NoVmAssumption, ImagesAssumption
        DEF Unhurt, Leaves, Enters, libvirt, power, rows, store, broker, job, history,
            Begin, End, Step, Idle, Others, NotPower, NotPowerButDom,
            IInv, PowerTypeOK, TypeOK, JobsOK, CallsOK, LibvirtTypeOK,
            PowerLabels, Known, DomainSteps, StartLabels, StopLabels, Answers,
            ShutOff, MarkSteps
<1>1. ASSUME NEW v \in Vms, GenerateKubeImage(v) PROVE PowerTypeOK'
  BY <1>1 DEF GenerateKubeImage
<1>2. ASSUME NEW v \in Vms, ScriptStops(v) PROVE PowerTypeOK' BY <1>2 DEF ScriptStops
<1>3. ASSUME NEW v \in Vms, GuestPowersOff(v) PROVE PowerTypeOK'
  BY <1>3 DEF GuestPowersOff, PowerOff
<1>4. ASSUME NEW p \in Procs, NEW v \in Vms, NEW s \in {"start", "stop", "end_row"},
             TakesMachine(p, v, s)
      PROVE  PowerTypeOK'
  BY <1>4 DEF TakesMachine
<1>5. ASSUME NEW p \in Procs, NEW i \in Images, NEW v \in Vms, PreparesUserImage(p, i, v)
      PROVE  PowerTypeOK'
  BY <1>5 DEF PreparesUserImage, Prepare
<1>6. ASSUME NEW p \in Procs, NEW i \in Images, NEW v \in Vms, PreparesKubeImage(p, i, v)
      PROVE  PowerTypeOK'
  BY <1>6 DEF PreparesKubeImage, RegisterKubeImage, Prepare
<1>7. ASSUME NEW p \in Procs, NEW i \in Images, Registers(p, i) PROVE PowerTypeOK'
  BY <1>7 DEF Registers, RegisterGuestImage, Prepare
<1>8. ASSUME NEW p \in Procs, NEW i \in Images, TakesImage(p, i) PROVE PowerTypeOK'
  BY <1>8 DEF TakesImage
<1>9. ASSUME NEW p \in Procs, Boots(p) PROVE PowerTypeOK' BY <1>9 DEF Boots, Boot, Goto
<1>10. ASSUME NEW p \in Procs, CallGoes(p) PROVE PowerTypeOK' BY <1>10 DEF CallGoes, Goto
<1>11. ASSUME NEW p \in Procs, CallEnds(p) PROVE PowerTypeOK'
  <2>1. at[p] # "out"
    BY <1>11 DEF CallEnds
  <2>2. /\ at' \in [Procs -> PowerLabels] /\ waited' \in [Procs -> 0..ForceStopTime]
        /\ patient' \subseteq Procs /\ UNCHANGED dom
    BY <1>11, ForceStopTimeAssumption DEF CallEnds, Leave
  <2>3. \A q \in Procs : at'[q] # "out" => at[q] # "out"
    BY <1>11, <2>1 DEF CallEnds, Leave
  <2>4. LibvirtTypeOK'
    BY <1>11 DEF CallEnds, AutostartOn
  <2> QED BY <2>2, <2>3, <2>4
<1>12. ASSUME NEW p \in Procs, Ends(p) PROVE PowerTypeOK'
  <2>1. /\ at' \in [Procs -> PowerLabels] /\ waited' \in [Procs -> 0..ForceStopTime]
        /\ patient' \subseteq Procs /\ dom' \in [Procs -> Vms \cup {NoVm}]
    BY <1>12, ForceStopTimeAssumption DEF Ends
  <2>2. \A q \in Procs : at'[q] # "out" => dom'[q] # NoVm
    BY <1>12 DEF Ends
  <2> QED BY <1>12, <2>1, <2>2 DEF Ends
<1>13. ASSUME NEW p \in Procs, Marks(p) PROVE PowerTypeOK' BY <1>13 DEF Marks
<1>14. ASSUME NEW p \in Procs, Stops(p) PROVE PowerTypeOK' BY <1>14 DEF Stops
<1>15. ASSUME NEW p \in Procs, IsStopped(p) PROVE PowerTypeOK' BY <1>15 DEF IsStopped
<1>16. ASSUME NEW p \in Procs, BeginsCopy(p) PROVE PowerTypeOK' BY <1>16 DEF BeginsCopy
<1>17. ASSUME NEW p \in Procs, Copies(p) PROVE PowerTypeOK' BY <1>17 DEF Copies
<1>18. ASSUME NEW p \in Procs, Restarts(p) PROVE PowerTypeOK' BY <1>18 DEF Restarts
<1>19. ASSUME NEW p \in Procs, IsRestarted(p) PROVE PowerTypeOK' BY <1>19 DEF IsRestarted
<1>20. ASSUME NEW p \in Procs, Checks(p) PROVE PowerTypeOK' BY <1>20 DEF Checks
<1>21. ASSUME NEW p \in Procs, Saves(p) PROVE PowerTypeOK' BY <1>21 DEF Saves
<1>22. ASSUME NEW p \in Procs, Enqueues(p) PROVE PowerTypeOK' BY <1>22 DEF Enqueues
<1>23. ASSUME NEW p \in Procs, Undefines(p) PROVE PowerTypeOK'
  BY <1>23 DEF Undefines, Undefine
<1>24. ASSUME NEW p \in Procs, Removes(p) PROVE PowerTypeOK' BY <1>24 DEF Removes
<1> QED BY <1>1, <1>2, <1>3, <1>4, <1>5, <1>6, <1>7, <1>8, <1>9, <1>10, <1>11, <1>12,
           <1>13, <1>14, <1>15, <1>16, <1>17, <1>18, <1>19, <1>20, <1>21, <1>22, <1>23,
           <1>24 DEF Effect

(* So do the rows, the files, the messages ... *)
LEMMA RowsOKStep == IInv /\ Effect => RowsOK'
<1> SUFFICES ASSUME IInv, Effect PROVE RowsOK'
  OBVIOUS
<1> USE NoVmAssumption, ImagesAssumption
        DEF Unhurt, Leaves, Enters, libvirt, power, rows, store, broker, job, history,
            Begin, End, Step, Idle, Others, NotPower, NotPowerButDom,
            IInv, RowsOK, TypeOK, JobsOK, ImageSteps, Known, Files, MarkSteps
<1>1. ASSUME NEW v \in Vms, GenerateKubeImage(v) PROVE RowsOK' BY <1>1 DEF GenerateKubeImage
<1>2. ASSUME NEW v \in Vms, ScriptStops(v) PROVE RowsOK' BY <1>2 DEF ScriptStops
<1>3. ASSUME NEW v \in Vms, GuestPowersOff(v) PROVE RowsOK'
  BY <1>3 DEF GuestPowersOff, PowerOff
<1>4. ASSUME NEW p \in Procs, NEW v \in Vms, NEW s \in {"start", "stop", "end_row"},
             TakesMachine(p, v, s)
      PROVE  RowsOK'
  BY <1>4 DEF TakesMachine
<1>5. ASSUME NEW p \in Procs, NEW i \in Images, NEW v \in Vms, PreparesUserImage(p, i, v)
      PROVE  RowsOK'
  BY <1>5 DEF PreparesUserImage, Prepare
<1>6. ASSUME NEW p \in Procs, NEW i \in Images, NEW v \in Vms, PreparesKubeImage(p, i, v)
      PROVE  RowsOK'
  BY <1>6 DEF PreparesKubeImage, RegisterKubeImage, Prepare
<1>7. ASSUME NEW p \in Procs, NEW i \in Images, Registers(p, i) PROVE RowsOK'
  BY <1>7 DEF Registers, RegisterGuestImage, Prepare
<1>8. ASSUME NEW p \in Procs, NEW i \in Images, TakesImage(p, i) PROVE RowsOK'
  BY <1>8 DEF TakesImage
<1>9. ASSUME NEW p \in Procs, Boots(p) PROVE RowsOK' BY <1>9 DEF Boots, Boot, Goto
<1>10. ASSUME NEW p \in Procs, CallGoes(p) PROVE RowsOK' BY <1>10 DEF CallGoes, Goto
<1>11. ASSUME NEW p \in Procs, CallEnds(p) PROVE RowsOK'
  BY <1>11 DEF CallEnds, Leave, AutostartOn
<1>12. ASSUME NEW p \in Procs, Ends(p) PROVE RowsOK' BY <1>12 DEF Ends
<1>13. ASSUME NEW p \in Procs, Marks(p) PROVE RowsOK' BY <1>13 DEF Marks
<1>14. ASSUME NEW p \in Procs, Stops(p) PROVE RowsOK' BY <1>14 DEF Stops
<1>15. ASSUME NEW p \in Procs, IsStopped(p) PROVE RowsOK' BY <1>15 DEF IsStopped
<1>16. ASSUME NEW p \in Procs, BeginsCopy(p) PROVE RowsOK' BY <1>16 DEF BeginsCopy
<1>17. ASSUME NEW p \in Procs, Copies(p) PROVE RowsOK' BY <1>17 DEF Copies
<1>18. ASSUME NEW p \in Procs, Restarts(p) PROVE RowsOK' BY <1>18 DEF Restarts
<1>19. ASSUME NEW p \in Procs, IsRestarted(p) PROVE RowsOK' BY <1>19 DEF IsRestarted
<1>20. ASSUME NEW p \in Procs, Checks(p) PROVE RowsOK' BY <1>20 DEF Checks
<1>21. ASSUME NEW p \in Procs, Saves(p) PROVE RowsOK' BY <1>21 DEF Saves
<1>22. ASSUME NEW p \in Procs, Enqueues(p) PROVE RowsOK' BY <1>22 DEF Enqueues
<1>23. ASSUME NEW p \in Procs, Undefines(p) PROVE RowsOK' BY <1>23 DEF Undefines, Undefine
<1>24. ASSUME NEW p \in Procs, Removes(p) PROVE RowsOK' BY <1>24 DEF Removes
<1> QED BY <1>1, <1>2, <1>3, <1>4, <1>5, <1>6, <1>7, <1>8, <1>9, <1>10, <1>11, <1>12,
           <1>13, <1>14, <1>15, <1>16, <1>17, <1>18, <1>19, <1>20, <1>21, <1>22, <1>23,
           <1>24 DEF Effect

(* ... and the processes; only a job that made a call is in one. *)
LEMMA ProcsOKStep == IInv /\ Effect => ProcsOK'
<1> SUFFICES ASSUME IInv, Effect PROVE ProcsOK'
  OBVIOUS
<1> USE NoVmAssumption, ImagesAssumption
        DEF Unhurt, Leaves, Enters, libvirt, power, rows, store, broker, job, history,
            Begin, End, Step, Idle, Others, NotPower, NotPowerButDom,
            IInv, ProcsOK, TypeOK, PowerTypeOK, JobsOK, CallsOK, ImageSteps,
            EndSteps, Steps, Known, StopSteps, MarkSteps
<1>1. ASSUME NEW v \in Vms, GenerateKubeImage(v) PROVE ProcsOK'
  BY <1>1 DEF GenerateKubeImage
<1>2. ASSUME NEW v \in Vms, ScriptStops(v) PROVE ProcsOK' BY <1>2 DEF ScriptStops
<1>3. ASSUME NEW v \in Vms, GuestPowersOff(v) PROVE ProcsOK'
  BY <1>3 DEF GuestPowersOff, PowerOff
<1>4. ASSUME NEW p \in Procs, NEW v \in Vms, NEW s \in {"start", "stop", "end_row"},
             TakesMachine(p, v, s)
      PROVE  ProcsOK'
  BY <1>4 DEF TakesMachine
<1>5. ASSUME NEW p \in Procs, NEW i \in Images, NEW v \in Vms, PreparesUserImage(p, i, v)
      PROVE  ProcsOK'
  BY <1>5 DEF PreparesUserImage, Prepare
<1>6. ASSUME NEW p \in Procs, NEW i \in Images, NEW v \in Vms, PreparesKubeImage(p, i, v)
      PROVE  ProcsOK'
  BY <1>6 DEF PreparesKubeImage, RegisterKubeImage, Prepare
<1>7. ASSUME NEW p \in Procs, NEW i \in Images, Registers(p, i) PROVE ProcsOK'
  BY <1>7 DEF Registers, RegisterGuestImage, Prepare
<1>8. ASSUME NEW p \in Procs, NEW i \in Images, TakesImage(p, i) PROVE ProcsOK'
  BY <1>8 DEF TakesImage
<1>9. ASSUME NEW p \in Procs, Boots(p) PROVE ProcsOK' BY <1>9 DEF Boots, Boot, Goto
<1>10. ASSUME NEW p \in Procs, CallGoes(p) PROVE ProcsOK'
  <2>1. /\ step[p] \in {"start", "stop", "stopping", "end_stopping", "restarting"}
        /\ \A q \in Procs \ {p} : at'[q] = at[q]
    BY <1>10 DEF CallGoes, Goto, StartLabels, StopLabels, Answers
  <2>2. UNCHANGED <<step, img, dom, wasRunning, ephemeral, meddled, crossed>>
    BY <1>10 DEF CallGoes, Goto
  <2> QED BY <2>1, <2>2
<1>11. ASSUME NEW p \in Procs, CallEnds(p) PROVE ProcsOK'
  <2>1. /\ step[p] \in {"start", "stop", "stopping", "end_stopping", "restarting"}
        /\ \A q \in Procs \ {p} : at'[q] = at[q]
    BY <1>11 DEF CallEnds, Leave, StartLabels, StopLabels, Answers
  <2>2. UNCHANGED <<step, img, dom, wasRunning, ephemeral, meddled, crossed>>
    BY <1>11 DEF CallEnds, Leave
  <2> QED BY <2>1, <2>2
<1>12. ASSUME NEW p \in Procs, Ends(p) PROVE ProcsOK' BY <1>12 DEF Ends
<1>13. ASSUME NEW p \in Procs, Marks(p) PROVE ProcsOK' BY <1>13 DEF Marks
<1>14. ASSUME NEW p \in Procs, Stops(p) PROVE ProcsOK' BY <1>14 DEF Stops
<1>15. ASSUME NEW p \in Procs, IsStopped(p) PROVE ProcsOK' BY <1>15 DEF IsStopped
<1>16. ASSUME NEW p \in Procs, BeginsCopy(p) PROVE ProcsOK' BY <1>16 DEF BeginsCopy
<1>17. ASSUME NEW p \in Procs, Copies(p) PROVE ProcsOK' BY <1>17 DEF Copies
<1>18. ASSUME NEW p \in Procs, Restarts(p) PROVE ProcsOK' BY <1>18 DEF Restarts
<1>19. ASSUME NEW p \in Procs, IsRestarted(p) PROVE ProcsOK' BY <1>19 DEF IsRestarted
<1>20. ASSUME NEW p \in Procs, Checks(p) PROVE ProcsOK'
  <2>1. /\ step' = [step EXCEPT ![p] = "save"] /\ img[p] \in Images
        /\ UNCHANGED <<img, dom, at, wasRunning, ephemeral, meddled>>
        /\ step[p] # "none"
    BY <1>20 DEF Checks
  <2>2. \A q \in Procs : step[q] = "save" => img[q] \in Images
    OBVIOUS
  <2>3. crossed' \subseteq Images
    BY <1>20, <2>1, <2>2 DEF Checks
  <2>4. \A q \in Procs :
          /\ step'[q] = "none" <=> (img[q] = NoImage /\ dom[q] = NoVm)
          /\ at[q] # "out" =>
               step'[q] \in {"start", "stop", "stopping", "end_stopping", "restarting"}
    <3>1. at[p] = "out" /\ img[p] # NoImage
      BY <1>20, <2>1 DEF Checks
    <3> QED BY <2>1, <3>1
  <2>5. step' \in [Procs -> Steps]
    BY <2>1
  <2> QED BY <2>1, <2>3, <2>4, <2>5
<1>21. ASSUME NEW p \in Procs, Saves(p) PROVE ProcsOK' BY <1>21 DEF Saves
<1>22. ASSUME NEW p \in Procs, Enqueues(p) PROVE ProcsOK' BY <1>22 DEF Enqueues
<1>23. ASSUME NEW p \in Procs, Undefines(p) PROVE ProcsOK' BY <1>23 DEF Undefines, Undefine
<1>24. ASSUME NEW p \in Procs, Removes(p) PROVE ProcsOK' BY <1>24 DEF Removes
<1> QED BY <1>1, <1>2, <1>3, <1>4, <1>5, <1>6, <1>7, <1>8, <1>9, <1>10, <1>11, <1>12,
           <1>13, <1>14, <1>15, <1>16, <1>17, <1>18, <1>19, <1>20, <1>21, <1>22, <1>23,
           <1>24 DEF Effect

(* A step is taken with the image and the machine that it needs. *)
LEMMA JobsOKStep == IInv /\ Effect => JobsOK'
<1> SUFFICES ASSUME IInv, Effect PROVE JobsOK'
  OBVIOUS
<1> USE NoVmAssumption, ImagesAssumption
        DEF Unhurt, Leaves, Enters, libvirt, power, rows, store, broker, job, history,
            Begin, End, Step, Idle, Others, NotPower, NotPowerButDom,
            IInv, JobsOK, TypeOK, PowerTypeOK, LibvirtTypeOK, ImageSteps,
            DomainSteps, EndSteps, Known, MarkSteps
<1>1. ASSUME NEW v \in Vms, GenerateKubeImage(v) PROVE JobsOK' BY <1>1 DEF GenerateKubeImage
<1>2. ASSUME NEW v \in Vms, ScriptStops(v) PROVE JobsOK' BY <1>2 DEF ScriptStops
<1>3. ASSUME NEW v \in Vms, GuestPowersOff(v) PROVE JobsOK'
  BY <1>3 DEF GuestPowersOff, PowerOff
<1>4. ASSUME NEW p \in Procs, NEW v \in Vms, NEW s \in {"start", "stop", "end_row"},
             TakesMachine(p, v, s)
      PROVE  JobsOK'
  BY <1>4 DEF TakesMachine
<1>5. ASSUME NEW p \in Procs, NEW i \in Images, NEW v \in Vms, PreparesUserImage(p, i, v)
      PROVE  JobsOK'
  BY <1>5 DEF PreparesUserImage, Prepare
<1>6. ASSUME NEW p \in Procs, NEW i \in Images, NEW v \in Vms, PreparesKubeImage(p, i, v)
      PROVE  JobsOK'
  BY <1>6 DEF PreparesKubeImage, RegisterKubeImage, Prepare
<1>7. ASSUME NEW p \in Procs, NEW i \in Images, Registers(p, i) PROVE JobsOK'
  BY <1>7 DEF Registers, RegisterGuestImage, Prepare
<1>8. ASSUME NEW p \in Procs, NEW i \in Images, TakesImage(p, i) PROVE JobsOK'
  BY <1>8 DEF TakesImage
<1>9. ASSUME NEW p \in Procs, Boots(p) PROVE JobsOK' BY <1>9 DEF Boots, Boot, Goto
<1>10. ASSUME NEW p \in Procs, CallGoes(p) PROVE JobsOK' BY <1>10 DEF CallGoes, Goto
<1>11. ASSUME NEW p \in Procs, CallEnds(p) PROVE JobsOK'
  BY <1>11 DEF CallEnds, Leave, AutostartOn
<1>12. ASSUME NEW p \in Procs, Ends(p) PROVE JobsOK' BY <1>12 DEF Ends
<1>13. ASSUME NEW p \in Procs, Marks(p) PROVE JobsOK' BY <1>13 DEF Marks
<1>14. ASSUME NEW p \in Procs, Stops(p) PROVE JobsOK' BY <1>14 DEF Stops
<1>15. ASSUME NEW p \in Procs, IsStopped(p) PROVE JobsOK' BY <1>15 DEF IsStopped
<1>16. ASSUME NEW p \in Procs, BeginsCopy(p) PROVE JobsOK' BY <1>16 DEF BeginsCopy
<1>17. ASSUME NEW p \in Procs, Copies(p) PROVE JobsOK' BY <1>17 DEF Copies
<1>18. ASSUME NEW p \in Procs, Restarts(p) PROVE JobsOK' BY <1>18 DEF Restarts
<1>19. ASSUME NEW p \in Procs, IsRestarted(p) PROVE JobsOK' BY <1>19 DEF IsRestarted
<1>20. ASSUME NEW p \in Procs, Checks(p) PROVE JobsOK' BY <1>20 DEF Checks
<1>21. ASSUME NEW p \in Procs, Saves(p) PROVE JobsOK' BY <1>21 DEF Saves
<1>22. ASSUME NEW p \in Procs, Enqueues(p) PROVE JobsOK' BY <1>22 DEF Enqueues
<1>23. ASSUME NEW p \in Procs, Undefines(p) PROVE JobsOK' BY <1>23 DEF Undefines, Undefine
<1>24. ASSUME NEW p \in Procs, Removes(p) PROVE JobsOK' BY <1>24 DEF Removes
<1> QED BY <1>1, <1>2, <1>3, <1>4, <1>5, <1>6, <1>7, <1>8, <1>9, <1>10, <1>11, <1>12,
           <1>13, <1>14, <1>15, <1>16, <1>17, <1>18, <1>19, <1>20, <1>21, <1>22, <1>23,
           <1>24 DEF Effect

(* A step goes with its call. *)
LEMMA CallsOKStep == IInv /\ Effect => CallsOK'
<1> SUFFICES ASSUME IInv, Effect PROVE CallsOK'
  OBVIOUS
<1> USE NoVmAssumption, ImagesAssumption
        DEF Unhurt, Leaves, Enters, libvirt, power, rows, store, broker, job, history,
            Begin, End, Step, Idle, Others, NotPower, NotPowerButDom,
            IInv, CallsOK, TypeOK, PowerTypeOK, StartLabels, StopLabels,
            Answers, StopSteps, ImageSteps, MarkSteps
<1>1. ASSUME NEW v \in Vms, GenerateKubeImage(v) PROVE CallsOK'
  BY <1>1 DEF GenerateKubeImage
<1>2. ASSUME NEW v \in Vms, ScriptStops(v) PROVE CallsOK' BY <1>2 DEF ScriptStops
<1>3. ASSUME NEW v \in Vms, GuestPowersOff(v) PROVE CallsOK'
  BY <1>3 DEF GuestPowersOff, PowerOff
<1>4. ASSUME NEW p \in Procs, NEW v \in Vms, NEW s \in {"start", "stop", "end_row"},
             TakesMachine(p, v, s)
      PROVE  CallsOK'
  BY <1>4 DEF TakesMachine
<1>5. ASSUME NEW p \in Procs, NEW i \in Images, NEW v \in Vms, PreparesUserImage(p, i, v)
      PROVE  CallsOK'
  BY <1>5 DEF PreparesUserImage, Prepare
<1>6. ASSUME NEW p \in Procs, NEW i \in Images, NEW v \in Vms, PreparesKubeImage(p, i, v)
      PROVE  CallsOK'
  BY <1>6 DEF PreparesKubeImage, RegisterKubeImage, Prepare
<1>7. ASSUME NEW p \in Procs, NEW i \in Images, Registers(p, i) PROVE CallsOK'
  BY <1>7 DEF Registers, RegisterGuestImage, Prepare
<1>8. ASSUME NEW p \in Procs, NEW i \in Images, TakesImage(p, i) PROVE CallsOK'
  BY <1>8 DEF TakesImage
<1>9. ASSUME NEW p \in Procs, Boots(p) PROVE CallsOK' BY <1>9 DEF Boots, Boot, Goto
<1>10. ASSUME NEW p \in Procs, CallGoes(p) PROVE CallsOK' BY <1>10 DEF CallGoes, Goto
<1>11. ASSUME NEW p \in Procs, CallEnds(p) PROVE CallsOK'
  BY <1>11 DEF CallEnds, Leave, AutostartOn
<1>12. ASSUME NEW p \in Procs, Ends(p) PROVE CallsOK' BY <1>12 DEF Ends
<1>13. ASSUME NEW p \in Procs, Marks(p) PROVE CallsOK' BY <1>13 DEF Marks
<1>14. ASSUME NEW p \in Procs, Stops(p) PROVE CallsOK' BY <1>14 DEF Stops
<1>15. ASSUME NEW p \in Procs, IsStopped(p) PROVE CallsOK' BY <1>15 DEF IsStopped
<1>16. ASSUME NEW p \in Procs, BeginsCopy(p) PROVE CallsOK' BY <1>16 DEF BeginsCopy
<1>17. ASSUME NEW p \in Procs, Copies(p) PROVE CallsOK' BY <1>17 DEF Copies
<1>18. ASSUME NEW p \in Procs, Restarts(p) PROVE CallsOK' BY <1>18 DEF Restarts
<1>19. ASSUME NEW p \in Procs, IsRestarted(p) PROVE CallsOK' BY <1>19 DEF IsRestarted
<1>20. ASSUME NEW p \in Procs, Checks(p) PROVE CallsOK' BY <1>20 DEF Checks
<1>21. ASSUME NEW p \in Procs, Saves(p) PROVE CallsOK' BY <1>21 DEF Saves
<1>22. ASSUME NEW p \in Procs, Enqueues(p) PROVE CallsOK' BY <1>22 DEF Enqueues
<1>23. ASSUME NEW p \in Procs, Undefines(p) PROVE CallsOK' BY <1>23 DEF Undefines, Undefine
<1>24. ASSUME NEW p \in Procs, Removes(p) PROVE CallsOK' BY <1>24 DEF Removes
<1> QED BY <1>1, <1>2, <1>3, <1>4, <1>5, <1>6, <1>7, <1>8, <1>9, <1>10, <1>11, <1>12,
           <1>13, <1>14, <1>15, <1>16, <1>17, <1>18, <1>19, <1>20, <1>21, <1>22, <1>23,
           <1>24 DEF Effect

(* An image in state CREATING stays in one hand, a message or a process, and
   gets its path and metadata with its state. *)
LEMMA OwnedStep == IInv /\ Effect => Owned'
<1> SUFFICES ASSUME IInv, Effect PROVE Owned'
  OBVIOUS
<1> USE NoVmAssumption, ImagesAssumption
        DEF Unhurt, Leaves, Enters, libvirt, power, rows, store, broker, job, history,
            Begin, End, Step, Idle, Others, NotPower, NotPowerButDom,
            IInv, Owned, TypeOK, JobsOK, ImageSteps, MarkSteps
<1>1. ASSUME NEW v \in Vms, GenerateKubeImage(v) PROVE Owned' BY <1>1 DEF GenerateKubeImage
<1>2. ASSUME NEW v \in Vms, ScriptStops(v) PROVE Owned' BY <1>2 DEF ScriptStops
<1>3. ASSUME NEW v \in Vms, GuestPowersOff(v) PROVE Owned'
  BY <1>3 DEF GuestPowersOff, PowerOff
<1>4. ASSUME NEW p \in Procs, NEW v \in Vms, NEW s \in {"start", "stop", "end_row"},
             TakesMachine(p, v, s)
      PROVE  Owned'
  BY <1>4 DEF TakesMachine
<1>5. ASSUME NEW p \in Procs, NEW i \in Images, NEW v \in Vms, PreparesUserImage(p, i, v)
      PROVE  Owned'
  BY <1>5 DEF PreparesUserImage, Prepare
<1>6. ASSUME NEW p \in Procs, NEW i \in Images, NEW v \in Vms, PreparesKubeImage(p, i, v)
      PROVE  Owned'
  BY <1>6 DEF PreparesKubeImage, RegisterKubeImage, Prepare
<1>7. ASSUME NEW p \in Procs, NEW i \in Images, Registers(p, i) PROVE Owned'
  BY <1>7 DEF Registers, RegisterGuestImage, Prepare
<1>8. ASSUME NEW p \in Procs, NEW i \in Images, TakesImage(p, i) PROVE Owned'
  BY <1>8 DEF TakesImage
<1>9. ASSUME NEW p \in Procs, Boots(p) PROVE Owned' BY <1>9 DEF Boots, Boot, Goto
<1>10. ASSUME NEW p \in Procs, CallGoes(p) PROVE Owned' BY <1>10 DEF CallGoes, Goto
<1>11. ASSUME NEW p \in Procs, CallEnds(p) PROVE Owned'
  BY <1>11 DEF CallEnds, Leave, AutostartOn
<1>12. ASSUME NEW p \in Procs, Ends(p) PROVE Owned' BY <1>12 DEF Ends
<1>13. ASSUME NEW p \in Procs, Marks(p) PROVE Owned' BY <1>13 DEF Marks
<1>14. ASSUME NEW p \in Procs, Stops(p) PROVE Owned' BY <1>14 DEF Stops
<1>15. ASSUME NEW p \in Procs, IsStopped(p) PROVE Owned' BY <1>15 DEF IsStopped
<1>16. ASSUME NEW p \in Procs, BeginsCopy(p) PROVE Owned' BY <1>16 DEF BeginsCopy
<1>17. ASSUME NEW p \in Procs, Copies(p) PROVE Owned' BY <1>17 DEF Copies
<1>18. ASSUME NEW p \in Procs, Restarts(p) PROVE Owned' BY <1>18 DEF Restarts
<1>19. ASSUME NEW p \in Procs, IsRestarted(p) PROVE Owned' BY <1>19 DEF IsRestarted
<1>20. ASSUME NEW p \in Procs, Checks(p) PROVE Owned' BY <1>20 DEF Checks
<1>21. ASSUME NEW p \in Procs, Saves(p) PROVE Owned' BY <1>21 DEF Saves
<1>22. ASSUME NEW p \in Procs, Enqueues(p) PROVE Owned' BY <1>22 DEF Enqueues
<1>23. ASSUME NEW p \in Procs, Undefines(p) PROVE Owned' BY <1>23 DEF Undefines, Undefine
<1>24. ASSUME NEW p \in Procs, Removes(p) PROVE Owned' BY <1>24 DEF Removes
<1> QED BY <1>1, <1>2, <1>3, <1>4, <1>5, <1>6, <1>7, <1>8, <1>9, <1>10, <1>11, <1>12,
           <1>13, <1>14, <1>15, <1>16, <1>17, <1>18, <1>19, <1>20, <1>21, <1>22, <1>23,
           <1>24 DEF Effect

(* The file of an image is as far as the process that makes it. *)
LEMMA FilesOKStep == IInv /\ Effect => FilesOK'
<1> SUFFICES ASSUME IInv, Effect PROVE FilesOK'
  OBVIOUS
<1> USE NoVmAssumption, ImagesAssumption
        DEF Unhurt, Leaves, Enters, libvirt, power, rows, store, broker, job, history,
            Begin, End, Step, Idle, Others, NotPower, NotPowerButDom,
            IInv, FilesOK, TypeOK, JobsOK, Owned, ImageSteps, EndSteps,
            MarkSteps
<1>1. ASSUME NEW v \in Vms, GenerateKubeImage(v) PROVE FilesOK'
  BY <1>1 DEF GenerateKubeImage
<1>2. ASSUME NEW v \in Vms, ScriptStops(v) PROVE FilesOK' BY <1>2 DEF ScriptStops
<1>3. ASSUME NEW v \in Vms, GuestPowersOff(v) PROVE FilesOK'
  BY <1>3 DEF GuestPowersOff, PowerOff
<1>4. ASSUME NEW p \in Procs, NEW v \in Vms, NEW s \in {"start", "stop", "end_row"},
             TakesMachine(p, v, s)
      PROVE  FilesOK'
  BY <1>4 DEF TakesMachine
<1>5. ASSUME NEW p \in Procs, NEW i \in Images, NEW v \in Vms, PreparesUserImage(p, i, v)
      PROVE  FilesOK'
  BY <1>5 DEF PreparesUserImage, Prepare
<1>6. ASSUME NEW p \in Procs, NEW i \in Images, NEW v \in Vms, PreparesKubeImage(p, i, v)
      PROVE  FilesOK'
  BY <1>6 DEF PreparesKubeImage, RegisterKubeImage, Prepare
<1>7. ASSUME NEW p \in Procs, NEW i \in Images, Registers(p, i) PROVE FilesOK'
  BY <1>7 DEF Registers, RegisterGuestImage, Prepare
<1>8. ASSUME NEW p \in Procs, NEW i \in Images, TakesImage(p, i) PROVE FilesOK'
  BY <1>8 DEF TakesImage
<1>9. ASSUME NEW p \in Procs, Boots(p) PROVE FilesOK' BY <1>9 DEF Boots, Boot, Goto
<1>10. ASSUME NEW p \in Procs, CallGoes(p) PROVE FilesOK' BY <1>10 DEF CallGoes, Goto
<1>11. ASSUME NEW p \in Procs, CallEnds(p) PROVE FilesOK'
  BY <1>11 DEF CallEnds, Leave, AutostartOn
<1>12. ASSUME NEW p \in Procs, Ends(p) PROVE FilesOK' BY <1>12 DEF Ends
<1>13. ASSUME NEW p \in Procs, Marks(p) PROVE FilesOK' BY <1>13 DEF Marks
<1>14. ASSUME NEW p \in Procs, Stops(p) PROVE FilesOK' BY <1>14 DEF Stops
<1>15. ASSUME NEW p \in Procs, IsStopped(p) PROVE FilesOK' BY <1>15 DEF IsStopped
<1>16. ASSUME NEW p \in Procs, BeginsCopy(p) PROVE FilesOK' BY <1>16 DEF BeginsCopy
<1>17. ASSUME NEW p \in Procs, Copies(p) PROVE FilesOK' BY <1>17 DEF Copies
<1>18. ASSUME NEW p \in Procs, Restarts(p) PROVE FilesOK' BY <1>18 DEF Restarts
<1>19. ASSUME NEW p \in Procs, IsRestarted(p) PROVE FilesOK' BY <1>19 DEF IsRestarted
<1>20. ASSUME NEW p \in Procs, Checks(p) PROVE FilesOK' BY <1>20 DEF Checks
<1>21. ASSUME NEW p \in Procs, Saves(p) PROVE FilesOK' BY <1>21 DEF Saves
<1>22. ASSUME NEW p \in Procs, Enqueues(p) PROVE FilesOK' BY <1>22 DEF Enqueues
<1>23. ASSUME NEW p \in Procs, Undefines(p) PROVE FilesOK' BY <1>23 DEF Undefines, Undefine
<1>24. ASSUME NEW p \in Procs, Removes(p) PROVE FilesOK' BY <1>24 DEF Removes
<1> QED BY <1>1, <1>2, <1>3, <1>4, <1>5, <1>6, <1>7, <1>8, <1>9, <1>10, <1>11, <1>12,
           <1>13, <1>14, <1>15, <1>16, <1>17, <1>18, <1>19, <1>20, <1>21, <1>22, <1>23,
           <1>24 DEF Effect

(* Whoever comes second to a machine counts its images as meddled with. *)
LEMMA AloneStep == IInv /\ Effect => Alone'
<1> SUFFICES ASSUME IInv, Effect PROVE Alone'
  OBVIOUS
<1> USE NoVmAssumption, ImagesAssumption
        DEF Unhurt, Leaves, Enters, libvirt, power, rows, store, broker, job, history,
            Begin, End, Step, Idle, Others, NotPower, NotPowerButDom,
            IInv, Alone, TypeOK, PowerTypeOK
<1>1. ASSUME NEW v \in Vms, GenerateKubeImage(v) PROVE Alone' BY <1>1 DEF GenerateKubeImage
<1>2. ASSUME NEW v \in Vms, ScriptStops(v) PROVE Alone' BY <1>2 DEF ScriptStops
<1>3. ASSUME NEW v \in Vms, GuestPowersOff(v) PROVE Alone'
  BY <1>3 DEF GuestPowersOff, PowerOff
<1>4. ASSUME NEW p \in Procs, NEW v \in Vms, NEW s \in {"start", "stop", "end_row"},
             TakesMachine(p, v, s)
      PROVE  Alone'
  BY <1>4 DEF TakesMachine
<1>5. ASSUME NEW p \in Procs, NEW i \in Images, NEW v \in Vms, PreparesUserImage(p, i, v)
      PROVE  Alone'
  BY <1>5 DEF PreparesUserImage, Prepare
<1>6. ASSUME NEW p \in Procs, NEW i \in Images, NEW v \in Vms, PreparesKubeImage(p, i, v)
      PROVE  Alone'
  BY <1>6 DEF PreparesKubeImage, RegisterKubeImage, Prepare
<1>7. ASSUME NEW p \in Procs, NEW i \in Images, Registers(p, i) PROVE Alone'
  BY <1>7 DEF Registers, RegisterGuestImage, Prepare
<1>8. ASSUME NEW p \in Procs, NEW i \in Images, TakesImage(p, i) PROVE Alone'
  BY <1>8 DEF TakesImage
<1>9. ASSUME NEW p \in Procs, Boots(p) PROVE Alone' BY <1>9 DEF Boots, Boot, Goto
<1>10. ASSUME NEW p \in Procs, CallGoes(p) PROVE Alone' BY <1>10 DEF CallGoes, Goto
<1>11. ASSUME NEW p \in Procs, CallEnds(p) PROVE Alone'
  BY <1>11 DEF CallEnds, Leave, AutostartOn
<1>12. ASSUME NEW p \in Procs, Ends(p) PROVE Alone' BY <1>12 DEF Ends
<1>13. ASSUME NEW p \in Procs, Marks(p) PROVE Alone' BY <1>13 DEF Marks
<1>14. ASSUME NEW p \in Procs, Stops(p) PROVE Alone' BY <1>14 DEF Stops
<1>15. ASSUME NEW p \in Procs, IsStopped(p) PROVE Alone' BY <1>15 DEF IsStopped
<1>16. ASSUME NEW p \in Procs, BeginsCopy(p) PROVE Alone' BY <1>16 DEF BeginsCopy
<1>17. ASSUME NEW p \in Procs, Copies(p) PROVE Alone' BY <1>17 DEF Copies
<1>18. ASSUME NEW p \in Procs, Restarts(p) PROVE Alone' BY <1>18 DEF Restarts
<1>19. ASSUME NEW p \in Procs, IsRestarted(p) PROVE Alone' BY <1>19 DEF IsRestarted
<1>20. ASSUME NEW p \in Procs, Checks(p) PROVE Alone' BY <1>20 DEF Checks
<1>21. ASSUME NEW p \in Procs, Saves(p) PROVE Alone' BY <1>21 DEF Saves
<1>22. ASSUME NEW p \in Procs, Enqueues(p) PROVE Alone' BY <1>22 DEF Enqueues
<1>23. ASSUME NEW p \in Procs, Undefines(p) PROVE Alone' BY <1>23 DEF Undefines, Undefine
<1>24. ASSUME NEW p \in Procs, Removes(p) PROVE Alone' BY <1>24 DEF Removes
<1> QED BY <1>1, <1>2, <1>3, <1>4, <1>5, <1>6, <1>7, <1>8, <1>9, <1>10, <1>11, <1>12,
           <1>13, <1>14, <1>15, <1>16, <1>17, <1>18, <1>19, <1>20, <1>21, <1>22, <1>23,
           <1>24 DEF Effect

(* A machine is launched before anything is done with it. *)
LEMMA UnbornStep == IInv /\ Effect => Unborn'
<1> SUFFICES ASSUME IInv, Effect PROVE Unborn'
  OBVIOUS
<1> USE NoVmAssumption, ImagesAssumption
        DEF Unhurt, Leaves, Enters, libvirt, power, rows, store, broker, job, history,
            Begin, End, Step, Idle, Others, NotPower, NotPowerButDom,
            IInv, Unborn, TypeOK, PowerTypeOK, LibvirtTypeOK, Known, ShutOff
<1>1. ASSUME NEW v \in Vms, GenerateKubeImage(v) PROVE Unborn' BY <1>1 DEF GenerateKubeImage
<1>2. ASSUME NEW v \in Vms, ScriptStops(v) PROVE Unborn' BY <1>2 DEF ScriptStops
<1>3. ASSUME NEW v \in Vms, GuestPowersOff(v) PROVE Unborn'
  BY <1>3 DEF GuestPowersOff, PowerOff
<1>4. ASSUME NEW p \in Procs, NEW v \in Vms, NEW s \in {"start", "stop", "end_row"},
             TakesMachine(p, v, s)
      PROVE  Unborn'
  BY <1>4 DEF TakesMachine
<1>5. ASSUME NEW p \in Procs, NEW i \in Images, NEW v \in Vms, PreparesUserImage(p, i, v)
      PROVE  Unborn'
  BY <1>5 DEF PreparesUserImage, Prepare
<1>6. ASSUME NEW p \in Procs, NEW i \in Images, NEW v \in Vms, PreparesKubeImage(p, i, v)
      PROVE  Unborn'
  BY <1>6 DEF PreparesKubeImage, RegisterKubeImage, Prepare
<1>7. ASSUME NEW p \in Procs, NEW i \in Images, Registers(p, i) PROVE Unborn'
  BY <1>7 DEF Registers, RegisterGuestImage, Prepare
<1>8. ASSUME NEW p \in Procs, NEW i \in Images, TakesImage(p, i) PROVE Unborn'
  BY <1>8 DEF TakesImage
<1>9. ASSUME NEW p \in Procs, Boots(p) PROVE Unborn' BY <1>9 DEF Boots, Boot, Goto
<1>10. ASSUME NEW p \in Procs, CallGoes(p) PROVE Unborn' BY <1>10 DEF CallGoes, Goto
<1>11. ASSUME NEW p \in Procs, CallEnds(p) PROVE Unborn'
  BY <1>11 DEF CallEnds, Leave, AutostartOn
<1>12. ASSUME NEW p \in Procs, Ends(p) PROVE Unborn' BY <1>12 DEF Ends
<1>13. ASSUME NEW p \in Procs, Marks(p) PROVE Unborn' BY <1>13 DEF Marks
<1>14. ASSUME NEW p \in Procs, Stops(p) PROVE Unborn' BY <1>14 DEF Stops
<1>15. ASSUME NEW p \in Procs, IsStopped(p) PROVE Unborn' BY <1>15 DEF IsStopped
<1>16. ASSUME NEW p \in Procs, BeginsCopy(p) PROVE Unborn' BY <1>16 DEF BeginsCopy
<1>17. ASSUME NEW p \in Procs, Copies(p) PROVE Unborn' BY <1>17 DEF Copies
<1>18. ASSUME NEW p \in Procs, Restarts(p) PROVE Unborn' BY <1>18 DEF Restarts
<1>19. ASSUME NEW p \in Procs, IsRestarted(p) PROVE Unborn' BY <1>19 DEF IsRestarted
<1>20. ASSUME NEW p \in Procs, Checks(p) PROVE Unborn' BY <1>20 DEF Checks
<1>21. ASSUME NEW p \in Procs, Saves(p) PROVE Unborn' BY <1>21 DEF Saves
<1>22. ASSUME NEW p \in Procs, Enqueues(p) PROVE Unborn' BY <1>22 DEF Enqueues
<1>23. ASSUME NEW p \in Procs, Undefines(p) PROVE Unborn' BY <1>23 DEF Undefines, Undefine
<1>24. ASSUME NEW p \in Procs, Removes(p) PROVE Unborn' BY <1>24 DEF Removes
<1> QED BY <1>1, <1>2, <1>3, <1>4, <1>5, <1>6, <1>7, <1>8, <1>9, <1>10, <1>11, <1>12,
           <1>13, <1>14, <1>15, <1>16, <1>17, <1>18, <1>19, <1>20, <1>21, <1>22, <1>23,
           <1>24 DEF Effect

(* Nobody but its process changes the power of a machine that has one only,
   except that its guest may power off. *)
LEMMA QuietStep == IInv /\ Effect => Quiet'
<1> SUFFICES ASSUME IInv, Effect PROVE Quiet'
  OBVIOUS
<1> USE NoVmAssumption, ImagesAssumption
        DEF Unhurt, Leaves, Enters, libvirt, power, rows, store, broker, job, history,
            Begin, End, Step, Idle, Others, NotPower, NotPowerButDom,
            IInv, Quiet, TypeOK, PowerTypeOK, LibvirtTypeOK, JobsOK, CallsOK,
            Alone, Unborn, Off, Restored, LastSteps, EndSteps, StopSteps,
            Answers, StartLabels, StopLabels, Known, ShutOff, MarkSteps,
            ImageSteps
<1>1. ASSUME NEW v \in Vms, GenerateKubeImage(v) PROVE Quiet' BY <1>1 DEF GenerateKubeImage
<1>2. ASSUME NEW v \in Vms, ScriptStops(v) PROVE Quiet' BY <1>2 DEF ScriptStops
<1>3. ASSUME NEW v \in Vms, GuestPowersOff(v) PROVE Quiet'
  BY <1>3 DEF GuestPowersOff, PowerOff
<1>4. ASSUME NEW p \in Procs, NEW v \in Vms, NEW s \in {"start", "stop", "end_row"},
             TakesMachine(p, v, s)
      PROVE  Quiet'
  BY <1>4 DEF TakesMachine
<1>5. ASSUME NEW p \in Procs, NEW i \in Images, NEW v \in Vms, PreparesUserImage(p, i, v)
      PROVE  Quiet'
  BY <1>5 DEF PreparesUserImage, Prepare
<1>6. ASSUME NEW p \in Procs, NEW i \in Images, NEW v \in Vms, PreparesKubeImage(p, i, v)
      PROVE  Quiet'
  BY <1>6 DEF PreparesKubeImage, RegisterKubeImage, Prepare
<1>7. ASSUME NEW p \in Procs, NEW i \in Images, Registers(p, i) PROVE Quiet'
  BY <1>7 DEF Registers, RegisterGuestImage, Prepare
<1>8. ASSUME NEW p \in Procs, NEW i \in Images, TakesImage(p, i) PROVE Quiet'
  BY <1>8 DEF TakesImage
<1>9. ASSUME NEW p \in Procs, Boots(p) PROVE Quiet' BY <1>9 DEF Boots, Boot, Goto
<1>10. ASSUME NEW p \in Procs, CallGoes(p) PROVE Quiet' BY <1>10 DEF CallGoes, Goto
<1>11. ASSUME NEW p \in Procs, CallEnds(p) PROVE Quiet'
  <2>1. PICK how \in Answers :
          /\ Leave(p, how)
          /\ \/ /\ at[p] \in StartLabels \cup StopLabels /\ how = "raised"
                /\ UNCHANGED libvirt
             \/ /\ at[p] = "start" /\ dom[p] \in active
                /\ how = "returned" /\ UNCHANGED libvirt
             \/ at[p] = "autostart" /\ how = "returned" /\ AutostartOn(dom[p])
             \/ /\ at[p] \in StopLabels /\ (dom[p] \notin active \/ p \notin patient)
                /\ how = "returned" /\ UNCHANGED libvirt
    BY <1>11 DEF CallEnds
  <2>2. UNCHANGED <<step, img, wasRunning, ephemeral, meddled, dom, active>>
    BY <1>11, <2>1 DEF CallEnds, Leave, AutostartOn
  <2>3. at' = [at EXCEPT ![p] = how]
    BY <2>1 DEF Leave
  <2>4. /\ \A v \in autostart : v \in autostart'
        /\ \A v \in autostart' : v \in autostart \/ v = dom[p]
    BY <2>1 DEF AutostartOn
  <2>5. at[p] # "out"
    BY <2>1
  <2>6. step[p] \in {"start", "stop", "stopping", "end_stopping", "restarting"}
    BY <2>5
  <2>7. ASSUME NEW q \in Procs, img[q] # NoImage, img[q] \notin meddled
        PROVE  /\ step[q] = "stopping" /\ at'[q] = "returned" => dom[q] \notin active
               /\ step[q] = "restarting" /\ at'[q] \in {"start", "create"} => dom[q] \notin active
               /\ step[q] = "restarting" /\ at'[q] = "returned" => dom[q] \in autostart'
    <3>1. CASE q = p
      <4>0. at[p] \in StartLabels \cup StopLabels
        BY <2>1
      <4>1. step[p] = "stopping" => at[p] \in StopLabels /\ p \in patient
        BY <4>0
      <4>2. step[p] = "restarting" => at[p] \in StartLabels
        BY <2>1
      <4>3. step[p] = "restarting" /\ at[p] = "start" => dom[p] \notin active
        BY <2>7, <3>1
      <4>4. step[p] = "restarting" /\ how = "returned" => dom[p] \in autostart'
        BY <2>1, <4>2, <4>3 DEF AutostartOn
      <4> QED BY <2>1, <2>3, <3>1, <4>1, <4>4
    <3>2. CASE q # p
      BY <2>3, <2>4, <2>7, <3>2
    <3> QED BY <3>1, <3>2
  <2>8. ASSUME NEW q \in Procs, img[q] # NoImage, img[q] \notin meddled
        PROVE  /\ step[q] \in {"convert", "converting", "restart"} => dom[q] \notin active
               /\ step[q] \in LastSteps /\ q \notin ephemeral /\ dom[q] # NoVm =>
                    IF q \in wasRunning THEN dom[q] \in autostart' ELSE dom[q] \notin active
    BY <2>4, <2>8
  <2> QED BY <2>2, <2>7, <2>8
<1>12. ASSUME NEW p \in Procs, Ends(p) PROVE Quiet' BY <1>12 DEF Ends
<1>13. ASSUME NEW p \in Procs, Marks(p) PROVE Quiet' BY <1>13 DEF Marks
<1>14. ASSUME NEW p \in Procs, Stops(p) PROVE Quiet' BY <1>14 DEF Stops
<1>15. ASSUME NEW p \in Procs, IsStopped(p) PROVE Quiet' BY <1>15 DEF IsStopped
<1>16. ASSUME NEW p \in Procs, BeginsCopy(p) PROVE Quiet' BY <1>16 DEF BeginsCopy
<1>17. ASSUME NEW p \in Procs, Copies(p) PROVE Quiet' BY <1>17 DEF Copies
<1>18. ASSUME NEW p \in Procs, Restarts(p) PROVE Quiet' BY <1>18 DEF Restarts
<1>19. ASSUME NEW p \in Procs, IsRestarted(p) PROVE Quiet' BY <1>19 DEF IsRestarted
<1>20. ASSUME NEW p \in Procs, Checks(p) PROVE Quiet' BY <1>20 DEF Checks
<1>21. ASSUME NEW p \in Procs, Saves(p) PROVE Quiet' BY <1>21 DEF Saves
<1>22. ASSUME NEW p \in Procs, Enqueues(p) PROVE Quiet' BY <1>22 DEF Enqueues
<1>23. ASSUME NEW p \in Procs, Undefines(p) PROVE Quiet' BY <1>23 DEF Undefines, Undefine
<1>24. ASSUME NEW p \in Procs, Removes(p) PROVE Quiet' BY <1>24 DEF Removes
<1> QED BY <1>1, <1>2, <1>3, <1>4, <1>5, <1>6, <1>7, <1>8, <1>9, <1>10, <1>11, <1>12,
           <1>13, <1>14, <1>15, <1>16, <1>17, <1>18, <1>19, <1>20, <1>21, <1>22, <1>23,
           <1>24 DEF Effect

(* A copy is torn by the boot of a machine that is off for its copy, hence by
   somebody else. *)
LEMMA TornOKStep == IInv /\ Effect => TornOK'
<1> SUFFICES ASSUME IInv, Effect PROVE TornOK'
  OBVIOUS
<1> USE NoVmAssumption, ImagesAssumption
        DEF Unhurt, Leaves, Enters, libvirt, power, rows, store, broker, job, history,
            Begin, End, Step, Idle, Others, NotPower, NotPowerButDom,
            IInv, TornOK, TypeOK, PowerTypeOK, JobsOK, CallsOK, Alone, Quiet,
            StopSteps, ImageSteps, Off, MarkSteps
<1>1. ASSUME NEW v \in Vms, GenerateKubeImage(v) PROVE TornOK' BY <1>1 DEF GenerateKubeImage
<1>2. ASSUME NEW v \in Vms, ScriptStops(v) PROVE TornOK' BY <1>2 DEF ScriptStops
<1>3. ASSUME NEW v \in Vms, GuestPowersOff(v) PROVE TornOK'
  BY <1>3 DEF GuestPowersOff, PowerOff
<1>4. ASSUME NEW p \in Procs, NEW v \in Vms, NEW s \in {"start", "stop", "end_row"},
             TakesMachine(p, v, s)
      PROVE  TornOK'
  BY <1>4 DEF TakesMachine
<1>5. ASSUME NEW p \in Procs, NEW i \in Images, NEW v \in Vms, PreparesUserImage(p, i, v)
      PROVE  TornOK'
  BY <1>5 DEF PreparesUserImage, Prepare
<1>6. ASSUME NEW p \in Procs, NEW i \in Images, NEW v \in Vms, PreparesKubeImage(p, i, v)
      PROVE  TornOK'
  BY <1>6 DEF PreparesKubeImage, RegisterKubeImage, Prepare
<1>7. ASSUME NEW p \in Procs, NEW i \in Images, Registers(p, i) PROVE TornOK'
  BY <1>7 DEF Registers, RegisterGuestImage, Prepare
<1>8. ASSUME NEW p \in Procs, NEW i \in Images, TakesImage(p, i) PROVE TornOK'
  BY <1>8 DEF TakesImage
<1>9. ASSUME NEW p \in Procs, Boots(p) PROVE TornOK'
  <2>1. ASSUME NEW q \in Procs, step[q] = "converting", dom[q] = dom[p]
        PROVE  img[q] \in meddled
    <3>1. q # p /\ img[q] # NoImage /\ dom[p] # NoVm
      BY <1>9, <2>1 DEF Boots
    <3> QED BY <2>1, <3>1
  <2>2. /\ torn' = torn \cup
           {img[q] : q \in {r \in Procs : step[r] = "converting" /\ dom[r] = dom[p]}}
        /\ UNCHANGED meddled
    BY <1>9 DEF Boots
  <2> QED BY <2>1, <2>2
<1>10. ASSUME NEW p \in Procs, CallGoes(p) PROVE TornOK' BY <1>10 DEF CallGoes, Goto
<1>11. ASSUME NEW p \in Procs, CallEnds(p) PROVE TornOK'
  BY <1>11 DEF CallEnds, Leave, AutostartOn
<1>12. ASSUME NEW p \in Procs, Ends(p) PROVE TornOK' BY <1>12 DEF Ends
<1>13. ASSUME NEW p \in Procs, Marks(p) PROVE TornOK' BY <1>13 DEF Marks
<1>14. ASSUME NEW p \in Procs, Stops(p) PROVE TornOK' BY <1>14 DEF Stops
<1>15. ASSUME NEW p \in Procs, IsStopped(p) PROVE TornOK' BY <1>15 DEF IsStopped
<1>16. ASSUME NEW p \in Procs, BeginsCopy(p) PROVE TornOK' BY <1>16 DEF BeginsCopy
<1>17. ASSUME NEW p \in Procs, Copies(p) PROVE TornOK' BY <1>17 DEF Copies
<1>18. ASSUME NEW p \in Procs, Restarts(p) PROVE TornOK' BY <1>18 DEF Restarts
<1>19. ASSUME NEW p \in Procs, IsRestarted(p) PROVE TornOK' BY <1>19 DEF IsRestarted
<1>20. ASSUME NEW p \in Procs, Checks(p) PROVE TornOK' BY <1>20 DEF Checks
<1>21. ASSUME NEW p \in Procs, Saves(p) PROVE TornOK' BY <1>21 DEF Saves
<1>22. ASSUME NEW p \in Procs, Enqueues(p) PROVE TornOK' BY <1>22 DEF Enqueues
<1>23. ASSUME NEW p \in Procs, Undefines(p) PROVE TornOK' BY <1>23 DEF Undefines, Undefine
<1>24. ASSUME NEW p \in Procs, Removes(p) PROVE TornOK' BY <1>24 DEF Removes
<1> QED BY <1>1, <1>2, <1>3, <1>4, <1>5, <1>6, <1>7, <1>8, <1>9, <1>10, <1>11, <1>12,
           <1>13, <1>14, <1>15, <1>16, <1>17, <1>18, <1>19, <1>20, <1>21, <1>22, <1>23,
           <1>24 DEF Effect

(* A registration that passes the check after another, or while a row has the
   path, finds it: rivals in "save", rows in Taken. *)
LEMMA RegisteredStep == IInv /\ Effect => Registered'
<1> SUFFICES ASSUME IInv, Effect PROVE Registered'
  OBVIOUS
<1> USE NoVmAssumption, ImagesAssumption
        DEF Unhurt, Leaves, Enters, libvirt, power, rows, store, broker, job, history,
            Begin, End, Step, Idle, Others, NotPower, NotPowerButDom,
            IInv, Registered, TypeOK, JobsOK, Owned, ImageSteps, Taken,
            MarkSteps
<1>1. ASSUME NEW v \in Vms, GenerateKubeImage(v) PROVE Registered'
  BY <1>1 DEF GenerateKubeImage
<1>2. ASSUME NEW v \in Vms, ScriptStops(v) PROVE Registered' BY <1>2 DEF ScriptStops
<1>3. ASSUME NEW v \in Vms, GuestPowersOff(v) PROVE Registered'
  BY <1>3 DEF GuestPowersOff, PowerOff
<1>4. ASSUME NEW p \in Procs, NEW v \in Vms, NEW s \in {"start", "stop", "end_row"},
             TakesMachine(p, v, s)
      PROVE  Registered'
  BY <1>4 DEF TakesMachine
<1>5. ASSUME NEW p \in Procs, NEW i \in Images, NEW v \in Vms, PreparesUserImage(p, i, v)
      PROVE  Registered'
  BY <1>5 DEF PreparesUserImage, Prepare
<1>6. ASSUME NEW p \in Procs, NEW i \in Images, NEW v \in Vms, PreparesKubeImage(p, i, v)
      PROVE  Registered'
  BY <1>6 DEF PreparesKubeImage, RegisterKubeImage, Prepare
<1>7. ASSUME NEW p \in Procs, NEW i \in Images, Registers(p, i) PROVE Registered'
  BY <1>7 DEF Registers, RegisterGuestImage, Prepare
<1>8. ASSUME NEW p \in Procs, NEW i \in Images, TakesImage(p, i) PROVE Registered'
  BY <1>8 DEF TakesImage
<1>9. ASSUME NEW p \in Procs, Boots(p) PROVE Registered' BY <1>9 DEF Boots, Boot, Goto
<1>10. ASSUME NEW p \in Procs, CallGoes(p) PROVE Registered' BY <1>10 DEF CallGoes, Goto
<1>11. ASSUME NEW p \in Procs, CallEnds(p) PROVE Registered'
  BY <1>11 DEF CallEnds, Leave, AutostartOn
<1>12. ASSUME NEW p \in Procs, Ends(p) PROVE Registered' BY <1>12 DEF Ends
<1>13. ASSUME NEW p \in Procs, Marks(p) PROVE Registered' BY <1>13 DEF Marks
<1>14. ASSUME NEW p \in Procs, Stops(p) PROVE Registered' BY <1>14 DEF Stops
<1>15. ASSUME NEW p \in Procs, IsStopped(p) PROVE Registered' BY <1>15 DEF IsStopped
<1>16. ASSUME NEW p \in Procs, BeginsCopy(p) PROVE Registered' BY <1>16 DEF BeginsCopy
<1>17. ASSUME NEW p \in Procs, Copies(p) PROVE Registered' BY <1>17 DEF Copies
<1>18. ASSUME NEW p \in Procs, Restarts(p) PROVE Registered' BY <1>18 DEF Restarts
<1>19. ASSUME NEW p \in Procs, IsRestarted(p) PROVE Registered' BY <1>19 DEF IsRestarted
<1>20. ASSUME NEW p \in Procs, Checks(p) PROVE Registered'
  <2> DEFINE f == target[img[p]]
             rivals == {img[q] : q \in {r \in Procs \ {p} : step[r] = "save" /\ target[img[r]] = f}}
  <2>1. /\ ~Taken(f)
        /\ crossed' = IF rivals = {} THEN crossed ELSE crossed \cup rivals \cup {img[p]}
        /\ step' = [step EXCEPT ![p] = "save"]
        /\ UNCHANGED <<img, imgRow, target>>
    BY <1>20 DEF Checks
  <2>2. \A i \in Images : ~(imgRow[i] = "AVAILABLE" /\ target[i] = f)
    BY <2>1 DEF Taken
  <2>3. ASSUME NEW q \in Procs \ {p}, step[q] = "save", target[img[q]] = f
        PROVE  {img[p], img[q]} \subseteq crossed'
    <3>1. img[q] \in rivals
      BY <2>3
    <3> QED BY <2>1, <3>1
  <2>4. crossed \subseteq crossed'
    BY <2>1
  <2> HIDE DEF rivals
  <2>5. ASSUME NEW a \in Procs, step'[a] = "save"
        PROVE  /\ \A i \in Images : imgRow[i] = "AVAILABLE" /\ target[i] = target[img[a]] =>
                    {i, img[a]} \subseteq crossed'
               /\ \A q \in Procs \ {a} : step'[q] = "save" /\ target[img[q]] = target[img[a]] =>
                    {img[a], img[q]} \subseteq crossed'
    <3>1. CASE a = p
      BY <2>1, <2>2, <2>3, <3>1
    <3>2. CASE a # p
      <4>1. step[a] = "save"
        BY <2>1, <2>5, <3>2
      <4>2. \A i \in Images : imgRow[i] = "AVAILABLE" /\ target[i] = target[img[a]] =>
                    {i, img[a]} \subseteq crossed'
        BY <2>4, <4>1
      <4>3. ASSUME NEW q \in Procs \ {a}, step'[q] = "save", target[img[q]] = target[img[a]]
            PROVE  {img[a], img[q]} \subseteq crossed'
        <5>1. CASE q = p
          BY <2>3, <3>2, <4>1, <4>3, <5>1
        <5>2. CASE q # p
          BY <2>1, <2>4, <4>1, <4>3, <5>2
        <5> QED BY <5>1, <5>2
      <4> QED BY <4>2, <4>3
    <3> QED BY <3>1, <3>2
  <2> QED BY <2>1, <2>5
<1>21. ASSUME NEW p \in Procs, Saves(p) PROVE Registered' BY <1>21 DEF Saves
<1>22. ASSUME NEW p \in Procs, Enqueues(p) PROVE Registered' BY <1>22 DEF Enqueues
<1>23. ASSUME NEW p \in Procs, Undefines(p) PROVE Registered'
  BY <1>23 DEF Undefines, Undefine
<1>24. ASSUME NEW p \in Procs, Removes(p) PROVE Registered' BY <1>24 DEF Removes
<1> QED BY <1>1, <1>2, <1>3, <1>4, <1>5, <1>6, <1>7, <1>8, <1>9, <1>10, <1>11, <1>12,
           <1>13, <1>14, <1>15, <1>16, <1>17, <1>18, <1>19, <1>20, <1>21, <1>22, <1>23,
           <1>24 DEF Effect

(* So two rows of one path were in "save" together. *)
LEMMA OneImagePerFileStep == IInv /\ Effect => OneImagePerFile'
<1> SUFFICES ASSUME IInv, Effect PROVE OneImagePerFile'
  OBVIOUS
<1> USE NoVmAssumption, ImagesAssumption
        DEF Unhurt, Leaves, Enters, libvirt, power, rows, store, broker, job, history,
            Begin, End, Step, Idle, Others, NotPower, NotPowerButDom,
            IInv, OneImagePerFile, TypeOK, JobsOK, Owned, Registered,
            ImageSteps, MarkSteps
<1>1. ASSUME NEW v \in Vms, GenerateKubeImage(v) PROVE OneImagePerFile'
  BY <1>1 DEF GenerateKubeImage
<1>2. ASSUME NEW v \in Vms, ScriptStops(v) PROVE OneImagePerFile' BY <1>2 DEF ScriptStops
<1>3. ASSUME NEW v \in Vms, GuestPowersOff(v) PROVE OneImagePerFile'
  BY <1>3 DEF GuestPowersOff, PowerOff
<1>4. ASSUME NEW p \in Procs, NEW v \in Vms, NEW s \in {"start", "stop", "end_row"},
             TakesMachine(p, v, s)
      PROVE  OneImagePerFile'
  BY <1>4 DEF TakesMachine
<1>5. ASSUME NEW p \in Procs, NEW i \in Images, NEW v \in Vms, PreparesUserImage(p, i, v)
      PROVE  OneImagePerFile'
  BY <1>5 DEF PreparesUserImage, Prepare
<1>6. ASSUME NEW p \in Procs, NEW i \in Images, NEW v \in Vms, PreparesKubeImage(p, i, v)
      PROVE  OneImagePerFile'
  BY <1>6 DEF PreparesKubeImage, RegisterKubeImage, Prepare
<1>7. ASSUME NEW p \in Procs, NEW i \in Images, Registers(p, i) PROVE OneImagePerFile'
  BY <1>7 DEF Registers, RegisterGuestImage, Prepare
<1>8. ASSUME NEW p \in Procs, NEW i \in Images, TakesImage(p, i) PROVE OneImagePerFile'
  BY <1>8 DEF TakesImage
<1>9. ASSUME NEW p \in Procs, Boots(p) PROVE OneImagePerFile' BY <1>9 DEF Boots, Boot, Goto
<1>10. ASSUME NEW p \in Procs, CallGoes(p) PROVE OneImagePerFile'
  BY <1>10 DEF CallGoes, Goto
<1>11. ASSUME NEW p \in Procs, CallEnds(p) PROVE OneImagePerFile'
  BY <1>11 DEF CallEnds, Leave, AutostartOn
<1>12. ASSUME NEW p \in Procs, Ends(p) PROVE OneImagePerFile' BY <1>12 DEF Ends
<1>13. ASSUME NEW p \in Procs, Marks(p) PROVE OneImagePerFile' BY <1>13 DEF Marks
<1>14. ASSUME NEW p \in Procs, Stops(p) PROVE OneImagePerFile' BY <1>14 DEF Stops
<1>15. ASSUME NEW p \in Procs, IsStopped(p) PROVE OneImagePerFile' BY <1>15 DEF IsStopped
<1>16. ASSUME NEW p \in Procs, BeginsCopy(p) PROVE OneImagePerFile' BY <1>16 DEF BeginsCopy
<1>17. ASSUME NEW p \in Procs, Copies(p) PROVE OneImagePerFile' BY <1>17 DEF Copies
<1>18. ASSUME NEW p \in Procs, Restarts(p) PROVE OneImagePerFile' BY <1>18 DEF Restarts
<1>19. ASSUME NEW p \in Procs, IsRestarted(p) PROVE OneImagePerFile'
  BY <1>19 DEF IsRestarted
<1>20. ASSUME NEW p \in Procs, Checks(p) PROVE OneImagePerFile' BY <1>20 DEF Checks
<1>21. ASSUME NEW p \in Procs, Saves(p) PROVE OneImagePerFile' BY <1>21 DEF Saves
<1>22. ASSUME NEW p \in Procs, Enqueues(p) PROVE OneImagePerFile' BY <1>22 DEF Enqueues
<1>23. ASSUME NEW p \in Procs, Undefines(p) PROVE OneImagePerFile'
  BY <1>23 DEF Undefines, Undefine
<1>24. ASSUME NEW p \in Procs, Removes(p) PROVE OneImagePerFile' BY <1>24 DEF Removes
<1> QED BY <1>1, <1>2, <1>3, <1>4, <1>5, <1>6, <1>7, <1>8, <1>9, <1>10, <1>11, <1>12,
           <1>13, <1>14, <1>15, <1>16, <1>17, <1>18, <1>19, <1>20, <1>21, <1>22, <1>23,
           <1>24 DEF Effect

-----------------------------------------------------------------------------
(* Nobody has a job, no image is begun. *)
LEMMA InitInv == Init => IInv
<1> SUFFICES ASSUME Init PROVE IInv
  OBVIOUS
<1> USE NoVmAssumption, ImagesAssumption, ForceStopTimeAssumption DEF Init, PowerInit
<1>1. TypeOK
  BY DEF TypeOK, PowerTypeOK, LibvirtTypeOK, PowerLabels, Steps
<1>2. JobsOK /\ CallsOK
  BY DEF JobsOK, CallsOK, ImageSteps, MarkSteps, DomainSteps, EndSteps, StopSteps
<1>3. Owned /\ FilesOK
  BY DEF Owned, FilesOK
<1>4. Alone /\ Quiet /\ TornOK
  BY DEF Alone, Quiet, TornOK
<1>5. Unborn
  BY DEF Unborn, Known
<1>6. Registered /\ OneImagePerFile
  BY DEF Registered, OneImagePerFile
<1> QED BY <1>1, <1>2, <1>3, <1>4, <1>5, <1>6 DEF IInv

(* A step of somebody else. *)
LEMMA StutterInv == IInv /\ UNCHANGED vars => IInv'
<1> SUFFICES ASSUME IInv, UNCHANGED vars PROVE IInv'
  OBVIOUS
<1> USE DEF vars, libvirt, power, rows, store, broker, job, history
<1>1. TypeOK'
  BY DEF IInv, TypeOK, PowerTypeOK, LibvirtTypeOK
<1>2. JobsOK' /\ CallsOK'
  BY DEF IInv, JobsOK, CallsOK
<1>3. Owned' /\ FilesOK'
  BY DEF IInv, Owned, FilesOK
<1>4. Alone' /\ TornOK' /\ Unborn'
  BY DEF IInv, Alone, TornOK, Unborn, Known
<1>5. Quiet'
  BY DEF IInv, Quiet, Off, Restored
<1>6. Registered' /\ OneImagePerFile'
  BY DEF IInv, Registered, OneImagePerFile
<1> QED BY <1>1, <1>2, <1>3, <1>4, <1>5, <1>6 DEF IInv

(* Every effect keeps every part. *)
LEMMA InvStep == IInv /\ [Next]_vars => IInv'
<1> SUFFICES ASSUME IInv, Next PROVE IInv'
  BY StutterInv
<1>0. Effect
  BY EffectStep
<1>1. TypeOK'
  BY <1>0, PowerTypeOKStep, RowsOKStep, ProcsOKStep DEF TypeOK, RowsOK, ProcsOK
<1>2. JobsOK' /\ CallsOK'
  BY <1>0, JobsOKStep, CallsOKStep
<1>3. Owned' /\ FilesOK'
  BY <1>0, OwnedStep, FilesOKStep
<1>4. Alone' /\ TornOK' /\ Unborn'
  BY <1>0, AloneStep, TornOKStep, UnbornStep
<1>5. Quiet'
  BY <1>0, QuietStep
<1>6. Registered' /\ OneImagePerFile'
  BY <1>0, RegisteredStep, OneImagePerFileStep
<1> QED BY <1>1, <1>2, <1>3, <1>4, <1>5, <1>6 DEF IInv

(* IInv is an inductive invariant. *)
THEOREM Invariant == Spec => []IInv
<1> QED BY InitInv, InvStep, PTL DEF Spec

-----------------------------------------------------------------------------
(* Every variable keeps to its values, and a process is inside a call of VmPower
   only in a step that made one. *)
THEOREM TypeCorrect == Spec => []TypeOK
<1>1. IInv => TypeOK
  BY DEF IInv
<1> QED BY Invariant, <1>1, PTL

(* An image of a VM that _register_image made AVAILABLE is the whole, cleaned copy
   of its disk, and nobody wrote to that disk while qemu-img copied it unless two
   jobs overlapped on the machine, for any number of requests, kills and faults. *)
THEOREM ImagesAreWhole == Spec => []ImageIsWhole
<1>1. IInv => ImageIsWhole
  BY DEF IInv, ImageIsWhole, FilesOK, TornOK
<1> QED BY Invariant, <1>1, PTL

(* A launch, whose get_image_from_id never looks at the state of the image, copies
   no image that is being made, and of the images of VMs whole, cleaned copies only,
   those among them whose last save failed and was made up for by the handler's. *)
THEOREM LaunchesCopyWhole == Spec => []CopyableIsWhole
<1>1. IInv => CopyableIsWhole
  BY DEF IInv, CopyableIsWhole, Copyable, Owned, FilesOK
<1> QED BY Invariant, <1>1, PTL

(* _register_image registers a path twice only when two registrations of it cross
   between the check and the save. *)
THEOREM PathsAreNotShared == Spec => []OneImagePerFile
<1>1. IInv => OneImagePerFile
  BY DEF IInv
<1> QED BY Invariant, <1>1, PTL

(* The row of an image is created once and decided once, by the process that
   makes the image; AVAILABLE is what _register_image saves last. *)
LEMMA RowStep ==
  ASSUME IInv, [Next]_vars, NEW i \in Images
  PROVE  \/ imgRow'[i] = imgRow[i]
         \/ imgRow[i] = "none" /\ imgRow'[i] = "CREATING"
         \/ /\ imgRow[i] = "CREATING"
            /\ \/ imgRow'[i] = "ERROR"
               \/ /\ imgRow'[i] = "AVAILABLE"
                  /\ \E p \in Procs : step[p] = "save" /\ img[p] = i
<1> USE DEF IInv
<1>1. CASE UNCHANGED vars
  BY <1>1 DEF vars, rows
<1>2. CASE Next
  <2>1. imgRow \in [Images -> {"none", "CREATING", "AVAILABLE", "ERROR"}]
    BY DEF TypeOK
  <2>2. \/ UNCHANGED imgRow
        \/ \E j \in Images : Prepare(j, target'[j])
        \/ \E p \in Procs : Saves(p)
    <3> Effect
      BY <1>2, EffectStep
    <3> USE DEF rows, store, broker, job, history, libvirt, power, Unhurt
    <3>1. ASSUME NEW v \in Vms, GenerateKubeImage(v) \/ ScriptStops(v) \/ GuestPowersOff(v)
          PROVE  UNCHANGED imgRow
      BY <3>1 DEF GenerateKubeImage, ScriptStops, GuestPowersOff
    <3>2. ASSUME NEW p \in Procs, NEW v \in Vms, NEW s, TakesMachine(p, v, s)
          PROVE  UNCHANGED imgRow
      BY <3>2 DEF TakesMachine
    <3>3. ASSUME NEW p \in Procs, NEW j \in Images, NEW v \in Vms,
                 PreparesUserImage(p, j, v) \/ PreparesKubeImage(p, j, v)
          PROVE  Prepare(j, target'[j])
      BY <3>3 DEF PreparesUserImage, PreparesKubeImage, RegisterKubeImage, Prepare, TypeOK
    <3>4. ASSUME NEW p \in Procs, NEW j \in Images, Registers(p, j)
          PROVE  Prepare(j, target'[j])
      BY <3>4 DEF Registers, RegisterGuestImage, Prepare, TypeOK
    <3>5. ASSUME NEW p \in Procs, NEW j \in Images, TakesImage(p, j)
          PROVE  UNCHANGED imgRow
      BY <3>5 DEF TakesImage
    <3>6. ASSUME NEW p \in Procs,
                 \/ Boots(p) \/ CallGoes(p) \/ CallEnds(p) \/ Ends(p) \/ Marks(p)
                 \/ Stops(p) \/ IsStopped(p) \/ BeginsCopy(p) \/ Copies(p) \/ Restarts(p)
          PROVE  UNCHANGED imgRow
      BY <3>6 DEF Boots, CallGoes, CallEnds, Ends, Marks, Stops, IsStopped, BeginsCopy,
                  Copies, Restarts
    <3>7. ASSUME NEW p \in Procs,
                 IsRestarted(p) \/ Checks(p) \/ Enqueues(p) \/ Undefines(p) \/ Removes(p)
          PROVE  UNCHANGED imgRow
      BY <3>7 DEF IsRestarted, Checks, Enqueues, Undefines, Removes
    <3> QED BY <3>1, <3>2, <3>3, <3>4, <3>5, <3>6, <3>7 DEF Effect
  <2>3. ASSUME NEW p \in Procs, Saves(p)
        PROVE  \/ imgRow'[i] = imgRow[i]
               \/ /\ imgRow[i] = "CREATING"
                  /\ \/ imgRow'[i] = "ERROR"
                     \/ imgRow'[i] = "AVAILABLE" /\ step[p] = "save" /\ img[p] = i
    <3>1. img[p] \in Images /\ img[p] # NoImage
      BY <2>3, ImagesAssumption DEF Saves, JobsOK, ImageSteps, MarkSteps
    <3>2. imgRow[img[p]] = "CREATING"
      BY <3>1 DEF Owned
    <3> QED BY <2>1, <2>3, <3>1, <3>2 DEF Saves
  <2> QED BY <2>1, <2>2, <2>3 DEF Prepare
<1> QED BY <1>1, <1>2

(* No late step of another job and no failed attempt takes an image back from
   AVAILABLE or ERROR. *)
THEOREM DecisionsAreFinal == Spec => ImageStateIsFinal
<1> DEFINE Kept ==
  \A i \in Images : imgRow[i] \in {"AVAILABLE", "ERROR"} => imgRow'[i] = imgRow[i]
<1>1. IInv /\ [Next]_vars => [Kept]_vars
  BY RowStep
<1> QED BY Invariant, <1>1, PTL DEF Spec, ImageStateIsFinal

(* terminate_instance takes the disk of a machine that was launched to become an
   image only after create_virtual_machine_image has the whole copy of it. *)
THEOREM DiskIsCopiedFirst == Spec => DiskOutlivesCopy
<1> DEFINE Copied ==
  \A p \in ephemeral :
       step[p] = "remove" /\ dom[p] \in disks \ disks' =>
         file[img[p]] = "copied" /\ (img[p] \in torn => img[p] \in meddled)
<1>1. IInv => \A p \in ephemeral : step[p] = "remove" =>
                 file[img[p]] = "copied" /\ (img[p] \in torn => img[p] \in meddled)
  BY ImagesAssumption DEF IInv, TypeOK, JobsOK, FilesOK, TornOK, EndSteps
<1>2. IInv /\ [Next]_vars => [Copied]_vars
  BY <1>1
<1> QED BY Invariant, <1>2, PTL DEF Spec, DiskOutlivesCopy

(* create_virtual_machine_image terminates the machines that were launched with
   terminate_after_creation in view, whose script has reported, and no other. *)
THEOREM ImagesKeepMachines == Spec => MachineOutlivesImage
<1> DEFINE Kept ==
  \A v \in (vmRows \ vmRows') \cup (disks \ disks') :
       \/ script[v] = "posted"
       \/ \E p \in Procs : step[p] = "remove" /\ dom[p] = v /\ img[p] = NoImage
<1>1. ASSUME IInv, Next PROVE Kept
  <2>1. ASSUME NEW p \in Procs, Removes(p) PROVE Kept
    <3>1. img[p] # NoImage => script[dom[p]] = "posted"
      BY <1>1, <2>1 DEF IInv, JobsOK, EndSteps, Removes
    <3> QED BY <2>1, <3>1 DEF Removes
  <2>2. ASSUME NEW v \in Vms, GenerateKubeImage(v) PROVE Kept
    BY <2>2 DEF GenerateKubeImage
  <2>3. ASSUME UNCHANGED <<vmRows, disks>> PROVE Kept
    BY <2>3
  <2>4. Effect
    BY <1>1, EffectStep
  <2> HIDE DEF Kept
  <2> USE DEF Unhurt, store
  <2> QED BY <2>1, <2>2, <2>3, <2>4
          DEF Effect, ScriptStops, GuestPowersOff, TakesMachine, PreparesUserImage,
              PreparesKubeImage, RegisterKubeImage, Registers, RegisterGuestImage,
              TakesImage, Boots, CallGoes, CallEnds, Ends, Marks, Stops, IsStopped,
              BeginsCopy, Copies, Restarts, IsRestarted, Checks, Saves, Enqueues,
              Undefines
<1>2. IInv /\ [Next]_vars => [Kept]_vars
  BY <1>1
<1> QED BY Invariant, <1>2, PTL DEF Spec, MachineOutlivesImage

(* When an image becomes AVAILABLE, its machine is as before_state says: off, or
   started by create_virtual_machine_image with its autostart, if nobody else had
   the machine meanwhile. *)
THEOREM SourceIsRestored == Spec => SourceRestored
<1> DEFINE AsBefore ==
  \A p \in Procs : LET i == img[p] IN
       /\ dom[p] # NoVm /\ i \notin meddled /\ p \notin ephemeral
       /\ i # NoImage /\ imgRow'[i] = "AVAILABLE" /\ imgRow[i] # "AVAILABLE"
       => Restored(p)
<1>1. ASSUME IInv, [Next]_vars, NEW p \in Procs,
             dom[p] # NoVm, img[p] \notin meddled, p \notin ephemeral,
             img[p] # NoImage, imgRow'[img[p]] = "AVAILABLE", imgRow[img[p]] # "AVAILABLE"
      PROVE  Restored(p)
  <2>1. img[p] \in Images
    BY <1>1 DEF IInv, TypeOK
  <2>2. PICK q \in Procs : step[q] = "save" /\ img[q] = img[p]
    BY <1>1, <2>1, RowStep
  <2>3. q = p
    BY <1>1, <2>2 DEF IInv, Owned
  <2> QED BY <1>1, <2>2, <2>3 DEF IInv, Quiet, LastSteps
<1>2. IInv /\ [Next]_vars => [AsBefore]_vars
  BY <1>1
<1> QED BY Invariant, <1>2, PTL DEF Spec, SourceRestored
=============================================================================
