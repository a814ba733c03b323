------------------------------- MODULE VmPower -------------------------------
(***************************************************************************)
(* VirtualMachineInstance.start() and stop() (vmmanager/vm_instance.py),   *)
(* one libvirt call per step, as subroutines on the domain the process     *)
(* holds a handle of: a caller enters with CallStart or CallStop, the call *)
(* runs beside those of other processes and beside the guests, and ends at *)
(* "returned" or "raised", which the caller takes with Collect.            *)
(***************************************************************************)
EXTENDS Libvirt, Naturals

CONSTANTS Procs,          \* processes that may call libvirt
          ForceStopTime,  \* vm_force_stop_time: rounds before destroy()
          Faults,         \* which calls to the outside may fail
          NoVm

ASSUME ForceStopTimeAssumption == ForceStopTime \in Nat \ {0}
ASSUME NoVmAssumption == NoVm \notin Vms

VARIABLES at,       \* where each process is in start() or stop(); "out" of them
          dom,      \* the domain it works on
          patient,  \* processes in stop(wait=True)
          waited    \* seconds_waited

power == <<at, dom, patient, waited>>

PowerLabels == {"out", "start", "create", "autostart", "stop", "stop_autostart",
                "loop", "shutdown", "destroy", "returned", "raised"}

PowerTypeOK == /\ LibvirtTypeOK
               /\ at \in [Procs -> PowerLabels]
               /\ dom \in [Procs -> Vms \cup {NoVm}]
               /\ patient \subseteq Procs
               /\ waited \in [Procs -> 0..ForceStopTime]
               /\ \A p \in Procs : at[p] # "out" => dom[p] # NoVm

(* These machines have been launched; those that are up were started. *)
PowerInit(launched) ==
             /\ defined = launched
             /\ active \in SUBSET launched
             /\ autostart = active
             /\ at = [p \in Procs |-> "out"]
             /\ dom = [p \in Procs |-> NoVm]
             /\ patient = {}
             /\ waited = [p \in Procs |-> 0]

-----------------------------------------------------------------------------
(* "dom" is the caller's to set. *)
Enter(p, l) == /\ at[p] = "out"
               /\ at' = [at EXCEPT ![p] = l]
               /\ UNCHANGED waited

CallStart(p) == Enter(p, "start") /\ UNCHANGED patient
CallStop(p)  == Enter(p, "stop") /\ patient' = patient \cup {p}
CallStopNoWait(p) == Enter(p, "stop") /\ UNCHANGED patient

Goto(p, l) == /\ at' = [at EXCEPT ![p] = l]
              /\ UNCHANGED <<dom, patient, waited>>

Leave(p, how) == /\ at' = [at EXCEPT ![p] = how]
                 /\ waited' = [waited EXCEPT ![p] = 0]
                 /\ patient' = patient \ {p}
                 /\ UNCHANGED dom

Collect(p, how) == /\ at[p] = how
                   /\ at' = [at EXCEPT ![p] = "out"]
                   /\ UNCHANGED <<patient, waited>>

(* get_state(), of machines that nobody pauses or suspends *)
GetState(v) == IF v \in active THEN "running" ELSE "shutoff"

-----------------------------------------------------------------------------
(* start() *)

(* isActive(): a running domain is left as it is, whatever its autostart. *)
StartIsActive(p) ==
  /\ at[p] = "start"
  /\ \/ dom[p] \in active /\ Leave(p, "returned")
     \/ ShutOff(dom[p]) /\ Goto(p, "create")
     \/ ~Known(dom[p]) /\ Leave(p, "raised")
  /\ UNCHANGED libvirt

StartCreate(p) ==
  /\ at[p] = "create"
  /\ \/ Boot(dom[p]) /\ Goto(p, "autostart")
     \/ /\ ~ShutOff(dom[p]) \/ "boot" \in Faults
        /\ Leave(p, "raised")
        /\ UNCHANGED libvirt

StartAutostart(p) ==
  /\ at[p] = "autostart"
  /\ \/ AutostartOn(dom[p]) /\ Leave(p, "returned")
     \/ dom[p] \notin defined /\ Leave(p, "raised") /\ UNCHANGED libvirt

-----------------------------------------------------------------------------
(* stop() *)

StopIsActive(p) ==
  /\ at[p] = "stop"
  /\ \/ dom[p] \in active /\ Goto(p, "stop_autostart")
     \/ ShutOff(dom[p]) /\ Leave(p, "returned")
     \/ ~Known(dom[p]) /\ Leave(p, "raised")
  /\ UNCHANGED libvirt

StopAutostart(p) ==
  /\ at[p] = "stop_autostart"
  /\ \/ AutostartOff(dom[p]) /\ Goto(p, "loop")
     \/ dom[p] \notin defined /\ Leave(p, "raised") /\ UNCHANGED libvirt

StopLoop(p) ==
  /\ at[p] = "loop"
  /\ \/ dom[p] \in active /\ Goto(p, "shutdown")
     \/ ShutOff(dom[p]) /\ Leave(p, "returned")
     \/ ~Known(dom[p]) /\ Leave(p, "raised")
  /\ UNCHANGED libvirt

(* VIR_ERR_OPERATION_INVALID: the domain is not running, which is the aim.
   Any other error is raised again. *)
NotRunning(p) == Leave(p, IF ShutOff(dom[p]) THEN "returned" ELSE "raised")

(* ">" for ">=" in the comparison with ForceStopTime. *)
StopShutdown_LateForce(p) ==
  LET seconds == waited[p] + 1 IN
  /\ at[p] = "shutdown"
  /\ \/ dom[p] \notin active /\ NotRunning(p)
     \/ dom[p] \in active /\ p \notin patient /\ Leave(p, "returned")
     \/ /\ dom[p] \in active /\ p \in patient
        /\ waited' = [waited EXCEPT ![p] = seconds]
        /\ at' = [at EXCEPT ![p] = IF seconds > ForceStopTime THEN "destroy" ELSE "loop"]
        /\ UNCHANGED <<dom, patient>>
  /\ UNCHANGED libvirt


(* shutdown() asks the guest, sleeps a second and counts it; the count stays
   at ForceStopTime, all comparisons with it being the same from there on. *)
StopShutdown(p) ==
  LET seconds == IF waited[p] < ForceStopTime THEN waited[p] + 1 ELSE waited[p] IN
  /\ at[p] = "shutdown"
  /\ \/ dom[p] \notin active /\ NotRunning(p)
     \/ dom[p] \in active /\ p \notin patient /\ Leave(p, "returned")
     \/ /\ dom[p] \in active /\ p \in patient
        /\ waited' = [waited EXCEPT ![p] = seconds]
        /\ at' = [at EXCEPT ![p] = IF seconds >= ForceStopTime THEN "destroy" ELSE "loop"]
        /\ UNCHANGED <<dom, patient>>
  /\ UNCHANGED libvirt

StopDestroy(p) ==
  /\ at[p] = "destroy"
  /\ \/ PowerOff(dom[p]) /\ Goto(p, "loop")
     \/ dom[p] \notin active /\ NotRunning(p) /\ UNCHANGED libvirt

-----------------------------------------------------------------------------
(* Every step of a call but StartCreate, which the composition needs apart. *)
PowerStep(p) == \/ StartIsActive(p) \/ StartAutostart(p)
                \/ StopIsActive(p) \/ StopAutostart(p) \/ StopLoop(p)
                \/ StopShutdown(p) \/ StopDestroy(p)
=============================================================================
