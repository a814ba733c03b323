----------------------------- MODULE VmContract ------------------------------
(***************************************************************************)
(* What a client may count on: the life of a VM as the answers of the API  *)
(* tell it, without rows, files, domains or processes.  VmLifecycle        *)
(* implements it (VmLifecycle!ImplementsContract).                         *)
(***************************************************************************)
CONSTANT Vms

VARIABLES phase,  \* of each VM: see Phases
          asked   \* VMs whose termination somebody asked for

(* "failed": create_vm raised or its worker died; "up": create_vm has answered
   and every record of the VM is there; "ending": some are missing; "gone": all. *)
Phases == {"new", "launching", "failed", "up", "ending", "gone"}

TypeOK == phase \in [Vms -> Phases] /\ asked \subseteq Vms

Init == /\ phase = [v \in Vms |-> "new"]
        /\ asked = {}

Move(v, from, to) == /\ phase[v] = from
                     /\ phase' = [phase EXCEPT ![v] = to]
                     /\ UNCHANGED asked

Launch(v) == Move(v, "new", "launching")
LaunchSucceeds(v) == Move(v, "launching", "up")
LaunchFails(v) == Move(v, "launching", "failed")

(* Only a VM whose termination was asked for loses records, also one that is
   still being launched. *)
LaunchOvertaken(v) == /\ v \in asked
                      /\ \E to \in {"ending", "gone"} : Move(v, "launching", to)
End(v) == /\ v \in asked
          /\ \/ \E to \in {"ending", "gone"} : Move(v, "up", to)
             \/ Move(v, "ending", "gone")

Terminate(v) == /\ asked' = asked \cup {v}
                /\ UNCHANGED phase

Next == \E v \in Vms : \/ Launch(v) \/ LaunchSucceeds(v) \/ LaunchFails(v)
                       \/ LaunchOvertaken(v) \/ End(v) \/ Terminate(v)

Spec == Init /\ [][Next]_<<phase, asked>>
=============================================================================
