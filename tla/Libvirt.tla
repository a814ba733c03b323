------------------------------- MODULE Libvirt -------------------------------
(***************************************************************************)
(* The part of libvirt that echome drives through vmmanager/vm_instance.py. *)
(* libvirt is an external service; this module says what each call does to *)
(* a domain, as far as the callers can tell.  A domain is named after the  *)
(* virtual machine's instance id, so a domain is identified with its VM.   *)
(*                                                                         *)
(* A persistent domain is in "defined".  A running domain is in "active".  *)
(* Undefining a running domain does not stop it: it becomes transient      *)
(* (active, not defined) and disappears when it powers off.                *)
(***************************************************************************)
CONSTANT Vms

VARIABLES defined,    \* domains with a persistent configuration
          active,     \* domains that are running
          autostart   \* domains libvirtd starts when the host boots

libvirt == <<defined, active, autostart>>

LibvirtTypeOK == /\ defined \subseteq Vms
                 /\ active \subseteq Vms
                 /\ autostart \subseteq defined

LibvirtInit == /\ defined = {}
               /\ active = {}
               /\ autostart = {}

(* lookupByName finds persistent and transient domains alike. *)
Known(v) == v \in defined \cup active

(* isActive() answers FALSE; on a vanished domain it raises instead. *)
ShutOff(v) == v \in defined \ active

DefineXML(v) == /\ defined' = defined \cup {v}
                /\ UNCHANGED <<active, autostart>>

(* create() boots a persistent domain that is not running. *)
Boot(v) == /\ ShutOff(v)
           /\ active' = active \cup {v}
           /\ UNCHANGED <<defined, autostart>>

(* The guest powers off, by itself or through destroy(). *)
PowerOff(v) == /\ v \in active
               /\ active' = active \ {v}
               /\ UNCHANGED <<defined, autostart>>

Undefine(v) == /\ v \in defined
               /\ defined' = defined \ {v}
               /\ autostart' = autostart \ {v}
               /\ UNCHANGED active

(* setAutostart(1) and setAutostart(0): refused for a transient domain. *)
AutostartOn(v) == /\ v \in defined
                  /\ autostart' = autostart \cup {v}
                  /\ UNCHANGED <<defined, active>>

AutostartOff(v) == /\ v \in defined
                   /\ autostart' = autostart \ {v}
                   /\ UNCHANGED <<defined, active>>
=============================================================================
