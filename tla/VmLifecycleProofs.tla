-------------------------- MODULE VmLifecycleProofs --------------------------
(***************************************************************************)
(* Proofs about VmLifecycle, for any number of VMs and processes, whichever *)
(* processes clean up, crash or meet faults.                               *)
(*                                                                         *)
(* The argument: a launch is alone with its VM until it defines the domain,*)
(* because every other job first has to find the domain (Alone).  From     *)
(* then on a termination may run beside it, but past the undefine step the *)
(* domain is gone for good, since only a launch still alone defines one    *)
(* (PastUndefine).  So the pieces disappear only after the domain has, and *)
(* the volume before the row it hangs on.                                  *)
(***************************************************************************)
EXTENDS VmLifecycle, TLAPS

Early(p) == /\ job[p] = "launch"
            /\ pc[p] \in {"mkdir", "copy", "save_volume", "populate",
                          "attach", "define"}
Late(p) == /\ job[p] = "launch"
           /\ pc[p] \in {"check", "create", "autostart", "finish"}

(* A generated id is unknown everywhere. *)
Fresh == \A v \in Vms : response[v] = "none" =>
            /\ volRow[v] = "none" /\ v \notin linked
            /\ v \notin doomed /\ ~Known(v)
            /\ vmRow[v] = "none"
            /\ \A p \in Procs : arg[p] # v

OneLauncher == /\ \A p \in Procs : job[p] = "launch" =>
                     response[arg[p]] = "pending"
               /\ \A p, q \in Procs :
                     job[p] = "launch" /\ job[q] = "launch" /\ arg[p] = arg[q]
                       => p = q

Alone == \A p \in Procs : Early(p) =>
            /\ vmRow[arg[p]] = "CREATING"
            /\ ~Known(arg[p])
            /\ \A q \in Procs \ {p} :
                 arg[q] = arg[p] => pc[q] \in {"find_row", "find_domain"}

Pieces == \A p \in Procs : Early(p) =>
            /\ pc[p] \in {"save_volume", "populate", "attach", "define"} =>
                 files[arg[p]] = "disk"
            /\ pc[p] \in {"populate", "attach", "define"} => arg[p] \in linked
            /\ pc[p] = "define" => volRow[arg[p]] = "ATTACHED"

Doomed == /\ \A p \in Procs : job[p] = "terminate" => arg[p] \in doomed
          /\ \A v \in Vms : pending[v] > 0 => v \in doomed

PastUndefine == \A p \in Procs :
                  /\ pc[p] \in {"rmtree", "drop_volumes", "drop_vm"} =>
                       arg[p] \notin defined
                  /\ pc[p] = "drop_vm" => arg[p] \notin linked

(* What the end of a launch hands over, with and without a termination. *)
HandOver == \A p \in Procs : Late(p) =>
              LET v == arg[p] IN
              /\ v \in defined => vmRow[v] # "none" /\ files[v] = "disk"
              /\ volRow[v] # "none" => v \in linked
              /\ v \notin doomed => /\ v \in defined
                                    /\ volRow[v] = "ATTACHED"

IInv == /\ TypeOK
        /\ Fresh /\ OneLauncher /\ Alone /\ Pieces /\ Doomed
        /\ PastUndefine /\ HandOver
        /\ LaunchedIsWhole /\ DomainKeepsRecords /\ NoOrphanVolume

-----------------------------------------------------------------------------
(* Type correctness *)

(* No step takes a variable out of its type, or a process to a label that is
   not one of its job's. *)
LEMMA TypeStep == TypeOK /\ [Next]_vars => TypeOK'
<1> SUFFICES ASSUME TypeOK, [Next]_vars PROVE TypeOK'
  OBVIOUS
<1> USE ProcsAssumption, MaxPendingAssumption, NoVmAssumption
        DEF TypeOK, LibvirtTypeOK, Procs, Labels, Jobs, LabelsOf, LaunchLabels,
            StartLabels, TerminateLabels, TryLabels, CleanUpLabels,
            At, Begin, Goto, Return, Raise, Answer, StartContinue,
            libvirt, db, local, history
<1>1. CASE UNCHANGED vars
  BY <1>1 DEF vars
<1>2. ASSUME NEW p \in Procs, GenerateVmPath(p) PROVE TypeOK'
  BY <1>2 DEF GenerateVmPath
<1>3. ASSUME NEW p \in Procs, CopyImage(p) PROVE TypeOK'
  BY <1>3 DEF CopyImage
<1>4. ASSUME NEW p \in Procs, SaveVolume(p) PROVE TypeOK'
  BY <1>4 DEF SaveVolume
<1>5. ASSUME NEW p \in Procs, AddVirtualDisk(p) PROVE TypeOK'
  BY <1>5 DEF AddVirtualDisk
<1>6. ASSUME NEW p \in Procs, AttachVolume(p) PROVE TypeOK'
  BY <1>6 DEF AttachVolume
<1>7. ASSUME NEW p \in Procs, DefineDomain(p) PROVE TypeOK'
  BY <1>7 DEF DefineDomain, DefineXML
<1>8. ASSUME NEW p \in Procs, FinishVmDb(p) PROVE TypeOK'
  BY <1>8 DEF FinishVmDb
<1>9. ASSUME NEW p \in Procs, LaunchFails(p) PROVE TypeOK'
  BY <1>9 DEF LaunchFails
<1>10. ASSUME NEW p \in Procs, CheckActive(p) PROVE TypeOK'
  BY <1>10 DEF CheckActive
<1>11. ASSUME NEW p \in Procs, CreateDomain(p) PROVE TypeOK'
  BY <1>11 DEF CreateDomain, Boot, ShutOff
<1>12. ASSUME NEW p \in Procs, SetAutostart(p) PROVE TypeOK'
  BY <1>12 DEF SetAutostart, AutostartOn
<1>13. ASSUME NEW p \in Procs, CleanUpRow(p) PROVE TypeOK'
  BY <1>13 DEF CleanUpRow
<1>14. ASSUME NEW p \in Procs, CleanUpDir(p) PROVE TypeOK'
  BY <1>14 DEF CleanUpDir, RemoveFiles
<1>15. ASSUME NEW p \in Procs, CleanUpDisks(p) PROVE TypeOK'
  BY <1>15 DEF CleanUpDisks
<1>16. ASSUME NEW p \in Procs, FindRow(p) PROVE TypeOK'
  BY <1>16 DEF FindRow
<1>17. ASSUME NEW p \in Procs, FindDomain(p) PROVE TypeOK'
  BY <1>17 DEF FindDomain
<1>18. ASSUME NEW p \in Procs, StopInstance(p) PROVE TypeOK'
  BY <1>18 DEF StopInstance, AutostartOff, ShutOff
<1>19. ASSUME NEW p \in Procs, ForceOff(p) PROVE TypeOK'
  BY <1>19 DEF ForceOff, PowerOff
<1>20. ASSUME NEW p \in Procs, Stopped(p) PROVE TypeOK'
  BY <1>20 DEF Stopped
<1>21. ASSUME NEW p \in Procs, UndefineDomain(p) PROVE TypeOK'
  BY <1>21 DEF UndefineDomain, Undefine
<1>22. ASSUME NEW p \in Procs, RemoveTree(p) PROVE TypeOK'
  BY <1>22 DEF RemoveTree, RemoveFiles
<1>23. ASSUME NEW p \in Procs, DropVolumes(p) PROVE TypeOK'
  BY <1>23 DEF DropVolumes
<1>24. ASSUME NEW p \in Procs, DropVm(p) PROVE TypeOK'
  BY <1>24 DEF DropVm
<1>25. ASSUME NEW p \in Procs, TerminateFails(p) PROVE TypeOK'
  BY <1>25 DEF TerminateFails
<1>26. ASSUME NEW p \in Procs, Crash(p) PROVE TypeOK'
  BY <1>26 DEF Crash
<1>27. ASSUME NEW p \in Procs, NEW v \in Vms, PrepareVmDb(p, v) PROVE TypeOK'
  BY <1>27 DEF PrepareVmDb
<1>28. ASSUME NEW p \in Procs, NEW v \in Vms, TerminateVM(p, v) PROVE TypeOK'
  BY <1>28 DEF TerminateVM
<1>29. ASSUME NEW p \in Procs, NEW v \in Vms, StartVM(p, v) PROVE TypeOK'
  BY <1>29 DEF StartVM
<1>30. ASSUME NEW p \in Procs, NEW v \in Vms, StopVM(p, v) PROVE TypeOK'
  BY <1>30 DEF StopVM, AutostartOff
<1>31. ASSUME NEW p \in Procs, NEW v \in Vms, TerminateInstanceCommand(p, v)
      PROVE  TypeOK'
  BY <1>31 DEF TerminateInstanceCommand
<1>32. ASSUME NEW p \in Procs, NEW v \in Vms, TakeTerminate(p, v) PROVE TypeOK'
  BY <1>32 DEF TakeTerminate
<1>33. ASSUME NEW v \in Vms, GuestPowersOff(v) PROVE TypeOK'
  BY <1>33 DEF GuestPowersOff, PowerOff
<1> QED BY <1>1, <1>2, <1>3, <1>4, <1>5, <1>6, <1>7, <1>8, <1>9, <1>10,
           <1>11, <1>12, <1>13, <1>14, <1>15, <1>16, <1>17, <1>18, <1>19,
           <1>20, <1>21, <1>22, <1>23, <1>24, <1>25, <1>26, <1>27, <1>28,
           <1>29, <1>30, <1>31, <1>32, <1>33
        DEF Next, Step, Launch, Start, CleanUp, Terminate, Fails, Request

LEMMA TypeInit == Init => TypeOK
  BY NoVmAssumption, MaxPendingAssumption
     DEF Init, LibvirtInit, TypeOK, LibvirtTypeOK, LabelsOf, Labels, Jobs

(* Every reachable state is well typed: TypeOK of lifecycle_safety, for every
   set of VMs and processes. *)
THEOREM TypeCorrect == Spec => []TypeOK
<1>1. Init => TypeOK
  BY TypeInit
<1>2. TypeOK /\ [Next]_vars => TypeOK'
  BY TypeStep
<1>3. QED BY <1>1, <1>2, PTL DEF Spec

-----------------------------------------------------------------------------
(* The inductive invariant *)

LEMMA InvInit == Init => IInv
<1> SUFFICES ASSUME Init PROVE IInv
  OBVIOUS
<1>1. TypeOK
  BY TypeInit
<1>2. Fresh /\ LaunchedIsWhole /\ DomainKeepsRecords /\ NoOrphanVolume
  BY NoVmAssumption
     DEF Init, LibvirtInit, Known, Fresh, LaunchedIsWhole, DomainKeepsRecords,
         NoOrphanVolume
<1>3. /\ OneLauncher /\ Alone /\ Pieces /\ Doomed
      /\ PastUndefine /\ HandOver
  BY DEF Init, Early, Late, OneLauncher, Alone, Pieces, Doomed, PastUndefine,
         HandOver
<1> QED BY <1>1, <1>2, <1>3 DEF IInv

(* Each step of each process keeps the launches private, the domains ahead of
   their records and the launched VMs whole. *)
LEMMA InvStep == IInv /\ [Next]_vars => IInv'
<1> SUFFICES ASSUME IInv, [Next]_vars PROVE IInv'
  OBVIOUS
<1> TypeOK'
  BY TypeStep DEF IInv
<1> USE ProcsAssumption, NoVmAssumption
        DEF IInv, TypeOK, LibvirtTypeOK, Labels, Jobs, LabelsOf, LaunchLabels,
            StartLabels, TerminateLabels, TryLabels, CleanUpLabels,
            At, Begin, Goto, Return, Raise, Answer, StartContinue,
            libvirt, db, local, history, Known, Whole, Early, Late,
            Fresh, OneLauncher, Alone, Pieces, Doomed, PastUndefine, HandOver,
            LaunchedIsWhole, DomainKeepsRecords, NoOrphanVolume
<1>1. CASE UNCHANGED vars
  BY <1>1 DEF vars
<1>2. ASSUME NEW p \in Procs, GenerateVmPath(p) PROVE IInv'
  BY <1>2 DEF GenerateVmPath
<1>3. ASSUME NEW p \in Procs, CopyImage(p) PROVE IInv'
  BY <1>3 DEF CopyImage
<1>4. ASSUME NEW p \in Procs, SaveVolume(p) PROVE IInv'
  BY <1>4 DEF SaveVolume
<1>5. ASSUME NEW p \in Procs, AddVirtualDisk(p) PROVE IInv'
  BY <1>5 DEF AddVirtualDisk
<1>6. ASSUME NEW p \in Procs, AttachVolume(p) PROVE IInv'
  BY <1>6 DEF AttachVolume
(* The launch is still alone, so no termination is past its undefine step. *)
<1>7. ASSUME NEW p \in Procs, DefineDomain(p) PROVE IInv'
  BY <1>7 DEF DefineDomain, DefineXML
(* What HandOver kept through the start is what a launched VM must have. *)
<1>8. ASSUME NEW p \in Procs, FinishVmDb(p) PROVE IInv'
  BY <1>8 DEF FinishVmDb
<1>9. ASSUME NEW p \in Procs, LaunchFails(p) PROVE IInv'
  BY <1>9 DEF LaunchFails
<1>10. ASSUME NEW p \in Procs, CheckActive(p) PROVE IInv'
  BY <1>10 DEF CheckActive
<1>11. ASSUME NEW p \in Procs, CreateDomain(p) PROVE IInv'
  BY <1>11 DEF CreateDomain, Boot, ShutOff
<1>12. ASSUME NEW p \in Procs, SetAutostart(p) PROVE IInv'
  BY <1>12 DEF SetAutostart, AutostartOn
<1>13. ASSUME NEW p \in Procs, CleanUpRow(p) PROVE IInv'
  BY <1>13 DEF CleanUpRow
<1>14. ASSUME NEW p \in Procs, CleanUpDir(p) PROVE IInv'
  BY <1>14 DEF CleanUpDir, RemoveFiles
<1>15. ASSUME NEW p \in Procs, CleanUpDisks(p) PROVE IInv'
  BY <1>15 DEF CleanUpDisks
<1>16. ASSUME NEW p \in Procs, FindRow(p) PROVE IInv'
  BY <1>16 DEF FindRow
(* The domain was found, so its launch is no longer an early one. *)
<1>17. ASSUME NEW p \in Procs, FindDomain(p) PROVE IInv'
  BY <1>17 DEF FindDomain
<1>18. ASSUME NEW p \in Procs, StopInstance(p) PROVE IInv'
  BY <1>18 DEF StopInstance, AutostartOff, ShutOff
<1>19. ASSUME NEW p \in Procs, ForceOff(p) PROVE IInv'
  BY <1>19 DEF ForceOff, PowerOff
<1>20. ASSUME NEW p \in Procs, Stopped(p) PROVE IInv'
  BY <1>20 DEF Stopped
(* From here on the domain is gone for good, so what is deleted next is no
   longer a domain's. *)
<1>21. ASSUME NEW p \in Procs, UndefineDomain(p) PROVE IInv'
  BY <1>21 DEF UndefineDomain, Undefine
<1>22. ASSUME NEW p \in Procs, RemoveTree(p) PROVE IInv'
  BY <1>22 DEF RemoveTree, RemoveFiles
<1>23. ASSUME NEW p \in Procs, DropVolumes(p) PROVE IInv'
  BY <1>23 DEF DropVolumes
(* DropVolumes left no linked volume that SET_NULL could orphan. *)
<1>24. ASSUME NEW p \in Procs, DropVm(p) PROVE IInv'
  BY <1>24 DEF DropVm
<1>25. ASSUME NEW p \in Procs, TerminateFails(p) PROVE IInv'
  BY <1>25 DEF TerminateFails
<1>26. ASSUME NEW p \in Procs, Crash(p) PROVE IInv'
  BY <1>26 DEF Crash
(* The id is new, so no other process holds it. *)
<1>27. ASSUME NEW p \in Procs, NEW v \in Vms, PrepareVmDb(p, v) PROVE IInv'
  BY <1>27 DEF PrepareVmDb
<1>28. ASSUME NEW p \in Procs, NEW v \in Vms, TerminateVM(p, v) PROVE IInv'
  BY <1>28 DEF TerminateVM
<1>29. ASSUME NEW p \in Procs, NEW v \in Vms, StartVM(p, v) PROVE IInv'
  BY <1>29 DEF StartVM
<1>30. ASSUME NEW p \in Procs, NEW v \in Vms, StopVM(p, v) PROVE IInv'
  BY <1>30 DEF StopVM, AutostartOff
<1>31. ASSUME NEW p \in Procs, NEW v \in Vms, TerminateInstanceCommand(p, v)
      PROVE  IInv'
  BY <1>31 DEF TerminateInstanceCommand
<1>32. ASSUME NEW p \in Procs, NEW v \in Vms, TakeTerminate(p, v) PROVE IInv'
  BY <1>32 DEF TakeTerminate
<1>33. ASSUME NEW v \in Vms, GuestPowersOff(v) PROVE IInv'
  BY <1>33 DEF GuestPowersOff, PowerOff
<1> QED BY <1>1, <1>2, <1>3, <1>4, <1>5, <1>6, <1>7, <1>8, <1>9, <1>10,
           <1>11, <1>12, <1>13, <1>14, <1>15, <1>16, <1>17, <1>18, <1>19,
           <1>20, <1>21, <1>22, <1>23, <1>24, <1>25, <1>26, <1>27, <1>28,
           <1>29, <1>30, <1>31, <1>32, <1>33
        DEF Next, Step, Launch, Start, CleanUp, Terminate, Fails, Request

LEMMA Invariance == Spec => []IInv
<1>1. Init => IInv
  BY InvInit
<1>2. IInv /\ [Next]_vars => IInv'
  BY InvStep
<1>3. QED BY <1>1, <1>2, PTL DEF Spec

(* A VM whose launch answered with its id keeps its row, domain, disk and
   volume until its termination is asked for, whatever else fails. *)
THEOREM LaunchIsDurable == Spec => []LaunchedIsWhole
<1>1. IInv => LaunchedIsWhole
  BY DEF IInv
<1>2. QED BY <1>1, Invariance, PTL

(* A launch is alone with its VM until it defines the domain. *)
THEOREM LaunchIsPrivate == Spec => []PreparationUndisturbed
<1>1. IInv => PreparationUndisturbed
  BY DEF IInv, PreparationUndisturbed, Preparing, Early, Alone, Pieces
<1>2. QED BY <1>1, Invariance, PTL

(* However a termination ends, the domain goes before its row and its disk. *)
THEOREM DomainGoesFirst == Spec => []DomainKeepsRecords
<1>1. IInv => DomainKeepsRecords
  BY DEF IInv
<1>2. QED BY <1>1, Invariance, PTL

(* Only failed launches leave volumes that no VM refers to. *)
THEOREM VolumesAreFound == Spec => []NoOrphanVolume
<1>1. IInv => NoOrphanVolume
  BY DEF IInv
<1>2. QED BY <1>1, Invariance, PTL

-----------------------------------------------------------------------------
(* Termination is final in the deployment of bin/api: VMs are created only by
   the one API worker, nobody uses the shell, and rmtree works. *)

SingleApiWorker == /\ Creators \subseteq ApiWorkers
                   /\ \A p, q \in ApiWorkers : p = q
                   /\ Shells = {}
                   /\ "rmtree" \notin Faults

(* The API worker cannot launch a VM and accept its termination at once. *)
LaunchNotDoomed == \A p \in Procs : job[p] = "launch" =>
                      p \in ApiWorkers /\ arg[p] \notin doomed

(* A termination past its row lookup sees the row until one of them is done,
   and once it removed the files they stay away. *)
TerminationKeeps ==
  \A p \in Procs : job[p] = "terminate" =>
     /\ pc[p] # "find_row" => vmRow[arg[p]] # "none" \/ arg[p] \in terminated
     /\ pc[p] \in {"drop_volumes", "drop_vm"} => files[arg[p]] = "absent"

UnlinkedHasNoRow == \A v \in Vms : volRow[v] # "none" /\ v \notin linked =>
                                     vmRow[v] = "none"

FinalInv == /\ IInv
            /\ LaunchNotDoomed /\ TerminationKeeps /\ UnlinkedHasNoRow
            /\ terminated \subseteq doomed
            /\ TerminatedLeavesNothing

LEMMA FinalStep == SingleApiWorker /\ FinalInv /\ [Next]_vars => FinalInv'
<1> SUFFICES ASSUME SingleApiWorker, FinalInv, [Next]_vars PROVE FinalInv'
  OBVIOUS
<1> IInv /\ IInv' /\ TypeOK'
  BY InvStep DEF FinalInv, IInv
<1> USE ProcsAssumption, NoVmAssumption
        DEF FinalInv, TypeOK, LibvirtTypeOK, Labels, Jobs, LabelsOf,
            LaunchLabels, StartLabels, TerminateLabels, TryLabels,
            CleanUpLabels, At, Begin, Goto, Return, Raise, Answer,
            StartContinue, libvirt, db, local, history, Known, Procs,
            IInv, Early, Late, Alone, Pieces, Fresh, Doomed, PastUndefine, HandOver,
            SingleApiWorker, LaunchNotDoomed, TerminationKeeps,
            UnlinkedHasNoRow, TerminatedLeavesNothing
<1>1. CASE UNCHANGED vars
  BY <1>1 DEF vars
<1>2. ASSUME NEW p \in Procs, GenerateVmPath(p) PROVE FinalInv'
  BY <1>2 DEF GenerateVmPath
<1>3. ASSUME NEW p \in Procs, CopyImage(p) PROVE FinalInv'
  BY <1>3 DEF CopyImage
<1>4. ASSUME NEW p \in Procs, SaveVolume(p) PROVE FinalInv'
  BY <1>4 DEF SaveVolume
<1>5. ASSUME NEW p \in Procs, AddVirtualDisk(p) PROVE FinalInv'
  BY <1>5 DEF AddVirtualDisk
<1>6. ASSUME NEW p \in Procs, AttachVolume(p) PROVE FinalInv'
  BY <1>6 DEF AttachVolume
<1>7. ASSUME NEW p \in Procs, DefineDomain(p) PROVE FinalInv'
  BY <1>7 DEF DefineDomain, DefineXML
<1>8. ASSUME NEW p \in Procs, FinishVmDb(p) PROVE FinalInv'
  BY <1>8 DEF FinishVmDb
<1>9. ASSUME NEW p \in Procs, LaunchFails(p) PROVE FinalInv'
  BY <1>9 DEF LaunchFails
<1>10. ASSUME NEW p \in Procs, CheckActive(p) PROVE FinalInv'
  BY <1>10 DEF CheckActive
<1>11. ASSUME NEW p \in Procs, CreateDomain(p) PROVE FinalInv'
  BY <1>11 DEF CreateDomain, Boot, ShutOff
<1>12. ASSUME NEW p \in Procs, SetAutostart(p) PROVE FinalInv'
  BY <1>12 DEF SetAutostart, AutostartOn
<1>13. ASSUME NEW p \in Procs, CleanUpRow(p) PROVE FinalInv'
  BY <1>13 DEF CleanUpRow
<1>14. ASSUME NEW p \in Procs, CleanUpDir(p) PROVE FinalInv'
  BY <1>14 DEF CleanUpDir, RemoveFiles
<1>15. ASSUME NEW p \in Procs, CleanUpDisks(p) PROVE FinalInv'
  BY <1>15 DEF CleanUpDisks
<1>16. ASSUME NEW p \in Procs, FindRow(p) PROVE FinalInv'
  BY <1>16 DEF FindRow
<1>17. ASSUME NEW p \in Procs, FindDomain(p) PROVE FinalInv'
  BY <1>17 DEF FindDomain
<1>18. ASSUME NEW p \in Procs, StopInstance(p) PROVE FinalInv'
  BY <1>18 DEF StopInstance, AutostartOff, ShutOff
<1>19. ASSUME NEW p \in Procs, ForceOff(p) PROVE FinalInv'
  BY <1>19 DEF ForceOff, PowerOff
<1>20. ASSUME NEW p \in Procs, Stopped(p) PROVE FinalInv'
  BY <1>20 DEF Stopped
<1>21. ASSUME NEW p \in Procs, UndefineDomain(p) PROVE FinalInv'
  BY <1>21 DEF UndefineDomain, Undefine
<1>22. ASSUME NEW p \in Procs, RemoveTree(p) PROVE FinalInv'
  BY <1>22 DEF RemoveTree, RemoveFiles
<1>23. ASSUME NEW p \in Procs, DropVolumes(p) PROVE FinalInv'
  BY <1>23 DEF DropVolumes
<1>24. ASSUME NEW p \in Procs, DropVm(p) PROVE FinalInv'
  BY <1>24 DEF DropVm
<1>25. ASSUME NEW p \in Procs, TerminateFails(p) PROVE FinalInv'
  BY <1>25 DEF TerminateFails
<1>26. ASSUME NEW p \in Procs, Crash(p) PROVE FinalInv'
  BY <1>26 DEF Crash
<1>27. ASSUME NEW p \in Procs, NEW v \in Vms, PrepareVmDb(p, v) PROVE FinalInv'
  BY <1>27 DEF PrepareVmDb
<1>28. ASSUME NEW p \in Procs, NEW v \in Vms, TerminateVM(p, v) PROVE FinalInv'
  BY <1>28 DEF TerminateVM
<1>29. ASSUME NEW p \in Procs, NEW v \in Vms, StartVM(p, v) PROVE FinalInv'
  BY <1>29 DEF StartVM
<1>30. ASSUME NEW p \in Procs, NEW v \in Vms, StopVM(p, v) PROVE FinalInv'
  BY <1>30 DEF StopVM, AutostartOff
<1>31. ASSUME NEW p \in Procs, NEW v \in Vms, TerminateInstanceCommand(p, v)
      PROVE  FinalInv'
  BY <1>31 DEF TerminateInstanceCommand
<1>32. ASSUME NEW p \in Procs, NEW v \in Vms, TakeTerminate(p, v)
      PROVE  FinalInv'
  BY <1>32 DEF TakeTerminate
<1>33. ASSUME NEW v \in Vms, GuestPowersOff(v) PROVE FinalInv'
  BY <1>33 DEF GuestPowersOff, PowerOff
<1> HIDE DEF FinalInv
<1> QED BY <1>1, <1>2, <1>3, <1>4, <1>5, <1>6, <1>7, <1>8, <1>9, <1>10,
           <1>11, <1>12, <1>13, <1>14, <1>15, <1>16, <1>17, <1>18, <1>19,
           <1>20, <1>21, <1>22, <1>23, <1>24, <1>25, <1>26, <1>27, <1>28,
           <1>29, <1>30, <1>31, <1>32, <1>33
        DEF Next, Step, Launch, Start, CleanUp, Terminate, Fails, Request

(* With one API worker that creates all VMs, a finished termination left
   nothing and nothing comes back: TerminatedLeavesNothing of
   lifecycle_service, also when the other calls fail and workers crash. *)
THEOREM TerminationIsFinal ==
  ASSUME SingleApiWorker PROVE Spec => []TerminatedLeavesNothing
<1>1. Init => FinalInv
  BY InvInit DEF Init, FinalInv, LaunchNotDoomed, TerminationKeeps,
                 UnlinkedHasNoRow, TerminatedLeavesNothing
<1>2. FinalInv /\ [Next]_vars => FinalInv'
  BY FinalStep
<1>3. FinalInv => TerminatedLeavesNothing
  BY DEF FinalInv
<1>4. QED BY <1>1, <1>2, <1>3, PTL DEF Spec
=============================================================================
