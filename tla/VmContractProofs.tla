-------------------------- MODULE VmContractProofs ---------------------------
(***************************************************************************)
(* VmLifecycle implements VmContract.  A step of a process touches the     *)
(* records of one VM only.  While the VM's launch is pending its phase is  *)
(* told by the answer alone; afterwards no launch writes its records any   *)
(* more (OneLauncher), so they can only disappear, and by LaunchedIsWhole  *)
(* they do so only once its termination was asked for.                     *)
(***************************************************************************)
EXTENDS VmLifecycleProofs

(* All that the phase of a VM depends on stays as it is. *)
Untouched(v) == /\ response'[v] = response[v]
                /\ vmRow'[v] = vmRow[v] /\ volRow'[v] = volRow[v]
                /\ files'[v] = files[v]
                /\ v \in linked' <=> v \in linked
                /\ v \in defined' <=> v \in defined

(* How the answer to a launch may change. *)
AnswerMoves(from, to) == \/ from = to
                         \/ from = "none" /\ to = "pending"
                         \/ from = "pending" /\ to \in {"launched", "raised", "lost"}

(* A step on the records of v: it may lose them, never bring them back. *)
Affects(v) == /\ \A w \in Vms \ {v} : Untouched(w)
              /\ doomed' = doomed
              /\ AnswerMoves(response[v], response'[v])
              /\ response[v] = "launched" => /\ Whole(v)' => Whole(v)
                                             /\ Cleared(v) => Cleared(v)'

(* A step that asks for the termination of v. *)
Asks(v) == /\ \A w \in Vms : Untouched(w)
           /\ doomed' = doomed \cup {v}

Effect == \E v \in Vms : Affects(v) \/ Asks(v)

-----------------------------------------------------------------------------
(* A step that leaves all records alone. *)
LEMMA NoEffect ==
  ASSUME NEW v \in Vms, IInv,
         UNCHANGED <<db, files, defined, response, doomed>>
  PROVE  Effect
<1>1. Affects(v)
  BY DEF Affects, Untouched, AnswerMoves, Whole, Cleared, db
<1> QED BY <1>1 DEF Effect

(* What each step of each process does to the records. *)
LEMMA EffectStep == IInv /\ Next => Effect
<1> SUFFICES ASSUME IInv, Next PROVE Effect
  OBVIOUS
<1> USE NoVmAssumption
        DEF At, Begin, Goto, Return, Raise, Answer, StartContinue,
            libvirt, db, local, history
<1>a. ASSUME NEW p \in Procs, pc[p] # "idle" \/ job[p] # "none"
      PROVE  arg[p] \in Vms
  BY <1>a DEF IInv, TypeOK, LabelsOf, Jobs
<1>b. ASSUME NEW p \in Procs,
             job[p] = "launch" \/ pc[p] \in LaunchLabels \ StartLabels
      PROVE  response[arg[p]] = "pending"
  BY <1>b DEF IInv, TypeOK, OneLauncher, LabelsOf, Jobs, LaunchLabels,
              StartLabels, TerminateLabels, TryLabels, CleanUpLabels
<1>t. /\ vmRow \in [Vms -> {"none", "CREATING", "AVAILABLE"}]
      /\ volRow \in [Vms -> {"none", "CREATING", "ATTACHED"}]
      /\ files \in [Vms -> {"absent", "dir", "disk"}]
      /\ DOMAIN response = Vms
  BY DEF IInv, TypeOK
<1>l. {"mkdir", "copy", "save_volume", "populate", "attach", "define", "finish",
       "drop_row", "drop_dir", "drop_disks"} = LaunchLabels \ StartLabels
  BY DEF LaunchLabels, StartLabels, TryLabels, CleanUpLabels
<1>1. ASSUME NEW p \in Procs, GenerateVmPath(p) PROVE Effect
  <2>1. PICK v \in Vms : v = arg[p] /\ response[v] = "pending"
    BY <1>1, <1>a, <1>b, <1>l DEF GenerateVmPath
  <2>2. Affects(v)
    BY <1>1, <2>1, <1>t
       DEF GenerateVmPath, Affects, Untouched, AnswerMoves, Whole, Cleared
  <2> QED BY <2>1, <2>2 DEF Effect
<1>2. ASSUME NEW p \in Procs, CopyImage(p) PROVE Effect
  <2>1. PICK v \in Vms : v = arg[p] /\ response[v] = "pending"
    BY <1>2, <1>a, <1>b, <1>l DEF CopyImage
  <2>2. Affects(v)
    BY <1>2, <2>1, <1>t
       DEF CopyImage, Affects, Untouched, AnswerMoves, Whole, Cleared
  <2> QED BY <2>1, <2>2 DEF Effect
<1>3. ASSUME NEW p \in Procs, SaveVolume(p) PROVE Effect
  <2>1. PICK v \in Vms : v = arg[p] /\ response[v] = "pending"
    BY <1>3, <1>a, <1>b, <1>l DEF SaveVolume
  <2>2. Affects(v)
    BY <1>3, <2>1, <1>t
       DEF SaveVolume, Affects, Untouched, AnswerMoves, Whole, Cleared
  <2> QED BY <2>1, <2>2 DEF Effect
<1>4. ASSUME NEW p \in Procs, AddVirtualDisk(p) PROVE Effect
  <2>1. arg[p] \in Vms /\ UNCHANGED <<db, files, defined, response, doomed>>
    BY <1>4, <1>a DEF AddVirtualDisk
  <2> QED BY <2>1, NoEffect
<1>5. ASSUME NEW p \in Procs, AttachVolume(p) PROVE Effect
  <2>1. PICK v \in Vms : v = arg[p] /\ response[v] = "pending"
    BY <1>5, <1>a, <1>b, <1>l DEF AttachVolume
  <2>2. Affects(v)
    BY <1>5, <2>1, <1>t
       DEF AttachVolume, Affects, Untouched, AnswerMoves, Whole, Cleared
  <2> QED BY <2>1, <2>2 DEF Effect
<1>6. ASSUME NEW p \in Procs, DefineDomain(p) PROVE Effect
  <2>1. PICK v \in Vms : v = arg[p] /\ response[v] = "pending"
    BY <1>6, <1>a, <1>b, <1>l DEF DefineDomain
  <2>2. Affects(v)
    BY <1>6, <2>1, <1>t
       DEF DefineDomain, DefineXML, Affects, Untouched, AnswerMoves, Whole, Cleared
  <2> QED BY <2>1, <2>2 DEF Effect
<1>7. ASSUME NEW p \in Procs, FinishVmDb(p) PROVE Effect
  <2>1. PICK v \in Vms : v = arg[p] /\ response[v] = "pending"
    BY <1>7, <1>a, <1>b, <1>l DEF FinishVmDb
  <2>2. Affects(v)
    BY <1>7, <2>1, <1>t
       DEF FinishVmDb, Affects, Untouched, AnswerMoves, Whole, Cleared
  <2> QED BY <2>1, <2>2 DEF Effect
<1>8. ASSUME NEW p \in Procs, LaunchFails(p) PROVE Effect
  <2>1. arg[p] \in Vms /\ UNCHANGED <<db, files, defined, response, doomed>>
    BY <1>8, <1>a DEF LaunchFails
  <2> QED BY <2>1, NoEffect
<1>9. ASSUME NEW p \in Procs, CheckActive(p) PROVE Effect
  <2>1. arg[p] \in Vms /\ UNCHANGED <<db, files, defined, response, doomed>>
    BY <1>9, <1>a DEF CheckActive
  <2> QED BY <2>1, NoEffect
<1>10. ASSUME NEW p \in Procs, CreateDomain(p) PROVE Effect
  <2>1. arg[p] \in Vms /\ UNCHANGED <<db, files, defined, response, doomed>>
    BY <1>10, <1>a DEF CreateDomain, Boot, ShutOff
  <2> QED BY <2>1, NoEffect
<1>11. ASSUME NEW p \in Procs, SetAutostart(p) PROVE Effect
  <2>1. arg[p] \in Vms /\ UNCHANGED <<db, files, defined, response, doomed>>
    BY <1>11, <1>a DEF SetAutostart, AutostartOn
  <2> QED BY <2>1, NoEffect
<1>12. ASSUME NEW p \in Procs, CleanUpRow(p) PROVE Effect
  <2>1. PICK v \in Vms : v = arg[p] /\ response[v] = "pending"
    BY <1>12, <1>a, <1>b, <1>l DEF CleanUpRow
  <2>2. Affects(v)
    BY <1>12, <2>1, <1>t
       DEF CleanUpRow, Affects, Untouched, AnswerMoves, Whole, Cleared
  <2> QED BY <2>1, <2>2 DEF Effect
<1>13. ASSUME NEW p \in Procs, CleanUpDir(p) PROVE Effect
  <2>1. PICK v \in Vms : v = arg[p] /\ response[v] = "pending"
    BY <1>13, <1>a, <1>b, <1>l DEF CleanUpDir
  <2>2. Affects(v)
    BY <1>13, <2>1, <1>t
       DEF CleanUpDir, RemoveFiles, Affects, Untouched, AnswerMoves, Whole, Cleared
  <2> QED BY <2>1, <2>2 DEF Effect
<1>14. ASSUME NEW p \in Procs, CleanUpDisks(p) PROVE Effect
  <2>1. PICK v \in Vms : v = arg[p] /\ response[v] = "pending"
    BY <1>14, <1>a, <1>b, <1>l DEF CleanUpDisks
  <2>2. Affects(v)
    BY <1>14, <2>1, <1>t
       DEF CleanUpDisks, Affects, Untouched, AnswerMoves, Whole, Cleared
  <2> QED BY <2>1, <2>2 DEF Effect
<1>15. ASSUME NEW p \in Procs, FindRow(p) PROVE Effect
  <2>1. arg[p] \in Vms /\ UNCHANGED <<db, files, defined, response, doomed>>
    BY <1>15, <1>a DEF FindRow
  <2> QED BY <2>1, NoEffect
<1>16. ASSUME NEW p \in Procs, FindDomain(p) PROVE Effect
  <2>1. arg[p] \in Vms /\ UNCHANGED <<db, files, defined, response, doomed>>
    BY <1>16, <1>a DEF FindDomain
  <2> QED BY <2>1, NoEffect
<1>17. ASSUME NEW p \in Procs, StopInstance(p) PROVE Effect
  <2>1. arg[p] \in Vms /\ UNCHANGED <<db, files, defined, response, doomed>>
    BY <1>17, <1>a DEF StopInstance, AutostartOff, ShutOff
  <2> QED BY <2>1, NoEffect
<1>18. ASSUME NEW p \in Procs, ForceOff(p) PROVE Effect
  <2>1. arg[p] \in Vms /\ UNCHANGED <<db, files, defined, response, doomed>>
    BY <1>18, <1>a DEF ForceOff, PowerOff
  <2> QED BY <2>1, NoEffect
<1>19. ASSUME NEW p \in Procs, Stopped(p) PROVE Effect
  <2>1. arg[p] \in Vms /\ UNCHANGED <<db, files, defined, response, doomed>>
    BY <1>19, <1>a DEF Stopped
  <2> QED BY <2>1, NoEffect
<1>20. ASSUME NEW p \in Procs, UndefineDomain(p) PROVE Effect
  <2>1. PICK v \in Vms : v = arg[p]
    BY <1>20, <1>a DEF UndefineDomain
  <2>2. /\ UNCHANGED <<vmRow, volRow, linked, files, response, doomed>>
        /\ defined' \in {defined, defined \ {v}}
    BY <1>20, <2>1 DEF UndefineDomain, Undefine
  <2>3. Affects(v)
    BY <2>1, <2>2, <1>t
       DEF Affects, Untouched, AnswerMoves, Whole, Cleared
  <2> QED BY <2>1, <2>3 DEF Effect
<1>21. ASSUME NEW p \in Procs, RemoveTree(p) PROVE Effect
  <2>1. PICK v \in Vms : v = arg[p]
    BY <1>21, <1>a DEF RemoveTree
  <2>2. Affects(v)
    BY <1>21, <2>1, <1>t
       DEF RemoveTree, RemoveFiles, Affects, Untouched, AnswerMoves, Whole, Cleared
  <2> QED BY <2>1, <2>2 DEF Effect
<1>22. ASSUME NEW p \in Procs, DropVolumes(p) PROVE Effect
  <2>1. PICK v \in Vms : v = arg[p]
    BY <1>22, <1>a DEF DropVolumes
  <2>2. /\ UNCHANGED <<vmRow, files, defined, response, doomed>>
        /\ linked' = linked \ {v}
        /\ volRow' = [volRow EXCEPT ![v] = IF v \in linked THEN "none"
                                           ELSE @]
    BY <1>22, <2>1 DEF DropVolumes
  <2>3. Affects(v)
    BY <2>1, <2>2, <1>t
       DEF Affects, Untouched, AnswerMoves, Whole, Cleared
  <2> QED BY <2>1, <2>3 DEF Effect
<1>23. ASSUME NEW p \in Procs, DropVm(p) PROVE Effect
  <2>1. PICK v \in Vms : v = arg[p]
    BY <1>23, <1>a DEF DropVm
  <2>2. Affects(v)
    BY <1>23, <2>1, <1>t
       DEF DropVm, Affects, Untouched, AnswerMoves, Whole, Cleared
  <2> QED BY <2>1, <2>2 DEF Effect
<1>24. ASSUME NEW p \in Procs, TerminateFails(p) PROVE Effect
  <2>1. arg[p] \in Vms /\ UNCHANGED <<db, files, defined, response, doomed>>
    BY <1>24, <1>a DEF TerminateFails
  <2> QED BY <2>1, NoEffect
<1>25. ASSUME NEW p \in Procs, Crash(p) PROVE Effect
  <2>1. PICK v \in Vms : v = arg[p] /\ (job[p] = "launch" => response[v] = "pending")
    BY <1>25, <1>a, <1>b DEF Crash
  <2>2. /\ UNCHANGED <<vmRow, volRow, linked, files, defined, doomed>>
        /\ \/ UNCHANGED response
           \/ job[p] = "launch" /\ response' = [response EXCEPT ![v] = "lost"]
    BY <1>25, <2>1 DEF Crash
  <2>3. Affects(v)
    BY <2>1, <2>2, <1>t DEF Affects, Untouched, AnswerMoves, Whole, Cleared
  <2> QED BY <2>1, <2>3 DEF Effect
<1>26. ASSUME NEW p \in Procs, NEW v \in Vms, PrepareVmDb(p, v) PROVE Effect
  <2>1. Affects(v)
    BY <1>26, <1>t DEF PrepareVmDb, Affects, Untouched, AnswerMoves, Whole, Cleared
  <2> QED BY <2>1 DEF Effect
<1>27. ASSUME NEW p \in Procs, NEW v \in Vms, StartVM(p, v) PROVE Effect
  BY <1>27, NoEffect DEF StartVM
<1>28. ASSUME NEW p \in Procs, NEW v \in Vms, StopVM(p, v) PROVE Effect
  BY <1>28, NoEffect DEF StopVM, AutostartOff
<1>29. ASSUME NEW p \in Procs, NEW v \in Vms, TakeTerminate(p, v) PROVE Effect
  BY <1>29, NoEffect DEF TakeTerminate
<1>30. ASSUME NEW p \in Procs, NEW v \in Vms, TerminateVM(p, v)
      PROVE  Effect
  <2>1. Asks(v)
    BY <1>30 DEF TerminateVM, Asks, Untouched
  <2> QED BY <2>1 DEF Effect
<1>31. ASSUME NEW p \in Procs, NEW v \in Vms, TerminateInstanceCommand(p, v)
      PROVE  Effect
  <2>1. Asks(v)
    BY <1>31 DEF TerminateInstanceCommand, Asks, Untouched
  <2> QED BY <2>1 DEF Effect
<1>32. ASSUME NEW v \in Vms, GuestPowersOff(v) PROVE Effect
  BY <1>32, NoEffect DEF GuestPowersOff, PowerOff
<1> QED BY <1>1, <1>2, <1>3, <1>4, <1>5, <1>6, <1>7, <1>8, <1>9,
           <1>10, <1>11, <1>12, <1>13, <1>14, <1>15, <1>16, <1>17,
           <1>18, <1>19, <1>20, <1>21, <1>22, <1>23, <1>24, <1>25,
           <1>26, <1>27, <1>28, <1>29, <1>30, <1>31, <1>32
        DEF Next, Step, Launch, Start, CleanUp, Terminate, Fails, Request

-----------------------------------------------------------------------------
(* The refinement *)

(* The phases of the VMs, as the contract sees them. *)
PhaseMap == [v \in Vms |-> PhaseOf(v)]

(* A VM whose records are untouched keeps its phase. *)
LEMMA SamePhase ==
  ASSUME NEW v \in Vms, Untouched(v)
  PROVE  PhaseOf(v)' = PhaseOf(v)
  BY DEF Untouched, PhaseOf, Whole, Cleared

(* How the phase of a VM can change when its own records do. *)
LEMMA PhaseMoves ==
  ASSUME NEW v \in Vms, IInv, IInv', Affects(v)
  PROVE  \/ PhaseOf(v)' = PhaseOf(v)
         \/ PhaseOf(v) = "new" /\ PhaseOf(v)' = "launching"
         \/ PhaseOf(v) = "launching" /\ PhaseOf(v)' \in {"up", "failed"}
         \/ /\ v \in doomed
            /\ PhaseOf(v) \in {"launching", "up"}
            /\ PhaseOf(v)' \in {"ending", "gone"}
         \/ /\ v \in doomed
            /\ PhaseOf(v) = "ending" /\ PhaseOf(v)' = "gone"
<1>1. AnswerMoves(response[v], response'[v]) /\ doomed' = doomed
  BY DEF Affects
<1>2. response[v] \in {"none", "pending", "launched", "raised", "lost"}
  BY DEF IInv, TypeOK
<1>3. response'[v] = "launched" /\ ~Whole(v)' => v \in doomed
  BY <1>1 DEF IInv, LaunchedIsWhole
<1>4. CASE response[v] \in {"none", "raised", "lost"}
  BY <1>1, <1>4 DEF AnswerMoves, PhaseOf
<1>5. CASE response[v] = "pending"
  BY <1>1, <1>3, <1>5 DEF AnswerMoves, PhaseOf
<1>6. CASE response[v] = "launched"
  <2>1. response'[v] = "launched"
    BY <1>1, <1>6 DEF AnswerMoves
  <2>2. (Whole(v)' => Whole(v)) /\ (Cleared(v) => Cleared(v)')
    BY <1>6 DEF Affects
  <2> QED BY <2>1, <2>2, <1>3, <1>6 DEF PhaseOf
<1> QED BY <1>2, <1>4, <1>5, <1>6

(* Every step of the program is a step of the contract or changes nothing the
   contract shows. *)
LEMMA ContractStep ==
  IInv /\ IInv' /\ [Next]_vars => [Contract!Next]_<<PhaseMap, doomed>>
<1> SUFFICES ASSUME IInv, IInv', [Next]_vars
             PROVE  [Contract!Next]_<<PhaseMap, doomed>>
  OBVIOUS
<1> USE DEF PhaseMap
<1>1. CASE UNCHANGED vars
  <2>1. \A v \in Vms : Untouched(v)
    BY <1>1 DEF vars, db, libvirt, history, Untouched
  <2> QED BY <1>1, <2>1, SamePhase DEF vars, history
<1>2. CASE Next
  <2>1. PICK v \in Vms : Affects(v) \/ Asks(v)
    BY <1>2, EffectStep DEF Effect
  <2>2. CASE Asks(v)
    <3>1. PhaseMap' = PhaseMap
      BY <2>2, SamePhase DEF Asks
    <3>2. Contract!Terminate(v)
      BY <2>2, <3>1 DEF Asks, Contract!Terminate
    <3> QED BY <3>2 DEF Contract!Next
  <2>3. CASE Affects(v)
    <3>1. PhaseMap' = [PhaseMap EXCEPT ![v] = PhaseOf(v)'] /\ doomed' = doomed
      BY <2>3, SamePhase DEF Affects
    <3>2. PhaseMap[v] = PhaseOf(v)
      OBVIOUS
    <3>3. CASE PhaseOf(v)' = PhaseOf(v)
      BY <3>1, <3>2, <3>3
    <3>4. CASE PhaseOf(v) = "new" /\ PhaseOf(v)' = "launching"
      BY <3>1, <3>2, <3>4 DEF Contract!Next, Contract!Launch, Contract!Move
    <3>5. CASE PhaseOf(v) = "launching" /\ PhaseOf(v)' \in {"up", "failed"}
      BY <3>1, <3>2, <3>5 DEF Contract!Next, Contract!LaunchSucceeds,
                              Contract!LaunchFails, Contract!Move
    <3>6. CASE /\ v \in doomed
               /\ PhaseOf(v) \in {"launching", "up"}
               /\ PhaseOf(v)' \in {"ending", "gone"}
      BY <3>1, <3>2, <3>6 DEF Contract!Next, Contract!LaunchOvertaken,
                              Contract!End, Contract!Move
    <3>7. CASE /\ v \in doomed
               /\ PhaseOf(v) = "ending" /\ PhaseOf(v)' = "gone"
      BY <3>1, <3>2, <3>7 DEF Contract!Next, Contract!End, Contract!Move
    <3> QED BY <2>3, PhaseMoves, <3>3, <3>4, <3>5, <3>6, <3>7
  <2> QED BY <2>1, <2>2, <2>3
<1> QED BY <1>1, <1>2

(* The program implements the contract of its answers, ImplementsContract of
   lifecycle_safety, for every set of VMs and processes. *)
THEOREM AnswersAreReliable == Spec => ImplementsContract
<1>1. Init => Contract!Init
  BY DEF Init, Contract!Init, PhaseOf
<1>2. IInv /\ IInv' /\ [Next]_vars => [Contract!Next]_<<PhaseMap, doomed>>
  BY ContractStep
<1>3. QED BY <1>1, <1>2, Invariance, PTL
          DEF Spec, ImplementsContract, Contract!Spec, PhaseMap
=============================================================================
