SPECIFICATION FairSpec
CONSTANTS
  v1 = v1
  api = api  api2 = api2  c1 = c1  c2 = c2  shell = shell
  NoVm = NoVm
  Vms = {v1}
  ApiWorkers = {api}
  CeleryWorkers = {c1, c2}
  Shells = {}
  Creators = {api}
  CleaningProcs = {}
  CrashingProcs = {}
  Faults = {"mkdir", "launch"}
  MaxPending = 2
INVARIANTS
  TerminatedLeavesNothing
PROPERTIES
  TerminationCompletes
CHECK_DEADLOCK FALSE
