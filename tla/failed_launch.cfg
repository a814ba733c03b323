SPECIFICATION Spec
CONSTANTS
  v1 = v1
  api = api  api2 = api2  c1 = c1  c2 = c2  shell = shell
  NoVm = NoVm
  Vms = {v1}
  ApiWorkers = {api}
  CeleryWorkers = {c1}
  Shells = {}
  Creators = {c1}
  CleaningProcs = {c1}
  CrashingProcs = {}
  Faults = {"launch"}
  MaxPending = 1
INVARIANT FailedLaunchLeavesNoDomain
CHECK_DEADLOCK FALSE
