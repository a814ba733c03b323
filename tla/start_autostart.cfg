SPECIFICATION Spec
CONSTANTS
  v1 = v1
  api = api  c1 = c1  shell = shell
  i1 = i1  i2 = i2  base = base
  NoVm = NoVm
  NoImage = NoImage
  Vms = {v1}
  Procs = {api}
  ApiWorkers = {api}
  CeleryWorkers = {}
  Shells = {}
  CrashingProcs = {}
  Images = {i1}
  BaseFiles = {base}
  RegisterFiles = {}
  ForceStopTime = 2
  Faults = {}
INVARIANT StartedHasAutostart
CHECK_DEADLOCK FALSE
