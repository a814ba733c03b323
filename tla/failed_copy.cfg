SPECIFICATION Spec
CONSTANTS
  v1 = v1
  api = api  c1 = c1  shell = shell
  i1 = i1  i2 = i2  base = base
  NoVm = NoVm
  NoImage = NoImage
  Vms = {v1}
  Procs = {api, c1}
  ApiWorkers = {api}
  CeleryWorkers = {c1}
  Shells = {}
  CrashingProcs = {}
  Images = {i1}
  BaseFiles = {base}
  RegisterFiles = {}
  ForceStopTime = 2
  Faults = {"convert"}
INVARIANT FailedImageRestoresSource
CHECK_DEADLOCK FALSE
