SPECIFICATION Spec
CONSTANTS
  v1 = v1
  api = api  c1 = c1  shell = shell
  i1 = i1  i2 = i2  base = base
  NoVm = NoVm
  NoImage = NoImage
  Vms = {v1}
  Procs = {api, c1, shell}
  ApiWorkers = {api}
  CeleryWorkers = {c1}
  Shells = {shell}
  CrashingProcs = {api, c1}
  Images = {i1, i2}
  BaseFiles = {base}
  RegisterFiles = {base, i1}
  ForceStopTime = 2
  Faults = {"boot", "convert", "clean", "info", "save"}
INVARIANTS
  TypeOK
  ImageIsWhole
  CopyableIsWhole
  OneImagePerFile
PROPERTIES
  SourceRestored
  DiskOutlivesCopy
  ImageStateIsFinal
  MachineOutlivesImage
CHECK_DEADLOCK FALSE
