SPECIFICATION Spec
CONSTANTS
  v1 = v1
  api = api  api2 = api2  c1 = c1  c2 = c2  shell = shell
  NoVm = NoVm
  Vms = {v1}
  ApiWorkers = {api, api2}
  CeleryWorkers = {c1, c2}
  Shells = {shell}
  Creators = {api, api2, c1, c2}
  CleaningProcs = {c1, c2}
  CrashingProcs = {api, api2, c1, c2, shell}
  Faults = {"mkdir", "launch", "rmtree", "terminate"}
  MaxPending = 2
SYMMETRY Symmetry
INVARIANTS
  TypeOK
  LaunchedIsWhole
  PreparationUndisturbed
  DomainKeepsRecords
  NoOrphanVolume
PROPERTIES
  ImplementsContract
CHECK_DEADLOCK FALSE
