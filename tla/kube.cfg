SPECIFICATION FairSpec
CONSTANTS
  k1 = k1
  v1 = v1  v2 = v2
  a1 = a1  a2 = a2  c1 = c1
  NoVm = NoVm
  NoCluster = NoCluster
  Clusters = {k1}
  Vms = {v1, v2}
  ApiWorkers = {a1, a2}
  CeleryWorkers = {c1}
  CrashingProcs = {a1, c1}
  Faults = {"vault", "launch", "image", "guest"}
INVARIANTS
  TypeOK
  ReadyHasSecrets
  DeletedStaysDeleted
  ControllerIsReleased
PROPERTIES
  SecretsAreMerged
  StatusMovesForward
  
CHECK_DEADLOCK FALSE
