SPECIFICATION LaunchSpec
CONSTANTS
  n1 = n1  n2 = n2
  f1 = f1  f2 = f2
  i1 = i1  i2 = i2
  k1 = k1
  s1 = s1  s2 = s2
  a1 = a1  a2 = a2  sh = sh
  m1 = m1
  None = None
  Names = {n1, n2}
  Fingerprints = {f1, f2}
  KeyIds = {i1, i2}
  AccessKeys = {k1}
  ServiceIds = {s1, s2}
  ApiWorkers = {a1, a2}
  CeleryWorkers = {}
  Shells = {sh}
  CrashingProcs = {a1, a2}
  Space = 8
  Networks <- SmallNetworks
  Addresses = {2, 5, 7}
  Machines = {m1}
SYMMETRY Symmetry
INVARIANTS
  TypeOK
  KeysAreUnique
  OneServiceAccount
  RevokedIsRefused
  RemovedIsGone
  LaunchTypeOK
  AddressIsUsable
CHECK_DEADLOCK FALSE
