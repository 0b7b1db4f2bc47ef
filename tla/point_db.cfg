SPECIFICATION Spec
CONSTANTS
  s1 = s1
  s2 = s2
  d1 = d1
  d2 = d2
  ServerIds = {s1, s2}
  DeviceIds = {d1, d2}
  Names = {n1, n2}
  n1 = n1
  n2 = n2
  Times = {1, 2}
  MaxRows = 2
  MaxEdits = 2
  MaxCrashes = 1
  Cfg <- MCCfg
INVARIANTS SeedIsWhole 
PROPERTY EditsOutliveRestarts
SYMMETRY SameName
CHECK_DEADLOCK FALSE
