SPECIFICATION Spec
CONSTANTS
  Files = {f1, f2}
  c1 = c1
  c2 = c2
  Configs = {c1}
  Absent = Absent
  Accesses <- AllAccess
  MaxTotalFiles = 0
  ThresholdPct = 50
  MaxClock = 3
  MaxRetries = 1
  ConfigEdits <- NoEdits
  MaxStarts = 2
  MaxFaults = 0
  MaxCrashes = 1
  CfgPath = CfgPath
  Sweep = Sweep
SYMMETRY FileSymmetry
INVARIANTS TypeOK NoLostChange FastPathSound HonestPass
PROPERTY NoRollback
CHECK_DEADLOCK FALSE
