SPECIFICATION FairSpec
CONSTANTS
  Files = {f1, f2}
  c1 = c1
  c2 = c2
  Configs = {c1, c2}
  Absent = Absent
  Accesses <- FileAccess
  MaxTotalFiles = 1
  ThresholdPct = 50
  MaxClock = 2
  MaxRetries = 2
  ConfigEdits <- BothEdits
  MaxStarts = 2
  MaxFaults = 1
  MaxCrashes = 1
  CfgPath = CfgPath
  Sweep = Sweep
INVARIANTS ForcedPassReanalyses StampHonest
PROPERTY Settles
CHECK_DEADLOCK FALSE
