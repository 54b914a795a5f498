SPECIFICATION Spec
CONSTANTS
  Procs = {index, watch}
  Contents = {a, b}
  Absent = Absent
  OldSchemas = {0, 2, 6, 7}
  MaxClock = 3
  MaxPasses = 2
  MaxFaults = 1
INVARIANTS SchemaIsRecorded WipedOnce RowIsOneVersion
PROPERTY Opens
CHECK_DEADLOCK FALSE
