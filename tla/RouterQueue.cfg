SPECIFICATION Spec
CONSTANTS
  ma = ma
  mb = mb
  mc = mc
  t1 = t1
  t2 = t2
  t3 = t3
  None = None
  Models = {ma, mb, mc}
  Known = {ma, mb}
  Threads = {t1, t2, t3}
  Scenarios <- QueueScenarios
  Presets <- MCPresets
  LoadOnStartup = {mc}
  MaxModels = 1
  MaxSpawns = 3
  MaxSleeps = 0
  MaxFaults = 0
INVARIANTS LiveWithinLimit EntryHasWaiter StopCancelsParked
CHECK_DEADLOCK FALSE
