SPECIFICATION Spec
CONSTANTS
  ma = ma
  mb = mb
  mc = mc
  t1 = t1
  t2 = t2
  t3 = t3
  None = None
  Models = {ma, mb, mc}
  Known = {ma, mb}
  Threads = {t1, t2}
  Scenarios <- AdminScenarios
  Presets <- MCPresets
  LoadOnStartup = {mc}
  MaxModels = 1
  MaxSpawns = 2
  MaxSleeps = 1
  MaxFaults = 1
INVARIANTS NoOrphanProcess ReloadNeverAsserts JoinsOutsideMutex
PROPERTY StoppedInstanceEnds EveryCallReturns
CHECK_DEADLOCK FALSE
