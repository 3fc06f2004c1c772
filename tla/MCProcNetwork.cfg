SPECIFICATION Spec
CONSTANTS
  Networks <- MCNetworks
  Modulus = 4
  MaxFed = 2
  MaxCalls = 3
  MaxTicks = 2
  OutputCount = 2
  MaxResets = 1
INVARIANTS
  DeadlockSound
  ScheduleInvisible
PROPERTIES
  RefinesDataflow
  
