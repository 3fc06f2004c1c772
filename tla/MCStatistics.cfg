CONSTANTS
  MaxWire = 2
  MaxGates = 2
  MaxOutputs = 1
  InputLists <- TwoInputLists
  Circuits <- StatsCircuits
  Garbage <- WildSources
SPECIFICATION StatsSpec
INVARIANTS
  NoWildSource
  RelaxedOrPending
  ReportCorrect
CHECK_DEADLOCK FALSE
