CONSTANTS
  Netlists <- AllNetlists
  CutModules = {"m"}
  CutCells = {0}
SPECIFICATION FlattenSpec
INVARIANTS
  RedirectedOutputsConnected
CHECK_DEADLOCK FALSE
