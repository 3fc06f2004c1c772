CONSTANTS
  Netlists <- AllNetlists
  CutModules = {"m"}
  CutCells = {0}
SPECIFICATION FlattenSpec
INVARIANTS
  InstancesDisjoint
  FlatteningFaithful
  OnlyLastModuleCut
CHECK_DEADLOCK FALSE
