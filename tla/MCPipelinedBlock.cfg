CONSTANTS
  Blocks <- Pipelines
  MaxItems = 3
SPECIFICATION Spec
INVARIANTS InOrder Accounted
PROPERTIES HoldsOutputs Delivers
