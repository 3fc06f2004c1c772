CONSTANTS
  MaxWire = 2
  MaxGates = 2
  MaxOutputs = 1
  InputLists <- AnyInputLists
  Circuits <- EvalCircuits
  InputBits <- BitLists
SPECIFICATION Spec
INVARIANTS
  PrefixConsistent
  ComputesTheSolution
CHECK_DEADLOCK FALSE
