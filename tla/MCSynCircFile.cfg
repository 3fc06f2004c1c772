CONSTANTS
  MaxWire = 2
  MaxGates = 2
  MaxOutputs = 1
  InputLists <- TwoInputLists
  Circuits <- AllCircuits
  Files <- HandWritten
SPECIFICATION Spec
INVARIANTS
  WiresBounded
  RoundTrip
  TruncationVisible
CHECK_DEADLOCK FALSE
