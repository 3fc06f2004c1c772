SPECIFICATION Spec
CONSTANTS
  Networks <- MCNetworks
  MaxFlits = 2
  MaxTicks = 13
INVARIANTS
  CreditsConserved
  FlowsInOrder
PROPERTIES
  FlitsArrive
