CONSTANTS
  Commands <- AllCommands
  MaxVersion = 2
  MaxRuns = 2
SPECIFICATION Spec
INVARIANTS
  LeftoversHarmless
  OwnSource
PROPERTIES
  SourcesKept
  Refines
CHECK_DEADLOCK FALSE
