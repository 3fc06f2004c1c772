CONSTANTS
  Functions0 <- Patterns
  SkipPasses <- Unmodelled
  OptLevel = 3
  MaxId = 60
SPECIFICATION Spec
INVARIANTS SemanticsPreserved NeverFails Irredundant
PROPERTIES Finishes
