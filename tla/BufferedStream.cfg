CONSTANTS
  Values = {1, 2}
  MaxItems = 4
SPECIFICATION Spec
PROPERTIES IsFifo Flushes
