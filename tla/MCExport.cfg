CONSTANTS
  MaxWire = 2
  MaxGates = 2
  MaxOutputs = 2
  InputLists <- AnyInputLists
  Circuits <- ExportCircuits
  Files <- HandWritten
SPECIFICATION ExportSpec
INVARIANTS
  FreshWireAvailable
  OutputMappedOnce
  AccountingExact
  LinearizedFaithful
  ExportFaithful
  TruncationKeepsOrder
  VerilogFaithful
PROPERTIES
  MappingStable
CHECK_DEADLOCK FALSE
