SPECIFICATION Spec
CONSTANTS
  Readers <- McReaders
  Shapes <- McShapes
  MaxC = 248
  MaxR = 248
  MaxCalls = 2
  MaxFaults = 3
INVARIANTS
  OkIsOwnAnswer
  RunsApduOnce
CHECK_DEADLOCK FALSE
