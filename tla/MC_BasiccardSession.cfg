SPECIFICATION Spec
CONSTANTS
  Lens <- McLens
  T0Choices = {TRUE, FALSE}
  KeyIds <- McKeys
  MaxMsgs = 6
INVARIANTS
  OkIsRun
PROPERTIES
  StaysInStep
