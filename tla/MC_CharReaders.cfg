SPECIFICATION Spec
CONSTANTS
  Readers <- McReaders
  Cards <- McCards
  MaxAtr = 32
  MaxResets = 2
INVARIANTS
  ConventionAgrees
  AtrUnderstood
CHECK_DEADLOCK FALSE
