SPECIFICATION Spec
CONSTANTS
  Lens <- McLens
  Sw2s <- McSw2s
  Keys <- McKeys
INVARIANTS
  CommandsAccepted
  BuiltInBuffer
  ToldIsGiven
  ProtectedIsChecked
PROPERTIES
  FollowIsFresh
  HostKeyIsCards
