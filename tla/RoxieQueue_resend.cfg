\* The primary fails.
SPECIFICATION Spec
CONSTANTS
  NumAgents = 2
  Mask = 3
  Circumstances <- PrimaryFails
  Server = server
  NoPacket = noPacket
CHECK_DEADLOCK FALSE
INVARIANT Recoverable
