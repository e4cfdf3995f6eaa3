\* Two agents; the server sends again, at any time, what it has heard nothing of.
SPECIFICATION FairSpec
CONSTANTS
  NumAgents = 2
  Mask = 2
  Circumstances <- OneKindOfTrouble
  Server = server
  NoPacket = noPacket
CHECK_DEADLOCK FALSE
INVARIANTS TypeOK NotForgotten FailsOnlyWhenAllFailed
 
