\* An in-order network that loses packets and permits; no wrap.
SPECIFICATION FairSpec
CONSTANTS
  SequenceMod = 16
  TrackerBits = 4
  MaxSent = 7
  MaxPermit = 4
  NetLimit = 4
  MaxRestarts = 0
  udpResendDelay = FALSE
  InOrder = TRUE
  NoPermit = noPermit

PROPERTY TransferSpec
