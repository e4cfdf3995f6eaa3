\* A larger tracker, delayed resends (udpResendDelay), and one restart of the sender.
SPECIFICATION Spec
CONSTANTS
  SequenceMod = 16
  TrackerBits = 4
  MaxSent = 5
  MaxPermit = 4
  NetLimit = 4
  MaxRestarts = 1
  udpResendDelay = TRUE
  InOrder = TRUE
  NoPermit = noPermit
INVARIANTS TypeOK TrackerIsExact PassedOnce
PROPERTY TrackerNeverRestarts
