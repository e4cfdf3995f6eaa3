\* Two threads push while messages are removed and sent.
SPECIFICATION Spec
CONSTANTS
  FlowMod = 3
  Pushers = {p1, p2}
  Removers = {a1}
  ResendThread = resendThread
  SendThread = sendThread
  NoThread = noThread
  NoPermit = noPermit
  QueueLimit = 2
  TrackerBits = 2
  MaxPermit = 1
  MaxRequestDeadTimeouts = 2
  MaxWrites = 2
  udpResendLostPackets = FALSE
  udpAllowAsyncPermits = FALSE
  udpResendDelay = FALSE
  isLocal = FALSE
  StalePermits = TRUE
INVARIANTS TypeOK PacketAccounting DataIsRequested
SYMMETRY Symmetry
