\* Three packets through a window of two, with every option on, and a receiver that may fall silent.
SPECIFICATION FairSpec
CONSTANTS
  FlowMod = 3
  Pushers = {p1}
  Removers = {}
  ResendThread = resendThread
  SendThread = sendThread
  NoThread = noThread
  NoPermit = noPermit
  QueueLimit = 1
  TrackerBits = 2
  MaxPermit = 1
  MaxRequestDeadTimeouts = 2
  MaxWrites = 3
  udpResendLostPackets = TRUE
  udpAllowAsyncPermits = TRUE
  udpResendDelay = TRUE
  isLocal = TRUE
  StalePermits = FALSE
INVARIANTS SenderInv ResendListFits UnackedIsRequested
PROPERTY SilentReceiverAborts
