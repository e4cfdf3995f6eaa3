\* A sender waits while another one holds the only slot.
SPECIFICATION FairSpec
CONSTANTS
  FlowMod = 8
  Senders = {s1, s2}
  MaxPermitsPerSender = 2
  QueueSize = 1
  maxSlotsPerSender = 1
  udpMaxPendingPermits = 2
  udpMinSlotsPerSender = 1
  udpMaxPermitDeadTimeouts = 1
  udpAllowAsyncPermits = FALSE
  udpResendDelay = FALSE
  InOrder = FALSE
  MaxFlow = 1
  MaxData = 0
  MaxResend = 0
  MaxMsgSeq = 1
  NetLimit = 2
INVARIANT ListsAgree
PROPERTY RequestIsAnswered
