\* Data packets are counted, queued and collated while permits come and go.
SPECIFICATION Spec
CONSTANTS
  FlowMod = 8
  Senders = {s1}
  MaxPermitsPerSender = 2
  QueueSize = 2
  maxSlotsPerSender = 1
  udpMaxPendingPermits = 2
  udpMinSlotsPerSender = 1
  udpMaxPermitDeadTimeouts = 1
  udpAllowAsyncPermits = TRUE
  udpResendDelay = TRUE
  InOrder = TRUE
  MaxFlow = 2
  MaxData = 2
  MaxResend = 1
  MaxMsgSeq = 1
  NetLimit = 2
INVARIANTS TypeOK ListsAgree FlowOrderInv GrantedHasPermit
PROPERTY GrantFits
