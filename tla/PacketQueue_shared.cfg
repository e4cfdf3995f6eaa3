\* Three writers, one remover; the list holds two.  All writes done, the system stops.
SPECIFICATION FairSpec
CONSTANTS
  Writers = {w1, w2, w3}
  Popper = popper
  Removers = {r1}
  Limit = 2
  MaxWrites = 6
CHECK_DEADLOCK FALSE
INVARIANTS TypeOK NoLostWakeup WaitersCounted DataSignalled
PROPERTY WriteReturns
