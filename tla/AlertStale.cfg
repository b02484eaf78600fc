\* No fault at all: the same opportunity the next day, without a restart.
SPECIFICATION Spec
CONSTANTS
  s1 = s1
  s2 = s2
  k1 = k1
  k2 = k2
  Nobody = Nobody
  Senders <- MCSenders
  Keys <- MCOneKey
  NChats = 1
  Window = 2
  MaxTime = 4
  FaultKinds <- MCNoFaults
  MaxFaults = 0
PROPERTY StaleRowRetriggers
