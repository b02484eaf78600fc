\* One chat fails, the other does not: what the retry does.
SPECIFICATION Spec
CONSTANTS
  s1 = s1
  s2 = s2
  k1 = k1
  k2 = k2
  Nobody = Nobody
  Senders <- MCSenders
  Keys <- MCOneKey
  NChats = 2
  Window = 2
  MaxTime = 4
  FaultKinds <- MCChatFaults
  MaxFaults = 1
INVARIANT NoDuplicateInWindow
