\* Two senders, one key, every kind of fault: the deduplication promise.
SPECIFICATION FairSpec
CONSTANTS
  s1 = s1
  s2 = s2
  k1 = k1
  k2 = k2
  Nobody = Nobody
  Senders <- MCSenders
  Keys <- MCOneKey
  NChats = 2
  Window = 2
  MaxTime = 5
  FaultKinds <- AllFaults
  MaxFaults = 2
INVARIANTS OneSenderPerKey SenderOwnsRow RowIsAccountedFor
PROPERTIES ConfirmedIsQuiet ImplementsDedup EventuallyConfirmed
