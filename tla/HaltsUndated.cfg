\* No fault: two reopening messages without a time of publication.
SPECIFICATION FairSpec
CONSTANTS
  a = a
  b = b
  page1 = page1
  page2 = page2
  Symbols <- MCOneSymbol
  Readers <- MCNoPage
  Listings <- MCBare
  Kinds <- MCUndated
  NewestFirst = TRUE
  MaxMessages = 2
  MaxTime = 3
  Crawler = FALSE
  FaultKinds <- MCNoFaults
  MaxFaults = 0
PROPERTY ReopenIsAnnounced
