\* One symbol, listed with and without a date, one page, one fault of any kind.
SPECIFICATION FairSpec
CONSTANTS
  a = a
  b = b
  page1 = page1
  page2 = page2
  Symbols <- MCOneSymbol
  Readers <- MCOnePage
  Listings <- MCDated
  Kinds <- MCPair
  NewestFirst = TRUE
  MaxMessages = 2
  MaxTime = 3
  Crawler = FALSE
  FaultKinds <- AllFaults
  MaxFaults = 1
INVARIANTS PageNotOlderThanStamp MessageRecordedOnce
PROPERTIES HaltsFollowFeed EveryMessageIsRecorded ReopenIsAnnounced
