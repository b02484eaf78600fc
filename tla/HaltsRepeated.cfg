\* No fault: the feed lists one symbol twice.
SPECIFICATION FairSpec
CONSTANTS
  a = a
  b = b
  page1 = page1
  page2 = page2
  Symbols <- MCOneSymbol
  Readers <- MCNoPage
  Listings <- MCRepeated
  Kinds <- MCReopen
  NewestFirst = TRUE
  MaxMessages = 0
  MaxTime = 2
  Crawler = FALSE
  FaultKinds <- MCNoFaults
  MaxFaults = 0
PROPERTY HaltsFollowFeed
