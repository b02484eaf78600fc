\* The crawler and listings with and without a message and a date; safety only.
SPECIFICATION Spec
CONSTANTS
  a = a
  b = b
  page1 = page1
  page2 = page2
  Symbols <- MCOneSymbol
  Readers <- MCOnePage
  Listings <- MCOneItem
  Kinds <- MCClear
  NewestFirst = TRUE
  MaxMessages = 1
  MaxTime = 3
  Crawler = TRUE
  FaultKinds <- AllFaults
  MaxFaults = 1
INVARIANTS TypeOK PageNotOlderThanStamp MessageRecordedOnce
