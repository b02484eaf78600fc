\* No fault. Each fails (run with -continue): a message with a halt and a
\* reopening keyword, a symbol that is listed with a date and no message.
SPECIFICATION Spec
CONSTANTS
  a = a
  b = b
  page1 = page1
  page2 = page2
  Symbols <- MCOneSymbol
  Readers <- MCNoPage
  Listings <- MCDated
  Kinds <- MCHalts
  NewestFirst = TRUE
  MaxMessages = 2
  MaxTime = 3
  Crawler = FALSE
  FaultKinds <- MCNoFaults
  MaxFaults = 0
INVARIANTS MixedMessageOnce ListedMessageOnce
