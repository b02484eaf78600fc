\* A refresh whose LastDays fails.
SPECIFICATION Spec
CONSTANTS
  fold = fold
  foolad = foolad
  gold = gold
  Shares <- MCShares
  Feeds <- MCFeeds
  MaxDay = 3
  HistoryDays = 2
  Window = 2
  Scale = 2
  BreadthLimits <- MCBreadthLimits
  AdvanceLimits <- MCAdvanceLimits
  FaultKinds <- MCRead
INVARIANT AlertsUseTheWindow
