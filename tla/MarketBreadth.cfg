\* Three days, the first left to the backfill; the row of a day may fail to be
\* stored.  LastDays returns fewer rows than there are days.
SPECIFICATION Spec
CONSTANTS
  fold = fold
  foolad = foolad
  gold = gold
  Shares <- MCShares
  Feeds <- MCFeeds
  MaxDay = 3
  HistoryDays = 2
  Window = 2
  Scale = 2
  BreadthLimits <- MCBreadthLimits
  AdvanceLimits <- MCAdvanceLimits
  FaultKinds <- MCRow
INVARIANTS TableExplainsCounts AverageAgreesWithTable AlertHasItsDay
