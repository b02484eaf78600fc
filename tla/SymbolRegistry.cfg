\* Two overlapping refreshes, two names, across a long weekend: up to three
\* refreshes store streaks, all of them on one day or on several, with an error.
SPECIFICATION Spec
CONSTANTS
  background = background
  page = page
  a = a
  b = b
  Refreshers <- MCTwo
  Names <- MCNames
  Feeds <- MCFeeds
  NearLimit = 35
  AtLimit = 49
  MinQueueVolume = 100
  TradingDays <- MCWeekend
  MaxDay = 5
  MaxCalls = 3
  MaxFaults = 1
SYMMETRY MCSymmetry
INVARIANTS FlaggedIsNew StreakNeverUndercounts ListIsExplained
