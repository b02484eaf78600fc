\* No fault, one refresh at a time. Each of the three fails (run with -continue):
\* the seed, several refreshes on one day, candidates with the same score.
SPECIFICATION Spec
CONSTANTS
  background = background
  page = page
  a = a
  b = b
  Refreshers <- MCOne
  Names <- MCNames
  Feeds <- MCTies
  NearLimit = 35
  AtLimit = 49
  MinQueueVolume = 100
  TradingDays <- MCThreeDays
  MaxDay = 3
  MaxCalls = 4
  MaxFaults = 0
INVARIANTS SeedIsNotFlagged StreakCountsDays TiesShowLongerStreakFirst
