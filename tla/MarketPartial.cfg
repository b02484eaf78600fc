\* Each of the two fails (run with -continue): the candles of one batch cannot be
\* fetched; what a backfill has stored between two batches, without any fault too.
SPECIFICATION Spec
CONSTANTS
  background = background
  page = page
  Refreshers <- MCOne
  Fillers <- MCScheduler
  MaxDay = 3
  MaxDrift = 1
  PostCloseDrift = FALSE
  NBatches = 2
  RequiredDays = 3
  FaultKinds <- MCCandle
  MaxFaults = 1
INVARIANTS CandleRowsAreWhole BatchProgressIsSaved
