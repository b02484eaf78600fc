\* One refresh at a time and the scheduled backfill, with revisions by the
\* vendor, lost snapshots, cancelled backfills and crashes.
SPECIFICATION Spec
CONSTANTS
  background = background
  page = page
  Refreshers <- MCOne
  Fillers <- MCScheduler
  MaxDay = 3
  MaxDrift = 1
  PostCloseDrift = TRUE
  NBatches = 2
  RequiredDays = 3
  FaultKinds <- MCStoreHolds
  MaxFaults = 1
INVARIANTS SnapshotMatchesRow CandleRowsAreWhole
PROPERTIES ImplementsDailyTable FrozenRow FillLeavesNoGap
