\* The backfill cannot read which days have snapshots.
SPECIFICATION Spec
CONSTANTS
  background = background
  page = page
  Refreshers <- MCOne
  Fillers <- MCScheduler
  MaxDay = 3
  MaxDrift = 1
  PostCloseDrift = FALSE
  NBatches = 2
  RequiredDays = 3
  FaultKinds <- MCPreserve
  MaxFaults = 1
PROPERTY FrozenRow
