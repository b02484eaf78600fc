\* Two refreshes, both backfills and every fault: what holds even then.
SPECIFICATION Spec
CONSTANTS
  background = background
  page = page
  Refreshers <- MCTwo
  Fillers <- AllFillers
  MaxDay = 2
  MaxDrift = 0
  PostCloseDrift = TRUE
  NBatches = 1
  RequiredDays = 2
  FaultKinds <- AllFaults
  MaxFaults = 1
SYMMETRY MCSymmetry
INVARIANTS RowOfItsOwnSession TodayIsLive
