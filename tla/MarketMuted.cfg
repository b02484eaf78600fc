\* No fault: refreshes of a trading day after its row is recorded.
SPECIFICATION Spec
CONSTANTS
  background = background
  page = page
  Refreshers <- MCOne
  Fillers <- MCNoFiller
  MaxDay = 3
  MaxDrift = 1
  PostCloseDrift = FALSE
  NBatches = 2
  RequiredDays = 3
  FaultKinds <- MCNoFaults
  MaxFaults = 0
PROPERTY TradingDayIsNotMuted
