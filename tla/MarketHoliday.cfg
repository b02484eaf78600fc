\* No fault: the vendor revises a session after the close.
SPECIFICATION Spec
CONSTANTS
  background = background
  page = page
  Refreshers <- MCOne
  Fillers <- MCNoFiller
  MaxDay = 3
  MaxDrift = 1
  PostCloseDrift = TRUE
  NBatches = 2
  RequiredDays = 3
  FaultKinds <- MCNoFaults
  MaxFaults = 0
INVARIANT HolidayRecognised
