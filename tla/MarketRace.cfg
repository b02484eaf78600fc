\* No fault: the background refresh and a page refresh overlap.
SPECIFICATION Spec
CONSTANTS
  background = background
  page = page
  Refreshers <- MCTwo
  Fillers <- MCNoFiller
  MaxDay = 3
  MaxDrift = 1
  PostCloseDrift = TRUE
  NBatches = 2
  RequiredDays = 3
  FaultKinds <- MCNoFaults
  MaxFaults = 0
PROPERTY FrozenRow
