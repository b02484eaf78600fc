\* A price below the theoretical bound, within the tolerance.
SPECIFICATION MCSpec
CONSTANTS
  FirstYear = 1996
  LastYear = 2036
  Names = {1, 2}
  MaxList = 2
  Top = 8
  Spot = 4
  MaxPrice = 3
  Curves <- MCCurves
  Tolerance = 1
  Slack = 2
  MaxIterations = 4
  Width <- MCWidth
  MinDays = 1
INVARIANT StalePriceIsNoError
