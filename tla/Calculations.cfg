\* More than one 33-year cycle around the leap century 2000; every shape of an
\* answer with up to two elements; every pricing of three prices on nine points.
SPECIFICATION MCSpec
CONSTANTS
  FirstYear = 1996
  LastYear = 2036
  Names = {1, 2}
  MaxList = 2
  Top = 8
  Spot = 4
  MaxPrice = 3
  Curves <- MCCurves
  Tolerance = 1
  Slack = 2
  MaxIterations = 4
  Width <- MCWidth
  MinDays = 1
INVARIANTS RefusalIsAnError NothingIsDropped SolvableIsSolved
PROPERTY DatesStayConsecutive
