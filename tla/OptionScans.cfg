\* Any three contracts of a small chain, so that two spreads may share a leg;
\* their books, the spot and the days left.
SPECIFICATION Spec
CONSTANTS
  Contracts <- MCContracts
  Quotes <- MCQuotes
  Spots <- MCSpots
  Expiries <- MCExpiries
  FirstDays <- MCFirstDays
  MinDays = 2
  MaxDays = 4
  Finals <- MCFinals
  MaxListed = 3
  ArbitrageRThreshold = 5
  ArbitrageR12Threshold = 10
  CoveredCallROIThreshold = 30
  BullSpreadThreshold <- MCBullThreshold
  BearPutSpreadThreshold <- MCBearThreshold
  Rules <- MCRules
INVARIANTS SpreadRiskAndReward OneAlertPerPosition ArbitrageIsLockedIn CoveredCallReturns
