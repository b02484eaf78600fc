\* What the documents say. Both fail (run with -continue): the key of a bull
\* spread without K1, the Static ROI as a premium yield.
SPECIFICATION Spec
CONSTANTS
  Contracts <- MCContracts
  Quotes <- MCQuotes
  Spots <- MCSpots
  Expiries <- MCExpiries
  FirstDays <- MCFirstDays
  MinDays = 2
  MaxDays = 4
  Finals <- MCFinals
  MaxListed = 3
  ArbitrageRThreshold = 5
  ArbitrageR12Threshold = 10
  CoveredCallROIThreshold = 30
  BullSpreadThreshold <- MCBullThreshold
  BearPutSpreadThreshold <- MCBearThreshold
  Rules <- MCRules
INVARIANTS BullSpreadKeyNamesK2 StaticROIIsPremiumYield
