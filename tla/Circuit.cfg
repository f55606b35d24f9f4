SPECIFICATION FairSpec
CONSTANTS
  Knobs <- MCKnobs
  Default = "default"
  MaxIterations = 5
  Decades = 4
  DcMaxIterations = 2
  DcRampSteps = 2
  Stamps = 3
INVARIANTS StaysFinite OneSample ChordIsFresh FreshBeforeGivingUp ReadyIsDerived
PROPERTY Returns
