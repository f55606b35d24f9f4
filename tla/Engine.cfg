SPECIFICATION FairSpec
CONSTANTS
  Top = 2
  Default = 1
  RampSteps = 3
  Interval = 3
  Factor = 2
  CallSizes <- MCCallSizes
  Full = 3
  HoldN = 2
  Tables0 <- MCTables0
  Tables1 <- MCTables1
  MaxBlock = 3
  Signals <- MCSignals
INVARIANTS StartsAtRest KnobsAreRecent ResamplesExactly
PROPERTIES GateHolds KnobsSettle GateMutes
