SPECIFICATION FairSpec
CONSTANTS
  Latency = 2
  MaxBlock = 2
  CallSizes <- MCCallSizes
  Counts <- MCCounts
  Sample <- MCSample
  Silence = 0
  Full = 5
  SwitchStep = 2
  BypassStep = 2
  Horizon = 1
INVARIANT WetFadesIn
PROPERTIES DryIsDelayed GainRamps EngineGoesIdle
