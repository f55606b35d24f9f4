SPECIFICATION ViewSpec
CONSTANTS
  n1 = n1
  n2 = n2
  s1 = s1
  s2 = s2
  h1 = h1
  h2 = h2
  Nothing = Nothing
  Unsafe = Unsafe
  Name <- MCName
  Sound <- MCSound
  ArmTicks = 2
  Holder <- MCHolder
  Container = h1
  Mortal <- MCNone
  Ours = Ours
  Root = Root
  NoOne = NoOne
  MapFallbackTicks = 2
  MaxQueue = 2
SYMMETRY MCSymmetry
INVARIANT HeldOnlyForTheField
