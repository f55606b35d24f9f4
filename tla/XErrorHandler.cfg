SPECIFICATION HandlerSpec
CONSTANTS
  b1 = b1
  b2 = b2
  b3 = b3
  Base = Base
  Default = Default
  Null = Null
  Library = Library
  Bundle <- MCBundle
  MaxDisplays = 2
INVARIANT ErrorsReachTheirOwner
\* Once every bundle is unloaded nothing is left to happen.
CHECK_DEADLOCK FALSE
