SPECIFICATION HandlerSpec
CONSTANTS
  b1 = b1
  b2 = b2
  b3 = b3
  Base = Base
  Default = Default
  Null = Null
  Library = Library
  Bundle <- MCBundle
  MaxDisplays = 2
INVARIANT HandlerIsMapped
CHECK_DEADLOCK FALSE
