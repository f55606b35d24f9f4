SPECIFICATION Spec
CONSTANTS
  p1 = p1
  p2 = p2
  s1 = s1
  s2 = s2
  f1 = f1
  f2 = f2
  f3 = f3
  None = None
  Proc <- MCProc
  Sound <- MCSound
  File <- MCFile
  Parts = 2
  Saver <- MCProc
  NParams = 3
  Top = 1
  Def <- MCDef
  NaN = NaN
  MaxStateValues = 4
  Carried = {0, 1}
  FormatVersion = 1
  MaxLines = 8
  MaxNameLength = 3
  Bad = Bad
INVARIANT SettledPresetIsWhole
