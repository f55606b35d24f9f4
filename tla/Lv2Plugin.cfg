CONSTANTS
  NParams = 1
  Top = 1
  Def <- MCDef
  NaN = NaN
  MaxStateValues = 2
  Bits <- MCBits
  Unconnected = Unconnected
SPECIFICATION Spec
INVARIANTS PanelIsSound PresetAgrees
PROPERTIES LoadedStays RestoreIsWhole
