SPECIFICATION Spec
CONSTANTS
  Width = 500
  Height = 790
  NParams = 1
  Top = 1
  Def <- MCDef
  NaN = NaN
  MaxStateValues = 2
  Switch = 0
  Plain <- MCPlain
  Sizes <- MCSizes
  Interval = 2
  MaxLate = 1
  MaxInFlight = 2
INVARIANTS FrameFits SizesSettle PanelShowsPorts TicksAreSpaced
PROPERTY Repaints
