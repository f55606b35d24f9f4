SPECIFICATION Spec
CONSTANTS
  v1 = v1
  v2 = v2
  k1 = k1
  k2 = k2
  View <- MCView
  Param <- MCParam
  Knob <- MCKnob
  Switch = Switch
  Top = 2
  Factor = 2
  Height = {0, 1}
  Preset <- MCPreset
  State <- MCState
  None = None
INVARIANTS CopiesAgree GesturesAreDrags
PROPERTY KnobNeverJumps
SYMMETRY MCSymmetry
