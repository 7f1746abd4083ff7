SPECIFICATION Spec
CONSTANTS
  Screen <- ThreePoints
  Windows <- TwoWindows
  Deltas <- OneRight
  Colours = {black, white}
  Requests <- WholeOrPart
  Cacheable <- NoneOrMiddle
  Pointers <- NoneOrMiddle
INVARIANTS TypeOK PendingIsEnough
PROPERTIES CopiesOnlyWhatIsSent UpdateBringsUpToDate
SYMMETRY ColourSymmetry
