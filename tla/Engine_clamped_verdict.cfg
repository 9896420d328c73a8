SPECIFICATION Spec
CONSTANTS
  Displays = {d1}
  MaxGen = 1
  MaxSeq = 3
  Levels = {100}
  Inputs = {}
  Faults = {}
  PanelMax <- Max50
  PanelStart <- Start50
  OutsideLevels = {70}
INVARIANT FallbackProvesNoControl
