SPECIFICATION Spec
CONSTANTS
  Displays = {d1}
  MaxGen = 2
  MaxSeq = 3
  Levels = {0}
  Inputs = {17}
  Faults = {}
  PanelMax <- Max100
  PanelStart <- Start40
  OutsideLevels = {70}
PROPERTY ExitsOnceSeenRetired
