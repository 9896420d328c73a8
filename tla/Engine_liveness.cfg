SPECIFICATION FairSpec
CONSTANTS
  Displays = {d1}
  MaxGen = 2
  MaxSeq = 3
  Levels = {0}
  Inputs = {}
  Faults = {"hang"}
  PanelMax <- Max100
  PanelStart <- Start40
  OutsideLevels = {70}
PROPERTIES
  InFlightEnds
  ComesToRest
  RetiredWorkersLeave
