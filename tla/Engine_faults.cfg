SPECIFICATION Spec
CONSTANTS
  Displays = {d1}
  MaxGen = 2
  MaxSeq = 3
  Levels = {0}
  Inputs = {}
  Faults = {"panic", "read fails", "write timeout", "write refused", "write lost", "outside"}
  PanelMax <- Max100
  PanelStart <- Start40
  OutsideLevels = {70}
INVARIANTS
  
  NoEcho
  WorkingPanelKeepsHardware
  DriversVerify
  DriversKeepScale
  ProbesNeedEvidence
