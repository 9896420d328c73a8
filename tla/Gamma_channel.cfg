SPECIFICATION Spec
CONSTANTS
  i1 = i1
  i2 = i2
  d1 = d1
  d2 = d2
  f1 = f1
  f2 = f2
  Ids = {i1, i2}
  Devices = {d1, d2}
  Factors = {f1, f2}
  Home <- TwoHomes
  Tinted = {d2}
  MaxEvents = 2
  MaxChanges = 2
  MaxLaunches = 2
  Faults = {"refuse", "restore", "reset", "overlay", "kill", "panic"}
SYMMETRY FactorSymmetry
INVARIANTS
  GammaTypeOK
  LitRampIsMarked
  RecordIsLive
PROPERTIES
  DimmedThroughout
  SparesOtherPrograms
