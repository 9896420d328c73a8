SPECIFICATION Spec
CONSTANTS
  i1 = i1
  i2 = i2
  d1 = d1
  d2 = d2
  f1 = f1
  f2 = f2
  Ids = {i1}
  Devices = {d1}
  Factors = {f1}
  Home <- OneHome
  Tinted = {}
  MaxEvents = 1
  MaxChanges = 2
  MaxLaunches = 1
  Faults = {"refuse"}
INVARIANT StaleRampsGo
