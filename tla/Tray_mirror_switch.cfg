SPECIFICATION Spec
CONSTANTS
  Panels = {1, 2}
  BareId <- TwinsAndAnother
  X = X
  Y = Y
  Surfaces = {X, Y}
  NoSurface = NoSurface
  MaxAttached = 2
  MaxAnnounced = 1
  Floor = 20
  MinPerceived = 25
  UserLevels = {10}
  SavedLevels = {10}
  NudgedLevels = {10, 50}
  Readings = {33}
  Placeless = {}
  MayLackHardware <- SecondTwin
  Step = 40
INVARIANT GroupsFollowSurfaces
