SPECIFICATION Spec
CONSTANTS
  Displays = {d1}
  MaxGen = 3
  MaxSeq = 2
  Levels = {0}
  Inputs = {}
  Faults = {"panic", "open fails"}
  PanelMax <- Max100
  PanelStart <- Start120
  OutsideLevels = {70}
INVARIANTS
  TypeOK
  InFlightIsRecoverable
  GreyedExactlyWhenWorkerless
  OneWriter
  AbandonedOnlyAfterTwoStuck
PROPERTIES
  UserIntentWins
  KeepsLifecycle
  NoBystanderGreyed
  WorkersKeepToTheirSide
