SPECIFICATION FairSpec
CONSTANTS
  Proc = {p1, p2, p3}
  Ino = {n1, n2, n3}
  Alien = {n3}
  NoProc = NoProc
  NoIno = NoIno
  FullRefuses = FALSE
  PinFails = FALSE
  p1 = p1
  p2 = p2
  p3 = p3
  n1 = n1
  n2 = n2
  n3 = n3
INVARIANTS
  EndpointTypeOK
  ServerReachable
  GuardCoversEndpoint
PROPERTIES
  OnlyTheDeadAreUnlinked
  ReplacementRuns
