CONSTANTS
  cam1 = cam1
  cam2 = cam2
  req1 = req1
  req2 = req2
  Cameras = {cam1, cam2}
  Handlers = {req1, req2}
  Capacity = 1
  MaxVersion = 2
  MaxChanges = 3
  MaxFaults = 1
SPECIFICATION FairSpec
INVARIANTS
  TypeOK
  ServedNodeFollows
  OvershootBounded
PROPERTY EventuallyFollows
CHECK_DEADLOCK FALSE
