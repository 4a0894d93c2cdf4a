CONSTANTS
  cam1 = cam1
  cam2 = cam2
  req1 = req1
  req2 = req2
  Cameras = {cam1}
  Handlers = {req1}
  Capacity = 1
  MaxVersion = 1
  MaxChanges = 1
  MaxFaults = 1
SPECIFICATION Spec
INVARIANT ConnectedIsReachable
CHECK_DEADLOCK FALSE
