CONSTANTS
  cam1 = cam1
  cam2 = cam2
  req1 = req1
  req2 = req2
  Cameras = {cam1, cam2}
  Handlers = {req1, req2}
  Capacity = 1
  MaxVersion = 1
  MaxChanges = 2
  MaxFaults = 0
SPECIFICATION Spec
INVARIANT CapacityRespected
CHECK_DEADLOCK FALSE
