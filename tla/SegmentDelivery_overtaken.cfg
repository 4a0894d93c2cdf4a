CONSTANTS
  seg1 = seg1
  seg2 = seg2
  cam1 = cam1
  NoEntry = NoEntry
  Segments = {seg1, seg2}
  Cameras = {cam1}
  CameraOf <- MCCameraOf
  MaxFaults = 0
  MaxFaultsTogether = 0
SPECIFICATION Spec
INVARIANT OvertakenStillIndexed
