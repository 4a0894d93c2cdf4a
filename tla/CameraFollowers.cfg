CONSTANTS
  cam1 = cam1
  cam2 = cam2
  NoOnvif = NoOnvif
  Cameras = {cam1, cam2}
  Configs <- MCConfigs
  DiffCapable = FALSE
  MaxChanges = 2
  MaxFaults = 2
SPECIFICATION FairSpec
INVARIANTS
  TypeOK
  SettledServesCameras
PROPERTIES
  EventuallyServes
  EventuallyWatches
