CONSTANTS
  cam1 = cam1
  cam2 = cam2
  NoOnvif = NoOnvif
  Cameras = {cam1}
  Configs <- MCConfigs
  DiffCapable = FALSE
  MaxChanges = 2
  MaxFaults = 0
SPECIFICATION FairSpec
PROPERTIES
  LoginsReachTasks
