CONSTANTS
  host1 = host1
  Hosts = {host1}
  SegmentLength = 1
  KeyFrameGap = 1
  MaxTime = 2
SPECIFICATION PlaybackSpec
INVARIANT ProxyReachesNode
CHECK_DEADLOCK FALSE
