CONSTANTS
  seg1 = seg1
  seg2 = seg2
  Nobody = Nobody
  Segments = {seg1}
  MaxFaults = 2
SPECIFICATION Spec
INVARIANT MigratedIsServed
CHECK_DEADLOCK FALSE
