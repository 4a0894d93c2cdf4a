CONSTANTS
  seg1 = seg1
  seg2 = seg2
  Nobody = Nobody
  Segments = {seg1}
  MaxFaults = 3
SPECIFICATION FairSpec
INVARIANTS
  TypeOK
  MigrationKeepsData
  RowLeadsToData
PROPERTIES
  ExpiredRowsGo
  OldFilesLeave
  ImplementsSegmentStore
CHECK_DEADLOCK FALSE
