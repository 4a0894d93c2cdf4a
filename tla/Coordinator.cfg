CONSTANTS
  user1 = user1
  user2 = user2
  client1 = client1
  client2 = client2
  login1 = login1
  login2 = login2
  keep30 = keep30
  keep365 = keep365
  keepNew = keepNew
  NoPolicy = NoPolicy
  admin1 = admin1
  admin2 = admin2
  rec1 = rec1
  rec2 = rec2
  host1 = host1
  host2 = host2
  nodeHost = nodeHost
  browser1 = browser1
  Users = {user1, user2}
  FirstAdmin = user1
  Clients = {client1, client2}
  Requests = {login1, login2}
  MaxTokens = 3
  MaxEdits = 2
  Policies = {keep30, keep365, keepNew}
  Seeded = {keep30, keep365}
  FirstDefault = keep30
  Admins = {admin1, admin2}
  Recordings = {rec1, rec2}
  MaxDays = 2
  BatchSize = 1
  MaxRequests = 3
  MaxMixedRequests = 2
  MaxErrors = 1
  MaxNodes = 3
  MaxJudged = 3
  MaxCrashes = 3
  Addresses = {host1, host2}
  Browsers = {browser1}
  MaxConnects = 2
  MaxVisits = 3
  SegmentLength = 2
  KeyFrameGap = 1
  MaxTime = 4
  Hosts = {nodeHost}
  StepTime = 1
  RenewInterval = 3
  Expiry = 7
  Cooldown = 2
  Retry = 2
  MaxClock = 7
  MaxMixedTime = 4
  MaxReports = 2
  MaxMishaps = 2
SPECIFICATION MCSpec
INVARIANTS
  CoordinatorTypeOK
  OverStaysOver
  SignedInStays
  PoliciesConsistent
  SomeoneProceeds
  IdentityIsStable
  AddressIsCurrent
  ShownIsTrue
  ExportCoversRange
  MotionFollowed
PROPERTIES
  DeadTokensStayDead
  ImplementsPolicyTable
  OnlyExpiredGo
SYMMETRY MCSymmetry
CHECK_DEADLOCK FALSE
