SPECIFICATION ServicesSpec
CONSTANTS
  Services = {"push", "project", "hub", "call", "export", "scope"}
  o1 = o1
  o2 = o2
  o3 = o3
  p = p
  q = q
  d3 = d3
  Orders = {o1, o2, o3}
  Projects = {p, q}
  ProjectOf <- MCProjectOf
  Seats = {s1}
  SeatStates <- MCSeatStates
  Columns <- MCColumns
  MaxRobotCon = 2
  MaxCTIQueueLen = 2
  NoOrder = NoOrder
  Conns = {c1, c2}
  Cap = 1
  Server = Server
  Reports <- MCReports
  SwitchTime = 2
  Users = {robot, agent}
  NoTime = NoTime
  Tasks = {1, 2, 3}
  Unsupported = {3}
  Stamps = {1, 2}
  Ids = {1, 2, 3}
  BatchSize = 1
  MaxFailures = 1
  NoTask = NoTask
  Depts = {d1, d2, d3}
  NoDept = NoDept
CONSTRAINT Narrow
INVARIANTS
  WithinLimits
  CalledOnce
  BatchFitsSeats
  ClosedOnce
  ShownCurrent
  RecordAgrees
  FileComplete
  ScopeFollowsTree
PROPERTIES
  DesertedCloses
  LeftChecksOut
  Exported
CHECK_DEADLOCK FALSE
