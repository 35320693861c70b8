\* The code as it is: the proxy nodes carry no connection.
SPECIFICATION Spec
CONSTANTS
  a1 = a1
  a2 = a2
  j1 = j1
  j2 = j2
  gpu = gpu
  Agents = {a1}
  Jobs = {j1, j2}
  Users = {u1}
  NoAgent = NoAgent
  NoJob = NoJob
  MaxParallelJobs <- Single
  JobRestrict <- NoTags
  Capabilities <- NoTags
  MaxConnections = 3
  NetCap = 1
  Recorded <- Fact
  CliCap = 1
  OutCap = 1
  MaxRuns = 2
  Chatty = {}
  Faulty = {}
  ProxyKeepsConn = FALSE
  MaxStops = 1
INVARIANT StuckInQueue
CHECK_DEADLOCK FALSE
