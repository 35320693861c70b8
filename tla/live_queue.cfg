\* Two jobs, one agent, nothing fails: the queue drains.
SPECIFICATION FairSpec
CONSTANTS
  a1 = a1
  a2 = a2
  j1 = j1
  j2 = j2
  gpu = gpu
  Agents = {a1}
  Jobs = {j1, j2}
  Users = {}
  NoAgent = NoAgent
  NoJob = NoJob
  MaxParallelJobs <- Single
  JobRestrict <- NoTags
  Capabilities <- NoTags
  MaxConnections = 1
  NetCap = 1
  Recorded = {}
  CliCap = 1
  OutCap = 1
  MaxRuns = 1
  Chatty = {}
  Faulty = {}
  ProxyKeepsConn = TRUE
  MaxStops = 0
INVARIANT CapacityRespected
PROPERTY WaitingEnds
CHECK_DEADLOCK FALSE
