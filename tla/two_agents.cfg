\* Two agents, one of which fails, compete for one job.
SPECIFICATION Spec
CONSTANTS
  a1 = a1
  a2 = a2
  j1 = j1
  j2 = j2
  gpu = gpu
  Agents = {a1, a2}
  Jobs = {j1}
  Users = {}
  NoAgent = NoAgent
  NoJob = NoJob
  MaxParallelJobs <- Single
  JobRestrict <- NoTags
  Capabilities <- NoTags
  MaxConnections = 1
  NetCap = 1
  Recorded = {}
  CliCap = 1
  OutCap = 1
  MaxRuns = 1
  Chatty = {}
  Faulty = {a1}
  ProxyKeepsConn = TRUE
  MaxStops = 0
INVARIANT NoJobStranded
VIEW NoHistory
CONSTRAINT FewUnderWay
CHECK_DEADLOCK FALSE
