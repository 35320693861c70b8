\* The server stops and is started again.
SPECIFICATION Spec
CONSTANTS
  a1 = a1
  a2 = a2
  j1 = j1
  j2 = j2
  gpu = gpu
  Agents = {a1}
  Jobs = {j1}
  Users = {}
  NoAgent = NoAgent
  NoJob = NoJob
  MaxParallelJobs <- Single
  JobRestrict <- NoTags
  Capabilities <- NoTags
  MaxConnections = 2
  NetCap = 1
  Recorded <- Fact
  CliCap = 1
  OutCap = 1
  MaxRuns = 1
  Chatty = {}
  Faulty = {}
  ProxyKeepsConn = TRUE
  MaxStops = 1
PROPERTY Truthful
CHECK_DEADLOCK FALSE
