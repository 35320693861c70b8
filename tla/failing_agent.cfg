\* One agent that fails, one job, one user.
SPECIFICATION Spec
CONSTANTS
  a1 = a1
  a2 = a2
  j1 = j1
  j2 = j2
  gpu = gpu
  Agents = {a1}
  Jobs = {j1}
  Users = {u1}
  NoAgent = NoAgent
  NoJob = NoJob
  MaxParallelJobs <- Single
  JobRestrict <- NoTags
  Capabilities <- NoTags
  MaxConnections = 1
  NetCap = 1
  Recorded <- Fact
  CliCap = 1
  OutCap = 1
  MaxRuns = 1
  Chatty = {}
  Faulty = {a1}
  ProxyKeepsConn = TRUE
  MaxStops = 0
 
PROPERTY Truthful
CHECK_DEADLOCK FALSE
