\* An agent loses its connection and opens a second one, with a second writer.
SPECIFICATION Spec
CONSTANTS
  a1 = a1
  a2 = a2
  j1 = j1
  j2 = j2
  gpu = gpu
  Agents = {a1}
  Jobs = {j1}
  Users = {u1}
  NoAgent = NoAgent
  NoJob = NoJob
  MaxParallelJobs <- Single
  JobRestrict <- NoTags
  Capabilities <- NoTags
  MaxConnections = 2
  NetCap = 2
  Recorded <- Fact
  CliCap = 1
  OutCap = 2
  MaxRuns = 2
  Chatty = {}
  Faulty = {a1}
  ProxyKeepsConn = TRUE
  MaxStops = 0
INVARIANT ScheduledAtWorker
CHECK_DEADLOCK FALSE
