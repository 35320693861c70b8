\* One job, an agent with room for two, one user: the job may be executed twice.
SPECIFICATION Spec
CONSTANTS
  a1 = a1
  a2 = a2
  j1 = j1
  j2 = j2
  gpu = gpu
  Agents = {a1}
  Jobs = {j1}
  Users = {u1}
  NoAgent = NoAgent
  NoJob = NoJob
  MaxParallelJobs <- Double
  JobRestrict <- NoTags
  Capabilities <- NoTags
  MaxConnections = 1
  NetCap = 1
  Recorded <- Fact
  CliCap = 1
  OutCap = 1
  MaxRuns = 2
  Chatty = {}
  Faulty = {}
  ProxyKeepsConn = TRUE
  MaxStops = 0
INVARIANTS TypeOK CountedRuns OpenLogsWillClose
PROPERTY Truthful
CHECK_DEADLOCK FALSE
