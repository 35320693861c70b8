\* A job with output, an agent that can run it and fails, and one that lacks a tag.
SPECIFICATION FairSpec
CONSTANTS
  a1 = a1
  a2 = a2
  j1 = j1
  j2 = j2
  gpu = gpu
  Agents = {a1, a2}
  Jobs = {j1}
  Users = {}
  NoAgent = NoAgent
  NoJob = NoJob
  MaxParallelJobs <- Single
  JobRestrict <- TaggedJobs
  Capabilities <- TaggedAgents
  MaxConnections = 1
  NetCap = 1
  Recorded = {}
  CliCap = 1
  OutCap = 1
  MaxRuns = 1
  Chatty = {j1}
  Faulty = {a1}
  ProxyKeepsConn = TRUE
  MaxStops = 0
PROPERTIES ScheduledEnds 
CHECK_DEADLOCK FALSE
