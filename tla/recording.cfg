\* Two agents that may both accept the job, and a statement or a file that fails.
SPECIFICATION Spec
CONSTANTS
  a1 = a1
  a2 = a2
  j1 = j1
  Jobs = {j1}
  Agents = {a1, a2}
  API = API
  NoOne = NoOne
  Ends <- TheEnds
  Talkative = {a1}
  MaxFailures = 1
INVARIANTS TypeOK CreateIsRecorded EndIsAnnounced
  
CHECK_DEADLOCK FALSE
