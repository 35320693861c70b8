\* Two executions of one job at a time, whose output may have a long line.
SPECIFICATION FairSpec
CONSTANTS
  s1 = s1
  s2 = s2
  j1 = j1
  Slots = {s1, s2}
  NoSlot = NoSlot
  Jobs = {j1}
  NoJob = NoJob
  OutCap = 1
  JobCap = 1
  MaxLines = 1
  LongLines = {j1}
INVARIANTS TypeOK EntryIsExecuted OutputBeforeEnd
PROPERTIES ImplementsExecutions ExecutionsEnd ReaderReturns
