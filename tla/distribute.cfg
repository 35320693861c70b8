\* Rounds of the scheduler over two agents and three jobs.
SPECIFICATION FairSpec
CONSTANTS
  a1 = a1
  a2 = a2
  j1 = j1
  j2 = j2
  j3 = j3
  tag = tag
  Agents = {a1, a2}
  Jobs = {j1, j2, j3}
  NoAgent = NoAgent
  Limits <- Room
  Capabilities <- Tags
  Definitions <- Posted
  Outputs <- Printed
  MaxPolls = 1
INVARIANTS TypeOK RoundIsPlacement SearchIsRight NotOvertaken MemoryPromised
PROPERTY EventuallyPlaced
CHECK_DEADLOCK FALSE
