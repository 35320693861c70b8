----------------------------- MODULE MCCluster -----------------------------
(***************************************************************************)
(* Small instances of Cluster for TLC.                                     *)
(***************************************************************************)
EXTENDS Cluster

F == INSTANCE Functions

CONSTANTS a1, a2, j1, j2, gpu

OneAgent == {a1}
TwoAgents == {a1, a2}

\* max_parallel_jobs
Single == [a \in Agents |-> 1]
Double == [a \in Agents |-> 2]

\* The tags that jobs ask for and agents have: none, or one that a2 lacks.
NoTags == [x \in Jobs \cup Agents |-> {}]
TaggedJobs == [j \in Jobs |-> IF j = j1 THEN {gpu} ELSE {}]
TaggedAgents == [a \in Agents |-> IF a = a1 THEN {gpu} ELSE {}]

\* A bound for two agents: the executions, and the messages on their way in either
\* direction. With three, both agents may have accepted the job.
UnderWay ==
  Cardinality(offers) + Len(cliChan)
    + F!FoldFunction(+, 0, [a \in Agents |->
        Len(toAgent[a]) + Len(toServer[a]) + Len(msgOutCh[a])
          + Cardinality({w \in Conns : hand[a][w] # <<>>})
          + F!FoldFunction(+, 0, exec[a])])

FewUnderWay == UnderWay <= 3

\* All of the state but the history and the progress, which no action reads.
NoHistory ==
  <<[j \in Jobs |-> <<store[j].status, store[j].agent>>], logs, reported, handler,
    cliChan, batch, offers, requests, server, stops, agentVars, netVars>>

=============================================================================
