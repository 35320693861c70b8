------------------------------- MODULE Cluster -------------------------------
(***************************************************************************)
(* The server and its agents together, over a network that may break a     *)
(* connection at any time, and the properties of the whole.                *)
(***************************************************************************)
EXTENDS Server, Agent

vars == <<serverVars, agentVars, netVars, facts>>

-----------------------------------------------------------------------------

Init == ServerInit /\ AgentInit /\ NetInit

\* connect() of the agent and the first half of handleConn: one handshake.
Handshake(a) == connect(a) /\ registerNode(a, Load(a))

\* MsgAgentInfoRequest and its response, when no other message of the agent is
\* under way. Overtaken by one, the response repeats the load that one carries.
AgentInfo(a) ==
  /\ At(a, "read")
  /\ link[a] /\ agent[a] = "connected"
  /\ msgOutCh[a] = <<>> /\ toServer[a] = <<>>
  /\ \A w \in Conns : hand[a][w] = <<>>
  /\ reported' = [reported EXCEPT ![a] = Load(a)]
  /\ UNCHANGED <<store, logs, handler, cliChan, batch, offers, requests, server,
                 stops, agentVars, netVars, facts>>

ConnectionLost(a) ==
  /\ a \in Faulty
  /\ BreakLink(a)
  /\ Happened(Unreported(a), "lost")
  /\ UNCHANGED <<serverVars, agentVars>>

\* The jobs whose end a handler has read of and not yet recorded.
Unrecorded == {handler[a].job : a \in {b \in Agents : At(b, "close") \/ At(b, "final")}}

ServerLost ==
  /\ Stop \/ NilConnPanic
  /\ Happened(Unrecorded \cup UNION {Unreported(a) : a \in Agents}, "lost")
  /\ UNCHANGED agentVars

Next ==
  \/ ServerNext /\ UNCHANGED agentVars
  \/ AgentNext /\ UNCHANGED serverVars
  \/ \E a \in Agents : Handshake(a) \/ AgentInfo(a) \/ ConnectionLost(a)
  \/ ServerLost

Spec == Init /\ [][Next]_vars

\* Every goroutine that can go on does, connections are made again and a stopped
\* server is restarted. Commands end: their end waits in line for room in msgOutCh
\* with their output, which ends before them. Nothing is assumed of users, and
\* nothing makes a failure happen.
ServerFairness ==
  /\ WF_vars(ReadWaiting /\ UNCHANGED agentVars)
  /\ WF_vars(distribute /\ UNCHANGED agentVars)
  /\ WF_vars(\E p \in offers : Unicast(p) /\ UNCHANGED agentVars)
  /\ WF_vars(Send /\ UNCHANGED agentVars)
  /\ WF_vars(Restart /\ UNCHANGED agentVars)
  /\ \A a \in Agents : WF_vars(handleConn(a) /\ UNCHANGED agentVars)
  /\ \A u \in Users : WF_vars((CancelJob(u) \/ DeleteStatus(u)) /\ UNCHANGED agentVars)

AgentFairness ==
  \A a \in Agents :
    /\ WF_vars(Handshake(a))
    /\ WF_vars(ConnectionLoop(a) /\ UNCHANGED serverVars)
    /\ \A j \in Jobs :
         SF_vars((\E s \in {"SUCCESS", "ERROR"} : handleJobDone(a, j, s))
                   /\ UNCHANGED serverVars)
    /\ \A w \in Conns : WF_vars(Writer(a, w) /\ UNCHANGED serverVars)

FairSpec == Spec /\ ServerFairness /\ AgentFairness

-----------------------------------------------------------------------------
(* Types. *)

\* Every variable has its type.
TypeOK == ServerTypeOK /\ AgentTypeOK /\ NetTypeOK

-----------------------------------------------------------------------------
(* Safety. *)

\* An agent counts no more jobs as running than max_parallel_jobs allows, although
\* HasCapacity tests an unsigned difference that is large, not negative, beyond
\* that limit (agent/agent.go:32-34), and the server may offer the same job twice.
CapacityRespected ==
  \A a \in Agents : Load(a) <= MaxParallelJobs[a]

\* What an agent counts as running really runs: handleJobDone takes a job off the
\* count no later than its last execution ends (agent/agent.go:250-273).
CountedRuns ==
  \A a \in Agents : \A j \in jobsRunning[a] : exec[a][j] > 0

\* A job that waits is recorded at no agent, and no log of it is open but one that
\* handleConn is just about to record as SCHEDULED (server/tcp.go:155-169): a
\* failed registration leaves nothing behind that would block the next one.
WaitingUntouched ==
  \A j \in JobsWithStatus("WAITING") :
    /\ store[j].agent = NoAgent
    /\ j \in logs => \E a \in Agents : At(a, "status") /\ handler[a].job = j

\* The handler of agent a has job j in hand, or will find it lost.
Handles(a, j) ==
  \/ handler[a].job = j
  \/ j \in handler[a].todo
  \/ a \in nodes /\ ~handler[a].dying /\ store[j].agent = a /\ ~link[a]

\* A job recorded as SCHEDULED is one that somebody will still record the end of.
\* Jobs are never looked at again otherwise: nothing times out, the scheduler
\* reads WAITING jobs only, and a user can neither cancel such a job, for want of
\* an agent, nor delete it (lib/structs/job.go:60-66). It rests on the order of
\* registerScheduledJob (server/tcp.go:155-169), on the FIFO order of an agent's
\* messages and on deregisterNode (server/tcp.go:69-85).
NoJobStranded ==
  \A j \in JobsWithStatus("SCHEDULED") :
    \E a \in Agents :
      \/ Handles(a, j)
      \/ a \in nodes /\ ~handler[a].dying /\ store[j].agent = a /\ j \in Unreported(a)

\* As long as no agent fails, an open log file belongs to a job whose end is still
\* to come, so that every log file is closed in the end (server/disklog.go:28-57),
\* also when a user deletes the job meanwhile or it was offered twice.
OpenLogsWillClose ==
  \A j \in logs : \E a \in Agents : handler[a].job = j \/ j \in Unreported(a)

\* A job that becomes a SUCCESS is complete: its progress is 1 and no older update
\* has set it back (server/tcp.go:199-218).
SuccessIsComplete ==
  [][\A j \in Jobs : store'[j].status = "SUCCESS" /\ store[j].status # "SUCCESS"
                       => store'[j].progress = 1]_vars

\* The jobs table with the history of what happened implements the promise.
Promise == INSTANCE JobService WITH status <- [j \in Jobs |-> store[j].status]

Truthful == Promise!Spec

-----------------------------------------------------------------------------
(* Liveness. *)

\* A job does not wait forever as long as an agent that can run it stays.
WaitingEnds == \A j \in Jobs : store[j].status = "WAITING" ~> store[j].status # "WAITING"

\* A job does not stay SCHEDULED: its end or the loss of its agent is recorded.
ScheduledEnds ==
  \A j \in Jobs : store[j].status = "SCHEDULED" ~> store[j].status # "SCHEDULED"

-----------------------------------------------------------------------------
(* What the source says and the code does not do. *)

\* With the proxy nodes as they are, none of that is reached: a job leaves the queue
\* when a user cancels or deletes it, and no other way (server/scheduler.go:134).
StuckInQueue ==
  \A j \in Jobs : store[j].status \in {"absent", "WAITING", "CANCEL", "DELETE"}

\* "job is scheduled at a worker" (lib/structs/job.go:14): an agent has still to
\* report the end of a job recorded as SCHEDULED, or its handler has it in hand.
ScheduledAtWorker ==
  \A j \in JobsWithStatus("SCHEDULED") :
    \E a \in Agents : Handles(a, j) \/ j \in Unreported(a)

=============================================================================
