-------------------------------- MODULE Agent --------------------------------
(***************************************************************************)
(* The agents of taylor (agent/agent.go): the connection loop, the job     *)
(* runner with the exec driver (agent/drivers/exec.go), and the goroutines *)
(* that write the channel msgOutCh to the connection. Every connection     *)
(* starts such a writer and none of them ever ends.                        *)
(***************************************************************************)
EXTENDS Protocol

CONSTANTS
  OutCap,   \* capacity of the channel msgOutCh (5 in Run)
  MaxRuns,  \* bound: executions of one job in progress at one agent
  Chatty,   \* the jobs whose command writes output
  Faulty    \* the agents that may crash or lose their connection

ASSUME AgentAssumption ==
  /\ OutCap \in Nat \ {0}
  /\ MaxRuns \in Nat \ {0}
  /\ Chatty \subseteq Jobs
  /\ Faulty \subseteq Agents

VARIABLES
  agent,        \* agent[a]: between connections ("idle") or in its read loop
  jobsRunning,  \* jobsRunning[a]: the keys of the map jobsRunning
  exec,         \* exec[a][j]: goroutines of the runner that execute job j
  intr,         \* intr[a][j]: those of them whose process was interrupted
  msgOutCh,     \* msgOutCh[a]: the channel
  writers,      \* writers[a]: the writer goroutines, by their connection
  hand          \* hand[a][w]: the message writer w has taken from the channel

agentVars == <<agent, jobsRunning, exec, intr, msgOutCh, writers, hand>>

-----------------------------------------------------------------------------

Nothing == [j \in Jobs |-> 0]

EmptyHands == [w \in Conns |-> <<>>]

AgentInit ==
  /\ agent = [a \in Agents |-> "idle"]
  /\ jobsRunning = [a \in Agents |-> {}]
  /\ exec = [a \in Agents |-> Nothing]
  /\ intr = [a \in Agents |-> Nothing]
  /\ msgOutCh = [a \in Agents |-> <<>>]
  /\ writers = [a \in Agents |-> {}]
  /\ hand = [a \in Agents |-> EmptyHands]

\* The JobsRunning of GetMsgAgentInfo.
Load(a) == Cardinality(jobsRunning[a])

HasCapacity_OffByOne(a) == Load(a) <= MaxParallelJobs[a]

\* HasCapacity compares an unsigned difference with 0: it is true as well when
\* more jobs run than the agent has room for.
HasCapacity(a) == Load(a) # MaxParallelJobs[a]

canAcceptJob(a, j) == HasCapacity(a) /\ Capable(a, j)

\* The messages of agent a that its handler has not read.
InFlight(a) ==
  LET queues == {toServer[a], msgOutCh[a]} \cup {hand[a][w] : w \in Conns}
  IN UNION {{q[i] : i \in DOMAIN q} : q \in queues}

\* The jobs whose end agent a will still send to its handler, or has sent it.
Unreported(a) ==
  {j \in Jobs : exec[a][j] > 0 \/ \E m \in InFlight(a) : m.type = "done" /\ m.job = j}

\* A send on msgOutCh, which blocks while the channel is full.
Push(a, type, j, status, load) ==
  /\ Len(msgOutCh[a]) < OutCap
  /\ msgOutCh' = [msgOutCh EXCEPT
       ![a] = Append(@, [type |-> type, job |-> j, status |-> status, load |-> load])]

-----------------------------------------------------------------------------
(* The connection loop. *)

\* Dial and handshake, answered by the server's registerNode. The connection gets
\* a new writer.
connect(a) ==
  /\ agent[a] = "idle"
  /\ epoch[a] < MaxConnections
  /\ epoch' = [epoch EXCEPT ![a] = @ + 1]
  /\ agent' = [agent EXCEPT ![a] = "connected"]
  /\ writers' = [writers EXCEPT ![a] = @ \cup {epoch[a] + 1}]
  /\ link' = [link EXCEPT ![a] = TRUE]
  /\ toAgent' = [toAgent EXCEPT ![a] = <<>>]
  /\ toServer' = [toServer EXCEPT ![a] = <<>>]
  /\ UNCHANGED <<jobsRunning, exec, intr, msgOutCh, hand, facts>>

\* ReadMessage fails, and Run sleeps before it tries again. Jobs go on running.
Disconnected(a) ==
  /\ agent[a] = "connected"
  /\ ~link[a]
  /\ toAgent[a] = <<>>
  /\ agent' = [agent EXCEPT ![a] = "idle"]
  /\ UNCHANGED <<jobsRunning, exec, intr, msgOutCh, writers, hand, netVars, facts>>

Receives(a, type) ==
  /\ agent[a] = "connected"
  /\ toAgent[a] # <<>>
  /\ Head(toAgent[a]).type = type
  /\ toAgent' = [toAgent EXCEPT ![a] = Tail(@)]

rejectJobOffer(a) ==
  LET j == Head(toAgent[a]).job IN
  /\ Receives(a, "offer")
  /\ ~canAcceptJob(a, j)
  /\ Push(a, "rejected", j, "WAITING", Load(a))
  /\ UNCHANGED <<agent, jobsRunning, exec, intr, writers, hand, link, epoch,
                 toServer, facts>>

\* The job is entered in jobsRunning, which may hold it already, the answer is
\* sent and the job handed to the runner, which starts a goroutine for it.
acceptJobOffer(a) ==
  LET j == Head(toAgent[a]).job IN
  /\ Receives(a, "offer")
  /\ canAcceptJob(a, j)
  /\ exec[a][j] < MaxRuns
  /\ jobsRunning' = [jobsRunning EXCEPT ![a] = @ \cup {j}]
  /\ exec' = [exec EXCEPT ![a][j] = @ + 1]
  /\ Push(a, "accepted", j, "SCHEDULED", Cardinality(jobsRunning[a] \cup {j}))
  /\ Happened({j}, "accepted")
  /\ UNCHANGED <<agent, intr, writers, hand, link, epoch, toServer>>

\* The driver interrupts the process it knows for the job. An execution whose
\* process is not started yet, or not the one the driver knows, is not hit.
cancelJob(a) ==
  LET j == Head(toAgent[a]).job IN
  /\ Receives(a, "cancel")
  /\ \E n \in intr[a][j] .. exec[a][j] : intr' = [intr EXCEPT ![a][j] = n]
  /\ UNCHANGED <<agent, jobsRunning, exec, msgOutCh, writers, hand, link, epoch,
                 toServer, facts>>

-----------------------------------------------------------------------------
(* The runner. *)

\* A line of output.
onJobUpdate(a, j) ==
  /\ j \in Chatty
  /\ exec[a][j] > 0
  /\ Push(a, "update", j, "SCHEDULED", Load(a))
  /\ UNCHANGED <<agent, jobsRunning, exec, intr, writers, hand, netVars, facts>>

MayReport_Any(status, hit) == TRUE

\* The driver reports an interruption for an interrupted process only, and then
\* only when the process exits with an error. hit is 1 for an interrupted one.
MayReport(status, hit) == status = "CANCEL" => hit = 1

StillRunning_All(a, j) == jobsRunning[a]

\* The map jobsRunning after handleJobDone, even when the job is executed again.
StillRunning(a, j) == jobsRunning[a] \ {j}

\* An execution ends. Its process exits with 0, or with an error, which counts as
\* a cancellation when the process was interrupted.
handleJobDone(a, j, status) ==
  /\ exec[a][j] > 0
  /\ exec' = [exec EXCEPT ![a][j] = @ - 1]
  /\ \E hit \in {0, 1} :
       /\ hit <= intr[a][j]
       /\ intr[a][j] - hit <= exec[a][j] - 1
       /\ MayReport(status, hit)
       /\ intr' = [intr EXCEPT ![a][j] = @ - hit]
  /\ jobsRunning' = [jobsRunning EXCEPT ![a] = StillRunning(a, j)]
  /\ Push(a, "done", j, status, Cardinality(StillRunning(a, j)))
  /\ CASE status = "SUCCESS" -> Happened({j}, "succeeded")
       [] status = "ERROR" -> Happened({j}, "failed")
       [] status = "CANCEL" -> UNCHANGED facts
  /\ UNCHANGED <<agent, writers, hand, netVars>>

-----------------------------------------------------------------------------
(* The writers. *)

TakeOut(a, w) ==
  /\ w \in writers[a]
  /\ hand[a][w] = <<>>
  /\ msgOutCh[a] # <<>>
  /\ hand' = [hand EXCEPT ![a][w] = <<Head(msgOutCh[a])>>]
  /\ msgOutCh' = [msgOutCh EXCEPT ![a] = Tail(@)]
  /\ UNCHANGED <<agent, jobsRunning, exec, intr, writers, netVars, facts>>

\* Every writer writes to the connection of today, whichever one started it. Two
\* at once share the buffer of the connection without a lock: a message may then
\* be overwritten, or flushed twice. A write on a broken connection loses it.
WriteOut(a, w) ==
  LET m == hand[a][w]
      raced == \E v \in writers[a] \ {w} : hand[a][v] # <<>>
  IN
  /\ w \in writers[a]
  /\ m # <<>>
  /\ \/ /\ ~link[a]
        /\ UNCHANGED <<toServer, facts>>
     \/ /\ link[a]
        /\ \E written \in IF raced THEN {<<>>, m, m \o m} ELSE {m} :
             /\ Len(toServer[a] \o written) <= NetCap
             /\ toServer' = [toServer EXCEPT ![a] = @ \o written]
             /\ Happened(IF written = <<>> THEN {m[1].job} ELSE {}, "lost")
  /\ hand' = [hand EXCEPT ![a][w] = <<>>]
  /\ UNCHANGED <<agent, jobsRunning, exec, intr, msgOutCh, writers, link, epoch,
                 toAgent>>

-----------------------------------------------------------------------------

\* The process dies, and systemd starts it again with nothing in memory.
Crash(a) ==
  /\ a \in Faulty
  /\ epoch[a] > 0
  /\ agent' = [agent EXCEPT ![a] = "idle"]
  /\ jobsRunning' = [jobsRunning EXCEPT ![a] = {}]
  /\ exec' = [exec EXCEPT ![a] = Nothing]
  /\ intr' = [intr EXCEPT ![a] = Nothing]
  /\ msgOutCh' = [msgOutCh EXCEPT ![a] = <<>>]
  /\ writers' = [writers EXCEPT ![a] = {}]
  /\ hand' = [hand EXCEPT ![a] = EmptyHands]
  /\ link' = [link EXCEPT ![a] = FALSE]
  /\ toAgent' = [toAgent EXCEPT ![a] = <<>>]
  /\ \E q \in Delivered(toServer[a]) : toServer' = [toServer EXCEPT ![a] = q]
  /\ Happened(Unreported(a), "lost")
  /\ UNCHANGED epoch

ConnectionLoop(a) ==
  Disconnected(a) \/ rejectJobOffer(a) \/ acceptJobOffer(a) \/ cancelJob(a)

Runner(a, j) ==
  \/ onJobUpdate(a, j)
  \/ \E status \in EndStatus : handleJobDone(a, j, status)

Writer(a, w) == TakeOut(a, w) \/ WriteOut(a, w)

AgentNext ==
  \E a \in Agents :
    \/ ConnectionLoop(a)
    \/ \E j \in Jobs : Runner(a, j)
    \/ \E w \in Conns : Writer(a, w)
    \/ Crash(a)

AgentTypeOK ==
  /\ agent \in [Agents -> {"idle", "connected"}]
  /\ jobsRunning \in [Agents -> SUBSET Jobs]
  /\ exec \in [Agents -> [Jobs -> 0 .. MaxRuns]]
  /\ intr \in [Agents -> [Jobs -> 0 .. MaxRuns]]
  /\ msgOutCh \in [Agents -> Seq(Answer)]
  /\ writers \in [Agents -> SUBSET Conns]
  /\ hand \in [Agents -> [Conns -> Seq(Answer)]]

=============================================================================
