------------------------------- MODULE Server -------------------------------
(***************************************************************************)
(* The server of taylor: the REST API (server/api.go), the scheduler       *)
(* (server/scheduler.go), the TCP server with its goroutine per agent and  *)
(* its sender (server/tcp.go), the jobs table (server/database/store.go)   *)
(* and the table of open log files (server/disklog.go).                    *)
(*                                                                         *)
(* Each goroutine is a program counter or a set of pending calls, and one  *)
(* action is what it does between two accesses to state that another       *)
(* goroutine can see. The jobs table is the only state that survives a     *)
(* stop of the server.                                                     *)
(***************************************************************************)
EXTENDS Protocol

CONSTANTS
  Users,           \* API clients: at most one request of each is in progress
  CliCap,          \* capacity of the channel cliChan (50 in StartTcp)
  ProxyKeepsConn,  \* does a proxy node of distribute() keep the connection?
                   \* FALSE is the code: the copy leaves the field conn nil
  MaxStops         \* bound: how often the server is stopped or crashes

ASSUME ServerAssumption ==
  /\ CliCap \in Nat \ {0}
  /\ ProxyKeepsConn \in BOOLEAN
  /\ MaxStops \in Nat

VARIABLES
  store,     \* store[j]: the row of job j in the jobs table
  logs,      \* jobs whose log file is in diskLog.files
  reported,  \* reported[a]: JobsRunning of the Node of agent a
  handler,   \* handler[a]: the goroutine handleConn of agent a
  cliChan,   \* the channel cliChan of (node, payload) pairs
  batch,     \* the jobs schedule() has read as WAITING
  offers,    \* the pairs of the goroutines schedule() waits for
  requests,  \* requests[u]: the API request of user u
  server,    \* the server process
  stops      \* how often it stopped

serverVars == <<store, logs, reported, handler, cliChan, batch, offers,
                requests, server, stops>>

-----------------------------------------------------------------------------

Row == [status : JobStatus, agent : Agents \cup {NoAgent}, progress : {0, 1}]

\* A Node with its connection, and the message for it.
Pair == [agent : Agents, conn : {NilConn} \cup Conns, msg : Request]

\* Where handleConn is: nowhere, in ReadMessage, in registerScheduledJob
\* (create, status, agentName), in deregisterScheduledJob (close, final) or in
\* the loop of deregisterNode (fail). todo are the jobs that loop has left.
Handler ==
  [pc : {"none", "read", "fail"}, job : {NoJob}, status : {"absent"},
   todo : SUBSET Jobs, dying : BOOLEAN]
    \cup [pc : {"create", "status", "agentName"}, job : Jobs, status : {"absent"},
          todo : SUBSET Jobs, dying : BOOLEAN]
    \cup [pc : {"close", "final"}, job : Jobs, status : EndStatus,
          todo : SUBSET Jobs, dying : BOOLEAN]

NoHandler == [pc |-> "none", job |-> NoJob, status |-> "absent", todo |-> {},
              dying |-> FALSE]

Reading == [pc |-> "read", job |-> NoJob, status |-> "absent", todo |-> {},
            dying |-> FALSE]

\* A request works on the row JobById returned; unicast is its call of Unicast.
NoRequest == [op |-> "none", job |-> NoJob, status |-> "absent",
              agent |-> NoAgent, conn |-> NilConn]

APIRequest ==
  {NoRequest}
    \cup [op : {"cancel", "delete"}, job : Jobs, status : JobStatus,
          agent : Agents \cup {NoAgent}, conn : {NilConn}]
    \cup [op : {"unicast"}, job : Jobs, status : {"SCHEDULED"}, agent : Agents,
          conn : {NilConn} \cup Conns]

\* The keys of the map TcpServer.nodes.
nodes == {a \in Agents : handler[a].pc # "none"}

JobsWithStatus(s) == {j \in Jobs : store[j].status = s}

\* Without the condition on the status.
JobsFromNodeWithStatus_Any(a, s) == {j \in Jobs : store[j].agent = a}

JobsFromNodeWithStatus(a, s) == {j \in JobsWithStatus(s) : store[j].agent = a}

\* The job that was asked for, in place of the agent that took it.
UpdateJobAgentName_Swapped(j, a) == store' = [store EXCEPT ![j].agent = j]

UpdateJobAgentName_Forgotten(j, a) == UNCHANGED store

UpdateJobProgress_Reset(j, p) == store' = [store EXCEPT ![j].progress = 0]

UpdateJobStatus(j, s) == store' = [store EXCEPT ![j].status = s]

UpdateJobAgentName(j, a) == store' = [store EXCEPT ![j].agent = a]

UpdateJobProgress(j, p) == store' = [store EXCEPT ![j].progress = p]

\* The maps of open files: DiskLog.Open after its test, and DiskLog.Close.
LogClosed_Leaks(j) == UNCHANGED logs

LogOpened(j) == logs' = logs \cup {j}

LogClosed(j) == logs' = logs \ {j}

\* The goroutine of agent a goes on at pc, with job j in hand; s is the status it
\* will record for it.
Goto(a, pc, j, s) ==
  handler' = [handler EXCEPT ![a] =
    [pc |-> pc, job |-> j, status |-> s, todo |-> @.todo, dying |-> @.dying]]

\* The same in deregisterNode, with the jobs J still to come.
GotoDying(a, pc, j, s, J) ==
  handler' = [handler EXCEPT ![a] =
    [pc |-> pc, job |-> j, status |-> s, todo |-> J, dying |-> TRUE]]

At(a, pc) == handler[a].pc = pc

ServerInit ==
  /\ store = [j \in Jobs |-> [status |-> "absent", agent |-> NoAgent, progress |-> 0]]
  /\ logs = {}
  /\ reported = [a \in Agents |-> 0]
  /\ handler = [a \in Agents |-> NoHandler]
  /\ cliChan = <<>>
  /\ batch = {}
  /\ offers = {}
  /\ requests = [u \in Users |-> NoRequest]
  /\ server = "up"
  /\ stops = 0

-----------------------------------------------------------------------------
(* The REST API. *)

postJob(j) ==
  /\ server = "up"
  /\ store[j].status = "absent"
  /\ store' = [store EXCEPT ![j].status = "WAITING"]
  /\ UNCHANGED <<logs, reported, handler, cliChan, batch, offers, requests,
                 server, stops, netVars, facts>>

\* patchJob and deleteJob up to the test CanCancel or CanDelete of the row they
\* read. They act on that row later, whatever becomes of the table meanwhile.
ReadRequest(u, j, op) ==
  /\ server = "up"
  /\ requests[u] = NoRequest
  /\ store[j].status # "absent"
  /\ IF op = "cancel" THEN CanCancel(store[j].status) ELSE CanDelete(store[j].status)
  /\ requests' = [requests EXCEPT
       ![u] = [op |-> op, job |-> j, status |-> store[j].status,
               agent |-> store[j].agent, conn |-> NilConn]]
  /\ Happened({j}, IF op = "cancel" THEN "cancelAsked" ELSE "deleteAsked")
  /\ UNCHANGED <<store, logs, reported, handler, cliChan, batch, offers, server,
                 stops, netVars>>

patchJob(u, j) == ReadRequest(u, j, "cancel")

deleteJob(u, j) == ReadRequest(u, j, "delete")

DeleteStatus(u) ==
  /\ requests[u].op = "delete"
  /\ UpdateJobStatus(requests[u].job, "DELETE")
  /\ requests' = [requests EXCEPT ![u] = NoRequest]
  /\ UNCHANGED <<logs, reported, handler, cliChan, batch, offers, server, stops,
                 netVars, facts>>

CancelWaiting(u) ==
  /\ requests[u].op = "cancel"
  /\ requests[u].status = "WAITING"
  /\ UpdateJobStatus(requests[u].job, "CANCEL")
  /\ requests' = [requests EXCEPT ![u] = NoRequest]
  /\ UNCHANGED <<logs, reported, handler, cliChan, batch, offers, server, stops,
                 netVars, facts>>

\* CancelJob of a scheduled job looks its agent up in nodes; without one it
\* returns an error and nothing else happens.
CancelScheduled(u) ==
  /\ requests[u].op = "cancel"
  /\ requests[u].status = "SCHEDULED"
  /\ requests' = [requests EXCEPT
       ![u] = IF requests[u].agent \in nodes
                THEN [@ EXCEPT !.op = "unicast", !.conn = epoch[requests[u].agent]]
                ELSE NoRequest]
  /\ UNCHANGED <<store, logs, reported, handler, cliChan, batch, offers, server,
                 stops, netVars, facts>>

\* sendCancelRequest blocks in Unicast while cliChan is full.
sendCancelRequest(u) ==
  /\ requests[u].op = "unicast"
  /\ Len(cliChan) < CliCap
  /\ cliChan' = Append(cliChan,
       [agent |-> requests[u].agent, conn |-> requests[u].conn,
        msg |-> [type |-> "cancel", job |-> requests[u].job]])
  /\ requests' = [requests EXCEPT ![u] = NoRequest]
  /\ UNCHANGED <<store, logs, reported, handler, batch, offers, server, stops,
                 netVars, facts>>

CancelJob(u) == CancelWaiting(u) \/ CancelScheduled(u) \/ sendCancelRequest(u)

-----------------------------------------------------------------------------
(* The scheduler. *)

\* schedule() reads the waiting jobs, once every offer of its last round has
\* been put on cliChan. It does not wait for the answers.
ReadWaiting ==
  /\ server = "up"
  /\ batch = {}
  /\ offers = {}
  /\ JobsWithStatus("WAITING") # {}
  /\ batch' = JobsWithStatus("WAITING")
  /\ UNCHANGED <<store, logs, reported, handler, cliChan, offers, requests,
                 server, stops, netVars, facts>>

\* What distribute() may return, as a function to the node of each job (see Placement;
\* that its loop returns nothing else is shown in Distribute).
Distributions(J) ==
  Placements(J, nodes, NoAgent, reported, MaxParallelJobs, Capable)

ProxyConn_Copied(a) == epoch[a]

\* The connection of the proxy node that distribute() hands out for node a.
ProxyConn(a) == IF ProxyKeepsConn THEN epoch[a] ELSE NilConn

distribute ==
  /\ batch # {}
  /\ \E D \in Distributions(batch) :
       offers' = {[agent |-> D[j], conn |-> ProxyConn(D[j]),
                   msg |-> [type |-> "offer", job |-> j]] :
                  j \in {i \in batch : D[i] # NoAgent}}
  /\ batch' = {}
  /\ UNCHANGED <<store, logs, reported, handler, cliChan, requests, server,
                 stops, netVars, facts>>

\* The call of Unicast in the goroutine of one offer.
Unicast(p) ==
  /\ p \in offers
  /\ Len(cliChan) < CliCap
  /\ cliChan' = Append(cliChan, p)
  /\ offers' = offers \ {p}
  /\ UNCHANGED <<store, logs, reported, handler, batch, requests, server, stops,
                 netVars, facts>>

-----------------------------------------------------------------------------
(* The sender goroutine of listen(). *)

\* Takes a pair from cliChan and writes it on the connection of its node, which
\* need not be the connection the agent has now.
Send ==
  /\ cliChan # <<>>
  /\ LET p == Head(cliChan)
         live == p.conn = epoch[p.agent] /\ link[p.agent]
     IN \/ /\ p.agent \notin nodes \/ (p.conn # NilConn /\ ~live)
           /\ UNCHANGED toAgent
        \/ /\ p.agent \in nodes
           /\ p.conn # NilConn
           /\ live
           /\ Len(toAgent[p.agent]) < NetCap
           /\ toAgent' = [toAgent EXCEPT ![p.agent] = Append(@, p.msg)]
  /\ cliChan' = Tail(cliChan)
  /\ UNCHANGED <<store, logs, reported, handler, batch, offers, requests, server,
                 stops, link, epoch, toServer, facts>>

-----------------------------------------------------------------------------
(* The goroutine handleConn of agent a. *)

\* A handshake the server accepts. registerNode refuses a second connection of
\* the same name, so this needs a name that is not in nodes.
registerNode(a, load) ==
  /\ server = "up"
  /\ a \notin nodes
  /\ handler' = [handler EXCEPT ![a] = Reading]
  /\ reported' = [reported EXCEPT ![a] = load]
  /\ UNCHANGED <<store, logs, cliChan, batch, offers, requests, server, stops>>

\* ReadMessage returns a message of one of these types, which updateNodeFromMessage
\* finds a node for.
Receive(a, types) ==
  /\ At(a, "read")
  /\ toServer[a] # <<>>
  /\ Head(toServer[a]).type \in types
  /\ toServer' = [toServer EXCEPT ![a] = Tail(@)]
  /\ reported' = [reported EXCEPT ![a] = Head(toServer[a]).load]

\* A rejected offer ends here. So does one whose log diskLog.Open finds open:
\* registerScheduledJob then returns before it touches the table.
handleMsgJobAccepted(a) ==
  LET m == Head(toServer[a]) IN
  /\ Receive(a, {"accepted", "rejected"})
  /\ IF m.type = "accepted" /\ m.job \notin logs
       THEN Goto(a, "create", m.job, "absent")
       ELSE UNCHANGED handler
  /\ UNCHANGED <<store, logs, cliChan, batch, offers, requests, server, stops,
                 link, epoch, toAgent, facts>>

\* The second half of diskLog.Open, after its test.
OpenLog(a) ==
  /\ At(a, "create")
  /\ LogOpened(handler[a].job)
  /\ Goto(a, "status", handler[a].job, "absent")
  /\ UNCHANGED <<store, reported, cliChan, batch, offers, requests, server, stops,
                 netVars, facts>>

RegisterStatus(a) ==
  /\ At(a, "status")
  /\ UpdateJobStatus(handler[a].job, "SCHEDULED")
  /\ Goto(a, "agentName", handler[a].job, "absent")
  /\ UNCHANGED <<logs, reported, cliChan, batch, offers, requests, server, stops,
                 netVars, facts>>

RegisterAgentName(a) ==
  /\ At(a, "agentName")
  /\ UpdateJobAgentName(handler[a].job, a)
  /\ Goto(a, "read", NoJob, "absent")
  /\ UNCHANGED <<logs, reported, cliChan, batch, offers, requests, server, stops,
                 netVars, facts>>

registerScheduledJob(a) == OpenLog(a) \/ RegisterStatus(a) \/ RegisterAgentName(a)

\* The status the agent sends is recorded as it is. Nobody asks whether the job
\* is registered at this agent.
handleMsgJobDone(a) ==
  LET m == Head(toServer[a]) IN
  /\ Receive(a, {"done"})
  /\ UpdateJobProgress(m.job, 1)
  /\ Goto(a, "close", m.job, m.status)
  /\ UNCHANGED <<logs, cliChan, batch, offers, requests, server, stops, link,
                 epoch, toAgent, facts>>

CloseLog(a) ==
  /\ At(a, "close")
  /\ LogClosed(handler[a].job)
  /\ Goto(a, "final", handler[a].job, handler[a].status)
  /\ UNCHANGED <<store, reported, cliChan, batch, offers, requests, server, stops,
                 netVars, facts>>

FinalStatus(a) ==
  /\ At(a, "final")
  /\ UpdateJobStatus(handler[a].job, handler[a].status)
  /\ Goto(a, IF handler[a].dying THEN "fail" ELSE "read", NoJob, "absent")
  /\ UNCHANGED <<logs, reported, cliChan, batch, offers, requests, server, stops,
                 netVars, facts>>

deregisterScheduledJob(a) == CloseLog(a) \/ FinalStatus(a)

\* The driver reports a progress of 0 with every line of output.
handleMsgJobUpdate(a) ==
  /\ Receive(a, {"update"})
  /\ UpdateJobProgress(Head(toServer[a]).job, 0)
  /\ UNCHANGED <<logs, handler, cliChan, batch, offers, requests, server, stops,
                 link, epoch, toAgent, facts>>

LostStatus_Requeued == "WAITING"

\* What deregisterNode records for the jobs of its agent.
LostStatus == "ERROR"

\* ReadMessage fails: deregisterNode collects the jobs recorded at the agent.
ReadError(a) ==
  /\ At(a, "read")
  /\ ~link[a]
  /\ toServer[a] = <<>>
  /\ GotoDying(a, "fail", NoJob, "absent", JobsFromNodeWithStatus(a, "SCHEDULED"))
  /\ UNCHANGED <<store, logs, reported, cliChan, batch, offers, requests, server,
                 stops, netVars, facts>>

\* One round of the loop of deregisterNode, up to deregisterScheduledJob.
FailNext(a) ==
  /\ At(a, "fail")
  /\ \E j \in handler[a].todo :
       GotoDying(a, "close", j, LostStatus, handler[a].todo \ {j})
  /\ UNCHANGED <<store, logs, reported, cliChan, batch, offers, requests, server,
                 stops, netVars, facts>>

RemoveNode(a) ==
  /\ At(a, "fail")
  /\ handler[a].todo = {}
  /\ handler' = [handler EXCEPT ![a] = NoHandler]
  /\ UNCHANGED <<store, logs, reported, cliChan, batch, offers, requests, server,
                 stops, netVars, facts>>

deregisterNode(a) == ReadError(a) \/ FailNext(a) \/ RemoveNode(a)

handleConn(a) ==
  \/ handleMsgJobAccepted(a) \/ registerScheduledJob(a)
  \/ handleMsgJobDone(a) \/ deregisterScheduledJob(a)
  \/ handleMsgJobUpdate(a) \/ deregisterNode(a)

-----------------------------------------------------------------------------
(* The process. *)

\* Everything but the jobs table is gone, and every connection with it.
ServerEnds(how) ==
  /\ server = "up"
  /\ server' = how
  /\ logs' = {}
  /\ reported' = [a \in Agents |-> 0]
  /\ handler' = [a \in Agents |-> NoHandler]
  /\ cliChan' = <<>>
  /\ batch' = {}
  /\ offers' = {}
  /\ requests' = [u \in Users |-> NoRequest]
  /\ link' = [a \in Agents |-> FALSE]
  /\ toServer' = [a \in Agents |-> <<>>]
  /\ \E left \in [Agents -> 0 .. NetCap] :
       /\ \A a \in Agents : left[a] <= Len(toAgent[a])
       /\ toAgent' = [a \in Agents |-> SubSeq(toAgent[a], 1, left[a])]
  /\ UNCHANGED <<store, epoch>>

\* A signal, an error in the Go runtime (the maps nodes and diskLog.files are
\* shared without a lock, and the runtime aborts on some such accesses), or a
\* power failure.
Stop ==
  /\ stops < MaxStops
  /\ stops' = stops + 1
  /\ ServerEnds("stopped")

\* The sender dereferences the connection that distribute() did not copy.
NilConnPanic ==
  /\ cliChan # <<>>
  /\ Head(cliChan).agent \in nodes
  /\ Head(cliChan).conn = NilConn
  /\ ServerEnds("panicked")
  /\ UNCHANGED stops

Restart ==
  /\ server # "up"
  /\ server' = "up"
  /\ UNCHANGED <<store, logs, reported, handler, cliChan, batch, offers, requests,
                 stops, netVars, facts>>

-----------------------------------------------------------------------------

ServerNext ==
  \/ \E j \in Jobs : postJob(j)
  \/ \E u \in Users, j \in Jobs : patchJob(u, j) \/ deleteJob(u, j)
  \/ \E u \in Users : CancelJob(u) \/ DeleteStatus(u)
  \/ ReadWaiting \/ distribute \/ \E p \in offers : Unicast(p)
  \/ Send
  \/ \E a \in Agents : handleConn(a)
  \/ Restart

ServerTypeOK ==
  /\ store \in [Jobs -> Row]
  /\ logs \subseteq Jobs
  /\ reported \in [Agents -> Nat]
  /\ handler \in [Agents -> Handler]
  /\ cliChan \in Seq(Pair)
  /\ batch \subseteq Jobs
  /\ offers \subseteq Pair
  /\ requests \in [Users -> APIRequest]
  /\ server \in {"up", "stopped", "panicked"}
  /\ stops \in 0 .. MaxStops

=============================================================================
