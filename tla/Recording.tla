----------------------------- MODULE Recording -----------------------------
(***************************************************************************)
(* How the server keeps the record of a job, at the level of its calls:    *)
(* the transactions of the jobs table (server/database/store.go), the open *)
(* log files (server/disklog.go) and the webhooks (server/handlers/        *)
(* webhook.go), as the goroutines of two connections and one request of    *)
(* the REST API use them (server/tcp.go, server/api.go). Server has every  *)
(* write as one step that cannot fail, and no webhooks.                    *)
(*                                                                         *)
(* Every job asks for a webhook for every event. A webhook is sent by a    *)
(* goroutine of its own: at any time the receiver has seen any part of     *)
(* announced, in any order.                                                *)
(***************************************************************************)
EXTENDS Naturals, Sequences

CONSTANTS
  Jobs,
  Agents,
  API,          \* the goroutine of a request of the REST API
  NoOne,        \* no agent, and no goroutine
  Ends,         \* bound: [Agents -> the statuses with which its jobs end]
  Talkative,    \* bound: the agents whose jobs have output
  MaxFailures   \* bound: statements and files that fail

ASSUME RecordingAssumption ==
  /\ API \notin Agents
  /\ NoOne \notin Agents \cup {API}
  /\ Ends \in [Agents -> SUBSET {"SUCCESS", "ERROR", "CANCEL"}]
  /\ Talkative \subseteq Agents
  /\ MaxFailures \in Nat

Goroutines == Agents \cup {API}

VARIABLES
  jobs,       \* the table: the status and the agent of every job
  tx,         \* the goroutine whose transaction is open
  leaked,     \* a statement failed, and its transaction stays open for ever
  files,      \* the keys of DiskLog.files
  todo,       \* todo[g]: the calls that goroutine g still makes for one job
  left,       \* left[a]: the jobs that the loop of deregisterNode has left
  conn,       \* conn[a]: the connection of agent a
  net,        \* net[a]: the messages of agent a that its goroutine has not read
  phase,      \* phase[a][j]: how far agent a is with job j
  failures,   \* statements and files that have failed
  announced,  \* the events for which a webhook has been sent, each with its agent
  stored      \* history: what every job has had in the two columns of the table

agentVars == <<conn, net, phase>>
vars == <<jobs, tx, leaked, files, todo, left, agentVars, failures, announced, stored>>

Init ==
  /\ jobs = [j \in Jobs |-> [status |-> "absent", agent |-> NoOne]]
  /\ tx = NoOne
  /\ leaked = FALSE
  /\ files = {}
  /\ todo = [g \in Goroutines |-> <<>>]
  /\ left = [a \in Agents |-> {}]
  /\ conn = [a \in Agents |-> "up"]
  /\ net = [a \in Agents |-> <<>>]
  /\ phase = [a \in Agents |-> [j \in Jobs |-> "idle"]]
  /\ failures = 0
  /\ announced = {}
  /\ stored = [j \in Jobs |-> {}]

-----------------------------------------------------------------------------
(* What the handlers do, as the sequence of their calls. *)

Call(do, j, val) == [do |-> do, job |-> j, val |-> val]

UpdateJobStatus(j, status) == Call("status", j, status)

UpdateJobAgentName(j, a) == Call("agent", j, a)

UpdateJobProgress(j) == Call("progress", j, NoOne)

handleUpdateHandlers(j, event) == Call("event", j, event)

registerScheduledJob_EventFirst(j, a) ==
  <<handleUpdateHandlers(j, "create"), Call("isOpen", j, NoOne), Call("open", j, NoOne),
    UpdateJobStatus(j, "SCHEDULED"), UpdateJobAgentName(j, a)>>

\* DiskLog.Open tests whether the log is open, and opens it.
registerScheduledJob(j, a) ==
  <<Call("isOpen", j, NoOne), Call("open", j, NoOne), UpdateJobStatus(j, "SCHEDULED"),
    UpdateJobAgentName(j, a), handleUpdateHandlers(j, "create")>>

EndStatus == {"SUCCESS", "ERROR", "CANCEL"}

EventOf(status) == CASE status = "SUCCESS" -> "done"
                     [] status = "ERROR" -> "error"
                     [] status = "CANCEL" -> "cancel"

deregisterScheduledJob_EventLast(j, status) ==
  <<Call("close", j, NoOne), UpdateJobStatus(j, status),
    handleUpdateHandlers(j, EventOf(status))>>

deregisterScheduledJob(j, status) ==
  <<handleUpdateHandlers(j, EventOf(status)), Call("close", j, NoOne),
    UpdateJobStatus(j, status)>>

handleMsgJobUpdate(j) == <<handleUpdateHandlers(j, "update"), UpdateJobProgress(j)>>

handleMsgJobDone(j, status) ==
  <<UpdateJobProgress(j)>> \o deregisterScheduledJob(j, status)

Handler(a, m) ==
  CASE m.type = "accepted" -> registerScheduledJob(m.job, a)
    [] m.type = "update" -> handleMsgJobUpdate(m.job)
    [] m.type = "done" -> handleMsgJobDone(m.job, m.status)

-----------------------------------------------------------------------------
(* One call of goroutine g. *)

TheCall(g) == Head(todo[g])

Calls(g, dos) == todo[g] # <<>> /\ TheCall(g).do \in dos

Done(g) == todo' = [todo EXCEPT ![g] = Tail(@)]

\* The handler returns at an error. deregisterNode goes on with its next job.
Return(g) == todo' = [todo EXCEPT ![g] = <<>>]

IsOpen(g) ==
  /\ Calls(g, {"isOpen"})
  /\ IF TheCall(g).job \in files THEN Return(g) ELSE Done(g)
  /\ UNCHANGED <<jobs, tx, leaked, files, left, agentVars, failures, announced, stored>>

Open(g) ==
  /\ Calls(g, {"open"})
  /\ files' = files \cup {TheCall(g).job}
  /\ Done(g)
  /\ UNCHANGED <<jobs, tx, leaked, left, agentVars, failures, announced, stored>>

CreateFails(g) ==
  /\ Calls(g, {"open"})
  /\ failures < MaxFailures
  /\ failures' = failures + 1
  /\ Return(g)
  /\ UNCHANGED <<jobs, tx, leaked, files, left, agentVars, announced, stored>>

Close_Returns(g) ==
  /\ Calls(g, {"close"})
  /\ files' = files \ {TheCall(g).job}
  /\ IF TheCall(g).job \in files THEN Done(g) ELSE Return(g)
  /\ UNCHANGED <<jobs, tx, leaked, left, agentVars, failures, announced, stored>>

\* A log that is not open is an error that is only printed.
Close(g) ==
  /\ Calls(g, {"close"})
  /\ files' = files \ {TheCall(g).job}
  /\ Done(g)
  /\ UNCHANGED <<jobs, tx, leaked, left, agentVars, failures, announced, stored>>

ExecWebhook(g) ==
  /\ Calls(g, {"event"})
  /\ announced' = announced \cup {[event |-> TheCall(g).val, job |-> TheCall(g).job, by |-> g]}
  /\ Done(g)
  /\ UNCHANGED <<jobs, tx, leaked, files, left, agentVars, failures, stored>>

Writes == {"insert", "status", "agent", "progress"}

\* The database has one transaction at a time.
Begin(g) ==
  /\ Calls(g, Writes)
  /\ tx = NoOne
  /\ tx' = g
  /\ UNCHANGED <<jobs, leaked, files, todo, left, agentVars, failures, announced, stored>>

AfterCommit_Open == tx

AfterCommit == NoOne

\* The statement and its Commit.
Commit(g) ==
  LET c == TheCall(g)
      column == IF c.do = "agent" THEN "agent" ELSE "status"
  IN
  /\ Calls(g, Writes)
  /\ tx = g
  /\ ~leaked
  /\ IF c.do = "progress"
       THEN UNCHANGED <<jobs, stored>>
       ELSE /\ jobs' = [jobs EXCEPT ![c.job][column] = c.val]
            /\ stored' = [stored EXCEPT ![c.job] = @ \cup {<<column, c.val>>}]
  /\ tx' = AfterCommit
  /\ Done(g)
  /\ UNCHANGED <<leaked, files, left, agentVars, failures, announced>>

\* The statement fails, and nobody rolls the transaction back.
ExecFails(g) ==
  /\ Calls(g, Writes)
  /\ tx = g
  /\ ~leaked
  /\ failures < MaxFailures
  /\ failures' = failures + 1
  /\ leaked' = TRUE
  /\ Return(g)
  /\ UNCHANGED <<jobs, tx, files, left, agentVars, announced, stored>>

Step(g) ==
  \/ IsOpen(g) \/ Open(g) \/ CreateFails(g) \/ Close(g) \/ ExecWebhook(g)
  \/ Begin(g) \/ Commit(g) \/ ExecFails(g)

-----------------------------------------------------------------------------
(* The connections. *)

ReadMessage(a) ==
  /\ todo[a] = <<>>
  /\ net[a] # <<>>
  /\ todo' = [todo EXCEPT ![a] = Handler(a, Head(net[a]))]
  /\ net' = [net EXCEPT ![a] = Tail(@)]
  /\ UNCHANGED <<jobs, tx, leaked, files, left, conn, phase, failures, announced, stored>>

JobsFromNode_Waiting(a) == {j \in Jobs : jobs[j].agent = a /\ jobs[j].status = "WAITING"}

JobsFromNode(a) == {j \in Jobs : jobs[j].agent = a /\ jobs[j].status = "SCHEDULED"}

\* The read error ends in deregisterNode.
deregisterNode(a) ==
  /\ todo[a] = <<>>
  /\ net[a] = <<>>
  /\ conn[a] = "lost"
  /\ conn' = [conn EXCEPT ![a] = "gone"]
  /\ left' = [left EXCEPT ![a] = JobsFromNode(a)]
  /\ UNCHANGED <<jobs, tx, leaked, files, todo, net, phase, failures, announced, stored>>

\* One round of its loop, for the jobs in any order.
FailNext(a) ==
  /\ todo[a] = <<>>
  /\ \E j \in left[a] :
       /\ todo' = [todo EXCEPT ![a] = deregisterScheduledJob(j, "ERROR")]
       /\ left' = [left EXCEPT ![a] = @ \ {j}]
  /\ UNCHANGED <<jobs, tx, leaked, files, agentVars, failures, announced, stored>>

\* The connection breaks. What is on its way may still be read.
ConnectionLost(a) ==
  /\ conn[a] = "up"
  /\ conn' = [conn EXCEPT ![a] = "lost"]
  /\ \E n \in 0 .. Len(net[a]) : net' = [net EXCEPT ![a] = SubSeq(@, 1, n)]
  /\ UNCHANGED <<jobs, tx, leaked, files, todo, left, phase, failures, announced, stored>>

-----------------------------------------------------------------------------
(* The REST API: one request at a time. Bound: none once a job has been cancelled or   *)
(* deleted.                                                                            *)

Request(j, call) ==
  /\ todo[API] = <<>>
  /\ stored[j] \cap ({"status"} \X {"CANCEL", "DELETE"}) = {}
  /\ todo' = [todo EXCEPT ![API] = <<call>>]
  /\ UNCHANGED <<jobs, tx, leaked, files, left, agentVars, failures, announced, stored>>

postJob(j) ==
  /\ jobs[j].status = "absent"
  /\ Request(j, Call("insert", j, "WAITING"))

CancelWaiting(j) ==
  /\ jobs[j].status = "WAITING"
  /\ Request(j, UpdateJobStatus(j, "CANCEL"))

deleteJob(j) ==
  /\ jobs[j].status \notin {"absent", "SCHEDULED", "DELETE"}
  /\ Request(j, UpdateJobStatus(j, "DELETE"))

-----------------------------------------------------------------------------
(* An agent: it accepts a job that waits, and reports its output and its end. *)

Sends(a, j, m, p) ==
  /\ conn[a] = "up"
  /\ net' = [net EXCEPT ![a] = Append(@, m)]
  /\ phase' = [phase EXCEPT ![a][j] = p]
  /\ UNCHANGED <<jobs, tx, leaked, files, todo, left, conn, failures, announced, stored>>

acceptJobOffer(a, j) ==
  /\ jobs[j].status = "WAITING"
  /\ phase[a][j] = "idle"
  /\ Sends(a, j, [type |-> "accepted", job |-> j], "accepted")

onJobUpdate(a, j) ==
  /\ a \in Talkative
  /\ phase[a][j] = "accepted"
  /\ Sends(a, j, [type |-> "update", job |-> j], "output")

handleJobDone(a, j) ==
  /\ phase[a][j] \in {"accepted", "output"}
  /\ \E status \in Ends[a] :
       Sends(a, j, [type |-> "done", job |-> j, status |-> status], "ended")

Next ==
  \/ \E g \in Goroutines : Step(g)
  \/ \E a \in Agents :
       \/ ReadMessage(a) \/ deregisterNode(a) \/ FailNext(a) \/ ConnectionLost(a)
       \/ \E j \in Jobs : acceptJobOffer(a, j) \/ onJobUpdate(a, j) \/ handleJobDone(a, j)
  \/ \E j \in Jobs : postJob(j) \/ CancelWaiting(j) \/ deleteJob(j)

\* Goroutines go on, and are given the transaction in turn. A job ends, or its agent is
\* lost for good.
Spec ==
  /\ Init
  /\ [][Next]_vars
  /\ \A g \in Goroutines : SF_vars(Step(g))
  /\ \A a \in Agents :
       /\ WF_vars(ReadMessage(a) \/ deregisterNode(a) \/ FailNext(a))
       /\ \A j \in Jobs : WF_vars(handleJobDone(a, j))

-----------------------------------------------------------------------------
(* Properties. *)

Status == {"absent", "WAITING", "SCHEDULED", "DELETE"} \cup EndStatus

Event == {"create", "update", "done", "error", "cancel"}

ACall ==
  [do : {"insert"}, job : Jobs, val : {"WAITING"}]
    \cup [do : {"status"}, job : Jobs, val : Status]
    \cup [do : {"agent"}, job : Jobs, val : Agents]
    \cup [do : {"event"}, job : Jobs, val : Event]
    \cup [do : {"isOpen", "open", "close", "progress"}, job : Jobs, val : {NoOne}]

Message ==
  [type : {"accepted", "update"}, job : Jobs]
    \cup [type : {"done"}, job : Jobs, status : EndStatus]

\* Every variable has its type, and an open transaction is that of a goroutine which is
\* about to write, or was left open by a statement that failed.
TypeOK ==
  /\ jobs \in [Jobs -> [status : Status, agent : Agents \cup {NoOne}]]
  /\ tx \in Goroutines \cup {NoOne}
  /\ leaked \in BOOLEAN
  /\ tx \in Goroutines => leaked \/ Calls(tx, Writes)
  /\ leaked => tx # NoOne
  /\ files \subseteq Jobs
  /\ todo \in [Goroutines -> Seq(ACall)]
  /\ left \in [Agents -> SUBSET Jobs]
  /\ conn \in [Agents -> {"up", "lost", "gone"}]
  /\ net \in [Agents -> Seq(Message)]
  /\ phase \in [Agents -> [Jobs -> {"idle", "accepted", "output", "ended"}]]
  /\ failures \in 0 .. MaxFailures
  /\ announced \subseteq [event : Event, job : Jobs, by : Agents]
  /\ stored \in [Jobs -> SUBSET ({"status", "agent"} \X (Status \cup Agents))]

\* Whoever is told that a job was created at an agent can rely on it: the table has had
\* it as SCHEDULED, at that agent, although each of the calls before the event may fail
\* and the goroutine of another agent that accepted the job writes the same row
\* (server/tcp.go:155-168).
CreateIsRecorded ==
  \A e \in announced :
    e.event = "create" => {<<"status", "SCHEDULED">>, <<"agent", e.by>>} \subseteq stored[e.job]

\* A job does not get the status of an end without an event, also when it ends with its
\* agent. A waiting job that a user cancels gets none (server/tcp.go:173-181, 393).
EndIsAnnounced ==
  \A j \in Jobs, status \in {"SUCCESS", "ERROR"} :
    <<"status", status>> \in stored[j] =>
      \E e \in announced : e.job = j /\ e.event = EventOf(status)

\* The event of an end is sent before the status is stored (server/tcp.go:174-193), but
\* the status follows, unless a statement fails: its transaction is never rolled back
\* (server/database/store.go:344), and no goroutine writes again.
EndIsStored ==
  []<>(leaked \/ \A e \in announced, status \in EndStatus :
                   e.event = EventOf(status) => <<"status", status>> \in stored[e.job])

\* A job does not stay SCHEDULED, whichever of its agents is lost and whatever log
\* cannot be opened, unless a statement fails.
ScheduledEnds == \A j \in Jobs : []<>(jobs[j].status # "SCHEDULED" \/ leaked)

=============================================================================
