------------------------------ MODULE JobProofs ------------------------------
(***************************************************************************)
(* What becomes of a job that an agent has accepted: theorems about        *)
(* Cluster for any number of agents, jobs and users. They are about what   *)
(* happens until an agent connects a second time: then the writers of two  *)
(* connections may swap two messages (agent/agent.go:130-139).             *)
(***************************************************************************)
EXTENDS AsIsProofs, SequenceTheorems

\* No agent has connected a second time.
Once == \A a \in Agents : epoch[a] <= 1

-----------------------------------------------------------------------------
(* What holds of connections, writers and handlers, however often an agent connects. *)

\* Nothing is known of an agent that has not connected yet.
UnknownBefore ==
  \A a \in Agents : epoch[a] = 0 =>
    /\ ~link[a] /\ agent[a] = "idle" /\ handler[a].pc = "none"
    /\ toAgent[a] = <<>> /\ toServer[a] = <<>> /\ msgOutCh[a] = <<>>
    /\ \A j \in Jobs : exec[a][j] = 0 /\ store[j].agent # a

\* A writer belongs to a connection that was made, and only writers hold messages.
WritersInv ==
  \A a \in Agents :
    /\ writers[a] \subseteq 1 .. epoch[a]
    /\ \A w \in Conns : w \notin writers[a] => hand[a][w] = <<>>

\* Only a handler in deregisterNode has jobs of a lost agent.
Shaped(h) ==
  /\ h.pc \in {"none", "read", "create", "status", "agentName"} => ~h.dying
  /\ h.pc = "fail" => h.dying
  /\ ~h.dying => h.todo = {}

DyingInv == \A a \in Agents : Shaped(handler[a])

Wiring == UnknownBefore /\ WritersInv /\ DyingInv

LEMMA WiringInit == Init => Wiring
<1> SUFFICES ASSUME Init PROVE Wiring
  OBVIOUS
<1> USE DEF Init, ServerInit, AgentInit, NetInit
<1>1. UnknownBefore
  BY ProtocolAssumption DEF UnknownBefore, NoHandler, Nothing
<1>2. WritersInv
  BY DEF WritersInv, EmptyHands
<1>3. DyingInv
  BY DEF DyingInv, Shaped, NoHandler
<1> QED BY <1>1, <1>2, <1>3 DEF Wiring

\* What Goto and GotoDying make of a handler.
LEMMA HandlerGoes ==
  ASSUME TypeOK, NEW a \in Agents, NEW pc, NEW j, NEW s, Goto(a, pc, j, s)
  PROVE  /\ handler'[a].pc = pc /\ handler'[a].job = j /\ handler'[a].status = s
         /\ handler'[a].todo = handler[a].todo /\ handler'[a].dying = handler[a].dying
         /\ \A b \in Agents \ {a} : handler'[b] = handler[b]
BY DEF Goto, TypeOK, ServerTypeOK

LEMMA HandlerDies ==
  ASSUME TypeOK, NEW a \in Agents, NEW pc, NEW j, NEW s, NEW J, GotoDying(a, pc, j, s, J)
  PROVE  /\ handler'[a].pc = pc /\ handler'[a].job = j /\ handler'[a].status = s
         /\ handler'[a].todo = J /\ handler'[a].dying = TRUE
         /\ \A b \in Agents \ {a} : handler'[b] = handler[b]
BY DEF GotoDying, TypeOK, ServerTypeOK

\* What a step of the handler of agent a leaves alone.
LEMMA HandlerFrame ==
  ASSUME TypeOK, NEW a \in Agents, handleConn(a)
  PROVE  /\ \A b \in Agents \ {a} : handler'[b] = handler[b] /\ toServer'[b] = toServer[b]
         /\ UNCHANGED <<link, epoch, toAgent, cliChan, batch, offers, requests, server, stops,
                        facts>>
         /\ handler[a].pc # "none"
<1> USE HandlerGoes, HandlerDies DEF Receive, netVars, At, TypeOK, ServerTypeOK, NetTypeOK
<1>1. CASE handleMsgJobAccepted(a) \/ handleMsgJobUpdate(a)
  BY <1>1 DEF handleMsgJobAccepted, handleMsgJobUpdate
<1>5. CASE handleMsgJobDone(a)
  BY <1>5 DEF handleMsgJobDone
<1>2. CASE registerScheduledJob(a)
  BY <1>2 DEF registerScheduledJob, OpenLog, RegisterStatus, RegisterAgentName
<1>3. CASE CloseLog(a)
  BY <1>3 DEF CloseLog
<1>6. CASE FinalStatus(a)
  BY <1>6 DEF FinalStatus
<1>4. CASE ReadError(a)
  BY <1>4 DEF ReadError
<1>7. CASE FailNext(a)
  BY <1>7 DEF FailNext
<1>8. CASE RemoveNode(a)
  BY <1>8 DEF RemoveNode
<1> QED BY <1>1, <1>5, <1>2, <1>3, <1>4, <1>6, <1>7, <1>8, Zenon
        DEF handleConn, deregisterScheduledJob, deregisterNode

\* No step of it gives a job to another agent than its own.
LEMMA HandlerAgent ==
  ASSUME TypeOK, NEW a \in Agents, handleConn(a), NEW j \in Jobs
  PROVE  \/ store'[j].agent = store[j].agent
         \/ RegisterAgentName(a) /\ j = handler[a].job /\ store'[j].agent = a
<1> USE DEF TypeOK, ServerTypeOK
<1> handler[a] \in Handler
  OBVIOUS
<1>1. CASE handleMsgJobAccepted(a) \/ OpenLog(a) \/ CloseLog(a) \/ deregisterNode(a)
  BY <1>1 DEF handleMsgJobAccepted, OpenLog, CloseLog, deregisterNode, ReadError,
              FailNext, RemoveNode
<1>2. CASE handleMsgJobDone(a) \/ handleMsgJobUpdate(a)
  <2>1. Head(toServer[a]).job \in Jobs
    BY <1>2, ReceivedTyped DEF handleMsgJobDone, handleMsgJobUpdate, Answer
  <2> QED BY <1>2, <2>1, TableKept DEF handleMsgJobDone, handleMsgJobUpdate
<1>3. CASE RegisterStatus(a) \/ FinalStatus(a)
  <2>1. handler[a].job \in Jobs
    BY <1>3, HandlerFields DEF RegisterStatus, FinalStatus, At
  <2> QED BY <1>3, <2>1 DEF RegisterStatus, FinalStatus, UpdateJobStatus, Row
<1>4. CASE RegisterAgentName(a)
  <2>1. handler[a].job \in Jobs
    BY <1>4, HandlerFields DEF RegisterAgentName, At
  <2> QED BY <1>4, <2>1 DEF RegisterAgentName, UpdateJobAgentName, Row
<1> QED BY <1>1, <1>2, <1>3, <1>4
        DEF handleConn, registerScheduledJob, deregisterScheduledJob

LEMMA WiringHandler ==
  ASSUME TypeOK, Wiring, NEW a \in Agents, handleConn(a), UNCHANGED agentVars
  PROVE  Wiring'
<1> USE DEF Wiring
<1>1. UNCHANGED <<link, epoch, toAgent>> /\ epoch[a] # 0
  BY HandlerFrame DEF UnknownBefore
<1>2. WritersInv'
  BY <1>1 DEF WritersInv, agentVars
<1>3. UnknownBefore'
  BY <1>1, HandlerFrame, HandlerAgent DEF UnknownBefore, agentVars
<1>4. DyingInv'
  <2> SUFFICES Shaped(handler'[a])
    BY HandlerFrame DEF DyingInv
  <2> Shaped(handler[a])
    BY DEF DyingInv
  <2> USE DEF Shaped, At
  <2>1. CASE handleMsgJobAccepted(a)
    BY <2>1, HandlerGoes DEF handleMsgJobAccepted, Receive
  <2>2. CASE OpenLog(a) \/ RegisterStatus(a) \/ RegisterAgentName(a)
    BY <2>2, HandlerGoes DEF OpenLog, RegisterStatus, RegisterAgentName
  <2>3. CASE handleMsgJobDone(a) \/ CloseLog(a)
    BY <2>3, HandlerGoes DEF Receive, handleMsgJobDone, CloseLog
  <2>4. CASE FinalStatus(a)
    <3>1. handler'[a].dying = handler[a].dying /\ handler'[a].todo = handler[a].todo
      BY <2>4, HandlerGoes DEF FinalStatus
    <3>2. handler'[a].pc = IF handler[a].dying THEN "fail" ELSE "read"
      BY <2>4, HandlerGoes DEF FinalStatus
    <3>3. handler[a].dying \in BOOLEAN
      BY HandlerFields DEF TypeOK, ServerTypeOK
    <3> QED BY <3>1, <3>2, <3>3
  <2>5. CASE handleMsgJobUpdate(a)
    BY <2>5 DEF handleMsgJobUpdate
  <2>6. CASE ReadError(a)
    <3>1. GotoDying(a, "fail", NoJob, "absent", JobsFromNodeWithStatus(a, "SCHEDULED"))
      BY <2>6 DEF ReadError
    <3>2. handler'[a].pc = "fail" /\ handler'[a].dying = TRUE
      BY <3>1, HandlerDies, ZenonT(30)
    <3> QED BY <3>2
  <2>8. CASE FailNext(a)
    <3>1. PICK j : GotoDying(a, "close", j, LostStatus, handler[a].todo \ {j})
      BY <2>8 DEF FailNext
    <3>2. handler'[a].pc = "close" /\ handler'[a].dying = TRUE
      BY <3>1, HandlerDies, ZenonT(30)
    <3> QED BY <3>2
  <2>7. CASE RemoveNode(a)
    BY <2>7 DEF RemoveNode, NoHandler, TypeOK, ServerTypeOK
  <2> QED BY <2>1, <2>2, <2>3, <2>4, <2>5, <2>6, <2>7, <2>8, Zenon
          DEF handleConn, registerScheduledJob, deregisterScheduledJob, deregisterNode
<1> QED BY <1>2, <1>3, <1>4

\* The rows of the jobs table after a write: only the field written has changed.
LEMMA RowsAfter ==
  ASSUME TypeOK, NEW j \in Jobs
  PROVE  /\ \A s \in JobStatus : UpdateJobStatus(j, s) =>
              /\ store'[j].status = s
              /\ \A i \in Jobs : /\ i # j => store'[i] = store[i]
                                 /\ store'[i].agent = store[i].agent
                                 /\ store'[i].progress = store[i].progress
         /\ \A a \in Agents : UpdateJobAgentName(j, a) =>
              /\ store'[j].agent = a
              /\ \A i \in Jobs : /\ i # j => store'[i] = store[i]
                                 /\ store'[i].status = store[i].status
                                 /\ store'[i].progress = store[i].progress
         /\ \A p \in {0, 1} : UpdateJobProgress(j, p) =>
              /\ store'[j].progress = p
              /\ \A i \in Jobs : /\ i # j => store'[i] = store[i]
                                 /\ store'[i].status = store[i].status
                                 /\ store'[i].agent = store[i].agent
BY DEF TypeOK, ServerTypeOK, Row, UpdateJobStatus, UpdateJobAgentName, UpdateJobProgress

\* The steps of users, of the scheduler, of the sender, and the restart.
Elsewhere ==
  \/ \E j \in Jobs : postJob(j)
  \/ \E u \in Users, j \in Jobs : patchJob(u, j) \/ deleteJob(u, j)
  \/ \E u \in Users : CancelJob(u) \/ DeleteStatus(u)
  \/ ReadWaiting \/ distribute \/ (\E p \in offers : Unicast(p))
  \/ Send \/ Restart

\* What they leave alone.
LEMMA ElsewhereFrame ==
  ASSUME TypeOK, Elsewhere
  PROVE  /\ UNCHANGED <<handler, logs, stops, link, epoch, toServer>>
         /\ \A a \in Agents : toAgent'[a] # toAgent[a] => link[a]
<1> USE DEF TypeOK, NetTypeOK, netVars
<1>1. CASE Send
  <2>1. Head(cliChan) \in Pair
    BY <1>1 DEF Send, ServerTypeOK
  <2> QED BY <1>1, <2>1 DEF Send, Pair
<1>2. CASE ~Send
  <2>1. UNCHANGED <<handler, logs, stops, netVars>>
    BY <1>2 DEF Elsewhere, postJob, patchJob, deleteJob, ReadRequest, CancelJob, CancelWaiting,
                CancelScheduled, sendCancelRequest, DeleteStatus, ReadWaiting, distribute,
                Unicast, Restart
  <2> QED BY <2>1
<1> QED BY <1>1, <1>2

\* A row that one of them changes is not that of a job SCHEDULED then or a SUCCESS,
\* nor does its agent or progress change.
LEMMA ElsewhereRows ==
  ASSUME TypeOK, Elsewhere, NEW j \in Jobs
  PROVE  /\ store'[j].agent = store[j].agent
         /\ store'[j].progress = store[j].progress
         /\ store'[j].status = store[j].status \/ store'[j].status \in {"WAITING", "CANCEL", "DELETE"}
<1>1. ASSUME NEW i \in Jobs, postJob(i)
      PROVE  UpdateJobStatus(i, "WAITING")
  BY <1>1 DEF postJob, UpdateJobStatus
<1>2. ASSUME NEW u \in Users, CancelWaiting(u) \/ DeleteStatus(u)
      PROVE  \E i \in Jobs, s \in {"CANCEL", "DELETE"} : UpdateJobStatus(i, s)
  <2>1. requests[u].job \in Jobs
    BY <1>2 DEF CancelWaiting, DeleteStatus, APIRequest, NoRequest, TypeOK, ServerTypeOK
  <2> QED BY <1>2, <2>1 DEF CancelWaiting, DeleteStatus
<1>3. \/ store' = store
      \/ \E i \in Jobs, s \in {"WAITING", "CANCEL", "DELETE"} : UpdateJobStatus(i, s)
  BY <1>1, <1>2 DEF Elsewhere, patchJob, deleteJob, ReadRequest, CancelJob, CancelScheduled,
                    sendCancelRequest, ReadWaiting, distribute, Unicast, Send, Restart
<1>4. ASSUME NEW i \in Jobs, NEW s \in {"WAITING", "CANCEL", "DELETE"}, UpdateJobStatus(i, s)
      PROVE  /\ store'[j].agent = store[j].agent
             /\ store'[j].progress = store[j].progress
             /\ store'[j].status = store[j].status \/ store'[j].status = s
  <2>1. s \in JobStatus
    BY DEF JobStatus
  <2> QED BY <1>4, <2>1, RowsAfter
<1> QED BY <1>3, <1>4

LEMMA WiringElsewhere ==
  ASSUME TypeOK, Wiring, Elsewhere, UNCHANGED agentVars
  PROVE  Wiring'
BY ElsewhereFrame, ElsewhereRows DEF Wiring, UnknownBefore, WritersInv, DyingInv, agentVars

\* The steps of agent a alone.
Acts(a) ==
  \/ ConnectionLoop(a)
  \/ \E j \in Jobs : Runner(a, j)
  \/ \E w \in Conns : Writer(a, w)
  \/ Crash(a)

\* What a step of agent a leaves of the others, and that it opens no connection.
LEMMA AgentFrame ==
  ASSUME TypeOK, NEW a \in Agents, Acts(a)
  PROVE  /\ epoch' = epoch
         /\ \A b \in Agents \ {a} :
              /\ agent'[b] = agent[b] /\ exec'[b] = exec[b] /\ intr'[b] = intr[b]
              /\ msgOutCh'[b] = msgOutCh[b] /\ writers'[b] = writers[b] /\ hand'[b] = hand[b]
              /\ link'[b] = link[b] /\ toAgent'[b] = toAgent[b] /\ toServer'[b] = toServer[b]
<1> USE DEF TypeOK, AgentTypeOK, NetTypeOK, netVars
<1>1. CASE ConnectionLoop(a)
  BY <1>1 DEF ConnectionLoop, Disconnected, rejectJobOffer, acceptJobOffer, cancelJob, Receives,
              Push
<1>2. ASSUME NEW j \in Jobs, Runner(a, j)
      PROVE  /\ UNCHANGED <<agent, writers, hand, netVars>>
             /\ \A b \in Agents \ {a} :
                  exec'[b] = exec[b] /\ intr'[b] = intr[b] /\ msgOutCh'[b] = msgOutCh[b]
  BY <1>2 DEF Runner, onJobUpdate, handleJobDone, Push
<1>3. ASSUME NEW w \in Conns, Writer(a, w)
      PROVE  /\ UNCHANGED <<agent, exec, intr, writers, link, epoch, toAgent>>
             /\ \A b \in Agents \ {a} : /\ msgOutCh'[b] = msgOutCh[b] /\ hand'[b] = hand[b]
                                        /\ toServer'[b] = toServer[b]
  BY <1>3 DEF Writer, TakeOut, WriteOut
<1>4. CASE Crash(a)
  BY <1>4 DEF Crash
<1> QED BY <1>1, <1>2, <1>3, <1>4 DEF Acts

\* An agent that has not connected yet does nothing.
LEMMA ActsOnceConnected ==
  ASSUME TypeOK, Wiring, NEW a \in Agents, Acts(a)
  PROVE  epoch[a] # 0
<1> SUFFICES ASSUME epoch[a] = 0 PROVE FALSE
  OBVIOUS
<1>0. /\ agent[a] = "idle" /\ ~link[a]
      /\ \A j \in Jobs : exec[a][j] = 0
      /\ writers[a] = {}
  <2>1. 1 .. epoch[a] = {}
    OBVIOUS
  <2> QED BY <2>1 DEF Wiring, UnknownBefore, WritersInv
<1>1. ~ConnectionLoop(a)
  BY <1>0 DEF ConnectionLoop, Disconnected, rejectJobOffer, acceptJobOffer, cancelJob, Receives
<1>2. ASSUME NEW j \in Jobs PROVE ~Runner(a, j)
  <2>1. exec[a][j] = 0
    BY <1>0
  <2> QED BY <2>1 DEF Runner, onJobUpdate, handleJobDone
<1>3. \A w \in Conns : ~Writer(a, w)
  BY <1>0 DEF Writer, TakeOut, WriteOut
<1>4. ~Crash(a)
  BY DEF Crash
<1> QED BY <1>1, <1>2, <1>3, <1>4 DEF Acts

LEMMA WritersAgent ==
  ASSUME TypeOK, WritersInv, NEW a \in Agents, Acts(a)
  PROVE  WritersInv'
<1> USE DEF TypeOK, AgentTypeOK, NetTypeOK, WritersInv, netVars
<1>1. CASE ConnectionLoop(a)
  BY <1>1 DEF ConnectionLoop, Disconnected, rejectJobOffer, acceptJobOffer, cancelJob
<1>2. ASSUME NEW j \in Jobs, Runner(a, j)
      PROVE  WritersInv'
  BY <1>2 DEF Runner, onJobUpdate, handleJobDone
<1>3. ASSUME NEW w \in Conns, Writer(a, w)
      PROVE  WritersInv'
  <2>1. w \in writers[a] /\ UNCHANGED <<writers, epoch>>
    BY <1>3 DEF Writer, TakeOut, WriteOut
  <2>2. \A b \in Agents, v \in Conns : b # a \/ v # w => hand'[b][v] = hand[b][v]
    BY <1>3 DEF Writer, TakeOut, WriteOut
  <2> QED BY <2>1, <2>2
<1>4. CASE Crash(a)
  BY <1>4 DEF Crash, EmptyHands
<1> QED BY <1>1, <1>2, <1>3, <1>4 DEF Acts

LEMMA WiringAgent ==
  ASSUME TypeOK, Wiring, NEW a \in Agents, Acts(a), UNCHANGED serverVars
  PROVE  Wiring'
<1>1. epoch[a] # 0 /\ epoch' = epoch
  BY ActsOnceConnected, AgentFrame
<1>2. UnknownBefore'
  BY <1>1, AgentFrame DEF Wiring, UnknownBefore, serverVars
<1>3. WritersInv'
  BY WritersAgent DEF Wiring
<1>4. DyingInv'
  BY DEF Wiring, DyingInv, serverVars
<1> QED BY <1>2, <1>3, <1>4 DEF Wiring

\* What a handshake makes of agent a and its handler, and that it leaves the others alone.
LEMMA HandshakeFrame ==
  ASSUME TypeOK, NEW a \in Agents, Handshake(a)
  PROVE  /\ handler[a].pc = "none" /\ handler'[a] = Reading
         /\ epoch'[a] = epoch[a] + 1 /\ link'[a]
         /\ toServer'[a] = <<>> /\ toAgent'[a] = <<>>
         /\ \A b \in Agents \ {a} :
              /\ handler'[b] = handler[b] /\ epoch'[b] = epoch[b] /\ link'[b] = link[b]
              /\ toServer'[b] = toServer[b] /\ toAgent'[b] = toAgent[b]
         /\ UNCHANGED <<store, logs, cliChan, batch, offers, requests, server, stops, exec, intr,
                        msgOutCh, hand, facts>>
BY DEF Handshake, connect, registerNode, nodes, TypeOK, ServerTypeOK, AgentTypeOK, NetTypeOK

LEMMA WiringHandshake ==
  ASSUME TypeOK, Wiring, NEW a \in Agents, Handshake(a)
  PROVE  Wiring'
<1> USE DEF Handshake, connect, registerNode, TypeOK, ServerTypeOK, AgentTypeOK, NetTypeOK, Wiring
<1>1. epoch'[a] = epoch[a] + 1 /\ \A b \in Agents \ {a} : epoch'[b] = epoch[b]
  OBVIOUS
<1>2. UnknownBefore'
  BY <1>1 DEF UnknownBefore
<1>3. WritersInv'
  BY <1>1 DEF WritersInv
<1>4. DyingInv'
  BY DEF DyingInv, Shaped, Reading
<1> QED BY <1>2, <1>3, <1>4

LEMMA WiringFailure ==
  ASSUME TypeOK, Wiring, ServerLost \/ \E a \in Agents : AgentInfo(a) \/ ConnectionLost(a)
  PROVE  Wiring'
<1> USE DEF TypeOK, ServerTypeOK, NetTypeOK, Wiring, agentVars, serverVars, netVars
<1>1. ASSUME NEW a \in Agents, AgentInfo(a)
      PROVE  Wiring'
  BY <1>1 DEF AgentInfo, UnknownBefore, WritersInv, DyingInv
<1>2. ASSUME NEW a \in Agents, ConnectionLost(a)
      PROVE  Wiring'
  BY <1>2 DEF ConnectionLost, BreakLink, UnknownBefore, WritersInv, DyingInv
<1>3. CASE ServerLost
  <2>1. PICK how : ServerEnds(how) /\ UNCHANGED agentVars
    BY <1>3 DEF ServerLost, Stop, NilConnPanic
  <2>2. /\ handler' = [a \in Agents |-> NoHandler] /\ link' = [a \in Agents |-> FALSE]
        /\ toServer' = [a \in Agents |-> <<>>] /\ UNCHANGED <<store, epoch>>
    BY <2>1 DEF ServerEnds
  <2>3. \A a \in Agents : toAgent[a] = <<>> => toAgent'[a] = <<>>
    <3>1. PICK left \in [Agents -> 0 .. NetCap] :
            /\ \A a \in Agents : left[a] <= Len(toAgent[a])
            /\ toAgent' = [a \in Agents |-> SubSeq(toAgent[a], 1, left[a])]
      BY <2>1 DEF ServerEnds
    <3> QED BY <3>1
  <2>4. UnknownBefore'
    BY <2>1, <2>2, <2>3 DEF UnknownBefore, NoHandler
  <2> QED BY <2>1, <2>2, <2>4 DEF WritersInv, DyingInv, Shaped, NoHandler
<1> QED BY <1>1, <1>2, <1>3

\* A step of the whole is one of these.
LEMMA StepKinds ==
  ASSUME [Next]_vars
  PROVE  \/ Elsewhere /\ UNCHANGED agentVars
         \/ \E a \in Agents : handleConn(a) /\ UNCHANGED agentVars
         \/ \E a \in Agents : Acts(a) /\ UNCHANGED serverVars
         \/ \E a \in Agents : Handshake(a)
         \/ \E a \in Agents : AgentInfo(a) \/ ConnectionLost(a)
         \/ ServerLost
         \/ UNCHANGED vars
BY DEF Next, ServerNext, AgentNext, Elsewhere, Acts

LEMMA WiringStep == TypeOK /\ Wiring /\ [Next]_vars => Wiring'
<1> SUFFICES ASSUME TypeOK, Wiring, [Next]_vars PROVE Wiring'
  OBVIOUS
<1>1. CASE UNCHANGED vars
  BY <1>1 DEF vars, serverVars, agentVars, netVars, Wiring, UnknownBefore, WritersInv, DyingInv
<1> QED BY <1>1, StepKinds, WiringElsewhere, WiringHandler, WiringAgent, WiringHandshake,
           WiringFailure

-----------------------------------------------------------------------------
(* The messages of an agent on its first connection, in their order. *)

\* The messages of agent a that its handler has still to read, the next one first,
\* while its only writer is that of its first connection.
Said(a) == toServer[a] \o hand[a][1] \o msgOutCh[a]

LEMMA FirstConnection ==
  ASSUME TypeOK, Wiring, NEW a \in Agents, link[a], epoch[a] <= 1
  PROVE  /\ 1 \in Conns /\ epoch[a] = 1
         /\ toServer[a] \in Seq(Answer) /\ hand[a][1] \in Seq(Answer) /\ msgOutCh[a] \in Seq(Answer)
         /\ \A w \in Conns \ {1} : w \notin writers[a] /\ hand[a][w] = <<>>
<1>1. epoch[a] = 1
  BY DEF Wiring, UnknownBefore, TypeOK, NetTypeOK
<1>2. 1 \in Conns
  BY <1>1, ProtocolAssumption DEF TypeOK, NetTypeOK, Conns
<1>3. \A w \in Conns \ {1} : w \notin writers[a] /\ hand[a][w] = <<>>
  BY <1>1 DEF Wiring, WritersInv, Conns
<1> QED BY <1>1, <1>2, <1>3 DEF TypeOK, AgentTypeOK, NetTypeOK

\* The message of agent a with which its queues are s, h and o end where, in order.
LEMMA ThreeQueues ==
  ASSUME NEW T, NEW s \in Seq(T), NEW h \in Seq(T), NEW o \in Seq(T)
  PROVE  /\ s \o h \o o \in Seq(T)
         /\ Len(s \o h \o o) = Len(s) + Len(h) + Len(o)
         /\ \A i \in 1 .. Len(s) : (s \o h \o o)[i] = s[i]
         /\ \A i \in 1 .. Len(h) : (s \o h \o o)[Len(s) + i] = h[i]
         /\ \A i \in 1 .. Len(o) : (s \o h \o o)[Len(s) + Len(h) + i] = o[i]
<1>1. /\ s \o h \in Seq(T) /\ Len(s \o h) = Len(s) + Len(h)
      /\ \A i \in 1 .. Len(s) + Len(h) :
           (s \o h)[i] = IF i <= Len(s) THEN s[i] ELSE h[i - Len(s)]
  BY ConcatProperties
<1>2. /\ s \o h \o o \in Seq(T) /\ Len(s \o h \o o) = Len(s \o h) + Len(o)
      /\ \A i \in 1 .. Len(s \o h) + Len(o) :
           (s \o h \o o)[i] = IF i <= Len(s \o h) THEN (s \o h)[i] ELSE o[i - Len(s \o h)]
  BY <1>1, ConcatProperties
<1>3. Len(s) \in Nat /\ Len(h) \in Nat /\ Len(o) \in Nat
  OBVIOUS
<1>4. ASSUME NEW i \in 1 .. Len(s) PROVE (s \o h \o o)[i] = s[i]
  BY <1>1, <1>2, <1>3
<1>5. ASSUME NEW i \in 1 .. Len(h) PROVE (s \o h \o o)[Len(s) + i] = h[i]
  <2>1. Len(s) + i \in 1 .. Len(s) + Len(h) /\ ~(Len(s) + i <= Len(s)) /\ Len(s) + i - Len(s) = i
    BY <1>3
  <2> QED BY <1>1, <1>2, <1>3, <2>1
<1>6. ASSUME NEW i \in 1 .. Len(o) PROVE (s \o h \o o)[Len(s) + Len(h) + i] = o[i]
  <2> DEFINE k == Len(s) + Len(h) + i
  <2>1. k \in 1 .. Len(s \o h) + Len(o) /\ ~(k <= Len(s \o h)) /\ k - Len(s \o h) = i
    BY <1>1, <1>3
  <2> QED BY <1>2, <2>1
<1> QED BY <1>1, <1>2, <1>4, <1>5, <1>6

\* How Said moves: nothing is overtaken.
LEMMA QueueMoves ==
  ASSUME NEW T, NEW s \in Seq(T), NEW h \in Seq(T), NEW o \in Seq(T)
  PROVE  /\ (s \o h) \o <<>> \o o = s \o h \o o
         /\ o # <<>> => s \o <<Head(o)>> \o Tail(o) = s \o <<>> \o o
         /\ \A m \in T : s \o h \o Append(o, m) = Append(s \o h \o o, m)
         /\ s # <<>> => /\ Head(s \o h \o o) = Head(s) /\ s \o h \o o # <<>>
                        /\ Tail(s) \o h \o o = Tail(s \o h \o o)
<1>0. /\ s \o h \in Seq(T) /\ s \o h \o o \in Seq(T) /\ <<>> \in Seq(T)
  BY ConcatProperties
<1>1. (s \o h) \o <<>> \o o = s \o h \o o
  <2>1. (s \o h) \o <<>> = s \o h
    BY <1>0, ConcatEmptySeq
  <2> QED BY <2>1
<1>2. ASSUME o # <<>>
      PROVE  s \o <<Head(o)>> \o Tail(o) = s \o <<>> \o o
  <2>1. Head(o) \in T /\ Tail(o) \in Seq(T) /\ <<Head(o)>> \in Seq(T)
    BY <1>2
  <2>2. <<Head(o)>> \o Tail(o) = o
    BY <1>2, <2>1
  <2>3. s \o <<Head(o)>> \o Tail(o) = s \o (<<Head(o)>> \o Tail(o))
    BY <2>1, ConcatAssociative
  <2>4. s \o <<>> = s
    BY ConcatEmptySeq
  <2> QED BY <2>2, <2>3, <2>4
<1>3. ASSUME NEW m \in T
      PROVE  s \o h \o Append(o, m) = Append(s \o h \o o, m)
  <2>1. Append(o, m) = o \o <<m>> /\ Append(s \o h \o o, m) = s \o h \o o \o <<m>>
    BY <1>0, AppendIsConcat
  <2>2. <<m>> \in Seq(T)
    OBVIOUS
  <2>3. (s \o h) \o (o \o <<m>>) = (s \o h) \o o \o <<m>>
    BY <1>0, <2>2, ConcatAssociative
  <2> QED BY <2>1, <2>3
<1>4. ASSUME s # <<>>
      PROVE  /\ Head(s \o h \o o) = Head(s) /\ s \o h \o o # <<>>
             /\ Tail(s) \o h \o o = Tail(s \o h \o o)
  <2>1. ASSUME NEW t \in Seq(T)
        PROVE  /\ s \o t # <<>> /\ Head(s \o t) = Head(s) /\ Tail(s \o t) = Tail(s) \o t
    <3>1. Head(s) \in T /\ Tail(s) \in Seq(T) /\ <<Head(s)>> \in Seq(T)
      BY <1>4
    <3>2. s = <<Head(s)>> \o Tail(s)
      BY <1>4
    <3>3. s \o t = <<Head(s)>> \o (Tail(s) \o t) /\ Tail(s) \o t \in Seq(T)
      BY <3>1, <3>2, ConcatAssociative, ConcatProperties
    <3> QED BY <3>1, <3>3
  <2>2. s \o h \o o = s \o (h \o o) /\ h \o o \in Seq(T)
    BY ConcatAssociative, ConcatProperties
  <2>3. Tail(s) \o h \o o = Tail(s) \o (h \o o)
    BY <1>4, ConcatAssociative
  <2>4. /\ s \o (h \o o) # <<>> /\ Head(s \o (h \o o)) = Head(s)
        /\ Tail(s \o (h \o o)) = Tail(s) \o (h \o o)
    BY <2>1, <2>2
  <2> QED BY <2>2, <2>3, <2>4, Zenon
<1> QED BY <1>1, <1>2, <1>3, <1>4

\* What InFlight means, queue by queue.
LEMMA Flying ==
  ASSUME NEW a \in Agents, NEW m
  PROVE  m \in InFlight(a) <=>
           \/ \E i \in DOMAIN toServer[a] : m = toServer[a][i]
           \/ \E i \in DOMAIN msgOutCh[a] : m = msgOutCh[a][i]
           \/ \E w \in Conns : \E i \in DOMAIN hand[a][w] : m = hand[a][w][i]
<1> DEFINE Range1(q) == {q[i] : i \in DOMAIN q}
<1> DEFINE queues == {toServer[a], msgOutCh[a]} \cup {hand[a][w] : w \in Conns}
<1>1. InFlight(a) = UNION {Range1(q) : q \in queues}
  BY DEF InFlight
<1>2. m \in UNION {Range1(q) : q \in queues} <=> \E q \in queues : m \in Range1(q)
  OBVIOUS
<1>3. (\E q \in queues : m \in Range1(q)) <=>
        \/ m \in Range1(toServer[a]) \/ m \in Range1(msgOutCh[a])
        \/ \E w \in Conns : m \in Range1(hand[a][w])
  <2> HIDE DEF Range1
  <2> QED OBVIOUS
<1>4. \A q : m \in Range1(q) <=> \E i \in DOMAIN q : m = q[i]
  OBVIOUS
<1> HIDE DEF Range1
<1>5. m \in InFlight(a) <=> \E q \in queues : m \in Range1(q)
  BY <1>1, <1>2, Zenon
<1>6. (\E w \in Conns : m \in Range1(hand[a][w]))
        <=> \E w \in Conns : \E i \in DOMAIN hand[a][w] : m = hand[a][w][i]
  BY <1>4, Zenon
<1> HIDE DEF queues
<1> QED BY <1>3, <1>4, <1>5, <1>6, Zenon

\* On its first connection, the messages of an agent are those of Said.
LEMMA SaidInFlight ==
  ASSUME TypeOK, Wiring, NEW a \in Agents, link[a], epoch[a] <= 1
  PROVE  /\ Said(a) \in Seq(Answer)
         /\ \A m : m \in InFlight(a) <=> \E i \in 1 .. Len(Said(a)) : m = Said(a)[i]
<1> DEFINE s == toServer[a]
           h == hand[a][1]
           o == msgOutCh[a]
<1>1. s \in Seq(Answer) /\ h \in Seq(Answer) /\ o \in Seq(Answer) /\ 1 \in Conns
  BY FirstConnection
<1>2. /\ s \o h \o o \in Seq(Answer)
      /\ Len(s \o h \o o) = Len(s) + Len(h) + Len(o)
      /\ \A i \in 1 .. Len(s) : (s \o h \o o)[i] = s[i]
      /\ \A i \in 1 .. Len(h) : (s \o h \o o)[Len(s) + i] = h[i]
      /\ \A i \in 1 .. Len(o) : (s \o h \o o)[Len(s) + Len(h) + i] = o[i]
  <2> HIDE DEF s, h, o
  <2> QED BY <1>1, ThreeQueues
<1>3. /\ Len(s) \in Nat /\ Len(h) \in Nat /\ Len(o) \in Nat
      /\ DOMAIN s = 1 .. Len(s) /\ DOMAIN h = 1 .. Len(h) /\ DOMAIN o = 1 .. Len(o)
  BY <1>1
<1>4. ASSUME NEW m
      PROVE  m \in InFlight(a) <=>
               \/ \E i \in 1 .. Len(s) : m = s[i]
               \/ \E i \in 1 .. Len(o) : m = o[i]
               \/ \E i \in 1 .. Len(h) : m = h[i]
  <2>1. (\E w \in Conns : \E i \in DOMAIN hand[a][w] : m = hand[a][w][i])
          <=> \E i \in DOMAIN h : m = h[i]
    <3>1. ASSUME NEW w \in Conns \ {1} PROVE DOMAIN hand[a][w] = {}
      BY FirstConnection
    <3> QED BY <1>1, <3>1
  <2> QED BY <1>3, <2>1, Flying
<1>5. ASSUME NEW m
      PROVE  (\E i \in 1 .. Len(s \o h \o o) : m = (s \o h \o o)[i]) <=>
               \/ \E i \in 1 .. Len(s) : m = s[i]
               \/ \E i \in 1 .. Len(o) : m = o[i]
               \/ \E i \in 1 .. Len(h) : m = h[i]
  <2> DEFINE q == s \o h \o o
  <2> HIDE DEF s, h, o, q
  <2>1. ASSUME NEW i \in 1 .. Len(q)
        PROVE  \/ i \in 1 .. Len(s) /\ q[i] = s[i]
               \/ i - Len(s) \in 1 .. Len(h) /\ q[i] = h[i - Len(s)]
               \/ i - Len(s) - Len(h) \in 1 .. Len(o) /\ q[i] = o[i - Len(s) - Len(h)]
    <3>1. CASE i <= Len(s)
      BY <1>2, <1>3, <3>1 DEF q
    <3>2. CASE i > Len(s) /\ i <= Len(s) + Len(h)
      <4>1. i - Len(s) \in 1 .. Len(h) /\ Len(s) + (i - Len(s)) = i
        BY <1>3, <3>2
      <4>2. q[Len(s) + (i - Len(s))] = h[i - Len(s)]
        BY <1>2, <4>1, Zenon DEF q
      <4> QED BY <4>1, <4>2
    <3>3. CASE i > Len(s) + Len(h)
      <4>1. /\ i - Len(s) - Len(h) \in 1 .. Len(o)
            /\ Len(s) + Len(h) + (i - Len(s) - Len(h)) = i
        BY <1>2, <1>3, <3>3 DEF q
      <4>2. q[Len(s) + Len(h) + (i - Len(s) - Len(h))] = o[i - Len(s) - Len(h)]
        BY <1>2, <4>1, Zenon DEF q
      <4> QED BY <4>1, <4>2
    <3> QED BY <1>3, <3>1, <3>2, <3>3
  <2>2. /\ \A i \in 1 .. Len(s) : i \in 1 .. Len(q)
        /\ \A i \in 1 .. Len(h) : Len(s) + i \in 1 .. Len(q)
        /\ \A i \in 1 .. Len(o) : Len(s) + Len(h) + i \in 1 .. Len(q)
    BY <1>2, <1>3 DEF q
  <2>3. /\ \A i \in 1 .. Len(s) : q[i] = s[i]
        /\ \A i \in 1 .. Len(h) : q[Len(s) + i] = h[i]
        /\ \A i \in 1 .. Len(o) : q[Len(s) + Len(h) + i] = o[i]
    BY <1>2 DEF q
  <2>4. (\E i \in 1 .. Len(q) : m = q[i]) <=>
               \/ \E i \in 1 .. Len(s) : m = s[i]
               \/ \E i \in 1 .. Len(o) : m = o[i]
               \/ \E i \in 1 .. Len(h) : m = h[i]
    <3>1. ASSUME NEW i \in 1 .. Len(q), m = q[i]
          PROVE  \/ \E k \in 1 .. Len(s) : m = s[k]
                 \/ \E k \in 1 .. Len(o) : m = o[k]
                 \/ \E k \in 1 .. Len(h) : m = h[k]
      BY <2>1, <3>1
    <3>2. ASSUME NEW i \in 1 .. Len(s), m = s[i] PROVE \E k \in 1 .. Len(q) : m = q[k]
      BY <2>2, <2>3, <3>2, Zenon
    <3>3. ASSUME NEW i \in 1 .. Len(o), m = o[i] PROVE \E k \in 1 .. Len(q) : m = q[k]
      BY <2>2, <2>3, <3>3, Zenon
    <3>4. ASSUME NEW i \in 1 .. Len(h), m = h[i] PROVE \E k \in 1 .. Len(q) : m = q[k]
      BY <2>2, <2>3, <3>4, Zenon
    <3> QED BY <3>1, <3>2, <3>3, <3>4, Zenon
  <2> QED BY <2>4, Zenon DEF q
<1>6. Said(a) = s \o h \o o
  BY DEF Said
<1> HIDE DEF s, h, o
<1>7. Said(a) \in Seq(Answer)
  BY <1>2, <1>6, Zenon
<1>8. \A m : m \in InFlight(a) <=> \E i \in 1 .. Len(Said(a)) : m = Said(a)[i]
  <2> SUFFICES ASSUME NEW m
               PROVE  m \in InFlight(a) <=> \E i \in 1 .. Len(Said(a)) : m = Said(a)[i]
    OBVIOUS
  <2>1. m \in InFlight(a) <=> \E i \in 1 .. Len(s \o h \o o) : m = (s \o h \o o)[i]
    BY <1>4, <1>5
  <2> QED BY <1>6, <2>1
<1> QED BY <1>7, <1>8

\* The executions of an agent before (r) and after (s) it sends message m.
Tells(m, r, s) ==
  \/ m.type \in {"rejected", "update"} /\ s = r
  \/ m.type = "accepted" /\ s = [r EXCEPT ![m.job] = @ + 1]
  \/ m.type = "done" /\ r[m.job] > 0 /\ s = [r EXCEPT ![m.job] = @ - 1]

\* A Push that tells of the executions.
LEMMA Pushed ==
  ASSUME TypeOK, Wiring, NEW a \in Agents, link[a], epoch[a] <= 1,
         NEW m \in Answer, UNCHANGED <<toServer, hand>>,
         msgOutCh' = [msgOutCh EXCEPT ![a] = Append(@, m)]
  PROVE  Said(a)' = Append(Said(a), m)
<1>1. /\ toServer[a] \in Seq(Answer) /\ hand[a][1] \in Seq(Answer)
      /\ msgOutCh[a] \in Seq(Answer)
  BY FirstConnection
<1>2. msgOutCh'[a] = Append(msgOutCh[a], m)
  BY DEF TypeOK, AgentTypeOK
<1> DEFINE s == toServer[a]
           h == hand[a][1]
           o == msgOutCh[a]
<1>3. s \o h \o Append(o, m) = Append(s \o h \o o, m)
  <2> HIDE DEF s, h, o
  <2> QED BY <1>1, QueueMoves
<1> QED BY <1>2, <1>3 DEF Said

\* A step of agent a that leaves its connection alone sends one message more, or none.
LEMMA AgentSays ==
  ASSUME TypeOK, Wiring, NEW a \in Agents, epoch[a] <= 1, Acts(a), link'[a]
  PROVE  /\ link[a]
         /\ \/ Said(a)' = Said(a) /\ exec'[a] = exec[a]
            \/ \E m \in Answer : Said(a)' = Append(Said(a), m) /\ Tells(m, exec[a], exec'[a])
<1> USE DEF TypeOK, AgentTypeOK, NetTypeOK, netVars
<1>0. ~Crash(a)
  BY DEF Crash
<1>1. link[a]
  BY <1>0 DEF Acts, ConnectionLoop, Disconnected, rejectJobOffer, acceptJobOffer, cancelJob,
              Runner, onJobUpdate, handleJobDone, Writer, TakeOut, WriteOut
<1>2. /\ 1 \in Conns /\ toServer[a] \in Seq(Answer) /\ hand[a][1] \in Seq(Answer)
      /\ msgOutCh[a] \in Seq(Answer) /\ \A w \in Conns \ {1} : w \notin writers[a]
  BY <1>1, FirstConnection
<1>9. Load(a) \in Nat
  BY LoadIsNat DEF Load
<1>3. CASE Disconnected(a) \/ cancelJob(a)
  BY <1>3 DEF Disconnected, cancelJob, Said
<1>4. CASE rejectJobOffer(a)
  <2> DEFINE m == [type |-> "rejected", job |-> Head(toAgent[a]).job, status |-> "WAITING",
                   load |-> Load(a)]
  <2>1. Head(toAgent[a]).job \in Jobs
    BY <1>4, ReceivesTyped DEF rejectJobOffer
  <2>2. m \in Answer
    BY <1>9, <2>1 DEF Answer
  <2>3. Said(a)' = Append(Said(a), m)
    BY <1>1, <1>4, <2>2, Pushed DEF rejectJobOffer, Push
  <2> QED BY <1>1, <1>4, <2>2, <2>3 DEF rejectJobOffer, Tells
<1>5. CASE acceptJobOffer(a)
  <2> DEFINE j == Head(toAgent[a]).job
             m == [type |-> "accepted", job |-> j, status |-> "SCHEDULED",
                   load |-> Cardinality(jobsRunning[a] \cup {j})]
  <2>1. j \in Jobs
    BY <1>5, ReceivesTyped DEF acceptJobOffer
  <2>2. m \in Answer
    BY <2>1, LoadIsNat DEF Answer
  <2>3. Said(a)' = Append(Said(a), m)
    BY <1>1, <1>5, <2>2, Pushed DEF acceptJobOffer, Push
  <2>4. exec'[a] = [exec[a] EXCEPT ![j] = exec[a][j] + 1]
    BY <1>5, <2>1 DEF acceptJobOffer
  <2> QED BY <1>1, <2>2, <2>3, <2>4 DEF Tells
<1>6. ASSUME NEW j \in Jobs, Runner(a, j)
      PROVE  \E m \in Answer : Said(a)' = Append(Said(a), m) /\ Tells(m, exec[a], exec'[a])
  <2>1. CASE onJobUpdate(a, j)
    <3> DEFINE m == [type |-> "update", job |-> j, status |-> "SCHEDULED", load |-> Load(a)]
    <3>1. m \in Answer
      BY <1>9 DEF Answer
    <3>2. Said(a)' = Append(Said(a), m)
      BY <1>1, <2>1, <3>1, Pushed DEF onJobUpdate, Push
    <3> QED BY <2>1, <3>1, <3>2 DEF onJobUpdate, Tells
  <2>2. ASSUME NEW s \in EndStatus, handleJobDone(a, j, s)
        PROVE  \E m \in Answer : Said(a)' = Append(Said(a), m) /\ Tells(m, exec[a], exec'[a])
    <3> DEFINE m == [type |-> "done", job |-> j, status |-> s,
                     load |-> Cardinality(StillRunning(a, j))]
    <3>1. m \in Answer
      BY LoadIsNat DEF Answer, StillRunning
    <3>2. /\ UNCHANGED <<toServer, hand>> /\ msgOutCh' = [msgOutCh EXCEPT ![a] = Append(@, m)]
          /\ exec[a][j] > 0 /\ exec' = [exec EXCEPT ![a][j] = exec[a][j] - 1]
      BY <2>2 DEF handleJobDone, Push
    <3>3. Said(a)' = Append(Said(a), m)
      BY <1>1, <3>1, <3>2, Pushed
    <3>4. exec'[a] = [exec[a] EXCEPT ![j] = exec[a][j] - 1]
      BY <3>2
    <3> QED BY <3>1, <3>2, <3>3, <3>4 DEF Tells
  <2> QED BY <1>6, <2>1, <2>2 DEF Runner
<1>7. ASSUME NEW w \in Conns, TakeOut(a, w)
      PROVE  Said(a)' = Said(a) /\ exec'[a] = exec[a]
  <2>1. w = 1
    BY <1>2, <1>7 DEF TakeOut
  <2>2. /\ hand[a][1] = <<>> /\ msgOutCh[a] # <<>> /\ UNCHANGED <<exec, toServer>>
        /\ hand'[a][1] = <<Head(msgOutCh[a])>> /\ msgOutCh'[a] = Tail(msgOutCh[a])
    BY <1>2, <1>7, <2>1 DEF TakeOut
  <2>3. toServer[a] \o <<Head(msgOutCh[a])>> \o Tail(msgOutCh[a])
          = toServer[a] \o <<>> \o msgOutCh[a]
    <3> DEFINE s == toServer[a]
               o == msgOutCh[a]
    <3>1. s \in Seq(Answer) /\ o \in Seq(Answer) /\ <<>> \in Seq(Answer) /\ o # <<>>
      BY <1>2, <2>2
    <3> HIDE DEF s, o
    <3>2. s \o <<Head(o)>> \o Tail(o) = s \o <<>> \o o
      BY <3>1, QueueMoves, SMTT(30)
    <3> QED BY <3>2 DEF s, o
  <2>4. Said(a)' = toServer[a] \o <<Head(msgOutCh[a])>> \o Tail(msgOutCh[a])
    BY <2>2 DEF Said
  <2>5. Said(a) = toServer[a] \o <<>> \o msgOutCh[a]
    BY <2>2 DEF Said
  <2> QED BY <2>2, <2>3, <2>4, <2>5
<1>8. ASSUME NEW w \in Conns, WriteOut(a, w)
      PROVE  Said(a)' = Said(a) /\ exec'[a] = exec[a]
  <2>1. w = 1
    BY <1>2, <1>8 DEF WriteOut
  <2>2. ~\E v \in writers[a] \ {1} : hand[a][v] # <<>>
    BY <1>2
  <2>3. /\ toServer'[a] = toServer[a] \o hand[a][1] /\ hand'[a][1] = <<>>
        /\ UNCHANGED <<exec, msgOutCh>>
    <3>1. PICK written \in {hand[a][1]} : toServer' = [toServer EXCEPT ![a] = @ \o written]
      BY <1>1, <1>8, <2>1, <2>2 DEF WriteOut
    <3>2. hand' = [hand EXCEPT ![a][1] = <<>>] /\ UNCHANGED <<exec, msgOutCh>>
      BY <1>8, <2>1 DEF WriteOut
    <3> QED BY <1>2, <3>1, <3>2
  <2> QED BY <1>2, <2>3, QueueMoves DEF Said
<1> QED BY <1>0, <1>1, <1>3, <1>4, <1>5, <1>6, <1>7, <1>8 DEF Acts, ConnectionLoop, Writer

\* With messages q on their way and executions r: the end of job j will be reported.
Waits(q, r, j) ==
  r[j] > 0 \/ \E i \in 1 .. Len(q) : q[i].type = "done" /\ q[i].job = j

\* And after each message that says it was accepted.
Followed(q, r) ==
  \A i \in 1 .. Len(q) : q[i].type = "accepted" =>
    r[q[i].job] > 0
      \/ \E k \in 1 .. Len(q) : k > i /\ q[k].type = "done" /\ q[k].job = q[i].job

LEMMA Sent ==
  ASSUME NEW q \in Seq(Answer), NEW m \in Answer,
         NEW r \in [Jobs -> Nat], NEW s \in [Jobs -> Nat], Tells(m, r, s)
  PROVE  /\ \A j \in Jobs : Waits(q, r, j) => Waits(Append(q, m), s, j)
         /\ Followed(q, r) => Followed(Append(q, m), s)
<1> DEFINE p == Append(q, m)
<1>0. /\ Len(q) \in Nat /\ Len(p) = Len(q) + 1 /\ p[Len(p)] = m /\ m.job \in Jobs
      /\ \A i \in 1 .. Len(q) : p[i] = q[i] /\ q[i].job \in Jobs
  BY DEF Answer
<1>1. \A j \in Jobs : r[j] > 0 => s[j] > 0 \/ (m.type = "done" /\ m.job = j)
  BY DEF Tells
<1>2. m.type = "accepted" => s[m.job] > 0
  BY <1>0 DEF Tells
<1> HIDE DEF p
<1>3. ASSUME NEW j \in Jobs, Waits(q, r, j) PROVE Waits(p, s, j)
  <2>1. CASE r[j] > 0
    BY <1>0, <1>1, <2>1 DEF Waits
  <2>2. ASSUME NEW i \in 1 .. Len(q), q[i].type = "done", q[i].job = j
        PROVE  Waits(p, s, j)
    <3>1. i \in 1 .. Len(p) /\ p[i] = q[i]
      BY <1>0
    <3> QED BY <2>2, <3>1 DEF Waits
  <2> QED BY <1>3, <2>1, <2>2 DEF Waits
<1>4. ASSUME Followed(q, r), NEW i \in 1 .. Len(p), p[i].type = "accepted"
      PROVE  s[p[i].job] > 0
               \/ \E k \in 1 .. Len(p) : k > i /\ p[k].type = "done" /\ p[k].job = p[i].job
  <2>1. CASE i = Len(p)
    BY <1>0, <1>2, <1>4, <2>1
  <2>2. CASE i \in 1 .. Len(q)
    <3>1. p[i] = q[i] /\ q[i].type = "accepted" /\ q[i].job \in Jobs
      BY <1>0, <1>4, <2>2
    <3>2. CASE r[q[i].job] > 0
      <4>1. s[q[i].job] > 0 \/ (m.type = "done" /\ m.job = q[i].job)
        BY <1>1, <3>1, <3>2
      <4> QED BY <1>0, <2>2, <3>1, <4>1
    <3>3. CASE \E k \in 1 .. Len(q) : k > i /\ q[k].type = "done" /\ q[k].job = q[i].job
      BY <1>0, <3>1, <3>3
    <3> QED BY <1>4, <2>2, <3>1, <3>2, <3>3 DEF Followed
  <2> QED BY <1>0, <2>1, <2>2
<1> QED BY <1>3, <1>4 DEF Followed, p

LEMMA Taken ==
  ASSUME NEW q \in Seq(Answer), q # <<>>, NEW r \in [Jobs -> Nat]
  PROVE  /\ \A j \in Jobs : /\ Waits(q, r, j)
                            /\ ~(Head(q).type = "done" /\ Head(q).job = j)
                            => Waits(Tail(q), r, j)
         /\ Followed(q, r) => /\ Followed(Tail(q), r)
                              /\ Head(q).type = "accepted" => Waits(Tail(q), r, Head(q).job)
<1> DEFINE p == Tail(q)
<1>0. /\ Len(q) \in Nat /\ Len(p) = Len(q) - 1 /\ Head(q) = q[1] /\ 1 \in 1 .. Len(q)
      /\ \A i \in 1 .. Len(p) : p[i] = q[i + 1] /\ i + 1 \in 1 .. Len(q)
      /\ \A i \in 1 .. Len(q) : i # 1 => i - 1 \in 1 .. Len(p) /\ p[i - 1] = q[i]
  OBVIOUS
<1> HIDE DEF p
<1>1. ASSUME NEW j \in Jobs, Waits(q, r, j), ~(Head(q).type = "done" /\ Head(q).job = j)
      PROVE  Waits(p, r, j)
  BY <1>0, <1>1 DEF Waits
<1>2. ASSUME Followed(q, r), NEW i \in 1 .. Len(p), p[i].type = "accepted"
      PROVE  r[p[i].job] > 0
               \/ \E k \in 1 .. Len(p) : k > i /\ p[k].type = "done" /\ p[k].job = p[i].job
  <2>1. CASE \E k \in 1 .. Len(q) : k > i + 1 /\ q[k].type = "done" /\ q[k].job = q[i + 1].job
    <3>1. PICK k \in 1 .. Len(q) : k > i + 1 /\ q[k].type = "done" /\ q[k].job = q[i + 1].job
      BY <2>1
    <3>2. k - 1 \in 1 .. Len(p) /\ k - 1 > i /\ p[k - 1] = q[k] /\ p[i] = q[i + 1]
      BY <1>0, <3>1
    <3> QED BY <3>1, <3>2
  <2> QED BY <1>0, <1>2, <2>1 DEF Followed
<1>3. ASSUME Followed(q, r), Head(q).type = "accepted"
      PROVE  Waits(p, r, Head(q).job)
  BY <1>0, <1>3 DEF Followed, Waits
<1> QED BY <1>1, <1>2, <1>3 DEF Followed, p

\* The jobs an agent on its first connection has still to report the end of.
LEMMA Reporting ==
  ASSUME TypeOK, Wiring, NEW a \in Agents, link[a], epoch[a] <= 1
  PROVE  \A j \in Jobs : j \in Unreported(a) <=> Waits(Said(a), exec[a], j)
BY SaidInFlight DEF Unreported, Waits

LEMMA ReportingNext ==
  (\A a \in Agents :
     TypeOK /\ Wiring /\ link[a] /\ epoch[a] <= 1
       => \A j \in Jobs : j \in Unreported(a) <=> Waits(Said(a), exec[a], j))'
<1>1. \A a \in Agents :
        TypeOK /\ Wiring /\ link[a] /\ epoch[a] <= 1
          => \A j \in Jobs : j \in Unreported(a) <=> Waits(Said(a), exec[a], j)
  BY Reporting
<1> QED BY <1>1, PTL

LEMMA SameQueues ==
  ASSUME NEW a \in Agents, exec'[a] = exec[a], hand'[a] = hand[a], msgOutCh'[a] = msgOutCh[a],
         toServer'[a] = toServer[a]
  PROVE  InFlight(a)' = InFlight(a) /\ Unreported(a)' = Unreported(a) /\ Said(a)' = Said(a)
<1>1. InFlight(a)' = InFlight(a)
  BY DEF InFlight
<1> QED BY <1>1 DEF Unreported, Said

\* The steps of agents take nothing back of what an agent has still to report.
LEMMA AgentKeeps ==
  ASSUME TypeOK, TypeOK', Wiring, Wiring', NEW b \in Agents, Acts(b),
         NEW a \in Agents, epoch[a] <= 1, link'[a]
  PROVE  /\ link[a] /\ Unreported(a) \subseteq Unreported(a)'
         /\ Followed(Said(a), exec[a]) => Followed(Said(a), exec[a])'
<1>1. CASE a # b
  <2>1. link[a]
    BY <1>1, AgentFrame
  <2>2. Unreported(a)' = Unreported(a) /\ Said(a)' = Said(a) /\ exec'[a] = exec[a]
    BY <1>1, AgentFrame, SameQueues
  <2> QED BY <2>1, <2>2 DEF Followed
<1>2. CASE a = b
  <2>1. link[a] /\ epoch' = epoch
    BY <1>2, AgentSays, AgentFrame
  <2>2. Said(a) \in Seq(Answer) /\ exec[a] \in [Jobs -> Nat] /\ exec'[a] \in [Jobs -> Nat]
    BY <2>1, SaidInFlight, AgentAssumption DEF TypeOK, AgentTypeOK
  <2>3. /\ \A j \in Jobs : Waits(Said(a), exec[a], j) => Waits(Said(a)', exec'[a], j)
        /\ Followed(Said(a), exec[a]) => Followed(Said(a)', exec'[a])
    <3>1. CASE Said(a)' = Said(a) /\ exec'[a] = exec[a]
      BY <3>1 DEF Waits, Followed
    <3>2. ASSUME NEW m \in Answer, Said(a)' = Append(Said(a), m), Tells(m, exec[a], exec'[a])
          PROVE  /\ \A j \in Jobs : Waits(Said(a), exec[a], j) => Waits(Said(a)', exec'[a], j)
                 /\ Followed(Said(a), exec[a]) => Followed(Said(a)', exec'[a])
      <4> DEFINE q == Said(a)
                 r == exec[a]
                 s == exec'[a]
      <4>1. /\ \A j \in Jobs : Waits(q, r, j) => Waits(Append(q, m), s, j)
            /\ Followed(q, r) => Followed(Append(q, m), s)
        <5> HIDE DEF q, r, s
        <5>1. q \in Seq(Answer) /\ r \in [Jobs -> Nat] /\ s \in [Jobs -> Nat] /\ Tells(m, r, s)
          BY <2>2, <3>2 DEF q, r, s
        <5> QED BY <5>1, Sent
      <4> QED BY <3>2, <4>1
    <3> QED BY <1>2, <3>1, <3>2, AgentSays
  <2>4. \A j \in Jobs : j \in Unreported(a) => j \in Unreported(a)'
    <3>1. \A j \in Jobs : j \in Unreported(a) <=> Waits(Said(a), exec[a], j)
      BY <2>1, Reporting
    <3>2. \A j \in Jobs : j \in Unreported(a)' <=> Waits(Said(a)', exec'[a], j)
      BY <2>1, ReportingNext DEF Waits
    <3> QED BY <2>3, <3>1, <3>2
  <2>5. Unreported(a) \subseteq Jobs
    BY DEF Unreported
  <2> QED BY <2>1, <2>3, <2>4, <2>5 DEF Followed
<1> QED BY <1>1, <1>2

\* The handler takes the first of these messages.
LEMMA HandlerReads ==
  ASSUME TypeOK, TypeOK', Wiring, Wiring', NEW a \in Agents, NEW types, Receive(a, types),
         UNCHANGED <<link, epoch, agentVars>>, link[a], epoch[a] <= 1
  PROVE  /\ \A j \in Unreported(a) :
              ~(Head(toServer[a]).type = "done" /\ Head(toServer[a]).job = j)
                => j \in Unreported(a)'
         /\ Followed(Said(a), exec[a]) =>
              /\ Followed(Said(a), exec[a])'
              /\ Head(toServer[a]).type = "accepted" => Head(toServer[a]).job \in Unreported(a)'
<1> DEFINE q == Said(a)
           r == exec[a]
           p == toServer[a]
           h == hand[a][1]
           o == msgOutCh[a]
<1>1. q \in Seq(Answer) /\ r \in [Jobs -> Nat]
  BY SaidInFlight, AgentAssumption DEF TypeOK, AgentTypeOK
<1>2. p \in Seq(Answer) /\ h \in Seq(Answer) /\ o \in Seq(Answer) /\ p # <<>>
  BY FirstConnection DEF Receive
<1>3. q # <<>> /\ Head(q) = Head(p) /\ Said(a)' = Tail(q)
  <2>1. q = p \o h \o o /\ Said(a)' = Tail(p) \o h \o o
    BY DEF Said, Receive, TypeOK, NetTypeOK, agentVars
  <2>2. Head(p \o h \o o) = Head(p) /\ p \o h \o o # <<>> /\ Tail(p) \o h \o o = Tail(p \o h \o o)
    <3> HIDE DEF p, h, o
    <3> QED BY <1>2, QueueMoves, SMTT(30)
  <2> QED BY <2>1, <2>2
<1>4. /\ \A j \in Jobs : Waits(q, r, j) /\ ~(Head(q).type = "done" /\ Head(q).job = j)
                           => Waits(Tail(q), r, j)
      /\ Followed(q, r) => /\ Followed(Tail(q), r)
                           /\ Head(q).type = "accepted" => Waits(Tail(q), r, Head(q).job)
  <2> HIDE DEF q, r
  <2> QED BY <1>1, <1>3, Taken
<1>5. \A j \in Jobs : j \in Unreported(a) <=> Waits(q, r, j)
  BY Reporting
<1>6. \A j \in Jobs : j \in Unreported(a)' <=> Waits(Tail(q), r, j)
  <2>1. exec'[a] = r /\ link'[a] /\ epoch'[a] <= 1
    BY DEF agentVars
  <2>2. \A j \in Jobs : j \in Unreported(a)' <=> Waits(Said(a)', exec'[a], j)
    BY <2>1, ReportingNext DEF Waits
  <2> QED BY <1>3, <2>1, <2>2 DEF Waits
<1>7. Unreported(a) \subseteq Jobs /\ Head(p).job \in Jobs
  BY ReceivedTyped DEF Unreported, Answer
<1>8. Followed(Tail(q), r) => Followed(Said(a), exec[a])'
  <2>1. Followed(Said(a), exec[a])' <=> Followed(Said(a)', exec'[a])
    BY DEF Followed
  <2>2. exec'[a] = r
    BY DEF agentVars
  <2> QED BY <1>3, <2>1, <2>2
<1> QED BY <1>3, <1>4, <1>5, <1>6, <1>7, <1>8

-----------------------------------------------------------------------------
(* Messages are read in the order in which they were sent, so that a job is     *)
(* registered before its end arrives.                                           *)

\* As long as agent a is on its first connection, every acceptance its handler has still
\* to read has the end of the job behind it or to come, and so has one being recorded.
ReportInv ==
  \A a \in Agents : link[a] /\ epoch[a] <= 1 =>
    /\ Followed(Said(a), exec[a])
    /\ handler[a].pc \in {"create", "status", "agentName"} => handler[a].job \in Unreported(a)

LEMMA ReportHandler ==
  ASSUME TypeOK, TypeOK', Wiring, Wiring', ReportInv, NEW a \in Agents, handleConn(a),
         UNCHANGED agentVars, link[a], epoch[a] <= 1
  PROVE  /\ Followed(Said(a), exec[a])'
         /\ handler'[a].pc \in {"create", "status", "agentName"}
              => handler'[a].job \in Unreported(a)'
<1> DEFINE Goal == /\ Followed(Said(a), exec[a])'
                   /\ handler'[a].pc \in {"create", "status", "agentName"}
                        => handler'[a].job \in Unreported(a)'
           m == Head(toServer[a])
<1>0. /\ Followed(Said(a), exec[a])
      /\ handler[a].pc \in {"create", "status", "agentName"} => handler[a].job \in Unreported(a)
      /\ UNCHANGED <<link, epoch>>
  BY HandlerFrame DEF ReportInv
<1>1. ASSUME NEW types, Receive(a, types)
      PROVE  /\ Followed(Said(a), exec[a])'
             /\ m.type = "accepted" => m.job \in Unreported(a)'
  BY <1>0, <1>1, HandlerReads
<1>2. ASSUME toServer' = toServer
      PROVE  Followed(Said(a), exec[a])' /\ Unreported(a)' = Unreported(a)
  <2>1. Said(a)' = Said(a) /\ Unreported(a)' = Unreported(a) /\ exec' = exec
    BY <1>2, SameQueues DEF agentVars
  <2> QED BY <1>0, <2>1 DEF Followed
<1>3. CASE handleMsgJobAccepted(a)
  <2>1. Receive(a, {"accepted", "rejected"})
    BY <1>3 DEF handleMsgJobAccepted
  <2>2. CASE handler' = handler
    BY <1>1, <2>1, <2>2 DEF Receive, At
  <2>3. CASE m.type = "accepted" /\ Goto(a, "create", m.job, "absent")
    BY <1>1, <2>1, <2>3, HandlerGoes
  <2> QED BY <1>3, <2>2, <2>3 DEF handleMsgJobAccepted
<1>4. CASE OpenLog(a) \/ RegisterStatus(a) \/ RegisterAgentName(a)
  <2>1. /\ toServer' = toServer
        /\ handler[a].pc \in {"create", "status", "agentName"}
        /\ handler'[a].pc \in {"create", "status", "agentName"} => handler'[a].job = handler[a].job
    BY <1>4, HandlerGoes DEF OpenLog, RegisterStatus, RegisterAgentName, At, netVars
  <2> QED BY <1>0, <1>2, <2>1
<1>5. CASE handleMsgJobDone(a) \/ handleMsgJobUpdate(a)
  <2>1. Receive(a, {"done"}) \/ Receive(a, {"update"})
    BY <1>5 DEF handleMsgJobDone, handleMsgJobUpdate
  <2>2. handler'[a].pc \notin {"create", "status", "agentName"}
    <3>1. CASE handleMsgJobDone(a)
      BY <3>1, HandlerGoes DEF handleMsgJobDone
    <3>2. CASE handleMsgJobUpdate(a)
      BY <3>2 DEF handleMsgJobUpdate, Receive, At
    <3> QED BY <1>5, <3>1, <3>2
  <2> QED BY <1>1, <2>1, <2>2
<1>6. CASE deregisterScheduledJob(a) \/ deregisterNode(a)
  <2>1. toServer' = toServer
    BY <1>6 DEF deregisterScheduledJob, CloseLog, FinalStatus, deregisterNode, ReadError,
                FailNext, RemoveNode, netVars
  <2>2. handler'[a].pc \notin {"create", "status", "agentName"}
    <3>1. CASE deregisterScheduledJob(a)
      BY <3>1, HandlerGoes DEF deregisterScheduledJob, CloseLog, FinalStatus
    <3>2. CASE ReadError(a) \/ FailNext(a)
      <4>1. \E pc \in {"fail", "close"} : \E i, s, J : GotoDying(a, pc, i, s, J)
        BY <3>2 DEF ReadError, FailNext
      <4>2. \E pc \in {"fail", "close"} : handler'[a].pc = pc
        BY <4>1, HandlerDies, ZenonT(30)
      <4> QED BY <4>2
    <3>3. CASE RemoveNode(a)
      BY <3>3 DEF RemoveNode, NoHandler, TypeOK, ServerTypeOK
    <3> QED BY <1>6, <3>1, <3>2, <3>3 DEF deregisterNode
  <2> QED BY <1>2, <2>1, <2>2
<1> QED BY <1>3, <1>4, <1>5, <1>6 DEF handleConn, registerScheduledJob

LEMMA ReportStep ==
  ASSUME TypeOK, TypeOK', Wiring, Wiring', ReportInv, [Next]_vars
  PROVE  ReportInv'
<1> SUFFICES ASSUME NEW a \in Agents, link'[a], epoch'[a] <= 1
             PROVE  /\ Followed(Said(a), exec[a])'
                    /\ handler'[a].pc \in {"create", "status", "agentName"}
                         => handler'[a].job \in Unreported(a)'
  BY DEF ReportInv
<1>1. ASSUME link[a], epoch[a] <= 1, UNCHANGED agentVars, toServer'[a] = toServer[a],
             handler'[a] = handler[a]
      PROVE  /\ Followed(Said(a), exec[a])'
             /\ handler'[a].pc \in {"create", "status", "agentName"}
                  => handler'[a].job \in Unreported(a)'
  <2>1. Said(a)' = Said(a) /\ Unreported(a)' = Unreported(a) /\ exec' = exec
    BY <1>1, SameQueues DEF agentVars
  <2> QED BY <1>1, <2>1 DEF ReportInv, Followed
<1>2. CASE Elsewhere /\ UNCHANGED agentVars
  BY <1>1, <1>2, ElsewhereFrame
<1>3. ASSUME NEW b \in Agents, handleConn(b), UNCHANGED agentVars
      PROVE  /\ Followed(Said(a), exec[a])'
             /\ handler'[a].pc \in {"create", "status", "agentName"}
                  => handler'[a].job \in Unreported(a)'
  <2>1. link[a] /\ epoch[a] <= 1
    BY <1>3, HandlerFrame
  <2>2. CASE a = b
    BY <1>3, <2>1, <2>2, ReportHandler
  <2>3. CASE a # b
    BY <1>1, <1>3, <2>1, <2>3, HandlerFrame
  <2> QED BY <2>2, <2>3
<1>4. ASSUME NEW b \in Agents, Acts(b), UNCHANGED serverVars
      PROVE  /\ Followed(Said(a), exec[a])'
             /\ handler'[a].pc \in {"create", "status", "agentName"}
                  => handler'[a].job \in Unreported(a)'
  <2>1. epoch[a] <= 1
    BY <1>4, AgentFrame
  <2> QED BY <1>4, <2>1, AgentKeeps DEF ReportInv, serverVars
<1>5. ASSUME NEW b \in Agents, Handshake(b)
      PROVE  /\ Followed(Said(a), exec[a])'
             /\ handler'[a].pc \in {"create", "status", "agentName"}
                  => handler'[a].job \in Unreported(a)'
  <2>1. CASE a = b
    <3>1. epoch'[a] = epoch[a] + 1 /\ epoch[a] = 0
      BY <1>5, <2>1, HandshakeFrame DEF TypeOK, NetTypeOK
    <3>2. 1 .. epoch[a] = {}
      BY <3>1
    <3>3. writers[a] = {} /\ msgOutCh[a] = <<>> /\ 1 \in Conns
      BY <3>1, <3>2, ProtocolAssumption
         DEF Wiring, UnknownBefore, WritersInv, Conns, TypeOK, NetTypeOK
    <3>4. hand[a][1] = <<>>
      BY <3>3 DEF Wiring, WritersInv
    <3>5. toServer'[a] = <<>> /\ hand'[a][1] = <<>> /\ msgOutCh'[a] = <<>>
      BY <1>5, <2>1, <3>3, <3>4, HandshakeFrame
    <3>6. Said(a)' = <<>>
      BY <3>5 DEF Said
    <3>7. handler'[a].pc = "read"
      BY <1>5, <2>1, HandshakeFrame DEF Reading
    <3>8. Followed(<<>>, exec[a]')
      BY DEF Followed
    <3> QED BY <3>6, <3>7, <3>8
  <2>2. CASE a # b
    <3>1. /\ link[a] /\ epoch[a] <= 1 /\ toServer'[a] = toServer[a] /\ handler'[a] = handler[a]
          /\ exec' = exec /\ hand' = hand /\ msgOutCh' = msgOutCh
      BY <1>5, <2>2, HandshakeFrame
    <3>2. Said(a)' = Said(a) /\ Unreported(a)' = Unreported(a)
      BY <3>1, SameQueues
    <3> QED BY <3>1, <3>2 DEF ReportInv, Followed
  <2> QED BY <2>1, <2>2
<1>6. ASSUME NEW b \in Agents, AgentInfo(b) \/ ConnectionLost(b)
      PROVE  /\ Followed(Said(a), exec[a])'
             /\ handler'[a].pc \in {"create", "status", "agentName"}
                  => handler'[a].job \in Unreported(a)'
  <2>1. /\ link[a] /\ epoch' = epoch /\ toServer'[a] = toServer[a] /\ handler' = handler
        /\ UNCHANGED agentVars
    BY <1>6 DEF AgentInfo, ConnectionLost, BreakLink, netVars, serverVars, TypeOK, NetTypeOK
  <2> QED BY <1>1, <2>1
<1>7. ~ServerLost
  BY DEF ServerLost, Stop, NilConnPanic, ServerEnds
<1>8. CASE UNCHANGED vars
  BY <1>1, <1>8 DEF vars, netVars, serverVars
<1> QED BY <1>2, <1>3, <1>4, <1>5, <1>6, <1>7, <1>8, StepKinds

-----------------------------------------------------------------------------
(* Connections that a proxy node keeps are real ones: the sender does not panic. *)

ConnInv ==
  ProxyKeepsConn =>
    /\ \A p \in offers : p.conn # NilConn
    /\ \A i \in 1 .. Len(cliChan) : cliChan[i].conn # NilConn
    /\ \A u \in Users : requests[u].op = "unicast" => requests[u].conn # NilConn

LEMMA ConnElsewhere ==
  ASSUME TypeOK, Wiring, ConnInv, ProxyKeepsConn, Elsewhere
  PROVE  ConnInv'
<1>0. \A a \in nodes : a \in Agents /\ epoch[a] # NilConn
  BY DEF nodes, Wiring, UnknownBefore, NilConn
<1>a. /\ \A p \in offers : p.conn # NilConn
      /\ \A i \in 1 .. Len(cliChan) : cliChan[i].conn # NilConn
      /\ \A u \in Users : requests[u].op = "unicast" => requests[u].conn # NilConn
  BY DEF ConnInv
<1>b. /\ offers \subseteq Pair /\ cliChan \in Seq(Pair) /\ requests \in [Users -> APIRequest]
  BY DEF TypeOK, ServerTypeOK
<1>c. ASSUME NEW u \in Users, NEW r, requests' = [requests EXCEPT ![u] = r],
             r.op = "unicast" => r.conn # NilConn
      PROVE  \A v \in Users : requests'[v].op = "unicast" => requests'[v].conn # NilConn
  BY <1>a, <1>b, <1>c
<1>d. ASSUME NEW p \in Pair, p.conn # NilConn, cliChan' = Append(cliChan, p)
      PROVE  \A i \in 1 .. Len(cliChan') : cliChan'[i].conn # NilConn
  <2>1. /\ Len(cliChan') = Len(cliChan) + 1 /\ cliChan'[Len(cliChan) + 1] = p
        /\ Len(cliChan) \in Nat /\ \A i \in 1 .. Len(cliChan) : cliChan'[i] = cliChan[i]
    BY <1>b, <1>d
  <2> QED BY <1>a, <1>d, <2>1
<1>1. CASE (\E j \in Jobs : postJob(j)) \/ ReadWaiting \/ Restart
  <2>1. UNCHANGED <<offers, cliChan, requests>>
    BY <1>1 DEF postJob, ReadWaiting, Restart
  <2> QED BY <2>1, <1>a DEF ConnInv
<1>2. ASSUME NEW u \in Users, NEW j \in Jobs, patchJob(u, j) \/ deleteJob(u, j)
      PROVE  ConnInv'
  <2>1. \E op \in {"cancel", "delete"} : requests' = [requests EXCEPT
          ![u] = [op |-> op, job |-> j, status |-> store[j].status,
                  agent |-> store[j].agent, conn |-> NilConn]]
    BY <1>2 DEF patchJob, deleteJob, ReadRequest
  <2>2. PICK r : r.op # "unicast" /\ requests' = [requests EXCEPT ![u] = r]
    BY <2>1
  <2>3. UNCHANGED <<offers, cliChan>>
    BY <1>2 DEF patchJob, deleteJob, ReadRequest
  <2> QED BY <1>a, <1>c, <2>2, <2>3 DEF ConnInv
<1>3. ASSUME NEW u \in Users, CancelWaiting(u) \/ DeleteStatus(u)
      PROVE  ConnInv'
  <2>1. requests' = [requests EXCEPT ![u] = NoRequest] /\ UNCHANGED <<offers, cliChan>>
    BY <1>3 DEF CancelWaiting, DeleteStatus
  <2>2. NoRequest.op # "unicast"
    BY DEF NoRequest
  <2> QED BY <1>a, <1>c, <2>1, <2>2 DEF ConnInv
<1>4. ASSUME NEW u \in Users, CancelScheduled(u)
      PROVE  ConnInv'
  <2> DEFINE r == IF requests[u].agent \in nodes
                    THEN [requests[u] EXCEPT !.op = "unicast", !.conn = epoch[requests[u].agent]]
                    ELSE NoRequest
  <2>1. requests' = [requests EXCEPT ![u] = r] /\ UNCHANGED <<offers, cliChan>>
    BY <1>4 DEF CancelScheduled
  <2>2. requests[u] \in [op : {"cancel"}, job : Jobs, status : {"SCHEDULED"},
                         agent : Agents \cup {NoAgent}, conn : {NilConn}]
    BY <1>4, <1>b DEF CancelScheduled, APIRequest, NoRequest
  <2>3. r.op = "unicast" => r.conn # NilConn
    BY <1>0, <2>2 DEF NoRequest
  <2> HIDE DEF r
  <2> QED BY <1>a, <1>c, <2>1, <2>3 DEF ConnInv
<1>5. ASSUME NEW u \in Users, sendCancelRequest(u)
      PROVE  ConnInv'
  <2> DEFINE p == [agent |-> requests[u].agent, conn |-> requests[u].conn,
                   msg |-> [type |-> "cancel", job |-> requests[u].job]]
  <2>1. /\ cliChan' = Append(cliChan, p) /\ offers' = offers
        /\ requests' = [requests EXCEPT ![u] = NoRequest]
    BY <1>5 DEF sendCancelRequest
  <2>2. NoRequest.op # "unicast"
    BY DEF NoRequest
  <2>3. requests[u] \in [op : {"unicast"}, job : Jobs, status : {"SCHEDULED"},
                         agent : Agents, conn : {NilConn} \cup Conns]
    BY <1>5, <1>b, RequestInUnicast DEF sendCancelRequest
  <2>4. p \in Pair /\ p.conn # NilConn
    BY <1>a, <2>3 DEF Pair, Request
  <2> HIDE DEF p
  <2> QED BY <1>a, <1>c, <1>d, <2>1, <2>2, <2>4 DEF ConnInv
<1>6. CASE distribute
  <2>1. PICK D \in Distributions(batch) :
          offers' = {[agent |-> D[j], conn |-> ProxyConn(D[j]),
                      msg |-> [type |-> "offer", job |-> j]] :
                     j \in {i \in batch : D[i] # NoAgent}}
    BY <1>6 DEF distribute
  <2>2. D \in [batch -> nodes \cup {NoAgent}]
    BY <2>1 DEF Distributions, Placements
  <2>3. \A p \in offers' : p.conn # NilConn
    BY <1>0, <2>1, <2>2 DEF ProxyConn
  <2>4. UNCHANGED <<cliChan, requests>>
    BY <1>6 DEF distribute
  <2> QED BY <1>a, <2>3, <2>4 DEF ConnInv
<1>7. ASSUME NEW p \in offers, Unicast(p)
      PROVE  ConnInv'
  <2>1. p \in Pair /\ p.conn # NilConn
    BY <1>a, <1>b
  <2>2. cliChan' = Append(cliChan, p) /\ offers' \subseteq offers /\ UNCHANGED requests
    BY <1>7 DEF Unicast
  <2> QED BY <1>a, <1>d, <2>1, <2>2 DEF ConnInv
<1>8. CASE Send
  <2>1. cliChan # <<>> /\ cliChan' = Tail(cliChan) /\ UNCHANGED <<offers, requests>>
    BY <1>8 DEF Send
  <2>2. \A i \in 1 .. Len(cliChan') : i + 1 \in 1 .. Len(cliChan) /\ cliChan'[i] = cliChan[i + 1]
    BY <1>b, <2>1
  <2> QED BY <1>a, <2>1, <2>2 DEF ConnInv
<1> QED BY <1>1, <1>2, <1>3, <1>4, <1>5, <1>6, <1>7, <1>8 DEF Elsewhere, CancelJob

LEMMA ConnStep == TypeOK /\ Wiring /\ ConnInv /\ [Next]_vars => ConnInv'
<1> SUFFICES ASSUME TypeOK, Wiring, ConnInv, [Next]_vars, ProxyKeepsConn PROVE ConnInv'
  BY DEF ConnInv
<1>1. ASSUME UNCHANGED <<offers, cliChan, requests>>
      PROVE  ConnInv'
  BY <1>1 DEF ConnInv
<1>2. CASE ServerLost
  BY <1>2 DEF ServerLost, Stop, NilConnPanic, ServerEnds, ConnInv, NoRequest
<1>3. CASE ~ServerLost /\ ~Elsewhere
  <2>1. ASSUME NEW a \in Agents, AgentInfo(a) \/ ConnectionLost(a)
        PROVE  UNCHANGED <<offers, cliChan, requests>>
    BY <2>1 DEF AgentInfo, ConnectionLost, serverVars
  <2> QED BY <1>1, <1>3, <2>1, StepKinds, HandlerFrame, HandshakeFrame DEF vars, serverVars
<1> QED BY <1>2, <1>3, ConnElsewhere

\* With it, the server is lost in a Stop only.
LEMMA NoPanic == TypeOK /\ ConnInv /\ ProxyKeepsConn => ~NilConnPanic
BY DEF TypeOK, ServerTypeOK, ConnInv, NilConnPanic

-----------------------------------------------------------------------------
(* A job that is SCHEDULED is found by the handler of an agent. *)

Found(a, j) ==
  \/ handler[a].job = j
  \/ j \in handler[a].todo
  \/ /\ handler[a].pc # "none" /\ ~handler[a].dying /\ store[j].agent = a
     /\ ~link[a] \/ j \in Unreported(a)

AllFound == \A j \in Jobs : store[j].status = "SCHEDULED" => \E a \in Agents : Found(a, j)

\* The handler of agent a keeps hold of its jobs, or records that they are not
\* SCHEDULED any more.
LEMMA FoundHandler ==
  ASSUME TypeOK, TypeOK', Wiring, Wiring', ReportInv, NEW a \in Agents, handleConn(a),
         UNCHANGED agentVars, epoch[a] <= 1,
         NEW j \in Jobs, store[j].status = "SCHEDULED", store'[j].status = "SCHEDULED", Found(a, j)
  PROVE  Found(a, j)' \/ RegisterAgentName(a)
<1> DEFINE m == Head(toServer[a])
<1>0. /\ handler[a] \in Handler /\ Shaped(handler[a]) /\ j # NoJob
      /\ UNCHANGED <<link, epoch>>
  BY HandlerFrame, ProtocolAssumption DEF TypeOK, ServerTypeOK, Wiring, DyingInv
<1>a. /\ handler[a].pc \in {"none", "read", "fail"} => handler[a].job = NoJob
      /\ handler[a].dying \in BOOLEAN
  BY <1>0, HandlerFields
<1>1. ASSUME NEW types, Receive(a, types), store'[j].agent = store[j].agent,
             ~(m.type = "done" /\ m.job = j), handler'[a].pc # "none",
             handler'[a].dying = handler[a].dying
      PROVE  Found(a, j)'
  <2>1. /\ handler[a].pc = "read" /\ ~handler[a].dying
        /\ store[j].agent = a /\ (~link[a] \/ j \in Unreported(a))
    BY <1>0, <1>a, <1>1 DEF Found, Shaped, Receive, At
  <2>2. ~link'[a] \/ j \in Unreported(a)'
    <3>1. CASE ~link[a]
      BY <1>0, <3>1
    <3>2. CASE link[a] /\ j \in Unreported(a)
      BY <1>0, <1>1, <3>2, HandlerReads
    <3> QED BY <2>1, <3>1, <3>2
  <2>3. store[j].agent = a
    BY <1>0, <1>a, <1>1 DEF Found, Shaped, Receive, At
  <2> QED BY <1>1, <2>1, <2>2, <2>3 DEF Found
<1>2. ASSUME toServer' = toServer, store'[j].agent = store[j].agent,
             handler'[a].pc # "none", handler'[a].dying = handler[a].dying,
             handler'[a].todo = handler[a].todo, handler'[a].job = handler[a].job \/ handler[a].job # j
      PROVE  Found(a, j)'
  <2>1. Unreported(a)' = Unreported(a)
    BY <1>2, SameQueues DEF agentVars
  <2> QED BY <1>0, <1>2, <2>1 DEF Found
<1>3. CASE handleMsgJobAccepted(a) \/ handleMsgJobUpdate(a)
  <2>1. PICK types \in {{"accepted", "rejected"}, {"update"}} : Receive(a, types)
    BY <1>3 DEF handleMsgJobAccepted, handleMsgJobUpdate
  <2>2. store'[j].agent = store[j].agent
    BY <1>3, HandlerAgent, HandlerGoes
       DEF handleMsgJobAccepted, handleMsgJobUpdate, Receive, RegisterAgentName, At
  <2>3. handler'[a].pc # "none" /\ handler'[a].dying = handler[a].dying
    BY <1>3, HandlerGoes DEF handleMsgJobAccepted, handleMsgJobUpdate, Receive, At
  <2>4. m.type # "done"
    BY <2>1 DEF Receive
  <2> QED BY <1>1, <2>1, <2>2, <2>3, <2>4
<1>4. CASE handleMsgJobDone(a)
  <2>1. /\ handler'[a].job = m.job /\ handler'[a].pc # "none"
        /\ handler'[a].dying = handler[a].dying
    BY <1>4, HandlerGoes DEF handleMsgJobDone
  <2>2. CASE m.job = j
    BY <2>1, <2>2 DEF Found
  <2>3. CASE m.job # j
    <3>1. store'[j].agent = store[j].agent
      BY <1>4, HandlerAgent DEF handleMsgJobDone, Receive, RegisterAgentName, At
    <3> QED BY <1>1, <1>4, <2>1, <2>3, <3>1 DEF handleMsgJobDone
  <2> QED BY <2>2, <2>3
<1>5. CASE OpenLog(a) \/ RegisterStatus(a) \/ CloseLog(a)
  <2>1. /\ handler'[a].pc # "none" /\ handler'[a].dying = handler[a].dying
        /\ handler'[a].todo = handler[a].todo /\ handler'[a].job = handler[a].job
    BY <1>5, HandlerGoes DEF OpenLog, RegisterStatus, CloseLog
  <2>2. toServer' = toServer
    BY <1>5 DEF OpenLog, RegisterStatus, CloseLog, netVars
  <2>3. store'[j].agent = store[j].agent
    BY <1>5, HandlerAgent DEF OpenLog, RegisterStatus, CloseLog, RegisterAgentName, At
  <2> QED BY <1>2, <2>1, <2>2, <2>3
<1>6. CASE FinalStatus(a)
  <2>1. handler[a].job \in Jobs /\ handler[a].status \in EndStatus
    BY <1>0, <1>6, HandlerFields DEF FinalStatus, At
  <2>2. store'[handler[a].job].status = handler[a].status
    BY <1>6, <2>1, RowsAfter DEF FinalStatus, EndStatus, JobStatus
  <2>3. handler[a].job # j
    BY <2>1, <2>2 DEF EndStatus
  <2>4. /\ handler'[a].pc \in {"fail", "read"} /\ handler'[a].dying = handler[a].dying
        /\ handler'[a].todo = handler[a].todo
    BY <1>6, HandlerGoes DEF FinalStatus
  <2>5. toServer' = toServer
    BY <1>6 DEF FinalStatus, netVars
  <2>6. store'[j].agent = store[j].agent
    BY <1>6, HandlerAgent DEF FinalStatus, RegisterAgentName, At
  <2> QED BY <1>2, <2>3, <2>4, <2>5, <2>6
<1>7. CASE ReadError(a)
  <2>1. /\ handler[a].pc = "read" /\ store' = store
        /\ GotoDying(a, "fail", NoJob, "absent", JobsFromNodeWithStatus(a, "SCHEDULED"))
    BY <1>7 DEF ReadError, At
  <2>2. handler'[a].todo = JobsFromNodeWithStatus(a, "SCHEDULED")
    BY <2>1, HandlerDies, ZenonT(30)
  <2>3. store[j].agent = a
    BY <1>0, <1>a, <2>1 DEF Found, Shaped
  <2>4. j \in handler'[a].todo
    BY <2>2, <2>3 DEF JobsFromNodeWithStatus, JobsWithStatus
  <2> QED BY <2>4 DEF Found
<1>8. CASE FailNext(a)
  <2>1. handler[a].pc = "fail" /\ handler[a].dying
    BY <1>0, <1>8 DEF FailNext, At, Shaped
  <2>2. j \in handler[a].todo
    BY <1>0, <1>a, <2>1 DEF Found
  <2>3. PICK i : GotoDying(a, "close", i, LostStatus, handler[a].todo \ {i})
    BY <1>8 DEF FailNext
  <2>4. handler'[a].job = i /\ handler'[a].todo = handler[a].todo \ {i}
    BY <2>3, HandlerDies, ZenonT(30)
  <2> QED BY <2>2, <2>4 DEF Found
<1>9. ~RemoveNode(a)
  <2>1. ASSUME RemoveNode(a) PROVE FALSE
    <3>1. handler[a].pc = "fail" /\ handler[a].dying /\ handler[a].todo = {}
      BY <1>0, <2>1 DEF RemoveNode, At, Shaped
    <3> QED BY <1>0, <1>a, <3>1 DEF Found
  <2> QED BY <2>1
<1> QED BY <1>3, <1>4, <1>5, <1>6, <1>7, <1>8, <1>9, Zenon
        DEF handleConn, registerScheduledJob, deregisterScheduledJob, deregisterNode

\* handleConn makes a job SCHEDULED in registerScheduledJob only.
LEMMA OnlyRegistered ==
  ASSUME TypeOK, NEW a \in Agents, handleConn(a), NEW j \in Jobs,
         store'[j].status = "SCHEDULED", store[j].status # "SCHEDULED"
  PROVE  handler'[a].job = j
<1> handler[a] \in Handler
  BY DEF TypeOK, ServerTypeOK
<1>1. ~(handleMsgJobAccepted(a) \/ OpenLog(a) \/ CloseLog(a) \/ deregisterNode(a))
  BY DEF handleMsgJobAccepted, OpenLog, CloseLog, deregisterNode, ReadError, FailNext, RemoveNode
<1>2. ~(handleMsgJobDone(a) \/ handleMsgJobUpdate(a))
  <2>1. ASSUME handleMsgJobDone(a) \/ handleMsgJobUpdate(a) PROVE FALSE
    <3>1. Head(toServer[a]).job \in Jobs
      BY <2>1, ReceivedTyped DEF handleMsgJobDone, handleMsgJobUpdate, Answer
    <3> QED BY <2>1, <3>1, RowsAfter DEF handleMsgJobDone, handleMsgJobUpdate
  <2> QED BY <2>1
<1>3. CASE RegisterStatus(a)
  <2>1. handler[a].job \in Jobs
    BY <1>3, HandlerFields DEF RegisterStatus, At
  <2>2. handler'[a].job = handler[a].job
    BY <1>3, HandlerGoes DEF RegisterStatus
  <2>3. handler[a].job = j
    BY <1>3, <2>1, RowsAfter DEF RegisterStatus, JobStatus
  <2> QED BY <2>2, <2>3
<1>4. ~FinalStatus(a)
  <2>1. ASSUME FinalStatus(a) PROVE FALSE
    <3>1. handler[a].job \in Jobs /\ handler[a].status \in EndStatus
      BY <2>1, HandlerFields DEF FinalStatus, At
    <3> QED BY <2>1, <3>1, RowsAfter DEF FinalStatus, EndStatus, JobStatus
  <2> QED BY <2>1
<1>5. ~RegisterAgentName(a)
  <2>1. ASSUME RegisterAgentName(a) PROVE FALSE
    <3>1. handler[a].job \in Jobs
      BY <2>1, HandlerFields DEF RegisterAgentName, At
    <3> QED BY <2>1, <3>1, RowsAfter DEF RegisterAgentName
  <2> QED BY <2>1
<1> QED BY <1>1, <1>2, <1>3, <1>4, <1>5
        DEF handleConn, registerScheduledJob, deregisterScheduledJob

\* What does not touch agent a, its handler, and the agent of the job, leaves it found.
LEMMA StillFound ==
  ASSUME NEW a \in Agents, NEW j \in Jobs, Found(a, j), handler'[a] = handler[a],
         store'[j].agent = store[j].agent,
         ~link'[a] \/ (link'[a] = link[a] /\ Unreported(a) \subseteq Unreported(a)')
  PROVE  Found(a, j)'
BY DEF Found

LEMMA FoundServer ==
  ASSUME TypeOK, TypeOK', Wiring, Wiring', ReportInv, NEW b \in Agents, handleConn(b),
         UNCHANGED agentVars, Once, AllFound, NEW j \in Jobs, store'[j].status = "SCHEDULED"
  PROVE  \E a \in Agents : Found(a, j)'
<1>1. CASE store[j].status # "SCHEDULED"
  BY <1>1, OnlyRegistered DEF Found
<1>2. CASE store[j].status = "SCHEDULED"
  <2>1. PICK a \in Agents : Found(a, j)
    BY <1>2 DEF AllFound
  <2>2. UNCHANGED <<link, epoch>>
    BY HandlerFrame
  <2>3. CASE a # b /\ store'[j].agent = store[j].agent
    <3>1. Unreported(a)' = Unreported(a) /\ handler'[a] = handler[a]
      BY <2>3, HandlerFrame, SameQueues DEF agentVars
    <3> QED BY <2>1, <2>2, <2>3, <3>1, StillFound
  <2>4. CASE RegisterAgentName(b)
    <3>1. handler[b].pc = "agentName" /\ toServer' = toServer /\ ~handler[b].dying
      BY <2>4 DEF RegisterAgentName, At, netVars, Wiring, DyingInv, Shaped
    <3>2. handler[b].job \in Jobs /\ handler[b].todo = {}
      BY <3>1, HandlerFields DEF Wiring, DyingInv, Shaped, TypeOK, ServerTypeOK
    <3>3. /\ handler'[b].pc = "read" /\ handler'[b].dying = handler[b].dying
      BY <2>4, HandlerGoes DEF RegisterAgentName
    <3>4. Unreported(b)' = Unreported(b)
      BY <3>1, SameQueues DEF agentVars
    <3>5. CASE handler[b].job = j
      <4>1. ~link[b] \/ j \in Unreported(b)
        BY <3>1, <3>5 DEF ReportInv, Once
      <4>2. store'[j].agent = b
        BY <2>4, <3>2, <3>5, RowsAfter DEF RegisterAgentName
      <4> QED BY <2>2, <3>1, <3>3, <3>4, <4>1, <4>2 DEF Found
    <3>6. CASE handler[b].job # j
      <4>1. store'[j].agent = store[j].agent
        BY <2>4, <3>2, <3>6, RowsAfter DEF RegisterAgentName
      <4>2. CASE a = b
        BY <2>1, <2>2, <3>1, <3>2, <3>3, <3>4, <3>6, <4>1, <4>2 DEF Found
      <4> QED BY <2>3, <4>1, <4>2
    <3> QED BY <3>5, <3>6
  <2>5. CASE a = b /\ ~RegisterAgentName(b)
    BY <1>2, <2>1, <2>5, FoundHandler DEF Once
  <2> QED BY <2>3, <2>4, <2>5, HandlerAgent
<1> QED BY <1>1, <1>2

\* Counters go up, and a connection is made only with a new number.
LEMMA Onward ==
  ASSUME TypeOK, [Next]_vars
  PROVE  /\ stops \in Nat /\ stops' \in Nat /\ stops <= stops'
         /\ ServerLost => NilConnPanic \/ stops < stops'
         /\ \A a \in Agents : /\ epoch[a] \in Nat /\ epoch'[a] \in Nat /\ epoch[a] <= epoch'[a]
                              /\ epoch'[a] = epoch[a] => (link'[a] => link[a])
<1>0. TypeOK'
  BY TypeStep
<1>1. /\ stops \in Nat /\ stops' \in Nat
      /\ \A a \in Agents : epoch[a] \in Nat /\ epoch'[a] \in Nat
  BY <1>0, ProtocolAssumption, ServerAssumption DEF TypeOK, ServerTypeOK, NetTypeOK
<1>2. CASE ServerLost
  <2>1. \/ stops' = stops + 1
        \/ NilConnPanic /\ stops' = stops
    BY <1>2 DEF ServerLost, Stop, NilConnPanic
  <2>2. epoch' = epoch /\ link' = [a \in Agents |-> FALSE]
    BY <1>2 DEF ServerLost, Stop, NilConnPanic, ServerEnds
  <2>3. \A a \in Agents : ~link'[a] /\ epoch[a] = epoch'[a]
    BY <2>2
  <2> QED BY <1>1, <2>1, <2>3
<1>3. ASSUME NEW b \in Agents, AgentInfo(b) \/ ConnectionLost(b)
      PROVE  /\ UNCHANGED <<stops, epoch>>
             /\ \A a \in Agents : link'[a] => link[a]
  BY <1>3 DEF AgentInfo, ConnectionLost, BreakLink, serverVars, netVars, TypeOK, NetTypeOK
<1>4. ASSUME NEW b \in Agents, Acts(b)
      PROVE  \A a \in Agents : link'[a] => link[a]
  <2>1. ASSUME ~Crash(b) PROVE link' = link
    BY <1>4, <2>1
       DEF Acts, ConnectionLoop, Disconnected, rejectJobOffer, acceptJobOffer, cancelJob,
           Receives, Runner, onJobUpdate, handleJobDone, Writer, TakeOut, WriteOut, netVars
  <2>2. CASE Crash(b)
    BY <2>2 DEF Crash, TypeOK, NetTypeOK
  <2> QED BY <2>1, <2>2
<1>5. ASSUME NEW b \in Agents, Handshake(b)
      PROVE  /\ stops' = stops
             /\ \A a \in Agents : \/ epoch'[a] = epoch[a] + 1
                                  \/ epoch'[a] = epoch[a] /\ link'[a] = link[a]
  BY <1>5, HandshakeFrame
<1>6. ASSUME UNCHANGED <<stops, epoch>>, \A a \in Agents : link'[a] => link[a], ~ServerLost
      PROVE  /\ stops \in Nat /\ stops' \in Nat /\ stops <= stops'
             /\ ServerLost => NilConnPanic \/ stops < stops'
             /\ \A a \in Agents : /\ epoch[a] \in Nat /\ epoch'[a] \in Nat /\ epoch[a] <= epoch'[a]
                                  /\ epoch'[a] = epoch[a] => (link'[a] => link[a])
  BY <1>1, <1>6
<1>7. CASE Elsewhere
  BY <1>2, <1>6, <1>7, ElsewhereFrame
<1>8. ASSUME NEW b \in Agents, handleConn(b)
      PROVE  UNCHANGED <<stops, epoch, link>>
  BY <1>8, HandlerFrame
<1>9. ASSUME NEW b \in Agents, Acts(b), UNCHANGED serverVars
       PROVE  UNCHANGED <<stops, epoch>>
  BY <1>9, AgentFrame DEF serverVars
<1>10. ASSUME NEW b \in Agents, Handshake(b), ~ServerLost
       PROVE  /\ stops \in Nat /\ stops' \in Nat /\ stops <= stops'
              /\ \A a \in Agents :
                   /\ epoch[a] \in Nat /\ epoch'[a] \in Nat /\ epoch[a] <= epoch'[a]
                   /\ epoch'[a] = epoch[a] => (link'[a] => link[a])
  BY <1>1, <1>5, <1>10
<1> QED BY <1>1, <1>2, <1>3, <1>4, <1>6, <1>7, <1>8, <1>9, <1>10, StepKinds
        DEF vars, serverVars, netVars

LEMMA FoundStep ==
  ASSUME TypeOK, TypeOK', Wiring, Wiring', ConnInv, ReportInv, [Next]_vars, ProxyKeepsConn,
         AllFound, Once, stops' = 0
  PROVE  AllFound'
<1> SUFFICES ASSUME NEW j \in Jobs, store'[j].status = "SCHEDULED"
             PROVE  \E a \in Agents : Found(a, j)'
  BY DEF AllFound
<1>1. ASSUME store' = store \/ (Elsewhere /\ UNCHANGED agentVars)
      PROVE  \E a \in Agents : Found(a, j) /\ store'[j].agent = store[j].agent
  BY <1>1, ElsewhereRows DEF AllFound
<1>2. ASSUME UNCHANGED <<handler, agentVars>>, NEW a \in Agents, Found(a, j),
             store'[j].agent = store[j].agent,
             ~link'[a] \/ (link'[a] = link[a] /\ toServer'[a] = toServer[a])
      PROVE  Found(a, j)'
  BY <1>2, SameQueues, StillFound DEF agentVars
<1>3. CASE Elsewhere /\ UNCHANGED agentVars
  BY <1>1, <1>2, <1>3, ElsewhereFrame
<1>4. ASSUME NEW b \in Agents, handleConn(b), UNCHANGED agentVars
      PROVE  \E a \in Agents : Found(a, j)'
  BY <1>4, FoundServer
<1>5. ASSUME NEW b \in Agents, Acts(b), UNCHANGED serverVars
      PROVE  \E a \in Agents : Found(a, j)'
  <2>1. UNCHANGED <<store, handler>>
    BY <1>5 DEF serverVars
  <2>2. PICK a \in Agents : Found(a, j)
    BY <1>1, <2>1
  <2>3. ~link'[a] \/ (link'[a] = link[a] /\ Unreported(a) \subseteq Unreported(a)')
    BY <1>5, AgentKeeps DEF Once, TypeOK, NetTypeOK
  <2> QED BY <2>1, <2>2, <2>3, StillFound
<1>6. ASSUME NEW b \in Agents, Handshake(b)
      PROVE  \E a \in Agents : Found(a, j)'
  <2>1. store' = store /\ handler[b].pc = "none"
    BY <1>6, HandshakeFrame
  <2>2. PICK a \in Agents : Found(a, j)
    BY <1>1, <2>1
  <2>3. handler[b].job # j /\ handler[b].todo = {}
    BY <2>1, HandlerFields, ProtocolAssumption DEF Wiring, DyingInv, Shaped, TypeOK, ServerTypeOK
  <2>4. a # b
    BY <2>1, <2>2, <2>3 DEF Found
  <2>5. /\ handler'[a] = handler[a] /\ link'[a] = link[a] /\ toServer'[a] = toServer[a]
        /\ exec' = exec /\ hand' = hand /\ msgOutCh' = msgOutCh
    BY <1>6, <2>4, HandshakeFrame
  <2>6. Unreported(a)' = Unreported(a)
    BY <2>5, SameQueues
  <2> QED BY <2>1, <2>2, <2>5, <2>6, StillFound
<1>7. ASSUME NEW b \in Agents, AgentInfo(b) \/ ConnectionLost(b)
      PROVE  \E a \in Agents : Found(a, j)'
  <2>1. /\ UNCHANGED <<store, handler, agentVars>>
        /\ \A a \in Agents : ~link'[a] \/ (link'[a] = link[a] /\ toServer'[a] = toServer[a])
    BY <1>7 DEF AgentInfo, ConnectionLost, BreakLink, netVars, serverVars, TypeOK, NetTypeOK
  <2> QED BY <1>1, <1>2, <2>1
<1>8. ~ServerLost
  BY NoPanic, Onward
<1>9. CASE UNCHANGED vars
  BY <1>1, <1>2, <1>9 DEF vars, serverVars, netVars
<1> QED BY <1>3, <1>4, <1>5, <1>6, <1>7, <1>8, <1>9, StepKinds

\* No agent has connected a second time, and the server has not stopped.
Undisturbed == Once /\ stops = 0

FoundInv == TypeOK /\ Wiring /\ ConnInv /\ ReportInv /\ (Undisturbed => AllFound)

LEMMA ReportInit == Init => ReportInv
BY DEF Init, NetInit, ReportInv

LEMMA FoundInit == Init => FoundInv
<1> SUFFICES ASSUME Init PROVE FoundInv
  OBVIOUS
<1>1. ConnInv
  BY DEF Init, ServerInit, ConnInv, NoRequest
<1>2. AllFound
  BY DEF Init, ServerInit, AllFound
<1> QED BY <1>1, <1>2, TypeInit, WiringInit, ReportInit DEF FoundInv

LEMMA FoundInvStep == ProxyKeepsConn /\ FoundInv /\ [Next]_vars => FoundInv'
<1> SUFFICES ASSUME ProxyKeepsConn, FoundInv, [Next]_vars PROVE FoundInv'
  OBVIOUS
<1>1. TypeOK' /\ Wiring' /\ ConnInv'
  BY TypeStep, WiringStep, ConnStep DEF FoundInv
<1>2. ReportInv'
  BY <1>1, ReportStep DEF FoundInv
<1>3. ASSUME Undisturbed' PROVE AllFound'
  <2>1. Once /\ stops = 0 /\ stops' = 0
    BY <1>3, Onward DEF Undisturbed, Once, FoundInv
  <2> QED BY <1>1, <2>1, FoundStep DEF FoundInv, Undisturbed
<1> QED BY <1>1, <1>2, <1>3 DEF FoundInv

\* NoJobStranded: until an agent connects a second time or the server stops, a job
\* recorded as SCHEDULED is one whose end its agent has still to report to a handler that
\* will record it, or one that a handler has in hand or will find lost, whatever
\* connections break and agents crash (server/tcp.go:69-85, 155-169).
THEOREM NobodyStranded == Spec => [](Undisturbed => NoJobStranded)
<1>1. AllFound => NoJobStranded
  BY DEF AllFound, Found, NoJobStranded, Handles, JobsWithStatus, nodes
<1>2. CASE ProxyKeepsConn
  <2>1. FoundInv => (Undisturbed => NoJobStranded)
    BY <1>1 DEF FoundInv
  <2>2. FoundInv /\ [Next]_vars => FoundInv'
    BY <1>2, FoundInvStep
  <2> QED BY <2>1, <2>2, FoundInit, PTL DEF Spec
<1>3. CASE ~ProxyKeepsConn
  <2>1. StuckInQueue => NoJobStranded
    BY DEF StuckInQueue, NoJobStranded, JobsWithStatus
  <2>2. Spec => []StuckInQueue
    BY <1>3, NothingIsScheduled
  <2> QED BY <2>1, <2>2, PTL
<1> QED BY <1>2, <1>3

-----------------------------------------------------------------------------
(* While nothing fails, every open log is closed in the end. *)

\* No connection has broken, and the server has not stopped.
AllUp ==
  /\ stops = 0
  /\ \A a \in Agents : epoch[a] <= 1 /\ (epoch[a] = 1 => link[a])

\* Agent a is connected and its handler will still close the log of job j.
WillClose(a, j) ==
  link[a] /\ ((handler[a].pc = "close" /\ handler[a].job = j) \/ j \in Unreported(a))

LogsInv == \A j \in logs : \E a \in Agents : WillClose(a, j)

LEMMA ClosingHandler ==
  ASSUME TypeOK, TypeOK', Wiring, Wiring', ReportInv, NEW a \in Agents, handleConn(a),
         UNCHANGED agentVars, epoch[a] <= 1, link[a], NEW j \in Jobs, j \in logs'
  PROVE  /\ WillClose(a, j) => WillClose(a, j)'
         /\ j \notin logs => WillClose(a, j)'
<1> DEFINE m == Head(toServer[a])
<1>0. UNCHANGED <<link, epoch>> /\ handler[a] \in Handler
  BY HandlerFrame DEF TypeOK, ServerTypeOK
<1>1. ASSUME NEW types, Receive(a, types), logs' = logs,
             \/ ~(m.type = "done" /\ m.job = j)
             \/ handler'[a].pc = "close" /\ handler'[a].job = j
      PROVE  /\ WillClose(a, j) => WillClose(a, j)'
             /\ j \notin logs => WillClose(a, j)'
  <2>1. handler[a].pc = "read"
    BY <1>1 DEF Receive, At
  <2>2. j \in Unreported(a) => j \in Unreported(a)' \/ (m.type = "done" /\ m.job = j)
    BY <1>0, <1>1, HandlerReads
  <2> QED BY <1>0, <1>1, <2>1, <2>2 DEF WillClose
<1>2. ASSUME toServer' = toServer
      PROVE  Unreported(a)' = Unreported(a)
  BY <1>2, SameQueues DEF agentVars
<1>3. CASE handleMsgJobAccepted(a) \/ handleMsgJobUpdate(a)
  <2>1. PICK types \in {{"accepted", "rejected"}, {"update"}} : Receive(a, types)
    BY <1>3 DEF handleMsgJobAccepted, handleMsgJobUpdate
  <2>2. m.type # "done" /\ logs' = logs
    BY <1>3, <2>1 DEF Receive, handleMsgJobAccepted, handleMsgJobUpdate
  <2> QED BY <1>1, <2>1, <2>2
<1>4. CASE handleMsgJobDone(a)
  <2>1. /\ handler'[a].job = m.job /\ handler'[a].pc = "close"
        /\ Receive(a, {"done"}) /\ logs' = logs
    BY <1>4, HandlerGoes DEF handleMsgJobDone
  <2> QED BY <1>1, <2>1
<1>5. CASE OpenLog(a)
  <2>1. /\ handler[a].pc = "create" /\ logs' = logs \cup {handler[a].job} /\ toServer' = toServer
    BY <1>5 DEF OpenLog, LogOpened, At, netVars
  <2>2. handler[a].job \in Unreported(a)
    BY <2>1 DEF ReportInv
  <2> QED BY <1>0, <1>2, <2>1, <2>2 DEF WillClose
<1>6. CASE CloseLog(a)
  <2>1. logs' = logs \ {handler[a].job} /\ toServer' = toServer
    BY <1>6 DEF CloseLog, LogClosed, netVars
  <2> QED BY <1>0, <1>2, <2>1 DEF WillClose
<1>7. CASE RegisterStatus(a) \/ RegisterAgentName(a) \/ FinalStatus(a) \/ deregisterNode(a)
  <2>1. handler[a].pc # "close" /\ logs' = logs /\ toServer' = toServer
    BY <1>7 DEF RegisterStatus, RegisterAgentName, FinalStatus, deregisterNode, ReadError,
                FailNext, RemoveNode, At, netVars
  <2> QED BY <1>0, <1>2, <2>1 DEF WillClose
<1> QED BY <1>3, <1>4, <1>5, <1>6, <1>7, Zenon
        DEF handleConn, registerScheduledJob, deregisterScheduledJob

LEMMA LogsStep ==
  ASSUME TypeOK, TypeOK', Wiring, Wiring', ReportInv, [Next]_vars, LogsInv, AllUp, AllUp'
  PROVE  LogsInv'
<1> SUFFICES ASSUME NEW j \in logs'
             PROVE  \E a \in Agents : WillClose(a, j)'
  BY DEF LogsInv
<1>0. /\ j \in Jobs
      /\ \A a \in Agents : link[a] => epoch[a] = 1 /\ link'[a]
      /\ \A a \in Agents : epoch[a] # 0 => link[a]
  <2>1. \A a \in Agents : /\ epoch[a] \in Nat /\ epoch'[a] \in Nat /\ epoch[a] <= epoch'[a]
                          /\ epoch[a] <= 1 /\ epoch'[a] <= 1
                          /\ epoch[a] = 1 => link[a]
                          /\ epoch'[a] = 1 => link'[a]
                          /\ epoch[a] = 0 => ~link[a]
    BY Onward DEF AllUp, Wiring, UnknownBefore
  <2>2. j \in Jobs
    BY DEF TypeOK, ServerTypeOK
  <2> QED BY <2>1, <2>2
<1>1. ASSUME logs' = logs
      PROVE  \E a \in Agents : WillClose(a, j)
  BY <1>1 DEF LogsInv
<1>2. ASSUME NEW a \in Agents, WillClose(a, j), handler'[a] = handler[a],
             Unreported(a) \subseteq Unreported(a)'
      PROVE  WillClose(a, j)'
  BY <1>0, <1>2 DEF WillClose
<1>3. ASSUME UNCHANGED <<handler, agentVars, toServer, logs>>
      PROVE  \E a \in Agents : WillClose(a, j)'
  BY <1>1, <1>2, <1>3, SameQueues DEF agentVars
<1>4. CASE Elsewhere /\ UNCHANGED agentVars
  BY <1>3, <1>4, ElsewhereFrame
<1>5. ASSUME NEW b \in Agents, handleConn(b), UNCHANGED agentVars
      PROVE  \E a \in Agents : WillClose(a, j)'
  <2>1. link[b] /\ epoch[b] <= 1
    <3>1. epoch[b] # 0
      BY <1>5, HandlerFrame DEF Wiring, UnknownBefore
    <3> QED BY <1>0, <3>1
  <2>2. /\ WillClose(b, j) => WillClose(b, j)'
        /\ j \notin logs => WillClose(b, j)'
    BY <1>0, <1>5, <2>1, ClosingHandler
  <2>3. CASE j \in logs
    <3>1. PICK a \in Agents : WillClose(a, j)
      BY <2>3 DEF LogsInv
    <3>2. CASE a = b
      BY <2>2, <3>1, <3>2
    <3>3. CASE a # b
      <4>1. handler'[a] = handler[a] /\ Unreported(a)' = Unreported(a)
        BY <1>5, <3>3, HandlerFrame, SameQueues DEF agentVars
      <4> QED BY <1>2, <3>1, <4>1
    <3> QED BY <3>2, <3>3
  <2> QED BY <2>2, <2>3
<1>6. ASSUME NEW b \in Agents, Acts(b), UNCHANGED serverVars
      PROVE  \E a \in Agents : WillClose(a, j)'
  <2>1. UNCHANGED <<logs, handler>>
    BY <1>6 DEF serverVars
  <2>2. PICK a \in Agents : WillClose(a, j)
    BY <1>1, <2>1
  <2>3. link'[a] /\ epoch[a] <= 1
    BY <1>0, <2>2 DEF WillClose
  <2>4. Unreported(a) \subseteq Unreported(a)'
    BY <1>6, <2>3, AgentKeeps
  <2> QED BY <1>2, <2>1, <2>2, <2>4
<1>7. ASSUME NEW b \in Agents, Handshake(b)
      PROVE  \E a \in Agents : WillClose(a, j)'
  <2>1. PICK a \in Agents : WillClose(a, j)
    BY <1>1, <1>7, HandshakeFrame
  <2>2. epoch'[b] = epoch[b] + 1 /\ epoch'[b] <= 1 /\ epoch[a] = 1
    BY <1>0, <1>7, <2>1, HandshakeFrame DEF AllUp, WillClose
  <2>3. a # b
    BY <2>2
  <2>4. handler'[a] = handler[a] /\ Unreported(a)' = Unreported(a)
    BY <1>7, <2>3, HandshakeFrame, SameQueues
  <2> QED BY <1>2, <2>1, <2>4
<1>8. ASSUME NEW b \in Agents, AgentInfo(b) \/ ConnectionLost(b)
      PROVE  \E a \in Agents : WillClose(a, j)'
  <2>1. ~ConnectionLost(b)
    BY <1>0 DEF ConnectionLost, BreakLink, TypeOK, NetTypeOK
  <2>2. AgentInfo(b)
    BY <1>8, <2>1
  <2> QED BY <1>3, <2>2 DEF AgentInfo, netVars
<1>9. ~ServerLost
  BY DEF ServerLost, Stop, NilConnPanic, ServerEnds
<1>10. CASE UNCHANGED vars
  BY <1>3, <1>10 DEF vars, netVars, serverVars
<1> QED BY <1>4, <1>5, <1>6, <1>7, <1>8, <1>9, <1>10, StepKinds

LogInv == TypeOK /\ Wiring /\ ReportInv /\ (AllUp => LogsInv)

LEMMA LogInvStep == LogInv /\ [Next]_vars => LogInv'
<1> SUFFICES ASSUME LogInv, [Next]_vars PROVE LogInv'
  OBVIOUS
<1>1. TypeOK' /\ Wiring'
  BY TypeStep, WiringStep DEF LogInv
<1>2. ReportInv'
  BY <1>1, ReportStep DEF LogInv
<1>3. ASSUME AllUp' PROVE LogsInv'
  <2>1. AllUp
    <3>1. stops = 0
      BY <1>3, Onward DEF AllUp, LogInv
    <3>2. ASSUME NEW a \in Agents PROVE epoch[a] <= 1 /\ (epoch[a] = 1 => link[a])
      <4>1. epoch[a] \in Nat /\ epoch'[a] \in Nat /\ epoch[a] <= epoch'[a]
            /\ (epoch'[a] = epoch[a] => (link'[a] => link[a]))
        BY Onward DEF LogInv
      <4>2. epoch'[a] <= 1 /\ (epoch'[a] = 1 => link'[a])
        BY <1>3 DEF AllUp
      <4> QED BY <4>1, <4>2
    <3> QED BY <3>1, <3>2 DEF AllUp
  <2> QED BY <1>1, <1>3, <2>1, LogsStep DEF LogInv
<1> QED BY <1>1, <1>2, <1>3 DEF LogInv

\* OpenLogsWillClose: as long as no connection breaks and the server stays up, an open
\* log belongs to a job whose end is still to come, also when a user deletes the job
\* meanwhile or it was offered twice (server/disklog.go:28-57).
THEOREM LogsClose == Spec => [](AllUp => OpenLogsWillClose)
<1>1. Init => LogInv
  BY TypeInit, WiringInit, ReportInit DEF LogInv, LogsInv, Init, ServerInit
<1>2. LogInv => (AllUp => OpenLogsWillClose)
  BY DEF LogInv, LogsInv, WillClose, OpenLogsWillClose
<1> QED BY <1>1, <1>2, LogInvStep, PTL DEF Spec

=============================================================================
