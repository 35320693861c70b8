----------------------------- MODULE AsIsProofs -----------------------------
(***************************************************************************)
(* What becomes of Cluster with the proxy nodes as they are: no job ever   *)
(* reaches an agent, for any number of agents, jobs and users and any      *)
(* number of failures.                                                     *)
(***************************************************************************)
EXTENDS ClusterProofs

\* Whatever is on its way to an agent has no connection, and nothing arrives there.
NothingSent ==
  /\ \A p \in offers : p.conn = NilConn
  /\ \A i \in DOMAIN cliChan : cliChan[i].conn = NilConn
  /\ \A u \in Users : requests[u].status # "SCHEDULED"
  /\ \A a \in Agents : toAgent[a] = <<>>

\* So agents have nothing to run and nothing to say, and their handlers nothing to record.
NothingDone ==
  \A a \in Agents :
    /\ \A j \in Jobs : exec[a][j] = 0
    /\ msgOutCh[a] = <<>> /\ toServer[a] = <<>>
    /\ \A w \in Conns : hand[a][w] = <<>>
    /\ handler[a].pc \in {"none", "read", "fail"} /\ handler[a].todo = {}

StuckInv == TypeOK /\ StuckInQueue /\ NothingSent /\ NothingDone

LEMMA StuckInit == Init => StuckInv
BY TypeInit DEF Init, ServerInit, AgentInit, NetInit, StuckInv, StuckInQueue, NothingSent,
                NothingDone, NoHandler, NoRequest, Nothing, EmptyHands

LEMMA StuckAPI ==
  ASSUME StuckInv, NEW u \in Users, UNCHANGED agentVars,
         \/ \E j \in Jobs : patchJob(u, j) \/ deleteJob(u, j)
         \/ CancelJob(u) \/ DeleteStatus(u)
  PROVE  StuckInQueue' /\ NothingSent' /\ NothingDone'
<1> USE DEF StuckInv, TypeOK, ServerTypeOK, StuckInQueue, NothingSent, NothingDone, agentVars,
            netVars
<1>1. ASSUME NEW j \in Jobs, patchJob(u, j) \/ deleteJob(u, j)
      PROVE  StuckInQueue' /\ NothingSent' /\ NothingDone'
  <2>1. PICK r : /\ requests' = [requests EXCEPT ![u] = r] /\ r.status = store[j].status
                 /\ UNCHANGED <<store, handler, cliChan, offers, netVars>>
    BY <1>1 DEF patchJob, deleteJob, ReadRequest
  <2> QED BY <2>1
<1>2. CASE CancelWaiting(u)
  BY <1>2 DEF CancelWaiting, UpdateJobStatus, NoRequest, Row
<1>3. ~CancelScheduled(u)
  BY DEF CancelScheduled
<1>4. ~sendCancelRequest(u)
  <2>1. CASE requests[u].op = "unicast"
    BY <2>1, RequestInUnicast
  <2> QED BY <2>1 DEF sendCancelRequest
<1>5. CASE DeleteStatus(u)
  BY <1>5 DEF DeleteStatus, UpdateJobStatus, NoRequest, Row
<1> QED BY <1>1, <1>2, <1>3, <1>4, <1>5 DEF CancelJob

LEMMA StuckScheduler ==
  ASSUME ~ProxyKeepsConn, StuckInv, UNCHANGED agentVars,
         \/ \E j \in Jobs : postJob(j)
         \/ ReadWaiting \/ distribute \/ \E p \in offers : Unicast(p)
         \/ Send \/ Restart
  PROVE  StuckInQueue' /\ NothingSent' /\ NothingDone'
<1> USE DEF StuckInv, TypeOK, ServerTypeOK, StuckInQueue, NothingSent, NothingDone, agentVars,
            netVars
<1>1. ASSUME NEW j \in Jobs, postJob(j)
      PROVE  StuckInQueue' /\ NothingSent' /\ NothingDone'
  BY <1>1 DEF postJob, Row
<1>2. CASE ReadWaiting \/ Restart
  BY <1>2 DEF ReadWaiting, Restart
<1>3. CASE distribute
  <2>1. \A p \in offers' : p.conn = NilConn
    BY <1>3 DEF distribute, ProxyConn
  <2> QED BY <1>3, <2>1 DEF distribute
<1>4. ASSUME NEW p \in offers, Unicast(p)
      PROVE  StuckInQueue' /\ NothingSent' /\ NothingDone'
  <2>1. p \in Pair /\ p.conn = NilConn
    OBVIOUS
  <2>2. \A i \in DOMAIN cliChan' : cliChan'[i].conn = NilConn
    BY <1>4, <2>1 DEF Unicast
  <2> QED BY <1>4, <2>2 DEF Unicast
<1>5. CASE Send
  <2>1. cliChan # <<>> /\ cliChan' = Tail(cliChan) /\ Head(cliChan).conn = NilConn
    BY <1>5 DEF Send
  <2>2. \A i \in DOMAIN cliChan' : cliChan'[i].conn = NilConn
    BY <2>1
  <2>3. toAgent' = toAgent
    BY <1>5, <2>1 DEF Send
  <2> QED BY <1>5, <2>2, <2>3 DEF Send
<1> QED BY <1>1, <1>2, <1>3, <1>4, <1>5

LEMMA StuckHandler ==
  ASSUME StuckInv, NEW a \in Agents, UNCHANGED agentVars, handleConn(a)
  PROVE  StuckInQueue' /\ NothingSent' /\ NothingDone'
<1> USE DEF StuckInv, TypeOK, ServerTypeOK, StuckInQueue, NothingSent, NothingDone, agentVars,
            netVars
<1>1. ~handleMsgJobAccepted(a) /\ ~handleMsgJobDone(a) /\ ~handleMsgJobUpdate(a)
  BY DEF handleMsgJobAccepted, handleMsgJobDone, handleMsgJobUpdate, Receive
<1>2. ~registerScheduledJob(a) /\ ~deregisterScheduledJob(a)
  BY DEF registerScheduledJob, OpenLog, RegisterStatus, RegisterAgentName,
         deregisterScheduledJob, CloseLog, FinalStatus, At
<1>3. CASE ReadError(a)
  <2>1. JobsFromNodeWithStatus(a, "SCHEDULED") = {}
    BY DEF JobsFromNodeWithStatus, JobsWithStatus
  <2> QED BY <1>3, <2>1 DEF ReadError, GotoDying
<1>4. ~FailNext(a)
  BY DEF FailNext
<1>5. CASE RemoveNode(a)
  BY <1>5 DEF RemoveNode, NoHandler
<1> QED BY <1>1, <1>2, <1>3, <1>4, <1>5 DEF handleConn, deregisterNode

LEMMA StuckAgent ==
  ASSUME StuckInv, AgentNext, UNCHANGED serverVars
  PROVE  StuckInQueue' /\ NothingSent' /\ NothingDone'
<1> USE DEF StuckInv, TypeOK, AgentTypeOK, NetTypeOK, StuckInQueue, NothingSent, NothingDone,
            serverVars, netVars
<1> PICK a \in Agents :
      \/ ConnectionLoop(a)
      \/ \E j \in Jobs : Runner(a, j)
      \/ \E w \in Conns : Writer(a, w)
      \/ Crash(a)
  BY DEF AgentNext
<1>1. CASE Disconnected(a)
  BY <1>1 DEF Disconnected
<1>2. ~rejectJobOffer(a) /\ ~acceptJobOffer(a) /\ ~cancelJob(a)
  BY DEF rejectJobOffer, acceptJobOffer, cancelJob, Receives
<1>3. ASSUME NEW j \in Jobs
      PROVE  ~Runner(a, j)
  <2>1. exec[a][j] = 0
    OBVIOUS
  <2>2. ~onJobUpdate(a, j) /\ \A status \in EndStatus : ~handleJobDone(a, j, status)
    BY <2>1 DEF onJobUpdate, handleJobDone
  <2> QED BY <2>2 DEF Runner
<1>4. \A w \in Conns : ~Writer(a, w)
  BY DEF Writer, TakeOut, WriteOut
<1>5. CASE Crash(a)
  <2>1. \A q \in Delivered(toServer[a]) : q = <<>>
    BY DEF Delivered
  <2> QED BY <1>5, <2>1 DEF Crash, Nothing, EmptyHands
<1> QED BY <1>1, <1>2, <1>3, <1>4, <1>5 DEF ConnectionLoop

LEMMA StuckNetwork ==
  ASSUME StuckInv,
         \/ \E a \in Agents : Handshake(a) \/ AgentInfo(a) \/ ConnectionLost(a)
         \/ ServerLost
  PROVE  StuckInQueue' /\ NothingSent' /\ NothingDone'
<1> USE DEF StuckInv, TypeOK, ServerTypeOK, AgentTypeOK, NetTypeOK, StuckInQueue, NothingSent,
            NothingDone, agentVars, serverVars, netVars
<1>1. ASSUME NEW a \in Agents, Handshake(a)
      PROVE  StuckInQueue' /\ NothingSent' /\ NothingDone'
  BY <1>1 DEF Handshake, connect, registerNode, Reading
<1>2. ASSUME NEW a \in Agents, AgentInfo(a)
      PROVE  StuckInQueue' /\ NothingSent' /\ NothingDone'
  BY <1>2 DEF AgentInfo
<1>3. ASSUME NEW a \in Agents, ConnectionLost(a)
      PROVE  StuckInQueue' /\ NothingSent' /\ NothingDone'
  <2>1. \A q \in Delivered(<<>>) : q = <<>>
    BY DEF Delivered
  <2> QED BY <1>3, <2>1 DEF ConnectionLost, BreakLink
<1>4. CASE ServerLost
  <2>1. ASSUME NEW how, ServerEnds(how), UNCHANGED agentVars
        PROVE  StuckInQueue' /\ NothingSent' /\ NothingDone'
    <3>1. toAgent' = [a \in Agents |-> <<>>]
      BY <2>1 DEF ServerEnds
    <3> QED BY <2>1, <3>1 DEF ServerEnds, NoHandler, NoRequest
  <2> QED BY <1>4, <2>1 DEF ServerLost, Stop, NilConnPanic
<1> QED BY <1>1, <1>2, <1>3, <1>4

LEMMA StuckStep == ~ProxyKeepsConn /\ StuckInv /\ [Next]_vars => StuckInv'
<1> SUFFICES ASSUME ~ProxyKeepsConn, StuckInv, [Next]_vars
             PROVE  StuckInQueue' /\ NothingSent' /\ NothingDone'
  BY TypeStep DEF StuckInv
<1>1. CASE UNCHANGED vars
  BY <1>1 DEF vars, serverVars, agentVars, netVars, StuckInv, StuckInQueue, NothingSent,
              NothingDone
<1>2. CASE ServerNext /\ UNCHANGED agentVars
  BY <1>2, StuckAPI, StuckScheduler, StuckHandler DEF ServerNext
<1> QED BY <1>1, <1>2, StuckAgent, StuckNetwork DEF Next

\* With the proxy nodes as distribute() makes them, no job leaves the queue but when a
\* user cancels or deletes it (server/scheduler.go:134).
THEOREM NothingIsScheduled == ~ProxyKeepsConn => (Spec => []StuckInQueue)
<1> SUFFICES ASSUME ~ProxyKeepsConn
             PROVE  Spec => []StuckInQueue
  OBVIOUS
<1>1. StuckInv /\ [Next]_vars => StuckInv'
  BY StuckStep
<1>2. StuckInv => StuckInQueue
  BY DEF StuckInv
<1> QED BY <1>1, <1>2, StuckInit, PTL DEF Spec

=============================================================================
