---------------------------- MODULE ClusterProofs ----------------------------
(***************************************************************************)
(* Theorems about Cluster, for any number of agents, jobs and users, any   *)
(* channel capacities and any number of failures.                          *)
(***************************************************************************)
EXTENDS Cluster, FiniteSetTheorems, TLAPS

\* Only finitely many jobs: the sets an agent counts are finite.
LEMMA LoadIsNat ==
  ASSUME NEW S, S \subseteq Jobs
  PROVE  IsFiniteSet(S) /\ Cardinality(S) \in Nat
BY ProtocolAssumption, FS_Subset, FS_CardinalityType

LEMMA TypeInit == Init => TypeOK
BY ProtocolAssumption, ServerAssumption, AgentAssumption
   DEF Init, ServerInit, AgentInit, NetInit, TypeOK, ServerTypeOK, AgentTypeOK,
       NetTypeOK, Row, JobStatus, Handler, NoHandler, APIRequest, NoRequest,
       NilConn, Nothing, EmptyHands, Pair

-----------------------------------------------------------------------------

\* What an UPDATE of the jobs table leaves of its type.
LEMMA TableTyped ==
  ASSUME store \in [Jobs -> Row], NEW j \in Jobs
  PROVE  /\ \A s \in JobStatus : [store EXCEPT ![j].status = s] \in [Jobs -> Row]
         /\ \A a \in Agents : [store EXCEPT ![j].agent = a] \in [Jobs -> Row]
         /\ \A p \in {0, 1} : [store EXCEPT ![j].progress = p] \in [Jobs -> Row]
<1>1. store[j] \in Row
  OBVIOUS
<1>2. /\ \A s \in JobStatus : [store[j] EXCEPT !.status = s] \in Row
      /\ \A a \in Agents : [store[j] EXCEPT !.agent = a] \in Row
      /\ \A p \in {0, 1} : [store[j] EXCEPT !.progress = p] \in Row
  BY <1>1 DEF Row
<1> QED BY <1>2

LEMMA RequestInUnicast ==
  ASSUME NEW r \in APIRequest, r.op = "unicast"
  PROVE  r \in [op : {"unicast"}, job : Jobs, status : {"SCHEDULED"},
                agent : Agents, conn : {NilConn} \cup Conns]
<1>1. r # NoRequest
  BY DEF NoRequest
<1>2. r \notin [op : {"cancel", "delete"}, job : Jobs, status : JobStatus,
                agent : Agents \cup {NoAgent}, conn : {NilConn}]
  OBVIOUS
<1> QED BY <1>1, <1>2, Zenon DEF APIRequest

LEMMA TypePost ==
  ASSUME TypeOK, NEW j \in Jobs, postJob(j), UNCHANGED agentVars
  PROVE  TypeOK'
BY TableTyped DEF postJob, JobStatus, TypeOK, ServerTypeOK, AgentTypeOK, NetTypeOK,
                  agentVars, netVars

LEMMA TypeAPI ==
  ASSUME TypeOK, NEW u \in Users, UNCHANGED agentVars,
         \/ \E j \in Jobs : patchJob(u, j) \/ deleteJob(u, j)
         \/ CancelJob(u) \/ DeleteStatus(u)
  PROVE  TypeOK'
<1> USE ProtocolAssumption
    DEF TypeOK, ServerTypeOK, AgentTypeOK, NetTypeOK, agentVars, netVars
<1>2. ASSUME NEW j \in Jobs, patchJob(u, j)
      PROVE  TypeOK'
  BY <1>2 DEF patchJob, ReadRequest, APIRequest, Row, NilConn, Happened, Fact
<1>3. ASSUME NEW j \in Jobs, deleteJob(u, j)
      PROVE  TypeOK'
  BY <1>3 DEF deleteJob, ReadRequest, APIRequest, Row, NilConn, Happened, Fact
<1>4. CASE CancelWaiting(u)
  <2>1. requests[u].job \in Jobs
    BY <1>4 DEF CancelWaiting, APIRequest, NoRequest
  <2> QED
    BY <1>4, <2>1, TableTyped DEF CancelWaiting, UpdateJobStatus, APIRequest, JobStatus
<1>5. CASE CancelScheduled(u)
  <2>1. requests[u] \in [op : {"cancel"}, job : Jobs, status : {"SCHEDULED"},
                         agent : Agents \cup {NoAgent}, conn : {NilConn}]
    BY <1>5 DEF CancelScheduled, APIRequest, NoRequest
  <2>2. ASSUME requests[u].agent \in nodes
        PROVE  [requests[u] EXCEPT !.op = "unicast", !.conn = epoch[requests[u].agent]]
                 \in APIRequest
    <3>1. requests[u].agent \in Agents
      BY <2>2 DEF nodes
    <3>2. epoch[requests[u].agent] \in {NilConn} \cup Conns
      BY <3>1 DEF NilConn, Conns
    <3> QED BY <2>1, <3>1, <3>2 DEF APIRequest
  <2> QED
    BY <1>5, <2>2 DEF CancelScheduled, APIRequest
<1>6. CASE sendCancelRequest(u)
  <2>1. requests[u] \in [op : {"unicast"}, job : Jobs, status : {"SCHEDULED"},
                         agent : Agents, conn : {NilConn} \cup Conns]
    BY <1>6, RequestInUnicast DEF sendCancelRequest
  <2>2. [agent |-> requests[u].agent, conn |-> requests[u].conn,
         msg |-> [type |-> "cancel", job |-> requests[u].job]] \in Pair
    BY <2>1 DEF Pair, Request
  <2> QED
    BY <1>6, <2>2 DEF sendCancelRequest, APIRequest
<1>7. CASE DeleteStatus(u)
  <2>1. requests[u].job \in Jobs
    BY <1>7 DEF DeleteStatus, APIRequest, NoRequest
  <2> QED
    BY <1>7, <2>1, TableTyped DEF DeleteStatus, UpdateJobStatus, APIRequest, JobStatus
<1> QED BY <1>2, <1>3, <1>4, <1>5, <1>6, <1>7 DEF CancelJob

LEMMA TypeScheduler ==
  ASSUME TypeOK, UNCHANGED agentVars,
         \/ ReadWaiting \/ distribute \/ \E p \in offers : Unicast(p)
         \/ Send \/ Restart
  PROVE  TypeOK'
<1> USE ProtocolAssumption
    DEF TypeOK, ServerTypeOK, AgentTypeOK, NetTypeOK, agentVars, netVars
<1>1. CASE ReadWaiting
  BY <1>1 DEF ReadWaiting, JobsWithStatus
<1>2. CASE distribute
  <2>1. PICK D \in Distributions(batch) :
          offers' = {[agent |-> D[j], conn |-> ProxyConn(D[j]),
                      msg |-> [type |-> "offer", job |-> j]] :
                     j \in {i \in batch : D[i] # NoAgent}}
    BY <1>2 DEF distribute
  <2>2. D \in [batch -> Agents \cup {NoAgent}]
    BY <2>1 DEF Distributions, Placements, nodes
  <2>3. \A a \in Agents : ProxyConn(a) \in {NilConn} \cup Conns
    BY DEF ProxyConn, NilConn, Conns
  <2>4. ASSUME NEW j \in batch, D[j] # NoAgent
        PROVE  [agent |-> D[j], conn |-> ProxyConn(D[j]),
                msg |-> [type |-> "offer", job |-> j]] \in Pair
    BY <2>2, <2>3, <2>4 DEF Pair, Request
  <2>5. offers' \subseteq Pair
    BY <2>1, <2>4
  <2> QED
    BY <1>2, <2>5 DEF distribute
<1>3. ASSUME NEW p \in offers, Unicast(p)
      PROVE  TypeOK'
  <2>1. cliChan' \in Seq(Pair)
    BY <1>3 DEF Unicast
  <2> QED
    BY <1>3, <2>1 DEF Unicast
<1>4. CASE Send
  <2>1. Head(cliChan) \in Pair /\ Tail(cliChan) \in Seq(Pair)
    BY <1>4 DEF Send
  <2>2. Head(cliChan).agent \in Agents /\ Head(cliChan).msg \in Request
    BY <2>1 DEF Pair
  <2>3. Append(toAgent[Head(cliChan).agent], Head(cliChan).msg) \in Seq(Request)
    BY <2>2
  <2>4. toAgent' \in [Agents -> Seq(Request)]
    BY <1>4, <2>3 DEF Send
  <2> QED
    BY <1>4, <2>1, <2>4 DEF Send
<1>5. CASE Restart
  BY <1>5 DEF Restart
<1> QED BY <1>1, <1>2, <1>3, <1>4, <1>5

\* What ReadMessage returns to the handler of agent a.
LEMMA ReceivedTyped ==
  ASSUME TypeOK, NEW a \in Agents, NEW types, Receive(a, types)
  PROVE  /\ Head(toServer[a]) \in Answer
         /\ toServer' \in [Agents -> Seq(Answer)]
         /\ reported' \in [Agents -> Nat]
         /\ handler[a] \in Handler /\ handler[a].pc = "read"
         /\ Head(toServer[a]).type \in types
<1>1. toServer[a] \in Seq(Answer) /\ toServer[a] # <<>>
  BY DEF TypeOK, NetTypeOK, Receive
<1>2. Head(toServer[a]) \in Answer /\ Tail(toServer[a]) \in Seq(Answer)
  BY <1>1
<1>3. Head(toServer[a]).load \in Nat
  BY <1>2 DEF Answer
<1> QED BY <1>2, <1>3 DEF TypeOK, NetTypeOK, ServerTypeOK, Receive, At

\* The fields of a Handler, and the records that are one.
LEMMA HandlerFields ==
  ASSUME NEW h \in Handler
  PROVE  /\ h.todo \subseteq Jobs /\ h.dying \in BOOLEAN
         /\ h.pc \in {"none", "read", "fail"} => h.job = NoJob /\ h.status = "absent"
         /\ h.pc \in {"create", "status", "agentName"} => h.job \in Jobs /\ h.status = "absent"
         /\ h.pc \in {"close", "final"} => h.job \in Jobs /\ h.status \in EndStatus
         /\ h = [pc |-> h.pc, job |-> h.job, status |-> h.status,
                 todo |-> h.todo, dying |-> h.dying]
<1>1. CASE h \in [pc : {"none", "read", "fail"}, job : {NoJob}, status : {"absent"},
                  todo : SUBSET Jobs, dying : BOOLEAN]
  BY <1>1
<1>2. CASE h \in [pc : {"create", "status", "agentName"}, job : Jobs,
                  status : {"absent"}, todo : SUBSET Jobs, dying : BOOLEAN]
  BY <1>2
<1>3. CASE h \in [pc : {"close", "final"}, job : Jobs, status : EndStatus,
                  todo : SUBSET Jobs, dying : BOOLEAN]
  BY <1>3
<1> QED BY <1>1, <1>2, <1>3, Zenon DEF Handler

LEMMA HandlerBuilt ==
  /\ \A J \in SUBSET Jobs, d \in BOOLEAN, pc \in {"none", "read", "fail"} :
       [pc |-> pc, job |-> NoJob, status |-> "absent", todo |-> J, dying |-> d]
         \in Handler
  /\ \A J \in SUBSET Jobs, d \in BOOLEAN, j \in Jobs,
        pc \in {"create", "status", "agentName"} :
       [pc |-> pc, job |-> j, status |-> "absent", todo |-> J, dying |-> d] \in Handler
  /\ \A J \in SUBSET Jobs, d \in BOOLEAN, j \in Jobs, s \in EndStatus,
        pc \in {"close", "final"} :
       [pc |-> pc, job |-> j, status |-> s, todo |-> J, dying |-> d] \in Handler
BY DEF Handler

LEMMA HandlerTyped ==
  ASSUME handler \in [Agents -> Handler], NEW a \in Agents
  PROVE  /\ handler[a].todo \subseteq Jobs /\ handler[a].dying \in BOOLEAN
         /\ \A pc \in {"read", "fail"} :
              Goto(a, pc, NoJob, "absent") => handler' \in [Agents -> Handler]
         /\ \A pc \in {"create", "status", "agentName"}, j \in Jobs :
              Goto(a, pc, j, "absent") => handler' \in [Agents -> Handler]
         /\ \A pc \in {"close", "final"}, j \in Jobs, s \in EndStatus :
              Goto(a, pc, j, s) => handler' \in [Agents -> Handler]
         /\ \A J \in SUBSET Jobs :
              /\ GotoDying(a, "fail", NoJob, "absent", J)
                   => handler' \in [Agents -> Handler]
              /\ \A j \in Jobs, s \in EndStatus :
                   GotoDying(a, "close", j, s, J) => handler' \in [Agents -> Handler]
<1>1. handler[a].todo \in SUBSET Jobs /\ handler[a].dying \in BOOLEAN
  BY HandlerFields
<1>2. \A h \in Handler : [handler EXCEPT ![a] = h] \in [Agents -> Handler]
  OBVIOUS
<1>3. ASSUME NEW pc \in {"read", "fail"}, Goto(a, pc, NoJob, "absent")
      PROVE  handler' \in [Agents -> Handler]
  BY <1>1, <1>2, <1>3, HandlerBuilt DEF Goto
<1>4. ASSUME NEW pc \in {"create", "status", "agentName"}, NEW j \in Jobs,
             Goto(a, pc, j, "absent")
      PROVE  handler' \in [Agents -> Handler]
  BY <1>1, <1>2, <1>4, HandlerBuilt DEF Goto
<1>5. ASSUME NEW pc \in {"close", "final"}, NEW j \in Jobs, NEW s \in EndStatus,
             Goto(a, pc, j, s)
      PROVE  handler' \in [Agents -> Handler]
  BY <1>1, <1>2, <1>5, HandlerBuilt DEF Goto
<1>6. ASSUME NEW J \in SUBSET Jobs, GotoDying(a, "fail", NoJob, "absent", J)
      PROVE  handler' \in [Agents -> Handler]
  BY <1>2, <1>6, HandlerBuilt DEF GotoDying
<1>7. ASSUME NEW J \in SUBSET Jobs, NEW j \in Jobs, NEW s \in EndStatus,
             GotoDying(a, "close", j, s, J)
      PROVE  handler' \in [Agents -> Handler]
  BY <1>2, <1>7, HandlerBuilt DEF GotoDying
<1> QED BY <1>1, <1>3, <1>4, <1>5, <1>6, <1>7

LEMMA TypeHandler ==
  ASSUME TypeOK, NEW a \in Agents, handleConn(a), UNCHANGED agentVars
  PROVE  TypeOK'
<1> USE DEF TypeOK, ServerTypeOK, AgentTypeOK, NetTypeOK, agentVars, netVars, At
<1> DEFINE m == Head(toServer[a])
<1> handler[a] \in Handler
  OBVIOUS
<1>1. CASE handleMsgJobAccepted(a)
  <2>1. m \in Answer /\ m.job \in Jobs
    BY <1>1, ReceivedTyped DEF handleMsgJobAccepted, Answer
  <2>2. handler' \in [Agents -> Handler]
    BY <1>1, <2>1, HandlerTyped DEF handleMsgJobAccepted
  <2> QED
    BY <1>1, <2>2, ReceivedTyped DEF handleMsgJobAccepted
<1>2. CASE OpenLog(a)
  <2>1. handler[a].job \in Jobs
    BY <1>2, HandlerFields DEF OpenLog
  <2>2. handler' \in [Agents -> Handler]
    BY <1>2, <2>1, HandlerTyped DEF OpenLog
  <2> QED
    BY <1>2, <2>1, <2>2 DEF OpenLog, LogOpened
<1>3. CASE RegisterStatus(a)
  <2>1. handler[a].job \in Jobs
    BY <1>3, HandlerFields DEF RegisterStatus
  <2>2. handler' \in [Agents -> Handler]
    BY <1>3, <2>1, HandlerTyped DEF RegisterStatus
  <2> QED
    BY <1>3, <2>1, <2>2, TableTyped DEF RegisterStatus, UpdateJobStatus, JobStatus
<1>4. CASE RegisterAgentName(a)
  <2>1. handler[a].job \in Jobs
    BY <1>4, HandlerFields DEF RegisterAgentName
  <2>2. handler' \in [Agents -> Handler]
    BY <1>4, HandlerTyped DEF RegisterAgentName
  <2> QED
    BY <1>4, <2>1, <2>2, TableTyped DEF RegisterAgentName, UpdateJobAgentName
<1>5. CASE handleMsgJobDone(a)
  <2>1. m \in Answer /\ m.type = "done"
    BY <1>5, ReceivedTyped DEF handleMsgJobDone
  <2>2. m.job \in Jobs /\ m.status \in EndStatus
    BY <2>1 DEF Answer
  <2>3. handler' \in [Agents -> Handler]
    BY <1>5, <2>2, HandlerTyped DEF handleMsgJobDone
  <2>4. store' \in [Jobs -> Row]
    BY <1>5, <2>2, TableTyped DEF handleMsgJobDone, UpdateJobProgress
  <2> QED
    BY <1>5, <2>3, <2>4, ReceivedTyped DEF handleMsgJobDone
<1>6. CASE CloseLog(a)
  <2>1. handler[a].job \in Jobs /\ handler[a].status \in EndStatus
    BY <1>6, HandlerFields DEF CloseLog
  <2>2. handler' \in [Agents -> Handler]
    BY <1>6, <2>1, HandlerTyped DEF CloseLog
  <2> QED
    BY <1>6, <2>2 DEF CloseLog, LogClosed
<1>7. CASE FinalStatus(a)
  <2>1. handler[a].job \in Jobs /\ handler[a].status \in JobStatus
    BY <1>7, HandlerFields DEF FinalStatus, EndStatus, JobStatus
  <2>2. handler' \in [Agents -> Handler]
    BY <1>7, HandlerTyped DEF FinalStatus
  <2> QED
    BY <1>7, <2>1, <2>2, TableTyped DEF FinalStatus, UpdateJobStatus
<1>8. CASE handleMsgJobUpdate(a)
  <2>1. m.job \in Jobs
    BY <1>8, ReceivedTyped DEF handleMsgJobUpdate, Answer
  <2>2. store' \in [Jobs -> Row]
    BY <1>8, <2>1, TableTyped DEF handleMsgJobUpdate, UpdateJobProgress
  <2> QED
    BY <1>8, <2>2, ReceivedTyped DEF handleMsgJobUpdate
<1>9. CASE ReadError(a)
  <2>1. handler' \in [Agents -> Handler]
    BY <1>9, HandlerTyped DEF ReadError, JobsFromNodeWithStatus, JobsWithStatus
  <2> QED
    BY <1>9, <2>1 DEF ReadError
<1>10. CASE FailNext(a)
  <2>1. handler' \in [Agents -> Handler]
    BY <1>10, HandlerTyped DEF FailNext, LostStatus, EndStatus
  <2> QED
    BY <1>10, <2>1 DEF FailNext
<1>11. CASE RemoveNode(a)
  <2>1. NoHandler \in Handler
    BY HandlerBuilt DEF NoHandler
  <2> QED
    BY <1>11, <2>1 DEF RemoveNode
<1> QED
  BY <1>1, <1>2, <1>3, <1>4, <1>5, <1>6, <1>7, <1>8, <1>9, <1>10, <1>11
     DEF handleConn, registerScheduledJob, deregisterScheduledJob, deregisterNode

LEMMA PrefixTyped ==
  ASSUME NEW T, NEW q \in Seq(T)
  PROVE  /\ \A n \in 0 .. Len(q) : SubSeq(q, 1, n) \in Seq(T)
         /\ Delivered(q) \subseteq Seq(T)
<1>1. ASSUME NEW n \in 0 .. Len(q) PROVE SubSeq(q, 1, n) \in Seq(T)
  OBVIOUS
<1> QED BY <1>1 DEF Delivered

LEMMA HistoryTyped ==
  ASSUME facts \in [Jobs -> SUBSET Fact], NEW J, NEW f \in Fact, Happened(J, f)
  PROVE  facts' \in [Jobs -> SUBSET Fact]
BY DEF Happened

LEMMA TypeFailure ==
  ASSUME TypeOK, ServerLost \/ \E a \in Agents : ConnectionLost(a)
  PROVE  TypeOK'
<1> USE DEF TypeOK, ServerTypeOK, AgentTypeOK, NetTypeOK, agentVars, serverVars
<1>1. CASE ServerLost
  <2>1. PICK how \in {"stopped", "panicked"} : ServerEnds(how)
    BY <1>1 DEF ServerLost, Stop, NilConnPanic
  <2>2. stops' \in 0 .. MaxStops
    BY <1>1, ServerAssumption DEF ServerLost, Stop, NilConnPanic
  <2>3. toAgent' \in [Agents -> Seq(Request)]
    BY <2>1, PrefixTyped, ProtocolAssumption DEF ServerEnds
  <2>4. facts' \in [Jobs -> SUBSET Fact]
    BY <1>1, HistoryTyped DEF ServerLost, Fact
  <2>5. NoHandler \in Handler /\ NoRequest \in APIRequest
    BY HandlerBuilt DEF NoHandler, APIRequest
  <2> QED
    BY <1>1, <2>1, <2>2, <2>3, <2>4, <2>5 DEF ServerLost, ServerEnds
<1>2. ASSUME NEW a \in Agents, ConnectionLost(a)
      PROVE  TypeOK'
  <2>1. /\ Delivered(toAgent[a]) \subseteq Seq(Request)
        /\ Delivered(toServer[a]) \subseteq Seq(Answer)
    BY PrefixTyped
  <2>2. facts' \in [Jobs -> SUBSET Fact]
    BY <1>2, HistoryTyped DEF ConnectionLost, Fact
  <2> QED
    BY <1>2, <2>1, <2>2 DEF ConnectionLost, BreakLink
<1> QED BY <1>1, <1>2

LEMMA PushTyped ==
  ASSUME TypeOK, NEW a \in Agents, NEW type, NEW j \in Jobs, NEW status,
         NEW load \in Nat, Push(a, type, j, status, load),
         \/ type \in {"accepted", "rejected", "update"} /\ status \in {"SCHEDULED", "WAITING"}
         \/ type = "done" /\ status \in EndStatus
  PROVE  msgOutCh' \in [Agents -> Seq(Answer)]
<1>1. [type |-> type, job |-> j, status |-> status, load |-> load] \in Answer
  BY DEF Answer
<1> QED BY <1>1 DEF Push, TypeOK, AgentTypeOK

LEMMA ReceivesTyped ==
  ASSUME TypeOK, NEW a \in Agents, NEW type, Receives(a, type)
  PROVE  /\ Head(toAgent[a]).job \in Jobs
         /\ toAgent' \in [Agents -> Seq(Request)]
<1>1. toAgent[a] \in Seq(Request) /\ toAgent[a] # <<>>
  BY DEF TypeOK, NetTypeOK, Receives
<1>2. Head(toAgent[a]) \in Request /\ Tail(toAgent[a]) \in Seq(Request)
  BY <1>1
<1> QED BY <1>2 DEF Receives, Request, TypeOK, NetTypeOK

LEMMA TypeAgent ==
  ASSUME TypeOK, AgentNext, UNCHANGED serverVars
  PROVE  TypeOK'
<1> USE AgentAssumption
    DEF TypeOK, ServerTypeOK, AgentTypeOK, NetTypeOK, serverVars, netVars
<1> SUFFICES ASSUME NEW a \in Agents,
                    \/ ConnectionLoop(a)
                    \/ \E j \in Jobs : Runner(a, j)
                    \/ \E w \in Conns : Writer(a, w)
                    \/ Crash(a)
             PROVE  TypeOK'
  BY DEF AgentNext
<1>0. Load(a) \in Nat
  BY LoadIsNat DEF Load
<1>1. CASE Disconnected(a)
  BY <1>1 DEF Disconnected
<1>2. CASE rejectJobOffer(a)
  <2>1. msgOutCh' \in [Agents -> Seq(Answer)]
    BY <1>0, <1>2, ReceivesTyped, PushTyped DEF rejectJobOffer
  <2> QED
    BY <1>2, <2>1, ReceivesTyped DEF rejectJobOffer
<1>3. CASE acceptJobOffer(a)
  <2> DEFINE j == Head(toAgent[a]).job
  <2>1. j \in Jobs /\ toAgent' \in [Agents -> Seq(Request)]
    BY <1>3, ReceivesTyped DEF acceptJobOffer
  <2>2. jobsRunning[a] \cup {j} \subseteq Jobs
    BY <2>1
  <2>3. msgOutCh' \in [Agents -> Seq(Answer)]
    BY <1>3, <2>1, <2>2, LoadIsNat, PushTyped DEF acceptJobOffer
  <2>4. exec' \in [Agents -> [Jobs -> 0 .. MaxRuns]]
    <3>1. exec[a][j] + 1 \in 0 .. MaxRuns
      <4>1. exec[a][j] \in 0 .. MaxRuns
        BY <2>1
      <4>2. exec[a][j] < MaxRuns
        BY <1>3, <2>1 DEF acceptJobOffer
      <4> QED BY <4>1, <4>2, SMTT(30)
    <3>2. exec' = [exec EXCEPT ![a][j] = exec[a][j] + 1]
      BY <1>3 DEF acceptJobOffer
    <3> QED
      BY <2>1, <3>1, <3>2
  <2>5. facts' \in [Jobs -> SUBSET Fact]
    BY <1>3, HistoryTyped DEF acceptJobOffer, Fact
  <2> QED
    BY <1>3, <2>1, <2>2, <2>3, <2>4, <2>5 DEF acceptJobOffer
<1>4. CASE cancelJob(a)
  <2> DEFINE j == Head(toAgent[a]).job
  <2>1. j \in Jobs /\ toAgent' \in [Agents -> Seq(Request)]
    BY <1>4, ReceivesTyped DEF cancelJob
  <2>2. PICK n \in intr[a][j] .. exec[a][j] : intr' = [intr EXCEPT ![a][j] = n]
    BY <1>4 DEF cancelJob
  <2>3. n \in 0 .. MaxRuns
    BY <2>1
  <2> QED
    BY <1>4, <2>1, <2>2, <2>3 DEF cancelJob
<1>5. ASSUME NEW j \in Jobs, onJobUpdate(a, j)
      PROVE  TypeOK'
  <2>1. msgOutCh' \in [Agents -> Seq(Answer)]
    BY <1>0, <1>5, PushTyped DEF onJobUpdate
  <2> QED
    BY <1>5, <2>1 DEF onJobUpdate
<1>6. ASSUME NEW j \in Jobs, NEW status \in EndStatus, handleJobDone(a, j, status)
      PROVE  TypeOK'
  <2>1. StillRunning(a, j) \subseteq Jobs
    BY DEF StillRunning
  <2>2. msgOutCh' \in [Agents -> Seq(Answer)]
    BY <1>6, <2>1, LoadIsNat, PushTyped DEF handleJobDone
  <2>3. exec' \in [Agents -> [Jobs -> 0 .. MaxRuns]]
    BY <1>6 DEF handleJobDone
  <2>4. intr' \in [Agents -> [Jobs -> 0 .. MaxRuns]]
    <3>1. PICK hit \in {0, 1} :
            /\ hit <= intr[a][j]
            /\ intr' = [intr EXCEPT ![a][j] = intr[a][j] - hit]
      BY <1>6 DEF handleJobDone
    <3>2. intr[a][j] \in 0 .. MaxRuns
      BY <1>6
    <3>3. intr[a][j] - hit \in 0 .. MaxRuns
      BY <3>1, <3>2
    <3> QED
      BY <1>6, <3>1, <3>3
  <2>5. facts' \in [Jobs -> SUBSET Fact]
    BY <1>6, HistoryTyped DEF handleJobDone, EndStatus, Fact
  <2>6. jobsRunning' \in [Agents -> SUBSET Jobs]
    BY <1>6, <2>1 DEF handleJobDone
  <2>7. UNCHANGED <<agent, writers, hand, netVars>>
    BY <1>6 DEF handleJobDone
  <2> QED
    BY <2>2, <2>3, <2>4, <2>5, <2>6, <2>7
<1>7. ASSUME NEW w \in Conns, TakeOut(a, w)
      PROVE  TypeOK'
  <2>1. msgOutCh[a] \in Seq(Answer) /\ msgOutCh[a] # <<>>
    BY <1>7 DEF TakeOut
  <2>2. Head(msgOutCh[a]) \in Answer /\ Tail(msgOutCh[a]) \in Seq(Answer)
    BY <2>1
  <2>3. hand' \in [Agents -> [Conns -> Seq(Answer)]]
    <3>1. <<Head(msgOutCh[a])>> \in Seq(Answer)
      BY <2>2
    <3> QED
      BY <1>7, <3>1 DEF TakeOut
  <2>4. msgOutCh' \in [Agents -> Seq(Answer)]
    BY <1>7, <2>2 DEF TakeOut
  <2> QED
    BY <1>7, <2>3, <2>4 DEF TakeOut
<1>8. ASSUME NEW w \in Conns, WriteOut(a, w)
      PROVE  TypeOK'
  <2>1. hand[a][w] \in Seq(Answer)
    BY <1>8
  <2>2. hand[a][w] \o hand[a][w] \in Seq(Answer) /\ <<>> \in Seq(Answer)
    BY <2>1
  <2>3. ASSUME NEW written \in Seq(Answer),
               toServer' = [toServer EXCEPT ![a] = @ \o written]
        PROVE  toServer' \in [Agents -> Seq(Answer)]
    BY <2>3
  <2>4. toServer' \in [Agents -> Seq(Answer)]
    BY <1>8, <2>1, <2>2, <2>3 DEF WriteOut
  <2>5. facts' \in [Jobs -> SUBSET Fact]
    BY <1>8, HistoryTyped DEF WriteOut, Fact
  <2>6. hand' \in [Agents -> [Conns -> Seq(Answer)]]
    BY <1>8 DEF WriteOut
  <2> QED
    BY <1>8, <2>4, <2>5, <2>6 DEF WriteOut
<1>9. CASE Crash(a)
  <2>1. toServer' \in [Agents -> Seq(Answer)]
    BY <1>9, PrefixTyped DEF Crash
  <2>2. facts' \in [Jobs -> SUBSET Fact]
    BY <1>9, HistoryTyped DEF Crash, Fact
  <2>3. Nothing \in [Jobs -> 0 .. MaxRuns] /\ EmptyHands \in [Conns -> Seq(Answer)]
    BY DEF Nothing, EmptyHands
  <2>4. jobsRunning' \in [Agents -> SUBSET Jobs]
    BY <1>9 DEF Crash
  <2>8. /\ exec' \in [Agents -> [Jobs -> 0 .. MaxRuns]]
        /\ intr' \in [Agents -> [Jobs -> 0 .. MaxRuns]]
    BY <1>9, <2>3 DEF Crash
  <2>5. /\ agent' \in [Agents -> {"idle", "connected"}]
        /\ msgOutCh' \in [Agents -> Seq(Answer)]
        /\ writers' \in [Agents -> SUBSET Conns]
    BY <1>9 DEF Crash
  <2>9. hand' \in [Agents -> [Conns -> Seq(Answer)]]
    BY <1>9, <2>3 DEF Crash
  <2>6. /\ link' \in [Agents -> BOOLEAN]
        /\ toAgent' \in [Agents -> Seq(Request)]
        /\ epoch' = epoch
    BY <1>9 DEF Crash
  <2>7. UNCHANGED serverVars
    OBVIOUS
  <2> QED
    BY <2>1, <2>2, <2>4, <2>5, <2>6, <2>7, <2>8, <2>9 DEF serverVars
<1> QED
  BY <1>1, <1>2, <1>3, <1>4, <1>5, <1>6, <1>7, <1>8, <1>9
     DEF ConnectionLoop, Runner, Writer

LEMMA TypeHandshake ==
  ASSUME TypeOK, NEW a \in Agents, Handshake(a) \/ AgentInfo(a)
  PROVE  TypeOK'
<1> USE ProtocolAssumption DEF TypeOK, ServerTypeOK, AgentTypeOK, NetTypeOK
<1>0. Load(a) \in Nat
  BY LoadIsNat DEF Load
<1>1. CASE Handshake(a)
  <2>1. Reading \in Handler
    BY HandlerBuilt DEF Reading
  <2>2. epoch[a] + 1 \in Conns /\ epoch[a] + 1 \in 0 .. MaxConnections
    BY <1>1 DEF Handshake, connect, Conns
  <2> QED
    BY <1>0, <1>1, <2>1, <2>2, SMTT(30) DEF Handshake, connect, registerNode
<1>2. CASE AgentInfo(a)
  BY <1>0, <1>2 DEF AgentInfo, agentVars, netVars
<1> QED BY <1>1, <1>2

LEMMA TypeStep == TypeOK /\ [Next]_vars => TypeOK'
<1> SUFFICES ASSUME TypeOK, [Next]_vars PROVE TypeOK'
  OBVIOUS
<1>1. CASE ServerNext /\ UNCHANGED agentVars
  BY <1>1, TypePost, TypeAPI, TypeScheduler, TypeHandler DEF ServerNext
<1>2. CASE AgentNext /\ UNCHANGED serverVars
  BY <1>2, TypeAgent
<1>3. ASSUME NEW a \in Agents, Handshake(a) \/ AgentInfo(a) \/ ConnectionLost(a)
      PROVE  TypeOK'
  BY <1>3, TypeHandshake, TypeFailure
<1>4. CASE ServerLost
  BY <1>4, TypeFailure
<1>5. CASE UNCHANGED vars
  BY <1>5 DEF vars, serverVars, agentVars, netVars, TypeOK, ServerTypeOK,
              AgentTypeOK, NetTypeOK
<1> QED BY <1>1, <1>2, <1>3, <1>4, <1>5 DEF Next

\* Every variable has its type in every reachable state: in particular handleConn
\* records no other end of a job than the three of an agent (server/tcp.go:171-218),
\* and never does so without a job in hand.
THEOREM TypeCorrect == Spec => []TypeOK
BY TypeInit, TypeStep, PTL DEF Spec

-----------------------------------------------------------------------------

\* What only an agent's own steps change.
LEMMA OthersKeepRuns ==
  ASSUME NEW a \in Agents,
         \/ ServerNext /\ UNCHANGED agentVars
         \/ Handshake(a) \/ AgentInfo(a) \/ ConnectionLost(a) \/ ServerLost
         \/ UNCHANGED vars
  PROVE  UNCHANGED <<jobsRunning, exec>>
BY DEF agentVars, vars, Handshake, connect, AgentInfo, ConnectionLost, ServerLost

LEMMA OneMore ==
  ASSUME NEW S, IsFiniteSet(S), NEW x
  PROVE  /\ Cardinality(S \cup {x}) \in Nat
         /\ Cardinality(S \cup {x}) <= Cardinality(S) + 1
<1>1. Cardinality(S) \in Nat
  BY FS_CardinalityType
<1>2. Cardinality(S \cup {x}) = IF x \in S THEN Cardinality(S) ELSE Cardinality(S) + 1
  BY FS_AddElement
<1> QED BY <1>1, <1>2

\* The invariant is inductive with the types: HasCapacity keeps the count from
\* passing the limit, and the unsigned difference is never taken beyond it.
LEMMA CapacityStep == TypeOK /\ CapacityRespected /\ [Next]_vars => CapacityRespected'
<1> SUFFICES ASSUME TypeOK, CapacityRespected, [Next]_vars, NEW a \in Agents
             PROVE  Load(a)' <= MaxParallelJobs[a]
  BY DEF CapacityRespected
<1> USE DEF TypeOK, AgentTypeOK
<1>0. /\ jobsRunning[a] \subseteq Jobs /\ IsFiniteSet(jobsRunning[a])
      /\ Cardinality(jobsRunning[a]) \in Nat
      /\ Cardinality(jobsRunning[a]) <= MaxParallelJobs[a]
      /\ MaxParallelJobs[a] \in Nat \ {0}
  BY LoadIsNat, ProtocolAssumption DEF CapacityRespected, Load
<1>1. ASSUME NEW b \in Agents, acceptJobOffer(b)
      PROVE  Load(a)' <= MaxParallelJobs[a]
  <2> DEFINE j == Head(toAgent[b]).job
  <2>1. CASE a # b
    BY <1>0, <1>1, <2>1 DEF acceptJobOffer, Load
  <2>2. CASE a = b
    <3>1. Cardinality(jobsRunning[a]) # MaxParallelJobs[a]
      BY <1>1, <2>2 DEF acceptJobOffer, canAcceptJob, HasCapacity, Load
    <3>2. /\ Cardinality(jobsRunning[a] \cup {j}) \in Nat
          /\ Cardinality(jobsRunning[a] \cup {j})
               <= Cardinality(jobsRunning[a]) + 1
      BY <1>0, OneMore
    <3>3. jobsRunning'[a] = jobsRunning[a] \cup {j}
      BY <1>1, <2>2 DEF acceptJobOffer
    <3> QED BY <1>0, <3>1, <3>2, <3>3 DEF Load
  <2> QED BY <2>1, <2>2
<1>2. ASSUME jobsRunning'[a] \subseteq jobsRunning[a]
      PROVE  Load(a)' <= MaxParallelJobs[a]
  <2>1. /\ Cardinality(jobsRunning'[a]) <= Cardinality(jobsRunning[a])
        /\ Cardinality(jobsRunning'[a]) \in Nat
    BY <1>0, <1>2, FS_Subset, FS_CardinalityType
  <2> QED BY <1>0, <2>1 DEF Load
<1>3. CASE AgentNext /\ UNCHANGED serverVars
  <2> SUFFICES ASSUME NEW b \in Agents,
                      \/ ConnectionLoop(b)
                      \/ \E j \in Jobs : Runner(b, j)
                      \/ \E w \in Conns : Writer(b, w)
                      \/ Crash(b),
                      ~acceptJobOffer(b)
               PROVE  jobsRunning'[a] \subseteq jobsRunning[a]
    BY <1>1, <1>2, <1>3 DEF AgentNext
  <2>1. CASE ConnectionLoop(b)
    BY <2>1 DEF ConnectionLoop, Disconnected, rejectJobOffer, cancelJob
  <2>2. ASSUME NEW j \in Jobs, Runner(b, j)
        PROVE  jobsRunning'[a] \subseteq jobsRunning[a]
    <3>1. CASE onJobUpdate(b, j)
      BY <3>1 DEF onJobUpdate
    <3>2. ASSUME NEW s \in EndStatus, handleJobDone(b, j, s)
          PROVE  jobsRunning'[a] \subseteq jobsRunning[a]
      <4>1. jobsRunning' = [jobsRunning EXCEPT ![b] = jobsRunning[b] \ {j}]
        BY <3>2 DEF handleJobDone, StillRunning
      <4> QED BY <4>1
    <3> QED BY <2>2, <3>1, <3>2 DEF Runner
  <2>3. ASSUME NEW w \in Conns, Writer(b, w)
        PROVE  jobsRunning'[a] \subseteq jobsRunning[a]
    BY <2>3 DEF Writer, TakeOut, WriteOut
  <2>4. CASE Crash(b)
    BY <2>4 DEF Crash
  <2> QED BY <2>1, <2>2, <2>3, <2>4
<1> QED BY <1>2, <1>3, OthersKeepRuns DEF Next

\* CapacityRespected: no agent counts more jobs as running than its
\* max_parallel_jobs, whatever offers reach it (agent/agent.go:32-34, 86-115).
THEOREM CapacityIsRespected == Spec => []CapacityRespected
<1>1. Init => CapacityRespected
  <2> SUFFICES ASSUME Init, NEW a \in Agents PROVE Load(a) <= MaxParallelJobs[a]
    BY DEF CapacityRespected
  <2>1. Load(a) = 0
    BY FS_EmptySet DEF Init, AgentInit, Load
  <2> QED BY <2>1, ProtocolAssumption
<1> QED BY <1>1, CapacityStep, TypeCorrect, PTL DEF Spec

\* The same for CountedRuns: what an agent counts as running is being executed, so
\* that the count is never held by a job that has ended (agent/agent.go:250-273).
LEMMA CountedStep == TypeOK /\ CountedRuns /\ [Next]_vars => CountedRuns'
<1> SUFFICES ASSUME TypeOK, CountedRuns, [Next]_vars,
                    NEW a \in Agents, NEW j \in Jobs, j \in jobsRunning'[a]
             PROVE  exec'[a][j] > 0
  BY TypeStep DEF CountedRuns, TypeOK, AgentTypeOK
<1> USE DEF TypeOK, AgentTypeOK
<1>0. /\ exec[a][j] \in 0 .. MaxRuns
      /\ j \in jobsRunning[a] => exec[a][j] > 0
  BY DEF CountedRuns
<1>1. ASSUME UNCHANGED <<jobsRunning, exec>>
      PROVE  exec'[a][j] > 0
  BY <1>0, <1>1
<1>2. CASE AgentNext /\ UNCHANGED serverVars
  <2> PICK b \in Agents : \/ ConnectionLoop(b)
                          \/ \E i \in Jobs : Runner(b, i)
                          \/ \E w \in Conns : Writer(b, w)
                          \/ Crash(b)
    BY <1>2 DEF AgentNext
  <2>1. CASE acceptJobOffer(b)
    BY <1>0, <2>1 DEF acceptJobOffer
  <2>2. CASE Disconnected(b) \/ rejectJobOffer(b) \/ cancelJob(b)
    BY <1>1, <2>2 DEF Disconnected, rejectJobOffer, cancelJob
  <2>3. ASSUME NEW i \in Jobs, Runner(b, i)
        PROVE  exec'[a][j] > 0
    <3>1. CASE onJobUpdate(b, i)
      BY <1>1, <3>1 DEF onJobUpdate
    <3>2. ASSUME NEW s \in EndStatus, handleJobDone(b, i, s)
          PROVE  exec'[a][j] > 0
      <4>1. CASE a = b /\ i = j
        BY <3>2, <4>1 DEF handleJobDone, StillRunning
      <4>2. CASE ~(a = b /\ i = j)
        BY <1>0, <3>2, <4>2 DEF handleJobDone, StillRunning
      <4> QED BY <4>1, <4>2
    <3> QED BY <2>3, <3>1, <3>2 DEF Runner
  <2>4. ASSUME NEW w \in Conns, Writer(b, w)
        PROVE  exec'[a][j] > 0
    BY <1>1, <2>4 DEF Writer, TakeOut, WriteOut
  <2>5. CASE Crash(b)
    BY <1>0, <2>5 DEF Crash
  <2> QED BY <2>1, <2>2, <2>3, <2>4, <2>5 DEF ConnectionLoop
<1> QED BY <1>1, <1>2, OthersKeepRuns DEF Next

THEOREM CountedRun == Spec => []CountedRuns
<1>1. Init => CountedRuns
  BY DEF Init, AgentInit, CountedRuns
<1> QED BY <1>1, CountedStep, TypeCorrect, PTL DEF Spec

-----------------------------------------------------------------------------

(***************************************************************************)
(* WaitingUntouched is not inductive: a job enters the queue from having   *)
(* no row at all, and registerScheduledJob writes the agent after the      *)
(* status. The invariant that is adds jobs without a row, and the handlers *)
(* between these two writes.                                               *)
(***************************************************************************)
Queued == {"absent", "WAITING"}

Opening(j) == \E a \in Agents : At(a, "status") /\ handler[a].job = j

QueueInv ==
  /\ \A j \in Jobs : store[j].status \in Queued =>
       store[j].agent = NoAgent /\ (j \in logs => Opening(j))
  /\ \A a \in Agents : At(a, "agentName") => store[handler[a].job].status \notin Queued

\* A step that puts no job in the queue, opens no log, and takes no handler from
\* "status" or to "agentName" but for a job that is out of the queue.
LEMMA QueueKept ==
  ASSUME TypeOK, QueueInv,
         \A j \in Jobs : store'[j].status \in Queued =>
           store[j].status \in Queued /\ store'[j].agent = store[j].agent,
         logs' \subseteq logs,
         \A a \in Agents : \/ handler'[a] = handler[a]
                           \/ /\ At(a, "status") =>
                                store'[handler[a].job].status \notin Queued
                              /\ handler'[a].pc = "agentName" =>
                                store'[handler'[a].job].status \notin Queued
  PROVE  QueueInv'
<1>1. ASSUME NEW j \in Jobs, store'[j].status \in Queued
      PROVE  store'[j].agent = NoAgent /\ (j \in logs' => Opening(j)')
  <2>1. store[j].agent = NoAgent /\ store'[j].agent = NoAgent
    BY <1>1 DEF QueueInv
  <2>2. ASSUME j \in logs'
        PROVE  Opening(j)'
    <3>1. PICK a \in Agents : At(a, "status") /\ handler[a].job = j
      BY <1>1, <2>2 DEF QueueInv, Opening
    <3>2. handler'[a] = handler[a]
      BY <1>1, <3>1
    <3> QED BY <3>1, <3>2 DEF Opening, At
  <2> QED BY <2>1, <2>2
<1>2. ASSUME NEW a \in Agents, At(a, "agentName")'
      PROVE  store'[handler'[a].job].status \notin Queued
  <2>1. CASE handler'[a] = handler[a]
    <3>1. At(a, "agentName") /\ handler[a].job \in Jobs
      BY <1>2, <2>1, HandlerFields DEF At, TypeOK, ServerTypeOK
    <3> QED BY <2>1, <3>1 DEF QueueInv
  <2> QED BY <1>2, <2>1 DEF At
<1> QED BY <1>1, <1>2 DEF QueueInv

\* The writes of the jobs table: none of them makes a job wait.
LEMMA TableKept ==
  ASSUME TypeOK, NEW j \in Jobs
  PROVE  /\ \A s \in JobStatus \ Queued : UpdateJobStatus(j, s) =>
              \A i \in Jobs : store'[i].status \in Queued =>
                i # j /\ store[i].status \in Queued /\ store'[i].agent = store[i].agent
         /\ \A a \in Agents : UpdateJobAgentName(j, a) =>
              \A i \in Jobs : /\ store'[i].status = store[i].status
                              /\ i # j => store'[i].agent = store[i].agent
         /\ \A p \in {0, 1} : UpdateJobProgress(j, p) =>
              \A i \in Jobs : /\ store'[i].status = store[i].status
                              /\ store'[i].agent = store[i].agent
BY DEF TypeOK, ServerTypeOK, Row, UpdateJobStatus, UpdateJobAgentName, UpdateJobProgress

\* Where a handler goes, the others staying where they are.
LEMMA HandlerMoves ==
  ASSUME TypeOK, NEW a \in Agents, NEW pc, NEW j, NEW s, NEW J,
         Goto(a, pc, j, s) \/ GotoDying(a, pc, j, s, J)
  PROVE  /\ handler'[a].pc = pc /\ handler'[a].job = j
         /\ \A b \in Agents \ {a} : handler'[b] = handler[b]
BY DEF Goto, GotoDying, TypeOK, ServerTypeOK

LEMMA QueuePost ==
  ASSUME TypeOK, QueueInv, NEW j \in Jobs, postJob(j)
  PROVE  QueueInv'
<1>1. store' = [store EXCEPT ![j] = [store[j] EXCEPT !.status = "WAITING"]]
  BY DEF postJob
<1>2. store[j].status = "absent" /\ store[j] \in Row
  BY DEF postJob, TypeOK, ServerTypeOK
<1>3. \A i \in Jobs : store'[i].status \in Queued =>
        store[i].status \in Queued /\ store'[i].agent = store[i].agent
  BY <1>1, <1>2 DEF TypeOK, ServerTypeOK, Row, Queued
<1>4. UNCHANGED <<logs, handler>>
  BY DEF postJob
<1> QED BY <1>3, <1>4, QueueKept

LEMMA QueueAPI ==
  ASSUME TypeOK, QueueInv, NEW u \in Users,
         \/ \E j \in Jobs : patchJob(u, j) \/ deleteJob(u, j)
         \/ CancelJob(u) \/ DeleteStatus(u)
  PROVE  QueueInv'
<1>1. ASSUME NEW j \in Jobs, patchJob(u, j) \/ deleteJob(u, j)
      PROVE  QueueInv'
  <2>1. UNCHANGED <<store, logs, handler>>
    BY <1>1 DEF patchJob, deleteJob, ReadRequest
  <2> QED BY <2>1, QueueKept
<1>2. CASE CancelWaiting(u) \/ DeleteStatus(u)
  <2>1. requests[u].job \in Jobs
    BY <1>2 DEF CancelWaiting, DeleteStatus, APIRequest, NoRequest, TypeOK, ServerTypeOK
  <2>2. \A i \in Jobs : store'[i].status \in Queued =>
          store[i].status \in Queued /\ store'[i].agent = store[i].agent
    BY <1>2, <2>1, TableKept DEF CancelWaiting, DeleteStatus, JobStatus, Queued
  <2>3. UNCHANGED <<logs, handler>>
    BY <1>2 DEF CancelWaiting, DeleteStatus
  <2> QED BY <2>2, <2>3, QueueKept
<1>3. CASE CancelScheduled(u) \/ sendCancelRequest(u)
  <2>1. UNCHANGED <<store, logs, handler>>
    BY <1>3 DEF CancelScheduled, sendCancelRequest
  <2> QED BY <2>1, QueueKept
<1> QED BY <1>1, <1>2, <1>3 DEF CancelJob

\* registerScheduledJob, the only one to open a log and to give a job an agent.
LEMMA QueueRegister ==
  ASSUME TypeOK, QueueInv, NEW a \in Agents, registerScheduledJob(a)
  PROVE  QueueInv'
<1> DEFINE j == handler[a].job
<1>0. j \in Jobs /\ (At(a, "agentName") => store[j].status \notin Queued)
  BY HandlerFields DEF registerScheduledJob, OpenLog, RegisterStatus, RegisterAgentName,
                       At, TypeOK, ServerTypeOK, QueueInv
<1>1. CASE OpenLog(a)
  <2>1. /\ handler'[a].pc = "status" /\ handler'[a].job = j
        /\ \A b \in Agents \ {a} : handler'[b] = handler[b]
    BY <1>1, HandlerMoves DEF OpenLog
  <2>2. store' = store /\ logs' = logs \cup {j} /\ ~At(a, "status")
    BY <1>1 DEF OpenLog, LogOpened, At
  <2>3. ASSUME NEW i \in Jobs, store'[i].status \in Queued, i \in logs'
        PROVE  Opening(i)'
    <3>1. CASE i = j
      BY <2>1, <3>1 DEF Opening, At
    <3>2. CASE i # j
      <4>1. PICK b \in Agents : At(b, "status") /\ handler[b].job = i
        BY <2>2, <2>3, <3>2 DEF QueueInv, Opening
      <4>2. b # a /\ handler'[b] = handler[b]
        BY <2>1, <2>2, <4>1
      <4> QED BY <4>1, <4>2 DEF Opening, At
    <3> QED BY <3>1, <3>2
  <2>4. ASSUME NEW b \in Agents, At(b, "agentName")'
        PROVE  b # a /\ handler'[b] = handler[b] /\ At(b, "agentName")
    BY <2>1, <2>4 DEF At
  <2> QED BY <2>2, <2>3, <2>4 DEF QueueInv
<1>2. CASE RegisterStatus(a)
  <2>1. /\ handler'[a].job = j
        /\ \A b \in Agents \ {a} : handler'[b] = handler[b]
    BY <1>2, HandlerMoves DEF RegisterStatus
  <2>2. \A i \in Jobs : store'[i].status \in Queued =>
          i # j /\ store[i].status \in Queued /\ store'[i].agent = store[i].agent
    BY <1>0, <1>2, TableKept DEF RegisterStatus, JobStatus, Queued
  <2>3. logs' = logs
    BY <1>2 DEF RegisterStatus
  <2> QED BY <1>0, <2>1, <2>2, <2>3, QueueKept
<1>3. CASE RegisterAgentName(a)
  <2>1. /\ handler'[a].pc = "read" /\ ~At(a, "status")
        /\ \A b \in Agents \ {a} : handler'[b] = handler[b]
    BY <1>3, HandlerMoves DEF RegisterAgentName, At
  <2>2. \A i \in Jobs : store'[i].status \in Queued =>
          store[i].status \in Queued /\ store'[i].agent = store[i].agent
    BY <1>0, <1>3, TableKept DEF RegisterAgentName
  <2>3. logs' = logs
    BY <1>3 DEF RegisterAgentName
  <2> QED BY <2>1, <2>2, <2>3, QueueKept
<1> QED BY <1>1, <1>2, <1>3 DEF registerScheduledJob

\* The rest of handleConn writes what an agent reports, or ERROR.
LEMMA QueueHandler ==
  ASSUME TypeOK, QueueInv, NEW a \in Agents,
         \/ handleMsgJobAccepted(a) \/ handleMsgJobDone(a) \/ deregisterScheduledJob(a)
         \/ handleMsgJobUpdate(a) \/ deregisterNode(a)
  PROVE  QueueInv'
<1>1. CASE handleMsgJobAccepted(a) \/ deregisterNode(a) \/ CloseLog(a)
  <2>1. ~At(a, "status") /\ store' = store /\ logs' \subseteq logs
    BY <1>1 DEF handleMsgJobAccepted, Receive, deregisterNode, ReadError, FailNext,
                RemoveNode, CloseLog, LogClosed, At
  <2>2. \A b \in Agents : handler'[b] # handler[b] =>
          b = a /\ handler'[b].pc # "agentName"
    <3>1. CASE RemoveNode(a)
      BY <3>1 DEF RemoveNode, NoHandler, TypeOK, ServerTypeOK
    <3>2. CASE ~RemoveNode(a)
      BY <1>1, <3>2, HandlerMoves
         DEF handleMsgJobAccepted, deregisterNode, ReadError, FailNext, CloseLog
    <3> QED BY <3>1, <3>2
  <2> QED BY <2>1, <2>2, QueueKept
<1>2. CASE handleMsgJobDone(a) \/ handleMsgJobUpdate(a)
  <2>1. Head(toServer[a]).job \in Jobs
    BY <1>2, ReceivedTyped DEF handleMsgJobDone, handleMsgJobUpdate, Answer
  <2>2. \A i \in Jobs : /\ store'[i].status = store[i].status
                        /\ store'[i].agent = store[i].agent
    BY <1>2, <2>1, TableKept DEF handleMsgJobDone, handleMsgJobUpdate
  <2>3. ~At(a, "status") /\ logs' = logs
    BY <1>2 DEF handleMsgJobDone, handleMsgJobUpdate, Receive, At
  <2>4. \A b \in Agents : handler'[b] # handler[b] =>
          b = a /\ handler'[b].pc # "agentName"
    <3>1. CASE handleMsgJobDone(a)
      <4>1. Goto(a, "close", Head(toServer[a]).job, Head(toServer[a]).status)
        BY <3>1 DEF handleMsgJobDone
      <4>2. /\ handler'[a].pc = "close"
            /\ \A b \in Agents \ {a} : handler'[b] = handler[b]
        BY <4>1, HandlerMoves, Zenon
      <4> QED BY <4>2
    <3>2. CASE handleMsgJobUpdate(a)
      BY <3>2 DEF handleMsgJobUpdate
    <3> QED BY <1>2, <3>1, <3>2
  <2> QED BY <2>2, <2>3, <2>4, QueueKept
<1>3. CASE FinalStatus(a)
  <2>1. handler[a].job \in Jobs /\ handler[a].status \in EndStatus
    BY <1>3, HandlerFields DEF FinalStatus, At, TypeOK, ServerTypeOK
  <2>2. \A i \in Jobs : store'[i].status \in Queued =>
          store[i].status \in Queued /\ store'[i].agent = store[i].agent
    BY <1>3, <2>1, TableKept DEF FinalStatus, EndStatus, JobStatus, Queued
  <2>3. ~At(a, "status") /\ logs' = logs
    BY <1>3 DEF FinalStatus, At
  <2>4. /\ handler'[a].pc \in {"fail", "read"}
        /\ \A b \in Agents \ {a} : handler'[b] = handler[b]
    BY <1>3, HandlerMoves DEF FinalStatus
  <2> QED BY <2>2, <2>3, <2>4, QueueKept
<1> QED BY <1>1, <1>2, <1>3 DEF deregisterScheduledJob

LEMMA QueueStep == TypeOK /\ QueueInv /\ [Next]_vars => QueueInv'
<1> SUFFICES ASSUME TypeOK, QueueInv, [Next]_vars PROVE QueueInv'
  OBVIOUS
<1>1. CASE ServerNext
  <2>1. CASE ReadWaiting \/ distribute \/ (\E p \in offers : Unicast(p)) \/ Send \/ Restart
    <3>1. UNCHANGED <<store, logs, handler>>
      BY <2>1 DEF ReadWaiting, distribute, Unicast, Send, Restart
    <3> QED BY <3>1, QueueKept
  <2>2. ASSUME NEW a \in Agents, handleConn(a)
        PROVE  QueueInv'
    BY <2>2, QueueRegister, QueueHandler DEF handleConn
  <2> QED BY <1>1, <2>1, <2>2, QueuePost, QueueAPI DEF ServerNext
<1>2. CASE (AgentNext /\ UNCHANGED serverVars) \/ UNCHANGED vars
  <2>1. UNCHANGED <<store, logs, handler>>
    BY <1>2 DEF serverVars, vars
  <2> QED BY <2>1, QueueKept
<1>3. ASSUME NEW a \in Agents, AgentInfo(a) \/ ConnectionLost(a)
      PROVE  QueueInv'
  <2>1. UNCHANGED <<store, logs, handler>>
    BY <1>3 DEF AgentInfo, ConnectionLost, serverVars
  <2> QED BY <2>1, QueueKept
<1>4. ASSUME NEW a \in Agents, Handshake(a)
      PROVE  QueueInv'
  <2>1. UNCHANGED <<store, logs>> /\ ~At(a, "status")
    BY <1>4 DEF Handshake, registerNode, nodes, At
  <2>2. \A b \in Agents : handler'[b] # handler[b] =>
          b = a /\ handler'[b].pc # "agentName"
    BY <1>4 DEF Handshake, registerNode, Reading, TypeOK, ServerTypeOK
  <2> QED BY <2>1, <2>2, QueueKept
<1>5. CASE ServerLost
  <2>1. store' = store /\ logs' = {} /\ \A a \in Agents : handler'[a] = NoHandler
    BY <1>5 DEF ServerLost, Stop, NilConnPanic, ServerEnds
  <2> QED BY <2>1 DEF QueueInv, NoHandler, At
<1> QED BY <1>1, <1>2, <1>3, <1>4, <1>5 DEF Next

\* WaitingUntouched: what is still in the queue bears no trace of an agent, so that
\* any agent may be offered it and its log can be opened (server/tcp.go:155-169).
THEOREM QueueIsUntouched == Spec => []WaitingUntouched
<1>1. Init => QueueInv
  BY DEF Init, ServerInit, QueueInv, At, NoHandler, Queued
<1>2. QueueInv => WaitingUntouched
  BY DEF QueueInv, WaitingUntouched, JobsWithStatus, Opening, Queued
<1> QED BY <1>1, <1>2, QueueStep, TypeCorrect, PTL DEF Spec

=============================================================================
