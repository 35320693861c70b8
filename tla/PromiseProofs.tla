---------------------------- MODULE PromiseProofs ----------------------------
(***************************************************************************)
(* What taylor records of a job that one agent at a time has to do with:   *)
(* theorems about Cluster for any number of agents, jobs and users.        *)
(***************************************************************************)
EXTENDS JobProofs

-----------------------------------------------------------------------------
(* The messages of an agent on their way. *)

Holds(q, m) == \E i \in DOMAIN q : q[i] = m

LEMMA HoldsRules ==
  ASSUME NEW T, NEW q \in Seq(T), NEW r \in Seq(T), NEW m
  PROVE  /\ ~Holds(<<>>, m)
         /\ \A e \in T : Holds(Append(q, e), m) => m = e \/ Holds(q, m)
         /\ q # <<>> => /\ Holds(Tail(q), m) => Holds(q, m)
                        /\ Holds(<<Head(q)>>, m) => Holds(q, m)
                        /\ Holds(q, Head(q))
         /\ Holds(q \o r, m) => Holds(q, m) \/ Holds(r, m)
         /\ \A p \in Delivered(q) : Holds(p, m) => Holds(q, m)
<1> USE DEF Holds
<1>1. ~Holds(<<>>, m)
  OBVIOUS
<1>2. \A e \in T : Holds(Append(q, e), m) => m = e \/ Holds(q, m)
  OBVIOUS
<1>3. ASSUME q # <<>>
      PROVE  /\ Holds(Tail(q), m) => Holds(q, m)
             /\ Holds(<<Head(q)>>, m) => Holds(q, m)
             /\ Holds(q, Head(q))
  <2>1. /\ Len(q) \in Nat /\ Head(q) = q[1] /\ 1 \in DOMAIN q
        /\ \A i \in DOMAIN Tail(q) : Tail(q)[i] = q[i + 1] /\ i + 1 \in DOMAIN q
    BY <1>3
  <2> QED BY <2>1
<1>4. Holds(q \o r, m) => Holds(q, m) \/ Holds(r, m)
  <2>1. /\ Len(q \o r) = Len(q) + Len(r) /\ q \o r \in Seq(T)
        /\ \A i \in 1 .. Len(q) + Len(r) :
             (q \o r)[i] = IF i <= Len(q) THEN q[i] ELSE r[i - Len(q)]
    BY ConcatProperties
  <2>2. /\ DOMAIN (q \o r) = 1 .. Len(q) + Len(r) /\ Len(q) \in Nat /\ Len(r) \in Nat
        /\ DOMAIN q = 1 .. Len(q) /\ DOMAIN r = 1 .. Len(r)
    BY <2>1
  <2>3. ASSUME NEW i \in 1 .. Len(q) + Len(r), (q \o r)[i] = m
        PROVE  Holds(q, m) \/ Holds(r, m)
    <3>1. CASE i <= Len(q)
      BY <2>1, <2>2, <2>3, <3>1
    <3>2. CASE ~(i <= Len(q))
      <4>1. i - Len(q) \in DOMAIN r /\ r[i - Len(q)] = m
        BY <2>1, <2>2, <2>3, <3>2
      <4> QED BY <4>1
    <3> QED BY <3>1, <3>2
  <2> QED BY <2>2, <2>3
<1>5. ASSUME NEW p \in Delivered(q), Holds(p, m)
      PROVE  Holds(q, m)
  <2>1. PICK n \in 0 .. Len(q) : p = SubSeq(q, 1, n)
    BY <1>5 DEF Delivered
  <2>2. DOMAIN p = 1 .. n /\ \A i \in 1 .. n : p[i] = q[i] /\ i \in DOMAIN q
    BY <2>1
  <2> QED BY <1>5, <2>2
<1> QED BY <1>1, <1>2, <1>3, <1>4, <1>5

\* The same for all messages: a queue of which some were taken, or lost.
LEMMA HoldsLess ==
  ASSUME NEW T, NEW q \in Seq(T)
  PROVE  /\ q # <<>> => Holds(q, Head(q)) /\ \A m : Holds(Tail(q), m) => Holds(q, m)
         /\ \A p \in Delivered(q) : \A m : Holds(p, m) => Holds(q, m)
<1>1. <<>> \in Seq(T)
  OBVIOUS
<1> QED BY <1>1, HoldsRules, Zenon

LEMMA InHand ==
  \A a \in Agents : \A m :
    m \in InFlight(a) <=> \/ Holds(toServer[a], m) \/ Holds(msgOutCh[a], m)
                          \/ \E w \in Conns : Holds(hand[a][w], m)
BY Flying DEF Holds

LEMMA InHandNext ==
  (\A a \in Agents : \A m :
     m \in InFlight(a) <=> \/ Holds(toServer[a], m) \/ Holds(msgOutCh[a], m)
                           \/ \E w \in Conns : Holds(hand[a][w], m))'
BY InHand, PTL

\* Agent a sends message m in this step.
Sends(a, m) ==
  \/ m.type = "rejected" /\ rejectJobOffer(a)
  \/ m.type = "accepted" /\ acceptJobOffer(a) /\ m.job = Head(toAgent[a]).job
  \/ m.type = "update" /\ m.job \in Jobs /\ onJobUpdate(a, m.job)
  \/ /\ m.type = "done" /\ m.job \in Jobs /\ m.status \in EndStatus
     /\ handleJobDone(a, m.job, m.status)

\* A message a step of agent a adds to those on their way is one that it sends.
LEMMA OnTheirWay ==
  ASSUME TypeOK, NEW a \in Agents, Acts(a), NEW m, m \in InFlight(a)'
  PROVE  m \in InFlight(a) \/ Sends(a, m)
<1> USE DEF netVars
<1>0. /\ toServer[a] \in Seq(Answer) /\ msgOutCh[a] \in Seq(Answer)
      /\ \A w \in Conns : hand[a][w] \in Seq(Answer)
  BY DEF TypeOK, AgentTypeOK, NetTypeOK
<1>1. \/ Holds(toServer'[a], m) \/ Holds(msgOutCh'[a], m)
      \/ \E w \in Conns : Holds(hand'[a][w], m)
  BY InHandNext, Zenon DEF Holds
<1>2. ASSUME UNCHANGED <<toServer, msgOutCh, hand>>
      PROVE  m \in InFlight(a)
  BY <1>1, <1>2, InHand
<1>3. ASSUME NEW type, NEW j, NEW s, NEW n, Push(a, type, j, s, n),
             UNCHANGED <<toServer, hand>>,
             [type |-> type, job |-> j, status |-> s, load |-> n] \in Answer
      PROVE  m \in InFlight(a) \/ m = [type |-> type, job |-> j, status |-> s, load |-> n]
  <2> DEFINE e == [type |-> type, job |-> j, status |-> s, load |-> n]
  <2>1. msgOutCh'[a] = Append(msgOutCh[a], e)
    BY <1>3 DEF Push, TypeOK, AgentTypeOK
  <2>2. Holds(msgOutCh'[a], m) => m = e \/ Holds(msgOutCh[a], m)
    <3>1. e \in Answer
      BY <1>3
    <3>2. \A q \in Seq(Answer), x \in Answer : Holds(Append(q, x), m) => m = x \/ Holds(q, m)
      BY HoldsRules, Zenon
    <3> HIDE DEF e
    <3> QED BY <1>0, <2>1, <3>1, <3>2, Zenon
  <2> QED BY <1>1, <1>3, <2>2, InHand
<1>4. Load(a) \in Nat
  BY LoadIsNat DEF Load, TypeOK, AgentTypeOK
<1>5. CASE ConnectionLoop(a)
  <2>1. CASE Disconnected(a) \/ cancelJob(a)
    BY <1>2, <2>1 DEF Disconnected, cancelJob
  <2>2. CASE rejectJobOffer(a)
    <3> DEFINE j == Head(toAgent[a]).job
    <3>1. j \in Jobs
      BY <2>2, ReceivesTyped DEF rejectJobOffer
    <3>2. [type |-> "rejected", job |-> j, status |-> "WAITING", load |-> Load(a)] \in Answer
      BY <1>4, <3>1 DEF Answer
    <3>3. Push(a, "rejected", j, "WAITING", Load(a)) /\ UNCHANGED <<toServer, hand>>
      BY <2>2 DEF rejectJobOffer
    <3> QED BY <1>3, <2>2, <3>2, <3>3 DEF Sends
  <2>3. CASE acceptJobOffer(a)
    <3> DEFINE j == Head(toAgent[a]).job
               n == Cardinality(jobsRunning[a] \cup {j})
    <3>1. j \in Jobs
      BY <2>3, ReceivesTyped DEF acceptJobOffer
    <3>2. [type |-> "accepted", job |-> j, status |-> "SCHEDULED", load |-> n] \in Answer
      BY <3>1, LoadIsNat DEF Answer, TypeOK, AgentTypeOK
    <3>3. Push(a, "accepted", j, "SCHEDULED", n) /\ UNCHANGED <<toServer, hand>>
      BY <2>3 DEF acceptJobOffer
    <3> QED BY <1>3, <2>3, <3>2, <3>3 DEF Sends
  <2> QED BY <1>5, <2>1, <2>2, <2>3 DEF ConnectionLoop
<1>6. ASSUME NEW j \in Jobs, onJobUpdate(a, j)
      PROVE  m \in InFlight(a) \/ Sends(a, m)
  <2>1. [type |-> "update", job |-> j, status |-> "SCHEDULED", load |-> Load(a)] \in Answer
    BY <1>4 DEF Answer
  <2>2. Push(a, "update", j, "SCHEDULED", Load(a)) /\ UNCHANGED <<toServer, hand>>
    BY <1>6 DEF onJobUpdate
  <2> QED BY <1>3, <1>6, <2>1, <2>2 DEF Sends
<1>7. ASSUME NEW j \in Jobs, NEW s \in EndStatus, handleJobDone(a, j, s)
      PROVE  m \in InFlight(a) \/ Sends(a, m)
  <2> DEFINE n == Cardinality(StillRunning(a, j))
  <2>1. [type |-> "done", job |-> j, status |-> s, load |-> n] \in Answer
    BY LoadIsNat DEF Answer, StillRunning, TypeOK, AgentTypeOK
  <2>2. Push(a, "done", j, s, n) /\ UNCHANGED <<toServer, hand>>
    BY <1>7 DEF handleJobDone
  <2> QED BY <1>3, <1>7, <2>1, <2>2 DEF Sends
<1>8. ASSUME NEW w \in Conns, TakeOut(a, w)
      PROVE  m \in InFlight(a)
  <2>1. /\ msgOutCh[a] # <<>> /\ msgOutCh'[a] = Tail(msgOutCh[a]) /\ UNCHANGED toServer
        /\ hand'[a][w] = <<Head(msgOutCh[a])>> /\ \A v \in Conns \ {w} : hand'[a][v] = hand[a][v]
    BY <1>8 DEF TakeOut, TypeOK, AgentTypeOK
  <2>2. Holds(msgOutCh'[a], m) \/ Holds(hand'[a][w], m) => Holds(msgOutCh[a], m)
    <3>1. Head(msgOutCh[a]) \in Answer
      BY <1>0, <2>1
    <3> QED BY <1>0, <2>1, <3>1, HoldsRules
  <2> QED BY <1>1, <2>1, <2>2, InHand
<1>9. ASSUME NEW w \in Conns, WriteOut(a, w)
      PROVE  m \in InFlight(a)
  <2>1. /\ UNCHANGED msgOutCh /\ hand'[a][w] = <<>>
        /\ \A v \in Conns \ {w} : hand'[a][v] = hand[a][v]
    BY <1>9 DEF WriteOut, TypeOK, AgentTypeOK
  <2>2. \E r \in {<<>>, hand[a][w], hand[a][w] \o hand[a][w]} : toServer'[a] \in {toServer[a], toServer[a] \o r}
    BY <1>9 DEF WriteOut, TypeOK, NetTypeOK
  <2>3. Holds(toServer'[a], m) => Holds(toServer[a], m) \/ Holds(hand[a][w], m)
    <3> DEFINE s == toServer[a]
               h == hand[a][w]
    <3>1. ASSUME NEW p, NEW r \in {<<>>, h, h \o h}, p \in {s, s \o r}, Holds(p, m)
          PROVE  Holds(s, m) \/ Holds(h, m)
      <4>1. s \in Seq(Answer) /\ h \in Seq(Answer) /\ h \o h \in Seq(Answer) /\ <<>> \in Seq(Answer)
        BY <1>0
      <4>2. \A x \in Seq(Answer), y \in Seq(Answer) : Holds(x \o y, m) => Holds(x, m) \/ Holds(y, m)
        BY HoldsRules, Zenon
      <4>3. ~Holds(<<>>, m)
        BY DEF Holds
      <4> HIDE DEF s, h
      <4>4. Holds(r, m) => Holds(h, m)
        BY <3>1, <4>1, <4>2, <4>3
      <4> QED BY <3>1, <4>1, <4>2, <4>3, <4>4
    <3> QED BY <2>2, <3>1
  <2>4. ~Holds(<<>>, m)
    BY DEF Holds
  <2> QED BY <1>1, <2>1, <2>3, <2>4, InHand
<1>10. CASE Crash(a)
  <2>1. toServer'[a] \in Delivered(toServer[a]) /\ msgOutCh'[a] = <<>> /\ hand'[a] = EmptyHands
    BY <1>10 DEF Crash, TypeOK, AgentTypeOK, NetTypeOK
  <2>2. ~Holds(<<>>, m)
    BY DEF Holds
  <2>3. \A p \in Delivered(toServer[a]) : Holds(p, m) => Holds(toServer[a], m)
    BY <1>0, HoldsRules
  <2> QED BY <1>1, <2>1, <2>2, <2>3, InHand DEF EmptyHands
<1> QED BY <1>5, <1>6, <1>7, <1>8, <1>9, <1>10 DEF Acts, Runner, Writer

LEMMA FewerOnTheirWay ==
  ASSUME NEW a \in Agents, msgOutCh'[a] = msgOutCh[a], hand'[a] = hand[a],
         \A m : Holds(toServer'[a], m) => Holds(toServer[a], m)
  PROVE  InFlight(a)' \subseteq InFlight(a)
<1> SUFFICES ASSUME NEW m, m \in InFlight(a)' PROVE m \in InFlight(a)
  OBVIOUS
<1>1. \/ Holds(toServer'[a], m) \/ Holds(msgOutCh'[a], m)
      \/ \E w \in Conns : Holds(hand'[a][w], m)
  BY InHandNext, Zenon DEF Holds
<1> QED BY <1>1, InHand

\* A handler takes the next message from those on their way.
LEMMA HandlerTakes ==
  ASSUME TypeOK, NEW a \in Agents, NEW types, Receive(a, types)
  PROVE  /\ Head(toServer[a]) \in InFlight(a) /\ Head(toServer[a]).type \in types
         /\ UNCHANGED <<msgOutCh, hand>> => InFlight(a)' \subseteq InFlight(a)
<1>1. /\ toServer[a] \in Seq(Answer) /\ toServer[a] # <<>> /\ Head(toServer[a]).type \in types
      /\ toServer'[a] = Tail(toServer[a])
  BY DEF Receive, TypeOK, NetTypeOK
<1>2. /\ Holds(toServer[a], Head(toServer[a]))
      /\ \A m : Holds(Tail(toServer[a]), m) => Holds(toServer[a], m)
  BY <1>1, HoldsLess, Zenon
<1> QED BY <1>1, <1>2, FewerOnTheirWay, InHand

-----------------------------------------------------------------------------
(* Who has to do with a job. *)

\* Agent a executes job j or has reported on it, or the server does something with the
\* job for it or has recorded it there.
Has(a, j) ==
  \/ exec[a][j] > 0
  \/ \E m \in InFlight(a) : m.type # "rejected" /\ m.job = j
  \/ handler[a].job = j \/ j \in handler[a].todo
  \/ store[j].agent = a

\* No two agents have to do with the same job.
Alone == \A j \in Jobs, a, b \in Agents : Has(a, j) /\ Has(b, j) => a = b

\* What a step of its handler does with the jobs of an agent.
LEMMA HandlerJobs ==
  ASSUME TypeOK, NEW a \in Agents, handleConn(a), UNCHANGED agentVars
  PROVE  /\ InFlight(a)' \subseteq InFlight(a)
         /\ \/ handler'[a].job \in {NoJob, handler[a].job} \cup handler[a].todo
            \/ \E m \in InFlight(a) : m.type # "rejected" /\ m.job = handler'[a].job
         /\ \A j \in handler'[a].todo : j \in handler[a].todo \/ store[j].agent = a
<1> USE DEF agentVars, netVars, TypeOK, ServerTypeOK
<1>0. UNCHANGED toServer => InFlight(a)' \subseteq InFlight(a)
  BY FewerOnTheirWay
<1>1. CASE handleMsgJobAccepted(a)
  <2>1. Receive(a, {"accepted", "rejected"})
    BY <1>1 DEF handleMsgJobAccepted
  <2>2. CASE handler' = handler
    BY <2>1, <2>2, HandlerTakes
  <2>3. CASE /\ Head(toServer[a]).type = "accepted"
             /\ Goto(a, "create", Head(toServer[a]).job, "absent")
    <3>1. InFlight(a)' \subseteq InFlight(a)
      BY <2>1, HandlerTakes
    <3>2. handler'[a].job = Head(toServer[a]).job /\ handler'[a].todo = handler[a].todo
      BY <2>3, HandlerGoes
    <3>3. Head(toServer[a]) \in InFlight(a)
      BY <2>1, HandlerTakes
    <3> QED BY <2>3, <3>1, <3>2, <3>3
  <2> QED BY <1>1, <2>2, <2>3 DEF handleMsgJobAccepted
<1>2. CASE handleMsgJobDone(a)
  <2>1. /\ Receive(a, {"done"})
        /\ Goto(a, "close", Head(toServer[a]).job, Head(toServer[a]).status)
    BY <1>2 DEF handleMsgJobDone
  <2>2. handler'[a].job = Head(toServer[a]).job /\ handler'[a].todo = handler[a].todo
    BY <2>1, HandlerGoes
  <2>3. /\ InFlight(a)' \subseteq InFlight(a)
        /\ Head(toServer[a]) \in InFlight(a) /\ Head(toServer[a]).type = "done"
    BY <2>1, HandlerTakes
  <2> QED BY <2>2, <2>3
<1>3. CASE handleMsgJobUpdate(a)
  BY <1>3, HandlerTakes DEF handleMsgJobUpdate
<1>4. CASE registerScheduledJob(a) \/ deregisterScheduledJob(a)
  BY <1>0, <1>4, HandlerGoes
     DEF registerScheduledJob, OpenLog, RegisterStatus, RegisterAgentName,
         deregisterScheduledJob, CloseLog, FinalStatus
<1>5. CASE ReadError(a)
  <2> DEFINE J == JobsFromNodeWithStatus(a, "SCHEDULED")
  <2>1. GotoDying(a, "fail", NoJob, "absent", J) /\ UNCHANGED toServer
    BY <1>5 DEF ReadError
  <2>2. handler'[a].job = NoJob /\ handler'[a].todo = J
    BY <2>1, HandlerDies, ZenonT(30)
  <2> QED BY <1>0, <2>1, <2>2 DEF JobsFromNodeWithStatus
<1>6. CASE FailNext(a)
  <2>1. PICK j \in handler[a].todo : GotoDying(a, "close", j, LostStatus, handler[a].todo \ {j})
    BY <1>6 DEF FailNext
  <2>2. handler'[a].job = j /\ handler'[a].todo = handler[a].todo \ {j}
    BY <2>1, HandlerDies, ZenonT(30)
  <2> QED BY <1>0, <1>6, <2>2 DEF FailNext
<1>7. CASE RemoveNode(a)
  BY <1>0, <1>7 DEF RemoveNode, NoHandler
<1> QED BY <1>1, <1>2, <1>3, <1>4, <1>5, <1>6, <1>7, Zenon DEF handleConn, deregisterNode

\* An agent starts to execute a job by accepting it.
LEMMA RunsStarted ==
  ASSUME TypeOK, NEW a \in Agents, Acts(a), NEW j \in Jobs, exec'[a][j] > 0
  PROVE  exec[a][j] > 0 \/ (acceptJobOffer(a) /\ j = Head(toAgent[a]).job)
<1> USE DEF TypeOK, AgentTypeOK
<1>1. CASE acceptJobOffer(a)
  <2>1. Head(toAgent[a]).job \in Jobs
    BY <1>1, ReceivesTyped DEF acceptJobOffer
  <2> QED BY <1>1, <2>1 DEF acceptJobOffer
<1>2. CASE Disconnected(a) \/ rejectJobOffer(a) \/ cancelJob(a)
  BY <1>2 DEF Disconnected, rejectJobOffer, cancelJob
<1>3. ASSUME NEW i \in Jobs, Runner(a, i)
      PROVE  exec[a][j] > 0
  <2>1. CASE onJobUpdate(a, i)
    BY <2>1 DEF onJobUpdate
  <2>2. ASSUME NEW s \in EndStatus, handleJobDone(a, i, s)
        PROVE  exec[a][j] > 0
    <3>1. exec[a][i] > 0
      BY <2>2 DEF handleJobDone
    <3>2. i # j => exec'[a][j] = exec[a][j]
      BY <2>2 DEF handleJobDone
    <3> QED BY <3>1, <3>2
  <2> QED BY <1>3, <2>1, <2>2 DEF Runner
<1>4. ASSUME NEW w \in Conns, Writer(a, w)
      PROVE  exec' = exec
  BY <1>4 DEF Writer, TakeOut, WriteOut
<1>5. ~Crash(a)
  BY DEF Crash, Nothing
<1> QED BY <1>1, <1>2, <1>3, <1>4, <1>5 DEF Acts, ConnectionLoop

\* A message that a step adds to those on their way is one that its agent sends.
LEMMA OnlySent ==
  ASSUME TypeOK, [Next]_vars, NEW a \in Agents, NEW m, m \in InFlight(a)'
  PROVE  m \in InFlight(a) \/ (Acts(a) /\ UNCHANGED serverVars /\ Sends(a, m))
<1>1. ASSUME UNCHANGED <<msgOutCh, hand>>, toServer'[a] \in {toServer[a], <<>>}
      PROVE  m \in InFlight(a)
  <2>1. \A e : ~Holds(<<>>, e)
    BY DEF Holds
  <2> QED BY <1>1, <2>1, FewerOnTheirWay
<1>2. CASE Elsewhere /\ UNCHANGED agentVars
  BY <1>1, <1>2, ElsewhereFrame DEF agentVars
<1>3. ASSUME NEW b \in Agents, handleConn(b), UNCHANGED agentVars
      PROVE  m \in InFlight(a)
  BY <1>1, <1>3, HandlerFrame, HandlerJobs DEF agentVars
<1>4. ASSUME NEW b \in Agents, Acts(b), UNCHANGED serverVars
      PROVE  m \in InFlight(a) \/ (Acts(a) /\ Sends(a, m))
  <2>1. CASE a # b
    <3>1. toServer'[a] = toServer[a] /\ msgOutCh'[a] = msgOutCh[a] /\ hand'[a] = hand[a]
      BY <1>4, <2>1, AgentFrame
    <3> QED BY <3>1, FewerOnTheirWay
  <2> QED BY <1>4, <2>1, OnTheirWay
<1>5. ASSUME NEW b \in Agents, Handshake(b)
      PROVE  m \in InFlight(a)
  <2>1. UNCHANGED <<msgOutCh, hand>> /\ toServer'[a] \in {toServer[a], <<>>}
    BY <1>5, HandshakeFrame
  <2> QED BY <1>1, <2>1
<1>6. ASSUME NEW b \in Agents, AgentInfo(b) \/ ConnectionLost(b)
      PROVE  m \in InFlight(a)
  <2>1. /\ UNCHANGED agentVars
        /\ toServer'[a] = toServer[a] \/ toServer'[a] \in Delivered(toServer[a])
    BY <1>6 DEF AgentInfo, ConnectionLost, BreakLink, netVars, serverVars, TypeOK, NetTypeOK
  <2>2. toServer[a] \in Seq(Answer)
    BY DEF TypeOK, NetTypeOK
  <2>3. \A p \in Delivered(toServer[a]) : \A e : Holds(p, e) => Holds(toServer[a], e)
    BY <2>2, HoldsLess, Zenon
  <2> QED BY <2>1, <2>3, FewerOnTheirWay DEF agentVars
<1>7. CASE ServerLost
  <2>1. UNCHANGED agentVars /\ toServer'[a] = <<>>
    BY <1>7 DEF ServerLost, Stop, NilConnPanic, ServerEnds
  <2> QED BY <1>1, <2>1 DEF agentVars
<1>8. CASE UNCHANGED vars
  BY <1>1, <1>8 DEF vars, agentVars, netVars
<1> QED BY <1>2, <1>3, <1>4, <1>5, <1>6, <1>7, <1>8, StepKinds

\* Who changes the rows of the jobs table but users: the handlers.
LEMMA OthersKeepRows ==
  ASSUME TypeOK, [Next]_vars, ~\E a \in Agents : handleConn(a) /\ UNCHANGED agentVars
  PROVE  /\ \A j \in Jobs :
              /\ store'[j].agent = store[j].agent
              /\ store'[j].progress = store[j].progress
              /\ store'[j].status \in {store[j].status, "WAITING", "CANCEL", "DELETE"}
         /\ \A a \in Agents : handler'[a] \in {handler[a], NoHandler, Reading}
<1>1. CASE Elsewhere
  BY <1>1, ElsewhereRows, ElsewhereFrame
<1>2. CASE ServerLost
  BY <1>2 DEF ServerLost, Stop, NilConnPanic, ServerEnds
<1>3. ASSUME NEW b \in Agents, AgentInfo(b) \/ ConnectionLost(b)
      PROVE  UNCHANGED <<store, handler>>
  BY <1>3 DEF AgentInfo, ConnectionLost, serverVars
<1>4. ASSUME NEW b \in Agents, Handshake(b)
      PROVE  store' = store /\ \A a \in Agents : handler'[a] \in {handler[a], Reading}
  BY <1>4, HandshakeFrame
<1> QED BY <1>1, <1>2, <1>3, <1>4, StepKinds DEF vars, serverVars

\* An agent gets to do with a job by accepting it.
LEMMA GotByAccepting ==
  ASSUME TypeOK, [Next]_vars, NEW a \in Agents, NEW j \in Jobs, Has(a, j)'
  PROVE  Has(a, j) \/ (acceptJobOffer(a) /\ j = Head(toAgent[a]).job)
<1>0. j # NoJob
  BY ProtocolAssumption
<1>1. CASE exec'[a][j] > 0
  <2>1. ASSUME ~Acts(a) PROVE exec'[a] = exec[a]
    BY <2>1, StepKinds, AgentFrame, HandshakeFrame
       DEF vars, agentVars, AgentInfo, ConnectionLost, ServerLost
  <2> QED BY <1>1, <2>1, RunsStarted DEF Has
<1>2. ASSUME NEW m, m \in InFlight(a)', m.type # "rejected", m.job = j
      PROVE  Has(a, j) \/ (acceptJobOffer(a) /\ j = Head(toAgent[a]).job)
  <2>1. m \in InFlight(a) \/ Sends(a, m)
    BY <1>2, OnlySent
  <2>2. onJobUpdate(a, j) => exec[a][j] > 0
    BY DEF onJobUpdate
  <2>3. \A s : handleJobDone(a, j, s) => exec[a][j] > 0
    BY DEF handleJobDone
  <2> QED BY <1>2, <2>1, <2>2, <2>3 DEF Has, Sends
<1>3. CASE handler'[a].job = j \/ j \in handler'[a].todo \/ store'[j].agent = a
  <2>1. CASE ~\E b \in Agents : handleConn(b) /\ UNCHANGED agentVars
    <3>1. handler'[a] \in {handler[a], NoHandler, Reading} /\ store'[j].agent = store[j].agent
      BY <2>1, OthersKeepRows
    <3> QED BY <1>0, <1>3, <3>1 DEF Has, NoHandler, Reading
  <2>2. ASSUME NEW b \in Agents, handleConn(b), UNCHANGED agentVars
        PROVE  Has(a, j)
    <3>1. store'[j].agent = a => store[j].agent = a \/ (a = b /\ handler[a].job = j)
      BY <2>2, HandlerAgent
    <3>2. a # b => handler'[a] = handler[a]
      BY <2>2, HandlerFrame
    <3> QED BY <1>0, <1>3, <2>2, <3>1, <3>2, HandlerJobs DEF Has
  <2> QED BY <2>1, <2>2
<1> QED BY <1>1, <1>2, <1>3 DEF Has

-----------------------------------------------------------------------------
(* The progress of a job that ends. *)

\* The job a handler is about to record as a SUCCESS is complete.
Complete ==
  \A a \in Agents : handler[a].pc \in {"close", "final"} /\ handler[a].status = "SUCCESS" =>
    store[handler[a].job].progress = 1

\* The message a handler reads is about a job, which it has to do with unless it refused it.
LEMMA ReadsOfItsJob ==
  ASSUME TypeOK, NEW a \in Agents, NEW types, Receive(a, types), "rejected" \notin types
  PROVE  Head(toServer[a]).job \in Jobs /\ Has(a, Head(toServer[a]).job)
<1>1. Head(toServer[a]).job \in Jobs
  BY ReceivedTyped DEF Answer
<1> QED BY <1>1, HandlerTakes DEF Has

\* What a handler writes into the status of a job.
LEMMA HandlerStatus ==
  ASSUME TypeOK, NEW a \in Agents, handleConn(a), NEW j \in Jobs
  PROVE  \/ store'[j].status = store[j].status
         \/ RegisterStatus(a) /\ j = handler[a].job /\ store'[j].status = "SCHEDULED"
         \/ FinalStatus(a) /\ j = handler[a].job /\ store'[j].status = handler[a].status
<1> USE DEF TypeOK, ServerTypeOK
<1>1. CASE handleMsgJobAccepted(a) \/ OpenLog(a) \/ CloseLog(a) \/ deregisterNode(a)
  BY <1>1 DEF handleMsgJobAccepted, OpenLog, CloseLog, deregisterNode, ReadError, FailNext,
              RemoveNode
<1>2. CASE handleMsgJobDone(a) \/ handleMsgJobUpdate(a)
  <2>1. Head(toServer[a]).job \in Jobs
    BY <1>2, ReadsOfItsJob DEF handleMsgJobDone, handleMsgJobUpdate
  <2> QED BY <1>2, <2>1, RowsAfter DEF handleMsgJobDone, handleMsgJobUpdate
<1>3. CASE RegisterStatus(a) \/ RegisterAgentName(a) \/ FinalStatus(a)
  <2>1. handler[a].job \in Jobs /\ handler[a].status \in EndStatus \cup {"absent"}
    BY <1>3, HandlerFields DEF RegisterStatus, RegisterAgentName, FinalStatus, At
  <2> QED BY <1>3, <2>1, RowsAfter
          DEF RegisterStatus, RegisterAgentName, FinalStatus, EndStatus, JobStatus
<1> QED BY <1>1, <1>2, <1>3 DEF handleConn, registerScheduledJob, deregisterScheduledJob

LEMMA CompleteHandler ==
  ASSUME TypeOK, Alone, Complete, NEW a \in Agents, handleConn(a)
  PROVE  Complete'
<1> USE DEF TypeOK, ServerTypeOK
<1>0. \A b \in Agents : handler[b].pc \in {"close", "final"} => handler[b].job \in Jobs
  BY HandlerFields
<1>1. ASSUME NEW b \in Agents, b # a
      PROVE  handler'[b] = handler[b]
  BY <1>1, HandlerFrame
<1>2. CASE handleMsgJobUpdate(a)
  <2>1. Receive(a, {"update"}) /\ UpdateJobProgress(Head(toServer[a]).job, 0) /\ handler' = handler
    BY <1>2 DEF handleMsgJobUpdate
  <2>2. Head(toServer[a]).job \in Jobs /\ Has(a, Head(toServer[a]).job) /\ handler[a].pc = "read"
    BY <2>1, ReadsOfItsJob DEF Receive, At
  <2>3. \A j \in Jobs : j # Head(toServer[a]).job => store'[j] = store[j]
    BY <2>1, <2>2, RowsAfter
  <2>4. ASSUME NEW b \in Agents, handler[b].pc \in {"close", "final"}
        PROVE  store'[handler[b].job] = store[handler[b].job]
    <3>1. handler[b].job \in Jobs /\ Has(b, handler[b].job)
      BY <1>0, <2>4 DEF Has
    <3>2. b # a
      BY <2>2, <2>4
    <3> QED BY <2>2, <2>3, <3>1, <3>2 DEF Alone
  <2> QED BY <2>1, <2>4 DEF Complete
<1>3. CASE handleMsgJobDone(a)
  <2> DEFINE j == Head(toServer[a]).job
  <2>1. j \in Jobs /\ UpdateJobProgress(j, 1) /\ handler'[a].job = j
    BY <1>3, ReadsOfItsJob, HandlerGoes DEF handleMsgJobDone
  <2>2. store'[j].progress = 1 /\ \A i \in Jobs : i # j => store'[i] = store[i]
    BY <2>1, RowsAfter
  <2> HIDE DEF j
  <2> QED BY <1>0, <1>1, <2>1, <2>2 DEF Complete
<1>4. ASSUME \A j \in Jobs : store'[j].progress = store[j].progress,
             handler'[a].pc \in {"close", "final"} /\ handler'[a].status = "SUCCESS" =>
               /\ handler[a].pc \in {"close", "final"} /\ handler[a].status = "SUCCESS"
               /\ handler'[a].job = handler[a].job
      PROVE  Complete'
  BY <1>0, <1>1, <1>4 DEF Complete
<1>5. CASE handleMsgJobAccepted(a) \/ OpenLog(a) \/ CloseLog(a) \/ RemoveNode(a)
  <2>1. store' = store
    BY <1>5 DEF handleMsgJobAccepted, OpenLog, CloseLog, RemoveNode
  <2>2. CASE CloseLog(a)
    BY <1>4, <2>1, <2>2, HandlerGoes DEF CloseLog, At
  <2>3. CASE OpenLog(a) \/ RemoveNode(a)
    BY <1>4, <2>1, <2>3, HandlerGoes DEF OpenLog, RemoveNode, NoHandler
  <2>4. CASE handleMsgJobAccepted(a)
    BY <1>4, <2>1, <2>4, HandlerGoes DEF handleMsgJobAccepted
  <2> QED BY <1>5, <2>2, <2>3, <2>4
<1>6. CASE RegisterStatus(a) \/ RegisterAgentName(a) \/ FinalStatus(a)
  <2>1. handler[a].job \in Jobs /\ handler[a].status \in EndStatus \cup {"absent"}
    BY <1>6, HandlerFields DEF RegisterStatus, RegisterAgentName, FinalStatus, At
  <2>2. \A j \in Jobs : store'[j].progress = store[j].progress
    BY <1>6, <2>1, RowsAfter
       DEF RegisterStatus, RegisterAgentName, FinalStatus, EndStatus, JobStatus
  <2>3. handler'[a].pc \notin {"close", "final"}
    BY <1>6, HandlerGoes DEF RegisterStatus, RegisterAgentName, FinalStatus
  <2> QED BY <1>4, <2>2, <2>3
<1>7. CASE ReadError(a)
  <2>1. GotoDying(a, "fail", NoJob, "absent", JobsFromNodeWithStatus(a, "SCHEDULED"))
    BY <1>7 DEF ReadError
  <2>2. handler'[a].pc = "fail"
    BY <2>1, HandlerDies, ZenonT(30)
  <2> QED BY <1>4, <1>7, <2>2 DEF ReadError
<1>8. CASE FailNext(a)
  <2>1. PICK j : GotoDying(a, "close", j, LostStatus, handler[a].todo \ {j})
    BY <1>8 DEF FailNext
  <2>2. handler'[a].status = "ERROR"
    BY <2>1, HandlerDies, ZenonT(30) DEF LostStatus
  <2> QED BY <1>4, <1>8, <2>2 DEF FailNext
<1> QED BY <1>2, <1>3, <1>5, <1>6, <1>7, <1>8, Zenon
        DEF handleConn, registerScheduledJob, deregisterScheduledJob, deregisterNode

LEMMA CompleteStep ==
  ASSUME TypeOK, Alone, Complete, [Next]_vars
  PROVE  Complete'
<1>1. CASE \E a \in Agents : handleConn(a)
  BY <1>1, CompleteHandler
<1>2. CASE ~\E a \in Agents : handleConn(a) /\ UNCHANGED agentVars
  <2>1. /\ \A j \in Jobs : store'[j].progress = store[j].progress
        /\ \A a \in Agents : handler'[a] \in {handler[a], NoHandler, Reading}
    BY <1>2, OthersKeepRows
  <2>2. \A a \in Agents : handler[a].pc \in {"close", "final"} => handler[a].job \in Jobs
    BY HandlerFields DEF TypeOK, ServerTypeOK
  <2> QED BY <2>1, <2>2 DEF Complete, NoHandler, Reading
<1> QED BY <1>1, <1>2

\* Only deregisterScheduledJob records a SUCCESS, and it leaves the progress as it is.
LEMMA SuccessRecorded ==
  ASSUME TypeOK, [Next]_vars, Complete, NEW j \in Jobs,
         store'[j].status = "SUCCESS", store[j].status # "SUCCESS"
  PROVE  store'[j].progress = 1
<1> USE DEF TypeOK, ServerTypeOK
<1>1. PICK a \in Agents : handleConn(a)
  BY OthersKeepRows
<1>2. CASE FinalStatus(a)
  <2>1. handler[a].pc = "final" /\ handler[a].job \in Jobs /\ handler[a].status \in JobStatus
    BY <1>2, HandlerFields DEF FinalStatus, At, EndStatus, JobStatus
  <2>2. UpdateJobStatus(handler[a].job, handler[a].status)
    BY <1>2 DEF FinalStatus
  <2>3. /\ store'[handler[a].job].status = handler[a].status
        /\ \A i \in Jobs : /\ i # handler[a].job => store'[i] = store[i]
                           /\ store'[i].progress = store[i].progress
    BY <2>1, <2>2, RowsAfter
  <2> QED BY <2>1, <2>3 DEF Complete
<1>3. CASE ~FinalStatus(a)
  <2>1. store'[j].status \in {store[j].status, "SCHEDULED"}
    BY <1>1, <1>3, HandlerStatus
  <2> QED BY <2>1
<1> QED BY <1>2, <1>3

\* SuccessIsComplete: whatever fails, the progress of a job that only one agent has to do
\* with is 1 when it becomes a SUCCESS, because an agent's messages are handled one after
\* the other, and the end of a job sets the progress (server/tcp.go:199-218).
THEOREM SuccessComplete == Spec /\ []Alone => SuccessIsComplete
<1>1. Init => Complete
  BY DEF Init, ServerInit, Complete, NoHandler
<1>2. TypeOK /\ Alone /\ Complete /\ [Next]_vars => Complete'
  BY CompleteStep
<1>3. TypeOK /\ Complete /\ [Next]_vars =>
        [\A j \in Jobs : store'[j].status = "SUCCESS" /\ store[j].status # "SUCCESS"
                          => store'[j].progress = 1]_vars
  BY SuccessRecorded
<1> QED BY <1>1, <1>2, <1>3, TypeCorrect, PTL DEF Spec, SuccessIsComplete

-----------------------------------------------------------------------------
(* Jobs that ask for a tag only one agent has. *)

\* No job is one that two agents could accept.
Pinned == \A j \in Jobs, a, b \in Agents : Capable(a, j) /\ Capable(b, j) => a = b

\* Only an agent with the tags a job asks for has to do with it.
Place == \A a \in Agents, j \in Jobs : Has(a, j) => Capable(a, j)

LEMMA PlaceInit == Init => Place
<1> SUFFICES ASSUME Init, NEW a \in Agents, NEW j \in Jobs PROVE ~Has(a, j)
  BY DEF Place
<1>1. \A m : m \notin InFlight(a)
  BY InHand DEF Init, AgentInit, NetInit, EmptyHands, Holds
<1> QED BY <1>1, ProtocolAssumption
        DEF Has, Init, ServerInit, AgentInit, NoHandler, Nothing

LEMMA PlaceStep == TypeOK /\ Place /\ [Next]_vars => Place'
<1> SUFFICES ASSUME TypeOK, Place, [Next]_vars, NEW a \in Agents, NEW j \in Jobs, Has(a, j)'
             PROVE  Capable(a, j)
  BY DEF Place, Capable
<1>1. Has(a, j) \/ (acceptJobOffer(a) /\ j = Head(toAgent[a]).job)
  BY GotByAccepting
<1> QED BY <1>1 DEF Place, acceptJobOffer, canAcceptJob

\* An agent accepts only a job it has the tags for (agent/agent.go:103-115), so that a job
\* only one agent is capable of is never in the hands of two.
THEOREM PinnedJobsAreAlone == Pinned => (Spec => []Alone)
<1> SUFFICES ASSUME Pinned PROVE Spec => []Alone
  OBVIOUS
<1>1. Place => Alone
  BY DEF Place, Alone, Pinned
<1> QED BY <1>1, PlaceInit, PlaceStep, TypeCorrect, PTL DEF Spec

\* SuccessIsComplete for such jobs, whatever fails and however often agents connect.
COROLLARY PinnedSuccessComplete == Pinned => (Spec => SuccessIsComplete)
<1> SUFFICES ASSUME Pinned PROVE Spec => SuccessIsComplete
  OBVIOUS
<1>1. Spec => []Alone
  BY PinnedJobsAreAlone
<1>2. Spec /\ []Alone => SuccessIsComplete
  BY SuccessComplete
<1> QED BY <1>1, <1>2, PTL

-----------------------------------------------------------------------------
(* What is recorded of a job has happened to it: the facts of the history. *)

\* A fact about the jobs J, recorded in a step of what it is a fact about.
Learns(J, f) ==
  /\ J \subseteq Jobs /\ f \in Fact /\ Happened(J, f) /\ UNCHANGED store
  /\ f \in {"cancelAsked", "deleteAsked"} => \A j \in J : store[j].status # "absent"
  /\ f \in {"succeeded", "failed", "lost"} => \A j \in J : \E a \in Agents : Has(a, j)
  /\ f = "accepted" => \E a \in Agents : acceptJobOffer(a) /\ J = {Head(toAgent[a]).job}

LEMMA UnreportedIsHeld ==
  ASSUME NEW a \in Agents, NEW j \in Unreported(a)
  PROVE  j \in Jobs /\ Has(a, j)
BY DEF Unreported, Has

\* Until an agent connects again, its only writer loses nothing.
LEMMA LearnsOfAgent ==
  ASSUME TypeOK, Wiring, Once, NEW a \in Agents, Acts(a), UNCHANGED serverVars
  PROVE  UNCHANGED facts \/ \E J \in SUBSET Jobs, f \in Fact : Learns(J, f)
<1>0. UNCHANGED store
  BY DEF serverVars
<1>1. CASE acceptJobOffer(a)
  <2> DEFINE j == Head(toAgent[a]).job
  <2>1. j \in Jobs /\ Happened({j}, "accepted")
    BY <1>1, ReceivesTyped DEF acceptJobOffer
  <2>2. Learns({j}, "accepted")
    BY <1>0, <1>1, <2>1 DEF Learns, Fact
  <2> QED BY <2>1, <2>2 DEF Fact
<1>2. ASSUME NEW j \in Jobs, NEW s \in EndStatus, handleJobDone(a, j, s)
      PROVE  UNCHANGED facts \/ \E J \in SUBSET Jobs, f \in Fact : Learns(J, f)
  <2>1. Has(a, j)
    BY <1>2 DEF handleJobDone, Has
  <2>2. \/ UNCHANGED facts
        \/ \E f \in {"succeeded", "failed"} : Happened({j}, f)
    BY <1>2 DEF handleJobDone, EndStatus
  <2>3. ASSUME NEW f \in {"succeeded", "failed"}, Happened({j}, f)
        PROVE  f \in Fact /\ Learns({j}, f)
    BY <1>0, <2>1, <2>3 DEF Learns, Fact
  <2> QED BY <2>2, <2>3
<1>3. ASSUME NEW w \in Conns, WriteOut(a, w)
      PROVE  UNCHANGED facts
  <2>1. CASE ~link[a]
    BY <1>3, <2>1 DEF WriteOut
  <2>2. CASE link[a]
    <3>1. \A v \in Conns \ {1} : v \notin writers[a]
      BY <2>2, FirstConnection DEF Once
    <3>2. w = 1 /\ ~\E v \in writers[a] \ {w} : hand[a][v] # <<>>
      BY <1>3, <3>1 DEF WriteOut, TypeOK, AgentTypeOK
    <3>3. Happened({}, "lost")
      BY <1>3, <2>2, <3>2 DEF WriteOut
    <3> QED BY <3>3 DEF Happened, TypeOK, NetTypeOK
  <2> QED BY <2>1, <2>2
<1>4. CASE Crash(a)
  <2>1. Learns(Unreported(a), "lost")
    BY <1>0, <1>4, UnreportedIsHeld DEF Learns, Fact, Crash
  <2> QED BY <2>1 DEF Learns
<1>5. CASE Disconnected(a) \/ rejectJobOffer(a) \/ cancelJob(a)
  BY <1>5 DEF Disconnected, rejectJobOffer, cancelJob
<1>6. ASSUME NEW j \in Jobs, onJobUpdate(a, j)
      PROVE  UNCHANGED facts
  BY <1>6 DEF onJobUpdate
<1>7. ASSUME NEW w \in Conns, TakeOut(a, w)
      PROVE  UNCHANGED facts
  BY <1>7 DEF TakeOut
<1> QED BY <1>1, <1>2, <1>3, <1>4, <1>5, <1>6, <1>7 DEF Acts, ConnectionLoop, Runner, Writer

LEMMA Learning ==
  ASSUME TypeOK, Wiring, Once, [Next]_vars
  PROVE  UNCHANGED facts \/ \E J \in SUBSET Jobs, f \in Fact : Learns(J, f)
<1>1. CASE Elsewhere
  <2>1. ASSUME NEW u \in Users, NEW j \in Jobs, patchJob(u, j) \/ deleteJob(u, j)
        PROVE  \E f \in Fact : Learns({j}, f)
    BY <2>1 DEF patchJob, deleteJob, ReadRequest, Learns, Fact
  <2>2. CASE ~\E u \in Users, j \in Jobs : patchJob(u, j) \/ deleteJob(u, j)
    BY <1>1, <2>2
       DEF Elsewhere, postJob, CancelJob, CancelWaiting, CancelScheduled, sendCancelRequest,
           DeleteStatus, ReadWaiting, distribute, Unicast, Send, Restart
  <2> QED BY <2>1, <2>2
<1>2. ASSUME NEW a \in Agents, handleConn(a)
      PROVE  UNCHANGED facts
  BY <1>2, HandlerFrame
<1>3. ASSUME NEW a \in Agents, Handshake(a) \/ AgentInfo(a)
      PROVE  UNCHANGED facts
  BY <1>3, HandshakeFrame DEF AgentInfo
<1>4. ASSUME NEW a \in Agents, ConnectionLost(a)
      PROVE  Learns(Unreported(a), "lost")
  BY <1>4, UnreportedIsHeld DEF Learns, Fact, ConnectionLost, serverVars
<1>5. CASE ServerLost
  <2> DEFINE J == Unrecorded \cup UNION {Unreported(a) : a \in Agents}
  <2>1. \A j \in Unrecorded : j \in Jobs /\ \E a \in Agents : Has(a, j)
    BY HandlerFields DEF Unrecorded, At, Has, TypeOK, ServerTypeOK
  <2>2. \A j \in J : j \in Jobs /\ \E a \in Agents : Has(a, j)
    BY <2>1, UnreportedIsHeld
  <2>3. Happened(J, "lost") /\ UNCHANGED store
    BY <1>5 DEF ServerLost, Stop, NilConnPanic, ServerEnds
  <2>4. J \subseteq Jobs
    BY <2>2
  <2> HIDE DEF J
  <2>5. Learns(J, "lost")
    BY <2>2, <2>3, <2>4 DEF Learns, Fact
  <2> QED BY <2>4, <2>5 DEF Fact
<1>6. \A a \in Agents : Unreported(a) \subseteq Jobs /\ "lost" \in Fact
  BY DEF Unreported, Fact
<1> QED BY <1>1, <1>2, <1>3, <1>4, <1>5, <1>6, StepKinds, LearnsOfAgent DEF vars

Posted(j) == store[j].status # "absent"

\* Nothing is forgotten: a fact stays one, and a job has a row for ever.
Remembers == \A j \in Jobs : facts[j] \subseteq facts'[j] /\ (Posted(j) => Posted(j)')

LEMMA StillPosted ==
  ASSUME TypeOK, [Next]_vars, NEW j \in Jobs, Posted(j)
  PROVE  Posted(j)'
<1>1. CASE ~\E a \in Agents : handleConn(a) /\ UNCHANGED agentVars
  BY <1>1, OthersKeepRows DEF Posted
<1>2. ASSUME NEW a \in Agents, handleConn(a)
      PROVE  Posted(j)'
  <2>1. FinalStatus(a) => handler[a].status \in EndStatus
    BY HandlerFields DEF FinalStatus, At, TypeOK, ServerTypeOK
  <2> QED BY <1>2, <2>1, HandlerStatus DEF Posted, EndStatus
<1> QED BY <1>1, <1>2

LEMMA Remembering ==
  ASSUME TypeOK, Wiring, Once, [Next]_vars
  PROVE  Remembers
<1>1. ASSUME NEW J, NEW f, Happened(J, f), NEW j \in Jobs
      PROVE  facts[j] \subseteq facts'[j]
  BY <1>1 DEF Happened
<1>2. ASSUME NEW j \in Jobs
      PROVE  facts[j] \subseteq facts'[j]
  BY <1>1, Learning DEF Learns
<1> QED BY <1>2, StillPosted DEF Remembers

\* A request to an agent is about a job in the table, and a cancel was asked for.
Valid(m) == Posted(m.job) /\ (m.type = "cancel" => "cancelAsked" \in facts[m.job])

\* So is what a user's goroutine will do.
AskedFor(r) ==
  /\ r.op \in {"cancel", "unicast"} => "cancelAsked" \in facts[r.job]
  /\ r.op = "delete" => "deleteAsked" \in facts[r.job]

RequestInv ==
  /\ \A j \in batch : Posted(j)
  /\ \A p \in offers : Valid(p.msg)
  /\ \A p : Holds(cliChan, p) => Valid(p.msg)
  /\ \A a \in Agents : \A m : Holds(toAgent[a], m) => Valid(m)
  /\ \A u \in Users : AskedFor(requests[u])

LEMMA RequestsRemembered ==
  ASSUME TypeOK, Remembers
  PROVE  /\ \A j \in batch : Posted(j) => Posted(j)'
         /\ \A m \in Request : Valid(m) => Valid(m)'
         /\ \A r \in APIRequest : AskedFor(r) => AskedFor(r)'
<1>1. \A m \in Request : m.job \in Jobs
  BY DEF Request
<1>2. \A r \in APIRequest : r.op \in {"cancel", "unicast", "delete"} => r.job \in Jobs
  BY DEF APIRequest, NoRequest
<1> QED BY <1>1, <1>2 DEF Remembers, Valid, AskedFor, TypeOK, ServerTypeOK, Posted

\* The requests of a queue.
LEMMA RequestsHeld ==
  ASSUME TypeOK
  PROVE  /\ \A p : Holds(cliChan, p) => p \in Pair /\ p.msg \in Request
         /\ \A a \in Agents : \A m : Holds(toAgent[a], m) => m \in Request
<1>1. cliChan \in Seq(Pair) /\ \A a \in Agents : toAgent[a] \in Seq(Request)
  BY DEF TypeOK, ServerTypeOK, NetTypeOK
<1>2. \A p \in Pair : p.msg \in Request
  BY DEF Pair
<1> QED BY <1>1, <1>2 DEF Holds

\* The queues of the server, when nothing but requests that are valid is added to them.
LEMMA RequestsKept ==
  ASSUME TypeOK, Remembers, RequestInv,
         \A j \in batch' : j \in batch \/ Posted(j),
         \A p \in offers' : p \in offers \/ (p \in Pair /\ Valid(p.msg)),
         \A p : Holds(cliChan', p) => Holds(cliChan, p) \/ (p \in Pair /\ Valid(p.msg)),
         \A a \in Agents : \A m :
            Holds(toAgent'[a], m) => Holds(toAgent[a], m) \/ (m \in Request /\ Valid(m)),
         batch' \subseteq Jobs,
         \A u \in Users : AskedFor(requests[u])'
  PROVE  RequestInv'
<1>1. \A j \in Jobs : Posted(j) => Posted(j)'
  BY DEF Remembers
<1>2. \A m \in Request : Valid(m) => Valid(m)'
  BY RequestsRemembered
<1>3. \A p \in Pair : p.msg \in Request
  BY DEF Pair
<1>4. \A j \in batch' : Posted(j)'
  BY <1>1 DEF RequestInv
<1>5. \A p \in offers' : Valid(p.msg)'
  BY <1>2, <1>3 DEF RequestInv, TypeOK, ServerTypeOK
<1>6. ASSUME NEW p, Holds(cliChan', p) PROVE Valid(p.msg)'
  BY <1>2, <1>3, <1>6, RequestsHeld DEF RequestInv
<1>7. ASSUME NEW a \in Agents, NEW m, Holds(toAgent'[a], m) PROVE Valid(m)'
  BY <1>2, <1>7, RequestsHeld DEF RequestInv
<1>8. /\ \A p : Holds(cliChan, p)' => Valid(p.msg)'
      /\ \A a \in Agents : \A m : Holds(toAgent[a], m)' => Valid(m)'
  BY <1>6, <1>7 DEF Holds
<1> QED BY <1>4, <1>5, <1>8 DEF RequestInv

LEMMA RequestsElsewhere ==
  ASSUME TypeOK, TypeOK', Remembers, RequestInv, \A j \in Jobs : facts[j] # {} => Posted(j),
         Recorded = Fact, Elsewhere
  PROVE  RequestInv'
<1> DEFINE Same == UNCHANGED <<batch, offers, cliChan, toAgent>>
           Asked == \A u \in Users : AskedFor(requests[u])'
<1>b. batch' \subseteq Jobs /\ offers \subseteq Pair /\ offers' \subseteq Pair /\ cliChan \in Seq(Pair)
  BY DEF TypeOK, ServerTypeOK
<1>r. requests \in [Users -> APIRequest] /\ requests' \in [Users -> APIRequest]
  BY DEF TypeOK, ServerTypeOK
<1>s. ASSUME UNCHANGED requests PROVE Asked
  BY <1>r, <1>s, RequestsRemembered DEF RequestInv
<1>c. ASSUME NEW u \in Users, NEW r, requests' = [requests EXCEPT ![u] = r], AskedFor(r)'
      PROVE  Asked
  <2>1. \A v \in Users \ {u} : requests'[v] = requests[v] /\ AskedFor(requests[v])'
    BY <1>r, <1>c, RequestsRemembered DEF RequestInv
  <2>2. requests'[u] = r
    BY <1>r, <1>c
  <2> QED BY <1>c, <2>1, <2>2 DEF AskedFor
<1>n. AskedFor(NoRequest)'
  BY DEF AskedFor, NoRequest
<1>k. ASSUME Same, Asked PROVE RequestInv'
  BY <1>b, <1>k, RequestsKept
<1>1. ASSUME NEW j \in Jobs, postJob(j)
      PROVE  RequestInv'
  <2>1. Same /\ UNCHANGED requests
    BY <1>1 DEF postJob, netVars
  <2> QED BY <1>s, <1>k, <2>1
<1>2. CASE ReadWaiting \/ Restart
  <2>1. /\ UNCHANGED <<offers, cliChan, toAgent, requests>>
        /\ \A j \in batch' : j \in batch \/ store[j].status = "WAITING"
    BY <1>2 DEF ReadWaiting, Restart, netVars, JobsWithStatus
  <2>2. \A j \in batch' : j \in batch \/ Posted(j)
    BY <2>1 DEF Posted
  <2> QED BY <1>b, <1>s, <2>1, <2>2, RequestsKept
<1>3. ASSUME NEW u \in Users, NEW j \in Jobs, patchJob(u, j) \/ deleteJob(u, j)
      PROVE  RequestInv'
  <2>1. PICK op \in {"cancel", "delete"} : ReadRequest(u, j, op)
    BY <1>3 DEF patchJob, deleteJob
  <2>2. /\ Same /\ Happened({j}, IF op = "cancel" THEN "cancelAsked" ELSE "deleteAsked")
        /\ requests' = [requests EXCEPT
             ![u] = [op |-> op, job |-> j, status |-> store[j].status,
                     agent |-> store[j].agent, conn |-> NilConn]]
    BY <2>1 DEF ReadRequest, netVars
  <2>3. (IF op = "cancel" THEN "cancelAsked" ELSE "deleteAsked") \in facts'[j]
    BY <2>2 DEF Happened, Fact
  <2>4. PICK r : r.op = op /\ r.job = j /\ requests' = [requests EXCEPT ![u] = r]
    BY <2>2
  <2>5. AskedFor(r)'
    BY <2>3, <2>4 DEF AskedFor
  <2> QED BY <1>c, <1>k, <2>2, <2>4, <2>5
<1>4. ASSUME NEW u \in Users, CancelWaiting(u) \/ DeleteStatus(u)
      PROVE  RequestInv'
  <2>1. requests' = [requests EXCEPT ![u] = NoRequest] /\ Same
    BY <1>4 DEF CancelWaiting, DeleteStatus, netVars
  <2> QED BY <1>c, <1>k, <1>n, <2>1
<1>5. ASSUME NEW u \in Users, CancelScheduled(u)
      PROVE  RequestInv'
  <2>1. Same /\ requests' = [requests EXCEPT
          ![u] = IF requests[u].agent \in nodes
                   THEN [requests[u] EXCEPT !.op = "unicast", !.conn = epoch[requests[u].agent]]
                   ELSE NoRequest]
    BY <1>5 DEF CancelScheduled, netVars
  <2>2. requests[u] \in [op : {"cancel"}, job : Jobs, status : {"SCHEDULED"},
                         agent : Agents \cup {NoAgent}, conn : {NilConn}]
    BY <1>5, <1>r DEF CancelScheduled, APIRequest, NoRequest
  <2>3. "cancelAsked" \in facts[requests[u].job] /\ requests[u].job \in Jobs
    BY <2>2 DEF RequestInv, AskedFor
  <2>4. "cancelAsked" \in facts'[requests[u].job]
    BY <2>3 DEF Remembers
  <2>5. PICK r : /\ requests' = [requests EXCEPT ![u] = r]
                 /\ (r.op = "unicast" /\ r.job = requests[u].job) \/ r = NoRequest
    <3> DEFINE x == [requests[u] EXCEPT !.op = "unicast", !.conn = epoch[requests[u].agent]]
    <3>1. x.op = "unicast" /\ x.job = requests[u].job
      BY <2>2
    <3>2. \/ requests' = [requests EXCEPT ![u] = x]
          \/ requests' = [requests EXCEPT ![u] = NoRequest]
      BY <2>1
    <3> HIDE DEF x
    <3> QED BY <3>1, <3>2
  <2>6. AskedFor(r)'
    BY <2>4, <2>5 DEF AskedFor, NoRequest
  <2> QED BY <1>c, <1>k, <2>1, <2>5, <2>6
<1>6. ASSUME NEW u \in Users, sendCancelRequest(u)
      PROVE  RequestInv'
  <2> DEFINE p == [agent |-> requests[u].agent, conn |-> requests[u].conn,
                   msg |-> [type |-> "cancel", job |-> requests[u].job]]
  <2>1. /\ cliChan' = Append(cliChan, p) /\ UNCHANGED <<batch, offers, toAgent>>
        /\ requests' = [requests EXCEPT ![u] = NoRequest]
    BY <1>6 DEF sendCancelRequest, netVars
  <2>2. requests[u] \in [op : {"unicast"}, job : Jobs, status : {"SCHEDULED"},
                         agent : Agents, conn : {NilConn} \cup Conns]
    BY <1>6, <1>r, RequestInUnicast DEF sendCancelRequest
  <2>3. "cancelAsked" \in facts[requests[u].job] /\ requests[u].job \in Jobs
    BY <2>2 DEF RequestInv, AskedFor
  <2>4. p \in Pair /\ Valid(p.msg)
    BY <2>2, <2>3 DEF Pair, Request, Valid
  <2>5. \A q : Holds(cliChan', q) => q = p \/ Holds(cliChan, q)
    <3>1. \A q : \A x \in Pair : Holds(Append(cliChan, x), q) => q = x \/ Holds(cliChan, q)
      BY <1>b, HoldsRules, Zenon
    <3> HIDE DEF p
    <3> QED BY <2>1, <2>4, <3>1, Zenon
  <2> HIDE DEF p
  <2> QED BY <1>b, <1>c, <1>n, <2>1, <2>4, <2>5, RequestsKept
<1>7. CASE distribute
  <2>1. PICK D \in Distributions(batch) :
          offers' = {[agent |-> D[j], conn |-> ProxyConn(D[j]),
                      msg |-> [type |-> "offer", job |-> j]] :
                     j \in {i \in batch : D[i] # NoAgent}}
    BY <1>7 DEF distribute
  <2>2. \A p \in offers' : Valid(p.msg)
    BY <2>1 DEF RequestInv, Valid
  <2>3. UNCHANGED <<cliChan, requests, toAgent>> /\ batch' = {}
    BY <1>7 DEF distribute, netVars
  <2> QED BY <1>b, <1>s, <2>2, <2>3, RequestsKept
<1>8. ASSUME NEW p \in offers, Unicast(p)
      PROVE  RequestInv'
  <2>1. /\ cliChan' = Append(cliChan, p) /\ offers' \subseteq offers
        /\ UNCHANGED <<batch, toAgent, requests>>
    BY <1>8 DEF Unicast, netVars
  <2>2. \A q : Holds(cliChan', q) => q = p \/ Holds(cliChan, q)
    BY <1>b, <2>1, HoldsRules
  <2>3. p \in Pair /\ Valid(p.msg)
    BY <1>b DEF RequestInv
  <2> QED BY <1>b, <1>s, <2>1, <2>2, <2>3, RequestsKept
<1>9. CASE Send
  <2> DEFINE p == Head(cliChan)
  <2>1. /\ cliChan # <<>> /\ cliChan' = Tail(cliChan) /\ UNCHANGED <<batch, offers, requests>>
        /\ \/ UNCHANGED toAgent
           \/ toAgent' = [toAgent EXCEPT ![p.agent] = Append(@, p.msg)]
    BY <1>9 DEF Send
  <2>2. p \in Pair /\ p.agent \in Agents /\ p.msg \in Request
    <3>1. Head(cliChan) \in Pair
      BY <1>b, <2>1
    <3> QED BY <3>1 DEF Pair
  <2>3. Holds(cliChan, p) /\ \A q : Holds(cliChan', q) => Holds(cliChan, q)
    <3>1. /\ Holds(cliChan, Head(cliChan))
          /\ \A q : Holds(Tail(cliChan), q) => Holds(cliChan, q)
      BY <1>b, <2>1, HoldsLess, Zenon
    <3> QED BY <2>1, <3>1
  <2>4. Valid(p.msg)
    BY <2>3 DEF RequestInv
  <2> HIDE DEF p
  <2>5. ASSUME NEW a \in Agents, NEW m, Holds(toAgent'[a], m)
        PROVE  Holds(toAgent[a], m) \/ m = p.msg
    <3>1. toAgent[a] \in Seq(Request)
      BY DEF TypeOK, NetTypeOK
    <3>2. \A x \in Request : Holds(Append(toAgent[a], x), m) => m = x \/ Holds(toAgent[a], m)
      BY <3>1, HoldsRules, Zenon
    <3>3. toAgent'[a] = toAgent[a] \/ toAgent'[a] = Append(toAgent[a], p.msg)
      BY <2>1, <2>2 DEF TypeOK, NetTypeOK
    <3> QED BY <2>2, <2>5, <3>2, <3>3
  <2> QED BY <1>b, <1>s, <2>1, <2>2, <2>3, <2>4, <2>5, RequestsKept
<1> QED BY <1>1, <1>2, <1>3, <1>4, <1>5, <1>6, <1>7, <1>8, <1>9 DEF Elsewhere, CancelJob

LEMMA RequestsStep ==
  ASSUME TypeOK, TypeOK', Wiring, Once, RequestInv, \A j \in Jobs : facts[j] # {} => Posted(j),
         Recorded = Fact, [Next]_vars
  PROVE  RequestInv'
<1>0. Remembers /\ batch' \subseteq Jobs
  BY Remembering DEF TypeOK, ServerTypeOK
<1>1. ASSUME UNCHANGED <<batch, offers, cliChan, requests>>,
             \A a \in Agents : \A m : Holds(toAgent'[a], m) => Holds(toAgent[a], m)
      PROVE  RequestInv'
  <2>1. \A u \in Users : AskedFor(requests[u])'
    <3>1. \A u \in Users : requests[u] \in APIRequest /\ AskedFor(requests[u])
      BY DEF TypeOK, ServerTypeOK, RequestInv
    <3>2. \A r \in APIRequest : AskedFor(r) => AskedFor(r)'
      BY <1>0, RequestsRemembered
    <3> QED BY <1>1, <3>1, <3>2 DEF AskedFor
  <2> QED BY <1>0, <1>1, <2>1, RequestsKept
<1>2. ASSUME NEW a \in Agents
      PROVE  /\ \A p \in Delivered(toAgent[a]) : \A m : Holds(p, m) => Holds(toAgent[a], m)
             /\ toAgent[a] # <<>> => \A m : Holds(Tail(toAgent[a]), m) => Holds(toAgent[a], m)
             /\ \A m : ~Holds(<<>>, m)
  <2>1. toAgent[a] \in Seq(Request)
    BY DEF TypeOK, NetTypeOK
  <2>2. \A m : ~Holds(<<>>, m)
    BY DEF Holds
  <2> QED BY <2>1, <2>2, HoldsLess, Zenon
<1>3. CASE Elsewhere
  BY <1>0, <1>3, RequestsElsewhere
<1>4. ASSUME NEW b \in Agents, handleConn(b)
      PROVE  RequestInv'
  BY <1>1, <1>4, HandlerFrame
<1>5. ASSUME NEW b \in Agents, Acts(b), UNCHANGED serverVars
      PROVE  RequestInv'
  <2>1. ASSUME NEW a \in Agents
        PROVE  \/ toAgent'[a] \in {toAgent[a], <<>>}
               \/ toAgent[a] # <<>> /\ toAgent'[a] = Tail(toAgent[a])
    <3>1. toAgent' \in {toAgent, [toAgent EXCEPT ![b] = <<>>]}
             \/ (toAgent[b] # <<>> /\ toAgent' = [toAgent EXCEPT ![b] = Tail(@)])
      BY <1>5 DEF Acts, ConnectionLoop, Disconnected, rejectJobOffer, acceptJobOffer, cancelJob,
                  Receives, Runner, onJobUpdate, handleJobDone, Writer, TakeOut, WriteOut, Crash,
                  netVars
    <3> QED BY <3>1 DEF TypeOK, NetTypeOK
  <2> QED BY <1>1, <1>2, <1>5, <2>1 DEF serverVars
<1>6. ASSUME NEW b \in Agents, Handshake(b)
      PROVE  RequestInv'
  <2>1. /\ UNCHANGED <<batch, offers, cliChan, requests>>
        /\ \A a \in Agents : toAgent'[a] \in {toAgent[a], <<>>}
    BY <1>6, HandshakeFrame
  <2> QED BY <1>1, <1>2, <2>1
<1>7. ASSUME NEW b \in Agents, AgentInfo(b) \/ ConnectionLost(b)
      PROVE  RequestInv'
  <2>1. /\ UNCHANGED <<batch, offers, cliChan, requests>>
        /\ \A a \in Agents : toAgent'[a] = toAgent[a] \/ toAgent'[a] \in Delivered(toAgent[a])
    BY <1>7 DEF AgentInfo, ConnectionLost, BreakLink, netVars, serverVars, TypeOK, NetTypeOK
  <2> QED BY <1>1, <1>2, <2>1
<1>8. CASE ServerLost
  <2>1. PICK how : ServerEnds(how)
    BY <1>8 DEF ServerLost, Stop, NilConnPanic
  <2>2. /\ batch' = {} /\ offers' = {} /\ cliChan' = <<>>
        /\ requests' = [u \in Users |-> NoRequest]
    BY <2>1 DEF ServerEnds
  <2>3. ASSUME NEW a \in Agents PROVE toAgent'[a] \in Delivered(toAgent[a])
    <3>1. PICK left \in [Agents -> 0 .. NetCap] :
            /\ \A b \in Agents : left[b] <= Len(toAgent[b])
            /\ toAgent' = [b \in Agents |-> SubSeq(toAgent[b], 1, left[b])]
      BY <2>1 DEF ServerEnds
    <3>2. left[a] \in 0 .. Len(toAgent[a])
      <4>1. left[a] \in 0 .. NetCap /\ left[a] <= Len(toAgent[a])
        BY <3>1
      <4> QED BY <4>1, ProtocolAssumption
    <3> QED BY <3>1, <3>2 DEF Delivered
  <2>4. \A u \in Users : AskedFor(requests[u])'
    BY <2>2 DEF AskedFor, NoRequest
  <2>5. \A p : ~Holds(<<>>, p)
    BY DEF Holds
  <2> QED BY <1>0, <1>2, <2>2, <2>3, <2>4, <2>5, RequestsKept
<1>9. CASE UNCHANGED vars
  BY <1>1, <1>9 DEF vars, serverVars, netVars
<1> QED BY <1>3, <1>4, <1>5, <1>6, <1>7, <1>8, <1>9, StepKinds

\* A job of which anything is known has a row, and one somebody has to do with, or that
\* has ended, was accepted.
KnownInv ==
  \A j \in Jobs :
    /\ facts[j] # {} => Posted(j)
    /\ (\E a \in Agents : Has(a, j)) \/ facts[j] \cap {"succeeded", "failed", "lost"} # {}
         => "accepted" \in facts[j]

\* What is new of a job.
LEMMA NewFacts ==
  ASSUME TypeOK, Wiring, Once, Recorded = Fact, [Next]_vars, NEW j \in Jobs, facts'[j] # facts[j]
  PROVE  \E J \in SUBSET Jobs, f \in Fact :
           Learns(J, f) /\ j \in J /\ facts'[j] = facts[j] \cup {f}
<1>1. PICK J \in SUBSET Jobs, f \in Fact : Learns(J, f)
  BY Learning
<1>2. f \cap Recorded = f \cap Recorded /\ {f} \cap Recorded = {f}
  OBVIOUS
<1> QED BY <1>1, <1>2 DEF Learns, Happened

LEMMA AcceptedIsPosted ==
  ASSUME TypeOK, RequestInv, NEW a \in Agents, NEW type, Receives(a, type)
  PROVE  /\ Posted(Head(toAgent[a]).job)
         /\ type = "cancel" => "cancelAsked" \in facts[Head(toAgent[a]).job]
<1>1. toAgent[a] \in Seq(Request) /\ toAgent[a] # <<>> /\ Head(toAgent[a]).type = type
  BY DEF Receives, TypeOK, NetTypeOK
<1>2. Holds(toAgent[a], Head(toAgent[a]))
  BY <1>1, HoldsLess, Zenon
<1> QED BY <1>1, <1>2 DEF RequestInv, Valid

LEMMA KnownStep ==
  ASSUME TypeOK, Wiring, Once, RequestInv, KnownInv, Recorded = Fact, [Next]_vars
  PROVE  KnownInv'
<1> SUFFICES ASSUME NEW j \in Jobs
             PROVE  /\ facts'[j] # {} => Posted(j)'
                    /\ (\E a \in Agents : Has(a, j)') \/ facts'[j] \cap {"succeeded", "failed", "lost"} # {}
                         => "accepted" \in facts'[j]
  BY DEF KnownInv
<1>1. /\ facts[j] # {} => Posted(j)
      /\ (\E a \in Agents : Has(a, j)) \/ facts[j] \cap {"succeeded", "failed", "lost"} # {}
           => "accepted" \in facts[j]
  BY DEF KnownInv
<1>2. facts[j] \subseteq facts'[j] /\ (Posted(j) => Posted(j)')
  BY Remembering DEF Remembers
<1>3. ASSUME facts'[j] # facts[j]
      PROVE  /\ Posted(j)
             /\ facts'[j] \cap {"succeeded", "failed", "lost"} # {} => "accepted" \in facts'[j]
  <2>1. PICK J \in SUBSET Jobs, f \in Fact :
          Learns(J, f) /\ j \in J /\ facts'[j] = facts[j] \cup {f}
    BY <1>3, NewFacts
  <2>2. CASE f \in {"cancelAsked", "deleteAsked"}
    <3>1. Posted(j)
      BY <2>1, <2>2 DEF Learns, Posted
    <3> QED BY <1>1, <2>1, <2>2, <3>1
  <2>3. CASE f \in {"succeeded", "failed", "lost"}
    <3>1. "accepted" \in facts[j]
      BY <1>1, <2>1, <2>3 DEF Learns
    <3> QED BY <1>1, <2>1, <3>1
  <2>4. CASE f = "accepted"
    <3>1. PICK a \in Agents : acceptJobOffer(a) /\ j = Head(toAgent[a]).job
      BY <2>1, <2>4 DEF Learns
    <3>2. Posted(j)
      BY <3>1, AcceptedIsPosted DEF acceptJobOffer
    <3> QED BY <2>1, <2>4, <3>2
  <2> QED BY <2>2, <2>3, <2>4 DEF Fact
<1>4. ASSUME NEW a \in Agents, Has(a, j)'
      PROVE  "accepted" \in facts'[j]
  <2>1. CASE Has(a, j)
    BY <1>1, <1>2, <2>1
  <2>2. CASE acceptJobOffer(a) /\ j = Head(toAgent[a]).job
    BY <2>2 DEF acceptJobOffer, Happened, Fact
  <2> QED BY <1>4, <2>1, <2>2, GotByAccepting
<1> QED BY <1>1, <1>2, <1>3, <1>4

\* A reason to record status s of job j, and one that it was lost.
Reason(j, s) == facts[j] \cap Promise!Reasons(s) # {}

Lost(j) == "lost" \in facts[j]

\* An end that is reported, or about to be recorded, has happened.
ReasonInv ==
  \A a \in Agents :
    /\ \A j \in Jobs : intr[a][j] > 0 => "cancelAsked" \in facts[j]
    /\ \A m \in InFlight(a) : m.type = "done" => Reason(m.job, m.status)
    /\ handler[a].pc \in {"close", "final"} => Reason(handler[a].job, handler[a].status)

LEMMA ReasonsAre ==
  ASSUME NEW j
  PROVE  /\ Reason(j, "SUCCESS") <=> "succeeded" \in facts[j]
         /\ Reason(j, "ERROR") <=> "failed" \in facts[j] \/ Lost(j)
         /\ Reason(j, "CANCEL") <=> "cancelAsked" \in facts[j]
         /\ Reason(j, "SCHEDULED") <=> "accepted" \in facts[j]
         /\ Reason(j, "DELETE") <=> "deleteAsked" \in facts[j]
BY DEF Reason, Lost, Promise!Reasons

LEMMA FlyingTyped ==
  ASSUME TypeOK, NEW a \in Agents
  PROVE  InFlight(a) \subseteq Answer
<1> SUFFICES ASSUME NEW m \in InFlight(a) PROVE m \in Answer
  OBVIOUS
<1>1. /\ toServer[a] \in Seq(Answer) /\ msgOutCh[a] \in Seq(Answer)
      /\ \A w \in Conns : hand[a][w] \in Seq(Answer)
  BY DEF TypeOK, AgentTypeOK, NetTypeOK
<1>2. \A q \in Seq(Answer) : Holds(q, m) => m \in Answer
  BY DEF Holds
<1> QED BY <1>1, <1>2, InHand

LEMMA ReasonHandler ==
  ASSUME TypeOK, Wiring, ReasonInv, Remembers, facts' = facts,
         \A a \in Agents : \A j \in handler[a].todo : Lost(j),
         NEW a \in Agents, handleConn(a), handler'[a].pc \in {"close", "final"}
  PROVE  Reason(handler'[a].job, handler'[a].status)
<1>1. CASE handleMsgJobDone(a)
  <2>1. Head(toServer[a]) \in InFlight(a) /\ Head(toServer[a]).type = "done"
    BY <1>1, HandlerTakes DEF handleMsgJobDone
  <2>2. /\ handler'[a].job = Head(toServer[a]).job
        /\ handler'[a].status = Head(toServer[a]).status
    BY <1>1, HandlerGoes DEF handleMsgJobDone
  <2> QED BY <2>1, <2>2 DEF ReasonInv
<1>2. CASE CloseLog(a)
  BY <1>2, HandlerGoes DEF CloseLog, At, ReasonInv
<1>3. CASE FailNext(a)
  <2>1. PICK j \in handler[a].todo : GotoDying(a, "close", j, LostStatus, handler[a].todo \ {j})
    BY <1>3 DEF FailNext
  <2>2. handler'[a].job = j /\ handler'[a].status = "ERROR"
    BY <2>1, HandlerDies, ZenonT(30) DEF LostStatus
  <2> QED BY <2>2, ReasonsAre
<1>4. CASE \/ handleMsgJobAccepted(a) \/ registerScheduledJob(a) \/ FinalStatus(a)
           \/ handleMsgJobUpdate(a) \/ ReadError(a) \/ RemoveNode(a)
  <2>1. CASE handleMsgJobAccepted(a) \/ handleMsgJobUpdate(a)
    BY <2>1, HandlerGoes DEF handleMsgJobAccepted, handleMsgJobUpdate, Receive, At
  <2>2. CASE registerScheduledJob(a) \/ FinalStatus(a)
    BY <2>2, HandlerGoes
       DEF registerScheduledJob, OpenLog, RegisterStatus, RegisterAgentName, FinalStatus
  <2>3. CASE ReadError(a)
    <3>1. GotoDying(a, "fail", NoJob, "absent", JobsFromNodeWithStatus(a, "SCHEDULED"))
      BY <2>3 DEF ReadError
    <3>2. handler'[a].pc = "fail"
      BY <3>1, HandlerDies, ZenonT(30)
    <3> QED BY <3>2
  <2>4. CASE RemoveNode(a)
    BY <2>4 DEF RemoveNode, NoHandler, TypeOK, ServerTypeOK
  <2> QED BY <1>4, <2>1, <2>2, <2>3, <2>4
<1> QED BY <1>1, <1>2, <1>3, <1>4, Zenon
        DEF handleConn, deregisterScheduledJob, deregisterNode

\* Only a cancel interrupts.
LEMMA Interrupted ==
  ASSUME TypeOK, [Next]_vars, NEW a \in Agents, NEW j \in Jobs, intr'[a][j] > 0
  PROVE  intr[a][j] > 0 \/ (Receives(a, "cancel") /\ j = Head(toAgent[a]).job)
<1> USE DEF TypeOK, AgentTypeOK
<1>1. ASSUME ~Acts(a) PROVE intr'[a] = intr[a]
  BY <1>1, StepKinds, AgentFrame, HandshakeFrame
     DEF vars, agentVars, AgentInfo, ConnectionLost, ServerLost
<1>2. CASE cancelJob(a)
  <2>1. Head(toAgent[a]).job \in Jobs
    BY <1>2, ReceivesTyped DEF cancelJob
  <2> QED BY <1>2, <2>1 DEF cancelJob
<1>3. ASSUME NEW i \in Jobs, NEW s \in EndStatus, handleJobDone(a, i, s)
      PROVE  intr[a][j] > 0
  <2>1. PICK hit \in {0, 1} : hit <= intr[a][i] /\ intr' = [intr EXCEPT ![a][i] = @ - hit]
    BY <1>3 DEF handleJobDone
  <2>2. intr[a][i] \in Nat
    BY AgentAssumption
  <2> QED BY <2>1, <2>2
<1>4. CASE Crash(a)
  BY <1>4 DEF Crash, Nothing
<1>5. CASE Disconnected(a) \/ rejectJobOffer(a) \/ acceptJobOffer(a)
  BY <1>5 DEF Disconnected, rejectJobOffer, acceptJobOffer
<1>6. ASSUME NEW i \in Jobs, onJobUpdate(a, i) PROVE intr' = intr
  BY <1>6 DEF onJobUpdate
<1>7. ASSUME NEW w \in Conns, Writer(a, w) PROVE intr' = intr
  BY <1>7 DEF Writer, TakeOut, WriteOut
<1> QED BY <1>1, <1>2, <1>3, <1>4, <1>5, <1>6, <1>7 DEF Acts, ConnectionLoop, Runner

LEMMA ReasonStep ==
  ASSUME TypeOK, Wiring, Once, RequestInv, KnownInv, ReasonInv, Recorded = Fact, [Next]_vars,
         \A a \in Agents : \A j \in handler[a].todo : Lost(j)
  PROVE  ReasonInv'
<1>0. Remembers /\ \A j \in Jobs : facts[j] \subseteq facts'[j]
  BY Remembering DEF Remembers
<1>1. \A j \in Jobs, s \in EndStatus : Reason(j, s) => Reason(j, s)'
  BY <1>0 DEF Reason, Promise!Reasons
<1> SUFFICES ASSUME NEW a \in Agents
             PROVE  /\ \A j \in Jobs : intr'[a][j] > 0 => "cancelAsked" \in facts'[j]
                    /\ \A m \in InFlight(a)' : m.type = "done" => Reason(m.job, m.status)'
                    /\ handler'[a].pc \in {"close", "final"}
                         => Reason(handler[a].job, handler[a].status)'
  BY DEF ReasonInv
<1>2. ASSUME NEW j \in Jobs, intr'[a][j] > 0
      PROVE  "cancelAsked" \in facts'[j]
  BY <1>0, <1>2, Interrupted, AcceptedIsPosted DEF ReasonInv
<1>3. ASSUME NEW m \in InFlight(a)', m.type = "done"
      PROVE  Reason(m.job, m.status)'
  <2>1. CASE m \in InFlight(a)
    <3>1. m.job \in Jobs /\ m.status \in EndStatus
      BY <1>3, <2>1, FlyingTyped DEF Answer
    <3> QED BY <1>1, <1>3, <2>1, <3>1 DEF ReasonInv
  <2>2. CASE Sends(a, m)
    <3>1. m.job \in Jobs /\ m.status \in EndStatus /\ handleJobDone(a, m.job, m.status)
      BY <1>3, <2>2 DEF Sends
    <3>2. CASE m.status = "SUCCESS"
      <4>1. Happened({m.job}, "succeeded")
        BY <3>1, <3>2 DEF handleJobDone
      <4>2. "succeeded" \in facts'[m.job]
        BY <3>1, <4>1 DEF Happened, Fact
      <4> QED BY <3>2, <4>2 DEF Reason, Promise!Reasons
    <3>3. CASE m.status = "ERROR"
      <4>1. Happened({m.job}, "failed")
        BY <3>1, <3>3 DEF handleJobDone
      <4>2. "failed" \in facts'[m.job]
        BY <3>1, <4>1 DEF Happened, Fact
      <4> QED BY <3>3, <4>2 DEF Reason, Promise!Reasons
    <3>4. CASE m.status = "CANCEL"
      <4>1. intr[a][m.job] > 0
        <5>1. PICK hit \in {0, 1} : hit <= intr[a][m.job] /\ MayReport("CANCEL", hit)
          BY <3>1, <3>4 DEF handleJobDone
        <5>2. hit = 1 /\ intr[a][m.job] \in Nat
          BY <3>1, <5>1, AgentAssumption DEF MayReport, TypeOK, AgentTypeOK
        <5> QED BY <5>1, <5>2
      <4>2. "cancelAsked" \in facts'[m.job]
        BY <1>0, <3>1, <4>1 DEF ReasonInv
      <4> QED BY <3>4, <4>2 DEF Reason, Promise!Reasons
    <3> QED BY <3>1, <3>2, <3>3, <3>4 DEF EndStatus
  <2> QED BY <1>3, <2>1, <2>2, OnlySent
<1>4. ASSUME NEW j, NEW s, handler'[a].pc \in {"close", "final"},
             j = handler'[a].job, s = handler'[a].status
      PROVE  Reason(j, s)'
  <2>1. CASE handler'[a] \in {handler[a], NoHandler, Reading}
    <3>1. handler'[a] = handler[a]
      BY <1>4, <2>1 DEF NoHandler, Reading
    <3>2. handler[a].job \in Jobs /\ handler[a].status \in EndStatus
      BY <1>4, <3>1, HandlerFields DEF TypeOK, ServerTypeOK
    <3>3. Reason(j, s)
      BY <1>4, <3>1 DEF ReasonInv
    <3> QED BY <1>1, <1>4, <3>1, <3>2, <3>3
  <2>2. ASSUME NEW b \in Agents, handleConn(b), ~(handler'[a] \in {handler[a], NoHandler, Reading})
        PROVE  Reason(j, s)'
    <3>1. a = b /\ facts' = facts
      BY <2>2, HandlerFrame
    <3>2. Reason(j, s)
      BY <1>0, <1>4, <2>2, <3>1, ReasonHandler
    <3> QED BY <3>1, <3>2 DEF Reason, Promise!Reasons
  <2> QED BY <2>1, <2>2, OthersKeepRows
<1>5. ASSUME handler'[a].pc \in {"close", "final"}
      PROVE  Reason(handler[a].job, handler[a].status)'
  <2>1. PICK j, s : j = handler'[a].job /\ s = handler'[a].status
    OBVIOUS
  <2>2. Reason(j, s)'
    BY <1>4, <1>5, <2>1
  <2> QED BY <2>1, <2>2 DEF Reason, Promise!Reasons
<1>6. \A m \in InFlight(a)' : m.type = "done" => Reason(m.job, m.status)'
  BY <1>3
<1> QED BY <1>2, <1>5, <1>6

-----------------------------------------------------------------------------
(* A job recorded at an agent whose connection is broken is lost. *)

\* The handler of agent a serves its connection, and job j is recorded there.
RunsAt(a, j) ==
  /\ handler[a].pc # "none" /\ ~handler[a].dying
  /\ store[j].agent = a /\ store[j].status = "SCHEDULED"

\* The end of such a job is still to be reported, or is being recorded, or it is lost.
Accounted(a, j) ==
  \/ link[a] /\ j \in Unreported(a)
  \/ handler[a].pc \in {"close", "final"} /\ handler[a].job = j
  \/ Lost(j)

Loss(a) ==
  /\ ~link[a] =>
       /\ \A m : Holds(toServer[a], m) /\ m.type = "accepted" => Lost(m.job)
       /\ handler[a].pc \in {"create", "status", "agentName"} => Lost(handler[a].job)
  /\ \A j \in handler[a].todo : Lost(j)
  /\ \A j \in Jobs : RunsAt(a, j) => Accounted(a, j)

LossInv == \A a \in Agents : Loss(a)

\* How to show it of the next state.
LEMMA LossIs ==
  ASSUME NEW a \in Agents,
         ~link'[a] => \A m : Holds(toServer'[a], m) /\ m.type = "accepted" => "lost" \in facts'[m.job],
         ~link'[a] /\ handler'[a].pc \in {"create", "status", "agentName"}
           => "lost" \in facts'[handler'[a].job],
         \A j \in handler'[a].todo : "lost" \in facts'[j],
         \A j \in Jobs :
           /\ handler'[a].pc # "none" /\ ~handler'[a].dying
           /\ store'[j].agent = a /\ store'[j].status = "SCHEDULED"
           => \/ link'[a] /\ j \in Unreported(a)'
              \/ handler'[a].pc \in {"close", "final"} /\ handler'[a].job = j
              \/ "lost" \in facts'[j]
  PROVE  Loss(a)'
<1>1. \A j \in Jobs : RunsAt(a, j)' => Accounted(a, j)'
  BY DEF RunsAt, Accounted, Lost
<1>2. ASSUME ~link'[a], NEW m, Holds(toServer[a], m)', m.type = "accepted"
      PROVE  Lost(m.job)'
  <2>1. Holds(toServer'[a], m)
    BY <1>2 DEF Holds
  <2> QED BY <1>2, <2>1 DEF Lost
<1>3. ~link'[a] /\ handler'[a].pc \in {"create", "status", "agentName"} => Lost(handler[a].job)'
  BY DEF Lost
<1>4. \A j \in handler'[a].todo : Lost(j)'
  BY DEF Lost
<1> QED BY <1>1, <1>2, <1>3, <1>4 DEF Loss

\* What the invariant says, spelled out.
LEMMA LossSays ==
  ASSUME NEW a \in Agents, Loss(a)
  PROVE  /\ ~link[a] => \A m : Holds(toServer[a], m) /\ m.type = "accepted" => "lost" \in facts[m.job]
         /\ ~link[a] /\ handler[a].pc \in {"create", "status", "agentName"}
              => "lost" \in facts[handler[a].job]
         /\ \A j \in handler[a].todo : "lost" \in facts[j]
         /\ \A j \in Jobs : RunsAt(a, j) =>
              \/ link[a] /\ j \in Unreported(a)
              \/ handler[a].pc \in {"close", "final"} /\ handler[a].job = j
              \/ "lost" \in facts[j]
  BY DEF Loss, Lost, Accounted

\* A message read, or a job in hand or still to come, is typed.
LEMMA JobsInHand ==
  ASSUME TypeOK, NEW a \in Agents
  PROVE  /\ \A m : Holds(toServer[a], m) => m.job \in Jobs
         /\ handler[a].pc \in {"create", "status", "agentName", "close", "final"}
              => handler[a].job \in Jobs
         /\ handler[a].pc \in {"close", "final"} => handler[a].status \in EndStatus
         /\ handler[a].todo \subseteq Jobs
<1>1. toServer[a] \in Seq(Answer)
  BY DEF TypeOK, NetTypeOK
<1>2. \A m \in Answer : m.job \in Jobs
  BY DEF Answer
<1> QED BY <1>1, <1>2, HandlerFields DEF Holds, TypeOK, ServerTypeOK

\* A step that does not change the state of the connection of an agent, nor what its
\* handler does, nor what is recorded at it, keeps the invariant.
LEMMA LossSame ==
  ASSUME TypeOK, Remembers, NEW a \in Agents, Loss(a), handler'[a] = handler[a],
         link'[a] = link[a],
         ~link[a] => \A m : Holds(toServer'[a], m) => Holds(toServer[a], m),
         link[a] => Unreported(a) \subseteq Unreported(a)',
         \A j \in Jobs : store'[j].agent = a /\ store'[j].status = "SCHEDULED"
                           => store[j].agent = a /\ store[j].status = "SCHEDULED"
  PROVE  Loss(a)'
<1>1. \A j \in Jobs : facts[j] \subseteq facts'[j]
  BY DEF Remembers
<1>2. ASSUME ~link'[a], NEW m, Holds(toServer'[a], m), m.type = "accepted"
      PROVE  "lost" \in facts'[m.job]
  BY <1>1, <1>2, JobsInHand, LossSays
<1>3. ~link'[a] /\ handler'[a].pc \in {"create", "status", "agentName"}
        => "lost" \in facts'[handler'[a].job]
  BY <1>1, JobsInHand, LossSays
<1>4. \A j \in handler'[a].todo : "lost" \in facts'[j]
  BY <1>1, JobsInHand, LossSays
<1>5. ASSUME NEW j \in Jobs, handler'[a].pc # "none", ~handler'[a].dying,
             store'[j].agent = a, store'[j].status = "SCHEDULED"
      PROVE  \/ link'[a] /\ j \in Unreported(a)'
             \/ handler'[a].pc \in {"close", "final"} /\ handler'[a].job = j
             \/ "lost" \in facts'[j]
  <2>1. RunsAt(a, j)
    BY <1>5 DEF RunsAt
  <2> QED BY <1>1, <2>1, LossSays
<1> QED BY <1>2, <1>3, <1>4, <1>5, LossIs

\* On its first connection, an acceptance on its way is of a job whose end is to come.
LEMMA AcceptedIsUnreported ==
  ASSUME TypeOK, Wiring, Once, ReportInv, NEW a \in Agents, link[a]
  PROVE  /\ \A m : Holds(toServer[a], m) /\ m.type = "accepted" => m.job \in Unreported(a)
         /\ handler[a].pc \in {"create", "status", "agentName"} => handler[a].job \in Unreported(a)
<1>0. epoch[a] <= 1 /\ Followed(Said(a), exec[a])
  BY DEF Once, ReportInv
<1>1. ASSUME NEW m, Holds(toServer[a], m), m.type = "accepted"
      PROVE  m.job \in Unreported(a)
  <2>1. m \in InFlight(a) /\ m.job \in Jobs
    BY <1>1, InHand, JobsInHand
  <2>2. PICK i \in 1 .. Len(Said(a)) : m = Said(a)[i]
    BY <1>0, <2>1, SaidInFlight
  <2>3. Waits(Said(a), exec[a], m.job)
    BY <1>0, <1>1, <2>2 DEF Followed, Waits
  <2> QED BY <1>0, <2>1, <2>3, Reporting
<1> QED BY <1>0, <1>1 DEF ReportInv

\* When a connection breaks, all that is on its way or to come is lost.
LEMMA LossBreaks ==
  ASSUME TypeOK, Wiring, Once, ReportInv, Remembers, Recorded = Fact, NEW a \in Agents, Loss(a),
         link[a], ~link'[a], UNCHANGED <<handler, store>>,
         toServer'[a] \in Delivered(toServer[a]), Happened(Unreported(a), "lost")
  PROVE  Loss(a)'
<1>0. \A j \in Jobs : facts[j] \subseteq facts'[j] /\ (j \in Unreported(a) => "lost" \in facts'[j])
  BY DEF Remembers, Happened, Fact
<1>1. ASSUME NEW m, Holds(toServer'[a], m), m.type = "accepted"
      PROVE  "lost" \in facts'[m.job]
  <2>1. toServer[a] \in Seq(Answer)
    BY DEF TypeOK, NetTypeOK
  <2>2. Holds(toServer[a], m)
    BY <1>1, <2>1, HoldsLess
  <2> QED BY <1>0, <1>1, <2>2, JobsInHand, AcceptedIsUnreported
<1>2. handler'[a].pc \in {"create", "status", "agentName"} => "lost" \in facts'[handler'[a].job]
  BY <1>0, JobsInHand, AcceptedIsUnreported
<1>3. \A j \in handler'[a].todo : "lost" \in facts'[j]
  BY <1>0, JobsInHand, LossSays
<1>4. ASSUME NEW j \in Jobs, handler'[a].pc # "none", ~handler'[a].dying,
             store'[j].agent = a, store'[j].status = "SCHEDULED"
      PROVE  \/ handler'[a].pc \in {"close", "final"} /\ handler'[a].job = j
             \/ "lost" \in facts'[j]
  <2>1. RunsAt(a, j)
    BY <1>4 DEF RunsAt
  <2> QED BY <1>0, <2>1, LossSays
<1> QED BY <1>1, <1>2, <1>3, <1>4, LossIs

\* The handler of the agent keeps it: what it registers is lost when the connection is.
LEMMA LossHandler ==
  ASSUME TypeOK, TypeOK', Wiring, Wiring', Once, ReportInv, NEW a \in Agents, Loss(a),
         handleConn(a), UNCHANGED agentVars
  PROVE  Loss(a)'
<1> USE DEF agentVars
<1>0. /\ UNCHANGED <<link, epoch, facts>> /\ epoch[a] <= 1 /\ handler[a].pc # "none"
      /\ Shaped(handler[a])
  BY HandlerFrame DEF Once, Wiring, DyingInv
<1>1. ASSUME UNCHANGED toServer PROVE Unreported(a)' = Unreported(a)
  BY <1>1, SameQueues
<1> DEFINE
      Rows == \A j \in Jobs : store'[j].agent = a /\ store'[j].status = "SCHEDULED" =>
                \/ store[j].agent = a /\ store[j].status = "SCHEDULED"
                \/ link[a] /\ j \in Unreported(a)
                \/ "lost" \in facts[j]
      Same == handler'[a].todo = handler[a].todo /\ handler'[a].dying = handler[a].dying
      Fewer == \A m : Holds(toServer'[a], m) => Holds(toServer[a], m)
      Registers == ~link[a] /\ handler'[a].pc \in {"create", "status", "agentName"}
                     => "lost" \in facts[handler'[a].job]
      Closing(j) == handler'[a].pc \in {"close", "final"} /\ handler'[a].job = j
      Keeps == \A j \in Unreported(a) : link[a] => j \in Unreported(a)' \/ Closing(j)
      Ends == handler[a].pc \in {"close", "final"} /\ store'[handler[a].job].status = "SCHEDULED"
                => Closing(handler[a].job)
<1>2. ASSUME Rows, Same, Fewer, Registers, Keeps, Ends
      PROVE  Loss(a)'
  <2>1. ASSUME NEW j \in Jobs, handler'[a].pc # "none", ~handler'[a].dying,
               store'[j].agent = a, store'[j].status = "SCHEDULED"
        PROVE  \/ link'[a] /\ j \in Unreported(a)'
               \/ handler'[a].pc \in {"close", "final"} /\ handler'[a].job = j
               \/ "lost" \in facts'[j]
    <3>1. CASE (link[a] /\ j \in Unreported(a)) \/ "lost" \in facts[j]
      BY <1>0, <1>2, <3>1
    <3>2. CASE store[j].agent = a /\ store[j].status = "SCHEDULED"
      <4>1. RunsAt(a, j)
        BY <1>0, <1>2, <2>1, <3>2 DEF RunsAt
      <4>2. \/ link[a] /\ j \in Unreported(a)
            \/ handler[a].pc \in {"close", "final"} /\ handler[a].job = j
            \/ "lost" \in facts[j]
        BY <4>1, LossSays
      <4> QED BY <1>0, <1>2, <2>1, <4>2
    <3> QED BY <1>2, <2>1, <3>1, <3>2
  <2>2. ~link'[a] => \A m : Holds(toServer'[a], m) /\ m.type = "accepted" => "lost" \in facts'[m.job]
    BY <1>0, <1>2, LossSays
  <2>3. \A j \in handler'[a].todo : "lost" \in facts'[j]
    BY <1>0, <1>2, LossSays
  <2> QED BY <1>0, <1>2, <2>1, <2>2, <2>3, LossIs
<1> HIDE DEF Rows, Same, Fewer, Registers, Keeps, Ends
<1>3. ASSUME NEW types, Receive(a, types)
      PROVE  /\ \A m : Holds(toServer'[a], m) => Holds(toServer[a], m)
             /\ Holds(toServer[a], Head(toServer[a])) /\ Head(toServer[a]).type \in types
             /\ \A j \in Unreported(a) :
                  link[a] => \/ j \in Unreported(a)'
                             \/ Head(toServer[a]).type = "done" /\ Head(toServer[a]).job = j
             /\ handler[a].pc = "read"
  <2>1. /\ toServer[a] \in Seq(Answer) /\ toServer[a] # <<>> /\ toServer'[a] = Tail(toServer[a])
        /\ Head(toServer[a]).type \in types /\ handler[a].pc = "read"
    BY <1>3 DEF Receive, At, TypeOK, NetTypeOK
  <2>2. /\ Holds(toServer[a], Head(toServer[a]))
        /\ \A m : Holds(toServer'[a], m) => Holds(toServer[a], m)
    BY <2>1, HoldsLess
  <2>3. link[a] => \A j \in Unreported(a) :
                     ~(Head(toServer[a]).type = "done" /\ Head(toServer[a]).job = j)
                       => j \in Unreported(a)'
    BY <1>0, <1>3, HandlerReads DEF agentVars
  <2> QED BY <2>1, <2>2, <2>3
<1>4. CASE handleMsgJobAccepted(a)
  <2> DEFINE m == Head(toServer[a])
  <2>1. /\ Receive(a, {"accepted", "rejected"}) /\ store' = store
        /\ \/ handler' = handler
           \/ m.type = "accepted" /\ Goto(a, "create", m.job, "absent")
    BY <1>4 DEF handleMsgJobAccepted
  <2>2. /\ \A n : Holds(toServer'[a], n) => Holds(toServer[a], n)
        /\ Holds(toServer[a], m) /\ m.type \in {"accepted", "rejected"} /\ handler[a].pc = "read"
        /\ \A j \in Unreported(a) : link[a] => j \in Unreported(a)'
    BY <1>3, <2>1
  <2>3. /\ handler'[a].todo = handler[a].todo /\ handler'[a].dying = handler[a].dying
        /\ \/ handler'[a].pc = "read"
           \/ handler'[a].pc = "create" /\ m.type = "accepted" /\ handler'[a].job = m.job
    BY <2>1, <2>2, HandlerGoes
  <2>4. ~link[a] /\ m.type = "accepted" => "lost" \in facts[m.job]
    BY <2>2, LossSays
  <2> HIDE DEF m
  <2>5. Rows /\ Same
    BY <2>1, <2>2, <2>3, <2>4 DEF Rows, Same
  <2>6. Fewer /\ Registers
    BY <2>1, <2>2, <2>3, <2>4 DEF Fewer, Registers
  <2>7. Keeps /\ Ends
    BY <2>1, <2>2, <2>3, <2>4 DEF Keeps, Ends
  <2> QED BY <1>2, <2>5, <2>6, <2>7
<1>5. CASE handleMsgJobDone(a) \/ handleMsgJobUpdate(a)
  <2> DEFINE m == Head(toServer[a])
  <2>1. \/ /\ Receive(a, {"done"}) /\ UpdateJobProgress(m.job, 1) /\ Goto(a, "close", m.job, m.status)
        \/ /\ Receive(a, {"update"}) /\ UpdateJobProgress(m.job, 0) /\ handler' = handler
    BY <1>5 DEF handleMsgJobDone, handleMsgJobUpdate
  <2>2. /\ \A n : Holds(toServer'[a], n) => Holds(toServer[a], n)
        /\ m.job \in Jobs /\ handler[a].pc = "read"
        /\ \A j \in Unreported(a) :
             link[a] => j \in Unreported(a)' \/ (m.type = "done" /\ m.job = j)
    BY <1>3, <2>1, JobsInHand
  <2>3. \A j \in Jobs : store'[j].agent = store[j].agent /\ store'[j].status = store[j].status
    BY <2>1, <2>2, RowsAfter
  <2>4. /\ handler'[a].todo = handler[a].todo /\ handler'[a].dying = handler[a].dying
        /\ \/ handler'[a].pc = "read" /\ m.type # "done"
           \/ handler'[a].pc = "close" /\ handler'[a].job = m.job
    BY <1>3, <2>1, <2>2, HandlerGoes
  <2> HIDE DEF m
  <2>5. Rows /\ Same
    BY <2>2, <2>3, <2>4 DEF Rows, Same
  <2>6. Fewer /\ Registers
    BY <2>2, <2>3, <2>4 DEF Fewer, Registers
  <2>7. Keeps /\ Ends
    BY <2>2, <2>3, <2>4 DEF Keeps, Ends
  <2> QED BY <1>2, <2>5, <2>6, <2>7
<1>6. CASE OpenLog(a) \/ CloseLog(a)
  <2>1. /\ UNCHANGED <<store, toServer>>
        /\ handler'[a].todo = handler[a].todo /\ handler'[a].dying = handler[a].dying
        /\ handler'[a].job = handler[a].job
        /\ \/ handler[a].pc = "create" /\ handler'[a].pc = "status"
           \/ handler[a].pc = "close" /\ handler'[a].pc = "final"
    BY <1>6, HandlerGoes DEF OpenLog, CloseLog, At, netVars
  <2>2. ~link[a] /\ handler[a].pc = "create" => "lost" \in facts[handler[a].job]
    BY LossSays
  <2>5. Rows /\ Same
    BY <1>1, <2>1, <2>2 DEF Rows, Same
  <2>6. Fewer /\ Registers
    BY <1>1, <2>1, <2>2 DEF Fewer, Registers
  <2>7. Keeps /\ Ends
    BY <1>1, <2>1, <2>2 DEF Keeps, Ends
  <2> QED BY <1>2, <2>5, <2>6, <2>7
<1>7. CASE RegisterStatus(a) \/ RegisterAgentName(a)
  <2>1. /\ UNCHANGED toServer
        /\ \A j \in Jobs : j # handler[a].job => store'[j] = store[j]
    BY <1>7, JobsInHand, RowsAfter
       DEF RegisterStatus, RegisterAgentName, At, netVars, JobStatus
  <2>2. /\ handler'[a].todo = handler[a].todo /\ handler'[a].dying = handler[a].dying
        /\ handler[a].pc \in {"status", "agentName"}
        /\ handler'[a].pc = "read" \/ (handler'[a].pc = "agentName" /\ handler'[a].job = handler[a].job)
    BY <1>7, HandlerGoes DEF RegisterStatus, RegisterAgentName, At
  <2>3. IF link[a] THEN handler[a].job \in Unreported(a) ELSE "lost" \in facts[handler[a].job]
    BY <2>2, LossSays, AcceptedIsUnreported
  <2>5. Rows /\ Same
    BY <1>1, <2>1, <2>2, <2>3 DEF Rows, Same
  <2>6. Fewer /\ Registers
    BY <1>1, <2>1, <2>2, <2>3 DEF Fewer, Registers
  <2>7. Keeps /\ Ends
    BY <1>1, <2>1, <2>2, <2>3 DEF Keeps, Ends
  <2> QED BY <1>2, <2>5, <2>6, <2>7
<1>8. CASE FinalStatus(a)
  <2>1. /\ UNCHANGED toServer /\ handler[a].pc = "final"
        /\ UpdateJobStatus(handler[a].job, handler[a].status)
    BY <1>8 DEF FinalStatus, At, netVars
  <2>2. /\ store'[handler[a].job].status # "SCHEDULED"
        /\ \A j \in Jobs : j # handler[a].job => store'[j] = store[j]
    BY <2>1, JobsInHand, RowsAfter DEF EndStatus, JobStatus
  <2>3. /\ handler'[a].todo = handler[a].todo /\ handler'[a].dying = handler[a].dying
        /\ handler'[a].pc \in {"read", "fail"}
    BY <1>8, HandlerGoes DEF FinalStatus
  <2>5. Rows /\ Same
    BY <1>1, <2>1, <2>2, <2>3 DEF Rows, Same
  <2>6. Fewer /\ Registers
    BY <1>1, <2>1, <2>2, <2>3 DEF Fewer, Registers
  <2>7. Keeps /\ Ends
    BY <1>1, <2>1, <2>2, <2>3 DEF Keeps, Ends
  <2> QED BY <1>2, <2>5, <2>6, <2>7
<1>9. CASE deregisterNode(a)
  <2>1. toServer' = toServer
    BY <1>9 DEF deregisterNode, ReadError, FailNext, RemoveNode, netVars
  <2>2. CASE ReadError(a)
    <3>1. /\ GotoDying(a, "fail", NoJob, "absent", JobsFromNodeWithStatus(a, "SCHEDULED"))
          /\ handler[a].pc = "read" /\ ~link[a]
      BY <2>2 DEF ReadError, At
    <3>2. /\ handler'[a].pc = "fail" /\ handler'[a].dying = TRUE
          /\ handler'[a].todo = JobsFromNodeWithStatus(a, "SCHEDULED")
      BY <3>1, HandlerDies, ZenonT(30)
    <3>3. \A j \in JobsFromNodeWithStatus(a, "SCHEDULED") : j \in Jobs /\ RunsAt(a, j)
      BY <1>0, <3>1 DEF JobsFromNodeWithStatus, JobsWithStatus, RunsAt, Shaped
    <3>4. \A j \in handler'[a].todo : "lost" \in facts'[j]
      BY <1>0, <3>1, <3>2, <3>3, LossSays
    <3> QED BY <1>0, <2>1, <3>2, <3>4, LossSays, LossIs
  <2>3. CASE FailNext(a)
    <3>1. PICK j \in handler[a].todo : GotoDying(a, "close", j, LostStatus, handler[a].todo \ {j})
      BY <2>3 DEF FailNext
    <3>2. /\ handler'[a].pc = "close" /\ handler'[a].dying = TRUE
          /\ handler'[a].todo = handler[a].todo \ {j}
      BY <3>1, HandlerDies, ZenonT(30)
    <3> QED BY <1>0, <2>1, <3>2, LossSays, LossIs
  <2>4. CASE RemoveNode(a)
    <3>1. handler'[a] = NoHandler
      BY <2>4 DEF RemoveNode, TypeOK, ServerTypeOK
    <3> QED BY <1>0, <2>1, <3>1, LossSays, LossIs DEF NoHandler
  <2> QED BY <1>9, <2>2, <2>3, <2>4 DEF deregisterNode
<1> QED BY <1>4, <1>5, <1>6, <1>7, <1>8, <1>9, Zenon
        DEF handleConn, registerScheduledJob, deregisterScheduledJob

\* A step of an agent after which it has no connection: its process died, or it writes
\* nothing that anybody will read.
LEMMA ActsDown ==
  ASSUME TypeOK, NEW a \in Agents, Acts(a), ~link'[a]
  PROVE  \/ toServer'[a] \in Delivered(toServer[a]) /\ Happened(Unreported(a), "lost")
         \/ ~link[a] /\ toServer'[a] = toServer[a]
<1> USE DEF TypeOK, NetTypeOK, netVars
<1>1. CASE Crash(a)
  BY <1>1 DEF Crash
<1>2. CASE ConnectionLoop(a)
  BY <1>2 DEF ConnectionLoop, Disconnected, rejectJobOffer, acceptJobOffer, cancelJob
<1>3. ASSUME NEW j \in Jobs, Runner(a, j)
      PROVE  ~link[a] /\ toServer'[a] = toServer[a]
  BY <1>3 DEF Runner, onJobUpdate, handleJobDone
<1>4. ASSUME NEW w \in Conns, Writer(a, w)
      PROVE  ~link[a] /\ toServer'[a] = toServer[a]
  BY <1>4 DEF Writer, TakeOut, WriteOut
<1> QED BY <1>1, <1>2, <1>3, <1>4 DEF Acts

LEMMA LossStep ==
  ASSUME TypeOK, TypeOK', Wiring, Wiring', Once, Once', Alone, ReportInv, LossInv,
         Recorded = Fact, [Next]_vars
  PROVE  LossInv'
<1> SUFFICES ASSUME NEW a \in Agents PROVE Loss(a)'
  BY DEF LossInv
<1>0. Remembers /\ Loss(a) /\ epoch[a] <= 1 /\ epoch'[a] <= 1
  BY Remembering DEF LossInv, Once
<1>1. ASSUME exec'[a] = exec[a], hand'[a] = hand[a], msgOutCh'[a] = msgOutCh[a],
             toServer'[a] = toServer[a], handler'[a] = handler[a], link'[a] = link[a],
             \A j \in Jobs : store'[j].agent = a /\ store'[j].status = "SCHEDULED"
                               => store[j].agent = a /\ store[j].status = "SCHEDULED"
      PROVE  Loss(a)'
  BY <1>0, <1>1, SameQueues, LossSame
<1>2. CASE Elsewhere /\ UNCHANGED agentVars
  <2>1. /\ UNCHANGED <<handler, link, toServer, exec, hand, msgOutCh>>
        /\ \A j \in Jobs : /\ store'[j].agent = store[j].agent
                           /\ store'[j].status = "SCHEDULED" => store[j].status = "SCHEDULED"
    BY <1>2, ElsewhereFrame, ElsewhereRows DEF agentVars
  <2> QED BY <1>1, <2>1
<1>3. ASSUME NEW b \in Agents, b # a, handleConn(b), UNCHANGED agentVars
      PROVE  Loss(a)'
  <2>1. /\ handler'[a] = handler[a] /\ toServer'[a] = toServer[a] /\ link' = link
        /\ UNCHANGED <<exec, hand, msgOutCh>>
    BY <1>3, HandlerFrame DEF agentVars
  <2>2. ASSUME NEW j \in Jobs, store'[j].agent = a, store'[j].status = "SCHEDULED"
        PROVE  store[j].agent = a /\ store[j].status = "SCHEDULED"
    <3>1. store[j].agent = a
      BY <1>3, <2>2, HandlerAgent
    <3>2. ~RegisterStatus(b) \/ j # handler[b].job
      BY <1>3, <3>1 DEF Alone, Has
    <3>3. ~(FinalStatus(b) /\ store'[j].status = handler[b].status)
      BY <2>2, JobsInHand DEF FinalStatus, At, EndStatus
    <3> QED BY <1>3, <2>2, <3>1, <3>2, <3>3, HandlerStatus
  <2> QED BY <1>1, <2>1, <2>2
<1>4. CASE handleConn(a) /\ UNCHANGED agentVars
  BY <1>0, <1>4, LossHandler
<1>5. ASSUME NEW b \in Agents, b # a, Acts(b), UNCHANGED serverVars
      PROVE  Loss(a)'
  BY <1>1, <1>5, AgentFrame DEF serverVars
<1>6. CASE Acts(a) /\ UNCHANGED serverVars
  <2>0. UNCHANGED <<handler, store>> /\ toServer[a] \in Seq(Answer)
    BY <1>6 DEF serverVars, TypeOK, NetTypeOK
  <2>1. CASE link'[a]
    BY <1>0, <1>6, <2>0, <2>1, AgentKeeps, LossSame DEF TypeOK, NetTypeOK
  <2>2. CASE ~link'[a]
    <3>1. CASE link[a]
      BY <1>0, <1>6, <2>0, <2>2, <3>1, ActsDown, LossBreaks
    <3>2. CASE ~link[a]
      <4>1. \A m : Holds(toServer'[a], m) => Holds(toServer[a], m)
        BY <1>6, <2>0, <2>2, ActsDown, HoldsLess
      <4> QED BY <1>0, <2>0, <2>2, <3>2, <4>1, LossSame DEF TypeOK, NetTypeOK
    <3> QED BY <3>1, <3>2
  <2> QED BY <2>1, <2>2
<1>7. ASSUME NEW b \in Agents, b # a, Handshake(b)
      PROVE  Loss(a)'
  BY <1>1, <1>7, HandshakeFrame
<1>8. CASE Handshake(a)
  <2>1. epoch[a] = 0
    BY <1>0, <1>8, HandshakeFrame DEF TypeOK, NetTypeOK
  <2>2. \A j \in Jobs : store'[j].agent # a
    BY <1>8, <2>1, HandshakeFrame DEF Wiring, UnknownBefore
  <2>3. handler'[a] = Reading /\ link'[a]
    BY <1>8, HandshakeFrame
  <2> QED BY <2>2, <2>3, LossIs DEF Reading
<1>9. ASSUME NEW b \in Agents, b # a, AgentInfo(b) \/ ConnectionLost(b)
      PROVE  Loss(a)'
  BY <1>1, <1>9
     DEF AgentInfo, ConnectionLost, BreakLink, serverVars, agentVars, netVars, TypeOK, NetTypeOK
<1>10. CASE AgentInfo(a)
  BY <1>1, <1>10 DEF AgentInfo, agentVars, netVars
<1>11. CASE ConnectionLost(a)
  <2>1. /\ link[a] /\ ~link'[a] /\ UNCHANGED <<handler, store>>
        /\ toServer'[a] \in Delivered(toServer[a]) /\ Happened(Unreported(a), "lost")
    BY <1>11 DEF ConnectionLost, BreakLink, serverVars, TypeOK, NetTypeOK
  <2> QED BY <1>0, <2>1, LossBreaks
<1>12. CASE ServerLost
  <2>1. handler'[a] = NoHandler /\ toServer'[a] = <<>>
    BY <1>12 DEF ServerLost, Stop, NilConnPanic, ServerEnds
  <2> QED BY <2>1, LossIs DEF NoHandler, Holds
<1>13. CASE UNCHANGED vars
  BY <1>1, <1>13 DEF vars, serverVars, agentVars, netVars
<1> QED BY <1>2, <1>3, <1>4, <1>5, <1>6, <1>7, <1>8, <1>9, <1>10, <1>11, <1>12, <1>13, StepKinds

-----------------------------------------------------------------------------
(* Together. *)

HistoryInv ==
  TypeOK /\ Wiring /\ ReportInv /\ RequestInv /\ KnownInv /\ ReasonInv /\ LossInv

LEMMA HistoryInit == Init => HistoryInv
<1> SUFFICES ASSUME Init PROVE HistoryInv
  OBVIOUS
<1> USE DEF Init, ServerInit, AgentInit, NetInit
<1>1. TypeOK /\ Wiring /\ ReportInv
  BY TypeInit, WiringInit, ReportInit
<1>2. /\ \A a \in Agents : handler[a] = NoHandler /\ toServer[a] = <<>> /\ toAgent[a] = <<>>
      /\ \A a \in Agents, j \in Jobs : intr[a][j] = 0
      /\ \A j \in Jobs : facts[j] = {}
  BY DEF Nothing
<1>3. ASSUME NEW a \in Agents
      PROVE  \A m : m \notin InFlight(a)
  BY InHand DEF Holds, EmptyHands
<1>4. RequestInv
  BY <1>2 DEF RequestInv, Holds, AskedFor, NoRequest
<1>5. KnownInv
  <2>1. \A a \in Agents, j \in Jobs : ~Has(a, j)
    BY <1>2, <1>3, ProtocolAssumption DEF Has, NoHandler, Nothing
  <2> QED BY <1>2, <2>1 DEF KnownInv
<1>6. ReasonInv
  BY <1>2, <1>3 DEF ReasonInv, NoHandler
<1>7. LossInv
  BY <1>2 DEF LossInv, Loss, RunsAt, NoHandler, Holds
<1> QED BY <1>1, <1>4, <1>5, <1>6, <1>7 DEF HistoryInv

LEMMA HistoryStep ==
  ASSUME HistoryInv, Recorded = Fact, Once, Once', Alone, [Next]_vars
  PROVE  HistoryInv'
<1> USE DEF HistoryInv
<1>1. TypeOK'
  BY TypeStep
<1>2. Wiring' /\ KnownInv'
  BY WiringStep, KnownStep
<1>3. ReportInv' /\ LossInv'
  BY <1>1, <1>2, ReportStep, LossStep
<1>4. RequestInv'
  BY <1>1, RequestsStep DEF KnownInv
<1>5. ReasonInv'
  BY ReasonStep DEF LossInv, Loss
<1> QED BY <1>1, <1>2, <1>3, <1>4, <1>5

-----------------------------------------------------------------------------
(* The promise is kept. *)

LEMMA PromiseInit == Init => Promise!Init
  BY DEF Init, ServerInit, NetInit, Promise!Init

\* A status written is what the clients read.
LEMMA TableAfter ==
  ASSUME TypeOK, NEW j \in Jobs, NEW s \in JobStatus, UpdateJobStatus(j, s)
  PROVE  [i \in Jobs |-> store'[i].status]
           = [[i \in Jobs |-> store[i].status] EXCEPT ![j] = s]
<1>1. store'[j].status = s /\ \A i \in Jobs : i # j => store'[i] = store[i]
  BY RowsAfter
<1> QED BY <1>1

LEMMA Recording ==
  ASSUME TypeOK, NEW j \in Jobs, NEW s \in {"SCHEDULED", "SUCCESS", "ERROR", "CANCEL", "DELETE"},
         UpdateJobStatus(j, s), UNCHANGED facts, Posted(j), Reason(j, s)
  PROVE  Promise!Record(j, s)
<1>1. s \in JobStatus
  BY DEF JobStatus
<1>2. [i \in Jobs |-> store'[i].status] = [[i \in Jobs |-> store[i].status] EXCEPT ![j] = s]
  BY <1>1, TableAfter
<1> QED BY <1>2 DEF Promise!Record, Posted, Reason

\* What happens to a job was possible.
LEMMA Happening ==
  ASSUME TypeOK, RequestInv, KnownInv, Recorded = Fact,
         NEW J \in SUBSET Jobs, NEW f \in Fact, Learns(J, f)
  PROVE  Promise!Happens(J, f)
<1>1. /\ store' = store
      /\ facts' = [j \in Jobs |-> IF j \in J THEN facts[j] \cup {f} ELSE facts[j]]
  BY DEF Learns, Happened
<1>2. ASSUME NEW j \in J
      PROVE  /\ store[j].status # "absent"
             /\ f \in {"succeeded", "failed", "lost"} => "accepted" \in facts[j]
  <2>1. CASE f \in {"cancelAsked", "deleteAsked"}
    BY <2>1 DEF Learns
  <2>2. CASE f = "accepted"
    <3>1. PICK a \in Agents : acceptJobOffer(a) /\ J = {Head(toAgent[a]).job}
      BY <2>2 DEF Learns
    <3>2. Receives(a, "offer")
      BY <3>1 DEF acceptJobOffer
    <3> QED BY <2>2, <3>1, <3>2, AcceptedIsPosted DEF Posted
  <2>3. CASE f \in {"succeeded", "failed", "lost"}
    <3>1. "accepted" \in facts[j]
      BY <2>3 DEF Learns, KnownInv
    <3> QED BY <3>1 DEF KnownInv, Posted
  <2> QED BY <2>1, <2>2, <2>3 DEF Fact
<1> QED BY <1>1, <1>2 DEF Promise!Happens, Promise!Possible

LEMMA PromiseStep ==
  ASSUME HistoryInv, Once, Recorded = Fact, [Next]_vars
  PROVE  Promise!Next \/ UNCHANGED Promise!vars
<1> USE DEF HistoryInv
<1>1. ASSUME NEW J \in SUBSET Jobs, NEW f \in Fact, Learns(J, f)
      PROVE  Promise!Next
  <2>1. Promise!Happens(J, f)
    BY <1>1, Happening
  <2> QED BY <2>1 DEF Promise!Next, Fact
<1>2. ASSUME NEW j \in Jobs, NEW s \in {"SCHEDULED", "SUCCESS", "ERROR", "CANCEL", "DELETE"},
             UpdateJobStatus(j, s), UNCHANGED facts, "accepted" \in facts[j] \/ facts[j] # {},
             Reason(j, s)
      PROVE  Promise!Next
  <2>1. Promise!Record(j, s)
    BY <1>2, Recording DEF KnownInv
  <2> QED BY <2>1 DEF Promise!Next
<1>3. ASSUME UNCHANGED facts, \A j \in Jobs : store'[j].status = store[j].status
      PROVE  UNCHANGED Promise!vars
  BY <1>3 DEF Promise!vars
<1>4. CASE Elsewhere /\ UNCHANGED facts
  <2>1. ASSUME NEW j \in Jobs, postJob(j)
        PROVE  Promise!Next
    <3>1. /\ store[j].status = "absent"
          /\ store' = [store EXCEPT ![j].status = "WAITING"]
      BY <2>1 DEF postJob
    <3>2. UpdateJobStatus(j, "WAITING") /\ "WAITING" \in JobStatus
      BY <3>1 DEF UpdateJobStatus, JobStatus
    <3>3. Promise!Submit(j)
      BY <1>4, <3>1, <3>2, TableAfter DEF Promise!Submit
    <3> QED BY <3>3 DEF Promise!Next
  <2>2. ASSUME NEW u \in Users, CancelWaiting(u) \/ DeleteStatus(u)
        PROVE  Promise!Next
    <3>1. PICK s \in {"CANCEL", "DELETE"} :
            /\ UpdateJobStatus(requests[u].job, s)
            /\ requests[u].op = IF s = "CANCEL" THEN "cancel" ELSE "delete"
      BY <2>2 DEF CancelWaiting, DeleteStatus
    <3>2. requests[u].job \in Jobs
      BY <3>1 DEF TypeOK, ServerTypeOK, APIRequest, NoRequest
    <3>3. Reason(requests[u].job, s)
      BY <3>1, ReasonsAre DEF RequestInv, AskedFor
    <3> QED BY <1>2, <1>4, <3>1, <3>2, <3>3 DEF Reason
  <2>3. \/ \E j \in Jobs : postJob(j)
        \/ \E u \in Users : CancelWaiting(u) \/ DeleteStatus(u)
        \/ UNCHANGED store
    BY <1>4
       DEF Elsewhere, patchJob, deleteJob, ReadRequest, CancelJob, CancelScheduled,
           sendCancelRequest, ReadWaiting, distribute, Unicast, Send, Restart
  <2> QED BY <1>3, <1>4, <2>1, <2>2, <2>3
<1>5. ASSUME NEW a \in Agents, handleConn(a), UNCHANGED facts
      PROVE  Promise!Next \/ UNCHANGED Promise!vars
  <2>1. CASE RegisterStatus(a)
    <3>1. handler[a].job \in Jobs /\ UpdateJobStatus(handler[a].job, "SCHEDULED")
      BY <2>1, JobsInHand DEF RegisterStatus, At
    <3>2. "accepted" \in facts[handler[a].job]
      BY <3>1 DEF KnownInv, Has
    <3> QED BY <1>2, <1>5, <3>1, <3>2, ReasonsAre
  <2>2. CASE FinalStatus(a)
    <3>1. /\ handler[a].job \in Jobs /\ handler[a].status \in EndStatus
          /\ UpdateJobStatus(handler[a].job, handler[a].status)
          /\ Reason(handler[a].job, handler[a].status)
      BY <2>2, JobsInHand DEF FinalStatus, At, ReasonInv
    <3> QED BY <1>2, <1>5, <3>1 DEF EndStatus, Reason
  <2>3. CASE ~RegisterStatus(a) /\ ~FinalStatus(a)
    BY <1>3, <1>5, <2>3, HandlerStatus
  <2> QED BY <2>1, <2>2, <2>3
<1>6. ASSUME UNCHANGED <<store, facts>>
      PROVE  UNCHANGED Promise!vars
  BY <1>3, <1>6
<1>7. ASSUME NEW a \in Agents, AgentInfo(a) \/ ConnectionLost(a)
      PROVE  UNCHANGED store
  BY <1>7 DEF AgentInfo, ConnectionLost, serverVars
<1>8. ServerLost => UNCHANGED store
  BY DEF ServerLost, Stop, NilConnPanic, ServerEnds
<1>9. CASE UNCHANGED facts
  BY <1>4, <1>5, <1>6, <1>7, <1>8, <1>9, StepKinds, HandshakeFrame DEF vars, serverVars
<1> QED BY <1>1, <1>9, Learning

\* Truthful: until an agent connects a second time, what is recorded of jobs that no two
\* agents have to do with is never invented, whatever connections break and whether or
\* not the server stops (server/tcp.go:69-85, 155-218).
THEOREM PromiseKept == Recorded = Fact => (Spec /\ []Once /\ []Alone => Truthful)
<1> SUFFICES ASSUME Recorded = Fact PROVE Spec /\ []Once /\ []Alone => Truthful
  OBVIOUS
<1>1. HistoryInv /\ Once /\ Once' /\ Alone /\ [Next]_vars => HistoryInv'
  BY HistoryStep
<1>2. HistoryInv /\ Once /\ [Next]_vars => [Promise!Next]_(Promise!vars)
  BY PromiseStep
<1> QED BY <1>1, <1>2, HistoryInit, PromiseInit, PTL DEF Spec, Truthful, Promise!Spec

\* Truthful again, for jobs each of which asks for a tag that only one agent has.
COROLLARY PinnedPromiseKept ==
  Recorded = Fact /\ Pinned => (Spec /\ []Once => Truthful)
<1> SUFFICES ASSUME Recorded = Fact, Pinned PROVE Spec /\ []Once => Truthful
  OBVIOUS
<1>1. Spec => []Alone
  BY PinnedJobsAreAlone
<1>2. Spec /\ []Once /\ []Alone => Truthful
  BY PromiseKept
<1> QED BY <1>1, <1>2, PTL

=============================================================================
