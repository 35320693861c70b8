------------------------- MODULE RegistrationProofs -------------------------
(***************************************************************************)
(* Theorems about Registration, for any number of agents, names and        *)
(* connections and any number of failures.                                 *)
(***************************************************************************)
EXTENDS Registration, SequenceTheorems, TLAPS

\* A message written is one more of its type, or nothing.
LEMMA WriteTyped ==
  ASSUME NEW T, NEW c \in Conns, NEW msg \in T,
         toServer \in [Conns -> Seq(T)], Write(toServer, c, msg)
  PROVE  toServer' \in [Conns -> Seq(T)]
BY DEF Write

LEMMA AnswerTyped ==
  ASSUME NEW T, NEW c \in Conns, NEW msg \in T,
         toClient \in [Conns -> Seq(T)], Write(toClient, c, msg)
  PROVE  toClient' \in [Conns -> Seq(T)]
BY DEF Write

\* An agent that is not idle has a connection, and the connection an agent has is its
\* own: nobody dials one that is in use.
ConnInv ==
  \A p \in Clients :
    /\ client[p] # "idle" => conn[p] # NoConn
    /\ conn[p] # NoConn => owner[conn[p]] = p

IInv == TypeOK /\ ConnInv

LEMMA InitIInv == Init => IInv
BY RegistrationAssumption DEF Init, IInv, TypeOK, ConnInv, Serving

LEMMA Chosen ==
  ASSUME \E c \in Conns : Unused(c)
  PROVE  LET c == CHOOSE d \in Conns : Unused(d) IN c \in Conns /\ Unused(c)
OBVIOUS

-----------------------------------------------------------------------------

LEMMA DialStep ==
  ASSUME IInv, NEW p \in Clients, Dial(p)
  PROVE  IInv'
<1> DEFINE c == CHOOSE d \in Conns : Unused(d)
<1>1. c \in Conns /\ Unused(c)
  BY Chosen DEF Dial
<1>2. conn' = [q \in Clients |-> CASE q = p -> c
                                   [] q # p /\ conn[q] = c -> NoConn
                                   [] OTHER -> conn[q]]
  BY DEF Dial
<1>3. /\ owner' = [owner EXCEPT ![c] = p]
      /\ up' = [up EXCEPT ![c] = TRUE]
      /\ toServer' = [toServer EXCEPT ![c] = <<>>]
      /\ toClient' = [toClient EXCEPT ![c] = <<>>]
      /\ handler' = [handler EXCEPT ![c] = "start"]
      /\ client' = [client EXCEPT ![p] = "dialed"]
      /\ UNCHANGED <<joined, nodes, server, failures>>
  BY DEF Dial
<1> HIDE DEF c
<1>4. TypeOK'
  BY <1>1, <1>2, <1>3 DEF IInv, TypeOK
<1>5. ConnInv'
  <2> SUFFICES ASSUME NEW q \in Clients
               PROVE  /\ client'[q] # "idle" => conn'[q] # NoConn
                      /\ conn'[q] # NoConn => owner'[conn'[q]] = q
    BY DEF ConnInv
  <2>1. CASE q = p
    BY <1>1, <1>2, <1>3, <2>1, RegistrationAssumption DEF IInv, TypeOK
  <2>2. CASE q # p
    BY <1>1, <1>2, <1>3, <2>2 DEF IInv, TypeOK, ConnInv, Unused
  <2> QED BY <2>1, <2>2
<1> QED BY <1>4, <1>5 DEF IInv

LEMMA AgentStep ==
  ASSUME IInv, NEW p \in Clients,
         \/ SendHandshake(p) \/ WriteJobMessage(p) \/ ReadAnswer(p) \/ Disconnected(p)
         \/ Crash(p)
  PROVE  IInv'
<1> USE RegistrationAssumption DEF IInv
<1>0. client[p] # "idle" => conn[p] \in Conns
  BY DEF TypeOK, ConnInv
<1>1. CASE SendHandshake(p)
  <2>1. toServer' \in [Conns -> Seq({"handshake", "job"})]
    BY <1>0, <1>1, WriteTyped DEF SendHandshake, TypeOK
  <2> QED BY <1>1, <2>1 DEF SendHandshake, TypeOK, ConnInv, serverVars
<1>2. CASE WriteJobMessage(p)
  <2>1. toServer' \in [Conns -> Seq({"handshake", "job"})]
    BY <1>0, <1>2, WriteTyped DEF WriteJobMessage, TypeOK
  <2> QED BY <1>2, <2>1 DEF WriteJobMessage, TypeOK, ConnInv, serverVars, clientVars
<1>3. CASE ReadAnswer(p)
  <2>1. toClient' \in [Conns -> Seq({"accepted", "refused", "request"})]
    BY <1>0, <1>3 DEF ReadAnswer, TypeOK
  <2>2. CASE Head(toClient[conn[p]]) = "accepted"
    BY <1>3, <2>1, <2>2 DEF ReadAnswer, TypeOK, ConnInv, serverVars
  <2>3. CASE Head(toClient[conn[p]]) # "accepted"
    BY <1>3, <2>1, <2>3 DEF ReadAnswer, TypeOK, ConnInv, serverVars
  <2> QED BY <2>2, <2>3
<1>4. CASE Disconnected(p)
  BY <1>4 DEF Disconnected, TypeOK, ConnInv, serverVars
<1>5. CASE Crash(p)
  BY <1>5 DEF Crash, Fail, TypeOK, ConnInv, serverVars
<1> QED BY <1>1, <1>2, <1>3, <1>4, <1>5

LEMMA ConnStep ==
  ASSUME IInv, NEW c \in Conns, Finalize(c) \/ ConnectionLost(c)
  PROVE  IInv'
<1>1. CASE Finalize(c)
  BY <1>1 DEF Finalize, Close, IInv, TypeOK, ConnInv, clientVars, serverVars
<1>2. CASE ConnectionLost(c)
  BY <1>2, RegistrationAssumption
     DEF ConnectionLost, Fail, Close, IInv, TypeOK, ConnInv, clientVars, serverVars
<1> QED BY <1>1, <1>2

LEMMA HandlerStep ==
  ASSUME IInv, NEW c \in Conns, handleConn(c)
  PROVE  IInv'
<1> USE DEF IInv, Goto, clientVars, Serving
<1>0. UNCHANGED clientVars
  BY DEF handleConn, handshakeStart, RefuseNobody, Die, NoHandshake, Refuse,
         registerNode, handshakeEnd, ReadError, RemoveNode
<1>1. ConnInv'
  BY <1>0 DEF ConnInv
<1>2. Name(c) \in Names
  BY RegistrationAssumption DEF Name, TypeOK
<1>3. CASE handshakeStart(c)
  BY <1>1, <1>3 DEF handshakeStart, Shakes, TypeOK
<1>4. CASE RefuseNobody(c)
  BY <1>1, <1>4 DEF RefuseNobody, Die, TypeOK
<1>5. CASE NoHandshake(c)
  BY <1>1, <1>5 DEF NoHandshake, TypeOK
<1>6. CASE Refuse(c)
  <2>1. toClient' \in [Conns -> Seq({"accepted", "refused", "request"})]
    BY <1>6, AnswerTyped DEF Refuse, TypeOK
  <2>2. /\ up' = [up EXCEPT ![c] = FALSE]
        /\ handler' = [handler EXCEPT ![c] = "none"]
        /\ toServer' = [toServer EXCEPT ![c] = <<>>]
        /\ UNCHANGED <<client, conn, joined, owner, nodes, server, failures>>
    BY <1>6 DEF Refuse, End, Close
  <2> QED BY <1>1, <2>1, <2>2 DEF TypeOK
<1>7. CASE registerNode(c)
  BY <1>1, <1>2, <1>7 DEF registerNode, TypeOK
<1>8. CASE handshakeEnd(c)
  <2>1. toClient' \in [Conns -> Seq({"accepted", "refused", "request"})]
    BY <1>8, AnswerTyped DEF handshakeEnd, TypeOK
  <2> QED BY <1>1, <1>8, <2>1 DEF handshakeEnd, TypeOK
<1>9. CASE ReadError(c)
  BY <1>1, <1>9 DEF ReadError, TypeOK
<1>10. CASE RemoveNode(c)
  BY <1>1, <1>2, <1>10 DEF RemoveNode, End, Close, TypeOK
<1> QED BY <1>3, <1>4, <1>5, <1>6, <1>7, <1>8, <1>9, <1>10 DEF handleConn

LEMMA OtherStep ==
  ASSUME IInv, Restart \/ \E n \in Names : agentInfoLoop(n)
  PROVE  IInv'
<1> USE DEF IInv
<1>1. CASE Restart
  BY <1>1 DEF Restart, TypeOK, ConnInv, clientVars
<1>2. ASSUME NEW n \in Names, agentInfoLoop(n)
      PROVE  IInv'
  <2>1. nodes[n] \in Conns
    BY <1>2 DEF agentInfoLoop, TypeOK
  <2>2. toClient' \in [Conns -> Seq({"accepted", "refused", "request"})]
    BY <1>2, <2>1, AnswerTyped DEF agentInfoLoop, TypeOK
  <2> QED BY <1>2, <2>2 DEF agentInfoLoop, TypeOK, ConnInv, clientVars, serverVars
<1> QED BY <1>1, <1>2

LEMMA IInvStep == IInv /\ [Next]_vars => IInv'
<1> SUFFICES ASSUME IInv, [Next]_vars
             PROVE  IInv'
  OBVIOUS
<1>1. CASE UNCHANGED vars
  BY <1>1 DEF vars, clientVars, serverVars, IInv, TypeOK, ConnInv
<1>2. CASE Next
  BY <1>2, DialStep, AgentStep, ConnStep, HandlerStep, OtherStep DEF Next, Agent
<1> QED BY <1>1, <1>2

\* Every variable keeps its type (the types of the maps of handleConn and connect).
THEOREM TypeCorrect == Spec => []TypeOK
<1>1. IInv => TypeOK
  BY DEF IInv
<1> QED BY <1>1, InitIInv, IInvStep, PTL DEF Spec

-----------------------------------------------------------------------------

\* EntryHasHandler, without the operators whose primes the provers would have to expand.
LEMMA EntryMeans ==
  EntryHasHandler <=>
    \A n \in Names : nodes[n] # NoConn =>
      handler[nodes[n]] \in Serving /\ NameOf[owner[nodes[n]]] = n
BY DEF EntryHasHandler, Registered, Name

LEMMA EntryMeansNext ==
  EntryHasHandler' <=>
    \A n \in Names : nodes'[n] # NoConn =>
      handler'[nodes'[n]] \in Serving /\ NameOf[owner'[nodes'[n]]] = n
BY DEF EntryHasHandler, Registered, Name, Serving

LEMMA EntryStep == IInv /\ EntryHasHandler /\ [Next]_vars => EntryHasHandler'
<1> SUFFICES ASSUME IInv, EntryHasHandler, [Next]_vars,
                    NEW n \in Names, nodes'[n] # NoConn
             PROVE  handler'[nodes'[n]] \in Serving /\ NameOf[owner'[nodes'[n]]] = n
  BY EntryMeansNext
<1> DEFINE Kept == handler'[nodes'[n]] \in Serving /\ NameOf[owner'[nodes'[n]]] = n
<1>a. /\ owner \in [Conns -> Clients]
      /\ nodes \in [Names -> Conns \cup {NoConn}]
      /\ handler \in [Conns -> {"none", "start", "register", "welcome", "read", "lost"}]
  BY DEF IInv, TypeOK, Serving
<1>b. nodes[n] # NoConn => handler[nodes[n]] \in Serving /\ NameOf[owner[nodes[n]]] = n
  BY EntryMeans
<1>1. ASSUME UNCHANGED <<owner, handler, nodes>>
      PROVE  Kept
  BY <1>b, <1>1
<1>2. CASE UNCHANGED vars
  BY <1>1, <1>2 DEF vars, clientVars, serverVars
<1>3. ASSUME NEW p \in Clients, Dial(p)
      PROVE  Kept
  <2> DEFINE c == CHOOSE d \in Conns : Unused(d)
  <2>1. c \in Conns /\ Unused(c)
    BY <1>3, Chosen DEF Dial
  <2>2. /\ owner' = [owner EXCEPT ![c] = p]
        /\ handler' = [handler EXCEPT ![c] = "start"]
        /\ nodes' = nodes
    BY <1>3 DEF Dial
  <2> HIDE DEF c
  <2>3. nodes[n] \in Conns /\ nodes[n] # c
    BY <1>a, <1>b, <2>1, <2>2 DEF Unused, Serving
  <2> QED BY <1>a, <1>b, <2>1, <2>2, <2>3
<1>4. ASSUME NEW p \in Clients,
             \/ SendHandshake(p) \/ WriteJobMessage(p) \/ ReadAnswer(p)
             \/ Disconnected(p) \/ Crash(p)
      PROVE  Kept
  BY <1>1, <1>4 DEF SendHandshake, WriteJobMessage, ReadAnswer, Disconnected, Crash,
                    clientVars, serverVars
<1>5. ASSUME NEW c \in Conns, Finalize(c) \/ ConnectionLost(c)
      PROVE  Kept
  BY <1>1, <1>5 DEF Finalize, ConnectionLost, clientVars, serverVars
<1>6. ASSUME NEW m \in Names, agentInfoLoop(m)
      PROVE  Kept
  BY <1>1, <1>6 DEF agentInfoLoop, clientVars, serverVars
<1>7. CASE Restart
  BY <1>1, <1>7 DEF Restart, clientVars
<1>8. ASSUME NEW c \in Conns, handleConn(c)
      PROVE  Kept
  <2>0. owner' = owner /\ NameOf[owner[c]] \in Names
    BY <1>a, <1>8, RegistrationAssumption
       DEF handleConn, handshakeStart, RefuseNobody, Die, NoHandshake, Refuse,
           registerNode, handshakeEnd, ReadError, RemoveNode, clientVars
  <2>1. ASSUME nodes'[n] = nodes[n], nodes[n] # c,
               NEW pc, handler' = [handler EXCEPT ![c] = pc]
        PROVE  Kept
    BY <1>a, <1>b, <2>0, <2>1
  <2>2. CASE handshakeStart(c)
    BY <1>b, <2>1, <2>2 DEF handshakeStart, Shakes, Goto, Serving
  <2>3. CASE NoHandshake(c)
    BY <1>b, <2>1, <2>3 DEF NoHandshake, Goto, Serving
  <2>4. CASE Refuse(c)
    BY <1>b, <2>1, <2>4 DEF Refuse, Shakes, End, Goto, Serving
  <2>5. CASE RefuseNobody(c)
    BY <2>5 DEF RefuseNobody, Die
  <2>6. CASE registerNode(c)
    <3>1. /\ handler[c] = "register"
          /\ nodes' = [nodes EXCEPT ![NameOf[owner[c]]] = c]
          /\ handler' = [handler EXCEPT ![c] = "welcome"]
      BY <2>6 DEF registerNode, Goto, Name
    <3>2. CASE n = NameOf[owner[c]]
      BY <1>a, <2>0, <3>1, <3>2 DEF Serving
    <3>3. CASE n # NameOf[owner[c]]
      <4>1. nodes'[n] = nodes[n] /\ nodes[n] # c
        BY <1>a, <1>b, <2>0, <3>1, <3>3
      <4> QED BY <2>1, <3>1, <4>1
    <3> QED BY <3>2, <3>3
  <2>7. CASE handshakeEnd(c)
    BY <1>a, <1>b, <2>0, <2>7 DEF handshakeEnd, Goto, Serving
  <2>8. CASE ReadError(c)
    <3>1. /\ nodes' = nodes
          /\ handler' = [handler EXCEPT
                ![c] = IF nodes[NameOf[owner[c]]] = NoConn THEN "none" ELSE "lost"]
      BY <2>8 DEF ReadError, Goto, Name
    <3>2. CASE nodes[n] # c
      BY <2>1, <3>1, <3>2
    <3>3. CASE nodes[n] = c
      BY <1>a, <1>b, <2>0, <3>1, <3>3 DEF Serving
    <3> QED BY <3>2, <3>3
  <2>9. CASE RemoveNode(c)
    <3>1. /\ nodes' = [nodes EXCEPT ![NameOf[owner[c]]] = NoConn]
          /\ handler' = [handler EXCEPT ![c] = "none"]
      BY <2>9 DEF RemoveNode, End, Goto, Name
    <3>2. n # NameOf[owner[c]]
      BY <1>a, <3>1
    <3>3. nodes'[n] = nodes[n] /\ nodes[n] # c
      BY <1>a, <1>b, <3>1, <3>2
    <3> QED BY <2>1, <3>1, <3>3
  <2> QED BY <1>8, <2>2, <2>3, <2>4, <2>5, <2>6, <2>7, <2>8, <2>9 DEF handleConn
<1> QED BY <1>2, <1>3, <1>4, <1>5, <1>6, <1>7, <1>8 DEF Next, Agent

\* A node in the map of the server has a handler that takes it out again, whatever the
\* handlers of its name do between the test and the entry of registerNode.
THEOREM EntriesHaveHandlers == Spec => []EntryHasHandler
<1>1. Init => EntryHasHandler
  BY DEF Init, EntryHasHandler, Registered
<1> QED BY <1>1, InitIInv, IInvStep, EntryStep, PTL DEF Spec

-----------------------------------------------------------------------------

\* What a write leaves of the first message.
LEMMA HeadKept ==
  ASSUME NEW c \in Conns, NEW d \in Conns, NEW msg \in {"handshake", "job"},
         toServer \in [Conns -> Seq({"handshake", "job"})],
         Write(toServer, d, msg), toServer'[c] # <<>>
  PROVE  \/ toServer[c] # <<>> /\ Head(toServer'[c]) = Head(toServer[c])
         \/ c = d /\ Head(toServer'[c]) = msg
<1>1. CASE UNCHANGED toServer
  BY <1>1
<1>2. CASE toServer' = [toServer EXCEPT ![d] = Append(@, msg)]
  <2>1. CASE c # d
    BY <1>2, <2>1
  <2>2. CASE c = d /\ toServer[c] = <<>>
    BY <1>2, <2>2
  <2>3. CASE c = d /\ toServer[c] # <<>>
    BY <1>2, <2>3
  <2> QED BY <2>1, <2>2, <2>3
<1> QED BY <1>1, <1>2 DEF Write

LEMMA FirstStep == IInv /\ FirstConnectionIsSafe /\ [Next]_vars => FirstConnectionIsSafe'
<1> SUFFICES ASSUME IInv, FirstConnectionIsSafe, [Next]_vars, NEW c \in Conns,
                    handler'[c] = "start", conn'[owner'[c]] = c, toServer'[c] # <<>>
             PROVE  joined'[owner'[c]] \/ Head(toServer'[c]) = "handshake"
  BY DEF FirstConnectionIsSafe
<1> USE DEF IInv, TypeOK
<1> DEFINE Safe == joined'[owner'[c]] \/ Head(toServer'[c]) = "handshake"
<1>0. owner[c] \in Clients
  OBVIOUS
<1>1. ASSUME UNCHANGED <<conn, owner, joined, toServer>>, handler[c] = "start"
      PROVE  Safe
  BY <1>1 DEF FirstConnectionIsSafe
<1>2. CASE UNCHANGED vars
  BY <1>1, <1>2 DEF vars, clientVars, serverVars
<1>3. ASSUME NEW p \in Clients, Dial(p)
      PROVE  Safe
  <2> DEFINE d == CHOOSE e \in Conns : Unused(e)
  <2>1. d \in Conns /\ Unused(d)
    BY <1>3, Chosen DEF Dial
  <2>2. /\ owner' = [owner EXCEPT ![d] = p]
        /\ handler' = [handler EXCEPT ![d] = "start"]
        /\ toServer' = [toServer EXCEPT ![d] = <<>>]
        /\ joined' = joined
    BY <1>3 DEF Dial
  <2>3. conn' = [q \in Clients |-> CASE q = p -> d
                                     [] q # p /\ conn[q] = d -> NoConn
                                     [] OTHER -> conn[q]]
    BY <1>3 DEF Dial
  <2> HIDE DEF d
  <2>4. c # d
    BY <2>1, <2>2
  <2>5. conn[owner[c]] = c
    BY <1>0, <2>1, <2>2, <2>3, <2>4, RegistrationAssumption
  <2> QED BY <2>2, <2>4, <2>5 DEF FirstConnectionIsSafe
<1>4. ASSUME NEW p \in Clients, SendHandshake(p)
      PROVE  Safe
  <2>1. conn[p] \in Conns
    BY <1>4 DEF SendHandshake, ConnInv
  <2> QED BY <1>4, <2>1, HeadKept DEF SendHandshake, serverVars, FirstConnectionIsSafe
<1>5. ASSUME NEW p \in Clients, WriteJobMessage(p)
      PROVE  Safe
  <2>1. conn[p] \in Conns /\ owner[conn[p]] = p
    BY <1>5 DEF WriteJobMessage, ConnInv
  <2> QED BY <1>5, <2>1, HeadKept
          DEF WriteJobMessage, HasWriter, clientVars, serverVars, FirstConnectionIsSafe
<1>6. ASSUME NEW p \in Clients, ReadAnswer(p)
      PROVE  Safe
  BY <1>0, <1>6 DEF ReadAnswer, serverVars, FirstConnectionIsSafe
<1>7. ASSUME NEW p \in Clients, Disconnected(p)
      PROVE  Safe
  BY <1>1, <1>7 DEF Disconnected, serverVars
<1>8. ASSUME NEW p \in Clients, Crash(p)
      PROVE  Safe
  <2>1. owner[c] # p
    BY <1>8, RegistrationAssumption DEF Crash
  <2> QED BY <1>0, <1>8, <2>1 DEF Crash, serverVars, FirstConnectionIsSafe
<1>9. ASSUME NEW d \in Conns, Finalize(d) \/ ConnectionLost(d)
      PROVE  Safe
  BY <1>1, <1>9 DEF Finalize, ConnectionLost, clientVars, serverVars
<1>10. ASSUME NEW m \in Names, agentInfoLoop(m)
       PROVE  Safe
  BY <1>1, <1>10 DEF agentInfoLoop, clientVars, serverVars
<1>11. CASE Restart
  BY <1>1, <1>11 DEF Restart, clientVars
<1>12. ASSUME NEW d \in Conns, handleConn(d)
       PROVE  Safe
  <2> USE DEF Goto, clientVars
  <2>1. CASE RefuseNobody(d)
    BY <2>1 DEF RefuseNobody, Die
  <2>2. CASE handshakeStart(d)
    BY <2>2 DEF handshakeStart, FirstConnectionIsSafe
  <2>3. CASE Refuse(d) \/ RemoveNode(d)
    BY <2>3 DEF Refuse, RemoveNode, End, FirstConnectionIsSafe
  <2>4. CASE NoHandshake(d) \/ registerNode(d) \/ handshakeEnd(d) \/ ReadError(d)
    <3>1. handler[c] = "start"
      BY <2>4 DEF NoHandshake, registerNode, handshakeEnd, ReadError
    <3> QED BY <1>1, <2>4, <3>1 DEF NoHandshake, registerNode, handshakeEnd, ReadError
  <2> QED BY <1>12, <2>1, <2>2, <2>3, <2>4 DEF handleConn
<1> QED BY <1>2, <1>3, <1>4, <1>5, <1>6, <1>7, <1>8, <1>9, <1>10, <1>11, <1>12
        DEF Next, Agent

\* The first message of an agent that was never accepted is its handshake: only one that
\* connects again can make handshakeStart return no node.
THEOREM FirstConnectionsAreSafe == Spec => []FirstConnectionIsSafe
<1>1. Init => FirstConnectionIsSafe
  BY DEF Init, FirstConnectionIsSafe
<1> QED BY <1>1, InitIInv, IInvStep, FirstStep, PTL DEF Spec

=============================================================================
