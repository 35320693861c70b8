---------------------------- MODULE Registration ----------------------------
(***************************************************************************)
(* How agents get into the map of nodes of the server, and out of it:      *)
(* connect() and handshake() of the agent (agent/agent.go), handleConn up  *)
(* to its read loop, deregisterNode, the sender and agentInfoLoop          *)
(* (server/tcp.go), with every connection and its handler on its own.      *)
(*                                                                         *)
(* The map has no lock. Here its test and its update are steps of their    *)
(* own, a name may be used by several agents, and an agent may have left   *)
(* connections behind that the server still serves.                        *)
(***************************************************************************)
EXTENDS Naturals, Sequences, FiniteSets

CONSTANTS
  Clients,  \* agent processes
  Names,    \* config.Name of the agents
  NameOf,   \* Clients -> Names; the default is the host name, so two may agree
  Conns,    \* connections; one that is over is used again
  NoConn,   \* no connection
  NetCap,   \* bound: messages in flight in one direction of a connection
  Faulty,   \* the agents that crash or lose connections
  MaxFailures  \* bound: how often they do

ASSUME RegistrationAssumption ==
  /\ Clients # {}
  /\ NameOf \in [Clients -> Names]
  /\ NoConn \notin Conns
  /\ NetCap \in Nat \ {0}
  /\ Faulty \subseteq Clients
  /\ MaxFailures \in Nat

VARIABLES
  client,    \* client[p]: where Run and connect of agent p are
  conn,      \* conn[p]: the field c.conn
  joined,    \* joined[p]: p has been accepted on this or an earlier connection
  owner,     \* owner[c]: the agent that dialled connection c
  up,        \* up[c]: c carries bytes
  toServer,  \* toServer[c]: messages on their way to the handler
  toClient,  \* toClient[c]: messages on their way to the agent
  handler,   \* handler[c]: where handleConn of c is
  nodes,     \* nodes[n]: the connection of the Node in the map, or NoConn
  server,    \* "up", or what it died of
  failures   \* how many there were

clientVars == <<client, conn, joined, owner>>
serverVars == <<handler, nodes, server>>
vars == <<clientVars, up, toServer, toClient, serverVars, failures>>

-----------------------------------------------------------------------------

Name(c) == NameOf[owner[c]]

\* Where a handler is between registerNode and the end of deregisterNode.
Serving == {"welcome", "read", "lost"}

Registered == {n \in Names : nodes[n] # NoConn}

\* Connection c is over: its number may be used again, and c.conn of the agent that
\* had it is as good as none.
Unused(c) ==
  /\ handler[c] = "none"
  /\ \A p \in Clients : conn[p] = c => client[p] = "idle"

Init ==
  /\ client = [p \in Clients |-> "idle"]
  /\ conn = [p \in Clients |-> NoConn]
  /\ joined = [p \in Clients |-> FALSE]
  /\ owner \in [Conns -> {CHOOSE p \in Clients : TRUE}]
  /\ up = [c \in Conns |-> FALSE]
  /\ toServer = [c \in Conns |-> <<>>]
  /\ toClient = [c \in Conns |-> <<>>]
  /\ handler = [c \in Conns |-> "none"]
  /\ nodes = [n \in Names |-> NoConn]
  /\ server = "up"
  /\ failures = 0

\* A write returns an error on a broken connection and waits for room on another.
Write(queues, c, msg) ==
  \/ ~up[c] /\ UNCHANGED queues
  \/ /\ up[c]
     /\ Len(queues[c]) < NetCap
     /\ queues' = [queues EXCEPT ![c] = Append(@, msg)]

Close(c) == up' = [up EXCEPT ![c] = FALSE]

-----------------------------------------------------------------------------
(* The agent. *)

\* net.Dial, and the Accept of listen(). The field c.conn is set at once.
Dial(p) ==
  /\ server = "up"
  /\ client[p] = "idle"
  /\ \E c \in Conns : Unused(c)
  /\ LET c == CHOOSE d \in Conns : Unused(d) IN
       /\ conn' = [q \in Clients |-> CASE q = p -> c
                                      [] q # p /\ conn[q] = c -> NoConn
                                      [] OTHER -> conn[q]]
       /\ owner' = [owner EXCEPT ![c] = p]
       /\ up' = [up EXCEPT ![c] = TRUE]
       /\ toServer' = [toServer EXCEPT ![c] = <<>>]
       /\ toClient' = [toClient EXCEPT ![c] = <<>>]
       /\ handler' = [handler EXCEPT ![c] = "start"]
  /\ client' = [client EXCEPT ![p] = "dialed"]
  /\ UNCHANGED <<joined, nodes, server, failures>>

SendHandshake(p) ==
  /\ client[p] = "dialed"
  /\ Write(toServer, conn[p], "handshake")
  /\ client' = [client EXCEPT ![p] = "waiting"]
  /\ UNCHANGED <<conn, joined, owner, up, toClient, serverVars, failures>>

HasWriter_Early(p) == client[p] # "idle"

\* A writer is started by every accepted connection, and none ever ends.
HasWriter(p) == joined[p]

\* The writer that an earlier connection started sends a message about a job. It looks
\* at c.conn, not at the handshake. (Behind the handshake it would change nothing here.)
WriteJobMessage(p) ==
  /\ HasWriter(p)
  /\ client[p] = "dialed"
  /\ Write(toServer, conn[p], "job")
  /\ UNCHANGED <<clientVars, up, toClient, serverVars, failures>>

\* The first message is taken for the answer. When it is not an acceptance,
\* connect returns an error and leaves the connection as it is.
ReadAnswer(p) ==
  LET c == conn[p] IN
  /\ client[p] = "waiting"
  /\ toClient[c] # <<>>
  /\ toClient' = [toClient EXCEPT ![c] = Tail(@)]
  /\ IF Head(toClient[c]) = "accepted"
       THEN /\ client' = [client EXCEPT ![p] = "connected"]
            /\ joined' = [joined EXCEPT ![p] = TRUE]
       ELSE /\ client' = [client EXCEPT ![p] = "idle"]
            /\ UNCHANGED joined
  /\ UNCHANGED <<conn, owner, up, toServer, serverVars, failures>>

Disconnected(p) ==
  /\ client[p] \in {"waiting", "connected"}
  /\ ~up[conn[p]]
  /\ toClient[conn[p]] = <<>>
  /\ client' = [client EXCEPT ![p] = "idle"]
  /\ UNCHANGED <<conn, joined, owner, up, toServer, toClient, serverVars, failures>>

\* The Go runtime closes a connection that c.conn no longer refers to.
Finalize(c) ==
  /\ up[c]
  /\ conn[owner[c]] # c
  /\ Close(c)
  /\ toClient' = [toClient EXCEPT ![c] = <<>>]
  /\ UNCHANGED <<clientVars, toServer, serverVars, failures>>

Fail(p) ==
  /\ p \in Faulty
  /\ failures < MaxFailures
  /\ failures' = failures + 1

Crash(p) ==
  /\ Fail(p)
  /\ conn[p] # NoConn
  /\ client' = [client EXCEPT ![p] = "idle"]
  /\ conn' = [conn EXCEPT ![p] = NoConn]
  /\ joined' = [joined EXCEPT ![p] = FALSE]
  /\ up' = [c \in Conns |-> up[c] /\ owner[c] # p]
  /\ UNCHANGED <<owner, toServer, toClient, serverVars>>

\* (The others go away by Finalize.)
ConnectionLost(c) ==
  /\ up[c]
  /\ conn[owner[c]] = c
  /\ Fail(owner[c])
  /\ Close(c)
  /\ UNCHANGED <<clientVars, toServer, toClient, serverVars>>

-----------------------------------------------------------------------------
(* The server. *)

Goto(c, pc) == handler' = [handler EXCEPT ![c] = pc]

\* The handler of c returns. Nobody reads what is left for it.
End(c) ==
  /\ Close(c)
  /\ Goto(c, "none")
  /\ toServer' = [toServer EXCEPT ![c] = <<>>]

\* The process dies: a panic of one goroutine ends them all.
Die ==
  /\ server' = "nilNode"
  /\ handler' = [c \in Conns |-> "none"]
  /\ nodes' = [n \in Names |-> NoConn]
  /\ up' = [c \in Conns |-> FALSE]
  /\ toServer' = [c \in Conns |-> <<>>]
  /\ UNCHANGED <<clientVars, toClient, failures>>

\* The handshake of c has arrived. What registerNode finds under its name is the test.
Shakes(c) ==
  /\ handler[c] = "start"
  /\ toServer[c] # <<>>
  /\ Head(toServer[c]) = "handshake"

\* handshakeStart, and the test of registerNode.
handshakeStart(c) ==
  /\ Shakes(c)
  /\ nodes[Name(c)] = NoConn
  /\ toServer' = [toServer EXCEPT ![c] = Tail(@)]
  /\ Goto(c, "register")
  /\ UNCHANGED <<clientVars, up, toClient, nodes, server, failures>>

\* The name is taken.
Refuse(c) ==
  /\ Shakes(c)
  /\ nodes[Name(c)] # NoConn
  /\ Write(toClient, c, "refused")
  /\ End(c)
  /\ UNCHANGED <<clientVars, nodes, server, failures>>

\* The first message is no handshake. handshakeStart returns a reason and no node,
\* and handshakeEnd uses the connection of that node.
RefuseNobody(c) ==
  /\ handler[c] = "start"
  /\ toServer[c] # <<>>
  /\ Head(toServer[c]) # "handshake"
  /\ Die

NoHandshake(c) ==
  /\ handler[c] = "start"
  /\ ~up[c]
  /\ toServer[c] = <<>>
  /\ Goto(c, "none")
  /\ UNCHANGED <<clientVars, up, toServer, toClient, nodes, server, failures>>

registerNode_Agent(c) ==
  /\ handler[c] = "register"
  /\ nodes' = [nodes EXCEPT ![Name(c)] = owner[c]]
  /\ Goto(c, "welcome")
  /\ UNCHANGED <<clientVars, up, toServer, toClient, server, failures>>

\* The entry registerNode makes after its test.
registerNode(c) ==
  /\ handler[c] = "register"
  /\ nodes' = [nodes EXCEPT ![Name(c)] = c]
  /\ Goto(c, "welcome")
  /\ UNCHANGED <<clientVars, up, toServer, toClient, server, failures>>

handshakeEnd(c) ==
  /\ handler[c] = "welcome"
  /\ Write(toClient, c, "accepted")
  /\ Goto(c, "read")
  /\ UNCHANGED <<clientVars, up, toServer, nodes, server, failures>>

ReadError_GoesOn(c) ==
  /\ handler[c] = "read"
  /\ ~up[c]
  /\ toServer[c] = <<>>
  /\ UNCHANGED vars

\* deregisterNode up to its loop over the jobs. It asks for the name, not the node.
ReadError(c) ==
  /\ handler[c] = "read"
  /\ ~up[c]
  /\ toServer[c] = <<>>
  /\ Goto(c, IF nodes[Name(c)] = NoConn THEN "none" ELSE "lost")
  /\ UNCHANGED <<clientVars, up, toServer, toClient, nodes, server, failures>>

RemoveNode_Forgotten(c) ==
  /\ handler[c] = "lost"
  /\ End(c)
  /\ UNCHANGED <<clientVars, toClient, nodes, server, failures>>

\* The end of deregisterNode.
RemoveNode(c) ==
  /\ handler[c] = "lost"
  /\ nodes' = [nodes EXCEPT ![Name(c)] = NoConn]
  /\ End(c)
  /\ UNCHANGED <<clientVars, toClient, server, failures>>

handleConn(c) ==
  \/ handshakeStart(c) \/ RefuseNobody(c) \/ NoHandshake(c) \/ Refuse(c)
  \/ registerNode(c) \/ handshakeEnd(c)
  \/ ReadError(c) \/ RemoveNode(c)

\* A round of agentInfoLoop for one node. Its message passes through cliChan, whose
\* order is modelled in Server: what matters here is a request that the sender writes
\* before the answer to the handshake. (Behind the answer it would change nothing.)
agentInfoLoop(n) ==
  /\ nodes[n] # NoConn
  /\ handler[nodes[n]] = "welcome"
  /\ Write(toClient, nodes[n], "request")
  /\ UNCHANGED <<clientVars, up, toServer, serverVars, failures>>

\* systemd starts it again.
Restart ==
  /\ server # "up"
  /\ server' = "up"
  /\ UNCHANGED <<clientVars, up, toServer, toClient, handler, nodes, failures>>

-----------------------------------------------------------------------------

Agent(p) ==
  \/ Dial(p) \/ SendHandshake(p) \/ ReadAnswer(p) \/ Disconnected(p)

Next ==
  \/ \E p \in Clients : Agent(p) \/ WriteJobMessage(p) \/ Crash(p)
  \/ \E c \in Conns : handleConn(c) \/ Finalize(c) \/ ConnectionLost(c)
  \/ \E n \in Names : agentInfoLoop(n)
  \/ Restart

Spec == Init /\ [][Next]_vars

\* Goroutines go on, agents try again (the loop of Run has no end) and the garbage
\* collector runs. The fairness of agents is strong to make up for the bound on
\* connections: a real agent need not wait for one that is unused.
FairSpec ==
  /\ Spec
  /\ \A p \in Clients : SF_vars(Agent(p))
  /\ \A c \in Conns : WF_vars(handleConn(c))
  /\ WF_vars(\E c \in Conns : Finalize(c))

-----------------------------------------------------------------------------

\* Every variable has its type.
TypeOK ==
  /\ client \in [Clients -> {"idle", "dialed", "waiting", "connected"}]
  /\ conn \in [Clients -> Conns \cup {NoConn}]
  /\ joined \in [Clients -> BOOLEAN]
  /\ owner \in [Conns -> Clients]
  /\ up \in [Conns -> BOOLEAN]
  /\ toServer \in [Conns -> Seq({"handshake", "job"})]
  /\ toClient \in [Conns -> Seq({"accepted", "refused", "request"})]
  /\ handler \in [Conns -> {"none", "start", "register"} \cup Serving]
  /\ nodes \in [Names -> Conns \cup {NoConn}]
  /\ server \in {"up", "nilNode"}
  /\ failures \in 0 .. MaxFailures

\* A node in the map is of that name and has a handler that will take it out again,
\* although two handlers of one name may register at the same time and one may
\* remove the node of the other (server/tcp.go:59-85). The scheduler and the sender
\* never work for ever with a node that nobody serves.
EntryHasHandler ==
  \A n \in Registered : handler[nodes[n]] \in Serving /\ Name(nodes[n]) = n

\* The nil node of a refused first message (server/tcp.go:97-99, 253) can bring the
\* server down only when an agent connects again: the writer of its earlier
\* connection must send before the handshake (agent/agent.go:123-139). An agent that
\* was never accepted sends its handshake first.
FirstConnectionIsSafe ==
  \A c \in Conns :
    handler[c] = "start" /\ conn[owner[c]] = c /\ toServer[c] # <<>>
      => joined[owner[c]] \/ Head(toServer[c]) = "handshake"

\* An agent that gave up connection c, which the server still has in its map: a
\* request was sent before the answer to the handshake, or the agent was lost.
Ghost(c) ==
  /\ nodes[Name(c)] = c
  /\ conn[owner[c]] = c => client[owner[c]] = "idle"

\* Such a node goes away in the end, so that its name is not refused for ever
\* (server/tcp.go:259-264). Nobody but the garbage collector closes the connection.
GhostsEnd == \A c \in Conns : Ghost(c) ~> ~Ghost(c)

=============================================================================
