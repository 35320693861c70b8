------------------------------ MODULE Protocol ------------------------------
(***************************************************************************)
(* What the server and the agents of taylor share: the jobs and their      *)
(* statuses (lib/structs/job.go), the messages of the TCP protocol         *)
(* (lib/tcp/protocol.go) and one TCP connection per agent.                 *)
(*                                                                         *)
(* A job's identifier, driver configuration, handlers and user data are    *)
(* abstracted: no property depends on them.                                *)
(***************************************************************************)
EXTENDS Naturals, Sequences, FiniteSets, Placement

CONSTANTS
  Agents,           \* names of the worker nodes (config.Name of each agent)
  Jobs,             \* the jobs that may be posted
  NoAgent,          \* the empty agent_name of a job nobody has accepted
  NoJob,            \* no job
  MaxParallelJobs,  \* [Agents -> Nat]: scheduler.max_parallel_jobs of the agent
  JobRestrict,      \* Jobs -> the capability tags the job asks for
  Capabilities,     \* Agents -> the capability tags of the agent
  MaxConnections,   \* bound: how many connections each agent opens
  NetCap,           \* bound: messages in flight in one direction of a connection
  Recorded          \* the facts the history keeps; no behaviour depends on it

\* ReadConfig raises a max_parallel_jobs of 0 to 1 (agent/config.go:78-80).
ASSUME ProtocolAssumption ==
  /\ IsFiniteSet(Jobs)
  /\ NoAgent \notin Agents
  /\ NoJob \notin Jobs
  /\ MaxParallelJobs \in [Agents -> Nat \ {0}]
  /\ MaxConnections \in Nat
  /\ NetCap \in Nat \ {0}

VARIABLES
  link,      \* link[a]: the connection of agent a carries bytes
  epoch,     \* epoch[a]: how many connections agent a has opened so far
  toAgent,   \* toAgent[a]: requests written by the server, not yet read by a
  toServer,  \* toServer[a]: messages written by a, not yet read by its handler
  facts      \* history: facts[j] is what has really happened to job j

netVars == <<link, epoch, toAgent, toServer>>

-----------------------------------------------------------------------------

\* "absent" stands for a job without a row in the jobs table.
JobStatus == {"absent", "WAITING", "SCHEDULED", "SUCCESS", "ERROR", "CANCEL",
              "INTERRUPT", "DELETE"}

\* The statuses handleJobDone of the agent chooses from.
EndStatus == {"SUCCESS", "ERROR", "CANCEL"}

CanCancel(status) == status \in {"SCHEDULED", "WAITING"}

CanDelete(status) == status \notin {"SCHEDULED", "DELETE"}

\* What the history variable can record of a job. It is lost when its agent, the
\* connection or the server fails, or a writer loses a message about it, before the
\* server has recorded its end.
Fact == {"accepted", "succeeded", "failed", "lost", "cancelAsked", "deleteAsked"}

Happened(J, f) ==
  facts' = [j \in Jobs |-> IF j \in J THEN facts[j] \cup ({f} \cap Recorded)
                                     ELSE facts[j]]

\* Connections are numbered from 1; number 0 is the nil connection.
Conns == 1 .. MaxConnections
NilConn == 0

\* MsgNewJobOffer and MsgJobCancelRequest.
Request == [type : {"offer", "cancel"}, job : Jobs]

\* MsgJobAccepted (as "accepted" or "rejected"), MsgJobUpdate and MsgJobDone.
\* status is the Status of the Job they carry, load the JobsRunning of the
\* MsgAgentInfo that every one of them embeds.
Answer ==
  [type : {"accepted", "rejected", "update"}, job : Jobs,
   status : {"SCHEDULED", "WAITING"}, load : Nat]
    \cup [type : {"done"}, job : Jobs, status : EndStatus, load : Nat]

Capable(a, j) == IsSubsetString(JobRestrict[j], Capabilities[a])

-----------------------------------------------------------------------------

NetInit ==
  /\ link = [a \in Agents |-> FALSE]
  /\ epoch = [a \in Agents |-> 0]
  /\ toAgent = [a \in Agents |-> <<>>]
  /\ toServer = [a \in Agents |-> <<>>]
  /\ facts = [j \in Jobs |-> {}]

\* The messages of q that had already reached the reader when the peer vanished.
Delivered(q) == {SubSeq(q, 1, n) : n \in 0 .. Len(q)}

\* The connection breaks. Of the messages in flight each side still reads those
\* that had reached it, a prefix, and then an error.
BreakLink(a) ==
  /\ link[a]
  /\ link' = [link EXCEPT ![a] = FALSE]
  /\ \E q \in Delivered(toAgent[a]) : toAgent' = [toAgent EXCEPT ![a] = q]
  /\ \E q \in Delivered(toServer[a]) : toServer' = [toServer EXCEPT ![a] = q]
  /\ UNCHANGED epoch

NetTypeOK ==
  /\ link \in [Agents -> BOOLEAN]
  /\ epoch \in [Agents -> 0 .. MaxConnections]
  /\ toAgent \in [Agents -> Seq(Request)]
  /\ toServer \in [Agents -> Seq(Answer)]
  /\ facts \in [Jobs -> SUBSET Fact]

=============================================================================
