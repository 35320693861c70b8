----------------------------- MODULE ExecDriver -----------------------------
(***************************************************************************)
(* One agent at the level of its goroutines: the reader of connect(), the  *)
(* runner with a goroutine for every execution, the writer of msgOutCh     *)
(* (agent/agent.go), and the exec driver with its processes and their map  *)
(* jobPidMap (agent/drivers/exec.go). Agent has each of their calls as one *)
(* step.                                                                   *)
(*                                                                         *)
(* The map is read without its lock, and several executions of one job may *)
(* be in progress. What the agent accepts is not modelled here: any job    *)
(* may be offered while there is a goroutine left for it.                  *)
(***************************************************************************)
EXTENDS Naturals, Sequences, FiniteSets

CONSTANTS
  Jobs,
  Slots,      \* bound: goroutines of the runner at a time
  NoSlot,     \* no entry in jobPidMap
  NoJob,      \* no job
  OutCap,     \* capacity of msgOutCh (5 in Run)
  JobCap,     \* capacity of newJobCh (max_parallel_jobs)
  MaxLines,   \* bound: lines of output of an execution
  LongLines   \* the jobs with a line too long for the buffer of Scanner

ASSUME ExecDriverAssumption ==
  /\ IsFiniteSet(Slots)
  /\ Slots \cap {NoSlot, "free", "reader"} = {}
  /\ NoJob \notin Jobs
  /\ OutCap \in Nat \ {0}
  /\ JobCap \in Nat \ {0}
  /\ MaxLines \in Nat
  /\ LongLines \subseteq Jobs

VARIABLES
  reader,      \* where the read loop is
  request,     \* the job of the request it handles
  target,      \* the process wrapper that cancel has got, by its slot
  mutex,       \* who holds jobsRunningMtx: "free", "reader" or a slot
  newJobCh,    \* the channel
  msgOutCh,    \* the channel: messages, each with the slot it is from
  pc,          \* pc[s]: where the goroutine of slot s is
  job,         \* job[s]: the job it executes
  process,     \* process[s]: its process
  pipes,       \* pipes[s]: the pipes of the process that are still read
  lines,       \* lines[s]: the lines read so far
  interrupted, \* interrupted[s]: the flag in the wrapper of the process
  status,      \* status[s]: the outcome of the execution
  jobPidMap,   \* jobPidMap[j]: the slot of the process registered for job j
  hit,         \* history: hit[s], a cancel was sent while s executed its job
  cancelled    \* history: the jobs an execution of which was reported as cancelled

readerVars == <<reader, request, target>>
slotVars == <<pc, job, process, pipes, lines, status>>
history == <<hit, cancelled>>
vars == <<readerVars, mutex, newJobCh, msgOutCh, slotVars, interrupted, jobPidMap, history>>

-----------------------------------------------------------------------------

Pipes == {"stdout", "stderr"}

Init ==
  /\ reader = "read"
  /\ request = NoJob
  /\ target = NoSlot
  /\ mutex = "free"
  /\ newJobCh = <<>>
  /\ msgOutCh = <<>>
  /\ pc = [s \in Slots |-> "none"]
  /\ job = [s \in Slots |-> NoJob]
  /\ process = [s \in Slots |-> "none"]
  /\ pipes = [s \in Slots |-> {}]
  /\ lines = [s \in Slots |-> 0]
  /\ interrupted = [s \in Slots |-> FALSE]
  /\ status = [s \in Slots |-> "none"]
  /\ jobPidMap = [j \in Jobs |-> NoSlot]
  /\ hit = [s \in Slots |-> FALSE]
  /\ cancelled = {}

Executing(j) == {s \in Slots : pc[s] # "none" /\ job[s] = j}

\* A goroutine may be started in slot s: nothing refers to what was there before.
Unused(s) ==
  /\ pc[s] = "none"
  /\ target # s
  /\ \A i \in DOMAIN msgOutCh : msgOutCh[i].slot # s

Push(type, s) ==
  /\ Len(msgOutCh) < OutCap
  /\ msgOutCh' = Append(msgOutCh, [type |-> type, slot |-> s])

-----------------------------------------------------------------------------
(* The read loop of connect(). *)

ReadOffer(j) ==
  /\ reader = "read"
  /\ Len(newJobCh) < Cardinality({s \in Slots : Unused(s)})
  /\ reader' = "accept"
  /\ request' = j
  /\ UNCHANGED <<target, mutex, newJobCh, msgOutCh, slotVars, interrupted, jobPidMap,
                 history>>

LockForAccept_AfterRuns ==
  /\ reader = "accept"
  /\ mutex = "free"
  /\ \A s \in Slots : process[s] = "none"
  /\ mutex' = "reader"
  /\ reader' = "answer"
  /\ UNCHANGED <<request, target, newJobCh, msgOutCh, slotVars, interrupted, jobPidMap,
                 history>>

\* acceptJobOffer waits for the lock, and holds it until msgOutCh has room.
LockForAccept ==
  /\ reader = "accept"
  /\ mutex = "free"
  /\ mutex' = "reader"
  /\ reader' = "answer"
  /\ UNCHANGED <<request, target, newJobCh, msgOutCh, slotVars, interrupted, jobPidMap,
                 history>>

acceptJobOffer ==
  /\ reader = "answer"
  /\ Push("accepted", NoSlot)
  /\ mutex' = "free"
  /\ reader' = "hand"
  /\ UNCHANGED <<request, target, newJobCh, slotVars, interrupted, jobPidMap, history>>

HandToRunner ==
  /\ reader = "hand"
  /\ Len(newJobCh) < JobCap
  /\ newJobCh' = Append(newJobCh, request)
  /\ reader' = "read"
  /\ request' = NoJob
  /\ UNCHANGED <<target, mutex, msgOutCh, slotVars, interrupted, jobPidMap, history>>

\* cancel: GetProcess, and an error when there is none.
GetProcess(j) ==
  /\ reader = "read"
  /\ jobPidMap[j] # NoSlot
  /\ reader' = "signal"
  /\ request' = j
  /\ target' = jobPidMap[j]
  /\ UNCHANGED <<mutex, newJobCh, msgOutCh, slotVars, interrupted, jobPidMap, history>>

CancelDone ==
  /\ reader' = "read"
  /\ request' = NoJob
  /\ target' = NoSlot

\* The signal reaches a process that nobody has waited for yet.
Signal ==
  /\ reader = "signal"
  /\ process[target] # "none"
  /\ process' = [process EXCEPT ![target] = IF @ = "running" THEN "signalled" ELSE @]
  /\ reader' = "flag"
  /\ hit' = [s \in Slots |-> hit[s] \/ s \in Executing(request)]
  /\ UNCHANGED <<request, target, mutex, newJobCh, msgOutCh, pc, job, pipes, lines,
                 interrupted, status, jobPidMap, cancelled>>

SignalFails ==
  /\ reader = "signal"
  /\ process[target] = "none"
  /\ CancelDone
  /\ UNCHANGED <<mutex, newJobCh, msgOutCh, slotVars, interrupted, jobPidMap, history>>

SetInterrupted ==
  /\ reader = "flag"
  /\ interrupted' = [interrupted EXCEPT ![target] = TRUE]
  /\ CancelDone
  /\ UNCHANGED <<mutex, newJobCh, msgOutCh, slotVars, jobPidMap, history>>

-----------------------------------------------------------------------------
(* The runner and the run() of the driver. *)

Goto(s, l) == pc' = [pc EXCEPT ![s] = l]

\* The runner starts a goroutine for the next job.
StartGoroutine(s) ==
  /\ newJobCh # <<>>
  /\ Unused(s)
  /\ newJobCh' = Tail(newJobCh)
  /\ Goto(s, "test")
  /\ job' = [job EXCEPT ![s] = Head(newJobCh)]
  /\ interrupted' = [interrupted EXCEPT ![s] = FALSE]
  /\ UNCHANGED <<readerVars, mutex, msgOutCh, process, pipes, lines, status, jobPidMap,
                 history>>

Outcome(s, result) == status' = [status EXCEPT ![s] = result]

HasProcess(s) ==
  /\ pc[s] = "test"
  /\ IF jobPidMap[job[s]] # NoSlot
       THEN Goto(s, "lock") /\ Outcome(s, "ERROR")
       ELSE Goto(s, "config") /\ UNCHANGED status
  /\ UNCHANGED <<readerVars, mutex, newJobCh, msgOutCh, job, process, pipes, lines,
                 interrupted, jobPidMap, history>>

\* The driver does not exist, its configuration has a wrong type, or Start fails.
Refused(s) ==
  /\ pc[s] = "config"
  /\ Goto(s, "lock")
  /\ Outcome(s, "ERROR")
  /\ UNCHANGED <<readerVars, mutex, newJobCh, msgOutCh, job, process, pipes, lines,
                 interrupted, jobPidMap, history>>

StartProcess(s) ==
  /\ pc[s] = "config"
  /\ Goto(s, "add")
  /\ process' = [process EXCEPT ![s] = "running"]
  /\ UNCHANGED <<readerVars, mutex, newJobCh, msgOutCh, job, pipes, lines, status,
                 interrupted, jobPidMap, history>>

\* The error of a process that is there already is ignored. Then run() starts to read
\* the pipes, stderr in a goroutine.
AddProcess(s) ==
  /\ pc[s] = "add"
  /\ Goto(s, "run")
  /\ jobPidMap' = [jobPidMap EXCEPT ![job[s]] = IF @ = NoSlot THEN s ELSE @]
  /\ pipes' = [pipes EXCEPT ![s] = Pipes]
  /\ UNCHANGED <<readerVars, mutex, newJobCh, msgOutCh, job, process, lines, status,
                 interrupted, history>>

\* A reader of a pipe gets a line.
onJobUpdate(s) ==
  /\ pipes[s] # {}
  /\ lines[s] < MaxLines
  /\ Push("update", s)
  /\ lines' = [lines EXCEPT ![s] = @ + 1]
  /\ UNCHANGED <<readerVars, mutex, newJobCh, pc, job, process, pipes, status,
                 interrupted, jobPidMap, history>>

Exited == {"succeeded", "failed"}

\* The end of a pipe is the end of the process. Scanner stops at a long line as well.
PipeEnds(s, p) ==
  /\ p \in pipes[s]
  /\ process[s] \in Exited \/ job[s] \in LongLines
  /\ pipes' = [pipes EXCEPT ![s] = @ \ {p}]
  /\ UNCHANGED <<readerVars, mutex, newJobCh, msgOutCh, pc, job, process, lines, status,
                 interrupted, jobPidMap, history>>

\* Nobody reads one of the pipes of the process: it may wait for ever to write.
Blocked(s) == process[s] = "running" /\ pc[s] = "run" /\ pipes[s] # Pipes

Exit(s) ==
  /\ process[s] \in {"running", "signalled"}
  /\ \E result \in Exited : process' = [process EXCEPT ![s] = result]
  /\ UNCHANGED <<readerVars, mutex, newJobCh, msgOutCh, pc, job, pipes, lines, status,
                 interrupted, jobPidMap, history>>

Interruption_Any(s) == TRUE

\* Whether the wrapper that is in the map for the job now was interrupted. It need not
\* be the wrapper of this process.
Interruption(s) == jobPidMap[job[s]] # NoSlot /\ interrupted[jobPidMap[job[s]]]

PipesRead_Stdout(s) == "stdout" \notin pipes[s]

PipesRead_AtLine(s) == pipes[s] = {} /\ lines[s] > 0

\* run() reads stdout to its end and waits for the goroutine that reads stderr.
PipesRead(s) == pipes[s] = {}

\* cmd.Wait, and what run() makes of its error.
Wait(s) ==
  /\ pc[s] = "run"
  /\ PipesRead(s)
  /\ process[s] \in Exited
  /\ Outcome(s, CASE process[s] = "succeeded" -> "SUCCESS"
                  [] process[s] = "failed" -> IF Interruption(s) THEN "CANCEL" ELSE "ERROR")
  /\ process' = [process EXCEPT ![s] = "none"]
  /\ Goto(s, "remove")
  /\ UNCHANGED <<readerVars, mutex, newJobCh, msgOutCh, job, pipes, lines, interrupted,
                 jobPidMap, history>>

RemoveProcess_OnError(s) ==
  /\ pc[s] = "remove"
  /\ Goto(s, "lock")
  /\ jobPidMap' = [jobPidMap EXCEPT ![job[s]] = IF status[s] = "SUCCESS" THEN @ ELSE NoSlot]
  /\ UNCHANGED <<readerVars, mutex, newJobCh, msgOutCh, job, process, pipes, lines,
                 status, interrupted, history>>

\* The deferred call takes out the entry of the job, whoever made it.
RemoveProcess(s) ==
  /\ pc[s] = "remove"
  /\ Goto(s, "lock")
  /\ jobPidMap' = [jobPidMap EXCEPT ![job[s]] = NoSlot]
  /\ UNCHANGED <<readerVars, mutex, newJobCh, msgOutCh, job, process, pipes, lines,
                 status, interrupted, history>>

\* handleJobDone waits for the lock, and holds it until msgOutCh has room.
LockForDone(s) ==
  /\ pc[s] = "lock"
  /\ mutex = "free"
  /\ mutex' = s
  /\ Goto(s, "report")
  /\ UNCHANGED <<readerVars, newJobCh, msgOutCh, job, process, pipes, lines, status,
                 interrupted, jobPidMap, history>>

Unlocked_Never == mutex

\* The lock after the deferred Unlock of handleJobDone.
Unlocked == "free"

handleJobDone(s) ==
  /\ pc[s] = "report"
  /\ Push("done", s)
  /\ mutex' = Unlocked
  /\ Goto(s, "none")
  /\ hit' = [hit EXCEPT ![s] = FALSE]
  /\ cancelled' = IF status[s] = "CANCEL" THEN cancelled \cup {job[s]} ELSE cancelled
  /\ job' = [job EXCEPT ![s] = NoJob]
  /\ lines' = [lines EXCEPT ![s] = 0]
  /\ Outcome(s, "none")
  /\ UNCHANGED <<readerVars, newJobCh, process, pipes, interrupted, jobPidMap>>

-----------------------------------------------------------------------------

\* The writer takes a message. Whether the server gets it is a matter of Agent.
Write ==
  /\ msgOutCh # <<>>
  /\ msgOutCh' = Tail(msgOutCh)
  /\ UNCHANGED <<readerVars, mutex, newJobCh, slotVars, interrupted, jobPidMap, history>>

Reader == LockForAccept \/ acceptJobOffer \/ HandToRunner
            \/ Signal \/ SignalFails \/ SetInterrupted

run(s) ==
  \/ HasProcess(s) \/ Refused(s) \/ StartProcess(s) \/ AddProcess(s)
  \/ Wait(s) \/ RemoveProcess(s) \/ LockForDone(s) \/ handleJobDone(s)

Next ==
  \/ \E j \in Jobs : ReadOffer(j) \/ GetProcess(j)
  \/ Reader \/ Write
  \/ \E s \in Slots :
       \/ StartGoroutine(s) \/ run(s) \/ onJobUpdate(s) \/ Exit(s)
       \/ \E p \in Pipes : PipeEnds(s, p)

Spec == Init /\ [][Next]_vars

\* Goroutines go on; the lock and the places in msgOutCh are given out in turn, to
\* whoever waits for them. A command that is not blocked ends, and so does a signalled
\* one. The server reads what the writer sends.
FairSpec ==
  /\ Spec
  /\ SF_vars(Reader)
  /\ WF_vars(Write)
  /\ WF_vars(\E s \in Slots : StartGoroutine(s))
  /\ \A s \in Slots :
       /\ SF_vars(run(s))
       /\ WF_vars(Exit(s) /\ ~Blocked(s))
       /\ \A p \in Pipes : WF_vars(PipeEnds(s, p) /\ process[s] \in Exited)

-----------------------------------------------------------------------------
(* Properties. *)

Status == {"SUCCESS", "ERROR", "CANCEL"}

\* Every variable has its type, and the lock is held by one who will give it back.
TypeOK ==
  /\ reader \in {"read", "accept", "answer", "hand", "signal", "flag"}
  /\ request \in Jobs \cup {NoJob}
  /\ target \in Slots \cup {NoSlot}
  /\ mutex \in {"free", "reader"} \cup Slots
  /\ mutex = "reader" <=> reader = "answer"
  /\ \A s \in Slots : mutex = s <=> pc[s] = "report"
  /\ newJobCh \in Seq(Jobs)
  /\ msgOutCh \in Seq([type : {"accepted", "update", "done"},
                       slot : Slots \cup {NoSlot}])
  /\ pc \in [Slots -> {"none", "test", "config", "add", "run", "remove", "lock", "report"}]
  /\ job \in [Slots -> Jobs \cup {NoJob}]
  /\ process \in [Slots -> {"none", "running", "signalled"} \cup Exited]
  /\ pipes \in [Slots -> SUBSET Pipes]
  /\ lines \in [Slots -> 0 .. MaxLines]
  /\ interrupted \in [Slots -> BOOLEAN]
  /\ status \in [Slots -> Status \cup {"none"}]
  /\ jobPidMap \in [Jobs -> Slots \cup {NoSlot}]
  /\ hit \in [Slots -> BOOLEAN]
  /\ cancelled \subseteq Jobs

\* A process in the map belongs to an execution of that job which is still in run() and
\* will take the entry out, although two executions of one job may both pass the test
\* of HasProcess and the end of one removes the entry of the other
\* (agent/drivers/exec.go:99, 160-161). A job can be executed again after its end.
EntryIsExecuted ==
  \A j \in Jobs :
    jobPidMap[j] # NoSlot => /\ job[jobPidMap[j]] = j
                             /\ pc[jobPidMap[j]] \in {"run", "remove"}

\* A line of output goes to the server before the end of its execution, although the
\* lines of stdout and stderr and the end come from three goroutines.
OutputBeforeEnd ==
  \A i \in DOMAIN msgOutCh :
    msgOutCh[i].type = "update" =>
      \/ pc[msgOutCh[i].slot] # "none"
      \/ \E k \in i + 1 .. Len(msgOutCh) :
           msgOutCh[k].type = "done" /\ msgOutCh[k].slot = msgOutCh[i].slot

\* The driver does what Agent assumes of it: above all, CANCEL is reported only of an
\* execution that was in progress when a cancel of its job sent its signal, although
\* the signal, the flag, the exit of the process and the test of the flag are steps of
\* their own, and an execution may look at the flag of another.
E == INSTANCE Executions WITH
  exec <- [j \in Jobs |-> Cardinality(Executing(j))],
  intr <- [j \in Jobs |-> Cardinality({s \in Executing(j) : hit[s]})]

ImplementsExecutions == E!Spec

\* An execution ends, unless its process waits for a pipe that nobody reads.
ExecutionsEnd == \A s \in Slots : []<>(pc[s] = "none" \/ Blocked(s))

\* The reader always comes back for the next message: it, the runner's goroutines and
\* the writer do not wait for each other (agent/agent.go:86-97, 250-273).
ReaderReturns == []<>(reader = "read")

=============================================================================
