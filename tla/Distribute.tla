----------------------------- MODULE Distribute -----------------------------
(***************************************************************************)
(* The scheduler in detail: how postJob fills in a job (server/api.go),    *)
(* how an agent reads what nvidia-smi prints (agent/nvidiapoll.go), and    *)
(* the rounds of schedule() with the loop of distribute()                  *)
(* (server/scheduler.go) over priorities, capabilities and GPUs.           *)
(*                                                                         *)
(* Offers are accepted at once: Cluster has what lies between an offer and *)
(* its answer. What nvidia-smi prints is not tied to the jobs that run.    *)
(***************************************************************************)
EXTENDS Integers, Sequences, SequencesExt, FiniteSetsExt, Placement

CONSTANTS
  Agents,
  Jobs,
  NoAgent,          \* a job that has been placed nowhere
  Limits,           \* the values of max_parallel_jobs, each a function on Agents
  Capabilities,     \* Agents -> the capability tags of the node
  Definitions,      \* what users may post, each a function from Jobs to definitions
  Outputs,          \* what a call of nvidia-smi may print, a sequence of lines
  MaxPolls          \* bound: calls of nvidia-smi at each agent

GPU == [name : STRING, free : Int]

Requirement == [type : STRING, memory : Int]

ASSUME DistributeAssumption ==
  /\ IsFiniteSet(Agents) /\ IsFiniteSet(Jobs)
  /\ NoAgent \notin Agents
  /\ Limits \subseteq [Agents -> Nat \ {0}]
  /\ \A d \in Definitions, j \in Jobs :
       d[j].priority \in Int /\ d[j].gpus \in Seq(Requirement)
  /\ Outputs \subseteq Seq(GPU \cup [error : STRING])
  /\ MaxPolls \in Nat

VARIABLES
  limit,    \* limit[a]: the capacity of node a
  job,      \* job[j]: the row of job j
  gpuInfo,  \* gpuInfo[a]: the GPUs that agent a has reported
  polls,    \* polls[a]: how often nvidia-smi has been called
  placed,   \* placed[j]: the agent that job j was offered to and that runs it
  ended,    \* the jobs whose execution is over
  batch,    \* the waiting jobs of this round, as they were read
  queue,    \* those of them that the loop of distribute() has not reached
  nodesIn,  \* nodesIn[a]: what Nodes() returned for node a
  proxy     \* proxy[a]: the copy of it that distribute() plans with

vars == <<limit, job, gpuInfo, polls, placed, ended, batch, queue, nodesIn, proxy>>

-----------------------------------------------------------------------------
(* What a user posts. *)

\* postJob: a priority is raised to 0 or lowered to 100, and 0 stands for 10; a memory
\* of 0 stands for "any", which is -1 from here on.
Row(definition) ==
  [restrict |-> definition.restrict,
   priority |-> IF definition.priority <= 0 THEN 10 ELSE Min({definition.priority, 100}),
   gpus |-> [k \in DOMAIN definition.gpus |->
               [definition.gpus[k] EXCEPT !.memory = IF @ = 0 THEN -1 ELSE @]]]

NeedsGpu(j) == job[j].gpus # <<>>

Capable(a, j) == IsSubsetString(job[j].restrict, Capabilities[a])

Waiting == {j \in Jobs : placed[j] = NoAgent}

JobsRunning(a) == {j \in Jobs \ ended : placed[j] = a}

-----------------------------------------------------------------------------
(* GPUs. *)

\* Every line is a GPU with its name and free memory, or something else.
IsGpu(line) == "free" \in DOMAIN line

parseNvidiaOut_Any(lines) == lines

\* A line that is no GPU is left out; the others keep their order.
parseNvidiaOut(lines) ==
  LET gpus[k \in 0 .. Len(lines)] ==
        IF k = 0 THEN <<>>
        ELSE IF IsGpu(lines[k]) THEN Append(gpus[k - 1], lines[k])
        ELSE gpus[k - 1]
  IN gpus[Len(lines)]

Matches(gpu, req) ==
  /\ req.type # "" => gpu.name = req.type
  /\ req.memory > -1 => gpu.free >= req.memory

Open_Again(gpus, used, req) == {k \in DOMAIN gpus : Matches(gpus[k], req)}

\* The GPUs that can still be taken for a requirement.
Open(gpus, used, req) == {k \in DOMAIN gpus \ used : Matches(gpus[k], req)}

Subtract_Nothing(gpu, req) == gpu

\* A requirement of no memory adds 1: what is subtracted is -1.
Subtract(gpu, req) == [gpu EXCEPT !.free = @ - req.memory]

\* A requirement takes the first GPU that matches, or is passed over.
Take(m, req) ==
  LET open == Open(m.gpus, m.used, req) IN
  IF open = {} THEN m
  ELSE [gpus  |-> [m.gpus EXCEPT ![Min(open)] = Subtract(@, req)],
        used  |-> m.used \cup {Min(open)},
        found |-> m.found + 1]

\* Every requirement in turn. What the others have taken stays taken.
Match(gpus, reqs) ==
  LET m[k \in 0 .. Len(reqs)] ==
        IF k = 0 THEN [gpus |-> gpus, used |-> {}, found |-> 0]
        ELSE Take(m[k - 1], reqs[k])
  IN m[Len(reqs)]

HasGpus(gpus, reqs) == Match(gpus, reqs).found = Len(reqs)

\* nodesWhichFulfillGpuRequirements looks only at nodes with enough GPUs.
Tried(N, reqs) == {a \in N : Len(proxy[a].gpus) >= Len(reqs)}

-----------------------------------------------------------------------------
(* The loop of distribute(). *)

FreeNodes == {a \in Agents : limit[a] > proxy[a].running}

CapableNodes(j) == {a \in FreeNodes : Capable(a, j)}

\* The nodes job j may go to: of several, those with the fewest capabilities, or with
\* the fewest GPUs. sort.Slice leaves open which of them is the first.
Candidates(j) ==
  IF NeedsGpu(j)
    THEN {a \in Tried(CapableNodes(j), job[j].gpus) : HasGpus(proxy[a].gpus, job[j].gpus)}
    ELSE CapableNodes(j)

Cost(a, j) == IF NeedsGpu(j) THEN Len(proxy[a].gpus) ELSE Cardinality(Capabilities[a])

Firsts(j) ==
  {a \in Candidates(j) : \A b \in Candidates(j) : Cost(a, j) <= Cost(b, j)}

\* The search takes memory from every node it tries, also from those that lack a GPU
\* and from those that another node is preferred to.
AfterSearch(j) ==
  [a \in Agents |->
     IF NeedsGpu(j) /\ a \in Tried(CapableNodes(j), job[j].gpus)
       THEN [proxy[a] EXCEPT !.gpus = Match(@, job[j].gpus).gpus]
       ELSE proxy[a]]

\* The next job goes to a node.
Assign ==
  /\ queue # <<>>
  /\ \E a \in Firsts(Head(queue)) :
       /\ placed' = [placed EXCEPT ![Head(queue)] = a]
       /\ proxy' = [AfterSearch(Head(queue)) EXCEPT ![a].running = @ + 1]
  /\ queue' = Tail(queue)
  /\ UNCHANGED <<limit, job, gpuInfo, polls, ended, batch, nodesIn>>

Skip_Break ==
  /\ queue # <<>>
  /\ FreeNodes # {}
  /\ Candidates(Head(queue)) = {}
  /\ proxy' = AfterSearch(Head(queue))
  /\ queue' = <<>>
  /\ UNCHANGED <<limit, job, gpuInfo, polls, placed, ended, batch, nodesIn>>

\* No node can run it: continue.
Skip ==
  /\ queue # <<>>
  /\ FreeNodes # {}
  /\ Candidates(Head(queue)) = {}
  /\ proxy' = AfterSearch(Head(queue))
  /\ queue' = Tail(queue)
  /\ UNCHANGED <<limit, job, gpuInfo, polls, placed, ended, batch, nodesIn>>

\* No node has room: break.
Break ==
  /\ queue # <<>>
  /\ FreeNodes = {}
  /\ queue' = <<>>
  /\ UNCHANGED <<limit, job, gpuInfo, polls, placed, ended, batch, nodesIn, proxy>>

-----------------------------------------------------------------------------
(* The rounds. *)

Ordered_Lowest(q) ==
  \A i, k \in DOMAIN q : i < k => job[q[i]].priority <= job[q[k]].priority

\* sortJobsByPriority. The order of jobs of one priority is left open.
Ordered(q) ==
  \A i, k \in DOMAIN q : i < k => job[q[i]].priority >= job[q[k]].priority

Node_Shared(a) == [running |-> Cardinality(JobsRunning(a)),
                   gpus |-> IF proxy[a].gpus = <<>> THEN gpuInfo[a] ELSE proxy[a].gpus]

\* Node a as Nodes() returns it: distribute() plans with copies and leaves it alone.
Node(a) == [running |-> Cardinality(JobsRunning(a)), gpus |-> gpuInfo[a]]

\* A round of schedule() begins.
schedule ==
  /\ queue = <<>>
  /\ Waiting # {}
  /\ batch' = Waiting
  /\ queue' \in {q \in SetToSeqs(Waiting) : Ordered(q)}
  /\ nodesIn' = [a \in Agents |-> Node(a)]
  /\ proxy' = nodesIn'
  /\ UNCHANGED <<limit, job, gpuInfo, polls, placed, ended>>

\* A call of nvidia-smi. One that fails leaves the last report. (Between rounds: a
\* round works with its copies.)
pollGpuData(a) ==
  /\ queue = <<>>
  /\ polls[a] < MaxPolls
  /\ polls' = [polls EXCEPT ![a] = @ + 1]
  /\ \/ UNCHANGED gpuInfo
     \/ \E lines \in Outputs :
          gpuInfo' = [gpuInfo EXCEPT ![a] = parseNvidiaOut(lines)]
  /\ UNCHANGED <<limit, job, placed, ended, batch, queue, nodesIn, proxy>>

\* An execution is over, and the agent reports one running job less.
JobDone(j) ==
  /\ placed[j] # NoAgent
  /\ j \notin ended
  /\ ended' = ended \cup {j}
  /\ UNCHANGED <<limit, job, gpuInfo, polls, placed, batch, queue, nodesIn, proxy>>

-----------------------------------------------------------------------------

Init ==
  /\ limit \in Limits
  /\ job \in {[j \in Jobs |-> Row(d[j])] : d \in Definitions}
  /\ gpuInfo = [a \in Agents |-> <<>>]
  /\ polls = [a \in Agents |-> 0]
  /\ placed = [j \in Jobs |-> NoAgent]
  /\ ended = {}
  /\ batch = {}
  /\ queue = <<>>
  /\ nodesIn = [a \in Agents |-> [running |-> 0, gpus |-> <<>>]]
  /\ proxy = nodesIn

distribute == Assign \/ Skip \/ Break

Next ==
  \/ schedule \/ distribute
  \/ \E a \in Agents : pollGpuData(a)
  \/ \E j \in Jobs : JobDone(j)

Spec == Init /\ [][Next]_vars

\* The loop of schedule() has no end, distribute() comes to its end, and jobs end.
FairSpec ==
  /\ Spec
  /\ WF_vars(schedule \/ distribute)
  /\ \A j \in Jobs : WF_vars(JobDone(j))

-----------------------------------------------------------------------------
(* Properties. *)

\* Every variable has its type: a line of nvidia-smi that is no GPU is never planned with.
TypeOK ==
  /\ limit \in Limits
  /\ DOMAIN job = Jobs
  /\ \A j \in Jobs : /\ job[j].priority \in 1 .. 100
                    /\ job[j].gpus \in Seq(Requirement)
  /\ gpuInfo \in [Agents -> Seq(GPU)]
  /\ polls \in [Agents -> 0 .. MaxPolls]
  /\ placed \in [Jobs -> Agents \cup {NoAgent}]
  /\ ended \subseteq Jobs
  /\ batch \subseteq Jobs
  /\ queue \in Seq(Jobs)
  /\ nodesIn \in [Agents -> [running : Nat, gpus : Seq(GPU)]]
  /\ proxy \in [Agents -> [running : Nat, gpus : Seq(GPU)]]

\* A round over jobs that ask for no GPU is a placement as Server assumes it of
\* distribute(), whatever the order of nodes and of jobs of one priority.
RoundIsPlacement ==
  queue = <<>> /\ (\A j \in batch : ~NeedsGpu(j))
    => [j \in batch |-> placed[j]] \in
         Placements(batch, Agents, NoAgent, [a \in Agents |-> nodesIn[a].running],
                    limit, Capable)

\* There are different GPUs for all requirements: what the search is for.
Fulfils(gpus, reqs) ==
  \E f \in [DOMAIN reqs -> DOMAIN gpus] :
    /\ \A i, k \in DOMAIN reqs : i # k => f[i] # f[k]
    /\ \A i \in DOMAIN reqs : Matches(gpus[f[i]], reqs[i])

\* The requirements are listed from the hardest to the easiest.
HardestFirst(reqs) ==
  \A i, k \in DOMAIN reqs :
    i < k => reqs[k].type \in {"", reqs[i].type} /\ reqs[k].memory <= reqs[i].memory

\* The greedy search of nodesWhichFulfillGpuRequirements finds only nodes that do
\* fulfil the requirements, and it finds them all when the hardest requirement comes
\* first. (In another order it may miss one: an X taken for "any GPU" is then missing
\* for "an X".)
SearchIsRight ==
  \A a \in Agents, j \in Jobs :
    LET gpus == proxy[a].gpus
        reqs == job[j].gpus
    IN /\ HasGpus(gpus, reqs) => Fulfils(gpus, reqs)
       /\ Fulfils(gpus, reqs) /\ HardestFirst(reqs) => HasGpus(gpus, reqs)

\* A job that a round has left out is not overtaken: no job of a lower priority got
\* room on a node that could have run it. For a job with GPUs this holds as long as no
\* other job with GPUs comes before it, since the search for that one takes memory
\* from nodes it does not go to.
NotOvertaken ==
  \A i, k \in batch :
    /\ placed[i] = NoAgent /\ ~Contains(queue, i)
    /\ placed[k] # NoAgent
    /\ job[i].priority > job[k].priority
    /\ Capable(placed[k], i)
    => /\ NeedsGpu(i)
       /\ \/ \E h \in batch \ {i} : NeedsGpu(h) /\ job[h].priority >= job[i].priority
          \/ ~HardestFirst(job[i].gpus)
          \/ ~Fulfils(nodesIn[placed[k]].gpus, job[i].gpus)

\* What requirements ask for; a negative memory asks for none.
Asked(reqs) == SumFunction([k \in DOMAIN reqs |-> Max({0, reqs[k].memory})])

\* What their search adds to a node: what it subtracts may be negative.
Added(reqs) == SumFunction([k \in DOMAIN reqs |-> Max({0, -reqs[k].memory})])

FreeMemory(gpus) == SumFunction([k \in DOMAIN gpus |-> Max({0, gpus[k].free})])

\* The jobs a round sends to a node ask for no more memory than its GPUs have free, but
\* for what the negative memories of the round add: 1 MB for every requirement without
\* memory, whose -1 is subtracted as well (server/scheduler.go:100-101).
MemoryPromised ==
  \A a \in Agents :
    SumFunctionOnSet([j \in Jobs |-> Asked(job[j].gpus)], {j \in batch : placed[j] = a})
      <= FreeMemory(nodesIn[a].gpus)
           + SumFunctionOnSet([j \in Jobs |-> Added(job[j].gpus)], batch)

\* Some node could run job j, were it idle.
Placeable(j) ==
  \E a \in Agents :
    /\ Capable(a, j)
    /\ HardestFirst(job[j].gpus)
    /\ Fulfils(gpuInfo[a], job[j].gpus)

\* A job that some node could run is placed in the end, round after round, although
\* searches for other jobs take memory and other jobs take the room. A job with GPUs
\* needs more: the search for a waiting job that nobody can run takes memory in every
\* round and may keep it waiting for ever.
EventuallyPlaced ==
  \A j \in Jobs :
    []<>(\/ placed[j] # NoAgent
         \/ ~Placeable(j)
         \/ NeedsGpu(j) /\ \E i \in Waiting : ~Placeable(i))

=============================================================================
