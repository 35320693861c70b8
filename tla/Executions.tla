----------------------------- MODULE Executions -----------------------------
(***************************************************************************)
(* What the runner of an agent and its driver promise of the executions of *)
(* a job, as Agent assumes it (acceptJobOffer, cancelJob, handleJobDone).  *)
(* ExecDriver is shown to implement it.                                    *)
(***************************************************************************)
EXTENDS Naturals

CONSTANT Jobs

VARIABLES
  exec,     \* exec[j]: executions of job j in progress
  intr,     \* intr[j]: those of them that a cancel may have hit
  cancelled \* the jobs an execution of which was reported as cancelled

vars == <<exec, intr, cancelled>>

Init ==
  /\ exec = [j \in Jobs |-> 0]
  /\ intr = [j \in Jobs |-> 0]
  /\ cancelled = {}

Start(j) ==
  /\ exec' = [exec EXCEPT ![j] = @ + 1]
  /\ UNCHANGED <<intr, cancelled>>

\* A cancel hits some of the executions in progress, or none.
Cancel(j) ==
  /\ intr' \in {[intr EXCEPT ![j] = n] : n \in intr[j] .. exec[j]}
  /\ UNCHANGED <<exec, cancelled>>

\* One of the executions ends; hit is 1 when a cancel may have hit it. Only then
\* may it be reported as cancelled.
End(j, status, hit) ==
  /\ exec[j] > 0
  /\ hit <= intr[j]
  /\ intr[j] - hit <= exec[j] - 1
  /\ status = "CANCEL" => hit = 1
  /\ exec' = [exec EXCEPT ![j] = @ - 1]
  /\ intr' = [intr EXCEPT ![j] = @ - hit]
  /\ cancelled' = IF status = "CANCEL" THEN cancelled \cup {j} ELSE cancelled

Next ==
  \E j \in Jobs :
    \/ Start(j) \/ Cancel(j)
    \/ \E status \in {"SUCCESS", "ERROR", "CANCEL"}, hit \in {0, 1} : End(j, status, hit)

Spec == Init /\ [][Next]_vars

=============================================================================
