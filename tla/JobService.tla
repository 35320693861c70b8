----------------------------- MODULE JobService -----------------------------
(***************************************************************************)
(* What taylor promises about a job, whatever fails and in whatever order  *)
(* its parts act: the recorded status (lib/structs/job.go:10-31) is never  *)
(* invented. A job is recorded as SCHEDULED only when an agent has         *)
(* accepted it, as done or failed only when an execution has ended that    *)
(* way or its agent was lost, as cancelled or deleted only when a user has *)
(* asked for it, and it never returns to the queue.                        *)
(***************************************************************************)
CONSTANT Jobs

VARIABLES
  status,  \* the status a client of the service reads
  facts    \* what has happened to the job

vars == <<status, facts>>

Init ==
  /\ status = [j \in Jobs |-> "absent"]
  /\ facts = [j \in Jobs |-> {}]

Submit(j) ==
  /\ status[j] = "absent"
  /\ status' = [status EXCEPT ![j] = "WAITING"]
  /\ UNCHANGED facts

\* Nothing happens to a job that was not submitted, nothing but a request of a
\* user to one that no agent has accepted.
Possible(j, f) ==
  /\ status[j] # "absent"
  /\ f \in {"succeeded", "failed", "lost"} => "accepted" \in facts[j]

Happens(J, f) ==
  /\ \A j \in J : Possible(j, f)
  /\ facts' = [j \in Jobs |-> IF j \in J THEN facts[j] \cup {f} ELSE facts[j]]
  /\ UNCHANGED status

\* The facts of which one must hold before a status may be recorded.
Reasons(s) ==
  CASE s = "SCHEDULED" -> {"accepted"}
    [] s = "SUCCESS"   -> {"succeeded"}
    [] s = "ERROR"     -> {"failed", "lost"}
    [] s = "CANCEL"    -> {"cancelAsked"}
    [] s = "DELETE"    -> {"deleteAsked"}

Record(j, s) ==
  /\ status[j] # "absent"
  /\ facts[j] \cap Reasons(s) # {}
  /\ status' = [status EXCEPT ![j] = s]
  /\ UNCHANGED facts

Next ==
  \/ \E j \in Jobs : Submit(j)
  \/ \E J \in SUBSET Jobs,
        f \in {"accepted", "succeeded", "failed", "lost", "cancelAsked", "deleteAsked"} :
       Happens(J, f)
  \/ \E j \in Jobs, s \in {"SCHEDULED", "SUCCESS", "ERROR", "CANCEL", "DELETE"} :
       Record(j, s)

Spec == Init /\ [][Next]_vars

=============================================================================
