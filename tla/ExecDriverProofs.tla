-------------------------- MODULE ExecDriverProofs --------------------------
(***************************************************************************)
(* Theorems about ExecDriver, for any finite set of goroutines, any jobs,  *)
(* channel capacities and output, whatever fails.                          *)
(***************************************************************************)
EXTENDS ExecDriver, FiniteSetTheorems, SequenceTheorems, TLAPS

\* The reader holds the job of its request, and the process it found for a cancel; a
\* goroutine holds its job, and from the end of run() on an outcome.
Held ==
  /\ reader # "read" => request \in Jobs
  /\ reader \in {"signal", "flag"} => target \in Slots
  /\ \A s \in Slots :
       /\ pc[s] # "none" => job[s] \in Jobs
       /\ pc[s] \in {"remove", "lock", "report"} => status[s] \in Status

TypeInv == TypeOK /\ Held

Message == [type : {"accepted", "update", "done"}, slot : Slots \cup {NoSlot}]

LEMMA InitTypeInv == Init => TypeInv
BY ExecDriverAssumption DEF Init, TypeInv, TypeOK, Held, Exited, Status

LEMMA PushTyped ==
  ASSUME msgOutCh \in Seq(Message), NEW type \in {"accepted", "update", "done"},
         NEW s \in Slots \cup {NoSlot}, Push(type, s)
  PROVE  msgOutCh' \in Seq(Message)
<1>1. [type |-> type, slot |-> s] \in Message
  BY DEF Message
<1> QED BY <1>1, AppendProperties DEF Push

-----------------------------------------------------------------------------

LEMMA ReaderType ==
  ASSUME TypeInv,
         \/ Reader
         \/ \E j \in Jobs : ReadOffer(j) \/ GetProcess(j)
  PROVE  TypeInv'
<1> USE ExecDriverAssumption DEF TypeInv, TypeOK, Held, Exited, Status, Pipes, history,
                                 slotVars, readerVars
<1>1. ASSUME NEW j \in Jobs, ReadOffer(j)
      PROVE  TypeInv'
  BY <1>1 DEF ReadOffer
<1>2. ASSUME NEW j \in Jobs, GetProcess(j)
      PROVE  TypeInv'
  BY <1>2 DEF GetProcess
<1>3. CASE LockForAccept
  BY <1>3 DEF LockForAccept
<1>4. CASE acceptJobOffer
  <2>1. msgOutCh' \in Seq(Message)
    BY <1>4, PushTyped DEF acceptJobOffer, Message
  <2> QED BY <1>4, <2>1 DEF acceptJobOffer, Message
<1>5. CASE HandToRunner
  <2>1. newJobCh' \in Seq(Jobs)
    BY <1>5, AppendProperties DEF HandToRunner
  <2> QED BY <1>5, <2>1 DEF HandToRunner
<1>6. CASE Signal
  BY <1>6 DEF Signal
<1>7. CASE SignalFails
  BY <1>7 DEF SignalFails, CancelDone
<1>8. CASE SetInterrupted
  BY <1>8 DEF SetInterrupted, CancelDone
<1> QED BY <1>1, <1>2, <1>3, <1>4, <1>5, <1>6, <1>7, <1>8 DEF Reader

LEMMA RunType ==
  ASSUME TypeInv, NEW s \in Slots,
         run(s) \/ StartGoroutine(s) \/ onJobUpdate(s) \/ Exit(s)
         \/ \E p \in Pipes : PipeEnds(s, p)
  PROVE  TypeInv'
<1> USE ExecDriverAssumption DEF TypeInv, TypeOK, Held, Exited, Status, Pipes, history,
                                 slotVars, readerVars, Goto, Outcome
<1>1. CASE HasProcess(s)
  <2>1. /\ pc[s] = "test"
        /\ UNCHANGED <<reader, request, target, mutex, newJobCh, msgOutCh, job, process,
                       pipes, lines, interrupted, jobPidMap, hit, cancelled>>
    BY <1>1 DEF HasProcess
  <2>2. CASE pc' = [pc EXCEPT ![s] = "lock"] /\ status' = [status EXCEPT ![s] = "ERROR"]
    BY <2>1, <2>2
  <2>3. CASE pc' = [pc EXCEPT ![s] = "config"] /\ UNCHANGED status
    BY <2>1, <2>3
  <2> QED BY <1>1, <2>2, <2>3 DEF HasProcess
<1>2. CASE Refused(s)
  BY <1>2 DEF Refused
<1>3. CASE StartProcess(s)
  BY <1>3 DEF StartProcess
<1>4. CASE AddProcess(s)
  BY <1>4 DEF AddProcess
<1>5. CASE Wait(s)
  BY <1>5 DEF Wait
<1>6. CASE RemoveProcess(s)
  BY <1>6 DEF RemoveProcess
<1>7. CASE LockForDone(s)
  BY <1>7 DEF LockForDone
<1>8. CASE handleJobDone(s)
  <2>1. msgOutCh' \in Seq(Message)
    BY <1>8, PushTyped DEF handleJobDone, Message
  <2> QED BY <1>8, <2>1 DEF handleJobDone, Unlocked, Message
<1>9. CASE StartGoroutine(s)
  <2>1. Head(newJobCh) \in Jobs /\ newJobCh' \in Seq(Jobs)
    BY <1>9, HeadTailProperties DEF StartGoroutine
  <2> QED BY <1>9, <2>1 DEF StartGoroutine, Unused
<1>10. CASE onJobUpdate(s)
  <2>1. msgOutCh' \in Seq(Message)
    BY <1>10, PushTyped DEF onJobUpdate, Message
  <2> QED BY <1>10, <2>1 DEF onJobUpdate, Message
<1>11. CASE Exit(s)
  BY <1>11 DEF Exit
<1>12. ASSUME NEW p \in Pipes, PipeEnds(s, p)
       PROVE  TypeInv'
  BY <1>12 DEF PipeEnds
<1> QED BY <1>1, <1>2, <1>3, <1>4, <1>5, <1>6, <1>7, <1>8, <1>9, <1>10, <1>11, <1>12
        DEF run

LEMMA TypeStep == TypeInv /\ [Next]_vars => TypeInv'
<1> SUFFICES ASSUME TypeInv, [Next]_vars
             PROVE  TypeInv'
  OBVIOUS
<1>1. CASE UNCHANGED vars
  BY <1>1 DEF vars, readerVars, slotVars, history, TypeInv, TypeOK, Held
<1>2. CASE Write
  <2>1. msgOutCh' \in Seq(Message)
    BY <1>2, HeadTailProperties DEF Write, TypeInv, TypeOK, Message
  <2> QED BY <1>2, <2>1 DEF Write, readerVars, slotVars, history, TypeInv, TypeOK, Held,
                            Message
<1> QED BY <1>1, <1>2, ReaderType, RunType DEF Next

\* Every variable keeps its type, and the lock of the running jobs is held by one who is
\* about to give it back (agent/agent.go:86-97, 250-262).
THEOREM TypeCorrect == Spec => []TypeOK
<1>1. TypeInv => TypeOK
  BY DEF TypeInv
<1> QED BY <1>1, InitTypeInv, TypeStep, PTL DEF Spec

-----------------------------------------------------------------------------

LEMMA EntryStep == TypeInv /\ EntryIsExecuted /\ [Next]_vars => EntryIsExecuted'
<1> SUFFICES ASSUME TypeInv, EntryIsExecuted, [Next]_vars,
                    NEW j \in Jobs, jobPidMap'[j] # NoSlot
             PROVE  job'[jobPidMap'[j]] = j /\ pc'[jobPidMap'[j]] \in {"run", "remove"}
  BY DEF EntryIsExecuted
<1> DEFINE Kept == job'[jobPidMap'[j]] = j /\ pc'[jobPidMap'[j]] \in {"run", "remove"}
<1>a. /\ pc \in [Slots -> {"none", "test", "config", "add", "run", "remove", "lock", "report"}]
      /\ job \in [Slots -> Jobs \cup {NoJob}]
      /\ jobPidMap \in [Jobs -> Slots \cup {NoSlot}]
      /\ \A s \in Slots : pc[s] # "none" => job[s] \in Jobs
  BY DEF TypeInv, TypeOK, Held
<1>b. jobPidMap[j] # NoSlot =>
        /\ jobPidMap[j] \in Slots
        /\ job[jobPidMap[j]] = j
        /\ pc[jobPidMap[j]] \in {"run", "remove"}
  BY <1>a DEF EntryIsExecuted
<1>1. ASSUME UNCHANGED <<pc, job, jobPidMap>>
      PROVE  Kept
  BY <1>b, <1>1
\* A step of a goroutine that is not in run() leaves the others and the map alone.
<1>2. ASSUME NEW s \in Slots, pc[s] \notin {"run", "remove"}, UNCHANGED jobPidMap,
             \A t \in Slots \ {s} : pc'[t] = pc[t] /\ job'[t] = job[t]
      PROVE  Kept
  BY <1>b, <1>2
<1>3. CASE UNCHANGED vars \/ Write \/ Reader
  BY <1>1, <1>3 DEF vars, slotVars, Write, Reader, LockForAccept, acceptJobOffer, HandToRunner,
                    Signal, SignalFails, SetInterrupted
<1>4. ASSUME NEW i \in Jobs, ReadOffer(i) \/ GetProcess(i)
      PROVE  Kept
  BY <1>1, <1>4 DEF ReadOffer, GetProcess, slotVars
<1>5. ASSUME NEW s \in Slots
      PROVE  /\ onJobUpdate(s) \/ Exit(s) => Kept
             /\ \A p \in Pipes : PipeEnds(s, p) => Kept
  BY <1>1 DEF onJobUpdate, Exit, PipeEnds
<1>6. ASSUME NEW s \in Slots,
             \/ StartGoroutine(s) \/ HasProcess(s) \/ Refused(s) \/ StartProcess(s)
             \/ LockForDone(s) \/ handleJobDone(s)
      PROVE  Kept
  BY <1>a, <1>2, <1>6 DEF StartGoroutine, Unused, HasProcess, Refused, StartProcess, LockForDone,
                    handleJobDone, Goto
<1>7. ASSUME NEW s \in Slots, AddProcess(s)
      PROVE  Kept
  BY <1>a, <1>b, <1>7 DEF AddProcess, Goto
<1>8. ASSUME NEW s \in Slots, Wait(s)
      PROVE  Kept
  BY <1>a, <1>b, <1>8 DEF Wait, Goto
<1>9. ASSUME NEW s \in Slots, RemoveProcess(s)
      PROVE  Kept
  BY <1>a, <1>b, <1>9, ExecDriverAssumption DEF RemoveProcess, Goto
<1> QED BY <1>3, <1>4, <1>5, <1>6, <1>7, <1>8, <1>9 DEF Next, run

\* A process in the map belongs to an execution that is in run() and will take it out,
\* whoever else passes the test of HasProcess (agent/drivers/exec.go:99, 160-161).
THEOREM EntriesAreExecuted == Spec => []EntryIsExecuted
<1>1. Init => EntryIsExecuted
  BY DEF Init, EntryIsExecuted
<1> QED BY <1>1, InitTypeInv, TypeStep, EntryStep, PTL DEF Spec

-----------------------------------------------------------------------------

\* A goroutine that has not registered its process has not been interrupted.
NotInterruptedYet ==
  \A s \in Slots : pc[s] \in {"test", "config", "add"} => ~interrupted[s]

\* What is reported as cancelled was in progress when a cancel sent its signal.
CancelIsHit ==
  \A s \in Slots :
    /\ hit[s] => pc[s] # "none"
    /\ status[s] = "CANCEL" => hit[s]

\* So was whoever would find the flag of the registered process set.
InterruptionIsHit ==
  \A s \in Slots : pc[s] \in {"config", "add", "run"} /\ Interruption(s) => hit[s]

\* The process a cancel is about was registered once, for the job of the request, and is
\* not registered again.
TargetIsRegistered ==
  reader \in {"signal", "flag"} =>
    /\ pc[target] \notin {"test", "config", "add"}
    /\ \A j \in Jobs : jobPidMap[j] = target => j = request

\* Between the signal and the flag, whoever will see the flag has been hit.
TargetIsHit ==
  reader = "flag" =>
    \A s \in Slots :
      pc[s] \in {"config", "add", "run"} /\ jobPidMap[job[s]] = target => hit[s]

CancelInv ==
  NotInterruptedYet /\ CancelIsHit /\ InterruptionIsHit /\ TargetIsRegistered /\ TargetIsHit

IInv == TypeInv /\ EntryIsExecuted /\ CancelInv

LEMMA InitIInv == Init => IInv
<1> SUFFICES ASSUME Init
             PROVE  IInv
  OBVIOUS
<1>1. EntryIsExecuted
  BY DEF Init, EntryIsExecuted
<1>2. CancelInv
  BY DEF Init, CancelInv, NotInterruptedYet, CancelIsHit, InterruptionIsHit,
         TargetIsRegistered, TargetIsHit
<1> QED BY <1>1, <1>2, InitTypeInv DEF IInv

\* The types CancelInv needs.
Types ==
  /\ pc \in [Slots -> {"none", "test", "config", "add", "run", "remove", "lock", "report"}]
  /\ job \in [Slots -> Jobs \cup {NoJob}]
  /\ jobPidMap \in [Jobs -> Slots \cup {NoSlot}]
  /\ interrupted \in [Slots -> BOOLEAN]
  /\ hit \in [Slots -> BOOLEAN]
  /\ status \in [Slots -> Status \cup {"none"}]
  /\ \A s \in Slots : pc[s] # "none" => job[s] \in Jobs
  /\ reader # "read" => request \in Jobs
  /\ reader \in {"signal", "flag"} => target \in Slots
  /\ NoSlot \notin Slots

LEMMA TypesHold == TypeInv => Types
BY ExecDriverAssumption DEF TypeInv, TypeOK, Held, Types

LEMMA CancelReader ==
  ASSUME IInv, Reader \/ \E j \in Jobs : ReadOffer(j) \/ GetProcess(j)
  PROVE  CancelInv'
<1>0. Types
  BY TypesHold DEF IInv
<1> USE <1>0 DEF IInv, CancelInv, NotInterruptedYet, CancelIsHit, InterruptionIsHit,
                 TargetIsRegistered, TargetIsHit, Interruption, Types, slotVars, readerVars,
                 history
<1>1. ASSUME NEW j \in Jobs, ReadOffer(j)
      PROVE  CancelInv'
  BY <1>1 DEF ReadOffer
<1>2. ASSUME NEW j \in Jobs, GetProcess(j)
      PROVE  CancelInv'
  BY <1>2 DEF GetProcess, EntryIsExecuted
<1>3. CASE LockForAccept
  BY <1>3 DEF LockForAccept
<1>4. CASE acceptJobOffer
  BY <1>4 DEF acceptJobOffer
<1>5. CASE HandToRunner
  BY <1>5 DEF HandToRunner
<1>6. CASE Signal
  BY <1>6 DEF Signal, Executing
<1>7. CASE SignalFails
  BY <1>7 DEF SignalFails, CancelDone
<1>8. CASE SetInterrupted
  BY <1>8 DEF SetInterrupted, CancelDone
<1> QED BY <1>1, <1>2, <1>3, <1>4, <1>5, <1>6, <1>7, <1>8 DEF Reader

LEMMA CancelRun ==
  ASSUME IInv, NEW s \in Slots,
         run(s) \/ StartGoroutine(s) \/ onJobUpdate(s) \/ Exit(s)
         \/ \E p \in Pipes : PipeEnds(s, p)
  PROVE  CancelInv'
<1>0. Types
  BY TypesHold DEF IInv
<1> USE <1>0 DEF IInv, CancelInv, NotInterruptedYet, CancelIsHit, InterruptionIsHit,
                 TargetIsRegistered, TargetIsHit, Interruption, Types, readerVars, history,
                 Goto, Outcome
<1>1. CASE HasProcess(s)
  BY <1>1 DEF HasProcess
<1>2. CASE Refused(s)
  BY <1>2 DEF Refused
<1>3. CASE StartProcess(s)
  BY <1>3 DEF StartProcess
<1>4. CASE AddProcess(s)
  BY <1>4 DEF AddProcess
<1>5. CASE Wait(s)
  BY <1>5 DEF Wait, Exited
<1>6. CASE RemoveProcess(s)
  BY <1>6 DEF RemoveProcess
<1>7. CASE LockForDone(s)
  BY <1>7 DEF LockForDone
<1>8. CASE handleJobDone(s)
  BY <1>8 DEF handleJobDone
<1>9. CASE StartGoroutine(s)
  BY <1>9 DEF StartGoroutine, Unused
<1>10. CASE onJobUpdate(s)
  BY <1>10 DEF onJobUpdate
<1>11. CASE Exit(s)
  BY <1>11 DEF Exit
<1>12. ASSUME NEW p \in Pipes, PipeEnds(s, p)
       PROVE  CancelInv'
  BY <1>12 DEF PipeEnds
<1> QED BY <1>1, <1>2, <1>3, <1>4, <1>5, <1>6, <1>7, <1>8, <1>9, <1>10, <1>11, <1>12
        DEF run

LEMMA IInvStep == IInv /\ [Next]_vars => IInv'
<1> SUFFICES ASSUME IInv, [Next]_vars
             PROVE  IInv'
  OBVIOUS
<1>1. TypeInv' /\ EntryIsExecuted'
  BY TypeStep, EntryStep DEF IInv
<1>2. ASSUME UNCHANGED vars \/ Write
      PROVE  CancelInv'
  BY <1>2 DEF vars, readerVars, slotVars, history, Write, IInv, CancelInv, NotInterruptedYet,
              CancelIsHit, InterruptionIsHit, TargetIsRegistered, TargetIsHit, Interruption
<1>3. CancelInv'
  BY <1>2, CancelReader, CancelRun DEF Next, IInv
<1> QED BY <1>1, <1>3 DEF IInv

-----------------------------------------------------------------------------
(* The refinement. *)

Hit(j) == {s \in Executing(j) : hit[s]}

LEMMA Finite ==
  ASSUME NEW j
  PROVE  /\ IsFiniteSet(Executing(j)) /\ Cardinality(Executing(j)) \in Nat
         /\ IsFiniteSet(Hit(j)) /\ Cardinality(Hit(j)) \in Nat
<1>1. IsFiniteSet(Executing(j)) /\ IsFiniteSet(Hit(j))
  BY ExecDriverAssumption, FS_Subset DEF Executing, Hit
<1> QED BY <1>1, FS_CardinalityType

\* The variables of Executions keep their values when nothing is started, hit or ended.
LEMMA Stutter ==
  ASSUME \A j \in Jobs : Executing(j)' = Executing(j) /\ Hit(j)' = Hit(j),
         cancelled' = cancelled
  PROVE  UNCHANGED E!vars
<1>1. \A j \in Jobs : {s \in Executing(j) : hit[s]}' = {s \in Executing(j) : hit[s]}
  BY DEF Hit
<1> QED BY <1>1 DEF E!vars

LEMMA StartRefines ==
  ASSUME IInv, NEW s \in Slots, StartGoroutine(s)
  PROVE  E!Next
<1>1. Types
  BY TypesHold DEF IInv
<1>2. Head(newJobCh) \in Jobs
  BY HeadTailProperties DEF StartGoroutine, IInv, TypeInv, TypeOK
<1> PICK j \in Jobs : j = Head(newJobCh)
  BY <1>2
<1>3. /\ pc[s] = "none" /\ ~hit[s]
      /\ pc' = [pc EXCEPT ![s] = "test"] /\ job' = [job EXCEPT ![s] = j]
      /\ hit' = hit /\ cancelled' = cancelled
  BY DEF StartGoroutine, Unused, Goto, history, IInv, CancelInv, CancelIsHit
<1>4. Executing(j)' = Executing(j) \cup {s} /\ s \notin Executing(j)
  BY <1>1, <1>3 DEF Executing, Types
<1>5. \A i \in Jobs \ {j} : Executing(i)' = Executing(i)
  BY <1>1, <1>3 DEF Executing, Types
<1>6. \A i \in Jobs : Hit(i)' = Hit(i)
  BY <1>3, <1>4, <1>5 DEF Hit
<1>7. Cardinality(Executing(j)') = Cardinality(Executing(j)) + 1
  BY <1>4, Finite, FS_AddElement
<1>8. E!Start(j)
  BY <1>3, <1>5, <1>6, <1>7 DEF E!Start, Hit
<1> QED BY <1>8 DEF E!Next

LEMMA SignalRefines ==
  ASSUME IInv, Signal
  PROVE  E!Next
<1>1. Types
  BY TypesHold DEF IInv
<1>2. request \in Jobs
  BY <1>1 DEF Signal, Types
<1> PICK j \in Jobs : j = request
  BY <1>2
<1>3. /\ hit' = [s \in Slots |-> hit[s] \/ s \in Executing(j)]
      /\ pc' = pc /\ job' = job /\ cancelled' = cancelled
  BY DEF Signal
<1>4. \A i \in Jobs : Executing(i)' = Executing(i)
  BY <1>3 DEF Executing
<1>5. \A s \in Slots : hit'[s] <=> hit[s] \/ s \in Executing(j)
  BY <1>1, <1>3 DEF Types
<1>6. \A i \in Jobs : Executing(i) \subseteq Slots
  BY DEF Executing
<1>7. \A i \in Jobs \ {j} : Hit(i)' = Hit(i)
  <2>1. \A i \in Jobs \ {j} : Executing(i) \cap Executing(j) = {}
    BY DEF Executing
  <2> QED BY <1>4, <1>5, <1>6, <2>1 DEF Hit
<1>8. Hit(j)' = Executing(j)
  BY <1>4, <1>5, <1>6 DEF Hit
<1>9. Cardinality(Hit(j)) <= Cardinality(Executing(j))
  BY Finite, FS_Subset DEF Hit
<1>10. E!Cancel(j)
  <2>1. PICK n \in Cardinality(Hit(j)) .. Cardinality(Executing(j)) : n = Cardinality(Hit(j)')
    BY <1>8, <1>9, Finite
  <2>2. [i \in Jobs |-> Cardinality(Hit(i))]'
          = [[i \in Jobs |-> Cardinality(Hit(i))] EXCEPT ![j] = n]
    BY <1>7, <2>1
  <2>3. [i \in Jobs |-> Cardinality(Executing(i))]' = [i \in Jobs |-> Cardinality(Executing(i))]
    BY <1>4
  <2>4. n \in [i \in Jobs |-> Cardinality(Hit(i))][j]
               .. [i \in Jobs |-> Cardinality(Executing(i))][j]
    OBVIOUS
  <2>5. [i \in Jobs |-> Cardinality(Hit(i))]' \in
          {[[i \in Jobs |-> Cardinality(Hit(i))] EXCEPT ![j] = m] :
             m \in [i \in Jobs |-> Cardinality(Hit(i))][j]
                     .. [i \in Jobs |-> Cardinality(Executing(i))][j]}
    BY <2>2, <2>4
  <2> QED BY <1>3, <2>3, <2>5 DEF E!Cancel, Hit
<1> QED BY <1>10 DEF E!Next

LEMMA DoneRefines ==
  ASSUME IInv, NEW s \in Slots, handleJobDone(s)
  PROVE  E!Next
<1>1. Types
  BY TypesHold DEF IInv
<1>2. /\ pc[s] = "report" /\ job[s] \in Jobs /\ status[s] \in Status
      /\ status[s] = "CANCEL" => hit[s]
  BY <1>1 DEF handleJobDone, Types, IInv, TypeInv, Held, CancelInv, CancelIsHit
<1> PICK j \in Jobs : j = job[s]
  BY <1>2
<1> PICK h \in {0, 1} : h = IF hit[s] THEN 1 ELSE 0
  OBVIOUS
<1>3. /\ pc' = [pc EXCEPT ![s] = "none"] /\ job' = [job EXCEPT ![s] = NoJob]
      /\ hit' = [hit EXCEPT ![s] = FALSE]
      /\ cancelled' = IF status[s] = "CANCEL" THEN cancelled \cup {j} ELSE cancelled
  BY DEF handleJobDone, Goto
<1>4. Executing(j)' = Executing(j) \ {s} /\ s \in Executing(j)
  BY <1>1, <1>2, <1>3 DEF Executing, Types
<1>5. \A i \in Jobs \ {j} : Executing(i)' = Executing(i) /\ s \notin Executing(i)
  BY <1>1, <1>2, <1>3 DEF Executing, Types
<1>6. \A t \in Slots : hit'[t] <=> hit[t] /\ t # s
  BY <1>1, <1>3 DEF Types
<1>7. /\ Hit(j)' = Hit(j) \ {s}
      /\ \A i \in Jobs \ {j} : Hit(i)' = Hit(i)
  <2>1. \A i \in Jobs : Executing(i) \subseteq Slots
    BY DEF Executing
  <2> QED BY <1>4, <1>5, <1>6, <2>1 DEF Hit
<1>8. /\ Cardinality(Executing(j)') = Cardinality(Executing(j)) - 1
      /\ Cardinality(Executing(j)) > 0
  BY <1>4, Finite, FS_RemoveElement, FS_EmptySet
<1>9. Cardinality(Hit(j)') = Cardinality(Hit(j)) - h /\ h <= Cardinality(Hit(j))
  <2>1. CASE hit[s]
    <3>1. s \in Hit(j) /\ h = 1
      BY <1>4, <2>1 DEF Hit
    <3> QED BY <1>7, <3>1, Finite, FS_RemoveElement, FS_EmptySet
  <2>2. CASE ~hit[s]
    <3>1. s \notin Hit(j) /\ h = 0
      BY <2>2 DEF Hit
    <3>2. Hit(j)' = Hit(j)
      BY <1>7, <3>1
    <3> QED BY <3>1, <3>2, Finite
  <2> QED BY <2>1, <2>2
<1>10. Cardinality(Hit(j)') <= Cardinality(Executing(j)) - 1
  <2>1. Hit(j)' \subseteq Executing(j)' /\ IsFiniteSet(Executing(j)')
    BY <1>4, Finite, FS_Subset DEF Hit
  <2> QED BY <1>8, <2>1, FS_Subset
<1>11. E!End(j, status[s], h)
  <2>1. [i \in Jobs |-> Cardinality(Executing(i))]'
          = [[i \in Jobs |-> Cardinality(Executing(i))] EXCEPT ![j] = @ - 1]
    BY <1>5, <1>8
  <2>2. [i \in Jobs |-> Cardinality(Hit(i))]'
          = [[i \in Jobs |-> Cardinality(Hit(i))] EXCEPT ![j] = @ - h]
    BY <1>7, <1>9
  <2>3. Cardinality(Hit(j)) - h <= Cardinality(Executing(j)) - 1
    BY <1>9, <1>10
  <2> QED BY <1>2, <1>3, <1>8, <1>9, <2>1, <2>2, <2>3 DEF E!End, Hit
<1> QED BY <1>2, <1>11 DEF E!Next, Status

LEMMA NextRefines == IInv /\ [Next]_vars => [E!Next]_(E!vars)
<1> SUFFICES ASSUME IInv, [Next]_vars
             PROVE  E!Next \/ UNCHANGED E!vars
  OBVIOUS
<1>0. Types
  BY TypesHold DEF IInv
\* Most steps move a goroutine that goes on with its job.
<1>1. ASSUME UNCHANGED <<job, hit, cancelled>>,
             \A s \in Slots : pc'[s] = "none" <=> pc[s] = "none"
      PROVE  UNCHANGED E!vars
  <2>1. \A j \in Jobs : Executing(j)' = Executing(j)
    BY <1>1 DEF Executing
  <2>2. \A j \in Jobs : Hit(j)' = Hit(j)
    BY <1>1, <2>1 DEF Hit
  <2> QED BY <1>1, <2>1, <2>2, Stutter
<1>2. CASE UNCHANGED vars \/ Write
  BY <1>1, <1>2 DEF vars, slotVars, history, Write
<1>3. CASE Signal
  BY <1>3, SignalRefines
<1>4. CASE \/ LockForAccept \/ acceptJobOffer \/ HandToRunner \/ SignalFails
           \/ SetInterrupted \/ \E j \in Jobs : ReadOffer(j) \/ GetProcess(j)
  BY <1>1, <1>4 DEF LockForAccept, acceptJobOffer, HandToRunner, SignalFails, SetInterrupted,
                    ReadOffer, GetProcess, slotVars, history
<1>5. ASSUME NEW s \in Slots, StartGoroutine(s) \/ handleJobDone(s)
      PROVE  E!Next
  BY <1>5, StartRefines, DoneRefines
<1>6. ASSUME NEW s \in Slots,
             \/ HasProcess(s) \/ Refused(s) \/ StartProcess(s) \/ AddProcess(s)
             \/ Wait(s) \/ RemoveProcess(s) \/ LockForDone(s)
      PROVE  UNCHANGED E!vars
  <2>1. UNCHANGED <<job, hit, cancelled>>
    BY <1>6 DEF HasProcess, Refused, StartProcess, AddProcess, Wait, RemoveProcess,
                LockForDone, history
  <2>2. \A t \in Slots : pc'[t] = "none" <=> pc[t] = "none"
    BY <1>0, <1>6 DEF HasProcess, Refused, StartProcess, AddProcess, Wait, RemoveProcess,
                      LockForDone, Goto, Types
  <2> QED BY <1>1, <2>1, <2>2
<1>7. ASSUME NEW s \in Slots,
             onJobUpdate(s) \/ Exit(s) \/ \E p \in Pipes : PipeEnds(s, p)
      PROVE  UNCHANGED E!vars
  BY <1>1, <1>7 DEF onJobUpdate, Exit, PipeEnds, history
<1> QED BY <1>2, <1>3, <1>4, <1>5, <1>6, <1>7 DEF Next, Reader, run

LEMMA InitRefines == Init => E!Init
<1> SUFFICES ASSUME Init
             PROVE  E!Init
  OBVIOUS
<1>1. \A j \in Jobs : Executing(j) = {} /\ Hit(j) = {}
  BY DEF Init, Executing, Hit
<1>2. \A j \in Jobs : Cardinality(Executing(j)) = 0 /\ Cardinality(Hit(j)) = 0
  BY <1>1, FS_EmptySet
<1> QED BY <1>2 DEF Init, E!Init, Hit

\* The runner and the exec driver, step by step, do what Agent assumes of them: an
\* execution is reported as cancelled only when a cancel of its job sent its signal
\* while it was in progress (agent/drivers/exec.go:75-91, 125-150).
THEOREM ExecutionsImplemented == Spec => ImplementsExecutions
<1>1. Spec => []IInv
  BY InitIInv, IInvStep, PTL DEF Spec
<1> QED BY <1>1, InitRefines, NextRefines, PTL DEF Spec, ImplementsExecutions, E!Spec

-----------------------------------------------------------------------------

\* Only run() reads a pipe, and it does not end before they are read.
PipesInv == \A s \in Slots : pipes[s] # {} => pc[s] = "run"

LEMMA PipesStep == TypeInv /\ PipesInv /\ [Next]_vars => PipesInv'
<1> SUFFICES ASSUME TypeInv, PipesInv, [Next]_vars, NEW t \in Slots, pipes'[t] # {}
             PROVE  pc'[t] = "run"
  BY DEF PipesInv
<1>a. /\ pc \in [Slots -> {"none", "test", "config", "add", "run", "remove", "lock", "report"}]
      /\ pipes \in [Slots -> SUBSET Pipes]
  BY DEF TypeInv, TypeOK
<1>b. pipes[t] # {} => pc[t] = "run"
  BY DEF PipesInv
<1>1. CASE UNCHANGED <<pc, pipes>>
  BY <1>b, <1>1
<1>2. CASE UNCHANGED vars \/ Write \/ Reader \/ \E j \in Jobs : ReadOffer(j) \/ GetProcess(j)
  BY <1>1, <1>2 DEF vars, slotVars, Write, Reader, LockForAccept, acceptJobOffer, HandToRunner,
                    Signal, SignalFails, SetInterrupted, ReadOffer, GetProcess
<1>3. ASSUME NEW s \in Slots, onJobUpdate(s) \/ Exit(s)
      PROVE  pc'[t] = "run"
  BY <1>1, <1>3 DEF onJobUpdate, Exit
<1>4. ASSUME NEW s \in Slots, NEW p \in Pipes, PipeEnds(s, p)
      PROVE  pc'[t] = "run"
  BY <1>a, <1>b, <1>4 DEF PipeEnds
<1>5. ASSUME NEW s \in Slots, AddProcess(s)
      PROVE  pc'[t] = "run"
  BY <1>a, <1>b, <1>5 DEF AddProcess, Goto
<1>6. ASSUME NEW s \in Slots, Wait(s)
      PROVE  pc'[t] = "run"
  BY <1>a, <1>b, <1>6 DEF Wait, PipesRead, Goto
<1>7. ASSUME NEW s \in Slots,
             \/ StartGoroutine(s) \/ HasProcess(s) \/ Refused(s) \/ StartProcess(s)
             \/ RemoveProcess(s) \/ LockForDone(s) \/ handleJobDone(s)
      PROVE  pc'[t] = "run"
  <2>1. pipes' = pipes /\ pc[s] # "run" /\ \A u \in Slots \ {s} : pc'[u] = pc[u]
    BY <1>a, <1>7 DEF StartGoroutine, Unused, HasProcess, Refused, StartProcess,
                      RemoveProcess, LockForDone, handleJobDone, Goto
  <2> QED BY <1>b, <2>1
<1> QED BY <1>2, <1>3, <1>4, <1>5, <1>6, <1>7 DEF Next, run

\* Message i of the channel is no output, or that of an execution that goes on or ends
\* behind it.
Announced(i) ==
  msgOutCh[i].type = "update" =>
    /\ msgOutCh[i].slot \in Slots
    /\ \/ pc[msgOutCh[i].slot] # "none"
       \/ \E k \in i + 1 .. Len(msgOutCh) :
            msgOutCh[k].type = "done" /\ msgOutCh[k].slot = msgOutCh[i].slot

OutputInv == \A i \in DOMAIN msgOutCh : Announced(i)

LEMMA OutputStep == TypeInv /\ PipesInv /\ OutputInv /\ [Next]_vars => OutputInv'
<1> SUFFICES ASSUME TypeInv, PipesInv, OutputInv, [Next]_vars, NEW i \in DOMAIN msgOutCh'
             PROVE  Announced(i)'
  BY DEF OutputInv
<1>a. /\ pc \in [Slots -> {"none", "test", "config", "add", "run", "remove", "lock", "report"}]
      /\ msgOutCh \in Seq(Message)
  BY DEF TypeInv, TypeOK, Message
<1>1. ASSUME msgOutCh' = msgOutCh, \A s \in Slots : pc[s] # "none" => pc'[s] # "none"
      PROVE  Announced(i)'
  BY <1>1 DEF OutputInv, Announced
\* A message is added, and only with the last one an execution may end.
<1>2. ASSUME NEW type, NEW s \in Slots \cup {NoSlot}, Push(type, s),
             type = "update" => s \in Slots /\ pc'[s] # "none",
             \A t \in Slots : pc[t] # "none" => pc'[t] # "none" \/ (type = "done" /\ t = s)
      PROVE  Announced(i)'
  <2>1. /\ Len(msgOutCh') = Len(msgOutCh) + 1
        /\ msgOutCh'[Len(msgOutCh) + 1] = [type |-> type, slot |-> s]
        /\ \A k \in 1 .. Len(msgOutCh) : msgOutCh'[k] = msgOutCh[k]
        /\ Len(msgOutCh) \in Nat /\ i \in 1 .. Len(msgOutCh) + 1
    BY <1>a, <1>2 DEF Push
  <2>2. CASE i = Len(msgOutCh) + 1
    BY <1>2, <2>1, <2>2 DEF Announced
  <2>3. CASE i \in 1 .. Len(msgOutCh)
    <3>1. Announced(i)
      BY <2>3, <1>a DEF OutputInv
    <3>2. msgOutCh'[i] = msgOutCh[i]
      BY <2>1, <2>3
    <3>3. ASSUME NEW k \in i + 1 .. Len(msgOutCh)
          PROVE  k \in i + 1 .. Len(msgOutCh') /\ msgOutCh'[k] = msgOutCh[k]
      BY <2>1, <2>3
    <3>4. Len(msgOutCh) + 1 \in i + 1 .. Len(msgOutCh')
      BY <2>1, <2>3
    <3>5. CASE msgOutCh[i].type # "update"
      BY <3>2, <3>5 DEF Announced
    <3>6. CASE pc[msgOutCh[i].slot] = "none"
      BY <2>1, <3>1, <3>2, <3>3, <3>6 DEF Announced
    <3>7. CASE msgOutCh[i].type = "update" /\ pc'[msgOutCh[i].slot] # "none"
      BY <3>1, <3>2, <3>7 DEF Announced
    <3>8. CASE type = "done" /\ s = msgOutCh[i].slot
      BY <2>1, <3>1, <3>2, <3>4, <3>8 DEF Announced
    <3> QED BY <1>2, <3>1, <3>5, <3>6, <3>7, <3>8 DEF Announced
  <2> QED BY <2>1, <2>2, <2>3
<1>3. CASE Write
  <2>1. /\ Len(msgOutCh') = Len(msgOutCh) - 1
        /\ \A k \in 1 .. Len(msgOutCh') : msgOutCh'[k] = msgOutCh[k + 1]
        /\ Len(msgOutCh) \in Nat \ {0} /\ i \in 1 .. Len(msgOutCh')
    <3>1. msgOutCh # <<>> /\ msgOutCh' = Tail(msgOutCh)
      BY <1>3 DEF Write
    <3>2. Len(msgOutCh) \in Nat /\ Len(msgOutCh) # 0
      BY <1>a, <3>1, EmptySeq
    <3> QED BY <1>a, <3>1, <3>2, HeadTailProperties
  <2>2. Announced(i + 1)
    BY <1>a, <2>1 DEF OutputInv
  <2>3. ASSUME NEW k \in i + 2 .. Len(msgOutCh)
        PROVE  k - 1 \in i + 1 .. Len(msgOutCh') /\ msgOutCh'[k - 1] = msgOutCh[k]
    BY <2>1
  <2>4. pc' = pc
    BY <1>3 DEF Write, slotVars
  <2>5. msgOutCh'[i] = msgOutCh[i + 1]
    BY <2>1
  <2>6. CASE msgOutCh[i + 1].type # "update" \/ pc[msgOutCh[i + 1].slot] # "none"
    BY <2>2, <2>4, <2>5, <2>6 DEF Announced
  <2>7. ASSUME msgOutCh[i + 1].slot \in Slots,
               NEW k \in i + 2 .. Len(msgOutCh),
               msgOutCh[k].type = "done", msgOutCh[k].slot = msgOutCh[i + 1].slot
        PROVE  Announced(i)'
    BY <2>3, <2>5, <2>7 DEF Announced
  <2>8. i + 1 + 1 = i + 2
    BY <2>1
  <2> QED BY <2>2, <2>6, <2>7, <2>8 DEF Announced
<1>4. CASE UNCHANGED vars
  BY <1>1, <1>4 DEF vars, slotVars
<1>5. CASE \/ LockForAccept \/ HandToRunner \/ Signal \/ SignalFails \/ SetInterrupted
           \/ \E j \in Jobs : ReadOffer(j) \/ GetProcess(j)
  BY <1>1, <1>5 DEF LockForAccept, HandToRunner, Signal, SignalFails, SetInterrupted,
                    ReadOffer, GetProcess, slotVars
<1>6. CASE acceptJobOffer
  BY <1>2, <1>6 DEF acceptJobOffer, slotVars
<1>7. ASSUME NEW s \in Slots, onJobUpdate(s)
      PROVE  Announced(i)'
  BY <1>2, <1>7 DEF onJobUpdate, PipesInv
<1>8. ASSUME NEW s \in Slots, handleJobDone(s)
      PROVE  Announced(i)'
  <2>1. \A t \in Slots : pc[t] # "none" => pc'[t] # "none" \/ t = s
    BY <1>a, <1>8 DEF handleJobDone, Goto
  <2> QED BY <1>2, <1>8, <2>1 DEF handleJobDone
<1>9. ASSUME NEW s \in Slots,
             \/ StartGoroutine(s) \/ HasProcess(s) \/ Refused(s) \/ StartProcess(s)
             \/ AddProcess(s) \/ Wait(s) \/ RemoveProcess(s) \/ LockForDone(s)
             \/ Exit(s) \/ \E p \in Pipes : PipeEnds(s, p)
      PROVE  Announced(i)'
  <2>1. msgOutCh' = msgOutCh
    BY <1>9 DEF StartGoroutine, HasProcess, Refused, StartProcess, AddProcess, Wait,
                RemoveProcess, LockForDone, Exit, PipeEnds
  <2>2. \A t \in Slots : pc[t] # "none" => pc'[t] # "none"
    BY <1>a, <1>9 DEF StartGoroutine, HasProcess, Refused, StartProcess, AddProcess, Wait,
                      RemoveProcess, LockForDone, Exit, PipeEnds, Goto
  <2> QED BY <1>1, <2>1, <2>2
<1> QED BY <1>3, <1>4, <1>5, <1>6, <1>7, <1>8, <1>9 DEF Next, Reader, run

\* A line of output is on its way before the end of its execution, whichever of the
\* goroutines that send them comes first (agent/drivers/exec.go:163-208).
THEOREM OutputComesFirst == Spec => []OutputBeforeEnd
<1>1. Init => PipesInv /\ OutputInv
  BY DEF Init, PipesInv, OutputInv
<1>2. OutputInv => OutputBeforeEnd
  BY DEF OutputInv, Announced, OutputBeforeEnd
<1> QED BY <1>1, <1>2, InitTypeInv, TypeStep, PipesStep, OutputStep, PTL DEF Spec

=============================================================================
