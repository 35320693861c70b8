--------------------------- MODULE RecordingProofs ---------------------------
(***************************************************************************)
(* What a webhook tells agrees with the table: theorems about Recording    *)
(* for any number of jobs and agents, of statements and files that fail.   *)
(***************************************************************************)
EXTENDS Recording, TLAPS

-----------------------------------------------------------------------------
(* The calls that a handler has still to make. *)

\* What the table has had of a job before its "create" is sent, by goroutine g.
Needs(g) == {<<"status", "SCHEDULED">>, <<"agent", g>>}

\* Before each "create" that is still to come, this is stored, or will be.
CreateComes(g, calls, st) ==
  \A i \in 1 .. Len(calls) :
    calls[i].do = "event" /\ calls[i].val = "create" =>
      \A w \in Needs(g) :
        \/ w \in st[calls[i].job]
        \/ \E k \in 1 .. Len(calls) :
             k < i /\ calls[k].job = calls[i].job /\ <<calls[k].do, calls[k].val>> = w

Tells(e, j, status) == e.job = j /\ e.event = EventOf(status)

\* Before each end that is still to be stored, its event is sent, or will be.
EndComes(calls, an) ==
  \A i \in 1 .. Len(calls) :
    calls[i].do = "status" /\ calls[i].val \in {"SUCCESS", "ERROR"} =>
      \/ \E e \in an : Tells(e, calls[i].job, calls[i].val)
      \/ \E k \in 1 .. Len(calls) :
           /\ k < i /\ calls[k].do = "event" /\ calls[k].job = calls[i].job
           /\ calls[k].val = EventOf(calls[i].val)

\* The call at the head of a sequence, and what is behind it.
LEMMA HeadTail ==
  ASSUME NEW calls \in Seq(ACall), calls # <<>>
  PROVE  /\ Tail(calls) \in Seq(ACall) /\ Head(calls) = calls[1] /\ Head(calls) \in ACall
         /\ Len(calls) \in Nat \ {0} /\ Len(Tail(calls)) = Len(calls) - 1
         /\ \A i \in 1 .. Len(Tail(calls)) : /\ Tail(calls)[i] = calls[i + 1]
                                             /\ i + 1 \in 1 .. Len(calls)
         /\ \A i \in 1 .. Len(calls) : i # 1 => /\ i - 1 \in 1 .. Len(Tail(calls))
                                                /\ Tail(calls)[i - 1] = calls[i]
<1>1. Len(calls) \in Nat \ {0} /\ Len(Tail(calls)) = Len(calls) - 1
  OBVIOUS
<1>2. \A i \in 1 .. Len(Tail(calls)) : Tail(calls)[i] = calls[i + 1] /\ i + 1 \in 1 .. Len(calls)
  BY <1>1
<1> QED BY <1>1, <1>2

\* A call is made: what it stores is in su.
LEMMA CreateTail ==
  ASSUME NEW g, NEW calls \in Seq(ACall), calls # <<>>, NEW st, NEW su,
         CreateComes(g, calls, st), \A j \in Jobs : st[j] \subseteq su[j],
         Head(calls).do \in {"status", "agent"}
           => <<Head(calls).do, Head(calls).val>> \in su[Head(calls).job]
  PROVE  /\ CreateComes(g, Tail(calls), su)
         /\ Head(calls).do = "event" /\ Head(calls).val = "create"
              => Needs(g) \subseteq st[Head(calls).job]
<1> DEFINE rest == Tail(calls)
<1>0. /\ rest \in Seq(ACall) /\ Head(calls) = calls[1]
      /\ Len(calls) \in Nat \ {0} /\ Len(rest) = Len(calls) - 1
      /\ \A i \in 1 .. Len(rest) : rest[i] = calls[i + 1] /\ i + 1 \in 1 .. Len(calls)
      /\ \A i \in 1 .. Len(calls) : i # 1 => i - 1 \in 1 .. Len(rest) /\ rest[i - 1] = calls[i]
  BY HeadTail
<1>j. \A i \in 1 .. Len(calls) : calls[i].job \in Jobs
  BY DEF ACall
<1> HIDE DEF rest
<1>1. ASSUME NEW i \in 1 .. Len(rest), rest[i].do = "event", rest[i].val = "create",
             NEW w \in Needs(g)
      PROVE  \/ w \in su[rest[i].job]
             \/ \E k \in 1 .. Len(rest) :
                  k < i /\ rest[k].job = rest[i].job /\ <<rest[k].do, rest[k].val>> = w
  <2>1. \/ w \in st[calls[i + 1].job]
        \/ \E k \in 1 .. Len(calls) :
             /\ k < i + 1 /\ calls[k].job = calls[i + 1].job
             /\ <<calls[k].do, calls[k].val>> = w
    BY <1>0, <1>1 DEF CreateComes
  <2>2. CASE w \in st[calls[i + 1].job]
    BY <1>0, <1>j, <2>2
  <2>3. ASSUME NEW k \in 1 .. Len(calls), k < i + 1, calls[k].job = calls[i + 1].job,
               <<calls[k].do, calls[k].val>> = w
        PROVE  \/ w \in su[rest[i].job]
               \/ \E n \in 1 .. Len(rest) :
                    n < i /\ rest[n].job = rest[i].job /\ <<rest[n].do, rest[n].val>> = w
    <3>1. CASE k = 1
      <4>1. calls[k].do \in {"status", "agent"}
        BY <2>3 DEF Needs
      <4> QED BY <1>0, <2>3, <3>1, <4>1
    <3>2. CASE k # 1
      <4>1. k - 1 \in 1 .. Len(rest) /\ rest[k - 1] = calls[k] /\ k - 1 < i
        BY <1>0, <2>3, <3>2
      <4> QED BY <1>0, <2>3, <4>1
    <3> QED BY <3>1, <3>2
  <2> QED BY <2>1, <2>2, <2>3
<1>2. CreateComes(g, rest, su)
  BY <1>1 DEF CreateComes
<1>3. Head(calls).do = "event" /\ Head(calls).val = "create"
        => Needs(g) \subseteq st[Head(calls).job]
  <2>1. 1 \in 1 .. Len(calls) /\ ~\E k \in 1 .. Len(calls) : k < 1
    BY <1>0
  <2> QED BY <1>0, <2>1 DEF CreateComes
<1> QED BY <1>2, <1>3 DEF rest

\* The same of the ends.
LEMMA EndTail ==
  ASSUME NEW calls \in Seq(ACall), calls # <<>>, NEW an, NEW ao,
         EndComes(calls, an), an \subseteq ao,
         Head(calls).do = "event"
           => \E e \in ao : e.job = Head(calls).job /\ e.event = Head(calls).val
  PROVE  /\ EndComes(Tail(calls), ao)
         /\ Head(calls).do = "status" /\ Head(calls).val \in {"SUCCESS", "ERROR"}
              => \E e \in an : Tells(e, Head(calls).job, Head(calls).val)
<1> DEFINE rest == Tail(calls)
<1>0. /\ rest \in Seq(ACall) /\ Head(calls) = calls[1]
      /\ Len(calls) \in Nat \ {0} /\ Len(rest) = Len(calls) - 1
      /\ \A i \in 1 .. Len(rest) : rest[i] = calls[i + 1] /\ i + 1 \in 1 .. Len(calls)
      /\ \A i \in 1 .. Len(calls) : i # 1 => i - 1 \in 1 .. Len(rest) /\ rest[i - 1] = calls[i]
  BY HeadTail
<1> HIDE DEF rest
<1>1. ASSUME NEW i \in 1 .. Len(rest), rest[i].do = "status", rest[i].val \in {"SUCCESS", "ERROR"}
      PROVE  \/ \E e \in ao : Tells(e, rest[i].job, rest[i].val)
             \/ \E k \in 1 .. Len(rest) :
                  /\ k < i /\ rest[k].do = "event" /\ rest[k].job = rest[i].job
                  /\ rest[k].val = EventOf(rest[i].val)
  <2>1. \/ \E e \in an : Tells(e, calls[i + 1].job, calls[i + 1].val)
        \/ \E k \in 1 .. Len(calls) :
             /\ k < i + 1 /\ calls[k].do = "event" /\ calls[k].job = calls[i + 1].job
             /\ calls[k].val = EventOf(calls[i + 1].val)
    BY <1>0, <1>1 DEF EndComes
  <2>2. ASSUME NEW k \in 1 .. Len(calls), k < i + 1, calls[k].do = "event",
               calls[k].job = calls[i + 1].job, calls[k].val = EventOf(calls[i + 1].val)
        PROVE  \/ \E e \in ao : Tells(e, rest[i].job, rest[i].val)
               \/ \E n \in 1 .. Len(rest) :
                    /\ n < i /\ rest[n].do = "event" /\ rest[n].job = rest[i].job
                    /\ rest[n].val = EventOf(rest[i].val)
    <3>1. CASE k = 1
      <4>1. Head(calls).do = "event"
        BY <1>0, <2>2, <3>1
      <4>2. PICK e \in ao : e.job = Head(calls).job /\ e.event = Head(calls).val
        BY <4>1
      <4>3. e.job = rest[i].job /\ e.event = EventOf(rest[i].val)
        BY <1>0, <2>2, <3>1, <4>2
      <4> QED BY <4>3 DEF Tells
    <3>2. CASE k # 1
      <4>1. k - 1 \in 1 .. Len(rest) /\ rest[k - 1] = calls[k] /\ k - 1 < i
        BY <1>0, <2>2, <3>2
      <4> QED BY <1>0, <2>2, <4>1
    <3> QED BY <3>1, <3>2
  <2> QED BY <1>0, <2>1, <2>2
<1>2. EndComes(rest, ao)
  BY <1>1 DEF EndComes
<1>3. Head(calls).do = "status" /\ Head(calls).val \in {"SUCCESS", "ERROR"}
        => \E e \in an : Tells(e, Head(calls).job, Head(calls).val)
  <2>1. 1 \in 1 .. Len(calls) /\ ~\E k \in 1 .. Len(calls) : k < 1
    BY <1>0
  <2> QED BY <1>0, <2>1 DEF EndComes
<1> QED BY <1>2, <1>3 DEF rest

\* With more stored and more sent than before, what came still comes.
LEMMA StillComes ==
  ASSUME NEW g, NEW calls \in Seq(ACall), NEW st, NEW su, NEW an, NEW ao,
         \A j \in Jobs : st[j] \subseteq su[j], an \subseteq ao
  PROVE  /\ CreateComes(g, calls, st) => CreateComes(g, calls, su)
         /\ EndComes(calls, an) => EndComes(calls, ao)
<1>1. \A i \in 1 .. Len(calls) : calls[i].job \in Jobs
  BY DEF ACall
<1>2. ASSUME CreateComes(g, calls, st) PROVE CreateComes(g, calls, su)
  BY <1>1, <1>2 DEF CreateComes
<1>3. ASSUME EndComes(calls, an) PROVE EndComes(calls, ao)
  BY <1>3 DEF EndComes
<1> QED BY <1>2, <1>3

Comes(g, calls, st, an) == calls \in Seq(ACall) /\ CreateComes(g, calls, st) /\ EndComes(calls, an)

-----------------------------------------------------------------------------
(* The calls of the handlers are in the order that this asks for. *)

LEMMA CallsTyped ==
  ASSUME NEW j \in Jobs
  PROVE  /\ \A do \in {"isOpen", "open", "close"} : Call(do, j, NoOne) \in ACall
         /\ UpdateJobProgress(j) \in ACall
         /\ \A s \in Status : UpdateJobStatus(j, s) \in ACall
         /\ \A a \in Agents : UpdateJobAgentName(j, a) \in ACall
         /\ \A e \in Event : handleUpdateHandlers(j, e) \in ACall
BY DEF Call, UpdateJobProgress, UpdateJobStatus, UpdateJobAgentName, handleUpdateHandlers, ACall

LEMMA RegisterComes ==
  ASSUME NEW j \in Jobs, NEW a \in Agents, NEW st, NEW an
  PROVE  Comes(a, registerScheduledJob(j, a), st, an)
<1> DEFINE calls == registerScheduledJob(j, a)
<1>1. calls \in Seq(ACall)
  BY CallsTyped DEF registerScheduledJob, Status, Event
<1>2. /\ Len(calls) = 5
      /\ calls[1] = Call("isOpen", j, NoOne) /\ calls[2] = Call("open", j, NoOne)
      /\ calls[3] = Call("status", j, "SCHEDULED") /\ calls[4] = Call("agent", j, a)
      /\ calls[5] = Call("event", j, "create")
  BY DEF registerScheduledJob, UpdateJobStatus, UpdateJobAgentName, handleUpdateHandlers
<1> HIDE DEF calls
<1>3. ASSUME NEW i \in 1 .. 5, calls[i].do = "event", NEW w \in Needs(a)
      PROVE  \E k \in 1 .. 5 : k < i /\ calls[k].job = calls[i].job /\ <<calls[k].do, calls[k].val>> = w
  <2>1. i = 5
    BY <1>2, <1>3 DEF Call
  <2>2. CASE w = <<"status", "SCHEDULED">>
    BY <1>2, <2>1, <2>2 DEF Call
  <2>3. CASE w = <<"agent", a>>
    BY <1>2, <2>1, <2>3 DEF Call
  <2> QED BY <2>2, <2>3 DEF Needs
<1>4. CreateComes(a, calls, st)
  BY <1>2, <1>3 DEF CreateComes
<1>5. \A i \in 1 .. 5 : calls[i].do = "status" => calls[i].val = "SCHEDULED"
  BY <1>2 DEF Call
<1>6. EndComes(calls, an)
  BY <1>2, <1>5 DEF EndComes
<1> QED BY <1>1, <1>4, <1>6 DEF Comes, calls

\* Calls of which none is a "create", and none stores an end.
LEMMA HarmlessCome ==
  ASSUME NEW g, NEW calls \in Seq(ACall), NEW st, NEW an,
         \A i \in 1 .. Len(calls) :
           /\ calls[i].do = "event" => calls[i].val # "create"
           /\ calls[i].do = "status" => calls[i].val \notin {"SUCCESS", "ERROR"}
  PROVE  Comes(g, calls, st, an)
BY DEF Comes, CreateComes, EndComes

LEMMA UpdateComes ==
  ASSUME NEW j \in Jobs, NEW g, NEW st, NEW an
  PROVE  Comes(g, handleMsgJobUpdate(j), st, an)
<1> DEFINE calls == handleMsgJobUpdate(j)
<1>1. calls \in Seq(ACall)
  BY CallsTyped DEF handleMsgJobUpdate, Event
<1>2. Len(calls) = 2 /\ calls[1] = Call("event", j, "update") /\ calls[2] = Call("progress", j, NoOne)
  BY DEF handleMsgJobUpdate, UpdateJobProgress, handleUpdateHandlers
<1> HIDE DEF calls
<1>3. \A i \in 1 .. Len(calls) : /\ calls[i].do = "event" => calls[i].val # "create"
                                 /\ calls[i].do # "status"
  BY <1>2 DEF Call
<1>4. Comes(g, calls, st, an)
  BY <1>1, <1>3, HarmlessCome
<1> QED BY <1>4 DEF calls

LEMMA DeregisterComes ==
  ASSUME NEW j \in Jobs, NEW status \in EndStatus, NEW g, NEW st, NEW an
  PROVE  Comes(g, deregisterScheduledJob(j, status), st, an)
<1> DEFINE calls == deregisterScheduledJob(j, status)
<1>0. EventOf(status) \in {"done", "error", "cancel"}
  BY DEF EndStatus, EventOf
<1>1. calls \in Seq(ACall)
  <2>1. handleUpdateHandlers(j, EventOf(status)) \in ACall
    BY <1>0, CallsTyped DEF Event
  <2>2. UpdateJobStatus(j, status) \in ACall
    BY CallsTyped DEF Status
  <2>3. Call("close", j, NoOne) \in ACall /\ UpdateJobProgress(j) \in ACall
    BY CallsTyped
  <2> QED BY <2>1, <2>2, <2>3 DEF deregisterScheduledJob
<1>2. /\ Len(calls) = 3
      /\ calls[1] = Call("event", j, EventOf(status)) /\ calls[2] = Call("close", j, NoOne)
      /\ calls[3] = Call("status", j, status)
  BY DEF deregisterScheduledJob, UpdateJobStatus, handleUpdateHandlers
<1> HIDE DEF calls
<1>3. \A i \in 1 .. 3 : /\ calls[i].do = "event" => calls[i].val # "create"
                        /\ calls[i].do = "status" => i = 3
  BY <1>0, <1>2 DEF Call
<1>4. CreateComes(g, calls, st)
  BY <1>2, <1>3 DEF CreateComes
<1>5. /\ 1 < 3 /\ calls[1].do = "event" /\ calls[1].job = calls[3].job
      /\ calls[1].val = EventOf(calls[3].val)
  BY <1>2 DEF Call
<1>6. EndComes(calls, an)
  BY <1>2, <1>3, <1>5 DEF EndComes
<1> QED BY <1>1, <1>4, <1>6 DEF Comes, calls

LEMMA DoneComes ==
  ASSUME NEW j \in Jobs, NEW status \in EndStatus, NEW g, NEW st, NEW an
  PROVE  Comes(g, handleMsgJobDone(j, status), st, an)
<1> DEFINE calls == handleMsgJobDone(j, status)
<1>0. EventOf(status) \in {"done", "error", "cancel"}
  BY DEF EndStatus, EventOf
<1>1. calls \in Seq(ACall)
  <2>1. handleUpdateHandlers(j, EventOf(status)) \in ACall
    BY <1>0, CallsTyped DEF Event
  <2>2. UpdateJobStatus(j, status) \in ACall
    BY CallsTyped DEF Status
  <2>3. Call("close", j, NoOne) \in ACall /\ UpdateJobProgress(j) \in ACall
    BY CallsTyped
  <2>4. deregisterScheduledJob(j, status) \in Seq(ACall)
    BY <2>1, <2>2, <2>3 DEF deregisterScheduledJob
  <2> QED BY <2>3, <2>4 DEF handleMsgJobDone
<1>2. /\ Len(calls) = 4 /\ calls[1] = Call("progress", j, NoOne)
      /\ calls[2] = Call("event", j, EventOf(status)) /\ calls[3] = Call("close", j, NoOne)
      /\ calls[4] = Call("status", j, status)
  BY DEF handleMsgJobDone, deregisterScheduledJob, UpdateJobStatus, handleUpdateHandlers,
         UpdateJobProgress
<1> HIDE DEF calls
<1>3. \A i \in 1 .. 4 : /\ calls[i].do = "event" => calls[i].val # "create"
                        /\ calls[i].do = "status" => i = 4
  BY <1>0, <1>2 DEF Call
<1>4. CreateComes(g, calls, st)
  BY <1>2, <1>3 DEF CreateComes
<1>5. /\ 2 < 4 /\ calls[2].do = "event" /\ calls[2].job = calls[4].job
      /\ calls[2].val = EventOf(calls[4].val)
  BY <1>2 DEF Call
<1>6. EndComes(calls, an)
  BY <1>2, <1>3, <1>5 DEF EndComes
<1> QED BY <1>1, <1>4, <1>6 DEF Comes, calls

-----------------------------------------------------------------------------
(* What a step of a goroutine does to the calls it has still to make. *)

\* The API has at most the one call of its request.
APICalls == todo[API] # <<>> => Len(todo[API]) = 1 /\ Head(todo[API]).do \in Writes

AllCome == \A g \in Goroutines : Comes(g, todo[g], stored, announced)

LEMMA StepMoves ==
  ASSUME TypeOK, NEW g \in Goroutines, Step(g)
  PROVE  /\ todo[g] # <<>> /\ TheCall(g) \in ACall
         /\ \/ UNCHANGED todo
            \/ todo' = [todo EXCEPT ![g] = Tail(todo[g])]
            \/ todo' = [todo EXCEPT ![g] = <<>>]
         /\ todo'[g] \in {todo[g], Tail(todo[g]), <<>>}
         /\ \A h \in Goroutines \ {g} : todo'[h] = todo[h]
         /\ \A j \in Jobs : stored[j] \subseteq stored'[j]
         /\ announced \subseteq announced'
         /\ UNCHANGED <<left, agentVars>>
<1>0. todo \in [Goroutines -> Seq(ACall)] /\ todo[g] \in Seq(ACall)
  BY DEF TypeOK
<1>1. todo[g] # <<>>
  BY DEF Step, IsOpen, Open, CreateFails, Close, ExecWebhook, Begin, Commit, ExecFails, Calls
<1>2. TheCall(g) \in ACall
  BY <1>0, <1>1, HeadTail DEF TheCall
<1>3. \/ UNCHANGED todo
      \/ todo' = [todo EXCEPT ![g] = Tail(todo[g])]
      \/ todo' = [todo EXCEPT ![g] = <<>>]
  <2> USE DEF Done, Return
  <2>1. CASE IsOpen(g) \/ Open(g) \/ CreateFails(g) \/ Close(g)
    BY <2>1 DEF IsOpen, Open, CreateFails, Close
  <2>2. CASE ExecWebhook(g) \/ Begin(g) \/ Commit(g) \/ ExecFails(g)
    BY <2>2 DEF ExecWebhook, Begin, Commit, ExecFails
  <2> QED BY <2>1, <2>2 DEF Step
<1>4. todo'[g] \in {todo[g], Tail(todo[g]), <<>>} /\ \A h \in Goroutines \ {g} : todo'[h] = todo[h]
  BY <1>0, <1>3
<1>5. \A j \in Jobs : stored[j] \subseteq stored'[j]
  <2>1. CASE Commit(g)
    <3>1. stored \in [Jobs -> SUBSET ({"status", "agent"} \X (Status \cup Agents))]
      BY DEF TypeOK
    <3>2. \/ UNCHANGED stored
          \/ \E w : stored' = [stored EXCEPT ![TheCall(g).job] = @ \cup {w}]
      BY <2>1 DEF Commit
    <3> QED BY <3>1, <3>2
  <2>2. CASE ~Commit(g)
    BY <2>2 DEF Step, IsOpen, Open, CreateFails, Close, ExecWebhook, Begin, ExecFails
  <2> QED BY <2>1, <2>2
<1>6. announced \subseteq announced'
  BY DEF Step, IsOpen, Open, CreateFails, Close, ExecWebhook, Begin, Commit, ExecFails
<1>7. UNCHANGED <<left, agentVars>>
  BY DEF Step, IsOpen, Open, CreateFails, Close, ExecWebhook, Begin, Commit, ExecFails, agentVars
<1> QED BY <1>1, <1>2, <1>3, <1>4, <1>5, <1>6, <1>7

LEMMA TodoStep ==
  ASSUME TypeOK, APICalls, NEW g \in Goroutines, Step(g)
  PROVE  todo' \in [Goroutines -> Seq(ACall)] /\ APICalls'
<1>1. todo[g] \in Seq(ACall) /\ todo[g] # <<>>
  BY StepMoves DEF TypeOK
<1>2. Tail(todo[g]) \in Seq(ACall) /\ <<>> \in Seq(ACall) /\ Len(Tail(todo[g])) = Len(todo[g]) - 1
  BY <1>1, HeadTail
<1>3. todo \in [Goroutines -> Seq(ACall)]
  BY DEF TypeOK
<1>4. \/ UNCHANGED todo
      \/ \E f \in Seq(ACall) : todo' = [todo EXCEPT ![g] = f]
  BY <1>2, StepMoves
<1>5. todo' \in [Goroutines -> Seq(ACall)]
  BY <1>3, <1>4
<1>6. APICalls'
  <2>1. CASE g # API
    <3>1. todo'[API] = todo[API]
      BY <2>1, StepMoves DEF Goroutines
    <3> QED BY <3>1 DEF APICalls
  <2>2. CASE g = API
    <3>1. Len(todo[API]) = 1
      BY <1>1, <2>2 DEF APICalls
    <3>2. Tail(todo[API]) = <<>>
      <4>1. \A q \in Seq(ACall) : Len(q) = 0 => q = <<>>
        OBVIOUS
      <4>2. Tail(todo[API]) \in Seq(ACall) /\ Len(Tail(todo[API])) = 0
        BY <1>2, <2>2, <3>1
      <4> QED BY <4>1, <4>2
    <3>3. todo'[API] = todo[API] \/ todo'[API] = <<>>
      BY <2>2, <3>2, StepMoves
    <3> QED BY <3>3 DEF APICalls
  <2> QED BY <2>1, <2>2
<1> QED BY <1>5, <1>6

\* The open transaction stays that of a goroutine which is about to write, or leaked.
LEMMA TxStep ==
  ASSUME TypeOK, NEW g \in Goroutines, Step(g)
  PROVE  /\ tx' \in Goroutines \cup {NoOne} /\ leaked' \in BOOLEAN
         /\ tx' \in Goroutines => leaked' \/ (todo'[tx'] # <<>> /\ Head(todo'[tx']).do \in Writes)
         /\ leaked' => tx' # NoOne
<1>0. NoOne \notin Goroutines
  BY RecordingAssumption DEF Goroutines
<1> USE DEF TypeOK, Calls, TheCall
<1>1. CASE IsOpen(g) \/ Open(g) \/ CreateFails(g) \/ Close(g) \/ ExecWebhook(g)
  <2>1. tx' = tx /\ leaked' = leaked /\ Head(todo[g]).do \notin Writes
    BY <1>1 DEF IsOpen, Open, CreateFails, Close, ExecWebhook, Writes
  <2>2. CASE tx = g
    BY <2>1, <2>2
  <2>3. CASE tx # g
    BY <2>1, <2>3, StepMoves
  <2> QED BY <2>2, <2>3
<1>2. CASE Begin(g)
  BY <1>2 DEF Begin
<1>3. CASE Commit(g)
  BY <1>0, <1>3 DEF Commit, AfterCommit
<1>4. CASE ExecFails(g)
  BY <1>0, <1>4 DEF ExecFails
<1> QED BY <1>1, <1>2, <1>3, <1>4 DEF Step

LEMMA TypeStep ==
  ASSUME TypeOK, APICalls, NEW g \in Goroutines, Step(g)
  PROVE  TypeOK' /\ APICalls'
<1> DEFINE c == TheCall(g)
<1>0. todo[g] # <<>> /\ c \in ACall /\ UNCHANGED <<left, agentVars>>
  BY StepMoves
<1>j. c.job \in Jobs
  BY <1>0 DEF ACall
<1>r. jobs \in [Jobs -> [status : Status, agent : Agents \cup {NoOne}]]
  BY DEF TypeOK
<1> HIDE DEF c
<1>1. jobs' \in [Jobs -> [status : Status, agent : Agents \cup {NoOne}]]
      /\ stored' \in [Jobs -> SUBSET ({"status", "agent"} \X (Status \cup Agents))]
  <2>1. CASE Commit(g) /\ c.do # "progress"
    <3>1. c.do \in {"insert", "status", "agent"}
      BY <2>1 DEF Commit, Calls, Writes, c
    <3>2. \/ c.do = "agent" /\ c.val \in Agents
          \/ c.do \in {"insert", "status"} /\ c.val \in Status
      BY <1>0, <3>1 DEF ACall, Status
    <3>4. CASE c.do = "agent"
      <4>1. /\ jobs' = [jobs EXCEPT ![c.job].agent = c.val]
            /\ stored' = [stored EXCEPT ![c.job] = @ \cup {<<"agent", c.val>>}]
        BY <2>1, <3>4 DEF Commit, c
      <4>2. c.val \in Agents
        BY <3>2, <3>4
      <4>3. jobs' \in [Jobs -> [status : Status, agent : Agents \cup {NoOne}]]
        BY <1>j, <1>r, <4>1, <4>2
      <4>4. <<"agent", c.val>> \in {"status", "agent"} \X (Status \cup Agents)
        BY <4>2
      <4>5. stored' \in [Jobs -> SUBSET ({"status", "agent"} \X (Status \cup Agents))]
        BY <1>j, <4>1, <4>4 DEF TypeOK
      <4> QED BY <4>3, <4>5
    <3>5. CASE c.do # "agent"
      <4>1. /\ jobs' = [jobs EXCEPT ![c.job].status = c.val]
            /\ stored' = [stored EXCEPT ![c.job] = @ \cup {<<"status", c.val>>}]
        BY <2>1, <3>5 DEF Commit, c
      <4>2. c.val \in Status
        BY <3>2, <3>5
      <4>3. jobs' \in [Jobs -> [status : Status, agent : Agents \cup {NoOne}]]
        BY <1>j, <1>r, <4>1, <4>2
      <4>4. <<"status", c.val>> \in {"status", "agent"} \X (Status \cup Agents)
        BY <4>2
      <4>5. stored' \in [Jobs -> SUBSET ({"status", "agent"} \X (Status \cup Agents))]
        BY <1>j, <4>1, <4>4 DEF TypeOK
      <4> QED BY <4>3, <4>5
    <3> QED BY <3>4, <3>5
  <2>2. CASE ~(Commit(g) /\ c.do # "progress")
    BY <2>2 DEF TypeOK, Step, IsOpen, Open, CreateFails, Close, ExecWebhook, Begin, Commit,
                ExecFails, c
  <2> QED BY <2>1, <2>2
<1>2. files' \subseteq Jobs /\ failures' \in 0 .. MaxFailures
  BY <1>j, RecordingAssumption
     DEF TypeOK, Step, IsOpen, Open, CreateFails, Close, ExecWebhook, Begin, Commit, ExecFails, c
<1>3. announced' \subseteq [event : Event, job : Jobs, by : Agents]
  <2>1. CASE ExecWebhook(g)
    <3>1. c.do = "event" /\ c.val \in Event
      BY <1>0, <2>1 DEF ExecWebhook, Calls, ACall, c
    <3>2. g # API
      BY <1>0, <3>1 DEF APICalls, Writes, TheCall, c
    <3>3. announced' = announced \cup {[event |-> c.val, job |-> c.job, by |-> g]}
      BY <2>1 DEF ExecWebhook, c
    <3> QED BY <1>j, <3>1, <3>2, <3>3 DEF TypeOK, Goroutines
  <2>2. CASE ~ExecWebhook(g)
    BY <2>2 DEF TypeOK, Step, IsOpen, Open, CreateFails, Close, Begin, Commit, ExecFails
  <2> QED BY <2>1, <2>2
<1> QED BY <1>0, <1>1, <1>2, <1>3, TodoStep, TxStep DEF TypeOK, agentVars, Calls, TheCall

-----------------------------------------------------------------------------
(* The inductive invariant. *)

IInv == TypeOK /\ APICalls /\ AllCome /\ CreateIsRecorded /\ EndIsAnnounced

LEMMA InvInit == Init => IInv
<1> SUFFICES ASSUME Init PROVE IInv
  OBVIOUS
<1> USE DEF Init
<1>1. TypeOK
  <2>1. <<>> \in Seq(ACall) /\ <<>> \in Seq(Message)
    OBVIOUS
  <2>2. /\ todo \in [Goroutines -> Seq(ACall)] /\ left \in [Agents -> SUBSET Jobs]
        /\ conn \in [Agents -> {"up", "lost", "gone"}] /\ net \in [Agents -> Seq(Message)]
        /\ phase \in [Agents -> [Jobs -> {"idle", "accepted", "output", "ended"}]]
    BY <2>1
  <2>3. /\ jobs \in [Jobs -> [status : Status, agent : Agents \cup {NoOne}]]
        /\ stored \in [Jobs -> SUBSET ({"status", "agent"} \X (Status \cup Agents))]
    BY DEF Status
  <2>4. /\ tx \notin Goroutines /\ tx \in Goroutines \cup {NoOne} /\ leaked = FALSE
        /\ files \subseteq Jobs /\ failures \in 0 .. MaxFailures
        /\ announced \subseteq [event : Event, job : Jobs, by : Agents]
    BY RecordingAssumption DEF Goroutines
  <2> QED BY <2>2, <2>3, <2>4 DEF TypeOK
<1>2. APICalls
  BY DEF APICalls, Goroutines
<1>3. AllCome
  <2>1. <<>> \in Seq(ACall) /\ Len(<<>>) = 0
    OBVIOUS
  <2> QED BY <2>1 DEF AllCome, Comes, CreateComes, EndComes
<1>4. CreateIsRecorded /\ EndIsAnnounced
  BY DEF CreateIsRecorded, EndIsAnnounced
<1> QED BY <1>1, <1>2, <1>3, <1>4 DEF IInv

\* The call that goroutine g makes is the head of its calls, so it may be made: what
\* had to come before it has.
LEMMA ComesStep ==
  ASSUME IInv, NEW g \in Goroutines, Step(g)
  PROVE  AllCome' /\ CreateIsRecorded' /\ EndIsAnnounced'
<1> DEFINE c == TheCall(g)
<1>0. TypeOK /\ AllCome /\ CreateIsRecorded /\ EndIsAnnounced
  BY DEF IInv
<1>1. /\ todo[g] # <<>> /\ c = Head(todo[g]) /\ c \in ACall
      /\ todo'[g] \in {todo[g], Tail(todo[g]), <<>>}
      /\ \A h \in Goroutines \ {g} : todo'[h] = todo[h]
      /\ \A j \in Jobs : stored[j] \subseteq stored'[j]
      /\ announced \subseteq announced'
  BY <1>0, StepMoves DEF TheCall
<1>2. Comes(g, todo[g], stored, announced) /\ todo[g] \in Seq(ACall)
  BY <1>0 DEF AllCome, Comes
<1>8. todo \in [Goroutines -> Seq(ACall)]
  BY <1>0 DEF TypeOK
<1> HIDE DEF c
<1>3. /\ c.do = "event" /\ c.val = "create" => Needs(g) \subseteq stored[c.job]
      /\ c.do = "status" /\ c.val \in {"SUCCESS", "ERROR"}
           => \E e \in announced : Tells(e, c.job, c.val)
  <2>1. 1 \in 1 .. Len(todo[g]) /\ c = todo[g][1] /\ ~\E k \in 1 .. Len(todo[g]) : k < 1
    BY <1>1, <1>2, HeadTail
  <2>2. CreateComes(g, todo[g], stored) /\ EndComes(todo[g], announced)
    BY <1>2 DEF Comes
  <2>3. c.do = "event" /\ c.val = "create" => Needs(g) \subseteq stored[c.job]
    BY <2>1, <2>2 DEF CreateComes
  <2>4. c.do = "status" /\ c.val \in {"SUCCESS", "ERROR"}
          => \E e \in announced : Tells(e, c.job, c.val)
    BY <2>1, <2>2 DEF EndComes
  <2> QED BY <2>3, <2>4
<1>4. \A h \in Goroutines \ {g} : Comes(h, todo'[h], stored', announced')
  BY <1>0, <1>1, StillComes DEF AllCome, Comes
<1>5. Comes(g, todo'[g], stored', announced')
  <2>1. CASE todo'[g] = todo[g]
    BY <1>1, <1>2, <2>1, StillComes DEF Comes
  <2>2. CASE todo'[g] = <<>>
    <3>1. <<>> \in Seq(ACall) /\ Len(<<>>) = 0
      OBVIOUS
    <3>2. Comes(g, <<>>, stored', announced')
      BY <3>1 DEF Comes, CreateComes, EndComes
    <3> QED BY <2>2, <3>2
  <2>3. CASE todo'[g] = Tail(todo[g]) /\ todo'[g] # todo[g] /\ todo'[g] # <<>>
    <3>1. c.do \in {"status", "agent"} => <<c.do, c.val>> \in stored'[c.job]
      <4>1. ASSUME c.do \in {"status", "agent"} PROVE Commit(g)
        BY <1>8, <2>3, <4>1 DEF Step, IsOpen, Open, CreateFails, Close, ExecWebhook, Begin, ExecFails,
                          Return, Calls, Writes, c
      <4>2. ASSUME c.do \in {"status", "agent"}
            PROVE  stored' = [stored EXCEPT ![c.job] = @ \cup {<<c.do, c.val>>}]
        BY <4>1, <4>2 DEF Commit, c
      <4>3. c.job \in Jobs /\ stored \in [Jobs -> SUBSET ({"status", "agent"} \X (Status \cup Agents))]
        BY <1>0, <1>1 DEF ACall, TypeOK
      <4> QED BY <4>2, <4>3
    <3>2. c.do = "event" => \E e \in announced' : e.job = c.job /\ e.event = c.val
      <4>1. ASSUME c.do = "event" PROVE ExecWebhook(g)
        BY <1>8, <2>3, <4>1 DEF Step, IsOpen, Open, CreateFails, Close, Begin, Commit, ExecFails,
                          Return, Calls, Writes, c
      <4>2. ASSUME ExecWebhook(g)
            PROVE  [event |-> c.val, job |-> c.job, by |-> g] \in announced'
        BY <4>2 DEF ExecWebhook, c
      <4> QED BY <4>1, <4>2
    <3>3. CreateComes(g, Tail(todo[g]), stored')
      BY <1>1, <1>2, <3>1, CreateTail DEF Comes
    <3>4. EndComes(Tail(todo[g]), announced')
      BY <1>1, <1>2, <3>2, EndTail DEF Comes
    <3>5. Tail(todo[g]) \in Seq(ACall)
      BY <1>1, <1>2, HeadTail
    <3> QED BY <2>3, <3>3, <3>4, <3>5 DEF Comes
  <2> QED BY <1>1, <2>1, <2>2, <2>3
<1>6. CreateIsRecorded'
  <2>1. announced' \subseteq announced
          \cup {[event |-> c.val, job |-> c.job, by |-> g] : x \in {y \in {0} : c.do = "event"}}
    BY DEF Step, IsOpen, Open, CreateFails, Close, ExecWebhook, Begin, Commit, ExecFails, Calls, c
  <2>2. ASSUME NEW e \in announced', e.event = "create"
        PROVE  Needs(e.by) \subseteq stored'[e.job]
    <3>1. CASE e \in announced
      <4>1. e.job \in Jobs
        BY <1>0, <3>1 DEF TypeOK
      <4>2. Needs(e.by) \subseteq stored[e.job]
        BY <1>0, <2>2, <3>1 DEF CreateIsRecorded, Needs
      <4> QED BY <1>1, <4>1, <4>2
    <3>2. CASE e \notin announced
      <4>1. c.do = "event" /\ e.event = c.val /\ e.job = c.job /\ e.by = g
        BY <2>1, <2>2, <3>2
      <4>2. c.job \in Jobs
        BY <1>1 DEF ACall
      <4>3. Needs(g) \subseteq stored[c.job]
        BY <1>3, <2>2, <4>1
      <4> QED BY <1>1, <4>1, <4>2, <4>3
    <3> QED BY <3>1, <3>2
  <2> QED BY <2>2 DEF CreateIsRecorded, Needs
<1>7. EndIsAnnounced'
  <2> SUFFICES ASSUME NEW j \in Jobs, NEW status \in {"SUCCESS", "ERROR"},
                      <<"status", status>> \in stored'[j]
               PROVE  \E e \in announced' : e.job = j /\ e.event = EventOf(status)
    BY DEF EndIsAnnounced
  <2>1. CASE <<"status", status>> \in stored[j]
    BY <1>0, <1>1, <2>1 DEF EndIsAnnounced
  <2>2. CASE <<"status", status>> \notin stored[j]
    <3>1. Commit(g) /\ c.do # "progress"
      BY <2>2 DEF Step, IsOpen, Open, CreateFails, Close, ExecWebhook, Begin, Commit, ExecFails, c
    <3>2. stored \in [Jobs -> SUBSET ({"status", "agent"} \X (Status \cup Agents))]
      BY <1>0 DEF TypeOK
    <3>3. c.do \in {"insert", "status", "agent"}
      BY <3>1 DEF Commit, Calls, Writes, c
    <3>4. CASE c.do = "agent"
      <4>1. stored' = [stored EXCEPT ![c.job] = @ \cup {<<"agent", c.val>>}]
        BY <3>1, <3>4 DEF Commit, c
      <4> QED BY <2>2, <3>2, <4>1
    <3>5. CASE c.do # "agent"
      <4>1. stored' = [stored EXCEPT ![c.job] = @ \cup {<<"status", c.val>>}]
        BY <3>1, <3>5 DEF Commit, c
      <4>2. c.job = j /\ c.val = status
        BY <2>2, <3>2, <4>1
      <4>3. c.do = "status"
        BY <1>1, <3>3, <3>5, <4>2 DEF ACall
      <4> QED BY <1>1, <1>3, <4>2, <4>3 DEF Tells
    <3> QED BY <3>4, <3>5
  <2> QED BY <2>1, <2>2
<1> QED BY <1>4, <1>5, <1>6, <1>7 DEF AllCome

-----------------------------------------------------------------------------
(* The steps that are not a call of a goroutine. *)

\* What they leave alone when goroutine g is given the calls of a handler, or none.
LEMMA GivenCalls ==
  ASSUME IInv, NEW g \in Goroutines, NEW calls,
         todo' = [todo EXCEPT ![g] = calls],
         Comes(g, calls, stored, announced), todo[g] = <<>>,
         g = API => Len(calls) = 1 /\ Head(calls).do \in Writes,
         UNCHANGED <<jobs, tx, leaked, files, failures, announced, stored>>,
         left' \in [Agents -> SUBSET Jobs], net' \in [Agents -> Seq(Message)],
         UNCHANGED <<conn, phase>>
  PROVE  IInv'
<1> USE DEF IInv
<1>1. todo \in [Goroutines -> Seq(ACall)] /\ calls \in Seq(ACall) /\ todo'[g] = calls
      /\ \A h \in Goroutines \ {g} : todo'[h] = todo[h]
  BY DEF TypeOK, Comes
<1>2. TypeOK'
  <2>1. todo' \in [Goroutines -> Seq(ACall)]
    BY <1>1
  <2>2. tx \in Goroutines => leaked \/ (todo'[tx] # <<>> /\ Head(todo'[tx]).do \in Writes)
    BY <1>1 DEF TypeOK, Calls, TheCall
  <2> QED BY <2>1, <2>2 DEF TypeOK, Calls, TheCall
<1>3. APICalls'
  BY <1>1 DEF APICalls, Goroutines
<1>4. AllCome'
  <2>1. \A h \in Goroutines : Comes(h, todo'[h], stored, announced)
    BY <1>1 DEF AllCome
  <2> QED BY <2>1 DEF AllCome
<1>5. CreateIsRecorded' /\ EndIsAnnounced'
  BY DEF CreateIsRecorded, EndIsAnnounced
<1> QED BY <1>2, <1>3, <1>4, <1>5

\* And those that give no goroutine anything to do.
LEMMA NoCalls ==
  ASSUME IInv, UNCHANGED <<jobs, tx, leaked, files, todo, failures, announced, stored>>,
         left' \in [Agents -> SUBSET Jobs], net' \in [Agents -> Seq(Message)],
         conn' \in [Agents -> {"up", "lost", "gone"}],
         phase' \in [Agents -> [Jobs -> {"idle", "accepted", "output", "ended"}]]
  PROVE  IInv'
BY DEF IInv, TypeOK, Calls, TheCall, APICalls, AllCome, CreateIsRecorded, EndIsAnnounced

LEMMA InvRead ==
  ASSUME IInv, NEW a \in Agents, ReadMessage(a)
  PROVE  IInv'
<1> DEFINE m == Head(net[a])
           calls == Handler(a, m)
<1>1. a \in Goroutines /\ a # API
  BY RecordingAssumption DEF Goroutines
<1>2. m \in Message /\ net' \in [Agents -> Seq(Message)]
  BY DEF IInv, TypeOK, ReadMessage
<1>3. Comes(a, calls, stored, announced)
  <2> HIDE DEF m
  <2>1. CASE m.type = "accepted"
    <3>1. m.job \in Jobs /\ calls = registerScheduledJob(m.job, a)
      BY <1>2, <2>1 DEF Message, Handler
    <3> QED BY <3>1, RegisterComes
  <2>2. CASE m.type = "update"
    <3>1. m.job \in Jobs /\ calls = handleMsgJobUpdate(m.job)
      BY <1>2, <2>2 DEF Message, Handler
    <3> QED BY <3>1, UpdateComes
  <2>3. CASE m.type = "done"
    <3>1. m.job \in Jobs /\ m.status \in EndStatus /\ calls = handleMsgJobDone(m.job, m.status)
      BY <1>2, <2>3 DEF Message, Handler
    <3> QED BY <3>1, DoneComes
  <2> QED BY <1>2, <2>1, <2>2, <2>3 DEF Message
<1>4. /\ todo' = [todo EXCEPT ![a] = calls] /\ todo[a] = <<>>
      /\ UNCHANGED <<jobs, tx, leaked, files, left, conn, phase, failures, announced, stored>>
  BY DEF ReadMessage
<1>5. left' \in [Agents -> SUBSET Jobs]
  BY <1>4 DEF IInv, TypeOK
<1> HIDE DEF calls
<1> QED BY <1>1, <1>2, <1>3, <1>4, <1>5, GivenCalls

LEMMA InvFail ==
  ASSUME IInv, NEW a \in Agents, FailNext(a)
  PROVE  IInv'
<1>1. PICK j \in left[a] : /\ todo' = [todo EXCEPT ![a] = deregisterScheduledJob(j, "ERROR")]
                           /\ left' = [left EXCEPT ![a] = @ \ {j}]
  BY DEF FailNext
<1>2. j \in Jobs /\ left' \in [Agents -> SUBSET Jobs]
  BY <1>1 DEF IInv, TypeOK
<1>3. a \in Goroutines /\ a # API
  BY RecordingAssumption DEF Goroutines
<1>4. Comes(a, deregisterScheduledJob(j, "ERROR"), stored, announced)
  BY <1>2, DeregisterComes DEF EndStatus
<1>5. /\ todo[a] = <<>> /\ net' \in [Agents -> Seq(Message)]
      /\ UNCHANGED <<jobs, tx, leaked, files, conn, phase, failures, announced, stored>>
  BY DEF FailNext, agentVars, IInv, TypeOK
<1> QED BY <1>1, <1>2, <1>3, <1>4, <1>5, GivenCalls

LEMMA InvRequest ==
  ASSUME IInv, NEW j \in Jobs, postJob(j) \/ CancelWaiting(j) \/ deleteJob(j)
  PROVE  IInv'
<1>1. PICK c : /\ c \in {Call("insert", j, "WAITING"), UpdateJobStatus(j, "CANCEL"),
                         UpdateJobStatus(j, "DELETE")}
               /\ Request(j, c)
  BY DEF postJob, CancelWaiting, deleteJob
<1>2. /\ c \in ACall /\ c.do \in {"insert", "status"} /\ c.do \in Writes
      /\ c.val \in {"WAITING", "CANCEL", "DELETE"}
  BY <1>1 DEF Call, UpdateJobStatus, ACall, Status, EndStatus, Writes
<1>3. /\ <<c>> \in Seq(ACall) /\ Len(<<c>>) = 1 /\ Head(<<c>>) = c
      /\ \A i \in 1 .. Len(<<c>>) : <<c>>[i] = c
  BY <1>2
<1>4. Comes(API, <<c>>, stored, announced)
  BY <1>2, <1>3 DEF Comes, CreateComes, EndComes
<1>5. /\ todo' = [todo EXCEPT ![API] = <<c>>] /\ todo[API] = <<>>
      /\ UNCHANGED <<jobs, tx, leaked, files, failures, announced, stored, conn, phase>>
      /\ left' \in [Agents -> SUBSET Jobs] /\ net' \in [Agents -> Seq(Message)]
  BY <1>1 DEF Request, agentVars, IInv, TypeOK
<1>6. API \in Goroutines
  BY DEF Goroutines
<1> QED BY <1>2, <1>3, <1>4, <1>5, <1>6, GivenCalls

LEMMA InvSend ==
  ASSUME IInv, NEW a \in Agents, NEW j \in Jobs,
         acceptJobOffer(a, j) \/ onJobUpdate(a, j) \/ handleJobDone(a, j)
  PROVE  IInv'
<1>1. PICK m, p : m \in Message /\ p \in {"accepted", "output", "ended"} /\ Sends(a, j, m, p)
  <2>1. CASE acceptJobOffer(a, j)
    BY <2>1 DEF acceptJobOffer, Message
  <2>2. CASE onJobUpdate(a, j)
    BY <2>2 DEF onJobUpdate, Message
  <2>3. CASE handleJobDone(a, j)
    BY <2>3, RecordingAssumption DEF handleJobDone, Message, EndStatus
  <2> QED BY <2>1, <2>2, <2>3
<1>2. /\ net' \in [Agents -> Seq(Message)] /\ left' \in [Agents -> SUBSET Jobs]
      /\ conn' \in [Agents -> {"up", "lost", "gone"}]
      /\ phase' \in [Agents -> [Jobs -> {"idle", "accepted", "output", "ended"}]]
  BY <1>1 DEF Sends, IInv, TypeOK
<1>3. UNCHANGED <<jobs, tx, leaked, files, todo, failures, announced, stored>>
  BY <1>1 DEF Sends
<1> QED BY <1>2, <1>3, NoCalls

LEMMA InvConn ==
  ASSUME IInv, NEW a \in Agents, deregisterNode(a) \/ ConnectionLost(a)
  PROVE  IInv'
<1>1. /\ left' \in [Agents -> SUBSET Jobs] /\ conn' \in [Agents -> {"up", "lost", "gone"}]
      /\ phase' \in [Agents -> [Jobs -> {"idle", "accepted", "output", "ended"}]]
      /\ UNCHANGED <<jobs, tx, leaked, files, todo, failures, announced, stored>>
  <2>1. CASE deregisterNode(a)
    BY <2>1 DEF deregisterNode, JobsFromNode, IInv, TypeOK
  <2>2. CASE ConnectionLost(a)
    BY <2>2 DEF ConnectionLost, IInv, TypeOK
  <2> QED BY <2>1, <2>2
<1>2. net' \in [Agents -> Seq(Message)]
  <2>1. CASE deregisterNode(a)
    BY <2>1 DEF deregisterNode, IInv, TypeOK
  <2>2. CASE ConnectionLost(a)
    <3>1. PICK n \in 0 .. Len(net[a]) : net' = [net EXCEPT ![a] = SubSeq(@, 1, n)]
      BY <2>2 DEF ConnectionLost
    <3>2. net \in [Agents -> Seq(Message)]
      BY DEF IInv, TypeOK
    <3>3. SubSeq(net[a], 1, n) \in Seq(Message)
      BY <3>2
    <3> QED BY <3>1, <3>2, <3>3
  <2> QED BY <2>1, <2>2
<1> QED BY <1>1, <1>2, NoCalls

LEMMA InvNext == IInv /\ [Next]_vars => IInv'
<1> SUFFICES ASSUME IInv, [Next]_vars PROVE IInv'
  OBVIOUS
<1>1. CASE UNCHANGED vars
  BY <1>1, NoCalls DEF vars, agentVars, IInv, TypeOK
<1>2. ASSUME NEW g \in Goroutines, Step(g) PROVE IInv'
  BY <1>2, TypeStep, ComesStep DEF IInv
<1>3. ASSUME NEW a \in Agents,
             \/ ReadMessage(a) \/ deregisterNode(a) \/ FailNext(a) \/ ConnectionLost(a)
             \/ \E j \in Jobs : acceptJobOffer(a, j) \/ onJobUpdate(a, j) \/ handleJobDone(a, j)
      PROVE  IInv'
  BY <1>3, InvRead, InvConn, InvFail, InvSend
<1>4. ASSUME NEW j \in Jobs, postJob(j) \/ CancelWaiting(j) \/ deleteJob(j) PROVE IInv'
  BY <1>4, InvRequest
<1> QED BY <1>1, <1>2, <1>3, <1>4 DEF Next

-----------------------------------------------------------------------------
(* The theorems. *)

LEMMA Invariant == Spec => []IInv
BY InvInit, InvNext, PTL DEF Spec

\* Every variable of the recording keeps its type, and an open transaction is that of a
\* goroutine which is about to write, or one that a failed statement left open
\* (server/database/store.go:300-360).
THEOREM TypeCorrect == Spec => []TypeOK
BY Invariant, PTL DEF IInv

\* The webhook "create" tells what the table has had: the status SCHEDULED and the agent
\* that it names, with any number of agents that write the row of the same job, and any
\* statement or file that fails (server/tcp.go:140-168).
THEOREM CreateRecorded == Spec => []CreateIsRecorded
BY Invariant, PTL DEF IInv

\* No job gets the status of an end, SUCCESS or ERROR, before the webhook of that end is
\* sent, whether its agent reports the end or is lost (server/tcp.go:73-80, 173-193).
THEOREM EndAnnounced == Spec => []EndIsAnnounced
BY Invariant, PTL DEF IInv

=============================================================================
