------------------------- MODULE PieceFilingProofs -------------------------
(***************************************************************************)
(* Theorems of PieceFiling: its types, that the petition and the events of *)
(* the attempts tell the truth, and that a redelivery files nothing again. *)
(* The petition's unique key settles the first; the second is about one    *)
(* attempt whose lease never expires: it has one execution at a time, and  *)
(* its status says how far any execution of it has come, so the next one   *)
(* finds it past ENFILEIRADO.                                              *)
(***************************************************************************)
EXTENDS PieceFiling, TLAPS

\* The execution is past the update to PROTOCOLANDO.
Started == {"reload", "open", "protocol", "screenshots", "finalize", "fail"}

\* An attempt is there before its task, its executions and the court see it.
IssuedInv ==
    /\ \A a \in Attempt : attempt[a] = "none" => task[a].state = "none"
    /\ \A w \in Worker : exec[w] # Idle => attempt[exec[w].of] # "none"
    /\ \A w \in Worker : exec[w].pc \in Started =>
           attempt[exec[w].of] \notin {"none", "ENFILEIRADO"}
    /\ \A a \in Attempt : attempt[a] \in {"none", "ENFILEIRADO"} => court[a] = 0

\* One petition; the attempt that made it, if any, was accepted.
TruthInv ==
    /\ petitions = IF piece.petition THEN 1 ELSE 0
    /\ \A a \in Attempt : told[a].succeeded > 0 =>
           piece.petition /\ court[a] > 0 /\ told[a].succeeded = 1
    /\ \A a, b \in Attempt : told[a].succeeded > 0 /\ told[b].succeeded > 0 => a = b
    /\ \A w \in Worker : exec[w].pc \in {"screenshots", "finalize"} => court[exec[w].of] > 0

\* While no lease has expired an attempt has one execution, which asynq waits for.
SoloInv ==
    /\ \A w \in Worker : exec[w] # Idle => ~exec[w].zombie /\ task[exec[w].of].state = "running"
    /\ \A v, w \in Worker : exec[v] # Idle /\ exec[w] # Idle /\ exec[v].of = exec[w].of => v = w

\* Then its status says how far it has come, and the court took it once.
PhaseInv ==
    /\ \A w \in Worker : exec[w].pc = "mark" => attempt[exec[w].of] = "ENFILEIRADO"
    /\ \A w \in Worker : exec[w].pc \in Started => attempt[exec[w].of] = "PROTOCOLANDO"
    /\ \A w \in Worker : exec[w].pc \in {"reload", "open", "protocol"} => court[exec[w].of] = 0
    /\ \A a \in Attempt : court[a] <= 1
    /\ \A a \in Attempt : told[a].failed > 0 => attempt[a] = "FALHOU"

\* Where no call failed either, only an attempt the court never saw fails.
FailedInv ==
    /\ \A w \in Worker : exec[w].pc = "fail" => court[exec[w].of] = 0
    /\ \A a \in Attempt : told[a].failed > 0 => court[a] = 0

IInv ==
    /\ TypeOK
    /\ IssuedInv
    /\ TruthInv
    /\ lapses = 0 => SoloInv /\ PhaseInv
    /\ faults + lapses = 0 => FailedInv
-----------------------------------------------------------------------------
(* The moves of an execution and of its task.                              *)

\* Tasks stay tasks.
LEMMA TaskTypes ==
    /\ NoTask \in Task
    /\ \A t \in Task : Retried(t) \in Task /\ Retried(t).state \in {"queued", "archived"}
    /\ \A t \in Task, c \in Cause :
           Answered(t, c) \in Task /\ Answered(t, c).state \in {"queued", "done", "archived"}
    /\ \A t \in Task, s \in {"queued", "running"} :
           [t EXCEPT !.state = s] \in Task /\ [t EXCEPT !.state = s].state = s
  <1>1. MaxRetry \in Nat
    BY DeliveryAssumptions
  <1>2. NoTask \in Task
    BY <1>1 DEF NoTask, Task
  <1>3. \A t \in Task : Retried(t) \in Task /\ Retried(t).state \in {"queued", "archived"}
    BY <1>1 DEF Task, Retried
  <1>4. \A t \in Task, c \in Cause :
           Answered(t, c) \in Task /\ Answered(t, c).state \in {"queued", "done", "archived"}
    <2> SUFFICES ASSUME NEW t \in Task, NEW c \in Cause
                 PROVE  Answered(t, c) \in Task /\ Answered(t, c).state \in {"queued", "done", "archived"}
      OBVIOUS
    <2>1. CASE c = "none"
      BY <2>1 DEF Answered, Task
    <2>2. CASE c = "terminal"
      BY <2>2 DEF Answered, Task
    <2>3. CASE c = "transient"
      BY <1>3, <2>3 DEF Answered
    <2> QED
      BY <2>1, <2>2, <2>3 DEF Cause
  <1>5. \A t \in Task, s \in {"queued", "running"} :
           [t EXCEPT !.state = s] \in Task /\ [t EXCEPT !.state = s].state = s
    BY DEF Task
  <1> QED
    BY <1>2, <1>3, <1>4, <1>5

\* A running execution has its fields; an idle one has none of the phases.
LEMMA ExecTypes ==
    ASSUME TypeOK, NEW w \in Worker
    PROVE  /\ exec[w] = Idle => exec[w].pc = "idle"
           /\ exec[w] # Idle =>
                 /\ exec[w].pc \in {"load", "mark"} \cup Started
                 /\ exec[w].of \in Attempt
                 /\ exec[w].zombie \in BOOLEAN
  BY DEF TypeOK, Exec, Idle, Started

\* An execution goes on to its next phase.
LEMMA GotoMoves ==
    ASSUME TypeOK, NEW w \in Worker, exec[w] # Idle,
           NEW p \in {"load", "mark"} \cup Started, Goto(w, p)
    PROVE  /\ exec' \in [Worker -> Exec]
           /\ exec'[w] # Idle /\ exec'[w].pc = p
           /\ exec'[w].of = exec[w].of /\ exec'[w].zombie = exec[w].zombie
           /\ \A v \in Worker : v # w => exec'[v] = exec[v]
  <1>1. PICK x \in Exec : x = exec[w] /\ x # Idle
    BY DEF TypeOK
  <1>2. exec' = [exec EXCEPT ![w] = [x EXCEPT !.pc = p]]
    BY <1>1 DEF Goto, TypeOK
  <1>3. /\ [x EXCEPT !.pc = p] \in Exec /\ [x EXCEPT !.pc = p].pc = p
        /\ [x EXCEPT !.pc = p].of = x.of /\ [x EXCEPT !.pc = p].zombie = x.zombie
        /\ p # "idle"
    BY <1>1 DEF Exec, Started, Idle
  <1>4. [x EXCEPT !.pc = p] # Idle
    BY <1>3 DEF Idle
  <1> QED
    BY <1>1, <1>2, <1>3, <1>4 DEF TypeOK

\* An execution ends, and asynq does with its task what the answer says.
LEMMA ReturnMoves ==
    ASSUME TypeOK, NEW w \in Worker, exec[w] # Idle, NEW c \in Cause, Return(w, c)
    PROVE  /\ exec' \in [Worker -> Exec]
           /\ exec'[w] = Idle /\ exec'[w].pc = "idle"
           /\ \A v \in Worker : v # w => exec'[v] = exec[v]
           /\ task' \in [Attempt -> Task]
           /\ \A a \in Attempt : task'[a] = task[a] \/ (a = exec[w].of /\ task'[a].state # "none")
           /\ \A a \in Attempt : a # exec[w].of => task'[a] = task[a]
  <1>1. exec' = [exec EXCEPT ![w] = Idle] /\ Idle \in Exec
    BY DEF Return, Exec
  <1>2. exec[w].of \in Attempt /\ task[exec[w].of] \in Task
    BY ExecTypes DEF TypeOK
  <1>3. Answered(task[exec[w].of], c) \in Task /\ Answered(task[exec[w].of], c).state # "none"
    BY <1>2, TaskTypes
  <1>4. task' = task \/ task' = [task EXCEPT ![exec[w].of] = Answered(task[exec[w].of], c)]
    BY DEF Return
  <1>5. exec' \in [Worker -> Exec] /\ exec'[w] = Idle /\ \A v \in Worker : v # w => exec'[v] = exec[v]
    BY <1>1 DEF TypeOK
  <1> QED
    BY <1>2, <1>3, <1>4, <1>5 DEF TypeOK, Idle
-----------------------------------------------------------------------------
(* A step of an execution touches its own attempt, and leaves others alone. *)

\* Of two counts that have come to nothing the first had, too.
LEMMA Sums == \A f, g, l \in Nat : f <= g /\ g + l = 0 => l = 0 /\ f + l = 0
  OBVIOUS

\* What the step of w leaves alone: the other attempts and executions.
Frame(w) ==
    LET a == exec[w].of IN
    /\ exec[w] # Idle
    /\ lapses' = lapses /\ faults <= faults'
    /\ \A b \in Attempt : b # a =>
          attempt'[b] = attempt[b] /\ court'[b] = court[b] /\ told'[b] = told[b]
    /\ \A v \in Worker : v # w => exec'[v] = exec[v]
    /\ \/ task' = task /\ exec'[w] # Idle /\ exec'[w].of = a /\ exec'[w].zombie = exec[w].zombie
       \/ \E c \in Cause : Return(w, c)

\* What it owes to its own attempt, whoever else works on it.
Durable(w) ==
    LET a == exec[w].of IN
    /\ attempt'[a] # "none"
    /\ attempt[a] # "ENFILEIRADO" => attempt'[a] # "ENFILEIRADO"
    /\ attempt'[a] = "ENFILEIRADO" => court'[a] = 0
    /\ court[a] <= court'[a]
    /\ exec'[w].pc \in Started => attempt'[a] # "ENFILEIRADO"
    /\ exec'[w].pc \in {"screenshots", "finalize"} => court'[a] > 0

\* What it owes to it when it works on it alone.
Alone(w) ==
    LET a == exec[w].of IN
    /\ exec'[w].pc = "mark" => attempt'[a] = "ENFILEIRADO"
    /\ exec'[w].pc \in Started => attempt'[a] = "PROTOCOLANDO"
    /\ exec'[w].pc \in {"reload", "open", "protocol"} => court'[a] = 0
    /\ court'[a] <= 1
    /\ told'[a].failed > 0 => attempt'[a] = "FALHOU"

\* And when no call has failed either.
Honest(w) ==
    LET a == exec[w].of IN
    /\ exec'[w].pc = "fail" => court'[a] = 0
    /\ told'[a].failed > 0 => court'[a] = 0

\* The petition and filing.succeeded.
PetitionInv ==
    /\ petitions = IF piece.petition THEN 1 ELSE 0
    /\ \A a \in Attempt : told[a].succeeded > 0 =>
           piece.petition /\ court[a] > 0 /\ told[a].succeeded = 1
    /\ \A a, b \in Attempt : told[a].succeeded > 0 /\ told[b].succeeded > 0 => a = b

\* Such a step keeps the invariant.
LEMMA StepKeeps ==
    ASSUME IInv, NEW w \in Worker, Frame(w), TypeOK', PetitionInv', Durable(w),
           lapses = 0 => Alone(w),
           faults' + lapses = 0 => Honest(w)
    PROVE  IInv'
  <1> DEFINE a == exec[w].of
  <1>1. /\ TypeOK /\ exec[w] # Idle /\ a \in Attempt
        /\ \A v \in Worker : exec[v] # Idle => exec[v].of \in Attempt
        /\ \A v \in Worker : exec[v].pc # "idle" => exec[v] # Idle
    BY ExecTypes DEF IInv, Frame
  <1>2. /\ \A v \in Worker : v # w => exec'[v] = exec[v]
        /\ exec'[w] = Idle \/ (exec'[w] # Idle /\ exec'[w].of = a)
        /\ exec'[w] = Idle => exec'[w].pc = "idle"
        /\ \A b \in Attempt : b # a => task'[b] = task[b]
        /\ \A b \in Attempt : task'[b] = task[b] \/ b = a
    <2>1. CASE task' = task /\ exec'[w] # Idle /\ exec'[w].of = a
      BY <2>1 DEF Frame, Idle
    <2>2. CASE \E c \in Cause : Return(w, c)
      BY <1>1, <2>2, ReturnMoves DEF Frame
    <2> QED
      BY <2>1, <2>2 DEF Frame
  <1>3. \A b \in Attempt : b # a => attempt'[b] = attempt[b] /\ court'[b] = court[b] /\ told'[b] = told[b]
    BY DEF Frame
  <1>4. /\ \A b \in Attempt : court[b] \in Nat /\ court'[b] \in Nat
        /\ lapses \in Nat /\ faults \in Nat /\ faults' \in Nat /\ lapses' = lapses /\ faults <= faults'
    BY DeliveryAssumptions DEF IInv, TypeOK, Frame
  <1>5. IssuedInv'
    <2>1. \A b \in Attempt : attempt'[b] = "none" => task'[b].state = "none"
      BY <1>1, <1>2, <1>3 DEF IInv, IssuedInv, Durable
    <2>2. \A v \in Worker : exec'[v] # Idle => attempt'[exec'[v].of] # "none"
      BY <1>1, <1>2, <1>3 DEF IInv, IssuedInv, Durable
    <2>3. ASSUME NEW v \in Worker, exec'[v].pc \in Started
          PROVE  attempt'[exec'[v].of] \notin {"none", "ENFILEIRADO"}
      <3>1. CASE v = w
        BY <1>2, <2>3, <3>1 DEF Durable, Started
      <3>2. CASE v # w
        <4>1. exec'[v] = exec[v] /\ exec[v] # Idle /\ exec[v].of \in Attempt
          BY <1>1, <1>2, <2>3, <3>2 DEF Started, Idle
        <4>2. attempt[exec[v].of] \notin {"none", "ENFILEIRADO"}
          BY <2>3, <4>1 DEF IInv, IssuedInv
        <4> QED
          BY <1>3, <4>1, <4>2 DEF Durable
      <3> QED
        BY <3>1, <3>2
    <2>4. \A b \in Attempt : attempt'[b] \in {"none", "ENFILEIRADO"} => court'[b] = 0
      BY <1>3 DEF IInv, IssuedInv, Durable
    <2> QED
      BY <2>1, <2>2, <2>3, <2>4 DEF IssuedInv
  <1>6. TruthInv'
    <2>1. ASSUME NEW v \in Worker, exec'[v].pc \in {"screenshots", "finalize"}
          PROVE  court'[exec'[v].of] > 0
      <3>1. CASE v = w
        BY <1>2, <2>1, <3>1 DEF Durable
      <3>2. CASE v # w
        <4>1. exec'[v] = exec[v] /\ exec[v] # Idle /\ exec[v].of \in Attempt
          BY <1>1, <1>2, <2>1, <3>2 DEF Idle
        <4>2. court[exec[v].of] > 0
          BY <2>1, <4>1 DEF IInv, TruthInv
        <4> QED
          BY <1>1, <1>3, <1>4, <4>1, <4>2 DEF Durable
      <3> QED
        BY <3>1, <3>2
    <2> QED
      BY <2>1 DEF TruthInv, PetitionInv
  <1>7. ASSUME lapses = 0 PROVE SoloInv' /\ PhaseInv'
    <2>1. SoloInv /\ PhaseInv /\ Alone(w)
      BY <1>7 DEF IInv
    <2>2. \A v \in Worker : v # w /\ exec[v] # Idle => exec[v].of # a
      BY <1>1, <2>1 DEF SoloInv
    <2>3. SoloInv'
      <3>1. ASSUME NEW v \in Worker, exec'[v] # Idle
            PROVE  ~exec'[v].zombie /\ task'[exec'[v].of].state = "running"
        <4>1. CASE v = w
          <5>1. task' = task /\ exec'[w].of = a /\ exec'[w].zombie = exec[w].zombie
            BY <1>1, <3>1, <4>1, ReturnMoves DEF Frame
          <5> QED
            BY <1>1, <2>1, <4>1, <5>1 DEF SoloInv
        <4>2. CASE v # w
          BY <1>1, <1>2, <2>1, <2>2, <3>1, <4>2 DEF SoloInv
        <4> QED
          BY <4>1, <4>2
      <3>2. \A u, v \in Worker :
                exec'[u] # Idle /\ exec'[v] # Idle /\ exec'[u].of = exec'[v].of => u = v
        BY <1>1, <1>2, <2>1, <2>2 DEF SoloInv
      <3> QED
        BY <3>1, <3>2 DEF SoloInv
    <2>4. PhaseInv'
      <3>1. ASSUME NEW v \in Worker
            PROVE  /\ exec'[v].pc = "mark" => attempt'[exec'[v].of] = "ENFILEIRADO"
                   /\ exec'[v].pc \in Started => attempt'[exec'[v].of] = "PROTOCOLANDO"
                   /\ exec'[v].pc \in {"reload", "open", "protocol"} => court'[exec'[v].of] = 0
        <4>1. CASE v = w /\ exec'[w] # Idle
          BY <1>2, <2>1, <4>1 DEF Alone
        <4>2. CASE v = w /\ exec'[w] = Idle
          BY <1>2, <4>2 DEF Started
        <4>3. CASE v # w /\ exec[v] # Idle
          BY <1>1, <1>2, <1>3, <2>1, <2>2, <4>3 DEF PhaseInv
        <4>4. CASE v # w /\ exec[v] = Idle
          BY <1>2, <4>4 DEF Started, Idle
        <4> QED
          BY <4>1, <4>2, <4>3, <4>4
      <3>2. \A b \in Attempt : court'[b] <= 1 /\ (told'[b].failed > 0 => attempt'[b] = "FALHOU")
        BY <1>3, <2>1 DEF PhaseInv, Alone
      <3> QED
        BY <3>1, <3>2 DEF PhaseInv
    <2> QED
      BY <2>3, <2>4
  <1>8. ASSUME faults' + lapses = 0 PROVE FailedInv'
    <2>0. /\ lapses \in Nat /\ faults \in Nat /\ faults' \in Nat /\ faults <= faults'
          /\ faults' + lapses = 0
      BY <1>4, <1>8 DEF Frame
    <2>1. lapses = 0 /\ faults + lapses = 0
      BY <2>0, Sums
    <2>2. SoloInv /\ FailedInv /\ Honest(w)
      BY <1>8, <2>1 DEF IInv
    <2>3. \A v \in Worker : v # w /\ exec[v] # Idle => exec[v].of # a
      BY <1>1, <2>2 DEF SoloInv
    <2>4. ASSUME NEW v \in Worker, exec'[v].pc = "fail" PROVE court'[exec'[v].of] = 0
      <3>1. CASE v = w
        BY <1>2, <2>2, <2>4, <3>1 DEF Honest
      <3>2. CASE v # w
        <4>1. exec'[v] = exec[v] /\ exec[v] # Idle /\ exec[v].of \in Attempt /\ exec[v].of # a
          BY <1>1, <1>2, <2>3, <2>4, <3>2 DEF Idle
        <4> QED
          BY <1>3, <2>2, <2>4, <4>1 DEF FailedInv
      <3> QED
        BY <3>1, <3>2
    <2>5. \A b \in Attempt : told'[b].failed > 0 => court'[b] = 0
      BY <1>3, <2>2 DEF FailedInv, Honest
    <2> QED
      BY <2>4, <2>5 DEF FailedInv
  <1> QED
    BY <1>4, <1>5, <1>6, <1>7, <1>8 DEF IInv

\* A call that may have failed counts as a fault or not at all.
LEMMA FaultCounts ==
    ASSUME TypeOK, Fault \/ NoFault
    PROVE  /\ faults' \in 0..MaxFaults /\ faults <= faults'
           /\ crashes' = crashes /\ lapses' = lapses
           /\ Fault => faults' + lapses # 0
  <1>1. MaxFaults \in Nat /\ MaxLapses \in Nat /\ faults \in 0..MaxFaults /\ lapses \in 0..MaxLapses
    BY DeliveryAssumptions DEF TypeOK
  <1>2. CASE Fault
    <2>1. faults' = faults + 1 /\ faults < MaxFaults /\ UNCHANGED <<crashes, lapses>>
      BY <1>2 DEF Fault
    <2> QED
      BY <1>1, <2>1
  <1>3. CASE NoFault /\ ~Fault
    BY <1>1, <1>3 DEF NoFault, bounds
  <1> QED
    BY <1>2, <1>3

\* The execution goes on to p with its task, or ends.
Goes(w, p) == Goto(w, p) /\ UNCHANGED task
Ends(w) == \E c \in Cause : Return(w, c)

\* What either does to the executions and the tasks.
LEMMA FateMoves ==
    ASSUME TypeOK, NEW w \in Worker, exec[w] # Idle,
           Ends(w) \/ \E p \in {"load", "mark"} \cup Started : Goes(w, p)
    PROVE  /\ exec' \in [Worker -> Exec] /\ task' \in [Attempt -> Task]
           /\ \A v \in Worker : v # w => exec'[v] = exec[v]
           /\ \/ task' = task /\ exec'[w] # Idle /\ exec'[w].of = exec[w].of
                 /\ exec'[w].zombie = exec[w].zombie
              \/ \E c \in Cause : Return(w, c)
           /\ Ends(w) => exec'[w].pc = "idle"
           /\ \A p \in {"load", "mark"} \cup Started : Goes(w, p) => exec'[w].pc = p
  <1>1. CASE Ends(w)
    <2>1. PICK c \in Cause : Return(w, c)
      BY <1>1 DEF Ends
    <2>2. /\ exec' \in [Worker -> Exec] /\ task' \in [Attempt -> Task]
          /\ \A v \in Worker : v # w => exec'[v] = exec[v]
          /\ exec'[w] = Idle /\ exec'[w].pc = "idle"
      BY <2>1, ReturnMoves
    <2>3. \A p \in {"load", "mark"} \cup Started : ~Goes(w, p)
      BY <2>2, GotoMoves DEF Goes
    <2> QED
      BY <2>1, <2>2, <2>3
  <1>2. ASSUME NEW p \in {"load", "mark"} \cup Started, Goes(w, p)
        PROVE  /\ exec' \in [Worker -> Exec] /\ task' = task
               /\ exec'[w] # Idle /\ exec'[w].pc = p
               /\ exec'[w].of = exec[w].of /\ exec'[w].zombie = exec[w].zombie
               /\ \A v \in Worker : v # w => exec'[v] = exec[v]
    BY <1>2, GotoMoves DEF Goes
  <1>3. CASE ~Ends(w)
    <2>1. PICK p \in {"load", "mark"} \cup Started : Goes(w, p)
      BY <1>3
    <2>2. /\ exec' \in [Worker -> Exec] /\ task' = task /\ exec'[w] # Idle /\ exec'[w].pc = p
          /\ exec'[w].of = exec[w].of /\ exec'[w].zombie = exec[w].zombie
          /\ \A v \in Worker : v # w => exec'[v] = exec[v]
      BY <1>2, <2>1
    <2> QED
      BY <1>2, <1>3, <2>2 DEF TypeOK
  <1> QED
    BY <1>1, <1>3

\* A step that changes the execution only: it ends, or goes on to a phase its
\* attempt is ready for.
LEMMA QuietKeeps ==
    ASSUME IInv, NEW w \in Worker, exec[w] # Idle,
           UNCHANGED <<attempt, piece, credential, click, court, told, petitions>>,
           faults' \in 0..MaxFaults, faults <= faults',
           crashes' \in 0..MaxCrashes, lapses' = lapses,
           \/ Ends(w)
           \/ Goes(w, "mark") /\ attempt[exec[w].of] = "ENFILEIRADO"
           \/ \E p \in Started :
                 /\ Goes(w, p)
                 /\ exec[w].pc \in Started \/ attempt[exec[w].of] = "PROTOCOLANDO"
                 /\ p \in {"screenshots", "finalize"} => exec[w].pc \in {"screenshots", "finalize"}
                 /\ lapses = 0 => attempt[exec[w].of] = "PROTOCOLANDO"
                 /\ lapses = 0 /\ p \in {"reload", "open", "protocol"} => court[exec[w].of] = 0
                 /\ faults' + lapses = 0 /\ p = "fail" => court[exec[w].of] = 0
    PROVE  IInv'
  <1> DEFINE a == exec[w].of
  <1>1. TypeOK /\ a \in Attempt
    BY ExecTypes DEF IInv
  <1>2. Ends(w) \/ \E p \in {"load", "mark"} \cup Started : Goes(w, p)
    BY DEF Started
  <1>3. TypeOK'
    BY <1>1, <1>2, FateMoves DEF TypeOK
  <1>4. Frame(w)
    BY <1>1, <1>2, FateMoves DEF Frame
  <1>5. PetitionInv'
    BY DEF IInv, TruthInv, PetitionInv
  <1>6. court[a] <= court'[a] /\ attempt[a] # "none"
    BY <1>1 DEF IInv, IssuedInv, TypeOK
  <1>7. faults' + lapses = 0 => faults + lapses = 0
    <2>1. faults \in Nat /\ faults' \in Nat /\ lapses \in Nat /\ faults <= faults'
      BY <1>1, DeliveryAssumptions DEF TypeOK
    <2> QED
      BY <2>1, Sums
  <1>8. CASE Ends(w)
    <2>1. exec'[w].pc = "idle"
      BY <1>1, <1>8, FateMoves
    <2>2. Durable(w)
      BY <1>1, <1>6, <2>1 DEF Durable, Started, IInv, IssuedInv
    <2>3. lapses = 0 => Alone(w)
      BY <1>1, <2>1 DEF Alone, Started, IInv, PhaseInv
    <2>4. faults' + lapses = 0 => Honest(w)
      BY <1>1, <2>1, <1>7 DEF Honest, IInv, FailedInv
    <2> QED
      BY <1>3, <1>4, <1>5, <2>2, <2>3, <2>4, StepKeeps
  <1>9. CASE Goes(w, "mark") /\ attempt[a] = "ENFILEIRADO"
    <2>1. exec'[w].pc = "mark"
      BY <1>1, <1>9, FateMoves
    <2>2. Durable(w)
      BY <1>1, <1>6, <1>9, <2>1 DEF Durable, Started, IInv, IssuedInv
    <2>3. lapses = 0 => Alone(w)
      BY <1>1, <1>9, <2>1 DEF Alone, Started, IInv, PhaseInv
    <2>4. faults' + lapses = 0 => Honest(w)
      BY <1>1, <2>1, <1>7 DEF Honest, IInv, FailedInv
    <2> QED
      BY <1>3, <1>4, <1>5, <2>2, <2>3, <2>4, StepKeeps
  <1>10. ASSUME NEW p \in Started, Goes(w, p),
               exec[w].pc \in Started \/ attempt[a] = "PROTOCOLANDO",
               p \in {"screenshots", "finalize"} => exec[w].pc \in {"screenshots", "finalize"},
               lapses = 0 => attempt[a] = "PROTOCOLANDO",
               lapses = 0 /\ p \in {"reload", "open", "protocol"} => court[a] = 0,
               faults' + lapses = 0 /\ p = "fail" => court[a] = 0
        PROVE  IInv'
    <2>1. exec'[w].pc = p
      BY <1>1, <1>10, FateMoves
    <2>2. Durable(w)
      <3>1. attempt[a] # "ENFILEIRADO"
        BY <1>1, <1>10 DEF IInv, IssuedInv
      <3>2. p \in {"screenshots", "finalize"} => court[a] > 0
        BY <1>1, <1>10 DEF IInv, TruthInv
      <3> QED
        BY <1>6, <2>1, <3>1, <3>2 DEF Durable
    <2>3. lapses = 0 => Alone(w)
      BY <1>1, <1>10, <2>1 DEF Alone, Started, IInv, PhaseInv
    <2>4. faults' + lapses = 0 => Honest(w)
      BY <1>1, <1>10, <2>1, <1>7 DEF Honest, IInv, FailedInv
    <2> QED
      BY <1>3, <1>4, <1>5, <2>2, <2>3, <2>4, StepKeeps
  <1> QED
    BY <1>8, <1>9, <1>10
-----------------------------------------------------------------------------
(* OnFilingEnqueued, step by step.                                         *)

\* The reads, the outside calls that write nothing, and a crash.
LEMMA CallsKeep ==
    ASSUME IInv, NEW w \in Worker,
           LoadStep(w) \/ ReloadStep(w) \/ OpenStep(w) \/ ScreenshotsStep(w) \/ Crash(w)
    PROVE  IInv'
  <1> DEFINE a == exec[w].of
  <1>1. /\ TypeOK /\ exec[w] # Idle /\ a \in Attempt
        /\ UNCHANGED <<attempt, piece, credential, click, court, told, petitions>>
    <2>1. exec[w] # Idle
      BY DEF LoadStep, ReloadStep, OpenStep, ScreenshotsStep, Crash, Idle
    <2> QED
      BY <2>1, ExecTypes DEF IInv, LoadStep, ReloadStep, OpenStep, ScreenshotsStep, Crash
  <1>2. crashes \in 0..MaxCrashes /\ faults \in 0..MaxFaults /\ lapses \in Nat /\ MaxFaults \in Nat
    BY <1>1, DeliveryAssumptions DEF TypeOK
  <1>3. \A c \in {"none", "transient"} : Return(w, c) => Ends(w)
    BY DEF Ends, Cause
  <1>4. CASE LoadStep(w)
    <2>1. /\ faults' \in 0..MaxFaults /\ faults <= faults' /\ crashes' \in 0..MaxCrashes
          /\ lapses' = lapses
      BY <1>1, <1>2, <1>4, FaultCounts DEF LoadStep
    <2>2. Ends(w) \/ (Goes(w, "mark") /\ attempt[a] = "ENFILEIRADO")
      BY <1>3, <1>4 DEF LoadStep, Pending, Goes
    <2> QED
      BY <1>1, <2>1, <2>2, QuietKeeps
  <1>5. CASE ReloadStep(w)
    <2>1. /\ faults' \in 0..MaxFaults /\ faults <= faults' /\ crashes' \in 0..MaxCrashes
          /\ lapses' = lapses
      BY <1>1, <1>2, <1>5, FaultCounts DEF ReloadStep
    <2>2. Ends(w) \/ (Goes(w, "open") /\ attempt[a] = "PROTOCOLANDO")
      BY <1>3, <1>5 DEF ReloadStep, Goes
    <2>3. lapses = 0 => court[a] = 0
      BY <1>1, <1>5 DEF ReloadStep, IInv, PhaseInv
    <2> QED
      BY <1>1, <2>1, <2>2, <2>3, QuietKeeps DEF Started
  <1>6. CASE OpenStep(w)
    <2>1. /\ faults' \in 0..MaxFaults /\ faults <= faults' /\ crashes' \in 0..MaxCrashes
          /\ lapses' = lapses
      BY <1>1, <1>2, <1>6, FaultCounts DEF OpenStep
    <2>2. exec[w].pc = "open" /\ (Goes(w, "protocol") \/ Goes(w, "fail"))
      BY <1>6 DEF OpenStep, Goes
    <2>3. lapses = 0 => attempt[a] = "PROTOCOLANDO" /\ court[a] = 0
      BY <1>1, <2>2 DEF IInv, PhaseInv, Started
    <2>4. faults' + lapses = 0 => lapses = 0
      <3>1. faults \in Nat /\ faults' \in Nat /\ lapses \in Nat /\ faults <= faults'
        BY <1>2, <2>1
      <3> QED
        BY <3>1, Sums
    <2> QED
      BY <1>1, <2>1, <2>2, <2>3, <2>4, QuietKeeps DEF Started
  <1>7. CASE ScreenshotsStep(w)
    <2>1. /\ faults' \in 0..MaxFaults /\ faults <= faults' /\ crashes' \in 0..MaxCrashes
          /\ lapses' = lapses
      BY <1>1, <1>2, <1>7, FaultCounts DEF ScreenshotsStep
    <2>2. /\ exec[w].pc = "screenshots"
          /\ Goes(w, "finalize") \/ (Goes(w, "fail") /\ faults' + lapses # 0)
      BY <1>1, <1>7, FaultCounts DEF ScreenshotsStep, Goes
    <2>3. lapses = 0 => attempt[a] = "PROTOCOLANDO"
      BY <1>1, <2>2 DEF IInv, PhaseInv, Started
    <2> QED
      BY <1>1, <2>1, <2>2, <2>3, QuietKeeps DEF Started
  <1>8. CASE Crash(w)
    <2>1. /\ faults' \in 0..MaxFaults /\ faults <= faults' /\ crashes' \in 0..MaxCrashes
          /\ lapses' = lapses
      BY <1>2, <1>8, DeliveryAssumptions DEF Crash
    <2>2. Ends(w)
      BY <1>3, <1>8 DEF Crash
    <2> QED
      BY <1>1, <2>1, <2>2, QuietKeeps
  <1> QED
    BY <1>4, <1>5, <1>6, <1>7, <1>8

\* The update to PROTOCOLANDO, guarded on ENFILEIRADO.
LEMMA MarkKeeps ==
    ASSUME IInv, NEW w \in Worker, MarkStep(w)
    PROVE  IInv'
  <1> DEFINE a == exec[w].of
  <1>1. TypeOK /\ exec[w] # Idle /\ a \in Attempt /\ exec[w].pc = "mark"
    <2>1. exec[w] # Idle /\ exec[w].pc = "mark"
      BY DEF MarkStep, Idle
    <2> QED
      BY <2>1, ExecTypes DEF IInv
  <1>2. UNCHANGED <<piece, credential, click, court, told, petitions>>
    BY DEF MarkStep
  <1>3. /\ faults' \in 0..MaxFaults /\ faults <= faults'
        /\ crashes' = crashes /\ lapses' = lapses
    BY <1>1, FaultCounts DEF MarkStep
  <1>4. CASE Return(w, "transient") /\ UNCHANGED attempt
    <2>1. Ends(w)
      BY <1>4 DEF Ends, Cause
    <2> QED
      BY <1>1, <1>2, <1>3, <1>4, <2>1, QuietKeeps DEF TypeOK
  <1>5. CASE /\ attempt' = [attempt EXCEPT ![a] = IF @ = "ENFILEIRADO" THEN "PROTOCOLANDO" ELSE @]
             /\ Goes(w, "reload")
    <2>1. /\ exec' \in [Worker -> Exec] /\ task' \in [Attempt -> Task] /\ exec'[w].pc = "reload"
          /\ \A v \in Worker : v # w => exec'[v] = exec[v]
          /\ \/ task' = task /\ exec'[w] # Idle /\ exec'[w].of = a /\ exec'[w].zombie = exec[w].zombie
             \/ \E c \in Cause : Return(w, c)
      BY <1>1, <1>5, FateMoves DEF Started
    <2>2. /\ attempt'[a] = IF attempt[a] = "ENFILEIRADO" THEN "PROTOCOLANDO" ELSE attempt[a]
          /\ \A b \in Attempt : b # a => attempt'[b] = attempt[b]
          /\ attempt' \in [Attempt -> Status]
      BY <1>1, <1>5 DEF TypeOK, Status
    <2>3. TypeOK'
      BY <1>1, <1>2, <1>3, <2>1, <2>2 DEF TypeOK
    <2>4. Frame(w)
      BY <1>1, <1>2, <1>3, <2>1, <2>2 DEF Frame
    <2>5. PetitionInv'
      BY <1>2 DEF IInv, TruthInv, PetitionInv
    <2>6. Durable(w)
      <3>1. court[a] <= court'[a] /\ attempt[a] # "none"
        BY <1>1, <1>2 DEF IInv, IssuedInv, TypeOK
      <3> QED
        BY <2>1, <2>2, <3>1 DEF Durable
    <2>7. lapses = 0 => Alone(w)
      <3> SUFFICES ASSUME lapses = 0 PROVE Alone(w)
        OBVIOUS
      <3>1. attempt[a] = "ENFILEIRADO" /\ court[a] = 0 /\ court[a] <= 1 /\ ~(told[a].failed > 0)
        BY <1>1 DEF IInv, PhaseInv, IssuedInv
      <3> QED
        BY <1>2, <2>1, <2>2, <3>1 DEF Alone
    <2>8. faults' + lapses = 0 => Honest(w)
      <3>1. faults' + lapses = 0 => faults + lapses = 0
        <4>1. faults \in Nat /\ faults' \in Nat /\ lapses \in Nat
          BY <1>1, <1>3, DeliveryAssumptions DEF TypeOK
        <4> QED
          BY <1>3, <4>1, Sums
      <3> QED
        BY <1>1, <1>2, <2>1, <3>1 DEF Honest, IInv, FailedInv
    <2> QED
      BY <2>3, <2>4, <2>5, <2>6, <2>7, <2>8, StepKeeps
  <1> QED
    BY <1>4, <1>5 DEF MarkStep, Goes

\* The court takes the filing, or an error comes back.
LEMMA ProtocolKeeps ==
    ASSUME IInv, NEW w \in Worker, ProtocolStep(w)
    PROVE  IInv'
  <1> DEFINE a == exec[w].of
             accepted == [court EXCEPT ![a] = court[a] + 1]
  <1>1. TypeOK /\ exec[w] # Idle /\ a \in Attempt /\ exec[w].pc = "protocol"
    <2>1. exec[w] # Idle /\ exec[w].pc = "protocol"
      BY DEF ProtocolStep, Idle
    <2> QED
      BY <2>1, ExecTypes DEF IInv
  <1>2. UNCHANGED <<attempt, piece, credential, click, task, told, petitions>>
    BY DEF ProtocolStep
  <1>3. /\ faults' \in 0..MaxFaults /\ faults <= faults'
        /\ crashes' = crashes /\ lapses' = lapses
    BY <1>1, FaultCounts DEF ProtocolStep
  <1>4. PICK p \in {"screenshots", "fail"} :
            /\ Goes(w, p)
            /\ court' \in {court, accepted}
            /\ p = "screenshots" => court' = accepted
            /\ p = "fail" => faults' + lapses # 0
    BY <1>1, FaultCounts DEF ProtocolStep, Goes
  <1>5. /\ exec' \in [Worker -> Exec] /\ task' \in [Attempt -> Task] /\ exec'[w].pc = p
        /\ \A v \in Worker : v # w => exec'[v] = exec[v]
        /\ \/ task' = task /\ exec'[w] # Idle /\ exec'[w].of = a /\ exec'[w].zombie = exec[w].zombie
           \/ \E c \in Cause : Return(w, c)
    BY <1>1, <1>4, FateMoves DEF Started
  <1>6. /\ court'[a] \in {court[a], court[a] + 1}
        /\ p = "screenshots" => court'[a] = court[a] + 1
        /\ \A b \in Attempt : b # a => court'[b] = court[b]
        /\ court' \in [Attempt -> Nat]
        /\ court[a] \in Nat
    BY <1>1, <1>4 DEF TypeOK
  <1>7. court[a] <= court'[a] /\ (p = "screenshots" => court'[a] > 0)
    BY <1>6
  <1>8. attempt[a] \notin {"none", "ENFILEIRADO"}
    BY <1>1 DEF IInv, IssuedInv, Started
  <1>9. TypeOK'
    BY <1>1, <1>2, <1>3, <1>5, <1>6 DEF TypeOK
  <1>10. Frame(w)
    BY <1>1, <1>2, <1>3, <1>5, <1>6 DEF Frame
  <1>11. PetitionInv'
    <2>1. \A b \in Attempt : court[b] > 0 => court'[b] > 0
      BY <1>6
    <2> QED
      BY <1>2, <2>1 DEF IInv, TruthInv, PetitionInv
  <1>12. Durable(w)
    BY <1>2, <1>4, <1>5, <1>7, <1>8 DEF Durable
  <1>13. lapses = 0 => Alone(w)
    <2> SUFFICES ASSUME lapses = 0 PROVE Alone(w)
      OBVIOUS
    <2>1. /\ attempt[a] = "PROTOCOLANDO" /\ court[a] = 0 /\ ~(told[a].failed > 0)
      BY <1>1 DEF IInv, PhaseInv, Started
    <2>2. court'[a] <= 1
      BY <1>6, <2>1
    <2> QED
      BY <1>2, <1>4, <1>5, <2>1, <2>2 DEF Alone
  <1>14. faults' + lapses = 0 => Honest(w)
    <2> SUFFICES ASSUME faults' + lapses = 0 PROVE Honest(w)
      OBVIOUS
    <2>1. p = "screenshots" /\ lapses = 0
      <3>1. faults \in Nat /\ faults' \in Nat /\ lapses \in Nat
        BY <1>1, <1>3, DeliveryAssumptions DEF TypeOK
      <3> QED
        BY <1>3, <1>4, <3>1, Sums
    <2>2. ~(told[a].failed > 0)
      BY <1>1, <2>1 DEF IInv, PhaseInv, Started
    <2> QED
      BY <1>2, <1>5, <2>1, <2>2 DEF Honest
  <1> QED
    BY <1>9, <1>10, <1>11, <1>12, <1>13, <1>14, StepKeeps

\* The last transaction: petition, PROTOCOLADO and the events, or an error.
LEMMA FinalizeKeeps ==
    ASSUME IInv, NEW w \in Worker, FinalizeStep(w)
    PROVE  IInv'
  <1> DEFINE a == exec[w].of
  <1>1. TypeOK /\ exec[w] # Idle /\ a \in Attempt /\ exec[w].pc = "finalize"
    <2>1. exec[w] # Idle /\ exec[w].pc = "finalize"
      BY DEF FinalizeStep, Idle
    <2> QED
      BY <2>1, ExecTypes DEF IInv
  <1>2. UNCHANGED <<credential, click, court>>
    BY DEF FinalizeStep
  <1>3. /\ faults' \in 0..MaxFaults /\ faults <= faults'
        /\ crashes' = crashes /\ lapses' = lapses
    BY <1>1, FaultCounts DEF FinalizeStep
  <1>4. Ends(w)
    BY DEF FinalizeStep, Ends, Cause
  <1>5. CASE UNCHANGED <<piece, attempt, told, petitions>>
    BY <1>1, <1>2, <1>3, <1>4, <1>5, QuietKeeps DEF TypeOK
  <1>6. CASE /\ ~piece.petition
             /\ piece' = Filed
             /\ attempt' = [attempt EXCEPT ![a] = "PROTOCOLADO"]
             /\ told' = [told EXCEPT ![a].succeeded = @ + 1]
             /\ petitions' = petitions + 1
    <2>1. /\ exec' \in [Worker -> Exec] /\ task' \in [Attempt -> Task] /\ exec'[w].pc = "idle"
          /\ \A v \in Worker : v # w => exec'[v] = exec[v]
          /\ \E c \in Cause : Return(w, c)
      BY <1>1, <1>4, FateMoves DEF Ends
    <2>2. /\ attempt'[a] = "PROTOCOLADO" /\ attempt' \in [Attempt -> Status]
          /\ \A b \in Attempt : b # a => attempt'[b] = attempt[b]
      BY <1>1, <1>6 DEF TypeOK, Status
    <2>3. PICK t \in [succeeded : Nat, failed : Nat] : t = told[a]
      BY <1>1 DEF TypeOK
    <2>4. /\ told' \in [Attempt -> [succeeded : Nat, failed : Nat]]
          /\ told'[a].succeeded = told[a].succeeded + 1 /\ told'[a].failed = told[a].failed
          /\ \A b \in Attempt : b # a => told'[b] = told[b]
      <3>1. told' = [told EXCEPT ![a] = [t EXCEPT !.succeeded = t.succeeded + 1]]
        BY <1>1, <1>6, <2>3 DEF TypeOK
      <3>2. /\ [t EXCEPT !.succeeded = t.succeeded + 1] \in [succeeded : Nat, failed : Nat]
            /\ [t EXCEPT !.succeeded = t.succeeded + 1].succeeded = t.succeeded + 1
            /\ [t EXCEPT !.succeeded = t.succeeded + 1].failed = t.failed
        OBVIOUS
      <3> QED
        BY <1>1, <2>3, <3>1, <3>2 DEF TypeOK
    <2>5. PICK q \in [record : BOOLEAN, petition : BOOLEAN] : q = piece
      BY <1>1 DEF TypeOK
    <2>6. piece' \in [record : BOOLEAN, petition : BOOLEAN] /\ piece'.petition = TRUE
      <3>1. piece' = [q EXCEPT !.petition = TRUE]
        BY <1>6, <2>5 DEF Filed
      <3> QED
        BY <3>1
    <2>7. petitions = 0 /\ petitions' = 1 /\ \A b \in Attempt : told[b].succeeded = 0
      <3>1. petitions = 0 /\ \A b \in Attempt : ~(told[b].succeeded > 0)
        BY <1>6 DEF IInv, TruthInv
      <3>2. \A b \in Attempt : told[b].succeeded \in Nat
        BY <1>1 DEF TypeOK
      <3> QED
        BY <1>6, <3>1, <3>2
    <2>8. TypeOK'
      BY <1>1, <1>2, <1>3, <2>1, <2>2, <2>4, <2>6, <2>7 DEF TypeOK
    <2>9. Frame(w)
      BY <1>1, <1>2, <1>3, <2>1, <2>2, <2>4 DEF Frame
    <2>10. court[a] > 0 /\ court[a] <= court'[a] /\ court' = court
      BY <1>1, <1>2 DEF IInv, TruthInv, TypeOK
    <2>11. PetitionInv'
      <3>1. told'[a].succeeded = 1 /\ \A b \in Attempt : b # a => told'[b].succeeded = 0
        BY <1>1, <2>4, <2>7
      <3> QED
        BY <2>6, <2>7, <2>10, <3>1 DEF PetitionInv
    <2>12. Durable(w)
      BY <2>1, <2>2, <2>10 DEF Durable, Started
    <2>13. lapses = 0 => ~(told[a].failed > 0) /\ court[a] <= 1
      BY <1>1 DEF IInv, PhaseInv, Started
    <2>14. lapses = 0 => Alone(w)
      BY <2>1, <2>4, <2>10, <2>13 DEF Alone, Started
    <2>15. faults' + lapses = 0 => Honest(w)
      <3>1. faults' + lapses = 0 => lapses = 0
        <4>1. faults \in Nat /\ faults' \in Nat /\ lapses \in Nat
          BY <1>1, <1>3, DeliveryAssumptions DEF TypeOK
        <4> QED
          BY <1>3, <4>1, Sums
      <3> QED
        BY <2>1, <2>4, <2>13, <3>1 DEF Honest
    <2> QED
      BY <2>8, <2>9, <2>11, <2>12, <2>14, <2>15, StepKeeps
  <1> QED
    BY <1>5, <1>6 DEF FinalizeStep, InsertPetition

\* fail writes FALHOU and filing.failed, or nothing.
LEMMA FailKeeps ==
    ASSUME IInv, NEW w \in Worker, FailStep(w)
    PROVE  IInv'
  <1> DEFINE a == exec[w].of
  <1>1. TypeOK /\ exec[w] # Idle /\ a \in Attempt /\ exec[w].pc = "fail"
    <2>1. exec[w] # Idle /\ exec[w].pc = "fail"
      BY DEF FailStep, Idle
    <2> QED
      BY <2>1, ExecTypes DEF IInv
  <1>2. UNCHANGED <<piece, credential, click, court, petitions>>
    BY DEF FailStep
  <1>3. /\ faults' \in 0..MaxFaults /\ faults <= faults'
        /\ crashes' = crashes /\ lapses' = lapses
    BY <1>1, FaultCounts DEF FailStep
  <1>4. Ends(w)
    BY DEF FailStep, Ends, Cause
  <1>5. CASE UNCHANGED <<attempt, told>>
    BY <1>1, <1>2, <1>3, <1>4, <1>5, QuietKeeps DEF TypeOK
  <1>6. CASE /\ attempt' = [attempt EXCEPT ![a] = "FALHOU"]
             /\ told' = [told EXCEPT ![a].failed = @ + 1]
    <2>1. /\ exec' \in [Worker -> Exec] /\ task' \in [Attempt -> Task] /\ exec'[w].pc = "idle"
          /\ \A v \in Worker : v # w => exec'[v] = exec[v]
          /\ \E c \in Cause : Return(w, c)
      BY <1>1, <1>4, FateMoves DEF Ends
    <2>2. /\ attempt'[a] = "FALHOU" /\ attempt' \in [Attempt -> Status]
          /\ \A b \in Attempt : b # a => attempt'[b] = attempt[b]
      BY <1>1, <1>6 DEF TypeOK, Status
    <2>3. PICK t \in [succeeded : Nat, failed : Nat] : t = told[a]
      BY <1>1 DEF TypeOK
    <2>4. /\ told' \in [Attempt -> [succeeded : Nat, failed : Nat]]
          /\ \A b \in Attempt : told'[b].succeeded = told[b].succeeded
          /\ \A b \in Attempt : b # a => told'[b] = told[b]
      <3>1. told' = [told EXCEPT ![a] = [t EXCEPT !.failed = t.failed + 1]]
        BY <1>1, <1>6, <2>3 DEF TypeOK
      <3>2. /\ [t EXCEPT !.failed = t.failed + 1] \in [succeeded : Nat, failed : Nat]
            /\ [t EXCEPT !.failed = t.failed + 1].succeeded = t.succeeded
        OBVIOUS
      <3> QED
        BY <1>1, <2>3, <3>1, <3>2 DEF TypeOK
    <2>5. TypeOK'
      BY <1>1, <1>2, <1>3, <2>1, <2>2, <2>4 DEF TypeOK
    <2>6. Frame(w)
      BY <1>1, <1>2, <1>3, <2>1, <2>2, <2>4 DEF Frame
    <2>7. PetitionInv'
      BY <1>2, <2>4 DEF IInv, TruthInv, PetitionInv
    <2>8. court[a] <= court'[a] /\ court' = court
      BY <1>1, <1>2 DEF TypeOK
    <2>9. Durable(w)
      BY <2>1, <2>2, <2>8 DEF Durable, Started
    <2>10. lapses = 0 => Alone(w)
      BY <1>1, <2>1, <2>2, <2>8 DEF Alone, Started, IInv, PhaseInv
    <2>11. faults' + lapses = 0 => Honest(w)
      <3>1. faults' + lapses = 0 => faults + lapses = 0
        <4>1. faults \in Nat /\ faults' \in Nat /\ lapses \in Nat
          BY <1>1, <1>3, DeliveryAssumptions DEF TypeOK
        <4> QED
          BY <1>3, <4>1, Sums
      <3> QED
        BY <1>1, <2>1, <2>8, <3>1 DEF Honest, IInv, FailedInv
    <2> QED
      BY <2>5, <2>6, <2>7, <2>9, <2>10, <2>11, StepKeeps
  <1> QED
    BY <1>5, <1>6 DEF FailStep
-----------------------------------------------------------------------------
(* The queue and the API.                                                  *)

\* A worker takes a queued attempt: nobody else runs one that asynq waits for.
LEMMA TakeKeeps ==
    ASSUME IInv, NEW w \in Worker, NEW a \in Attempt, Take(w, a)
    PROVE  IInv'
  <1> DEFINE x == [pc |-> "load", of |-> a, zombie |-> FALSE]
  <1>1. /\ TypeOK /\ exec[w] = Idle /\ task[a].state = "queued"
        /\ task' = [task EXCEPT ![a].state = "running"]
        /\ exec' = [exec EXCEPT ![w] = x]
        /\ UNCHANGED <<attempt, piece, credential, click, court, told, petitions, faults, crashes, lapses>>
    BY DEF IInv, Take, bounds
  <1>2. x \in Exec /\ x # Idle /\ x.pc = "load" /\ x.of = a /\ ~x.zombie
    BY DEF Exec, Idle
  <1>3. /\ exec' \in [Worker -> Exec] /\ exec'[w] = x
        /\ \A v \in Worker : v # w => exec'[v] = exec[v]
    BY <1>1, <1>2 DEF TypeOK
  <1>4. PICK t \in Task : t = task[a]
    BY <1>1 DEF TypeOK
  <1>5. /\ task' \in [Attempt -> Task] /\ task'[a].state = "running"
        /\ \A b \in Attempt : b # a => task'[b] = task[b]
    <2>1. task' = [task EXCEPT ![a] = [t EXCEPT !.state = "running"]]
      <3>1. task \in [Attempt -> Task]
        BY <1>1 DEF TypeOK
      <3> QED
        BY <1>1, <1>4, <3>1
    <2>2. [t EXCEPT !.state = "running"] \in Task /\ [t EXCEPT !.state = "running"].state = "running"
      BY TaskTypes
    <2>3. PICK u \in Task : u = [t EXCEPT !.state = "running"]
      BY <2>2
    <2>4. task' = [task EXCEPT ![a] = u] /\ u.state = "running"
      BY <2>1, <2>2, <2>3
    <2>5. task \in [Attempt -> Task]
      BY <1>1 DEF TypeOK
    <2> QED
      BY <2>4, <2>5
  <1>6. \A v \in Worker : exec[v] # Idle => exec[v].of \in Attempt
    BY <1>1, ExecTypes
  <1>7. attempt[a] # "none"
    BY <1>1 DEF IInv, IssuedInv
  <1>8. TypeOK'
    BY <1>1, <1>3, <1>5 DEF TypeOK
  <1>9. IssuedInv'
    <2>1. \A b \in Attempt : attempt'[b] = "none" => task'[b].state = "none"
      BY <1>1, <1>5, <1>7 DEF IInv, IssuedInv
    <2>2. ASSUME NEW v \in Worker
          PROVE  /\ exec'[v] # Idle => attempt'[exec'[v].of] # "none"
                 /\ exec'[v].pc \in Started => attempt'[exec'[v].of] \notin {"none", "ENFILEIRADO"}
      BY <1>1, <1>2, <1>3, <1>7 DEF IInv, IssuedInv, Started
    <2> QED
      BY <1>1, <2>1, <2>2 DEF IInv, IssuedInv
  <1>10. TruthInv'
    BY <1>1, <1>2, <1>3 DEF IInv, TruthInv
  <1>11. ASSUME lapses = 0 PROVE SoloInv' /\ PhaseInv'
    <2>1. SoloInv /\ PhaseInv
      BY <1>11 DEF IInv
    <2>2. \A v \in Worker : exec[v] # Idle => exec[v].of # a
      BY <1>1, <2>1 DEF SoloInv
    <2>3. SoloInv'
      <3>1. ASSUME NEW v \in Worker, exec'[v] # Idle
            PROVE  ~exec'[v].zombie /\ task'[exec'[v].of].state = "running"
        <4>1. CASE v = w
          BY <1>2, <1>3, <1>5, <4>1
        <4>2. CASE v # w
          BY <1>3, <1>5, <1>6, <2>1, <2>2, <3>1, <4>2 DEF SoloInv
        <4> QED
          BY <4>1, <4>2
      <3>2. ASSUME NEW u \in Worker, NEW v \in Worker,
                   exec'[u] # Idle, exec'[v] # Idle, exec'[u].of = exec'[v].of
            PROVE  u = v
        BY <1>2, <1>3, <2>1, <2>2, <3>2 DEF SoloInv
      <3> QED
        BY <3>1, <3>2 DEF SoloInv
    <2>4. PhaseInv'
      BY <1>1, <1>2, <1>3, <2>1 DEF PhaseInv, Started
    <2> QED
      BY <2>3, <2>4
  <1>12. ASSUME faults + lapses = 0 PROVE FailedInv'
    BY <1>1, <1>2, <1>3, <1>12 DEF IInv, FailedInv
  <1> QED
    BY <1>1, <1>8, <1>9, <1>10, <1>11, <1>12 DEF IInv

\* A lease expires: from now on only what holds of every execution is kept.
LEMMA LeaseKeeps ==
    ASSUME IInv, NEW w \in Worker, LeaseExpires(w)
    PROVE  IInv'
  <1> DEFINE a == exec[w].of
  <1>1. /\ TypeOK /\ exec[w] # Idle /\ a \in Attempt
        /\ task' = [task EXCEPT ![a] = Retried(task[a])]
        /\ UNCHANGED <<attempt, piece, credential, click, court, told, petitions, faults, crashes>>
    <2>1. exec[w] # Idle
      BY DEF LeaseExpires
    <2> QED
      BY <2>1, ExecTypes DEF IInv, LeaseExpires
  <1>2. PICK x \in Exec : x = exec[w] /\ x # Idle
    BY <1>1 DEF TypeOK
  <1>3. exec' = [exec EXCEPT ![w] = [x EXCEPT !.zombie = TRUE]]
    BY <1>2 DEF LeaseExpires, IInv, TypeOK
  <1>4. /\ [x EXCEPT !.zombie = TRUE] \in Exec /\ [x EXCEPT !.zombie = TRUE].pc = x.pc
        /\ [x EXCEPT !.zombie = TRUE].of = x.of
    BY <1>2 DEF Exec
  <1>5. /\ exec' \in [Worker -> Exec] /\ exec'[w].pc = exec[w].pc /\ exec'[w].of = a
        /\ \A v \in Worker : v # w => exec'[v] = exec[v]
    BY <1>1, <1>2, <1>3, <1>4 DEF TypeOK
  <1>6. /\ task' \in [Attempt -> Task] /\ \A b \in Attempt : b # a => task'[b] = task[b]
    BY <1>1, TaskTypes DEF TypeOK
  <1>7. lapses' \in 0..MaxLapses /\ lapses' # 0 /\ faults + lapses' # 0
    <2>1. lapses \in 0..MaxLapses /\ lapses < MaxLapses /\ lapses' = lapses + 1
          /\ MaxLapses \in Nat /\ MaxFaults \in Nat /\ faults \in 0..MaxFaults
      BY <1>1, DeliveryAssumptions DEF TypeOK, LeaseExpires
    <2> QED
      BY <2>1
  <1>8. TypeOK'
    BY <1>1, <1>5, <1>6, <1>7 DEF TypeOK
  <1>9. IssuedInv'
    <2>1. attempt[a] # "none"
      BY <1>1 DEF IInv, IssuedInv
    <2>2. \A b \in Attempt : attempt'[b] = "none" => task'[b].state = "none"
      BY <1>1, <1>6, <2>1 DEF IInv, IssuedInv
    <2>3. ASSUME NEW v \in Worker
          PROVE  /\ exec'[v] # Idle => attempt'[exec'[v].of] # "none"
                 /\ exec'[v].pc \in Started => attempt'[exec'[v].of] \notin {"none", "ENFILEIRADO"}
      BY <1>1, <1>5, <2>1 DEF IInv, IssuedInv
    <2> QED
      BY <1>1, <2>2, <2>3 DEF IInv, IssuedInv
  <1>10. TruthInv'
    BY <1>1, <1>5 DEF IInv, TruthInv
  <1> QED
    BY <1>1, <1>7, <1>8, <1>9, <1>10 DEF IInv

\* The insert of an attempt: it was not there, so nobody runs it.
LEMMA InsertKeeps ==
    ASSUME IInv, NEW c \in Click, InsertFilingAttempt(c)
    PROVE  IInv'
  <1>1. /\ TypeOK
        /\ click' \in [Click -> BOOLEAN]
        /\ UNCHANGED <<piece, credential, exec, court, told, petitions, faults, crashes, lapses>>
    BY DEF IInv, TypeOK, InsertFilingAttempt, bounds
  <1>2. CASE UNCHANGED <<attempt, task>>
    BY <1>1, <1>2 DEF IInv, TypeOK, IssuedInv, TruthInv, SoloInv, PhaseInv, FailedInv
  <1>3. ASSUME NEW a \in Attempt, attempt[a] = "none",
               attempt' = [attempt EXCEPT ![a] = "ENFILEIRADO"],
               task' = [task EXCEPT ![a].state = "queued"]
        PROVE  IInv'
    <2>1. PICK t \in Task : t = task[a]
      BY <1>1 DEF TypeOK
    <2>2. /\ task' \in [Attempt -> Task] /\ \A b \in Attempt : b # a => task'[b] = task[b]
      <3>1. task' = [task EXCEPT ![a] = [t EXCEPT !.state = "queued"]]
        BY <1>1, <1>3, <2>1 DEF TypeOK
      <3> QED
        BY <1>1, <3>1, TaskTypes DEF TypeOK
    <2>3. /\ attempt' \in [Attempt -> Status] /\ attempt'[a] = "ENFILEIRADO"
          /\ \A b \in Attempt : b # a => attempt'[b] = attempt[b]
      BY <1>1, <1>3 DEF TypeOK, Status
    <2>4. /\ \A v \in Worker : exec[v] # Idle => exec[v].of \in Attempt /\ exec[v].of # a
          /\ \A v \in Worker : exec[v].pc # "idle" => exec[v] # Idle
          /\ court[a] = 0
      BY <1>1, <1>3, ExecTypes DEF IInv, IssuedInv
    <2>5. TypeOK'
      BY <1>1, <2>2, <2>3 DEF TypeOK
    <2>6. IssuedInv'
      BY <1>1, <2>2, <2>3, <2>4 DEF IInv, IssuedInv, Started
    <2>7. TruthInv'
      BY <1>1 DEF IInv, TruthInv
    <2>8. lapses = 0 => SoloInv' /\ PhaseInv'
      <3> SUFFICES ASSUME lapses = 0 PROVE SoloInv' /\ PhaseInv'
        OBVIOUS
      <3>1. SoloInv /\ PhaseInv
        BY DEF IInv
      <3>2. SoloInv'
        BY <1>1, <2>2, <2>4, <3>1 DEF SoloInv
      <3>3. ~(told[a].failed > 0)
        BY <1>3, <3>1 DEF PhaseInv
      <3>4. \A b \in Attempt : told[b].failed > 0 => attempt'[b] = "FALHOU"
        BY <2>3, <3>1, <3>3 DEF PhaseInv
      <3>5. ASSUME NEW v \in Worker
            PROVE  /\ exec[v].pc = "mark" => attempt'[exec[v].of] = "ENFILEIRADO"
                   /\ exec[v].pc \in Started => attempt'[exec[v].of] = "PROTOCOLANDO"
        BY <2>3, <2>4, <3>1 DEF PhaseInv, Started
      <3> QED
        BY <1>1, <3>1, <3>2, <3>4, <3>5 DEF PhaseInv
    <2>9. faults + lapses = 0 => FailedInv'
      BY <1>1 DEF IInv, FailedInv
    <2> QED
      BY <1>1, <2>5, <2>6, <2>7, <2>8, <2>9 DEF IInv
  <1> QED
    BY <1>2, <1>3 DEF InsertFilingAttempt

\* The other requests touch no attempt, and the manual filing needs a piece
\* without a petition.
LEMMA RequestsKeep ==
    ASSUME IInv,
           SetCredential \/ File \/ \E c \in Click : ApproveFiling(c) \/ ApproveFails(c)
    PROVE  IInv'
  <1>1. /\ TypeOK
        /\ UNCHANGED <<attempt, task, exec, court, told, faults, crashes, lapses>>
    BY DEF IInv, SetCredential, File, ApproveFiling, ApproveFails, bounds
  <1>2. credential' \in BOOLEAN /\ click' \in [Click -> BOOLEAN]
    BY <1>1 DEF TypeOK, SetCredential, File, ApproveFiling, ApproveFails
  <1>3. /\ piece' \in [record : BOOLEAN, petition : BOOLEAN] /\ petitions' \in Nat
        /\ petitions' = IF piece'.petition THEN 1 ELSE 0
        /\ piece.petition => piece'.petition
    <2>1. CASE File
      <3>1. PICK q \in [record : BOOLEAN, petition : BOOLEAN] : q = piece
        BY <1>1 DEF TypeOK
      <3>2. piece' = [q EXCEPT !.petition = TRUE] /\ ~q.petition /\ petitions' = petitions + 1
        BY <2>1, <3>1 DEF File, Filed, InsertPetition
      <3>3. piece' \in [record : BOOLEAN, petition : BOOLEAN] /\ piece'.petition = TRUE
        BY <3>2
      <3>4. petitions = 0
        BY <3>1, <3>2 DEF IInv, TruthInv
      <3> QED
        BY <3>2, <3>3, <3>4
    <2>2. CASE ~File
      <3>1. UNCHANGED <<piece, petitions>>
        BY <2>2 DEF SetCredential, ApproveFiling, ApproveFails
      <3> QED
        BY <1>1, <3>1 DEF IInv, TruthInv, TypeOK
    <2> QED
      BY <2>1, <2>2
  <1>4. TypeOK'
    BY <1>1, <1>2, <1>3 DEF TypeOK
  <1>5. IssuedInv' /\ (lapses = 0 => SoloInv' /\ PhaseInv') /\ (faults + lapses = 0 => FailedInv')
    BY <1>1 DEF IInv, IssuedInv, SoloInv, PhaseInv, FailedInv
  <1>6. TruthInv'
    BY <1>1, <1>3 DEF IInv, TruthInv
  <1> QED
    BY <1>1, <1>4, <1>5, <1>6 DEF IInv
-----------------------------------------------------------------------------
(* The theorems.                                                           *)

\* A signed piece without an attempt or a petition.
LEMMA Initially == Init => IInv
  <1> SUFFICES ASSUME Init PROVE IInv
    OBVIOUS
  <1>1. 0 \in 0..MaxFaults /\ 0 \in 0..MaxCrashes /\ 0 \in 0..MaxLapses
    BY DeliveryAssumptions
  <1>2. TypeOK
    BY <1>1, TaskTypes DEF Init, TypeOK, Exec, Status
  <1>3. IssuedInv /\ SoloInv /\ FailedInv
    BY DEF Init, IssuedInv, SoloInv, FailedInv, Started, Idle, NoTask
  <1>4. PhaseInv
    BY DEF Init, PhaseInv, Started, Idle
  <1>5. TruthInv
    <2>1. piece.petition = FALSE /\ petitions = 0
      BY DEF Init
    <2>2. \A a \in Attempt : told[a].succeeded = 0
      BY DEF Init
    <2>3. \A w \in Worker : exec[w].pc = "idle"
      BY DEF Init, Idle
    <2> QED
      BY <2>1, <2>2, <2>3 DEF TruthInv
  <1> QED
    BY <1>2, <1>3, <1>4, <1>5 DEF IInv

\* The inductive invariant: what the statuses and the phases imply of the court,
\* the petition and the events, for any number of attempts and workers.
THEOREM Invariance == Spec => []IInv
  <1>1. Init => IInv
    BY Initially
  <1>2. IInv /\ [Next]_vars => IInv'
    <2> SUFFICES ASSUME IInv, [Next]_vars PROVE IInv'
      OBVIOUS
    <2>1. CASE SetCredential \/ File
      BY <2>1, RequestsKeep
    <2>2. ASSUME NEW c \in Click, ApproveFiling(c) \/ InsertFilingAttempt(c) \/ ApproveFails(c)
          PROVE  IInv'
      BY <2>2, RequestsKeep, InsertKeeps
    <2>3. ASSUME NEW w \in Worker, NEW a \in Attempt, Take(w, a) PROVE IInv'
      BY <2>3, TakeKeeps
    <2>4. ASSUME NEW w \in Worker, OnFilingEnqueued(w) PROVE IInv'
      BY <2>4, CallsKeep, MarkKeeps, ProtocolKeeps, FinalizeKeeps, FailKeeps DEF OnFilingEnqueued
    <2>5. ASSUME NEW w \in Worker, Crash(w) PROVE IInv'
      BY <2>5, CallsKeep
    <2>6. ASSUME NEW w \in Worker, LeaseExpires(w) PROVE IInv'
      BY <2>6, LeaseKeeps
    <2>7. CASE UNCHANGED vars
      BY <2>7 DEF IInv, TypeOK, IssuedInv, TruthInv, SoloInv, PhaseInv, FailedInv, vars, bounds
    <2> QED
      BY <2>1, <2>2, <2>3, <2>4, <2>5, <2>6, <2>7 DEF Next
  <1> QED
    BY <1>1, <1>2, PTL DEF Spec

\* Attempts, tasks, executions and counts keep their types, whatever fails.
THEOREM TypeCorrect == Spec => []TypeOK
  <1>1. IInv => TypeOK
    BY DEF IInv
  <1> QED
    BY <1>1, Invariance, PTL

\* The piece has one petition, announced once, and the events of the attempts
\* agree with what the court took (filing.go: the last transaction and fail).
THEOREM TellsTheTruth == Spec => []ToldTheTruth
  <1>1. IInv => ToldTheTruth
    <2> SUFFICES ASSUME IInv PROVE ToldTheTruth
      OBVIOUS
    <2>1. faults + lapses = 0 => \A a \in Attempt : told[a].failed > 0 => court[a] = 0
      BY DEF IInv, FailedInv
    <2> QED
      BY <2>1 DEF IInv, TruthInv, ToldTheTruth
  <1> QED
    BY <1>1, Invariance, PTL

\* Where no lease expires the court takes an attempt at most once, whatever
\* fails, crashes and is retried (filing.go: outside ENFILEIRADO a no-op).
THEOREM FilesOnce == Spec => []NotRefiled
  <1>1. IInv => NotRefiled
    BY DEF IInv, PhaseInv, NotRefiled
  <1> QED
    BY <1>1, Invariance, PTL
=============================================================================
