------------------------ MODULE EventPipelineProofs ------------------------
(***************************************************************************)
(* Proofs about EventPipeline, for every set of events, queues, producers  *)
(* and relay replicas and every bound: its safety, and that it implements  *)
(* DeliveryContract step by step. (That owed copies settle is liveness,    *)
(* and left to TLC.) And about the tables of EventRouting: which handler   *)
(* the route of a type reaches.                                            *)
(***************************************************************************)
EXTENDS MCEventPipeline, TLAPS

\* The destinations of an event are queues, so its copies are copies.
LEMMA DestinationIsCopy ==
    ASSUME NEW k \in Event, NEW q \in Destinations(k)
    PROVE  <<k, q>> \in Copy
  <1>1. QueuesFor[k] \in Seq(Queue)
    BY PipelineAssumptions
  <1>2. PICK j \in 1..Len(QueuesFor[k]) : q = QueuesFor[k][j]
    BY DEF Destinations
  <1>3. q \in Queue
    BY <1>1, <1>2
  <1> QED
    BY <1>3 DEF Copy

\* Every step keeps the variables in their types.
LEMMA TypeStep ==
    ASSUME TypeOK, [Next]_vars
    PROVE  TypeOK'
  <1> USE DEF TypeOK, outboxVars, relayVars, asynqVars, dbVars
  <1>0. MaxRetry \in Nat
    BY PipelineAssumptions
  <1>1. ASSUME NEW p \in Producer, NEW k \in Event, Publish(p, k) PROVE TypeOK'
    <2>1. nextId' \in Nat \ {0}
      BY <1>1 DEF Publish
    <2>2. rowState' \in [RowId -> {"free", "open", "void", "unpublished", "published"}] /\ rowKey' \in [RowId -> Event]
      BY <1>1 DEF Publish
    <2>3. txRows' \in [Producer -> SUBSET RowId]
      BY <1>1 DEF Publish
    <2> QED
      BY <1>1, <2>1, <2>2, <2>3 DEF Publish
  <1>2. ASSUME NEW p \in Producer, CommitTx(p) PROVE TypeOK'
    BY <1>2 DEF CommitTx, EndTx
  <1>3. ASSUME NEW p \in Producer, RollbackTx(p) PROVE TypeOK'
    BY <1>3 DEF RollbackTx, EndTx
  <1>4. ASSUME NEW i \in Relay, readPending(i) PROVE TypeOK'
    <2>1. batch' \in [Relay -> SUBSET RowId]
      BY <1>4 DEF readPending, Selectable
    <2>2. marked' \in [Relay -> SUBSET RowId] /\ pos' \in [Relay -> Nat]
      BY <1>4 DEF readPending
    <2> QED
      BY <1>4, <2>1, <2>2 DEF readPending
  <1>5. ASSUME NEW i \in Relay, Enqueue(i) PROVE TypeOK'
    <2>1. PICK r \in RowId :
            /\ pos' = [pos EXCEPT ![i] = @ + 1]
            /\ \/ UNCHANGED <<task, retried>>
               \/ \E c : /\ task' = [task EXCEPT ![c] = EnqueueState(rowKey[r])]
                         /\ retried' = [retried EXCEPT ![c] = 0]
            /\ UNCHANGED <<batch, marked, aborts, zombies, due, outboxVars, dbVars>>
      BY <1>5 DEF Enqueue
    <2>2. EnqueueState(rowKey[r]) \in TaskState
      BY DEF EnqueueState, TaskState
    <2>3. pos' \in [Relay -> Nat]
      BY <2>1
    <2>4. task' \in [Copy -> TaskState]
      BY <2>1, <2>2
    <2>5. retried' \in [Copy -> 0..MaxRetry]
      <3>1. 0 \in 0..MaxRetry
        BY <1>0
      <3> QED
        BY <2>1, <3>1
    <2> QED
      BY <2>1, <2>3, <2>4, <2>5
  <1>6. ASSUME NEW i \in Relay, MarkPublished(i) PROVE TypeOK'
    <2>1. marked' \in [Relay -> SUBSET RowId] /\ pos' \in [Relay -> Nat]
      BY <1>6 DEF MarkPublished
    <2> QED
      BY <1>6, <2>1 DEF MarkPublished
  <1>7. ASSUME NEW i \in Relay, CommitTick(i) PROVE TypeOK'
    BY <1>7 DEF CommitTick
  <1>8. ASSUME NEW i \in Relay, AbortTick(i) PROVE TypeOK'
    BY <1>8 DEF AbortTick
  <1>9. ASSUME NEW k \in Event, Elapse(k) PROVE TypeOK'
    BY <1>9 DEF Elapse
  <1>10. ASSUME NEW c \in Copy, FailAttempt(c)
         PROVE  task' \in [Copy -> TaskState] /\ retried' \in [Copy -> 0..MaxRetry]
    <2>1. CASE retried[c] < MaxRetry
      <3>1. retried[c] + 1 \in 0..MaxRetry
        BY <1>0, <2>1
      <3> QED
        BY <1>10, <2>1, <3>1 DEF FailAttempt, TaskState
    <2>2. CASE ~(retried[c] < MaxRetry)
      BY <1>10, <2>2 DEF FailAttempt, TaskState
    <2> QED
      BY <2>1, <2>2
  <1>11. ASSUME NEW c \in Copy, SeenOrMark(c)
         PROVE  processed' \subseteq Copy /\ effects' \in [Copy -> Nat]
    BY <1>11 DEF SeenOrMark
  <1>12. ASSUME NEW c \in Copy, Handle(c) PROVE TypeOK'
    <2>1. CASE Forward(c) \/ Start(c) \/ Ack(c) \/ HandlerSkipsRetry(c)
      BY <2>1 DEF Forward, Start, Ack, HandlerSkipsRetry, Move, TaskState
    <2>2. CASE HandlerCommits(c)
      <3>1. task' \in [Copy -> TaskState]
        BY <2>2 DEF HandlerCommits, Move, TaskState
      <3> QED
        BY <2>2, <3>1, <1>11 DEF HandlerCommits
    <2>3. CASE HandlerFails(c)
      BY <2>3, <1>10 DEF HandlerFails
    <2> QED
      BY <1>12, <2>1, <2>2, <2>3 DEF Handle
  <1>13. ASSUME NEW c \in Copy, Fault(c) PROVE TypeOK'
    <2>1. CASE WorkerCrash(c)
      BY <2>1, <1>10 DEF WorkerCrash
    <2>2. CASE Abandon(c)
      BY <2>2, <1>10 DEF Abandon
    <2>3. CASE ZombieEnds(c)
      <3>1. zombies' \in [Copy -> Nat]
        BY <2>3 DEF ZombieEnds
      <3> QED
        BY <2>3, <3>1, <1>11 DEF ZombieEnds
    <2> QED
      BY <1>13, <2>1, <2>2, <2>3 DEF Fault
  <1>14. CASE UNCHANGED vars
    BY <1>14 DEF vars
  <1> QED
    BY <1>1, <1>2, <1>3, <1>4, <1>5, <1>6, <1>7, <1>8, <1>9, <1>12, <1>13, <1>14
    DEF Next, ProducerStep, RelayStep

\* A copy asynq holds or a consumer has applied stays so: a task leaves asynq
\* only by the ack of an execution that has committed.
LEMMA AccountedStable ==
    ASSUME TypeOK, DedupInv, [Next]_vars, NEW c \in Copy, Accounted(c)
    PROVE  Accounted(c)'
  <1> USE DEF Accounted, TypeOK, outboxVars, relayVars, asynqVars, dbVars
  <1>1. processed \subseteq processed'
    <2>1. ASSUME NEW d \in Copy, Handle(d) \/ Fault(d) PROVE processed \subseteq processed'
      BY <2>1 DEF Handle, Fault, Forward, Start, HandlerCommits, Ack, HandlerFails,
                  HandlerSkipsRetry, WorkerCrash, Abandon, ZombieEnds, SeenOrMark
    <2> QED
      BY <2>1 DEF Next, ProducerStep, RelayStep, Publish, CommitTx, RollbackTx, EndTx, readPending,
                  Enqueue, MarkPublished, CommitTick, AbortTick, Elapse, vars
  <1>2. task[c] # "none" => task'[c] # "none" \/ task[c] = "acking"
    <2>1. ASSUME NEW i \in Relay, Enqueue(i) PROVE task[c] # "none" => task'[c] # "none"
      BY <2>1 DEF Enqueue, EnqueueState
    <2>2. ASSUME NEW d \in Copy, Handle(d) PROVE task[c] # "none" => task'[c] # "none" \/ task[c] = "acking"
      BY <2>2 DEF Handle, Forward, Start, HandlerCommits, Ack, HandlerFails,
                  HandlerSkipsRetry, Move, FailAttempt
    <2>3. ASSUME NEW d \in Copy, Fault(d) PROVE task[c] # "none" => task'[c] # "none"
      BY <2>3 DEF Fault, WorkerCrash, Abandon, ZombieEnds, FailAttempt
    <2> QED
      BY <2>1, <2>2, <2>3 DEF Next, ProducerStep, RelayStep, Publish, CommitTx, RollbackTx, EndTx,
                  readPending, MarkPublished, CommitTick, AbortTick, Elapse, vars
  <1>3. task[c] = "acking" => c \in processed
    BY DEF DedupInv
  <1> QED
    BY <1>1, <1>2, <1>3

\* The key of a row is written once, by the INSERT that takes its id.
LEMMA RowKeyStable ==
    ASSUME TypeOK, TxInv, [Next]_vars, NEW r \in RowId, rowState[r] # "free"
    PROVE  rowKey'[r] = rowKey[r]
  <1> USE DEF TypeOK, outboxVars, relayVars, asynqVars, dbVars
  <1>1. ASSUME NEW p \in Producer, NEW k \in Event, Publish(p, k) PROVE rowKey'[r] = rowKey[r]
    <2>1. r # nextId
      BY <1>1 DEF TxInv, Publish, RowId
    <2> QED
      BY <1>1, <2>1 DEF Publish
  <1>2. ASSUME NEW c \in Copy, Handle(c) \/ Fault(c) PROVE UNCHANGED rowKey
    BY <1>2 DEF Handle, Fault, Forward, Start, HandlerCommits, Ack, HandlerFails,
                  HandlerSkipsRetry, WorkerCrash, Abandon, ZombieEnds
  <1> QED
    BY <1>1, <1>2 DEF Next, ProducerStep, RelayStep, CommitTx, RollbackTx, EndTx, readPending,
                  Enqueue, MarkPublished, CommitTick, AbortTick, Elapse, vars

\* Delivered is stable for a row in use.
LEMMA DeliveredStable ==
    ASSUME IInv, [Next]_vars, NEW r \in RowId, rowState[r] # "free", Delivered(r)
    PROVE  Delivered(r)'
  <1>1. rowKey'[r] = rowKey[r]
    BY RowKeyStable DEF IInv
  <1>2. rowKey[r] \in Event
    BY DEF IInv, TypeOK
  <1>3. ASSUME NEW q \in Destinations(rowKey[r]) PROVE Accounted(<<rowKey[r], q>>)'
    <2>1. <<rowKey[r], q>> \in Copy
      BY <1>2, DestinationIsCopy
    <2>2. Accounted(<<rowKey[r], q>>)
      BY DEF Delivered
    <2> QED
      BY <2>1, <2>2, <1>1, AccountedStable DEF IInv, Accounted
  <1> QED
    BY <1>1, <1>3 DEF Delivered, Destinations, Accounted

\* No step of asynq or of a consumer touches the outbox or a relay replica.
LEMMA AsynqKeepsOutbox ==
    ASSUME NEW c \in Copy, Handle(c) \/ Fault(c)
    PROVE  UNCHANGED <<outboxVars, relayVars>>
  BY DEF Handle, Fault, Forward, Start, HandlerCommits, Ack, HandlerFails, HandlerSkipsRetry,
         WorkerCrash, Abandon, ZombieEnds

\* Transactions keep to the ids they took.
LEMMA TxStep ==
    ASSUME IInv, [Next]_vars
    PROVE  TxInv'
  <1> USE DEF IInv, TypeOK, TxInv, outboxVars, relayVars, asynqVars, dbVars
  <1>1. ASSUME NEW p \in Producer, NEW k \in Event, Publish(p, k) PROVE TxInv'
    <2>1. \A r \in RowId : r >= nextId' => rowState'[r] = "free"
      BY <1>1 DEF Publish, RowId
    <2>2. \A o \in Producer : nextId \notin txRows[o]
      BY <1>1 DEF Publish, RowId
    <2>3. \A o \in Producer : \A r \in txRows'[o] : rowState'[r] = "open"
      BY <1>1, <2>2 DEF Publish
    <2>4. \A o, m \in Producer : o # m => txRows'[o] \cap txRows'[m] = {}
      BY <1>1, <2>2 DEF Publish
    <2> QED
      BY <2>1, <2>3, <2>4
  <1>2. ASSUME NEW p \in Producer, NEW o \in {"unpublished", "void"}, EndTx(p, o) PROVE TxInv'
    BY <1>2 DEF EndTx
  <1>3. ASSUME NEW i \in Relay, CommitTick(i) PROVE TxInv'
    <2>1. \A r \in marked[i] : rowState[r] = "unpublished"
      BY <1>3 DEF CommitTick, ReplicasDisjoint
    <2> QED
      BY <1>3, <2>1 DEF CommitTick
  <1>4. CASE UNCHANGED outboxVars
    BY <1>4
  <1> QED
    BY <1>1, <1>2, <1>3, <1>4, AsynqKeepsOutbox
    DEF Next, ProducerStep, RelayStep, CommitTx, RollbackTx, readPending, Enqueue, MarkPublished,
        AbortTick, Elapse, vars

\* The row locks keep the replicas apart.
LEMMA LockStep ==
    ASSUME IInv, [Next]_vars
    PROVE  ReplicasDisjoint'
  <1> USE DEF IInv, TypeOK, ReplicasDisjoint, outboxVars, relayVars, asynqVars, dbVars
  <1>1. ASSUME NEW p \in Producer, NEW k \in Event, Publish(p, k) PROVE ReplicasDisjoint'
    <2>1. rowState[nextId] = "free"
      BY <1>1 DEF Publish, TxInv, RowId
    <2> QED
      BY <1>1, <2>1 DEF Publish
  <1>2. ASSUME NEW p \in Producer, NEW o \in {"unpublished", "void"}, EndTx(p, o) PROVE ReplicasDisjoint'
    BY <1>2 DEF EndTx, TxInv
  <1>3. ASSUME NEW i \in Relay, readPending(i) PROVE ReplicasDisjoint'
    <2>1. PICK S \in SUBSET Selectable : batch' = [batch EXCEPT ![i] = S]
      BY <1>3 DEF readPending
    <2>2. \A r \in S : r \in RowId /\ rowState[r] = "unpublished" /\ \A j \in Relay : r \notin batch[j]
      BY <2>1 DEF Selectable
    <2> QED
      BY <1>3, <2>1, <2>2 DEF readPending
  <1>4. ASSUME NEW i \in Relay, CommitTick(i) PROVE ReplicasDisjoint'
    <2>1. \A j \in Relay : \A r \in batch'[j] : r \in RowId /\ r \in batch[j] /\ r \notin batch[i]
      BY <1>4 DEF CommitTick
    <2>2. \A j \in Relay : \A r \in batch'[j] : rowState'[r] = "unpublished"
      BY <1>4, <2>1 DEF CommitTick
    <2> QED
      BY <1>4, <2>2 DEF CommitTick
  <1>5. ASSUME NEW i \in Relay, AbortTick(i) PROVE ReplicasDisjoint'
    BY <1>5 DEF AbortTick
  <1>6. CASE UNCHANGED <<rowState, batch>>
    BY <1>6
  <1> QED
    BY <1>1, <1>2, <1>3, <1>4, <1>5, <1>6, AsynqKeepsOutbox
    DEF Next, ProducerStep, RelayStep, CommitTx, RollbackTx, Enqueue, MarkPublished, Elapse, vars

\* An event is marked and its effect committed in one transaction.
LEMMA DedupStep ==
    ASSUME IInv, [Next]_vars
    PROVE  DedupInv'
  <1> USE DEF IInv, TypeOK, DedupInv, outboxVars, relayVars, asynqVars, dbVars
  <1>1. ASSUME NEW c \in Copy, Handle(c) PROVE DedupInv'
    <2>1. CASE Forward(c) \/ Start(c) \/ Ack(c) \/ HandlerSkipsRetry(c)
      BY <2>1 DEF Forward, Start, Ack, HandlerSkipsRetry, Move
    <2>2. CASE HandlerCommits(c)
      BY <2>2 DEF HandlerCommits, Move, SeenOrMark
    <2>3. CASE HandlerFails(c)
      BY <2>3 DEF HandlerFails, FailAttempt
    <2> QED
      BY <1>1, <2>1, <2>2, <2>3 DEF Handle
  <1>2. ASSUME NEW c \in Copy, Fault(c) PROVE DedupInv'
    BY <1>2 DEF Fault, WorkerCrash, Abandon, ZombieEnds, FailAttempt, SeenOrMark
  <1>3. ASSUME NEW i \in Relay, Enqueue(i) PROVE DedupInv'
    BY <1>3 DEF Enqueue, EnqueueState
  <1>4. CASE UNCHANGED <<task, processed, effects>>
    BY <1>4
  <1> QED
    BY <1>1, <1>2, <1>3, <1>4
    DEF Next, ProducerStep, RelayStep, Publish, CommitTx, RollbackTx, EndTx, readPending,
        MarkPublished, CommitTick, AbortTick, Elapse, vars

\* Nothing starts a scheduled copy before its time.
LEMMA EtaStep ==
    ASSUME IInv, [Next]_vars
    PROVE  EtaInv'
  <1> USE DEF IInv, TypeOK, EtaInv, outboxVars, relayVars, asynqVars, dbVars
  <1>1. ASSUME NEW c \in Copy, Handle(c) PROVE EtaInv'
    <2>1. CASE Forward(c)
      BY <2>1 DEF Forward, Move
    <2>2. CASE Start(c) \/ Ack(c) \/ HandlerSkipsRetry(c)
      BY <2>2 DEF Start, Ack, HandlerSkipsRetry, Move
    <2>3. CASE HandlerCommits(c)
      BY <2>3 DEF HandlerCommits, Move, SeenOrMark
    <2>4. CASE HandlerFails(c)
      BY <2>4 DEF HandlerFails, FailAttempt
    <2> QED
      BY <1>1, <2>1, <2>2, <2>3, <2>4 DEF Handle
  <1>2. ASSUME NEW c \in Copy, Fault(c) PROVE EtaInv'
    <2>1. CASE WorkerCrash(c)
      BY <2>1 DEF WorkerCrash, FailAttempt
    <2>2. CASE Abandon(c)
      BY <2>2 DEF Abandon, FailAttempt
    <2>3. CASE ZombieEnds(c)
      BY <2>3 DEF ZombieEnds, SeenOrMark
    <2> QED
      BY <1>2, <2>1, <2>2, <2>3 DEF Fault
  <1>3. ASSUME NEW i \in Relay, Enqueue(i) PROVE EtaInv'
    <2>1. PICK r, q :
            /\ \/ UNCHANGED task
               \/ task' = [task EXCEPT ![<<rowKey[r], q>>] = EnqueueState(rowKey[r])]
            /\ UNCHANGED <<zombies, due, processed>>
      BY <1>3 DEF Enqueue
    <2>2. ASSUME NEW d \in Copy, d[1] \in Scheduled \ due
          PROVE  task'[d] \in {"none", "scheduled"}
      <3>1. d = <<rowKey[r], q>> => EnqueueState(rowKey[r]) = "scheduled"
        BY <2>2 DEF EnqueueState
      <3>2. task'[d] = task[d] \/ (d = <<rowKey[r], q>> /\ task'[d] = EnqueueState(rowKey[r]))
        BY <2>1
      <3> QED
        BY <2>2, <3>1, <3>2
    <2> QED
      BY <2>1, <2>2
  <1>4. ASSUME NEW k \in Event, Elapse(k) PROVE EtaInv'
    BY <1>4 DEF Elapse
  <1>5. CASE UNCHANGED <<asynqVars, processed>>
    BY <1>5
  <1> QED
    BY <1>1, <1>2, <1>3, <1>4, <1>5
    DEF Next, ProducerStep, RelayStep, Publish, CommitTx, RollbackTx, EndTx, readPending,
        MarkPublished, CommitTick, AbortTick, vars

\* What a replica has enqueued inside its open transaction stays accounted for.
LEMMA BatchStep ==
    ASSUME IInv, [Next]_vars
    PROVE  RelayInv'
  <1> USE DEF IInv, TypeOK
  <1>1. SUFFICES ASSUME NEW i \in Relay
                 PROVE  /\ marked'[i] \subseteq batch'[i]
                        /\ \A r \in marked'[i] : Delivered(r)'
                        /\ \A r \in RowId : InHand(i, r)' =>
                              \A j \in 1..Len(QueuesFor[rowKey'[r]]) :
                                 j <= pos'[i] => Accounted(<<rowKey[r], QueuesFor[rowKey[r]][j]>>)'
    BY DEF RelayInv, InHand, Before, Accounted, Delivered
  <1>2. /\ marked[i] \subseteq batch[i]
        /\ \A r \in marked[i] : Delivered(r)
        /\ \A r \in batch[i] : r \in RowId /\ rowState[r] # "free"
    BY DEF RelayInv, ReplicasDisjoint
  <1>3. \A r \in batch[i] : rowKey'[r] = rowKey[r]
    BY <1>2, RowKeyStable
  <1>4. \A r \in marked[i] : Delivered(r)'
    BY <1>2, DeliveredStable
  <1>5. \A r, s \in batch[i] : Before(r, s)' <=> Before(r, s)
    BY <1>3 DEF Before, priorityFor
  <1>6. ASSUME NEW r \in batch[i], NEW j \in 1..Len(QueuesFor[rowKey[r]]),
               Accounted(<<rowKey[r], QueuesFor[rowKey[r]][j]>>)
        PROVE  Accounted(<<rowKey[r], QueuesFor[rowKey[r]][j]>>)'
    <2>1. rowKey[r] \in Event /\ QueuesFor[rowKey[r]][j] \in Destinations(rowKey[r])
      BY <1>2 DEF Destinations
    <2>2. <<rowKey[r], QueuesFor[rowKey[r]][j]>> \in Copy
      BY <2>1, DestinationIsCopy
    <2>3. \A c \in Copy : Accounted(c) => task'[c] # "none" \/ c \in processed'
      BY AccountedStable DEF Accounted
    <2> QED
      BY <1>3, <1>6, <2>2, <2>3 DEF Accounted
  \* A step that leaves i's tick alone.
  <1>7. CASE UNCHANGED <<batch[i], marked[i], pos[i]>>
    <2>1. \A r \in RowId : InHand(i, r)' => InHand(i, r)
      BY <1>5, <1>7 DEF InHand
    <2>2. \A r \in RowId : InHand(i, r) => r \in batch[i]
      BY DEF InHand
    <2>3. ASSUME NEW r \in RowId, InHand(i, r)', NEW j \in 1..Len(QueuesFor[rowKey'[r]]), j <= pos'[i]
          PROVE  Accounted(<<rowKey[r], QueuesFor[rowKey[r]][j]>>)'
      <3>1. InHand(i, r) /\ r \in batch[i] /\ rowKey'[r] = rowKey[r]
        BY <2>1, <2>2, <2>3, <1>3
      <3>2. Accounted(<<rowKey[r], QueuesFor[rowKey[r]][j]>>)
        BY <2>3, <3>1, <1>7 DEF RelayInv
      <3> QED
        BY <3>1, <3>2, <1>6
    <2> QED
      BY <1>2, <1>4, <1>7, <2>3
  \* A tick that starts or ends has nothing marked and nothing enqueued.
  <1>8. CASE marked'[i] = {} /\ pos'[i] = 0
    BY <1>8
  <1>9. CASE Enqueue(i)
    <2>1. PICK r \in RowId : /\ InHand(i, r)
                             /\ pos[i] < Len(QueuesFor[rowKey[r]])
                             /\ \/ task[<<rowKey[r], QueuesFor[rowKey[r]][pos[i] + 1]>>] # "none"
                                \/ task' = [task EXCEPT ![<<rowKey[r], QueuesFor[rowKey[r]][pos[i] + 1]>>]
                                                            = EnqueueState(rowKey[r])]
                             /\ pos' = [pos EXCEPT ![i] = @ + 1]
                             /\ UNCHANGED <<batch, marked, rowKey, processed>>
      BY <1>9 DEF Enqueue, outboxVars, dbVars
    <2>2. ASSUME NEW s \in RowId, InHand(i, s)' PROVE s = r
      BY <2>1, <2>2 DEF InHand, Before, priorityFor, RowId
    <2>3. r \in batch[i] /\ rowKey[r] \in Event /\ pos[i] \in Nat /\ pos'[i] = pos[i] + 1
      BY <2>1 DEF InHand
    <2>4. Len(QueuesFor[rowKey[r]]) \in Nat
      BY <2>3, PipelineAssumptions
    <2>5. ASSUME NEW j \in 1..Len(QueuesFor[rowKey[r]]), j <= pos'[i]
          PROVE  Accounted(<<rowKey[r], QueuesFor[rowKey[r]][j]>>)'
      <3>1. CASE j <= pos[i]
        BY <2>1, <2>3, <3>1, <1>6 DEF RelayInv
      <3>2. CASE j = pos[i] + 1
        <4>1. <<rowKey[r], QueuesFor[rowKey[r]][j]>> \in Copy
          BY <2>3, DestinationIsCopy DEF Destinations
        <4>2. CASE task[<<rowKey[r], QueuesFor[rowKey[r]][j]>>] # "none"
          BY <4>2, <2>3, <1>6 DEF Accounted
        <4>3. CASE task' = [task EXCEPT ![<<rowKey[r], QueuesFor[rowKey[r]][j]>>] = EnqueueState(rowKey[r])]
          <5>1. task'[<<rowKey[r], QueuesFor[rowKey[r]][j]>>] = EnqueueState(rowKey[r])
            BY <4>1, <4>3
          <5>2. EnqueueState(rowKey[r]) # "none"
            BY DEF EnqueueState
          <5> QED
            BY <2>1, <5>1, <5>2 DEF Accounted
        <4> QED
          BY <2>1, <3>2, <4>2, <4>3
      <3> QED
        BY <2>3, <2>5, <3>1, <3>2
    <2> QED
      BY <1>2, <1>4, <2>1, <2>2, <2>5
  <1>10. CASE MarkPublished(i)
    <2>1. PICK r \in RowId : /\ InHand(i, r)
                             /\ pos[i] = Len(QueuesFor[rowKey[r]])
                             /\ marked' = [marked EXCEPT ![i] = @ \cup {r}]
                             /\ pos' = [pos EXCEPT ![i] = 0]
                             /\ UNCHANGED <<batch, outboxVars, asynqVars, dbVars>>
      BY <1>10 DEF MarkPublished
    <2>2. r \in batch[i] /\ marked'[i] = marked[i] \cup {r} /\ pos'[i] = 0
      BY <2>1 DEF InHand
    <2>3. Delivered(r)
      BY <2>1 DEF RelayInv, Delivered, Destinations
    <2>4. Delivered(r)'
      BY <2>2, <2>3, <1>2, DeliveredStable
    <2> QED
      BY <1>2, <1>4, <2>1, <2>2, <2>4
  <1>11. ASSUME NEW k \in Relay, RelayStep(k) \/ AbortTick(k)
         PROVE  \/ UNCHANGED <<batch[i], marked[i], pos[i]>>
                \/ marked'[i] = {} /\ pos'[i] = 0
                \/ Enqueue(i) \/ MarkPublished(i)
    <2>0. /\ batch \in [Relay -> SUBSET RowId] /\ marked \in [Relay -> SUBSET RowId]
          /\ pos \in [Relay -> Nat]
      OBVIOUS
    <2> HIDE DEF IInv, TypeOK
    <2>1. CASE readPending(k)
      <3>1. k = i => marked'[i] = {} /\ pos'[i] = 0
        BY <2>0, <2>1 DEF readPending
      <3>2. k # i => UNCHANGED <<batch[i], marked[i], pos[i]>>
        BY <2>0, <2>1 DEF readPending
      <3> QED
        BY <3>1, <3>2
    <2>2. CASE Enqueue(k)
      <3>1. k # i => UNCHANGED <<batch[i], marked[i], pos[i]>>
        BY <2>0, <2>2 DEF Enqueue
      <3> QED
        BY <2>2, <3>1
    <2>3. CASE MarkPublished(k)
      <3>1. k # i => UNCHANGED <<batch[i], marked[i], pos[i]>>
        BY <2>0, <2>3 DEF MarkPublished
      <3> QED
        BY <2>3, <3>1
    <2>4. CASE CommitTick(k) \/ AbortTick(k)
      <3>1. k = i => marked'[i] = {} /\ pos'[i] = 0
        BY <2>0, <2>4 DEF CommitTick, AbortTick
      <3>2. k # i => UNCHANGED <<batch[i], marked[i], pos[i]>>
        BY <2>0, <2>4 DEF CommitTick, AbortTick
      <3> QED
        BY <3>1, <3>2
    <2> QED
      BY <1>11, <2>1, <2>2, <2>3, <2>4 DEF RelayStep
  <1> QED
    BY <1>7, <1>8, <1>9, <1>10, <1>11, AsynqKeepsOutbox
    DEF Next, ProducerStep, Publish, CommitTx, RollbackTx, EndTx, Elapse, vars, relayVars

\* A row is stamped only with all its copies accounted for.
LEMMA PublishedStep ==
    ASSUME IInv, [Next]_vars
    PROVE  PublishedNeverLost'
  <1> USE DEF IInv, TypeOK, outboxVars, relayVars, asynqVars, dbVars
  <1>1. SUFFICES ASSUME NEW r \in RowId, rowState'[r] = "published" PROVE Delivered(r)'
    BY DEF PublishedNeverLost, Delivered, Destinations, Accounted
  <1>2. CASE rowState[r] = "published"
    BY <1>2, DeliveredStable DEF PublishedNeverLost, Delivered
  <1>3. CASE rowState[r] # "published"
    <2>1. PICK i \in Relay : r \in marked[i]
      <3>1. ASSUME NEW p \in Producer, NEW k \in Event, Publish(p, k) PROVE FALSE
        BY <3>1, <1>1, <1>3 DEF Publish
      <3>2. ASSUME NEW p \in Producer, CommitTx(p) \/ RollbackTx(p) PROVE FALSE
        BY <3>2, <1>1, <1>3 DEF CommitTx, RollbackTx, EndTx
      <3>3. ASSUME NEW i \in Relay, CommitTick(i) PROVE r \in marked[i]
        BY <3>3, <1>1, <1>3 DEF CommitTick
      <3>4. rowState' # rowState
        BY <1>1, <1>3
      <3> QED
        BY <3>1, <3>2, <3>3, <3>4, AsynqKeepsOutbox
        DEF Next, ProducerStep, RelayStep, readPending, Enqueue, MarkPublished, AbortTick, Elapse, vars
    <2>2. Delivered(r) /\ rowState[r] # "free"
      BY <2>1 DEF RelayInv, ReplicasDisjoint
    <2> QED
      BY <2>2, DeliveredStable
  <1> QED
    BY <1>2, <1>3

\* The pipeline starts with nothing taken, held, marked or applied.
LEMMA InitInv == Init => IInv
  <1> SUFFICES ASSUME Init PROVE IInv
    OBVIOUS
  <1> USE DEF Init
  <1>1. TypeOK
    <2>1. (CHOOSE k \in Event : TRUE) \in Event
      BY PipelineAssumptions
    <2>2. 0 \in 0..MaxRetry
      BY PipelineAssumptions
    <2> QED
      BY <2>1, <2>2 DEF TypeOK, TaskState
  <1>2. TxInv /\ ReplicasDisjoint
    BY DEF TxInv, ReplicasDisjoint
  <1>3. RelayInv
    BY DEF RelayInv, InHand
  <1>4. DedupInv /\ EtaInv
    BY DEF DedupInv, EtaInv
  <1>5. PublishedNeverLost
    BY DEF PublishedNeverLost
  <1> QED
    BY <1>1, <1>2, <1>3, <1>4, <1>5 DEF IInv

\* IInv is an inductive invariant of the pipeline: whatever producers, relay
\* replicas, asynq, crashes and late executions do.
THEOREM Invariance == Spec => []IInv
  <1>1. IInv /\ [Next]_vars => IInv'
    <2> SUFFICES ASSUME IInv, [Next]_vars PROVE IInv'
      OBVIOUS
    <2>1. TypeOK'
      BY TypeStep DEF IInv
    <2> QED
      BY <2>1, TxStep, LockStep, BatchStep, DedupStep, EtaStep, PublishedStep DEF IInv
  <1> QED
    BY InitInv, <1>1, PTL DEF Spec

\* Every variable keeps its type; in particular no task is ever retried past
\* the budget maxRetryFor gave it.
THEOREM TypeCorrect == Spec => []TypeOK
  <1>1. IInv => TypeOK
    BY DEF IInv
  <1> QED
    BY Invariance, <1>1, PTL

\* Dedup.SeenOrMark makes every consumer's effect happen at most once, for any
\* number of republications, retries and late executions.
THEOREM AtMostOnce == Spec => []EffectAtMostOnce
  <1>1. IInv => EffectAtMostOnce
    BY DEF IInv, TypeOK, DedupInv, EffectAtMostOnce
  <1> QED
    BY Invariance, <1>1, PTL

\* Relay.Tick never stamps a row whose event some consumer could still miss.
THEOREM NeverLost == Spec => []PublishedNeverLost
  <1>1. IInv => PublishedNeverLost
    BY DEF IInv
  <1> QED
    BY Invariance, <1>1, PTL

\* FOR UPDATE SKIP LOCKED keeps any number of replicas off each other's rows.
THEOREM Disjointness == Spec => []ReplicasDisjoint
  <1>1. IInv => ReplicasDisjoint
    BY DEF IInv
  <1> QED
    BY Invariance, <1>1, PTL

\* No consumer applies a scheduled event before its process_at.
THEOREM EtaRespected == Spec => []NeverEarly
  <1>1. IInv => NeverEarly
    BY DEF IInv, TypeOK, DedupInv, EtaInv, NeverEarly
  <1> QED
    BY Invariance, <1>1, PTL
-----------------------------------------------------------------------------
(* The pipeline implements its contract.                                   *)

\* Only a commit makes copies sent, and nothing unsends one.
LEMMA SentStep ==
    ASSUME IInv, [Next]_vars, NEW c \in Copy
    PROVE  /\ Sent(c) => Sent(c)'
           /\ (~\E p \in Producer : CommitTx(p)) => (Sent(c)' => Sent(c))
  <1> DEFINE Committed(r) == rowState[r] \in {"unpublished", "published"} /\ rowKey[r] = c[1]
  <1> USE DEF outboxVars, relayVars, asynqVars, dbVars
  <1>0. TypeOK /\ TxInv /\ ReplicasDisjoint /\ RelayInv
    BY DEF IInv
  <1>1. SUFFICES ASSUME NEW r \in RowId
                 PROVE  /\ Committed(r) => Committed(r)'
                        /\ (~\E p \in Producer : CommitTx(p)) => (Committed(r)' => Committed(r))
    BY DEF Sent, Destinations
  <1>2. CASE UNCHANGED <<rowState, rowKey>>
    BY <1>2
  <1>3. ASSUME NEW p \in Producer, NEW k \in Event, Publish(p, k)
        PROVE  Committed(r)' <=> Committed(r)
    <2>1. rowState[nextId] = "free" /\ nextId \in RowId
      BY <1>0, <1>3 DEF Publish, TxInv, TypeOK
    <2> QED
      BY <1>0, <1>3, <2>1 DEF Publish, TypeOK
  <1>4. ASSUME NEW p \in Producer, CommitTx(p) PROVE Committed(r) => Committed(r)'
    BY <1>4 DEF CommitTx, EndTx
  <1>5. ASSUME NEW p \in Producer, RollbackTx(p) PROVE Committed(r)' <=> Committed(r)
    BY <1>0, <1>5 DEF RollbackTx, EndTx, TxInv
  <1>6. ASSUME NEW i \in Relay, CommitTick(i) PROVE Committed(r)' <=> Committed(r)
    BY <1>0, <1>6 DEF CommitTick, ReplicasDisjoint
  <1>7. ASSUME NEW i \in Relay, readPending(i) \/ Enqueue(i) \/ MarkPublished(i) \/ AbortTick(i)
        PROVE  UNCHANGED <<rowState, rowKey>>
    BY <1>7 DEF readPending, Enqueue, MarkPublished, AbortTick
  <1>8. ASSUME NEW d \in Copy, Handle(d) \/ Fault(d) PROVE UNCHANGED <<rowState, rowKey>>
    BY <1>8 DEF Handle, Forward, Start, HandlerCommits, Ack, HandlerFails, HandlerSkipsRetry,
                Fault, WorkerCrash, Abandon, ZombieEnds
  <1>9. ASSUME NEW k \in Event, Elapse(k) PROVE UNCHANGED <<rowState, rowKey>>
    BY <1>9 DEF Elapse
  <1>10. UNCHANGED vars => UNCHANGED <<rowState, rowKey>>
    BY DEF vars
  <1> QED
    BY <1>2, <1>3, <1>4, <1>5, <1>6, <1>7, <1>8, <1>9, <1>10 DEF Next, ProducerStep, RelayStep

\* Tasks are only created for the row in hand, which is committed.
LEMMA SentInvStep ==
    ASSUME IInv, SentInv, [Next]_vars
    PROVE  SentInv'
  <1> USE DEF asynqVars, TypeOK
  <1>0. TypeOK /\ ReplicasDisjoint
    BY DEF IInv
  <1>1. \A c \in Copy : Sent(c) => Sent(c)'
    BY SentStep
  <1> SUFFICES ASSUME NEW c \in Copy
               PROVE  \/ task'[c] # "none" \/ zombies'[c] > 0 => task[c] # "none" \/ zombies[c] > 0
                      \/ Sent(c)
    BY <1>1 DEF SentInv
  <1>2. CASE UNCHANGED <<task, zombies>>
    BY <1>2
  <1>3. ASSUME NEW i \in Relay, Enqueue(i), task[c] = "none", task'[c] # "none" PROVE Sent(c)
    <2>1. PICK r \in RowId :
            /\ InHand(i, r)
            /\ pos[i] < Len(QueuesFor[rowKey[r]])
            /\ LET d == <<rowKey[r], QueuesFor[rowKey[r]][pos[i] + 1]>>
               IN  task' = task \/ task' = [task EXCEPT ![d] = EnqueueState(rowKey[r])]
      BY <1>3 DEF Enqueue
    <2>2. c = <<rowKey[r], QueuesFor[rowKey[r]][pos[i] + 1]>>
      BY <1>0, <1>3, <2>1
    <2>3. pos[i] + 1 \in 1..Len(QueuesFor[rowKey[r]])
      <3>1. pos[i] \in Nat /\ Len(QueuesFor[rowKey[r]]) \in Nat
        BY <1>0, PipelineAssumptions
      <3> QED
        BY <2>1, <3>1
    <2>4. rowState[r] = "unpublished"
      BY <1>0, <2>1 DEF InHand, ReplicasDisjoint
    <2> QED
      BY <2>2, <2>3, <2>4 DEF Sent, Destinations
  <1>4. ASSUME NEW i \in Relay, Enqueue(i) PROVE zombies' = zombies
    BY <1>4 DEF Enqueue
  <1>5. ASSUME NEW d \in Copy, Handle(d) \/ WorkerCrash(d) \/ Abandon(d), d # c
        PROVE  task'[c] = task[c] /\ zombies'[c] = zombies[c]
    BY <1>0, <1>5 DEF Handle, Forward, Start, HandlerCommits, Ack, HandlerFails, HandlerSkipsRetry,
                      WorkerCrash, Abandon, FailAttempt, Move
  <1>6. ASSUME Handle(c) \/ WorkerCrash(c) \/ Abandon(c) PROVE task[c] # "none"
    BY <1>6 DEF Handle, Forward, Start, HandlerCommits, Ack, HandlerFails, HandlerSkipsRetry,
                WorkerCrash, Abandon, Move
  <1>7. ASSUME NEW d \in Copy, ZombieEnds(d)
        PROVE  task' = task /\ (zombies'[c] > 0 => zombies[c] > 0)
    BY <1>0, <1>7 DEF ZombieEnds
  <1>8. ASSUME \/ ProducerStep
               \/ \E i \in Relay : readPending(i) \/ MarkPublished(i) \/ CommitTick(i) \/ AbortTick(i)
               \/ \E k \in Event : Elapse(k)
               \/ UNCHANGED vars
        PROVE  UNCHANGED <<task, zombies>>
    BY <1>8 DEF ProducerStep, Publish, CommitTx, RollbackTx, EndTx, readPending, MarkPublished,
                CommitTick, AbortTick, Elapse, vars
  <1> QED
    BY <1>2, <1>3, <1>4, <1>5, <1>6, <1>7, <1>8 DEF Next, RelayStep, Fault
-----------------------------------------------------------------------------
status == [c \in Copy |-> statusOf(c)]

\* The commit of a producer owes the copies of its events and of no other.
LEMMA CommitSends ==
    ASSUME IInv, SentInv, NEW p \in Producer, CommitTx(p)
    PROVE  [\E S \in SUBSET Copy : Contract!Send(S)]_status
  <1>1. UNCHANGED <<task, processed>>
    BY DEF CommitTx, EndTx, asynqVars, dbVars
  <1>2. \A c \in Copy : Sent(c) => Sent(c)'
    <2>1. [Next]_vars
      BY DEF Next, ProducerStep
    <2> QED
      BY <2>1, SentStep
  <1> DEFINE S == {c \in Copy : statusOf(c) = "unsent" /\ Sent(c)'}
  <1>3. \A c \in Copy : statusOf(c)' = IF c \in S THEN "owed" ELSE statusOf(c)
    BY <1>1, <1>2 DEF statusOf
  <1>4. status' = [c \in Copy |-> IF c \in S THEN "owed" ELSE status[c]]
    BY <1>3 DEF status
  <1>5. S \subseteq {c \in Copy : status[c] = "unsent"}
    BY DEF status
  <1>6. CASE S = {}
    BY <1>4, <1>6 DEF status
  <1>7. CASE S # {}
    <2>1. Contract!Send(S)
      BY <1>4, <1>5, <1>7 DEF Contract!Send, status
    <2> QED
      BY <2>1
  <1> QED
    BY <1>6, <1>7

\* A step that changes the task or the mark of no copy but c, and no commit.
LEMMA OneCopy ==
    ASSUME IInv, SentInv, [Next]_vars, ~\E p \in Producer : CommitTx(p), NEW c \in Copy,
           \A d \in Copy \ {c} : task'[d] = task[d] /\ (d \in processed' <=> d \in processed)
    PROVE  status' = [status EXCEPT ![c] = statusOf(c)']
  <1>1. \A d \in Copy : Sent(d)' <=> Sent(d)
    BY SentStep
  <1>2. \A d \in Copy \ {c} : statusOf(d)' = statusOf(d)
    BY <1>1 DEF statusOf
  <1> QED
    BY <1>2 DEF status

\* A step that creates a task or moves one outside the archive, without a
\* mark, is a stutter of the contract.
LEMMA QuietMove ==
    ASSUME IInv, SentInv, [Next]_vars, ~\E p \in Producer : CommitTx(p),
           processed' = processed,
           \A d \in Copy : task'[d] = "archived" <=> task[d] = "archived"
    PROVE  status' = status
  <1>1. \A d \in Copy : Sent(d)' <=> Sent(d)
    BY SentStep
  <1>2. \A d \in Copy : statusOf(d)' = statusOf(d)
    BY <1>1 DEF statusOf
  <1> QED
    BY <1>2 DEF status

\* An attempt that is not committed leaves its copy owed, or drops it.
LEMMA FailDrops ==
    ASSUME IInv, SentInv, [Next]_vars, NEW c \in Copy, task[c] \in {"active", "acking"},
           ~\E p \in Producer : CommitTx(p), processed' = processed,
           \/ FailAttempt(c)
           \/ task' = [task EXCEPT ![c] = "archived"]
    PROVE  [Contract!Drop(c)]_status
  <1> USE DEF TypeOK
  <1>0. TypeOK /\ (c \notin processed => statusOf(c) = "owed") /\ (c \in processed => statusOf(c) = "applied")
    BY DEF IInv, SentInv, statusOf
  <1>1. PICK to \in {"retry", "archived"} : task' = [task EXCEPT ![c] = to]
    BY DEF FailAttempt
  <1>2. CASE to = "retry"
    BY <1>0, <1>1, <1>2, QuietMove
  <1>3. CASE to = "archived"
    <2>1. status' = [status EXCEPT ![c] = statusOf(c)']
      BY <1>0, <1>1, OneCopy
    <2>2. statusOf(c)' = IF c \in processed THEN "applied" ELSE "dropped"
      BY <1>0, <1>1, <1>3 DEF statusOf
    <2>3. CASE c \in processed
      BY <1>0, <2>1, <2>2, <2>3 DEF status
    <2>4. CASE c \notin processed
      <3>1. status[c] = "owed" /\ status' = [status EXCEPT ![c] = "dropped"]
        BY <1>0, <2>1, <2>2, <2>4 DEF status
      <3> QED
        BY <3>1 DEF Contract!Drop, status
    <2> QED
      BY <2>3, <2>4
  <1> QED
    BY <1>1, <1>2, <1>3

\* A commit of a handler, in time or late, applies its copy or repeats it.
LEMMA CommitApplies ==
    ASSUME IInv, SentInv, [Next]_vars, NEW c \in Copy, SeenOrMark(c),
           task[c] # "none" \/ zombies[c] > 0,
           \A d \in Copy \ {c} : task'[d] = task[d],
           ~\E p \in Producer : CommitTx(p)
    PROVE  [Contract!Apply(c)]_status
  <1>1. processed' = processed \cup {c}
    BY DEF SeenOrMark
  <1>2. status' = [status EXCEPT ![c] = statusOf(c)']
    BY <1>1, OneCopy
  <1>3. statusOf(c)' = "applied"
    BY <1>1 DEF statusOf
  <1>4. statusOf(c) \in {"applied", "dropped", "owed"}
    BY DEF SentInv, statusOf
  <1>5. CASE statusOf(c) = "applied"
    BY <1>2, <1>3, <1>5 DEF status
  <1>6. CASE statusOf(c) # "applied"
    <2>1. status[c] \in {"owed", "dropped"} /\ status' = [status EXCEPT ![c] = "applied"]
      BY <1>2, <1>3, <1>4, <1>6 DEF status
    <2> QED
      BY <2>1 DEF Contract!Apply, status
  <1> QED
    BY <1>5, <1>6

\* Every step of the pipeline is a step of the contract or a stutter.
LEMMA Simulation ==
    ASSUME IInv, SentInv, [Next]_vars
    PROVE  [Contract!Next]_status
  <1> USE DEF TypeOK, asynqVars, dbVars
  <1>0. TypeOK
    BY DEF IInv
  <1>1. ASSUME NEW p \in Producer, CommitTx(p) PROVE [Contract!Next]_status
    BY <1>1, CommitSends DEF Contract!Next
  <1>2. CASE \E p \in Producer : CommitTx(p)
    BY <1>1, <1>2
  <1> SUFFICES ASSUME ~\E p \in Producer : CommitTx(p) PROVE [Contract!Next]_status
    BY <1>2
  <1>3. ASSUME UNCHANGED <<task, processed>> PROVE status' = status
    BY <1>3, QuietMove
  <1>4. ASSUME \/ ProducerStep
               \/ \E i \in Relay : readPending(i) \/ MarkPublished(i) \/ CommitTick(i) \/ AbortTick(i)
               \/ \E k \in Event : Elapse(k)
               \/ UNCHANGED vars
        PROVE  UNCHANGED <<task, processed>>
    BY <1>4 DEF ProducerStep, Publish, CommitTx, RollbackTx, EndTx, readPending, MarkPublished,
                CommitTick, AbortTick, Elapse, vars
  <1>5. ASSUME NEW i \in Relay, Enqueue(i) PROVE status' = status
    <2>1. processed' = processed
      BY <1>5 DEF Enqueue
    <2>2. \/ task' = task
          \/ \E d : task[d] = "none" /\ \E to \in {"scheduled", "pending"} : task' = [task EXCEPT ![d] = to]
      BY <1>5 DEF Enqueue, EnqueueState
    <2>3. \A d \in Copy : task'[d] = "archived" <=> task[d] = "archived"
      BY <1>0, <2>2
    <2> QED
      BY <2>1, <2>3, QuietMove
  <1>6. ASSUME NEW c \in Copy, Forward(c) \/ Start(c) \/ Ack(c) PROVE status' = status
    <2>1. processed' = processed
      BY <1>6 DEF Forward, Start, Ack
    <2>2. \A d \in Copy : task'[d] = "archived" <=> task[d] = "archived"
      BY <1>0, <1>6 DEF Forward, Start, Ack, Move
    <2> QED
      BY <2>1, <2>2, QuietMove
  <1>7. ASSUME NEW c \in Copy, HandlerFails(c) \/ HandlerSkipsRetry(c) \/ WorkerCrash(c) \/ Abandon(c)
        PROVE  [Contract!Drop(c)]_status
    <2>1. /\ task[c] \in {"active", "acking"} /\ processed' = processed
          /\ FailAttempt(c) \/ task' = [task EXCEPT ![c] = "archived"]
      BY <1>7 DEF HandlerFails, HandlerSkipsRetry, WorkerCrash, Abandon, Move
    <2> QED
      BY <2>1, FailDrops
  <1>8. ASSUME NEW c \in Copy, HandlerCommits(c) PROVE [Contract!Apply(c)]_status
    <2>1. /\ SeenOrMark(c) /\ task[c] # "none"
          /\ \A d \in Copy \ {c} : task'[d] = task[d]
      BY <1>0, <1>8 DEF HandlerCommits, Move
    <2> QED
      BY <2>1, CommitApplies
  <1>9. ASSUME NEW c \in Copy, ZombieEnds(c) PROVE [Contract!Apply(c)]_status
    <2>1. zombies[c] > 0 /\ task' = task
      BY <1>9 DEF ZombieEnds
    <2>2. CASE SeenOrMark(c)
      BY <2>1, <2>2, CommitApplies
    <2>3. CASE UNCHANGED dbVars
      BY <1>3, <2>1, <2>3
    <2> QED
      BY <1>9, <2>2, <2>3 DEF ZombieEnds
  <1>10. ASSUME NEW c \in Copy, [Contract!Apply(c) \/ Contract!Drop(c)]_status
         PROVE  [Contract!Next]_status
    BY <1>10 DEF Contract!Next
  <1> QED
    BY <1>3, <1>4, <1>5, <1>6, <1>7, <1>8, <1>9, <1>10 DEF Next, RelayStep, Handle, Fault

\* Nothing is sent in the initial state.
LEMMA InitMaps == Init => Contract!Init /\ SentInv
  <1> SUFFICES ASSUME Init PROVE Contract!Init /\ SentInv
    OBVIOUS
  <1>1. \A c \in Copy : task[c] = "none" /\ zombies[c] = 0 /\ c \notin processed /\ ~Sent(c)
    BY DEF Init, Sent
  <1>2. \A c \in Copy : statusOf(c) = "unsent"
    BY <1>1 DEF statusOf
  <1> QED
    BY <1>1, <1>2 DEF Contract!Init, SentInv

\* The outbox, the relay, asynq and the dedup table together deliver what
\* DeliveryContract promises: a copy is applied only after its producer
\* committed, never un-applied, and leaves "owed" only to be applied or
\* archived.
THEOREM Implements == Spec => Contract!Spec
  <1>1. IInv /\ SentInv /\ [Next]_vars => SentInv'
    BY SentInvStep
  <1>2. IInv /\ SentInv /\ [Next]_vars => [Contract!Next]_status
    BY Simulation
  <1>3. Spec => []SentInv
    BY Invariance, InitMaps, <1>1, PTL DEF Spec
  <1> QED
    BY Invariance, InitMaps, <1>2, <1>3, PTL DEF Spec, Contract!Spec, status
-----------------------------------------------------------------------------
(* Routing.                                                                *)

\* The queues of a server, and who drains a queue.
LEMMA QueuesOf ==
    /\ Queues["main"] = {"ingestao", "notifications"}
    /\ Queues["court"] = {"court_fetch"}
    /\ \A s \in Server \ {"main", "court"} : Queues[s] = {s}
  BY DEF Queues, Server

\* No queue is drained by two servers: their muxes never compete for a task.
LEMMA OneDrains ==
    ASSUME NEW s \in Server, NEW o \in Server, NEW q \in Queues[s], q \in Queues[o]
    PROVE  o = s
  <1>1. \A x \in Server : x = "main" \/ x = "court" \/ Queues[x] = {x}
    BY QueuesOf
  <1> QED
    BY <1>1, QueuesOf DEF Server

\* A handler runs once for a type that goes to exactly one of its server's queues.
LEMMA ReachedBy ==
    ASSUME NEW t, NEW s \in Server, NEW q \in Queues[s], queuesFor(t) \cap Queues[s] = {q}
    PROVE  Reached(t, s)
  <1>1. q \in queuesFor(t)
    OBVIOUS
  <1>2. \A other \in Server \ {s} : q \notin Queues[other]
    BY OneDrains
  <1> QED
    BY <1>1, <1>2 DEF Reached

\* So it does for a type that goes to one queue only.
LEMMA ReachedByOne ==
    ASSUME NEW t, NEW s \in Server, NEW q \in Queues[s], queuesFor(t) = {q}
    PROVE  Reached(t, s)
  BY ReachedBy

\* The dedicated queue of an acquisition type.
LEMMA DedicatedPair ==
    ASSUME NEW p, NEW n
    PROVE  dedicatedQueue(<<p, n>>) =
              IF p # "acquisition" THEN "none"
              ELSE IF n = "diario_requested" THEN "diario"
              ELSE IF n \in {"sync_completed", "sync_failed"} THEN "sync_status"
              ELSE IF n = "enrichment_batch_requested" THEN "enrichment" ELSE "none"
  BY DEF dedicatedQueue, acquisition

\* The queue of a type's consumer, by its prefix and its name.
LEMMA ConsumerPair ==
    ASSUME NEW p, NEW n
    PROVE  consumerQueue(<<p, n>>) =
              CASE p = "acquisition" /\ n \in {"intimation.observed", "intimation.cancelled",
                                               "court_record_archived"} -> "deadline"
                [] p = "deadline" /\ n \in {"reminder_check", "missed_check", "opened"} -> "deadline"
                [] p = "actionitem" /\ n \in {"created", "confirmed", "reclassified"} -> "deadline"
                [] p = "deadline" /\ n \in {"due_soon", "missed", "resolved_on_conclusion"} -> "notifications"
                [] p = "identity" /\ n = "tenant_provisioned" -> "notifications"
                [] p = "billing" /\ n \in {"trial_ending_soon_check", "trial_ending_soon"} -> "notifications"
                [] p = "draft" /\ n = "generation_requested" -> "ai"
                [] p = "court" /\ n \in {"fetch_autos_requested", "fetch_autos_item_requested"} -> "court_fetch"
                [] p = "filing" /\ n = "enqueued" -> "filing"
                [] p = "filing" /\ n \in {"succeeded", "failed"} -> "notifications"
                [] p = "draft" /\ n = "generated" -> "notifications"
                [] OTHER -> "none"
  BY DEF consumerQueue, acquisition, deadline

\* The queue of a type by its prefix alone.
LEMMA PrefixPair ==
    ASSUME NEW p, NEW n
    PROVE  prefixQueue(<<p, n>>) =
              CASE p \in {"ingestao", "acquisition", "deadline", "task"} -> "ingestao"
                [] p \in {"documents", "document"} -> "documents"
                [] p = "ai" -> "ai"
                [] p = "notification" -> "notifications"
                [] OTHER -> "default"
  BY DEF prefixQueue, prefix

\* A type without a second consumer goes where the special cases send it, and
\* by its prefix when none does.
LEMMA OneRoute ==
    ASSUME NEW p, NEW n,
           p = "acquisition" => n \notin {"docket_entry_observed", "court_record_observed"}
    PROVE  queuesFor(<<p, n>>) =
              {IF dedicatedQueue(<<p, n>>) # "none" THEN dedicatedQueue(<<p, n>>)
               ELSE IF consumerQueue(<<p, n>>) # "none" THEN consumerQueue(<<p, n>>)
               ELSE prefixQueue(<<p, n>>)}
  BY DEF queuesFor, queueFor, acquisition

\* The main server: acquisition work without a special case, and the notifications.
LEMMA MainReached ==
    ASSUME NEW t \in Mux["main"], t # <<"billing", "payment_failed">>
    PROVE  Reached(t, "main")
  <1>0. "main" \in Server /\ "ingestao" \in Queues["main"] /\ "notifications" \in Queues["main"]
    BY QueuesOf DEF Server
  <1>1. ASSUME NEW p, NEW n, t = <<p, n>>, p \in {"acquisition"},
               n \in {"integration_activated", "watched_oab_reenabled", "sync_requested",
                      "backfill_finished", "intimation.analyzed"}
        PROVE  Reached(t, "main")
    <2>1. queuesFor(<<p, n>>) = {"ingestao"}
      BY <1>1, OneRoute, DedicatedPair, ConsumerPair, PrefixPair
    <2> QED
      BY <1>0, <1>1, <2>1, ReachedByOne
  <1>2. ASSUME t \in {acquisition("docket_entry_observed"), acquisition("court_record_observed")}
        PROVE  Reached(t, "main")
    <2>1. queuesFor(t) \in {{"ingestao", "deadline"}, {"ingestao", "court_fetch"}}
      BY <1>2 DEF queuesFor, acquisition
    <2>2. queuesFor(t) \cap Queues["main"] = {"ingestao"}
      BY <2>1, QueuesOf
    <2> QED
      BY <1>0, <2>2, ReachedBy
  <1>3. ASSUME NEW p, NEW n, t = <<p, n>>,
               \/ p = "deadline" /\ n \in {"due_soon", "missed", "resolved_on_conclusion"}
               \/ p = "billing" /\ n \in {"trial_ending_soon", "trial_ending_soon_check"}
               \/ p = "filing" /\ n \in {"succeeded", "failed"}
               \/ p = "notification"
               \/ p = "draft" /\ n = "generated"
               \/ p = "identity" /\ n = "tenant_provisioned"
        PROVE  Reached(t, "main")
    <2>1. queuesFor(<<p, n>>) = {"notifications"}
      BY <1>3, OneRoute, DedicatedPair, ConsumerPair, PrefixPair
    <2> QED
      BY <1>0, <1>3, <2>1, ReachedByOne
  <1>4. "main" \in Server
    BY <1>0
  <1>5. \/ t \in {"acquisition"} \X {"integration_activated", "watched_oab_reenabled", "sync_requested",
                                     "court_record_observed", "backfill_finished",
                                     "docket_entry_observed", "intimation.analyzed"}
        \/ t \in {"deadline"} \X {"due_soon", "missed", "resolved_on_conclusion"}
        \/ t \in {"billing"} \X {"trial_ending_soon", "payment_failed", "trial_ending_soon_check"}
        \/ t \in {"filing"} \X {"succeeded", "failed"}
        \/ t \in {<<"notification", "requested">>, <<"draft", "generated">>,
                  <<"identity", "tenant_provisioned">>}
    BY <1>4 DEF Mux
  <1>6. CASE t \in {"acquisition"} \X {"integration_activated", "watched_oab_reenabled", "sync_requested",
                                     "court_record_observed", "backfill_finished",
                                     "docket_entry_observed", "intimation.analyzed"}
    BY <1>1, <1>2, <1>6 DEF acquisition
  <1>7. CASE t \in {"deadline"} \X {"due_soon", "missed", "resolved_on_conclusion"}
    BY <1>3, <1>7
  <1>8. CASE t \in {"billing"} \X {"trial_ending_soon", "payment_failed", "trial_ending_soon_check"}
    BY <1>3, <1>8
  <1>9. CASE t \in {"filing"} \X {"succeeded", "failed"}
    BY <1>3, <1>9
  <1>10. CASE t \in {<<"notification", "requested">>, <<"draft", "generated">>,
                     <<"identity", "tenant_provisioned">>}
    BY <1>3, <1>10
  <1> QED
    BY <1>5, <1>6, <1>7, <1>8, <1>9, <1>10

\* The deadline server: one type comes to it and to the main server.
LEMMA DeadlineReached ==
    ASSUME NEW t \in Mux["deadline"]
    PROVE  Reached(t, "deadline")
  <1>0. "deadline" \in Server /\ Queues["deadline"] = {"deadline"}
    BY QueuesOf DEF Server
  <1>1. \/ t = acquisition("docket_entry_observed")
        \/ t \in {"acquisition"} \X {"intimation.observed", "intimation.cancelled",
                                     "court_record_archived"}
        \/ t \in {"deadline"} \X {"reminder_check", "missed_check", "opened"}
        \/ t = <<"actionitem", "reclassified">>
    BY <1>0 DEF Mux, acquisition
  <1>2. CASE t = acquisition("docket_entry_observed")
    <2>1. queuesFor(t) = {"ingestao", "deadline"}
      BY <1>2 DEF queuesFor, acquisition
    <2> QED
      BY <1>0, <2>1, ReachedBy
  <1>3. CASE t # acquisition("docket_entry_observed")
    <2>1. PICK p, n : /\ t = <<p, n>>
                      /\ \/ /\ p = "acquisition"
                            /\ n \in {"intimation.observed", "intimation.cancelled", "court_record_archived"}
                         \/ p = "deadline" /\ n \in {"reminder_check", "missed_check", "opened"}
                         \/ p = "actionitem" /\ n = "reclassified"
      BY <1>1, <1>3
    <2>2. queuesFor(<<p, n>>) = {"deadline"}
      BY <2>1, OneRoute, DedicatedPair, ConsumerPair
    <2> QED
      BY <1>0, <2>1, <2>2, ReachedByOne
  <1> QED
    BY <1>2, <1>3

\* The court server: a new court record comes to it and to the main server.
LEMMA CourtReached ==
    ASSUME NEW t \in Mux["court"]
    PROVE  Reached(t, "court")
  <1>0. "court" \in Server /\ Queues["court"] = {"court_fetch"}
    BY QueuesOf DEF Server
  <1>1. \/ t = acquisition("court_record_observed")
        \/ t = <<"court", "fetch_autos_requested">>
        \/ t = <<"court", "fetch_autos_item_requested">>
    BY <1>0 DEF Mux
  <1>2. CASE t = acquisition("court_record_observed")
    <2>1. queuesFor(t) = {"ingestao", "court_fetch"}
      BY <1>2 DEF queuesFor, acquisition
    <2> QED
      BY <1>0, <2>1, ReachedBy
  <1>3. ASSUME NEW n \in {"fetch_autos_requested", "fetch_autos_item_requested"}, t = <<"court", n>>
        PROVE  Reached(t, "court")
    <2>1. queuesFor(<<"court", n>>) = {"court_fetch"}
      BY OneRoute, DedicatedPair, ConsumerPair
    <2> QED
      BY <1>0, <1>3, <2>1, ReachedByOne
  <1> QED
    BY <1>1, <1>2, <1>3

\* The servers that drain the one queue of their name.
LEMMA OtherReached ==
    ASSUME NEW s \in Server \ {"main", "deadline", "court"}, NEW t \in Mux[s]
    PROVE  Reached(t, s)
  <1>0. s \in Server /\ Queues[s] = {s}
    BY QueuesOf
  <1>1. PICK p, n :
           /\ t = <<p, n>>
           /\ \/ s = "sync_status" /\ p = "acquisition" /\ n \in {"sync_completed", "sync_failed"}
              \/ s = "enrichment" /\ p = "acquisition" /\ n = "enrichment_batch_requested"
              \/ s = "diario" /\ p = "acquisition" /\ n = "diario_requested"
              \/ s = "documents" /\ p = "document"
              \/ s = "ai" /\ p = "draft" /\ n = "generation_requested"
              \/ s = "filing" /\ p = "filing" /\ n = "enqueued"
    BY DEF Mux, Server, acquisition
  <1>2. queuesFor(<<p, n>>) = {s}
    BY <1>1, OneRoute, DedicatedPair, ConsumerPair, PrefixPair
  <1> QED
    BY <1>0, <1>1, <1>2, ReachedByOne

\* Of every type a server registers a handler for, published today or not, but
\* billing's payment_failed: the queues queuesFor picks hold exactly one of that
\* server's, and no other server drains it.
THEOREM RegisteredIsReached ==
    \A s \in Server : \A t \in Mux[s] \ {<<"billing", "payment_failed">>} : Reached(t, s)
  BY MainReached, DeadlineReached, CourtReached, OtherReached

\* The one handler left out: payment_failed goes to the default queue, which no
\* server drains.
THEOREM PaymentFailedIsStranded ==
    \A s \in Server : ~Reached(<<"billing", "payment_failed">>, s)
  <1>1. queuesFor(<<"billing", "payment_failed">>) = {"default"}
    BY OneRoute, DedicatedPair, ConsumerPair, PrefixPair
  <1>2. ASSUME NEW s \in Server PROVE "default" \notin Queues[s]
    BY QueuesOf DEF Server
  <1> QED
    BY <1>1, <1>2 DEF Reached

\* Every handler registered for a published type, but that one, runs once for
\* it: the literals of queuesFor, of the servers' Queues and of their muxes agree.
THEOREM RoutesReachConsumers == Spec => []ConsumersReached
  <1>1. ConsumersReached
    BY RegisteredIsReached DEF ConsumersReached
  <1> QED
    BY <1>1, PTL
=============================================================================
