--------------------------- MODULE EventPipeline ---------------------------
(***************************************************************************)
(* The transactional-outbox pipeline of lib/events, end to end.            *)
(*                                                                         *)
(*   producer tx --insert--> outbox row --relay--> asynq task --> handler  *)
(*                                                                         *)
(* A use case inserts its event rows inside its own transaction            *)
(* (Outbox.Publish, PublishBatch); several relay replicas drain committed  *)
(* rows (Relay.Tick) into asynq, one task per destination queue; a worker  *)
(* runs the handler, whose single transaction marks the event in           *)
(* processed_event and applies its effect (Dedup.SeenOrMark).              *)
(*                                                                         *)
(* asynq is external: the model keeps what the code relies on -- task ids  *)
(* are unique while a task exists, a finished task is deleted, a failing   *)
(* one is retried up to its budget and then archived, a task whose worker  *)
(* stops answering is given to another one while the first may still be    *)
(* running.                                                                *)
(***************************************************************************)
EXTENDS Integers, Sequences, FiniteSets

CONSTANTS
    Event,        \* idempotency keys of the events (events.Base.EventID)
    Queue,        \* asynq queues, each drained by one consumer
    QueuesFor,    \* queuesFor: the destination queues of an event, in order
    Interactive,  \* the events priorityFor gives priority 0
    Scheduled,    \* the events that implement ScheduledEvent (process_at set)
    Producer,     \* concurrent producer transactions
    Relay,        \* relay replicas
    BatchLimit,   \* LIMIT 200 of selectUnpublished
    MaxRetry,     \* maxRetryFor: the retry budget of a task
    MaxRows,      \* bound: outbox rows ever inserted
    MaxAborts,    \* bound: relay ticks that fail or crash
    MaxZombies    \* bound: abandoned executions alive at once, per task

ASSUME PipelineAssumptions ==
    /\ Event # {}
    /\ QueuesFor \in [Event -> Seq(Queue)]
    /\ Interactive \subseteq Event
    /\ Scheduled \subseteq Event
    /\ BatchLimit \in Nat \ {0}
    /\ MaxRetry \in Nat
    /\ MaxRows \in Nat
    /\ MaxAborts \in Nat
    /\ MaxZombies \in Nat

VARIABLES
    nextId,     \* the bigserial sequence: ids are taken before the commit
    rowState,   \* life of each outbox row
    rowKey,     \* idempotency_key of each row
    txRows,     \* rows each open producer transaction has inserted
    batch,      \* rows a relay replica holds FOR UPDATE (its open Tick)
    marked,     \* rows of the batch already enqueued and UPDATEd in that tx
    pos,        \* copies of the row in hand already enqueued
    aborts,     \* failed or crashed ticks so far
    task,       \* asynq state of each copy
    retried,    \* asynq retry count of each copy
    zombies,    \* abandoned executions of each copy that may still commit
    due,        \* scheduled events whose process_at has passed
    processed,  \* processed_event: copies a consumer has marked
    effects     \* how many times each copy's effect was committed

outboxVars == <<nextId, rowState, rowKey, txRows>>
relayVars  == <<batch, marked, pos, aborts>>
asynqVars  == <<task, retried, zombies, due>>
dbVars     == <<processed, effects>>
vars       == <<outboxVars, relayVars, asynqVars, dbVars>>

RowId == 1..MaxRows

\* One asynq task per event and destination queue (taskIDForQueue).
Copy == Event \X Queue

Destinations(k) == {QueuesFor[k][j] : j \in 1..Len(QueuesFor[k])}

TaskState == {"none", "scheduled", "pending", "active", "acking", "retry", "archived"}

Init ==
    /\ nextId = 1
    /\ rowState = [r \in RowId |-> "free"]
    /\ rowKey = [r \in RowId |-> CHOOSE k \in Event : TRUE]
    /\ txRows = [p \in Producer |-> {}]
    /\ batch = [i \in Relay |-> {}]
    /\ marked = [i \in Relay |-> {}]
    /\ pos = [i \in Relay |-> 0]
    /\ aborts = 0
    /\ task = [c \in Copy |-> "none"]
    /\ retried = [c \in Copy |-> 0]
    /\ zombies = [c \in Copy |-> 0]
    /\ due = {}
    /\ processed = {}
    /\ effects = [c \in Copy |-> 0]
-----------------------------------------------------------------------------
(* The producer: rows join the use case's own transaction.                 *)

\* INSERT INTO outbox inside p's transaction: the id is taken now, the row is
\* invisible until p commits. PublishBatch is a run of these.
Publish(p, k) ==
    /\ nextId \in RowId
    /\ nextId' = nextId + 1
    /\ rowState' = [rowState EXCEPT ![nextId] = "open"]
    /\ rowKey' = [rowKey EXCEPT ![nextId] = k]
    /\ txRows' = [txRows EXCEPT ![p] = @ \cup {nextId}]
    /\ UNCHANGED <<relayVars, asynqVars, dbVars>>

\* The transaction ends: every row it inserted becomes visible, or none does.
EndTx(p, outcome) ==
    /\ txRows[p] # {}
    /\ rowState' = [r \in RowId |-> IF r \in txRows[p] THEN outcome ELSE rowState[r]]
    /\ txRows' = [txRows EXCEPT ![p] = {}]
    /\ UNCHANGED <<nextId, rowKey, relayVars, asynqVars, dbVars>>

CommitTx(p) == EndTx(p, "unpublished")

RollbackTx(p) == EndTx(p, "void")
-----------------------------------------------------------------------------
(* The relay: one Tick is one transaction over a locked batch.             *)

priorityFor(k) == IF k \in Interactive THEN 0 ELSE 1

\* ORDER BY priority, id
Before(r, s) ==
    \/ priorityFor(rowKey[r]) < priorityFor(rowKey[s])
    \/ priorityFor(rowKey[r]) = priorityFor(rowKey[s]) /\ r < s

\* Mutant: the relay keeps a cursor on the highest id it has published.
SelectableByCursor ==
    {r \in RowId : /\ rowState[r] = "unpublished" /\ \A i \in Relay : r \notin batch[i]
                   /\ \A s \in RowId : rowState[s] = "published" => s < r}

\* What FOR UPDATE SKIP LOCKED lets a replica see.
Selectable ==
    {r \in RowId : rowState[r] = "unpublished" /\ \A i \in Relay : r \notin batch[i]}

readPending(i) ==
    /\ batch[i] = {}
    /\ \E S \in SUBSET Selectable :
          /\ S # {}
          /\ \/ S = Selectable
             \/ Cardinality(S) = BatchLimit
          /\ Cardinality(S) <= BatchLimit
          /\ \A r \in S, s \in Selectable \ S : Before(r, s)
          /\ batch' = [batch EXCEPT ![i] = S]
    /\ marked' = [marked EXCEPT ![i] = {}]
    /\ pos' = [pos EXCEPT ![i] = 0]
    /\ UNCHANGED <<aborts, outboxVars, asynqVars, dbVars>>

\* r is the row the loop over the batch has in hand.
InHand(i, r) ==
    /\ r \in batch[i] \ marked[i]
    /\ \A s \in batch[i] \ marked[i] : r = s \/ Before(r, s)

\* Mutant: asynq.ProcessAt is left out of the options.
EnqueueStateNow(k) == "pending"

\* asynq.ProcessAt makes the task start scheduled.
EnqueueState(k) == IF k \in Scheduled THEN "scheduled" ELSE "pending"

\* EnqueueContext: a task with this id that still exists is a conflict, which
\* counts as delivered; otherwise a fresh task is created.
Enqueue(i) ==
    \E r \in RowId :
        /\ InHand(i, r)
        /\ pos[i] < Len(QueuesFor[rowKey[r]])
        /\ LET c == <<rowKey[r], QueuesFor[rowKey[r]][pos[i] + 1]>>
           IN  IF task[c] # "none"
               THEN UNCHANGED <<task, retried>>
               ELSE /\ task' = [task EXCEPT ![c] = EnqueueState(rowKey[r])]
                    /\ retried' = [retried EXCEPT ![c] = 0]
        /\ pos' = [pos EXCEPT ![i] = @ + 1]
        /\ UNCHANGED <<batch, marked, aborts, zombies, due, outboxVars, dbVars>>

\* Mutant: the row is stamped after its first copy.
MarkPublishedEarly(i) ==
    \E r \in RowId :
        /\ InHand(i, r)
        /\ pos[i] = 1
        /\ marked' = [marked EXCEPT ![i] = @ \cup {r}]
        /\ pos' = [pos EXCEPT ![i] = 0]
        /\ UNCHANGED <<batch, aborts, outboxVars, asynqVars, dbVars>>

\* markPublished, only once every copy of the row is enqueued. The UPDATE is
\* part of the open transaction: nobody sees it before CommitTick.
MarkPublished(i) ==
    \E r \in RowId :
        /\ InHand(i, r)
        /\ pos[i] = Len(QueuesFor[rowKey[r]])
        /\ marked' = [marked EXCEPT ![i] = @ \cup {r}]
        /\ pos' = [pos EXCEPT ![i] = 0]
        /\ UNCHANGED <<batch, aborts, outboxVars, asynqVars, dbVars>>

CommitTick(i) ==
    /\ batch[i] # {}
    /\ marked[i] = batch[i]
    /\ rowState' = [r \in RowId |-> IF r \in marked[i] THEN "published" ELSE rowState[r]]
    /\ batch' = [batch EXCEPT ![i] = {}]
    /\ marked' = [marked EXCEPT ![i] = {}]
    /\ pos' = [pos EXCEPT ![i] = 0]
    /\ UNCHANGED <<aborts, nextId, rowKey, txRows, asynqVars, dbVars>>

\* An enqueue, UPDATE or COMMIT fails, or the replica dies: the transaction
\* rolls back and its locks go, the tasks already enqueued stay.
AbortTick(i) ==
    /\ batch[i] # {}
    /\ aborts < MaxAborts
    /\ aborts' = aborts + 1
    /\ batch' = [batch EXCEPT ![i] = {}]
    /\ marked' = [marked EXCEPT ![i] = {}]
    /\ pos' = [pos EXCEPT ![i] = 0]
    /\ UNCHANGED <<outboxVars, asynqVars, dbVars>>
-----------------------------------------------------------------------------
(* asynq and the consumer.                                                 *)

\* process_at passes on the wall clock.
Elapse(k) ==
    /\ k \in Scheduled \ due
    /\ due' = due \cup {k}
    /\ UNCHANGED <<task, retried, zombies, outboxVars, relayVars, dbVars>>

Move(c, from, to) ==
    /\ task[c] = from
    /\ task' = [task EXCEPT ![c] = to]

\* The asynq forwarder: a scheduled task whose time has come, or a retry whose
\* backoff is over, becomes pending.
Forward(c) ==
    /\ \/ Move(c, "scheduled", "pending") /\ c[1] \in due
       \/ Move(c, "retry", "pending")
    /\ UNCHANGED <<retried, zombies, due, outboxVars, relayVars, dbVars>>

Start(c) ==
    /\ Move(c, "pending", "active")
    /\ UNCHANGED <<retried, zombies, due, outboxVars, relayVars, dbVars>>

\* Mutant: the effect is applied without looking at RowsAffected.
SeenOrMarkBlind(c) ==
    /\ processed' = processed \cup {c}
    /\ effects' = [effects EXCEPT ![c] = @ + 1]

\* The handler's transaction: INSERT INTO processed_event ... ON CONFLICT DO
\* NOTHING, then the effect only when the insert won. Both commit together.
SeenOrMark(c) ==
    /\ processed' = processed \cup {c}
    /\ effects' = IF c \in processed THEN effects ELSE [effects EXCEPT ![c] = @ + 1]

\* The handler commits and returns nil; asynq has not deleted the task yet.
HandlerCommits(c) ==
    /\ Move(c, "active", "acking")
    /\ SeenOrMark(c)
    /\ UNCHANGED <<retried, zombies, due, outboxVars, relayVars>>

Ack(c) ==
    /\ Move(c, "acking", "none")
    /\ UNCHANGED <<retried, zombies, due, outboxVars, relayVars, dbVars>>

\* Mutant: one attempt more than the budget.
FailAttemptOnceMore(c) ==
    IF retried[c] <= MaxRetry
    THEN /\ task' = [task EXCEPT ![c] = "retry"]
         /\ retried' = [retried EXCEPT ![c] = @ + 1]
    ELSE /\ task' = [task EXCEPT ![c] = "archived"]
         /\ UNCHANGED retried

\* asynq's bookkeeping of a failed attempt: back off while the budget lasts,
\* archive when it is spent.
FailAttempt(c) ==
    IF retried[c] < MaxRetry
    THEN /\ task' = [task EXCEPT ![c] = "retry"]
         /\ retried' = [retried EXCEPT ![c] = @ + 1]
    ELSE /\ task' = [task EXCEPT ![c] = "archived"]
         /\ UNCHANGED retried

\* Mutant: the listener swallows the error and asynq deletes the task.
HandlerFailsSilently(c) ==
    /\ Move(c, "active", "none")
    /\ UNCHANGED <<retried, zombies, due, outboxVars, relayVars, dbVars>>

\* The handler's transaction rolls back with a retryable error.
HandlerFails(c) ==
    /\ task[c] = "active"
    /\ FailAttempt(c)
    /\ UNCHANGED <<zombies, due, outboxVars, relayVars, dbVars>>

\* A decode fault or a terminal domain error is wrapped in asynq.SkipRetry.
HandlerSkipsRetry(c) ==
    /\ Move(c, "active", "archived")
    /\ UNCHANGED <<retried, zombies, due, outboxVars, relayVars, dbVars>>

\* The worker dies, before or after its commit, and the lease runs out.
WorkerCrash(c) ==
    /\ task[c] \in {"active", "acking"}
    /\ FailAttempt(c)
    /\ UNCHANGED <<zombies, due, outboxVars, relayVars, dbVars>>

\* The attempt times out or its lease is lost while the handler keeps running:
\* the task goes on without it and the old execution may still commit.
Abandon(c) ==
    /\ task[c] = "active"
    /\ zombies[c] < MaxZombies
    /\ zombies' = [zombies EXCEPT ![c] = @ + 1]
    /\ FailAttempt(c)
    /\ UNCHANGED <<due, outboxVars, relayVars, dbVars>>

ZombieEnds(c) ==
    /\ zombies[c] > 0
    /\ zombies' = [zombies EXCEPT ![c] = @ - 1]
    /\ SeenOrMark(c) \/ UNCHANGED dbVars
    /\ UNCHANGED <<task, retried, due, outboxVars, relayVars>>
-----------------------------------------------------------------------------
ProducerStep ==
    \E p \in Producer : (\E k \in Event : Publish(p, k)) \/ CommitTx(p) \/ RollbackTx(p)

RelayStep(i) == readPending(i) \/ Enqueue(i) \/ MarkPublished(i) \/ CommitTick(i)

Handle(c) ==
    \/ Forward(c) \/ Start(c) \/ HandlerCommits(c) \/ Ack(c)
    \/ HandlerFails(c) \/ HandlerSkipsRetry(c)

Fault(c) == WorkerCrash(c) \/ Abandon(c) \/ ZombieEnds(c)

Next ==
    \/ ProducerStep
    \/ \E i \in Relay : RelayStep(i) \/ AbortTick(i)
    \/ \E k \in Event : Elapse(k)
    \/ \E c \in Copy : Handle(c) \/ Fault(c)

\* The relay loop ticks for ever, asynq keeps forwarding and dispatching, time
\* passes. Producers, faults and aborts are under no obligation.
Fairness ==
    /\ \A i \in Relay : WF_vars(RelayStep(i))
    /\ \A k \in Event : WF_vars(Elapse(k))
    /\ \A c \in Copy : WF_vars(Handle(c))

Spec == Init /\ [][Next]_vars

FairSpec == Spec /\ Fairness
-----------------------------------------------------------------------------
\* Rows, tasks and marks have their kinds; above all no task is attempted more
\* than maxRetryFor allows, whatever mix of errors, crashes and lost leases its
\* attempts meet.
TypeOK ==
    /\ nextId \in Nat \ {0}
    /\ rowState \in [RowId -> {"free", "open", "void", "unpublished", "published"}]
    /\ rowKey \in [RowId -> Event]
    /\ txRows \in [Producer -> SUBSET RowId]
    /\ batch \in [Relay -> SUBSET RowId]
    /\ marked \in [Relay -> SUBSET RowId]
    /\ pos \in [Relay -> Nat]
    /\ aborts \in Nat
    /\ task \in [Copy -> TaskState]
    /\ retried \in [Copy -> 0..MaxRetry]
    /\ zombies \in [Copy -> Nat]
    /\ due \subseteq Scheduled
    /\ processed \subseteq Copy
    /\ effects \in [Copy -> Nat]

\* A copy of an event that asynq holds, or that its consumer has applied.
Accounted(c) == task[c] # "none" \/ c \in processed

\* However often a row is republished, a task retried or an abandoned handler
\* finishes late, each consumer commits the effect of an event at most once
\* (Dedup.SeenOrMark in the transaction of the effect).
EffectAtMostOnce == \A c \in Copy : effects[c] <= 1

\* A row is stamped published_at only when nothing of it can be lost: every
\* destination queue still holds its task (archived included) or its consumer
\* has applied it -- also when the enqueue was answered by a TaskID conflict.
PublishedNeverLost ==
    \A r \in RowId : rowState[r] = "published" =>
        \A q \in Destinations(rowKey[r]) : Accounted(<<rowKey[r], q>>)

\* FOR UPDATE SKIP LOCKED keeps two replicas off the same row, and a replica
\* never holds a row that someone has already published.
ReplicasDisjoint ==
    /\ \A i, j \in Relay : i # j => batch[i] \cap batch[j] = {}
    /\ \A i \in Relay : \A r \in batch[i] : rowState[r] = "unpublished"

\* An event with an ETA is never applied before its process_at.
NeverEarly == \A c \in Copy : c[1] \in Scheduled \ due => effects[c] = 0

\* Every committed row reaches each of its consumers or its archive, whatever
\* ids the transactions took and in whatever order they committed.
EventuallyDelivered ==
    \A r \in RowId : \A k \in Event :
        rowState[r] = "unpublished" /\ rowKey[r] = k ~>
            \A q \in Destinations(k) :
                <<k, q>> \in processed \/ task[<<k, q>>] = "archived"
-----------------------------------------------------------------------------
(* The inductive invariant behind the safety properties.                   *)

\* Every destination of row r is accounted for.
Delivered(r) == \A q \in Destinations(rowKey[r]) : Accounted(<<rowKey[r], q>>)

\* Ids not yet taken are free; the rows of an open transaction are its own.
TxInv ==
    /\ \A r \in RowId : r >= nextId => rowState[r] = "free"
    /\ \A p \in Producer : \A r \in txRows[p] : rowState[r] = "open"
    /\ \A p, o \in Producer : p # o => txRows[p] \cap txRows[o] = {}

\* What a replica has done inside its open transaction holds outside it.
RelayInv ==
    \A i \in Relay :
        /\ marked[i] \subseteq batch[i]
        /\ \A r \in marked[i] : Delivered(r)
        /\ \A r \in RowId : InHand(i, r) =>
              \A j \in 1..Len(QueuesFor[rowKey[r]]) :
                  j <= pos[i] => Accounted(<<rowKey[r], QueuesFor[rowKey[r]][j]>>)

\* processed_event tells exactly which effects were committed, and only a
\* copy that is in it can be on its way to deletion.
DedupInv ==
    \A c \in Copy :
        /\ effects[c] = IF c \in processed THEN 1 ELSE 0
        /\ task[c] = "acking" => c \in processed

\* Before its time a scheduled copy has not been handed to a worker.
EtaInv ==
    \A c \in Copy : c[1] \in Scheduled \ due =>
        task[c] \in {"none", "scheduled"} /\ zombies[c] = 0 /\ c \notin processed

IInv ==
    /\ TypeOK
    /\ TxInv
    /\ ReplicasDisjoint
    /\ RelayInv
    /\ DedupInv
    /\ EtaInv
    /\ PublishedNeverLost
=============================================================================
