---------------------------- MODULE BackfillSync ----------------------------
(***************************************************************************)
(* An onboarding backfill: one backfill_job, one sync_requested task per   *)
(* window (slice), one sync_run per task, one terminal event per run, and  *)
(* the counter that turns off the light.                                   *)
(*                                                                         *)
(* OnSyncRequested is three steps with a slow fetch between two            *)
(* transactions (startRun | Fetch and Parse | applyResult or failRun), so  *)
(* several executions of one slice overlap: asynq gives a task whose lease *)
(* ran out to another worker while the first one goes on, a crash leaves a *)
(* RUNNING run to be resumed, and the relay may enqueue a task again.      *)
(***************************************************************************)
EXTENDS Integers, Sequences, FiniteSets

CONSTANTS
    Slice,        \* buildSyncWindows: the windows of the horizon
    TotalSlices,  \* calculateSlices: the total_slices column
    Worker,       \* goroutines that can run OnSyncRequested
    MaxRetry,     \* maxRetryFor("acquisition.*")
    MaxRepublish  \* bound: tasks the relay enqueues again after their ack

\* The second conjunct is what SlicesAreCounted proves of the window arithmetic.
ASSUME BackfillAssumptions ==
    /\ IsFiniteSet(Slice)
    /\ TotalSlices = Cardinality(Slice)
    /\ MaxRetry \in Nat
    /\ MaxRepublish \in Nat

VARIABLES
    status,      \* backfill_job.status, "NONE" before the row exists
    slicesOK,    \* backfill_job.slices_ok
    slicesError, \* backfill_job.slices_error
    finished,    \* backfill_finished events published
    task,        \* asynq state of each slice's sync_requested
    retried,     \* its retry count
    republished, \* tasks enqueued again so far
    run,         \* sync_run.status of each slice, "none" before startRun
    pc,          \* where each execution of OnSyncRequested is
    at,          \* the slice it works on
    lastTry,     \* GetRetryCount = GetMaxRetry when it was dispatched
    holds,       \* asynq still waits for this execution's answer
    sent,        \* terminal events published per slice, in order
    counted,     \* processed_event of consumerBackfillCounter
    dropped      \* terminal events archived by the sync_status server

jobVars  == <<status, slicesOK, slicesError, finished>>
taskVars == <<task, retried, republished>>
execVars == <<pc, at, lastTry, holds>>
evVars   == <<sent, counted, dropped>>
vars     == <<jobVars, taskVars, run, execVars, evVars>>

Outcome == {"sync_completed", "sync_failed"}

Phase == {"idle", "begin", "open", "parsed", "failing", "rejecting", "ack", "skip"}

Init ==
    /\ status = "NONE"
    /\ slicesOK = 0
    /\ slicesError = 0
    /\ finished = 0
    /\ task = [s \in Slice |-> "none"]
    /\ retried = [s \in Slice |-> 0]
    /\ republished = 0
    /\ run = [s \in Slice |-> "none"]
    /\ pc = [w \in Worker |-> "idle"]
    /\ at \in [Worker -> Slice]
    /\ lastTry = [w \in Worker |-> FALSE]
    /\ holds = [w \in Worker |-> FALSE]
    /\ sent = [s \in Slice |-> <<>>]
    /\ counted = {}
    /\ dropped = {}
-----------------------------------------------------------------------------
\* createBackfillForScope: the job row and every slice's event in one
\* transaction; a horizon of zero slices lands COMPLETED.
CreateBackfill ==
    /\ status = "NONE"
    /\ status' = IF TotalSlices = 0 THEN "COMPLETED" ELSE "RUNNING"
    /\ task' = [s \in Slice |-> "pending"]
    /\ UNCHANGED <<slicesOK, slicesError, finished, retried, republished, run, execVars, evVars>>

\* asynq hands a pending task to an idle worker.
Dispatch(w, s) ==
    /\ pc[w] = "idle"
    /\ task[s] = "pending"
    /\ task' = [task EXCEPT ![s] = "active"]
    /\ pc' = [pc EXCEPT ![w] = "begin"]
    /\ at' = [at EXCEPT ![w] = s]
    /\ lastTry' = [lastTry EXCEPT ![w] = retried[s] = MaxRetry]
    /\ holds' = [holds EXCEPT ![w] = TRUE]
    /\ UNCHANGED <<jobVars, retried, republished, run, evVars>>

Goto(w, phase) == pc' = [pc EXCEPT ![w] = phase]

\* Mutant: a marked event is always a no-op, whatever its run's status.
resolveSeenRunBlind(s) == FALSE

\* A re-delivery resumes the run only if a dead attempt left it RUNNING.
resolveSeenRun(s) == run[s] = "RUNNING"

\* UoW-1: the dedup mark and the RUNNING row commit together, so "marked" is
\* run[s] # "none".
startRun(w) ==
    LET s == at[w] IN
    /\ pc[w] = "begin"
    /\ \/ /\ run[s] = "none"
          /\ run' = [run EXCEPT ![s] = "RUNNING"]
          /\ Goto(w, "open")
       \/ /\ run[s] # "none"
          /\ Goto(w, IF resolveSeenRun(s) THEN "open" ELSE "ack")
          /\ UNCHANGED run
    /\ UNCHANGED <<jobVars, taskVars, at, lastTry, holds, evVars>>

\* The execution returns. Only the one asynq waits for moves the task.
Return(w) ==
    /\ Goto(w, "idle")
    /\ holds' = [holds EXCEPT ![w] = FALSE]
    /\ UNCHANGED <<at, lastTry>>

\* asynq's bookkeeping of a failed attempt of slice s.
FailAttempt(s) ==
    IF retried[s] < MaxRetry
    THEN /\ task' = [task EXCEPT ![s] = "pending"]
         /\ retried' = [retried EXCEPT ![s] = @ + 1]
    ELSE /\ task' = [task EXCEPT ![s] = "archived"]
         /\ UNCHANGED retried

ReturnError(w) ==
    /\ Return(w)
    /\ IF holds[w] THEN FailAttempt(at[w]) ELSE UNCHANGED <<task, retried>>

\* Fetch and Parse, outside any transaction. A fetch fault is retried while
\* the budget lasts and closes the run on the last try; a parse fault rejects.
FetchAndParse(w) ==
    /\ pc[w] = "open"
    /\ \/ /\ \/ Goto(w, "parsed")
             \/ Goto(w, "rejecting")
             \/ lastTry[w] /\ Goto(w, "failing")
          /\ UNCHANGED <<at, lastTry, holds, task, retried>>
       \/ ~lastTry[w] /\ ReturnError(w)
    /\ UNCHANGED <<jobVars, republished, run, evVars>>

\* Mutant: UPDATE sync_run without the status = 'RUNNING' guard.
UpdateSyncRunBlind(s, to, event) ==
    /\ run' = [run EXCEPT ![s] = to]
    /\ sent' = [sent EXCEPT ![s] = Append(@, event)]

\* UpdateSyncRun closes only from RUNNING, and only the execution whose CAS
\* won publishes the terminal event, in the same transaction.
UpdateSyncRun(s, to, event) ==
    IF run[s] = "RUNNING"
    THEN /\ run' = [run EXCEPT ![s] = to]
         /\ sent' = [sent EXCEPT ![s] = Append(@, event)]
    ELSE UNCHANGED <<run, sent>>

\* UoW-2 of a success: the upserts are idempotent, then the close.
applyResult(w) ==
    /\ pc[w] = "parsed"
    /\ UpdateSyncRun(at[w], "OK", "sync_completed")
    /\ Goto(w, "ack")
    /\ UNCHANGED <<jobVars, taskVars, at, lastTry, holds, counted, dropped>>

\* UoW-2 of a fault; a fetch fault is then acked, a parse fault SkipRetry'd.
failRun(w) ==
    /\ pc[w] \in {"failing", "rejecting"}
    /\ UpdateSyncRun(at[w], "FAILED", "sync_failed")
    /\ Goto(w, IF pc[w] = "failing" THEN "ack" ELSE "skip")
    /\ UNCHANGED <<jobVars, taskVars, at, lastTry, holds, counted, dropped>>

\* nil deletes the task, SkipRetry archives it.
Answer(w) ==
    /\ pc[w] \in {"ack", "skip"}
    /\ Return(w)
    /\ task' = IF holds[w]
               THEN [task EXCEPT ![at[w]] = IF pc[w] = "ack" THEN "done" ELSE "archived"]
               ELSE task
    /\ UNCHANGED <<jobVars, retried, republished, run, evVars>>

\* A database or connector error, or the process dies: nothing of the open
\* transaction survives and asynq counts a failed attempt.
Fault(w) ==
    /\ pc[w] # "idle"
    /\ ReturnError(w)
    /\ UNCHANGED <<jobVars, republished, run, evVars>>

\* The lease runs out under a live execution, which goes on unheard.
LoseLease(w) ==
    /\ pc[w] # "idle"
    /\ holds[w]
    /\ holds' = [holds EXCEPT ![w] = FALSE]
    /\ FailAttempt(at[w])
    /\ UNCHANGED <<jobVars, republished, run, pc, at, lastTry, evVars>>

\* A relay tick that failed after the enqueue offers the row again once the
\* finished task is deleted.
Republish(s) ==
    /\ task[s] = "done"
    /\ republished < MaxRepublish
    /\ republished' = republished + 1
    /\ task' = [task EXCEPT ![s] = "pending"]
    /\ retried' = [retried EXCEPT ![s] = 0]
    /\ UNCHANGED <<jobVars, run, execVars, evVars>>
-----------------------------------------------------------------------------
(* The counter, on the sync_status server.                                 *)

\* The close events of all slices: <<s, n>> is the n-th one of slice s.
CloseEvent == {e \in Slice \X (1..2) : e[2] <= Len(sent[e[1]])}

\* IncrementBackfillSlicesOK / Error, then finalizeIfComplete on the tallies
\* read back under the same row lock.
incrementSlice(e) ==
    IF sent[e[1]][e[2]] = "sync_completed"
    THEN slicesOK' = slicesOK + 1 /\ UNCHANGED slicesError
    ELSE slicesError' = slicesError + 1 /\ UNCHANGED slicesOK

\* Mutant: the status guard is gone and >= replaces =.
finalizeIfCompleteLoose ==
    IF slicesOK' + slicesError' + 1 >= TotalSlices
    THEN /\ status' = IF slicesError' > 0 THEN "PARTIAL" ELSE "COMPLETED"
         /\ finished' = finished + 1
    ELSE UNCHANGED <<status, finished>>

finalizeIfComplete ==
    IF slicesOK' + slicesError' = TotalSlices /\ status = "RUNNING"
    THEN /\ status' = IF slicesError' > 0 THEN "PARTIAL" ELSE "COMPLETED"
         /\ finished' = finished + 1
    ELSE UNCHANGED <<status, finished>>

\* Mutant: the terminal event is counted without a dedup mark.
onSliceClosedBlind(e) ==
    /\ e \in CloseEvent \ dropped
    /\ incrementSlice(e)
    /\ finalizeIfComplete
    /\ counted' = counted \cup {e}
    /\ UNCHANGED <<taskVars, run, execVars, sent, dropped>>

\* Delivered any number of times; the mark, the bump and the finalization are
\* one transaction.
onSliceClosed(e) ==
    /\ e \in CloseEvent \ dropped
    /\ IF e \in counted
       THEN UNCHANGED <<jobVars, counted>>
       ELSE /\ incrementSlice(e)
            /\ finalizeIfComplete
            /\ counted' = counted \cup {e}
    /\ UNCHANGED <<taskVars, run, execVars, sent, dropped>>

\* The counter's handler fails until asynq archives its task.
DropClose(e) ==
    /\ e \in CloseEvent \ (counted \cup dropped)
    /\ dropped' = dropped \cup {e}
    /\ UNCHANGED <<jobVars, taskVars, run, execVars, sent, counted>>
-----------------------------------------------------------------------------
Sync(w) == startRun(w) \/ FetchAndParse(w) \/ applyResult(w) \/ failRun(w) \/ Answer(w)

Next ==
    \/ CreateBackfill
    \/ \E w \in Worker : Sync(w) \/ Fault(w) \/ LoseLease(w)
    \/ \E w \in Worker, s \in Slice : Dispatch(w, s)
    \/ \E s \in Slice : Republish(s)
    \/ \E e \in Slice \X (1..2) : onSliceClosed(e) \/ DropClose(e)

\* asynq dispatches what is pending, executions return (the fetch has a
\* timeout), delivered events reach the counter. Faults owe nothing.
Fairness ==
    /\ \A w \in Worker : WF_vars(Sync(w))
    /\ WF_vars(\E w \in Worker, s \in Slice : Dispatch(w, s))
    /\ \A e \in Slice \X (1..2) : WF_vars(onSliceClosed(e))

Spec == Init /\ [][Next]_vars

FairSpec == Spec /\ Fairness
-----------------------------------------------------------------------------
\* The columns hold what their CHECKs allow; above all the tallies of the job
\* stay within total_slices however often a terminal event is delivered.
TypeOK ==
    /\ status \in {"NONE", "RUNNING", "COMPLETED", "PARTIAL"}
    /\ slicesOK \in 0..TotalSlices
    /\ slicesError \in 0..TotalSlices
    /\ finished \in Nat
    /\ task \in [Slice -> {"none", "pending", "active", "done", "archived"}]
    /\ retried \in [Slice -> 0..MaxRetry]
    /\ republished \in 0..MaxRepublish
    /\ run \in [Slice -> {"none", "RUNNING", "OK", "FAILED"}]
    /\ pc \in [Worker -> Phase]
    /\ at \in [Worker -> Slice]
    /\ lastTry \in [Worker -> BOOLEAN]
    /\ holds \in [Worker -> BOOLEAN]
    /\ sent \in [Slice -> Seq(Outcome)]
    /\ counted \subseteq Slice \X (1..2)
    /\ dropped \subseteq Slice \X (1..2)

\* However many executions of a slice overlap, resume or repeat, its run is
\* closed once and exactly the execution that closed it published, so the
\* terminal event is unique and agrees with sync_run.status (sync.go: the CAS
\* of UpdateSyncRun).
ClosesOnce ==
    \A s \in Slice :
        sent[s] = CASE run[s] = "OK" -> <<"sync_completed">>
                    [] run[s] = "FAILED" -> <<"sync_failed">>
                    [] OTHER -> <<>>

\* A finished job has heard from every slice and says truthfully whether one
\* of them failed; backfill_finished was published exactly once, and never
\* for a job that is still importing (backfill.go: finalizeIfComplete).
FinishedIsComplete ==
    /\ finished = IF status \in {"COMPLETED", "PARTIAL"} /\ TotalSlices > 0 THEN 1 ELSE 0
    /\ status \in {"COMPLETED", "PARTIAL"} =>
          /\ \A s \in Slice : run[s] \in {"OK", "FAILED"}
          /\ status = "PARTIAL" <=> \E s \in Slice : run[s] = "FAILED"

\* Once terminal, the job and its tallies never move again: no late delivery
\* reopens, recounts or re-finalizes it.
TerminalIsFinal ==
    [][(status \in {"COMPLETED", "PARTIAL"}) => UNCHANGED jobVars]_vars

\* A job is never RUNNING with nothing left to do: a slice it has not counted is
\* queued, or run by an execution asynq waits for, or its terminal event is still
\* to be counted, or its task was archived with the run open (sync.go: a mark
\* without a close is resumed; backfill.go: the last close finalizes).
RunningHasWork ==
    status = "RUNNING" =>
        \E s \in Slice :
            \/ task[s] = "pending"
            \/ \E w \in Worker : holds[w] /\ at[w] = s
            \/ sent[s] # <<>> /\ <<s, 1>> \notin counted
            \/ task[s] = "archived" /\ sent[s] = <<>>

\* What the owner reads of an import is true: finished, every slice is in and
\* the verdict is theirs; running, something of it is still on its way.
StatusTellsTruth == FinishedIsComplete /\ RunningHasWork

\* Every backfill reaches COMPLETED or PARTIAL, whatever workers do, unless a
\* task was archived before its run closed or a terminal event was archived
\* unread: a dead attempt's RUNNING run is always resumed.
JobSettles ==
    status = "RUNNING" ~>
        \/ status \in {"COMPLETED", "PARTIAL"}
        \/ \E s \in Slice : task[s] = "archived" /\ sent[s] = <<>>
        \/ dropped # {}
-----------------------------------------------------------------------------
(* What makes the properties above inductive.                              *)

\* The slices whose close with this outcome the counter has seen.
Heard(outcome) == {s \in Slice : <<s, 1>> \in counted /\ run[s] = outcome}

\* Only real closes are marked, and the tallies count them.
TallyInv ==
    /\ \A e \in counted : e[2] = 1 /\ run[e[1]] \in {"OK", "FAILED"}
    /\ slicesOK = Cardinality(Heard("OK"))
    /\ slicesError = Cardinality(Heard("FAILED"))

\* A terminal status was decided on tallies that add up to total_slices.
FinishInv ==
    /\ finished = IF status \in {"COMPLETED", "PARTIAL"} /\ TotalSlices > 0 THEN 1 ELSE 0
    /\ status \in {"COMPLETED", "PARTIAL"} =>
          /\ slicesOK + slicesError = TotalSlices
          /\ status = "PARTIAL" <=> slicesError > 0

IInv == TypeOK /\ ClosesOnce /\ TallyInv /\ FinishInv
=============================================================================
