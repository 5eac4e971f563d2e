---------------------------- MODULE TaskDelivery ----------------------------
(***************************************************************************)
(* What EventPipeline comes to for one consumer of one event: a published  *)
(* event is one asynq task; the task is run again after an error, a crash  *)
(* or a lost lease until its budget is spent, then archived; SkipRetry     *)
(* archives it at once; an execution whose lease expired runs on as a      *)
(* zombie whose answer is ignored. The modules of the slices keep a record *)
(* of this kind for each of their tasks.                                   *)
(***************************************************************************)
EXTENDS Integers

CONSTANTS
    MaxRetry,   \* asynq's retry budget of a task
    MaxFaults,  \* bound: calls and transactions that fail
    MaxCrashes, \* bound: executions that die with their process
    MaxLapses   \* bound: leases that expire under a running execution

ASSUME DeliveryAssumptions == {MaxRetry, MaxFaults, MaxCrashes, MaxLapses} \subseteq Nat

\* What a handler returns: nil, an error asynq retries, or SkipRetry.
Cause == {"none", "transient", "terminal"}

Task   == [state : {"none", "queued", "running", "done", "archived"}, tries : 0..MaxRetry]
NoTask == [state |-> "none", tries |-> 0]

\* Will run, or runs and will be answered for.
Live(t) == t.state \in {"queued", "running"}

\* Mutant: one attempt more than the budget.
RetriedOnceMore(t) ==
    IF t.tries <= MaxRetry
    THEN [state |-> "queued", tries |-> t.tries + 1]
    ELSE [t EXCEPT !.state = "archived"]

\* asynq gives a failed task back to its queue until the budget is spent.
Retried(t) ==
    IF t.tries < MaxRetry
    THEN [state |-> "queued", tries |-> t.tries + 1]
    ELSE [t EXCEPT !.state = "archived"]

\* What the queue does with the answer of the execution it waits for.
Answered(t, cause) ==
    CASE cause = "none"      -> [t EXCEPT !.state = "done"]
      [] cause = "terminal"  -> [t EXCEPT !.state = "archived"]
      [] cause = "transient" -> Retried(t)
=============================================================================
