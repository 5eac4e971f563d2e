--------------------------- MODULE PieceGeneration ---------------------------
(***************************************************************************)
(* The generation saga of one piece (internal/draft): the API triggers a   *)
(* generation, the AI worker writes the text, and the API reviews a text   *)
(* that exists.  Triggering and reviewing read the saga in a transaction   *)
(* or a phase of their own and write it later without a guard, so several  *)
(* requests, and several generations, may be under way at once.            *)
(***************************************************************************)
EXTENDS TaskDelivery, FiniteSets

CONSTANTS
    Request,  \* concurrent API requests
    Worker,   \* executions the AI server can run at once
    MaxGenerations \* bound: generations requested

GenerationAssumptions == MaxGenerations \in Nat

VARIABLES
    saga,      \* draft.saga_state
    content,   \* the piece has a text
    request,   \* what each API request that passed its reads will write
    requested, \* draft.generation_requested events so far
    task,      \* the task of each of them
    seen,      \* processed_event of consumer draft_ai
    exec,      \* running executions of OnGenerationRequested
    reviews,   \* review rows: of which text they are, or of a failure
    generated, \* draft.generated events so far
    faults, crashes, lapses

bounds == <<faults, crashes, lapses>>
vars   == <<saga, content, request, requested, task, seen, exec, reviews, generated, bounds>>

Saga == {"CREATED", "EXTRACTING", "DRAFTED", "REVIEWED", "FAILED"}

Event == 1..MaxGenerations

Idle == [pc |-> "idle"]
Exec == {Idle} \cup [pc : {"load", "generate", "persist", "fail"}, of : Event, zombie : BOOLEAN]

Init ==
    /\ saga = "CREATED"
    /\ content = FALSE
    /\ request = [r \in Request |-> "none"]
    /\ requested = 0
    /\ task = [e \in Event |-> NoTask]
    /\ seen = {}
    /\ exec = [w \in Worker |-> Idle]
    /\ reviews = {}
    /\ generated = 0
    /\ faults = 0 /\ crashes = 0 /\ lapses = 0

Fault == faults < MaxFaults /\ faults' = faults + 1 /\ UNCHANGED <<crashes, lapses>>
NoFault == UNCHANGED bounds
-----------------------------------------------------------------------------
(* The API.                                                                *)

\* TriggerGeneration reads the piece: only EXTRACTING refuses.
TriggerReads(r) ==
    /\ request[r] = "none"
    /\ saga # "EXTRACTING"
    /\ request' = [request EXCEPT ![r] = "trigger"]
    /\ UNCHANGED <<saga, content, requested, task, seen, exec, reviews, generated, bounds>>

\* ... and commits EXTRACTING, whatever the saga is by now, with the event.
TriggerWrites(r) ==
    /\ request[r] = "trigger"
    /\ requested < MaxGenerations
    /\ request' = [request EXCEPT ![r] = "none"]
    /\ saga' = "EXTRACTING"
    /\ requested' = requested + 1
    /\ task' = [task EXCEPT ![requested + 1].state = "queued"]
    /\ UNCHANGED <<content, seen, exec, reviews, generated, bounds>>

\* ReviewDraft reads a piece with a text that is not being generated.
ReviewReads(r) ==
    /\ request[r] = "none"
    /\ content
    /\ saga # "EXTRACTING"
    /\ request' = [request EXCEPT ![r] = "review"]
    /\ UNCHANGED <<saga, content, requested, task, seen, exec, reviews, generated, bounds>>

\* Its third phase, after the model answered: the review and REVIEWED.
ReviewWrites(r) ==
    /\ request[r] = "review"
    /\ request' = [request EXCEPT ![r] = "none"]
    /\ saga' = "REVIEWED"
    /\ reviews' = reviews \cup {"completed"}
    /\ UNCHANGED <<content, requested, task, seen, exec, generated, bounds>>

\* The model or the database fails: the piece stays as it is.
RequestFails(r) ==
    /\ request[r] # "none"
    /\ request' = [request EXCEPT ![r] = "none"]
    /\ UNCHANGED <<saga, content, requested, task, seen, exec, reviews, generated, bounds>>
-----------------------------------------------------------------------------
(* The queue of the AI worker.                                             *)

Return(w, cause) ==
    /\ exec' = [exec EXCEPT ![w] = Idle]
    /\ task' = IF exec[w].zombie THEN task
               ELSE [task EXCEPT ![exec[w].of] = Answered(@, cause)]

Goto(w, pc) == exec' = [exec EXCEPT ![w].pc = pc] /\ UNCHANGED task

Take(w, e) ==
    /\ exec[w] = Idle
    /\ task[e].state = "queued"
    /\ task' = [task EXCEPT ![e].state = "running"]
    /\ exec' = [exec EXCEPT ![w] = [pc |-> "load", of |-> e, zombie |-> FALSE]]
    /\ UNCHANGED <<saga, content, request, requested, seen, reviews, generated, bounds>>

\* The process dies; the recoverer hands the task out again.
Crash(w) ==
    /\ exec[w] # Idle
    /\ crashes < MaxCrashes
    /\ crashes' = crashes + 1
    /\ Return(w, "transient")
    /\ UNCHANGED <<saga, content, request, requested, seen, reviews, generated, faults, lapses>>

\* The lease expires under a slow generation: the task is retried beside it.
LeaseExpires(w) ==
    /\ exec[w] # Idle
    /\ ~exec[w].zombie
    /\ lapses < MaxLapses
    /\ lapses' = lapses + 1
    /\ task' = [task EXCEPT ![exec[w].of] = Retried(@)]
    /\ exec' = [exec EXCEPT ![w].zombie = TRUE]
    /\ UNCHANGED <<saga, content, request, requested, seen, reviews, generated, faults, crashes>>
-----------------------------------------------------------------------------
(* OnGenerationRequested.                                                  *)

\* Mutant: the dedup mark is committed with the load, before the effect.
LoadStepMarks(w) ==
    LET e == exec[w].of IN
    /\ exec[w].pc = "load"
    /\ seen' = seen \cup {e}
    /\ \/ saga = "EXTRACTING" /\ e \notin seen /\ Goto(w, "generate")
       \/ saga = "EXTRACTING" /\ e \in seen /\ Return(w, "none")
       \/ saga # "EXTRACTING" /\ Return(w, "terminal")
    /\ NoFault
    /\ UNCHANGED <<saga, content, request, requested, reviews, generated>>

\* The read and its guard: an event of a piece that is not EXTRACTING any more
\* is obsolete, which is SkipRetry.
LoadStep(w) ==
    /\ exec[w].pc = "load"
    /\ \/ saga = "EXTRACTING" /\ Goto(w, "generate") /\ NoFault
       \/ saga # "EXTRACTING" /\ Return(w, "terminal") /\ NoFault
       \/ Fault /\ Return(w, "transient")
    /\ UNCHANGED <<saga, content, request, requested, seen, reviews, generated>>

\* Retrieval, prompt and model, with no transaction open. A truncated text is
\* asked for again and then kept; an error is either retried by asynq or final.
GenerateStep(w) ==
    /\ exec[w].pc = "generate"
    /\ \/ Goto(w, "persist") /\ NoFault
       \/ Goto(w, "fail") /\ Fault
       \/ Return(w, "transient") /\ Fault
    /\ UNCHANGED <<saga, content, request, requested, seen, reviews, generated>>

\* The effect: the mark, no reviews, the new text, DRAFTED and draft.generated
\* in one transaction, which a marked event skips.
PersistStep(w) ==
    LET e == exec[w].of IN
    /\ exec[w].pc = "persist"
    /\ \/ /\ e \notin seen
          /\ seen' = seen \cup {e}
          /\ saga' = "DRAFTED"
          /\ content' = TRUE
          /\ reviews' = {}
          /\ generated' = generated + 1
          /\ Return(w, "none")
          /\ NoFault
       \/ /\ \/ e \in seen /\ Return(w, "none") /\ NoFault
             \/ Return(w, "transient") /\ Fault
          /\ UNCHANGED <<saga, content, seen, reviews, generated>>
    /\ UNCHANGED <<request, requested>>

\* persistFailure: the mark, FAILED and a failed review; SkipRetry even when
\* this transaction fails.
FailStep(w) ==
    LET e == exec[w].of IN
    /\ exec[w].pc = "fail"
    /\ Return(w, "terminal")
    /\ \/ /\ e \notin seen
          /\ seen' = seen \cup {e}
          /\ saga' = "FAILED"
          /\ reviews' = reviews \cup {"failed"}
          /\ NoFault
       \/ /\ \/ e \in seen /\ NoFault
             \/ Fault
          /\ UNCHANGED <<saga, seen, reviews>>
    /\ UNCHANGED <<content, request, requested, generated>>
-----------------------------------------------------------------------------
OnGenerationRequested(w) == LoadStep(w) \/ GenerateStep(w) \/ PersistStep(w) \/ FailStep(w)

Next ==
    \/ \E r \in Request : \/ TriggerReads(r) \/ TriggerWrites(r)
                          \/ ReviewReads(r) \/ ReviewWrites(r)
                          \/ RequestFails(r)
    \/ \E w \in Worker : \/ \E e \in Event : Take(w, e)
                         \/ OnGenerationRequested(w)
                         \/ Crash(w)
                         \/ LeaseExpires(w)

Spec == Init /\ [][Next]_vars
-----------------------------------------------------------------------------
(* Properties.                                                             *)

TypeOK ==
    /\ saga \in Saga
    /\ content \in BOOLEAN
    /\ request \in [Request -> {"none", "trigger", "review"}]
    /\ requested \in 0..MaxGenerations
    /\ task \in [Event -> Task]
    /\ seen \subseteq 1..requested
    /\ exec \in [Worker -> Exec]
    /\ reviews \subseteq {"completed", "failed"}
    /\ generated \in 0..requested
    /\ faults \in 0..MaxFaults
    /\ crashes \in 0..MaxCrashes
    /\ lapses \in 0..MaxLapses

\* A piece that is EXTRACTING, which nothing but a generation can take out of
\* that state, is so for a request that had no effect yet and whose task will
\* run again, unless its budget is spent or a call failed (generate.go: marking
\* apart from the effect "would leave the draft stuck in EXTRACTING forever").
ExtractingIsServed ==
    saga = "EXTRACTING" =>
        /\ requested \notin seen
        /\ Live(task[requested]) \/ task[requested].tries = MaxRetry \/ faults > 0
=============================================================================
