-------------------------- MODULE EnrichmentBatch --------------------------
(***************************************************************************)
(* The DATAJUD batch enrichment of one tenant: self-re-enqueuing steps     *)
(* enrich-batch:{job}:{court}:{pass}. A window of an import discovers      *)
(* court records and emits pass 0 of each of its courts; a step scans the  *)
(* court's due records, fetches them outside any transaction, then grades, *)
(* marks, counts and emits the next pass in one transaction; a step that   *)
(* finds nothing due closes the import's ENRICHMENT row when the tenant    *)
(* has nothing due at all.                                                 *)
(*                                                                         *)
(* The writing transactions take the tenant's advisory lock first, so each *)
(* is one action. The relay and asynq are EventPipeline's, reduced to what *)
(* a fixed event id makes of them: a task that still exists (archived too) *)
(* swallows a second row of its id, a finished one does not.               *)
(***************************************************************************)
EXTENDS Integers, FiniteSets

CONSTANTS
    Record,     \* court records below the DATAJUD ceiling
    Window,     \* sync windows of the tenant's imports
    Court,      \* tribunals
    Job,        \* imports (backfill_job)
    WindowOf,   \* the window that discovers each record
    CourtOf,    \* the tribunal of each record
    JobOf,      \* the import of each window
    ScanLimit,  \* enrichmentBatchScanLimit
    MaxPass,    \* bound: passes of one chain
    Worker,     \* goroutines of the enrichment server
    MaxRetry,   \* maxRetryFor("acquisition.*")
    MaxFaults \* bound: attempts that fail or overrun

ASSUME EnrichmentAssumptions ==
    /\ WindowOf \in [Record -> Window]
    /\ CourtOf \in [Record -> Court]
    /\ JobOf \in [Window -> Job]
    /\ IsFiniteSet(Record)
    /\ IsFiniteSet(Window)
    /\ Window # {} /\ Court # {}
    /\ ScanLimit \in Nat \ {0}
    /\ MaxPass \in Nat
    /\ MaxRetry \in Nat
    /\ MaxFaults \in Nat

VARIABLES
    synced,    \* windows whose applyResult committed
    due,       \* records with enrichment_attempted_at IS NULL
    graded,    \* how often each record was graded for each import
    errored,   \* how often each record was a parse error of each import
    rows,      \* unrelayed outbox rows of each step
    task,      \* asynq state of each step's task
    retried,   \* its retry count
    processed, \* processed_event of consumerEnrichmentBatch
    pc,        \* where each execution of a step is
    at,        \* the step it runs
    seen,      \* the due records it scanned
    holds,     \* asynq still waits for its answer
    faults,  \* of them so far
    runStatus, \* capture_run.status of each import's ENRICHMENT row
    updated,   \* capture_run.court_records_updated
    errs       \* capture_run.errors

recVars  == <<synced, due, graded, errored>>
taskVars == <<rows, task, retried, processed>>
execVars == <<pc, at, seen, holds, faults>>
rowVars  == <<runStatus, updated, errs>>
vars     == <<recVars, taskVars, execVars, rowVars>>

Step == [job : Job, court : Court, pass : 0..MaxPass]

Found(win) == {r \in Record : WindowOf[r] = win}

AnyStep == CHOOSE e \in Step : TRUE

Init ==
    /\ synced = {}
    /\ due = {}
    /\ graded = [j \in Job |-> [r \in Record |-> 0]]
    /\ errored = [j \in Job |-> [r \in Record |-> 0]]
    /\ rows = [e \in Step |-> 0]
    /\ task = [e \in Step |-> "none"]
    /\ retried = [e \in Step |-> 0]
    /\ processed = {}
    /\ pc = [w \in Worker |-> "idle"]
    /\ at = [w \in Worker |-> AnyStep]
    /\ seen = [w \in Worker |-> {}]
    /\ holds = [w \in Worker |-> FALSE]
    /\ faults = 0
    /\ runStatus = [j \in Job |-> "none"]
    /\ updated = [j \in Job |-> 0]
    /\ errs = [j \in Job |-> 0]
-----------------------------------------------------------------------------
\* newEnrichmentBatchRequested: every window that sees a court emits the same
\* event id, pass 0.
firstStep(j, c) == [job |-> j, court |-> c, pass |-> 0]

nextEnrichmentBatchStep(e) == [e EXCEPT !.pass = @ + 1]

\* publishObserved of a backfill window: its records become due and one first
\* step per distinct court is published in the same transaction.
DiscoverWindow(win) ==
    /\ win \notin synced
    /\ synced' = synced \cup {win}
    /\ due' = due \cup Found(win)
    /\ rows' = [e \in Step |->
                  IF \E r \in Found(win) : e = firstStep(JobOf[win], CourtOf[r])
                  THEN rows[e] + 1 ELSE rows[e]]
    /\ UNCHANGED <<graded, errored, task, retried, processed, execVars, rowVars>>

\* The relay: TaskID conflict with an existing task counts as delivered.
RelayStep(e) ==
    /\ rows[e] > 0
    /\ rows' = [rows EXCEPT ![e] = @ - 1]
    /\ IF task[e] = "none"
       THEN /\ task' = [task EXCEPT ![e] = "pending"]
            /\ retried' = [retried EXCEPT ![e] = 0]
       ELSE UNCHANGED <<task, retried>>
    /\ UNCHANGED <<recVars, processed, execVars, rowVars>>

Dispatch(w, e) ==
    /\ pc[w] = "idle"
    /\ task[e] = "pending"
    /\ task' = [task EXCEPT ![e] = "active"]
    /\ pc' = [pc EXCEPT ![w] = "scan"]
    /\ at' = [at EXCEPT ![w] = e]
    /\ holds' = [holds EXCEPT ![w] = TRUE]
    /\ UNCHANGED <<recVars, rows, retried, processed, seen, faults, rowVars>>
-----------------------------------------------------------------------------
Goto(w, phase) == pc' = [pc EXCEPT ![w] = phase]

DueOf(c) == {r \in due : CourtOf[r] = c}

\* Mutant: the step is marked processed already in the scan's transaction.
SelectDueMarkFirst(w) ==
    /\ pc[w] = "scan"
    /\ seen' = [seen EXCEPT ![w] = DueOf(at[w].court)]
    /\ Goto(w, IF DueOf(at[w].court) = {} THEN "close" ELSE "apply")
    /\ processed' = processed \cup {at[w]}
    /\ UNCHANGED <<recVars, rows, task, retried, at, holds, faults, rowVars>>

\* SelectDueForEnrichment, in a transaction of its own: up to ScanLimit due
\* records of the court, whichever import they came from.
SelectDueForEnrichment(w) ==
    /\ pc[w] = "scan"
    /\ \E S \in SUBSET DueOf(at[w].court) :
          /\ \/ S = DueOf(at[w].court)
             \/ Cardinality(S) = ScanLimit
          /\ Cardinality(S) <= ScanLimit
          /\ seen' = [seen EXCEPT ![w] = S]
          /\ Goto(w, IF S = {} THEN "close" ELSE "apply")
    /\ UNCHANGED <<recVars, taskVars, at, holds, faults, rowVars>>

Return(w) ==
    /\ Goto(w, "idle")
    /\ seen' = [seen EXCEPT ![w] = {}]
    /\ holds' = [holds EXCEPT ![w] = FALSE]
    /\ at' = [at EXCEPT ![w] = AnyStep]

CountFault == faults < MaxFaults /\ faults' = faults + 1

FailAttempt(e) ==
    IF retried[e] < MaxRetry
    THEN /\ task' = [task EXCEPT ![e] = "pending"]
         /\ retried' = [retried EXCEPT ![e] = @ + 1]
    ELSE /\ task' = [task EXCEPT ![e] = "archived"]
         /\ UNCHANGED retried

\* Mutant: the step is applied whether or not it was applied before.
SeenOrMarkBlind(e) == FALSE

SeenOrMark(e) == e \in processed

Bump(f, S) == [r \in Record |-> IF r \in S THEN f[r] + 1 ELSE f[r]]

\* MarkEnrichmentAttempted: every scanned record, hit or not.
MarkEnrichmentAttempted(S, hits) == due' = due \ S

\* The next pass is published in the transaction of this one.
Resume(e) == rows' = [rows EXCEPT ![nextEnrichmentBatchStep(e)] = @ + 1]

\* FetchBatch and ParseBatch sort the scanned records into hits, unparseable
\* hits and records DATAJUD does not have; then the one transaction that
\* grades, marks, counts and resumes. A step already processed changes nothing.
applyBatch(w) ==
    LET e == at[w] IN
    /\ pc[w] = "apply"
    /\ IF SeenOrMark(e)
       THEN UNCHANGED <<recVars, rows, processed, rowVars>>
       ELSE \E hits \in SUBSET seen[w] : \E skipped \in SUBSET (seen[w] \ hits) :
              /\ processed' = processed \cup {e}
              /\ MarkEnrichmentAttempted(seen[w], hits)
              /\ graded' = [graded EXCEPT ![e.job] = Bump(@, hits)]
              /\ errored' = [errored EXCEPT ![e.job] = Bump(@, skipped)]
              /\ updated' = [updated EXCEPT ![e.job] = @ + Cardinality(hits)]
              /\ errs' = [errs EXCEPT ![e.job] = @ + Cardinality(skipped)]
              /\ runStatus' =
                    IF hits \cup skipped # {} /\ runStatus[e.job] = "none"
                    THEN [runStatus EXCEPT ![e.job] = "RUNNING"] ELSE runStatus
              /\ Resume(e)
              /\ UNCHANGED synced
    /\ Goto(w, "ack")
    /\ UNCHANGED <<task, retried, at, seen, holds, faults>>

\* CountImportDiscoveredRecords: what the import's windows found.
Discovered(j) == {r \in Record : WindowOf[r] \in synced /\ JobOf[WindowOf[r]] = j}

\* Mutant: coverage decides, not the error count, as older comments have it.
enrichmentTerminalStatusByCoverage(j) ==
    IF updated[j] < Cardinality(Discovered(j)) THEN "PARTIAL" ELSE "OK"

\* Mutant: the job's vocabulary (BackfillStatusCompleted) in the run's column.
enrichmentTerminalStatusOfJob(j) == IF errs[j] > 0 THEN "PARTIAL" ELSE "COMPLETED"

enrichmentTerminalStatus(j) == IF errs[j] > 0 THEN "PARTIAL" ELSE "OK"

\* The remaining count is the tenant's, not the import's. An import with no
\* row gets an honest terminal one, any other is stamped (again).
closeIfImportDrained(w) ==
    LET j == at[w].job IN
    /\ pc[w] = "close"
    /\ runStatus' = IF due # {} THEN runStatus
                    ELSE [runStatus EXCEPT ![j] = enrichmentTerminalStatus(j)]
    /\ Goto(w, "ack")
    /\ UNCHANGED <<recVars, taskVars, at, seen, holds, faults, updated, errs>>

Answer(w) ==
    /\ pc[w] = "ack"
    /\ Return(w)
    /\ task' = IF holds[w] THEN [task EXCEPT ![at[w]] = "none"] ELSE task
    /\ UNCHANGED <<recVars, rows, retried, processed, faults, rowVars>>

\* A fetch fault, a database error or a crash: asynq counts a failed attempt.
Fault(w) ==
    /\ pc[w] # "idle"
    /\ CountFault
    /\ Return(w)
    /\ IF holds[w] THEN FailAttempt(at[w]) ELSE UNCHANGED <<task, retried>>
    /\ UNCHANGED <<recVars, rows, processed, rowVars>>

\* An unparseable envelope: SkipRetry archives the step.
RejectEnvelope(w) ==
    /\ pc[w] = "apply"
    /\ CountFault
    /\ Return(w)
    /\ task' = IF holds[w] THEN [task EXCEPT ![at[w]] = "archived"] ELSE task
    /\ UNCHANGED <<recVars, rows, retried, processed, rowVars>>

\* The lease runs out under a live execution, which goes on unheard.
LoseLease(w) ==
    /\ pc[w] # "idle"
    /\ holds[w]
    /\ CountFault
    /\ holds' = [holds EXCEPT ![w] = FALSE]
    /\ FailAttempt(at[w])
    /\ UNCHANGED <<recVars, rows, processed, pc, at, seen, rowVars>>
-----------------------------------------------------------------------------
RunStep(w) ==
    SelectDueForEnrichment(w) \/ applyBatch(w) \/ closeIfImportDrained(w) \/ Answer(w)

Next ==
    \/ \E win \in Window : DiscoverWindow(win)
    \/ \E e \in Step : RelayStep(e)
    \/ \E w \in Worker, e \in Step : Dispatch(w, e)
    \/ \E w \in Worker : RunStep(w) \/ Fault(w) \/ RejectEnvelope(w) \/ LoseLease(w)

\* The relay drains, asynq dispatches, executions return. Faults owe nothing.
Fairness ==
    /\ \A e \in Step : WF_vars(RelayStep(e))
    /\ WF_vars(\E w \in Worker, e \in Step : Dispatch(w, e))
    /\ \A w \in Worker : WF_vars(RunStep(w))

Spec == Init /\ [][Next]_vars

FairSpec == Spec /\ Fairness
-----------------------------------------------------------------------------
\* The columns hold what their CHECKs allow; the ENRICHMENT row uses the
\* capture_run vocabulary, and a court has at most one unrelayed row a window.
TypeOK ==
    /\ synced \subseteq Window
    /\ due \subseteq Record
    /\ graded \in [Job -> [Record -> 0..1]]
    /\ errored \in [Job -> [Record -> 0..1]]
    /\ rows \in [Step -> 0..Cardinality(Window)]
    /\ task \in [Step -> {"none", "pending", "active", "archived"}]
    /\ retried \in [Step -> 0..MaxRetry]
    /\ processed \subseteq Step
    /\ pc \in [Worker -> {"idle", "scan", "apply", "close", "ack"}]
    /\ at \in [Worker -> Step]
    /\ seen \in [Worker -> SUBSET Record]
    /\ holds \in [Worker -> BOOLEAN]
    /\ faults \in 0..MaxFaults
    /\ runStatus \in [Job -> {"none", "RUNNING", "OK", "PARTIAL"}]
    /\ updated \in [Job -> Nat]
    /\ errs \in [Job -> Nat]

\* A step that is still to be delivered, or is being run, and whose effect is
\* not committed yet; an archived step waits for an operator.
Outstanding(e) == e \notin processed /\ (rows[e] > 0 \/ task[e] # "none")

\* While work remains it re-enqueues: a record that is due always has a step
\* of its court still to run, whatever crashes, retries and duplicates
\* happened (enrichment_batch.go: "while work remains it re-enqueues a next step").
DueIsOwned ==
    \A r \in due : \E e \in Step : e.court = CourtOf[r] /\ Outstanding(e)

\* A step that is not committed and whose next delivery, or whose execution in
\* one of the given phases, asynq still answers for.
Coming(e, phases) ==
    /\ e \notin processed
    /\ \/ rows[e] > 0 /\ task[e] = "none"
       \/ task[e] \in {"pending", "archived"}
       \/ \E w \in Worker : holds[w] /\ at[w] = e /\ pc[w] \in phases

\* A scan or a commit of the record's court is to come.
Served(r) == \E e \in Step : e.court = CourtOf[r] /\ Coming(e, {"scan", "apply"})

\* An earlier window of the same import had found records of the same court,
\* and each of those has been attempted.
Overtaken(r) ==
    \E win \in synced \ {WindowOf[r]} :
        /\ JobOf[win] = JobOf[WindowOf[r]]
        /\ \E q \in Found(win) : CourtOf[q] = CourtOf[r]
        /\ \A q \in Found(win) : CourtOf[q] = CourtOf[r] => q \notin due

\* No crash, retry, lost lease, stale scan or duplicate leaves a due record
\* without a step that will scan or commit its court: it is lost only when
\* its window came after another one of the import had drained that court
\* (firstStep gives both windows the same event id).
ServedUnlessOvertaken == \A r \in due : Served(r) \/ Overtaken(r)

\* The import's counters say what was done: each record is graded, or counted
\* as a parse error, at most once for an import, and never both.
GradedOnce ==
    \A j \in Job :
        /\ \A r \in Record : graded[j][r] + errored[j][r] <= 1
        /\ updated[j] = Cardinality({r \in Record : graded[j][r] = 1})
        /\ errs[j] = Cardinality({r \in Record : errored[j][r] = 1})

\* No step is on its way or running, and none was archived.
Quiescent ==
    /\ \A e \in Step : rows[e] = 0 /\ task[e] = "none"
    /\ \A w \in Worker : pc[w] = "idle"

\* At rest and with nothing due, every import that ran has its ENRICHMENT row
\* closed, as PARTIAL exactly when a real parse error was counted for it: a
\* record DATAJUD does not have leaves it OK (enrichmentTerminalStatus: it "is
\* EXPECTED, not a failure"). The comment of OnEnrichmentBatchRequested, "by
\* coverage (updated vs. discovered)", and enrichment.sql's "lets the fecho
\* land as PARTIAL" say otherwise of such a record; the code does not do that.
ClosedWhenDrained ==
    Quiescent /\ due = {} => \A win \in synced : Found(win) # {} =>
        runStatus[JobOf[win]] = IF \E r \in Record : errored[JobOf[win]][r] > 0
                                THEN "PARTIAL" ELSE "OK"

\* The backlog drains itself: again and again there comes a state in which
\* every record has been attempted but the overtaken ones and those whose
\* court's chain was archived, by a fault that outlasted its retries.
BacklogDrains ==
    []<>(\A r \in due : \/ Overtaken(r)
                        \/ \E e \in Step : e.court = CourtOf[r] /\ task[e] = "archived")
=============================================================================
