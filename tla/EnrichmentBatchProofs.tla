----------------------- MODULE EnrichmentBatchProofs -----------------------
(***************************************************************************)
(* Theorems of EnrichmentBatch: its types, and that an import counts each  *)
(* record once.  A step grades what it scanned in an earlier transaction,  *)
(* so the argument is about the steps that are under way: of an import and *)
(* a court there is one step not yet processed, the later ones are emitted *)
(* by its commit, so nobody else can grade, for that import, what it has   *)
(* scanned.  Then, whatever courts the windows share, that a due record    *)
(* has a step to come or was overtaken by the end of its court's chain,    *)
(* and, where the tenant has one import, that its ENRICHMENT row is closed *)
(* at the end.                                                             *)
(***************************************************************************)
EXTENDS EnrichmentBatch, FiniteSetTheorems, TLAPS

\* The record was not counted for the import.
Fresh(j, r) == graded[j][r] = 0 /\ errored[j][r] = 0

\* The step was emitted: it has a row, a task or an execution, or is done.
Emitted(e) ==
    \/ e \in processed
    \/ rows[e] > 0
    \/ task[e] # "none"
    \/ \E w \in Worker : pc[w] # "idle" /\ at[w] = e

Before(d, e) == d.job = e.job /\ d.court = e.court /\ d.pass < e.pass

\* A step is emitted behind processed ones only.
ChainInv == \A d, e \in Step : Emitted(e) /\ Before(d, e) => d \in processed

\* A window emits the first step of a court once, a step its next pass once.
RowsInv == \A e \in Step : rows[e] <= IF e.pass = 0 THEN Cardinality(synced) ELSE 1

\* A record becomes due with its window and is counted only when it no longer is.
DueInv ==
    \A r \in Record :
        /\ r \in due => WindowOf[r] \in synced /\ \A j \in Job : Fresh(j, r)
        /\ WindowOf[r] \notin synced => \A j \in Job : Fresh(j, r)

\* What an execution has scanned and may still grade.
SeenInv ==
    \A w \in Worker : pc[w] = "apply" =>
        \A r \in seen[w] :
            /\ CourtOf[r] = at[w].court
            /\ WindowOf[r] \in synced
            /\ at[w] \notin processed => Fresh(at[w].job, r)

IInv == TypeOK /\ GradedOnce /\ ChainInv /\ RowsInv /\ DueInv /\ SeenInv
-----------------------------------------------------------------------------
(* Steps.                                                                  *)

\* There are steps, and AnyStep is one of them.
LEMMA StepTypes ==
    /\ AnyStep \in Step
    /\ \A j \in Job, c \in Court : firstStep(j, c) \in Step
  <1>1. PICK win \in Window, c \in Court : TRUE
    BY EnrichmentAssumptions
  <1>2. JobOf[win] \in Job /\ 0 \in 0..MaxPass
    BY EnrichmentAssumptions
  <1>3. [job |-> JobOf[win], court |-> c, pass |-> 0] \in Step
    BY <1>2 DEF Step
  <1>4. AnyStep \in Step
    BY <1>3 DEF AnyStep
  <1> QED
    BY <1>4, EnrichmentAssumptions DEF firstStep, Step

\* Of two steps of an import and a court one comes first, or they are one.
LEMMA Ordered ==
    ASSUME NEW d \in Step, NEW e \in Step, d.job = e.job, d.court = e.court
    PROVE  d = e \/ Before(d, e) \/ Before(e, d)
  <1>1. d.pass \in Int /\ e.pass \in Int
    BY DEF Step
  <1>2. CASE d.pass = e.pass
    BY <1>2 DEF Step
  <1> QED
    BY <1>1, <1>2 DEF Before

\* The next pass comes right after its step.
LEMMA NextStep ==
    ASSUME NEW e \in Step
    PROVE  /\ nextEnrichmentBatchStep(e).pass = e.pass + 1
           /\ nextEnrichmentBatchStep(e).pass # 0
           /\ Before(e, nextEnrichmentBatchStep(e))
           /\ \A d \in Step : Before(d, nextEnrichmentBatchStep(e)) => d = e \/ Before(d, e)
  <1> DEFINE n == nextEnrichmentBatchStep(e)
  <1>1. n.job = e.job /\ n.court = e.court /\ n.pass = e.pass + 1 /\ e.pass \in Nat
    BY DEF Step, nextEnrichmentBatchStep
  <1>2. ASSUME NEW d \in Step, Before(d, n) PROVE d = e \/ Before(d, e)
    <2>1. d.job = e.job /\ d.court = e.court /\ d.pass < e.pass + 1 /\ d.pass \in Nat
      BY <1>1, <1>2 DEF Before, Step
    <2>2. ~Before(e, d)
      BY <1>1, <2>1 DEF Before
    <2> QED
      BY <2>1, <2>2, Ordered
  <1> QED
    BY <1>1, <1>2 DEF Before
-----------------------------------------------------------------------------
(* The steps of the deliveries: what they leave alone.                     *)

\* An execution of a step that goes on, starts or is left.
Undisturbed ==
    /\ UNCHANGED <<recVars, processed, updated, errs>>
    /\ \A e \in Step : rows'[e] <= rows[e]
    /\ \A e \in Step : Emitted(e)' => Emitted(e)
    /\ \A w \in Worker : pc'[w] = "apply" =>
          pc[w] = "apply" /\ at'[w] = at[w] /\ seen'[w] = seen[w]

\* Such a step keeps the invariant, given that it keeps the types.
LEMMA UndisturbedKeeps ==
    ASSUME IInv, Undisturbed, TypeOK'
    PROVE  IInv'
  <1>1. GradedOnce' /\ DueInv'
    BY DEF IInv, Undisturbed, GradedOnce, DueInv, Fresh, recVars
  <1>2. ChainInv'
    BY DEF IInv, Undisturbed, ChainInv
  <1>3. RowsInv'
    <2> SUFFICES ASSUME NEW e \in Step
                 PROVE  rows'[e] <= IF e.pass = 0 THEN Cardinality(synced') ELSE 1
      BY DEF RowsInv
    <2>1. rows'[e] <= rows[e] /\ synced' = synced
      BY DEF Undisturbed, recVars
    <2>2. rows[e] <= IF e.pass = 0 THEN Cardinality(synced) ELSE 1
      BY DEF IInv, RowsInv
    <2>3. rows[e] \in Nat /\ rows'[e] \in Nat
      BY DEF IInv, TypeOK
    <2>4. Cardinality(synced) \in Nat
      BY FS_Subset, FS_CardinalityType, EnrichmentAssumptions DEF IInv, TypeOK
    <2> QED
      BY <2>1, <2>2, <2>3, <2>4
  <1>4. SeenInv'
    BY DEF IInv, Undisturbed, SeenInv, Fresh, recVars
  <1> QED
    BY <1>1, <1>2, <1>3, <1>4 DEF IInv

\* A failed attempt leaves the task of an emitted step pending or archived.
LEMMA FailedAttempt ==
    ASSUME TypeOK, NEW e \in Step, FailAttempt(e)
    PROVE  /\ task' \in [Step -> {"none", "pending", "active", "archived"}]
           /\ retried' \in [Step -> 0..MaxRetry]
           /\ \A d \in Step : d # e => task'[d] = task[d]
  <1>1. MaxRetry \in Nat /\ retried[e] \in 0..MaxRetry
    BY EnrichmentAssumptions DEF TypeOK
  <1>2. CASE retried[e] < MaxRetry
    <2>1. retried[e] + 1 \in 0..MaxRetry
      BY <1>1, <1>2
    <2> QED
      BY <1>2, <2>1 DEF FailAttempt, TypeOK
  <1>3. CASE ~(retried[e] < MaxRetry)
    BY <1>3 DEF FailAttempt, TypeOK
  <1> QED
    BY <1>2, <1>3

\* The relay turns a row into a task, or drops it against a task.
LEMMA RelayKeeps ==
    ASSUME IInv, NEW e \in Step, RelayStep(e)
    PROVE  IInv' /\ Undisturbed
  <1>1. rows[e] \in 0..Cardinality(Window) /\ rows[e] > 0
    BY DEF IInv, TypeOK, RelayStep
  <1>2. Cardinality(Window) \in Nat
    BY FS_CardinalityType, EnrichmentAssumptions
  <1>3. rows[e] - 1 \in 0..Cardinality(Window) /\ rows[e] - 1 <= rows[e]
    BY <1>1, <1>2
  <1>4. 0 \in 0..MaxRetry
    BY EnrichmentAssumptions
  <1>5. TypeOK'
    <2>1. rows' \in [Step -> 0..Cardinality(Window)]
      BY <1>3 DEF IInv, TypeOK, RelayStep
    <2>2. /\ task' \in [Step -> {"none", "pending", "active", "archived"}]
          /\ retried' \in [Step -> 0..MaxRetry]
      BY <1>4 DEF IInv, TypeOK, RelayStep
    <2> QED
      BY <2>1, <2>2 DEF IInv, TypeOK, RelayStep, recVars, execVars, rowVars
  <1>6. \A d \in Step : rows'[d] <= rows[d]
    <2> SUFFICES ASSUME NEW d \in Step PROVE rows'[d] <= rows[d]
      OBVIOUS
    <2>1. rows[d] \in Nat
      BY <1>2 DEF IInv, TypeOK
    <2> QED
      BY <1>3, <2>1 DEF IInv, TypeOK, RelayStep
  <1>7. \A d \in Step : Emitted(d)' => Emitted(d)
    <2> SUFFICES ASSUME NEW d \in Step, Emitted(d)' PROVE Emitted(d)
      OBVIOUS
    <2>1. CASE d = e
      BY <1>1, <2>1 DEF Emitted
    <2>2. CASE d # e
      BY <2>2 DEF IInv, TypeOK, RelayStep, Emitted, execVars
    <2> QED
      BY <2>1, <2>2
  <1>8. Undisturbed
    BY <1>6, <1>7 DEF Undisturbed, RelayStep, recVars, execVars, rowVars
  <1> QED
    BY <1>5, <1>8, UndisturbedKeeps

\* A worker takes the step of a task.
LEMMA DispatchKeeps ==
    ASSUME IInv, NEW w \in Worker, NEW e \in Step, Dispatch(w, e)
    PROVE  IInv' /\ Undisturbed
  <1>1. TypeOK'
    BY DEF IInv, TypeOK, Dispatch, recVars, rowVars
  <1>2. \A d \in Step : Emitted(d)' => Emitted(d)
    BY DEF IInv, TypeOK, Dispatch, Emitted
  <1>3. \A d \in Step : rows'[d] <= rows[d]
    <2>1. Cardinality(Window) \in Nat
      BY FS_CardinalityType, EnrichmentAssumptions
    <2>2. \A d \in Step : rows[d] \in Nat
      BY <2>1 DEF IInv, TypeOK
    <2> QED
      BY <2>2 DEF Dispatch
  <1>4. \A v \in Worker : pc'[v] = "apply" => pc[v] = "apply" /\ at'[v] = at[v] /\ seen'[v] = seen[v]
    BY DEF IInv, TypeOK, Dispatch
  <1>5. Undisturbed
    BY <1>2, <1>3, <1>4 DEF Undisturbed, Dispatch, recVars, rowVars
  <1> QED
    BY <1>1, <1>5, UndisturbedKeeps

\* A step is answered, or its execution ends or is left, with a task to match.
LEMMA LeavesKeep ==
    ASSUME IInv, NEW w \in Worker, pc[w] # "idle",
           UNCHANGED <<recVars, rows, processed, updated, errs>>,
           TypeOK',
           \A d \in Step : d # at[w] => task'[d] = task[d],
           \/ Return(w)
           \/ pc' = [pc EXCEPT ![w] = "ack"] /\ UNCHANGED <<at, seen>>
           \/ UNCHANGED <<pc, at, seen>>
    PROVE  IInv' /\ Undisturbed
  <1>1. Emitted(at[w])
    BY DEF Emitted
  <1>2. \A v \in Worker : pc'[v] # "idle" => pc[v] # "idle" /\ at'[v] = at[v]
    BY DEF IInv, TypeOK, Return, Goto
  <1>3. \A d \in Step : Emitted(d)' => Emitted(d)
    <2> SUFFICES ASSUME NEW d \in Step, Emitted(d)' PROVE Emitted(d)
      OBVIOUS
    <2>1. CASE d = at[w]
      BY <1>1, <2>1
    <2>2. CASE d # at[w]
      BY <1>2, <2>2 DEF Emitted
    <2> QED
      BY <2>1, <2>2
  <1>4. \A d \in Step : rows'[d] <= rows[d]
    <2>1. Cardinality(Window) \in Nat
      BY FS_CardinalityType, EnrichmentAssumptions
    <2>2. \A d \in Step : rows[d] \in Nat
      BY <2>1 DEF IInv, TypeOK
    <2> QED
      BY <2>2
  <1>5. \A v \in Worker : pc'[v] = "apply" => pc[v] = "apply" /\ at'[v] = at[v] /\ seen'[v] = seen[v]
    BY DEF IInv, TypeOK, Return, Goto
  <1>6. Undisturbed
    BY <1>3, <1>4, <1>5 DEF Undisturbed
  <1> QED
    BY <1>6, UndisturbedKeeps

\* The ENRICHMENT row is stamped, or left alone.
LEMMA CloseKeeps ==
    ASSUME IInv, NEW w \in Worker, closeIfImportDrained(w)
    PROVE  IInv' /\ Undisturbed
  <1>1. at[w].job \in Job
    BY DEF IInv, TypeOK, Step
  <1>2. enrichmentTerminalStatus(at[w].job) \in {"OK", "PARTIAL"}
    BY DEF enrichmentTerminalStatus
  <1>3. TypeOK'
    <2>1. runStatus' \in [Job -> {"none", "RUNNING", "OK", "PARTIAL"}]
      BY <1>1, <1>2 DEF IInv, TypeOK, closeIfImportDrained
    <2>2. pc' \in [Worker -> {"idle", "scan", "apply", "close", "ack"}]
      BY DEF IInv, TypeOK, closeIfImportDrained, Goto
    <2> QED
      BY <2>1, <2>2 DEF IInv, TypeOK, closeIfImportDrained, recVars, taskVars
  <1> QED
    BY <1>3, LeavesKeep DEF closeIfImportDrained, recVars, taskVars, Goto

\* asynq deletes the task of an answered step.
LEMMA AnswerKeeps ==
    ASSUME IInv, NEW w \in Worker, Answer(w)
    PROVE  IInv' /\ Undisturbed
  <1>1. at[w] \in Step /\ AnyStep \in Step
    BY StepTypes DEF IInv, TypeOK
  <1>2. TypeOK'
    <2>1. task' \in [Step -> {"none", "pending", "active", "archived"}]
      BY <1>1 DEF IInv, TypeOK, Answer
    <2>2. /\ pc' \in [Worker -> {"idle", "scan", "apply", "close", "ack"}]
          /\ at' \in [Worker -> Step]
          /\ seen' \in [Worker -> SUBSET Record]
          /\ holds' \in [Worker -> BOOLEAN]
      BY <1>1 DEF IInv, TypeOK, Answer, Return, Goto
    <2> QED
      BY <2>1, <2>2 DEF IInv, TypeOK, Answer, recVars, rowVars
  <1>3. \A d \in Step : d # at[w] => task'[d] = task[d]
    BY DEF IInv, TypeOK, Answer
  <1> QED
    BY <1>2, <1>3, LeavesKeep DEF Answer, recVars, rowVars

\* Faults and rejections end an execution, a lost lease leaves it to itself.
LEMMA FaultsKeep ==
    ASSUME IInv, NEW w \in Worker, Fault(w) \/ RejectEnvelope(w) \/ LoseLease(w)
    PROVE  IInv' /\ Undisturbed
  <1>1. at[w] \in Step /\ AnyStep \in Step
    BY StepTypes DEF IInv, TypeOK
  <1>2. faults' \in 0..MaxFaults
    BY EnrichmentAssumptions DEF IInv, TypeOK, Fault, RejectEnvelope, LoseLease, CountFault
  <1>3. /\ task' \in [Step -> {"none", "pending", "active", "archived"}]
        /\ retried' \in [Step -> 0..MaxRetry]
        /\ \A d \in Step : d # at[w] => task'[d] = task[d]
    <2>1. CASE Fault(w)
      BY <1>1, <2>1, FailedAttempt DEF IInv, TypeOK, Fault
    <2>2. CASE RejectEnvelope(w)
      BY <1>1, <2>2 DEF IInv, TypeOK, RejectEnvelope
    <2>3. CASE LoseLease(w)
      BY <1>1, <2>3, FailedAttempt DEF IInv, LoseLease
    <2> QED
      BY <2>1, <2>2, <2>3
  <1>4. CASE Return(w)
    <2>1. /\ pc' \in [Worker -> {"idle", "scan", "apply", "close", "ack"}]
          /\ at' \in [Worker -> Step]
          /\ seen' \in [Worker -> SUBSET Record]
          /\ holds' \in [Worker -> BOOLEAN]
      BY <1>1, <1>4 DEF IInv, TypeOK, Return, Goto
    <2>2. pc[w] # "idle" /\ UNCHANGED <<recVars, rows, processed, rowVars>>
      BY DEF Fault, RejectEnvelope, LoseLease
    <2>3. TypeOK'
      BY <1>2, <1>3, <2>1, <2>2 DEF IInv, TypeOK, recVars, rowVars
    <2> QED
      BY <1>3, <1>4, <2>2, <2>3, LeavesKeep DEF recVars, rowVars
  <1>5. CASE LoseLease(w)
    <2>1. TypeOK'
      BY <1>2, <1>3, <1>5 DEF IInv, TypeOK, LoseLease, recVars, rowVars
    <2> QED
      BY <1>3, <1>5, <2>1, LeavesKeep DEF LoseLease, recVars, rowVars
  <1> QED
    BY <1>4, <1>5 DEF Fault, RejectEnvelope
-----------------------------------------------------------------------------
(* The discovery and the scan.                                             *)

\* A window is discovered: its records become due, uncounted as yet.
LEMMA DiscoverKeeps ==
    ASSUME IInv, NEW win \in Window, DiscoverWindow(win)
    PROVE  IInv'
  <1>1. /\ IsFiniteSet(synced') /\ IsFiniteSet(synced)
        /\ Cardinality(synced) \in Nat /\ Cardinality(synced') = Cardinality(synced) + 1
        /\ Cardinality(Window) \in Nat /\ Cardinality(synced') <= Cardinality(Window)
    <2>1. synced \subseteq Window /\ synced' \subseteq Window
      BY DEF IInv, TypeOK, DiscoverWindow
    <2>2. IsFiniteSet(synced) /\ IsFiniteSet(synced') /\ Cardinality(synced') <= Cardinality(Window)
      BY <2>1, FS_Subset, EnrichmentAssumptions
    <2>3. Cardinality(synced) \in Nat /\ Cardinality(Window) \in Nat
      BY <2>2, FS_CardinalityType, EnrichmentAssumptions
    <2>4. Cardinality(synced') = Cardinality(synced) + 1
      BY <2>2, FS_AddElement DEF DiscoverWindow
    <2> QED
      BY <2>2, <2>3, <2>4
  <1>2. ASSUME NEW e \in Step
        PROVE  /\ rows'[e] \in Nat
               /\ rows'[e] <= IF e.pass = 0 THEN Cardinality(synced') ELSE 1
               /\ rows'[e] > 0 => rows[e] > 0 \/ e.pass = 0
    <2>1. rows[e] \in Nat /\ rows[e] <= IF e.pass = 0 THEN Cardinality(synced) ELSE 1
      BY <1>1 DEF IInv, TypeOK, RowsInv
    <2>2. rows'[e] = rows[e] \/ (e.pass = 0 /\ rows'[e] = rows[e] + 1)
      BY DEF DiscoverWindow, firstStep
    <2> QED
      BY <1>1, <2>1, <2>2
  <1>3. Cardinality(Window) >= 1
    BY <1>1
  <1>4. TypeOK'
    <2>1. rows' \in [Step -> 0..Cardinality(Window)]
      <3>1. \A e \in Step : rows'[e] \in 0..Cardinality(Window)
        BY <1>1, <1>2, <1>3
      <3>2. rows' = [e \in Step |-> rows'[e]]
        BY DEF DiscoverWindow
      <3> QED
        BY <3>1, <3>2
    <2>2. synced' \subseteq Window /\ due' \subseteq Record
      BY DEF IInv, TypeOK, DiscoverWindow, Found
    <2> QED
      BY <2>1, <2>2 DEF IInv, TypeOK, DiscoverWindow, execVars, rowVars
  <1>5. GradedOnce'
    BY DEF IInv, GradedOnce, DiscoverWindow, execVars, rowVars
  <1>6. ChainInv'
    <2> SUFFICES ASSUME NEW d \in Step, NEW e \in Step, Emitted(e)', Before(d, e)
                 PROVE  d \in processed'
      BY DEF ChainInv
    <2>1. e.pass # 0
      BY DEF Before, Step
    <2>2. Emitted(e)
      BY <1>2, <2>1 DEF Emitted, DiscoverWindow, execVars
    <2> QED
      BY <2>2 DEF IInv, ChainInv, DiscoverWindow
  <1>7. RowsInv'
    BY <1>2 DEF RowsInv
  <1>8. DueInv'
    BY DEF IInv, DueInv, Fresh, DiscoverWindow, Found
  <1>9. SeenInv'
    BY DEF IInv, SeenInv, Fresh, DiscoverWindow, execVars
  <1> QED
    BY <1>4, <1>5, <1>6, <1>7, <1>8, <1>9 DEF IInv

\* What a scan finds is due: discovered and not counted.
LEMMA SelectKeeps ==
    ASSUME IInv, NEW w \in Worker, SelectDueForEnrichment(w)
    PROVE  IInv'
  <1>1. PICK S \in SUBSET DueOf(at[w].court) :
            /\ seen' = [seen EXCEPT ![w] = S]
            /\ pc' = [pc EXCEPT ![w] = IF S = {} THEN "close" ELSE "apply"]
    BY DEF SelectDueForEnrichment, Goto
  <1>2. UNCHANGED <<recVars, taskVars, at, holds, faults, rowVars>> /\ pc[w] = "scan"
    BY DEF SelectDueForEnrichment
  <1>3. S \subseteq due
    BY DEF DueOf
  <1>4. TypeOK'
    <2>1. seen' \in [Worker -> SUBSET Record]
      BY <1>1, <1>3 DEF IInv, TypeOK
    <2>2. pc' \in [Worker -> {"idle", "scan", "apply", "close", "ack"}]
      BY <1>1 DEF IInv, TypeOK
    <2> QED
      BY <1>2, <2>1, <2>2 DEF IInv, TypeOK, recVars, taskVars, rowVars
  <1>5. GradedOnce' /\ RowsInv' /\ DueInv'
    BY <1>2 DEF IInv, GradedOnce, RowsInv, DueInv, Fresh, recVars, taskVars, rowVars
  <1>6. ChainInv'
    <2>1. \A v \in Worker : pc'[v] # "idle" => pc[v] # "idle"
      BY <1>1, <1>2 DEF IInv, TypeOK
    <2> QED
      BY <1>2, <2>1 DEF IInv, ChainInv, Emitted, taskVars
  <1>7. SeenInv'
    <2> SUFFICES ASSUME NEW v \in Worker, pc'[v] = "apply", NEW r \in seen'[v]
                 PROVE  /\ CourtOf[r] = at[v].court
                        /\ WindowOf[r] \in synced
                        /\ at[v] \notin processed => Fresh(at[v].job, r)
      BY <1>2 DEF SeenInv, Fresh, recVars, taskVars
    <2>1. CASE v = w
      <3>1. r \in DueOf(at[w].court)
        BY <1>1, <2>1 DEF IInv, TypeOK
      <3>2. at[w].job \in Job
        BY DEF IInv, TypeOK, Step
      <3> QED
        BY <2>1, <3>1, <3>2 DEF IInv, TypeOK, DueInv, DueOf
    <2>2. CASE v # w
      BY <1>1, <2>2 DEF IInv, TypeOK, SeenInv
    <2> QED
      BY <2>1, <2>2
  <1> QED
    BY <1>4, <1>5, <1>6, <1>7 DEF IInv
-----------------------------------------------------------------------------
(* The transaction that grades.                                            *)

\* A step that was processed already changes nothing.
LEMMA ApplyAgainKeeps ==
    ASSUME IInv, NEW w \in Worker, applyBatch(w), SeenOrMark(at[w])
    PROVE  IInv'
  <1>1. /\ UNCHANGED <<recVars, rows, processed, rowVars, task, retried, at, seen, holds, faults>>
        /\ pc' = [pc EXCEPT ![w] = "ack"] /\ pc[w] = "apply"
    BY DEF applyBatch, Goto
  <1>2. TypeOK'
    BY <1>1 DEF IInv, TypeOK, recVars, rowVars
  <1> QED
    BY <1>1, <1>2, LeavesKeep DEF recVars, rowVars

\* Another record stands in a count once more, so the count grows by one each.
LEMMA Counted ==
    ASSUME NEW f \in [Record -> 0..1], NEW S \in SUBSET Record, \A r \in S : f[r] = 0
    PROVE  /\ Bump(f, S) \in [Record -> 0..1]
           /\ \A r \in Record : Bump(f, S)[r] = IF r \in S THEN 1 ELSE f[r]
           /\ Cardinality({r \in Record : Bump(f, S)[r] = 1})
                = Cardinality({r \in Record : f[r] = 1}) + Cardinality(S)
           /\ Cardinality(S) \in Nat
  <1> DEFINE T == {r \in Record : f[r] = 1}
  <1>1. \A r \in Record : Bump(f, S)[r] = IF r \in S THEN 1 ELSE f[r]
    BY DEF Bump
  <1>2. Bump(f, S) \in [Record -> 0..1]
    BY DEF Bump
  <1>3. {r \in Record : Bump(f, S)[r] = 1} = T \cup S /\ T \cap S = {}
    BY <1>1
  <1>4. IsFiniteSet(T) /\ IsFiniteSet(S)
    <2>1. T \in SUBSET Record
      OBVIOUS
    <2> QED
      BY <2>1, FS_Subset, EnrichmentAssumptions
  <1>5. Cardinality(T \cup S) = Cardinality(T) + Cardinality(S) - Cardinality(T \cap S)
    BY <1>4, FS_Union
  <1>6. Cardinality(T \cap S) = 0 /\ Cardinality(T) \in Nat /\ Cardinality(S) \in Nat
    BY <1>3, <1>4, FS_EmptySet, FS_CardinalityType
  <1>7. Cardinality(T \cup S) = Cardinality(T) + Cardinality(S)
    BY <1>5, <1>6
  <1> QED
    BY <1>1, <1>2, <1>3, <1>6, <1>7

\* The first execution of a step grades what it scanned, all of it uncounted,
\* and of its import and court there is no other step that could.
LEMMA ApplyKeeps ==
    ASSUME IInv, NEW w \in Worker, applyBatch(w), ~SeenOrMark(at[w])
    PROVE  IInv'
  <1> DEFINE e == at[w]
             n == nextEnrichmentBatchStep(e)
  <1>0. PICK hits \in SUBSET seen[w] : \E skipped \in SUBSET (seen[w] \ hits) :
            /\ processed' = processed \cup {e}
            /\ due' = due \ seen[w]
            /\ graded' = [graded EXCEPT ![e.job] = Bump(graded[e.job], hits)]
            /\ errored' = [errored EXCEPT ![e.job] = Bump(errored[e.job], skipped)]
            /\ updated' = [updated EXCEPT ![e.job] = @ + Cardinality(hits)]
            /\ errs' = [errs EXCEPT ![e.job] = @ + Cardinality(skipped)]
            /\ runStatus' = IF hits \cup skipped # {} /\ runStatus[e.job] = "none"
                            THEN [runStatus EXCEPT ![e.job] = "RUNNING"] ELSE runStatus
            /\ rows' = [rows EXCEPT ![n] = @ + 1]
            /\ synced' = synced
    BY DEF applyBatch, MarkEnrichmentAttempted, Resume
  <1>1. PICK skipped \in SUBSET (seen[w] \ hits) :
            /\ processed' = processed \cup {e}
            /\ due' = due \ seen[w]
            /\ graded' = [graded EXCEPT ![e.job] = Bump(graded[e.job], hits)]
            /\ errored' = [errored EXCEPT ![e.job] = Bump(errored[e.job], skipped)]
            /\ updated' = [updated EXCEPT ![e.job] = @ + Cardinality(hits)]
            /\ errs' = [errs EXCEPT ![e.job] = @ + Cardinality(skipped)]
            /\ runStatus' = IF hits \cup skipped # {} /\ runStatus[e.job] = "none"
                            THEN [runStatus EXCEPT ![e.job] = "RUNNING"] ELSE runStatus
            /\ rows' = [rows EXCEPT ![n] = @ + 1]
            /\ synced' = synced
    BY <1>0
  <1>2. /\ pc[w] = "apply" /\ pc' = [pc EXCEPT ![w] = "ack"]
        /\ UNCHANGED <<task, retried, at, seen, holds, faults>>
    BY DEF applyBatch, Goto
  <1>3. e \in Step /\ e.job \in Job /\ e \notin processed
    BY DEF IInv, TypeOK, Step, SeenOrMark
  <1>4. \A r \in seen[w] : /\ r \in Record /\ CourtOf[r] = e.court /\ WindowOf[r] \in synced
                           /\ Fresh(e.job, r)
    BY <1>2, <1>3 DEF IInv, TypeOK, SeenInv
  <1>5. hits \in SUBSET Record /\ skipped \in SUBSET Record /\ hits \cap skipped = {}
    BY <1>4
  <1>6. /\ graded[e.job] \in [Record -> 0..1] /\ \A r \in hits : graded[e.job][r] = 0
        /\ errored[e.job] \in [Record -> 0..1] /\ \A r \in skipped : errored[e.job][r] = 0
    BY <1>3, <1>4 DEF IInv, TypeOK, Fresh
  <1>7. /\ Bump(graded[e.job], hits) \in [Record -> 0..1]
        /\ \A r \in Record : Bump(graded[e.job], hits)[r]
                              = IF r \in hits THEN 1 ELSE graded[e.job][r]
        /\ Cardinality({r \in Record : Bump(graded[e.job], hits)[r] = 1})
              = Cardinality({r \in Record : graded[e.job][r] = 1}) + Cardinality(hits)
        /\ Cardinality(hits) \in Nat
    BY <1>5, <1>6, Counted
  <1>8. /\ Bump(errored[e.job], skipped) \in [Record -> 0..1]
        /\ \A r \in Record : Bump(errored[e.job], skipped)[r]
                              = IF r \in skipped THEN 1 ELSE errored[e.job][r]
        /\ Cardinality({r \in Record : Bump(errored[e.job], skipped)[r] = 1})
              = Cardinality({r \in Record : errored[e.job][r] = 1}) + Cardinality(skipped)
        /\ Cardinality(skipped) \in Nat
    BY <1>5, <1>6, Counted
  <1>9. /\ graded'[e.job] = Bump(graded[e.job], hits)
        /\ errored'[e.job] = Bump(errored[e.job], skipped)
        /\ \A j \in Job : j # e.job => graded'[j] = graded[j] /\ errored'[j] = errored[j]
    BY <1>1, <1>3 DEF IInv, TypeOK
  <1>10. n \in Step => rows[n] = 0
    <2>1. ASSUME n \in Step PROVE ~(rows[n] > 0)
      BY <1>3, <2>1, NextStep DEF IInv, ChainInv, Emitted
    <2>2. Cardinality(Window) \in Nat
      BY FS_CardinalityType, EnrichmentAssumptions
    <2> QED
      BY <2>1, <2>2 DEF IInv, TypeOK
  <1>11. \A d \in Step : rows'[d] = IF d = n THEN 1 ELSE rows[d]
    BY <1>1, <1>10 DEF IInv, TypeOK
  <1>12. TypeOK'
    <2>1. graded' \in [Job -> [Record -> 0..1]] /\ errored' \in [Job -> [Record -> 0..1]]
      BY <1>1, <1>3, <1>7, <1>8 DEF IInv, TypeOK
    <2>2. rows' \in [Step -> 0..Cardinality(Window)]
      <3>1. Cardinality(Window) \in Nat /\ Cardinality(Window) # 0
        BY FS_CardinalityType, FS_EmptySet, EnrichmentAssumptions
      <3>2. \A d \in Step : rows'[d] \in 0..Cardinality(Window)
        BY <1>11, <3>1 DEF IInv, TypeOK
      <3> QED
        BY <1>1, <3>2 DEF IInv, TypeOK
    <2>3. updated' \in [Job -> Nat] /\ errs' \in [Job -> Nat]
      BY <1>1, <1>3, <1>7, <1>8 DEF IInv, TypeOK
    <2>4. runStatus' \in [Job -> {"none", "RUNNING", "OK", "PARTIAL"}]
      BY <1>1 DEF IInv, TypeOK
    <2>5. pc' \in [Worker -> {"idle", "scan", "apply", "close", "ack"}]
      BY <1>2 DEF IInv, TypeOK
    <2> QED
      BY <1>1, <1>2, <1>3, <2>1, <2>2, <2>3, <2>4, <2>5 DEF IInv, TypeOK
  <1>13. GradedOnce'
    <2> SUFFICES ASSUME NEW j \in Job
                 PROVE  /\ \A r \in Record : graded'[j][r] + errored'[j][r] <= 1
                        /\ updated'[j] = Cardinality({r \in Record : graded'[j][r] = 1})
                        /\ errs'[j] = Cardinality({r \in Record : errored'[j][r] = 1})
      BY DEF GradedOnce
    <2>1. CASE j = e.job
      <3>1. \A r \in Record : graded'[j][r] + errored'[j][r] <= 1
        <4> SUFFICES ASSUME NEW r \in Record PROVE graded'[j][r] + errored'[j][r] <= 1
          OBVIOUS
        <4>1. graded[j][r] + errored[j][r] <= 1 /\ graded[j][r] \in 0..1 /\ errored[j][r] \in 0..1
          BY DEF IInv, GradedOnce, TypeOK
        <4>2. r \in hits \/ r \in skipped => graded[j][r] = 0 /\ errored[j][r] = 0
          BY <1>4, <2>1 DEF Fresh
        <4>3. ~(r \in hits /\ r \in skipped)
          BY <1>5
        <4>4. /\ graded'[j][r] = IF r \in hits THEN 1 ELSE graded[j][r]
              /\ errored'[j][r] = IF r \in skipped THEN 1 ELSE errored[j][r]
          BY <1>7, <1>8, <1>9, <2>1
        <4> QED
          BY <4>1, <4>2, <4>3, <4>4
      <3>2. updated'[j] = updated[j] + Cardinality(hits) /\ errs'[j] = errs[j] + Cardinality(skipped)
        BY <1>1, <2>1 DEF IInv, TypeOK
      <3>3. /\ updated[j] = Cardinality({r \in Record : graded[j][r] = 1})
            /\ errs[j] = Cardinality({r \in Record : errored[j][r] = 1})
        BY DEF IInv, GradedOnce
      <3>4. updated'[j] = Cardinality({r \in Record : graded'[j][r] = 1})
        <4>1. {r \in Record : graded'[j][r] = 1} = {r \in Record : Bump(graded[e.job], hits)[r] = 1}
          BY <1>9, <2>1
        <4>2. {r \in Record : graded[j][r] = 1} = {r \in Record : graded[e.job][r] = 1}
          BY <2>1
        <4> QED
          BY <1>7, <3>2, <3>3, <4>1, <4>2
      <3>5. errs'[j] = Cardinality({r \in Record : errored'[j][r] = 1})
        <4>1. {r \in Record : errored'[j][r] = 1} = {r \in Record : Bump(errored[e.job], skipped)[r] = 1}
          BY <1>9, <2>1
        <4>2. {r \in Record : errored[j][r] = 1} = {r \in Record : errored[e.job][r] = 1}
          BY <2>1
        <4> QED
          BY <1>8, <3>2, <3>3, <4>1, <4>2
      <3> QED
        BY <3>1, <3>4, <3>5
    <2>2. CASE j # e.job
      <3>1. updated'[j] = updated[j] /\ errs'[j] = errs[j]
        BY <1>1, <2>2 DEF IInv, TypeOK
      <3>2. graded'[j] = graded[j] /\ errored'[j] = errored[j]
        BY <1>9, <2>2
      <3>3. /\ \A r \in Record : graded[j][r] + errored[j][r] <= 1
            /\ updated[j] = Cardinality({r \in Record : graded[j][r] = 1})
            /\ errs[j] = Cardinality({r \in Record : errored[j][r] = 1})
        BY DEF IInv, GradedOnce
      <3> QED
        BY <3>1, <3>2, <3>3
    <2> QED
      BY <2>1, <2>2
  <1>14. ChainInv'
    <2> SUFFICES ASSUME NEW c \in Step, NEW d \in Step, Emitted(d)', Before(c, d)
                 PROVE  c \in processed \cup {e}
      BY <1>1 DEF ChainInv
    <2>1. \A v \in Worker : pc'[v] # "idle" => pc[v] # "idle"
      BY <1>2 DEF IInv, TypeOK
    <2>2. Emitted(e)
      BY <1>2 DEF Emitted
    <2>3. Emitted(d) \/ d = n
      BY <1>1, <1>2, <1>11, <2>1, <2>2 DEF Emitted
    <2>4. CASE Emitted(d)
      BY <2>4 DEF IInv, ChainInv
    <2>5. CASE d = n
      <3>1. c = e \/ Before(c, e)
        BY <1>3, <2>5, NextStep
      <3> QED
        BY <1>3, <2>2, <3>1 DEF IInv, ChainInv
    <2> QED
      BY <2>3, <2>4, <2>5
  <1>15. RowsInv'
    <2>1. n.pass # 0
      BY <1>3, NextStep
    <2> QED
      BY <1>1, <1>11, <2>1 DEF IInv, RowsInv
  <1>16. ASSUME NEW j \in Job, NEW r \in Record, Fresh(j, r), r \notin seen[w] \/ j # e.job
         PROVE  Fresh(j, r)'
    <2>1. CASE j # e.job
      BY <1>9, <1>16, <2>1 DEF Fresh
    <2>2. CASE j = e.job /\ r \notin seen[w]
      BY <1>7, <1>8, <1>9, <1>16, <2>2 DEF Fresh
    <2> QED
      BY <1>16, <2>1, <2>2
  <1>17. DueInv'
    <2> SUFFICES ASSUME NEW r \in Record
                 PROVE  /\ r \in due' => WindowOf[r] \in synced' /\ \A j \in Job : Fresh(j, r)'
                        /\ WindowOf[r] \notin synced' => \A j \in Job : Fresh(j, r)'
      BY DEF DueInv
    <2> QED
      BY <1>1, <1>4, <1>16 DEF IInv, DueInv
  <1>18. SeenInv'
    <2> SUFFICES ASSUME NEW v \in Worker, pc'[v] = "apply", NEW r \in seen[v]
                 PROVE  /\ CourtOf[r] = at[v].court
                        /\ WindowOf[r] \in synced
                        /\ at[v] \notin processed \cup {e} => Fresh(at[v].job, r)'
      BY <1>1, <1>2 DEF SeenInv
    <2>1. v # w /\ pc[v] = "apply" /\ at[v] \in Step /\ at[v].job \in Job /\ r \in Record
      BY <1>2 DEF IInv, TypeOK, Step
    <2>2. CourtOf[r] = at[v].court /\ WindowOf[r] \in synced
      BY <2>1 DEF IInv, SeenInv
    <2>3. ASSUME at[v] \notin processed, at[v] # e PROVE Fresh(at[v].job, r)'
      <3>1. Fresh(at[v].job, r)
        BY <2>1, <2>3 DEF IInv, SeenInv
      <3>2. Emitted(at[v]) /\ Emitted(e)
        BY <1>2, <2>1 DEF Emitted
      <3>3. ~Before(at[v], e) /\ ~Before(e, at[v])
        BY <1>3, <2>1, <2>3, <3>2 DEF IInv, ChainInv
      <3>4. at[v].job # e.job \/ at[v].court # e.court
        BY <1>3, <2>1, <2>3, <3>3, Ordered
      <3>5. r \notin seen[w] \/ at[v].job # e.job
        BY <1>4, <2>2, <3>4
      <3> QED
        BY <1>2, <1>16, <2>1, <3>1, <3>5 DEF Fresh
    <2> QED
      BY <2>2, <2>3
  <1> QED
    BY <1>12, <1>13, <1>14, <1>15, <1>17, <1>18 DEF IInv
-----------------------------------------------------------------------------
(* What is to come of a step.                                              *)

\* The scan or the commit of the step is to come.
Ahead(e) == Coming(e, {"scan", "apply"})

\* The step has an end before it: a commit, or the close of its import.
WillClose(e) == Coming(e, {"scan", "apply", "close"})

\* asynq waits for one execution of a step that is active, and for no other.
HoldInv ==
    /\ \A w \in Worker : holds[w] => pc[w] # "idle" /\ task[at[w]] = "active"
    /\ \A w, v \in Worker : holds[w] /\ holds[v] /\ at[w] = at[v] => w = v
    /\ \A e \in Step : task[e] = "active" => \E w \in Worker : holds[w] /\ at[w] = e

AheadKept == \A e \in Step : Ahead(e) => Ahead(e)'

CloseKept == \A e \in Step : WillClose(e) => WillClose(e)'

\* Both are kept when every phase of an execution short of its end is.
LEMMA BothKept ==
    ASSUME \A P \in SUBSET {"scan", "apply", "close"}, e \in Step :
              "scan" \in P /\ Coming(e, P) => Coming(e, P)'
    PROVE  AheadKept /\ CloseKept
  <1>1. /\ {"scan", "apply"} \in SUBSET {"scan", "apply", "close"} /\ "scan" \in {"scan", "apply"}
        /\ {"scan", "apply", "close"} \in SUBSET {"scan", "apply", "close"}
        /\ "scan" \in {"scan", "apply", "close"}
    OBVIOUS
  <1>2. AheadKept
    BY <1>1 DEF AheadKept, Ahead
  <1>3. CloseKept
    BY <1>1 DEF CloseKept, WillClose
  <1> QED
    BY <1>2, <1>3

\* An execution that asynq does not wait for, or whose step is archived or
\* tried again, ends without taking the step's end with it.
LEMMA LeavesKeepComing ==
    ASSUME IInv, HoldInv, NEW w \in Worker, pc[w] # "idle",
           UNCHANGED <<rows, processed>>,
           \A v \in Worker : v # w => /\ pc'[v] = pc[v]
                                      /\ at'[v] = at[v]
                                      /\ holds'[v] = holds[v],
           ~holds'[w],
           \A e \in Step : e # at[w] => task'[e] = task[e],
           ~holds[w] => task' = task,
           holds[w] => /\ task'[at[w]] \in {"none", "pending", "archived"}
                       /\ pc[w] # "ack" => task'[at[w]] \in {"pending", "archived"}
    PROVE  HoldInv' /\ AheadKept /\ CloseKept
  <1>1. at[w] \in Step /\ (holds[w] => task[at[w]] = "active")
    BY DEF IInv, TypeOK, HoldInv
  <1>2. \A v \in Worker : v # w /\ holds[v] => at[v] # at[w] \/ ~holds[w]
    BY DEF HoldInv
  <1>3. HoldInv'
    <2>1. ASSUME NEW v \in Worker, holds'[v] PROVE pc'[v] # "idle" /\ task'[at'[v]] = "active"
      <3>1. v # w /\ holds[v] /\ pc'[v] = pc[v] /\ at'[v] = at[v]
        BY <2>1
      <3>2. pc[v] # "idle" /\ task[at[v]] = "active" /\ at[v] \in Step
        BY <3>1 DEF IInv, TypeOK, HoldInv
      <3> QED
        BY <1>2, <3>1, <3>2
    <2>2. ASSUME NEW v \in Worker, NEW u \in Worker, holds'[v], holds'[u], at'[v] = at'[u]
          PROVE  v = u
      BY <2>2 DEF HoldInv
    <2>3. ASSUME NEW e \in Step, task'[e] = "active"
          PROVE  \E v \in Worker : holds'[v] /\ at'[v] = e
      <3>1. task[e] = "active" /\ (e = at[w] => ~holds[w])
        BY <2>3
      <3>2. PICK v \in Worker : holds[v] /\ at[v] = e
        BY <3>1 DEF HoldInv
      <3>3. v # w
        BY <3>1, <3>2
      <3> QED
        BY <3>2, <3>3
    <2> QED
      BY <2>1, <2>2, <2>3 DEF HoldInv
  <1>4. ASSUME NEW P \in SUBSET {"scan", "apply", "close"}, NEW e \in Step, Coming(e, P)
        PROVE  Coming(e, P)'
    <2>1. CASE rows[e] > 0 /\ task[e] = "none"
      <3>1. task'[e] = task[e]
        BY <1>1, <2>1
      <3> QED
        BY <1>4, <2>1, <3>1 DEF Coming
    <2>2. CASE task[e] \in {"pending", "archived"}
      <3>1. task'[e] = task[e]
        BY <1>1, <2>2
      <3> QED
        BY <1>4, <2>2, <3>1 DEF Coming
    <2>3. ASSUME NEW v \in Worker, holds[v], at[v] = e, pc[v] \in P
          PROVE  Coming(e, P)'
      <3>1. CASE v = w
        <4>1. pc[w] # "ack"
          BY <2>3, <3>1
        <4>2. task'[e] \in {"pending", "archived"}
          BY <2>3, <3>1, <4>1
        <4> QED
          BY <1>4, <4>2 DEF Coming
      <3>2. CASE v # w
        <4>1. holds'[v] /\ at'[v] = e /\ pc'[v] \in P
          BY <2>3, <3>2
        <4> QED
          BY <1>4, <4>1 DEF Coming
      <3> QED
        BY <3>1, <3>2
    <2> QED
      BY <1>4, <2>1, <2>2, <2>3 DEF Coming
  <1> QED
    BY <1>3, <1>4, BothKept

\* The relay makes a task of a row that meets none.
LEMMA RelayKeepsComing ==
    ASSUME IInv, HoldInv, NEW e \in Step, RelayStep(e)
    PROVE  HoldInv' /\ AheadKept /\ CloseKept
  <1>1. /\ UNCHANGED <<processed, pc, at, holds>>
        /\ \A d \in Step : d # e => rows'[d] = rows[d] /\ task'[d] = task[d]
        /\ task'[e] = IF task[e] = "none" THEN "pending" ELSE task[e]
    BY DEF RelayStep, execVars, IInv, TypeOK
  <1>2. HoldInv'
    <2>1. \A w \in Worker : at[w] \in Step
      BY DEF IInv, TypeOK
    <2>2. \A d \in Step : task'[d] = "active" <=> task[d] = "active"
      BY <1>1
    <2> QED
      BY <1>1, <2>1, <2>2 DEF HoldInv
  <1>3. ASSUME NEW P \in SUBSET {"scan", "apply", "close"}, NEW d \in Step, Coming(d, P)
        PROVE  Coming(d, P)'
    <2>1. d \notin processed'
      BY <1>1, <1>3 DEF Coming
    <2>2. CASE rows[d] > 0 /\ task[d] = "none"
      BY <1>1, <2>1, <2>2 DEF Coming
    <2>3. CASE task[d] \in {"pending", "archived"}
      BY <1>1, <2>1, <2>3 DEF Coming
    <2>4. CASE \E w \in Worker : holds[w] /\ at[w] = d /\ pc[w] \in P
      BY <1>1, <2>1, <2>4 DEF Coming
    <2> QED
      BY <1>3, <2>2, <2>3, <2>4 DEF Coming
  <1> QED
    BY <1>2, <1>3, BothKept

\* A dispatch gives a pending step its execution.
LEMMA DispatchKeepsComing ==
    ASSUME IInv, HoldInv, NEW w \in Worker, NEW e \in Step, Dispatch(w, e)
    PROVE  HoldInv' /\ AheadKept /\ CloseKept
  <1>1. /\ pc[w] = "idle" /\ task[e] = "pending" /\ ~holds[w]
        /\ UNCHANGED <<rows, processed>>
    BY DEF Dispatch, HoldInv
  <1>2. /\ pc'[w] = "scan" /\ at'[w] = e /\ holds'[w] /\ task'[e] = "active"
        /\ \A v \in Worker : v # w => pc'[v] = pc[v] /\ at'[v] = at[v] /\ holds'[v] = holds[v]
        /\ \A d \in Step : d # e => task'[d] = task[d]
    BY DEF Dispatch, IInv, TypeOK
  <1>3. HoldInv'
    <2>1. \A v \in Worker : at[v] \in Step
      BY DEF IInv, TypeOK
    <2>2. \A v \in Worker : holds[v] => v # w /\ at[v] # e
      BY <1>1 DEF HoldInv
    <2>3. ASSUME NEW v \in Worker, holds'[v] PROVE pc'[v] # "idle" /\ task'[at'[v]] = "active"
      <3>1. CASE v = w
        BY <1>2, <3>1
      <3>2. CASE v # w
        BY <1>2, <2>1, <2>2, <2>3, <3>2 DEF HoldInv
      <3> QED
        BY <3>1, <3>2
    <2>4. \A v, u \in Worker : holds'[v] /\ holds'[u] /\ at'[v] = at'[u] => v = u
      BY <1>2, <2>2 DEF HoldInv
    <2>5. \A d \in Step : task'[d] = "active" => \E v \in Worker : holds'[v] /\ at'[v] = d
      BY <1>2, <2>2 DEF HoldInv
    <2> QED
      BY <2>3, <2>4, <2>5 DEF HoldInv
  <1>4. ASSUME NEW P \in SUBSET {"scan", "apply", "close"}, "scan" \in P,
               NEW d \in Step, Coming(d, P)
        PROVE  Coming(d, P)'
    <2>1. d \notin processed'
      BY <1>1, <1>4 DEF Coming
    <2>2. CASE d = e
      BY <1>2, <1>4, <2>1, <2>2 DEF Coming
    <2>3. CASE d # e /\ ((rows[d] > 0 /\ task[d] = "none") \/ task[d] \in {"pending", "archived"})
      BY <1>1, <1>2, <2>1, <2>3 DEF Coming
    <2>4. ASSUME NEW v \in Worker, holds[v], at[v] = d, pc[v] \in P
          PROVE  Coming(d, P)'
      <3>1. v # w
        BY <1>1, <2>4
      <3>2. holds'[v] /\ at'[v] = d /\ pc'[v] \in P
        BY <1>2, <2>4, <3>1
      <3> QED
        BY <2>1, <3>2 DEF Coming
    <2> QED
      BY <1>4, <2>2, <2>3, <2>4 DEF Coming
  <1> QED
    BY <1>3, <1>4, BothKept

\* An answer deletes the task of a step that has ended.
LEMMA AnswerKeepsComing ==
    ASSUME IInv, HoldInv, NEW w \in Worker, Answer(w)
    PROVE  HoldInv' /\ AheadKept /\ CloseKept
  <1>1. pc[w] = "ack" /\ UNCHANGED <<rows, processed>> /\ Return(w)
    BY DEF Answer
  <1>2. /\ ~holds'[w]
        /\ \A v \in Worker : v # w => pc'[v] = pc[v] /\ at'[v] = at[v] /\ holds'[v] = holds[v]
    BY <1>1 DEF Return, Goto, IInv, TypeOK
  <1>3. /\ \A e \in Step : e # at[w] => task'[e] = task[e]
        /\ ~holds[w] => task' = task
        /\ holds[w] => task'[at[w]] = "none"
    BY DEF Answer, IInv, TypeOK
  <1> QED
    BY <1>1, <1>2, <1>3, LeavesKeepComing

\* A failed attempt leaves its step pending or archived.
LEMMA FaultsKeepComing ==
    ASSUME IInv, HoldInv, NEW w \in Worker, Fault(w) \/ RejectEnvelope(w) \/ LoseLease(w)
    PROVE  HoldInv' /\ AheadKept /\ CloseKept
  <1>1. pc[w] # "idle" /\ UNCHANGED <<rows, processed>>
    BY DEF Fault, RejectEnvelope, LoseLease
  <1>2. /\ ~holds'[w]
        /\ \A v \in Worker : v # w => pc'[v] = pc[v] /\ at'[v] = at[v] /\ holds'[v] = holds[v]
    BY DEF Fault, RejectEnvelope, LoseLease, Return, Goto, IInv, TypeOK
  <1>3. /\ \A e \in Step : e # at[w] => task'[e] = task[e]
        /\ ~holds[w] => task' = task
        /\ holds[w] => task'[at[w]] \in {"pending", "archived"}
    BY DEF Fault, RejectEnvelope, LoseLease, FailAttempt, IInv, TypeOK
  <1> QED
    BY <1>1, <1>2, <1>3, LeavesKeepComing

\* A window only adds rows.
LEMMA DiscoverKeepsComing ==
    ASSUME IInv, HoldInv, NEW win \in Window, DiscoverWindow(win)
    PROVE  HoldInv' /\ AheadKept /\ CloseKept
  <1>1. /\ UNCHANGED <<task, processed, pc, at, holds>>
        /\ \A e \in Step : rows[e] \in Nat /\ (rows'[e] = rows[e] \/ rows'[e] = rows[e] + 1)
    <2>1. Cardinality(Window) \in Nat
      BY FS_CardinalityType, EnrichmentAssumptions
    <2> QED
      BY <2>1 DEF DiscoverWindow, execVars, IInv, TypeOK
  <1>2. HoldInv'
    BY <1>1 DEF HoldInv
  <1>3. \A e \in Step : rows[e] > 0 => rows'[e] > 0
    BY <1>1
  <1>4. AheadKept
    BY <1>1, <1>3 DEF AheadKept, Ahead, Coming
  <1>5. CloseKept
    BY <1>1, <1>3 DEF CloseKept, WillClose, Coming
  <1> QED
    BY <1>2, <1>4, <1>5

\* A scan leads on to a commit, or to a close if the court has nothing due.
LEMMA SelectKeepsComing ==
    ASSUME IInv, HoldInv, NEW w \in Worker, SelectDueForEnrichment(w)
    PROVE  /\ HoldInv' /\ CloseKept
           /\ \A e \in Step : Ahead(e) => Ahead(e)' \/ (e = at[w] /\ DueOf(e.court) = {})
  <1>1. PICK S \in SUBSET DueOf(at[w].court) :
            /\ S = DueOf(at[w].court) \/ Cardinality(S) = ScanLimit
            /\ pc' = [pc EXCEPT ![w] = IF S = {} THEN "close" ELSE "apply"]
    BY DEF SelectDueForEnrichment, Goto
  <1>2. UNCHANGED <<recVars, rows, task, processed, at, holds>> /\ pc[w] = "scan"
    BY DEF SelectDueForEnrichment, taskVars
  <1>3. S = {} => DueOf(at[w].court) = {}
    BY <1>1, FS_EmptySet, EnrichmentAssumptions
  <1>4. /\ pc'[w] \in {"apply", "close"} /\ (pc'[w] = "close" => S = {})
        /\ \A v \in Worker : v # w => pc'[v] = pc[v]
    BY <1>1 DEF IInv, TypeOK
  <1>5. HoldInv'
    BY <1>2, <1>4 DEF HoldInv
  <1>6. CloseKept
    BY <1>2, <1>4 DEF CloseKept, WillClose, Coming
  <1>7. ASSUME NEW e \in Step, Ahead(e) PROVE Ahead(e)' \/ (e = at[w] /\ DueOf(e.court) = {})
    <2>1. CASE (rows[e] > 0 /\ task[e] = "none") \/ task[e] \in {"pending", "archived"}
      BY <1>2, <1>7, <2>1 DEF Ahead, Coming
    <2>2. ASSUME NEW v \in Worker, holds[v], at[v] = e, pc[v] \in {"scan", "apply"}
          PROVE  Ahead(e)' \/ (e = at[w] /\ DueOf(e.court) = {})
      <3>1. CASE v # w \/ pc'[w] = "apply"
        BY <1>2, <1>4, <1>7, <2>2, <3>1 DEF Ahead, Coming
      <3>2. CASE v = w /\ pc'[w] = "close"
        BY <1>3, <1>4, <2>2, <3>2
      <3> QED
        BY <1>4, <3>1, <3>2
    <2> QED
      BY <1>7, <2>1, <2>2 DEF Ahead, Coming
  <1> QED
    BY <1>5, <1>6, <1>7

\* A close has neither the scan nor the commit of a step before it.
LEMMA CloseKeepsComing ==
    ASSUME IInv, HoldInv, NEW w \in Worker, closeIfImportDrained(w)
    PROVE  HoldInv' /\ AheadKept
  <1>1. /\ UNCHANGED <<rows, task, processed, at, holds>> /\ pc[w] = "close" /\ pc'[w] = "ack"
        /\ \A v \in Worker : v # w => pc'[v] = pc[v]
    BY DEF closeIfImportDrained, Goto, taskVars, IInv, TypeOK
  <1>2. HoldInv'
    BY <1>1 DEF HoldInv
  <1>3. AheadKept
    BY <1>1 DEF AheadKept, Ahead, Coming
  <1> QED
    BY <1>2, <1>3

\* A commit ends its own step, whose next pass was not emitted before.
LEMMA ApplyKeepsComing ==
    ASSUME IInv, HoldInv, NEW w \in Worker, applyBatch(w)
    PROVE  /\ HoldInv'
           /\ \A d \in Step : /\ d # at[w] /\ Ahead(d) => Ahead(d)'
                              /\ d # at[w] /\ WillClose(d) => WillClose(d)'
           /\ at[w] \notin processed /\ at[w].pass # MaxPass =>
                 \E n \in Step : n = nextEnrichmentBatchStep(at[w]) /\ Ahead(n)' /\ WillClose(n)'
  <1>1. PICK e \in Step : e = at[w]
    BY DEF IInv, TypeOK
  <1>2. PICK n : n = nextEnrichmentBatchStep(e)
    OBVIOUS
  <1>3. /\ pc[w] = "apply" /\ pc'[w] = "ack" /\ UNCHANGED <<task, at, holds>>
        /\ \A v \in Worker : v # w => pc'[v] = pc[v]
    BY DEF applyBatch, Goto, IInv, TypeOK
  <1>4. /\ processed' = processed \cup {e}
        /\ rows' = rows \/ rows' = [rows EXCEPT ![n] = @ + 1]
        /\ e \notin processed => rows' = [rows EXCEPT ![n] = @ + 1]
    BY <1>1, <1>2 DEF applyBatch, SeenOrMark, Resume
  <1>5. \A d \in Step : rows[d] \in Nat
    <2>1. Cardinality(Window) \in Nat
      BY FS_CardinalityType, EnrichmentAssumptions
    <2> QED
      BY <2>1 DEF IInv, TypeOK
  <1>6. \A d \in Step : rows[d] > 0 => rows'[d] > 0
    BY <1>4, <1>5 DEF IInv, TypeOK
  <1>7. HoldInv'
    BY <1>3 DEF HoldInv
  <1>8. ASSUME NEW d \in Step, d # e PROVE (Ahead(d) => Ahead(d)') /\ (WillClose(d) => WillClose(d)')
    <2>1. d \notin processed => d \notin processed'
      BY <1>4, <1>8
    <2>2. \A v \in Worker : at[v] = d => v # w /\ pc'[v] = pc[v]
      BY <1>1, <1>3, <1>8
    <2>3. Ahead(d) => Ahead(d)'
      BY <1>3, <1>6, <2>1, <2>2 DEF Ahead, Coming
    <2>4. WillClose(d) => WillClose(d)'
      BY <1>3, <1>6, <2>1, <2>2 DEF WillClose, Coming
    <2> QED
      BY <2>3, <2>4
  <1>9. ASSUME e \notin processed, e.pass # MaxPass
        PROVE  n \in Step /\ Ahead(n)' /\ WillClose(n)'
    <2>1. n \in Step
      <3>1. e.job \in Job /\ e.court \in Court /\ e.pass \in 0..MaxPass
        BY DEF Step
      <3>2. e.pass + 1 \in 0..MaxPass
        BY <1>9, <3>1, EnrichmentAssumptions
      <3> QED
        BY <1>2, <3>1, <3>2 DEF nextEnrichmentBatchStep, Step
    <2>2. Before(e, n)
      BY <1>2, NextStep
    <2>3. ~Emitted(n)
      BY <1>9, <2>1, <2>2 DEF IInv, ChainInv
    <2>4. n # e
      BY <1>1, <1>3, <2>3 DEF Emitted
    <2>5. n \notin processed' /\ task'[n] = "none"
      BY <1>3, <1>4, <2>3, <2>4 DEF Emitted
    <2>6. rows'[n] = rows[n] + 1
      BY <1>4, <1>9, <2>1 DEF IInv, TypeOK
    <2>7. rows'[n] > 0
      BY <1>5, <2>1, <2>6
    <2> QED
      BY <2>1, <2>5, <2>7 DEF Ahead, WillClose, Coming
  <1> QED
    BY <1>1, <1>2, <1>7, <1>8, <1>9
-----------------------------------------------------------------------------
(* A due record has a scan or a commit to come, or came too late.          *)

\* The bound on the passes, which the code does not have, was not reached.
PassesLeft == \A e \in processed : e.pass # MaxPass

\* The step is one of the chain of the record's import and court.
OwnChain(e, r) == e.job = JobOf[WindowOf[r]] /\ e.court = CourtOf[r]

\* A chain is begun by a window that found one of its records.
SourceInv == \A e \in Step : Emitted(e) => \E r \in Record : WindowOf[r] \in synced /\ OwnChain(e, r)

\* A step that ends its chain leaves due what came too late.
ClosingInv ==
    \A w \in Worker : pc[w] \in {"close", "ack"} /\ at[w] \notin processed =>
        \A r \in due : OwnChain(at[w], r) => Overtaken(r)

\* A record is owned by the chain of its import and court.
OwnedInv ==
    PassesLeft => \A r \in due : (\E e \in Step : OwnChain(e, r) /\ Ahead(e)) \/ Overtaken(r)

ChainsInv == IInv /\ HoldInv /\ SourceInv /\ ClosingInv /\ OwnedInv

\* Once attempted, the records of the earlier window stay so.
LEMMA OvertakenStays ==
    ASSUME NEW r \in Record, Overtaken(r), synced \subseteq synced',
           \A q \in Record : q \in due' => q \in due \/ WindowOf[q] \notin synced
    PROVE  Overtaken(r)'
  <1>1. PICK win \in synced \ {WindowOf[r]} :
            /\ JobOf[win] = JobOf[WindowOf[r]]
            /\ \E q \in Found(win) : CourtOf[q] = CourtOf[r]
            /\ \A q \in Found(win) : CourtOf[q] = CourtOf[r] => q \notin due
    BY DEF Overtaken
  <1>2. \A q \in Found(win) : q \in Record /\ WindowOf[q] = win
    BY DEF Found
  <1>3. \A q \in Found(win) : CourtOf[q] = CourtOf[r] => q \notin due'
    BY <1>1, <1>2
  <1>4. win \in synced' \ {WindowOf[r]}
    BY <1>1
  <1> QED
    BY <1>1, <1>3, <1>4 DEF Overtaken, Found

\* What overtook a record overtakes those that a new window finds beside it.
LEMMA OvertakenAlike ==
    ASSUME NEW r \in Record, NEW q \in Record, Overtaken(q), WindowOf[r] \notin synced,
           JobOf[WindowOf[q]] = JobOf[WindowOf[r]], CourtOf[q] = CourtOf[r]
    PROVE  Overtaken(r)
  BY DEF Overtaken

\* A chain that was begun was begun by a window whose records of the court
\* are attempted, or one of them is due.
LEMMA EarlierWindow ==
    ASSUME SourceInv, NEW r \in Record, WindowOf[r] \notin synced,
           NEW e \in Step, Emitted(e), OwnChain(e, r)
    PROVE  Overtaken(r) \/ \E q \in Record : /\ q \in due /\ OwnChain(e, q) /\ CourtOf[q] = CourtOf[r]
                                             /\ JobOf[WindowOf[q]] = JobOf[WindowOf[r]]
  <1>1. PICK p \in Record : WindowOf[p] \in synced /\ OwnChain(e, p)
    BY DEF SourceInv
  <1>2. CourtOf[p] = CourtOf[r] /\ JobOf[WindowOf[p]] = JobOf[WindowOf[r]]
    BY <1>1 DEF OwnChain
  <1>3. CASE \A q \in Found(WindowOf[p]) : CourtOf[q] = CourtOf[r] => q \notin due
    <2>1. p \in Found(WindowOf[p])
      BY DEF Found
    <2> QED
      BY <1>1, <1>2, <1>3, <2>1 DEF Overtaken
  <1>4. CASE \E q \in Found(WindowOf[p]) : CourtOf[q] = CourtOf[r] /\ q \in due
    BY <1>2, <1>4 DEF Found, OwnChain
  <1> QED
    BY <1>3, <1>4

\* A delivery keeps the chains when it keeps what is ahead.
LEMMA DeliveryKeepsChains ==
    ASSUME ChainsInv, IInv', HoldInv', AheadKept, Undisturbed,
           \A w \in Worker : pc'[w] \in {"close", "ack"} /\ at'[w] \notin processed =>
              pc[w] \in {"close", "ack"} /\ at'[w] = at[w]
    PROVE  ChainsInv'
  <1>1. UNCHANGED <<synced, due, processed>> /\ \A e \in Step : Emitted(e)' => Emitted(e)
    BY DEF Undisturbed, recVars
  <1>2. \A r \in due : Overtaken(r) => Overtaken(r)'
    BY <1>1 DEF Overtaken, Found
  <1>3. SourceInv'
    BY <1>1 DEF ChainsInv, SourceInv, OwnChain
  <1>4. ClosingInv'
    BY <1>1, <1>2 DEF ChainsInv, ClosingInv, OwnChain
  <1>5. OwnedInv'
    <2> SUFFICES ASSUME PassesLeft', NEW r \in due
                 PROVE  (\E e \in Step : OwnChain(e, r) /\ Ahead(e)') \/ Overtaken(r)'
      BY <1>1 DEF OwnedInv, OwnChain
    <2>1. PassesLeft
      BY <1>1 DEF PassesLeft
    <2>2. (\E e \in Step : OwnChain(e, r) /\ Ahead(e)) \/ Overtaken(r)
      BY <2>1 DEF ChainsInv, OwnedInv
    <2> QED
      BY <1>2, <2>2 DEF AheadKept
  <1> QED
    BY <1>3, <1>4, <1>5 DEF ChainsInv

\* A discovered window begins its chains, joins those that go on, or comes
\* after their end.
LEMMA DiscoverKeepsChains ==
    ASSUME ChainsInv, IInv', NEW win \in Window, DiscoverWindow(win)
    PROVE  ChainsInv'
  <1>1. /\ win \notin synced /\ synced' = synced \cup {win} /\ due' = due \cup Found(win)
        /\ UNCHANGED <<task, processed, pc, at>>
        /\ \A e \in Step : rows'[e] = IF \E r \in Found(win) : e = firstStep(JobOf[win], CourtOf[r])
                                      THEN rows[e] + 1 ELSE rows[e]
    BY DEF DiscoverWindow, execVars
  <1>2. \A e \in Step : rows[e] \in Nat
    <2>1. Cardinality(Window) \in Nat
      BY FS_CardinalityType, EnrichmentAssumptions
    <2> QED
      BY <2>1 DEF ChainsInv, IInv, TypeOK
  <1>3. HoldInv' /\ AheadKept
    BY DiscoverKeepsComing DEF ChainsInv
  <1>4. \A r \in Found(win) : r \in Record /\ WindowOf[r] = win
    BY DEF Found
  <1>5. ASSUME NEW r \in Record, Overtaken(r) PROVE Overtaken(r)'
    <2>1. synced \subseteq synced' /\ \A q \in Record : q \in due' => q \in due \/ WindowOf[q] \notin synced
      BY <1>1, <1>4
    <2> QED
      BY <1>5, <2>1, OvertakenStays
  <1>6. \A r \in due : r \in Record
    BY DEF ChainsInv, IInv, TypeOK
  <1>7. SourceInv'
    <2> SUFFICES ASSUME NEW e \in Step, Emitted(e)'
                 PROVE  \E r \in Record : WindowOf[r] \in synced' /\ OwnChain(e, r)
      BY DEF SourceInv, OwnChain
    <2>1. CASE Emitted(e)
      BY <1>1, <2>1 DEF ChainsInv, SourceInv
    <2>2. CASE ~Emitted(e)
      <3>1. PICK r \in Found(win) : e = firstStep(JobOf[win], CourtOf[r])
        BY <1>1, <2>2 DEF Emitted
      <3> QED
        BY <1>1, <3>1 DEF Found, OwnChain, firstStep
    <2> QED
      BY <2>1, <2>2
  <1>8. ClosingInv'
    <2> SUFFICES ASSUME NEW w \in Worker, pc[w] \in {"close", "ack"}, at[w] \notin processed,
                        NEW r \in due', OwnChain(at[w], r)
                 PROVE  Overtaken(r)'
      BY <1>1 DEF ClosingInv, OwnChain
    <2>1. at[w] \in Step /\ Emitted(at[w])
      BY DEF ChainsInv, IInv, TypeOK, Emitted
    <2>2. \A q \in due : OwnChain(at[w], q) => Overtaken(q)
      BY DEF ChainsInv, ClosingInv
    <2>3. CASE r \in due
      BY <1>5, <1>6, <2>2, <2>3
    <2>4. CASE r \in Found(win)
      <3>1. r \in Record /\ WindowOf[r] \notin synced
        BY <1>1, <1>4, <2>4
      <3>2. Overtaken(r)
        BY <2>1, <2>2, <3>1, EarlierWindow, OvertakenAlike DEF ChainsInv
      <3> QED
        BY <1>5, <3>1, <3>2
    <2> QED
      BY <1>1, <2>3, <2>4
  <1>9. OwnedInv'
    <2> SUFFICES ASSUME PassesLeft', NEW r \in due'
                 PROVE  (\E e \in Step : OwnChain(e, r) /\ Ahead(e)') \/ Overtaken(r)'
      BY DEF OwnedInv, OwnChain
    <2>1. \A q \in due : (\E e \in Step : OwnChain(e, q) /\ Ahead(e)) \/ Overtaken(q)
      BY <1>1 DEF ChainsInv, OwnedInv, PassesLeft
    <2>2. CASE r \in due
      BY <1>3, <1>5, <1>6, <2>1, <2>2 DEF AheadKept
    <2>3. CASE r \in Found(win)
      <3>1. r \in Record /\ WindowOf[r] = win /\ WindowOf[r] \notin synced
        BY <1>1, <1>4, <2>3
      <3>2. PICK e \in Step : e = firstStep(JobOf[win], CourtOf[r])
        BY <3>1, StepTypes, EnrichmentAssumptions
      <3>3. OwnChain(e, r)
        BY <3>1, <3>2 DEF OwnChain, firstStep
      <3>4. CASE ~Emitted(e)
        <4>1. e \notin processed /\ task[e] = "none"
          BY <3>4 DEF Emitted
        <4>2. rows'[e] = rows[e] + 1
          BY <1>1, <2>3, <3>2
        <4>3. rows'[e] > 0
          BY <1>2, <4>2
        <4>4. Ahead(e)'
          BY <1>1, <4>1, <4>3 DEF Ahead, Coming
        <4> QED
          BY <3>3, <4>4
      <3>5. CASE Emitted(e)
        <4>1. CASE Overtaken(r)
          BY <1>5, <3>1, <4>1
        <4>2. ASSUME NEW q \in Record, q \in due, OwnChain(e, q), CourtOf[q] = CourtOf[r],
                     JobOf[WindowOf[q]] = JobOf[WindowOf[r]]
              PROVE  (\E d \in Step : OwnChain(d, r) /\ Ahead(d)') \/ Overtaken(r)'
          <5>1. CASE Overtaken(q)
            <6>1. Overtaken(r)
              BY <3>1, <4>2, <5>1, OvertakenAlike
            <6> QED
              BY <1>5, <3>1, <6>1
          <5>2. ASSUME NEW d \in Step, OwnChain(d, q), Ahead(d)
                PROVE  OwnChain(d, r) /\ Ahead(d)'
            <6>1. OwnChain(d, r)
              BY <4>2, <5>2 DEF OwnChain
            <6>2. Ahead(d)'
              BY <1>3, <5>2 DEF AheadKept
            <6> QED
              BY <6>1, <6>2
          <5> QED
            BY <2>1, <4>2, <5>1, <5>2
        <4>3. Overtaken(r) \/ \E q \in Record : /\ q \in due /\ OwnChain(e, q)
                                                /\ CourtOf[q] = CourtOf[r]
                                                /\ JobOf[WindowOf[q]] = JobOf[WindowOf[r]]
          BY <3>1, <3>3, <3>5, EarlierWindow DEF ChainsInv
        <4> QED
          BY <4>1, <4>2, <4>3
      <3> QED
        BY <3>4, <3>5
    <2> QED
      BY <1>1, <2>2, <2>3
  <1> QED
    BY <1>3, <1>7, <1>8, <1>9 DEF ChainsInv

\* A scan that finds nothing due closes a chain without due records.
LEMMA SelectKeepsChains ==
    ASSUME ChainsInv, IInv', NEW w \in Worker, SelectDueForEnrichment(w)
    PROVE  ChainsInv'
  <1>1. PICK S \in SUBSET DueOf(at[w].court) :
            /\ S = DueOf(at[w].court) \/ Cardinality(S) = ScanLimit
            /\ pc' = [pc EXCEPT ![w] = IF S = {} THEN "close" ELSE "apply"]
    BY DEF SelectDueForEnrichment, Goto
  <1>2. UNCHANGED <<synced, due, rows, task, processed, at>> /\ pc[w] = "scan"
    BY DEF SelectDueForEnrichment, recVars, taskVars
  <1>3. S = {} => DueOf(at[w].court) = {}
    BY <1>1, FS_EmptySet, EnrichmentAssumptions
  <1>4. /\ HoldInv'
        /\ \A e \in Step : Ahead(e) => Ahead(e)' \/ (e = at[w] /\ DueOf(e.court) = {})
    BY SelectKeepsComing DEF ChainsInv
  <1>5. \A r \in due : r \in Record /\ (Overtaken(r) => Overtaken(r)')
    BY <1>2 DEF Overtaken, Found, ChainsInv, IInv, TypeOK
  <1>6. SourceInv'
    <2>1. \A v \in Worker : pc'[v] # "idle" => pc[v] # "idle"
      BY <1>1, <1>2 DEF ChainsInv, IInv, TypeOK
    <2>2. \A e \in Step : Emitted(e)' => Emitted(e)
      BY <1>2, <2>1 DEF Emitted
    <2> QED
      BY <1>2, <2>2 DEF ChainsInv, SourceInv, OwnChain
  <1>7. ClosingInv'
    <2> SUFFICES ASSUME NEW v \in Worker, pc'[v] \in {"close", "ack"}, at[v] \notin processed,
                        NEW r \in due, OwnChain(at[v], r)
                 PROVE  Overtaken(r)'
      BY <1>2 DEF ClosingInv, OwnChain
    <2>1. CASE v = w
      <3>1. S = {}
        BY <1>1, <2>1 DEF ChainsInv, IInv, TypeOK
      <3> QED
        BY <1>3, <1>5, <2>1, <3>1 DEF DueOf, OwnChain
    <2>2. CASE v # w
      <3>1. pc[v] \in {"close", "ack"}
        BY <1>1, <2>2 DEF ChainsInv, IInv, TypeOK
      <3> QED
        BY <1>5, <3>1 DEF ChainsInv, ClosingInv
    <2> QED
      BY <2>1, <2>2
  <1>8. OwnedInv'
    <2> SUFFICES ASSUME PassesLeft', NEW r \in due
                 PROVE  (\E e \in Step : OwnChain(e, r) /\ Ahead(e)') \/ Overtaken(r)'
      BY <1>2 DEF OwnedInv, OwnChain
    <2>1. (\E e \in Step : OwnChain(e, r) /\ Ahead(e)) \/ Overtaken(r)
      BY <1>2 DEF ChainsInv, OwnedInv, PassesLeft
    <2>2. ASSUME NEW e \in Step, OwnChain(e, r), Ahead(e) PROVE Ahead(e)'
      BY <1>4, <1>5, <2>2 DEF DueOf, OwnChain
    <2> QED
      BY <1>5, <2>1, <2>2
  <1> QED
    BY <1>4, <1>6, <1>7, <1>8 DEF ChainsInv

\* A commit hands its chain to the next pass.
LEMMA ApplyKeepsChains ==
    ASSUME ChainsInv, IInv', NEW w \in Worker, applyBatch(w)
    PROVE  ChainsInv'
  <1>1. PICK e \in Step : e = at[w]
    BY DEF ChainsInv, IInv, TypeOK
  <1>2. PICK n : n = nextEnrichmentBatchStep(e)
    OBVIOUS
  <1>3. /\ pc[w] = "apply" /\ pc' = [pc EXCEPT ![w] = "ack"]
        /\ UNCHANGED <<task, at>>
    BY DEF applyBatch, Goto
  <1>4. /\ processed' = processed \cup {e} /\ due' \subseteq due /\ synced' = synced
        /\ rows' = rows \/ rows' = [rows EXCEPT ![n] = @ + 1]
    BY <1>1, <1>2 DEF applyBatch, SeenOrMark, MarkEnrichmentAttempted, Resume, recVars
  <1>5. Emitted(e)
    BY <1>1, <1>3 DEF Emitted
  <1>6. /\ HoldInv'
        /\ \A d \in Step : d # e /\ Ahead(d) => Ahead(d)'
        /\ e \notin processed /\ e.pass # MaxPass => \E d \in Step : d = n /\ Ahead(d)'
    BY <1>1, <1>2, ApplyKeepsComing DEF ChainsInv
  <1>7. ASSUME NEW r \in due, Overtaken(r) PROVE Overtaken(r)'
    <2>1. r \in Record
      BY DEF ChainsInv, IInv, TypeOK
    <2>2. synced \subseteq synced' /\ \A q \in Record : q \in due' => q \in due
      BY <1>4
    <2> QED
      BY <1>7, <2>1, <2>2, OvertakenStays
  <1>8. SourceInv'
    <2> SUFFICES ASSUME NEW d \in Step, Emitted(d)'
                 PROVE  \E r \in Record : WindowOf[r] \in synced /\ OwnChain(d, r)
      BY <1>4 DEF SourceInv, OwnChain
    <2>1. Emitted(d) \/ d = e \/ d = n
      <3>1. \A v \in Worker : pc'[v] # "idle" => pc[v] # "idle"
        BY <1>3 DEF ChainsInv, IInv, TypeOK
      <3>2. d # n => rows'[d] = rows[d]
        BY <1>4 DEF ChainsInv, IInv, TypeOK
      <3> QED
        BY <1>3, <1>4, <3>1, <3>2 DEF Emitted
    <2>2. PICK r \in Record : WindowOf[r] \in synced /\ OwnChain(e, r)
      BY <1>5 DEF ChainsInv, SourceInv
    <2>3. d = n => OwnChain(d, r)
      BY <1>2, <2>2, NextStep DEF OwnChain, Before
    <2> QED
      BY <2>1, <2>2, <2>3 DEF ChainsInv, SourceInv
  <1>9. ClosingInv'
    <2> SUFFICES ASSUME NEW v \in Worker, pc'[v] \in {"close", "ack"}, at[v] \notin processed',
                        NEW r \in due', OwnChain(at[v], r)
                 PROVE  Overtaken(r)'
      BY <1>3 DEF ClosingInv, OwnChain
    <2>1. v # w
      BY <1>1, <1>4
    <2>2. pc[v] \in {"close", "ack"} /\ at[v] \notin processed /\ r \in due
      BY <1>3, <1>4, <2>1 DEF ChainsInv, IInv, TypeOK
    <2> QED
      BY <1>7, <2>2 DEF ChainsInv, ClosingInv
  <1>10. OwnedInv'
    <2> SUFFICES ASSUME PassesLeft', NEW r \in due'
                 PROVE  (\E d \in Step : OwnChain(d, r) /\ Ahead(d)') \/ Overtaken(r)'
      BY DEF OwnedInv, OwnChain
    <2>1. PassesLeft /\ e.pass # MaxPass /\ r \in due
      BY <1>4 DEF PassesLeft
    <2>2. (\E d \in Step : OwnChain(d, r) /\ Ahead(d)) \/ Overtaken(r)
      BY <2>1 DEF ChainsInv, OwnedInv
    <2>3. ASSUME NEW d \in Step, OwnChain(d, r), Ahead(d)
          PROVE  \E f \in Step : OwnChain(f, r) /\ Ahead(f)'
      <3>1. CASE d # e
        BY <1>6, <2>3, <3>1
      <3>2. CASE d = e
        <4>1. e \notin processed
          BY <2>3, <3>2 DEF Ahead, Coming
        <4>2. PICK f \in Step : f = n /\ Ahead(f)'
          BY <1>6, <2>1, <4>1
        <4>3. OwnChain(f, r)
          BY <1>2, <2>3, <3>2, <4>2, NextStep DEF OwnChain, Before
        <4> QED
          BY <4>2, <4>3
      <3> QED
        BY <3>1, <3>2
    <2> QED
      BY <1>7, <2>1, <2>2, <2>3
  <1> QED
    BY <1>6, <1>8, <1>9, <1>10 DEF ChainsInv

\* Every step keeps the chains.
LEMMA ChainsKept ==
    ASSUME ChainsInv, IInv', [Next]_vars
    PROVE  ChainsInv'
  <1>0. IInv /\ HoldInv
    BY DEF ChainsInv
  <1>1. ASSUME NEW win \in Window, DiscoverWindow(win) PROVE ChainsInv'
    BY <1>1, DiscoverKeepsChains
  <1>2. ASSUME NEW e \in Step, RelayStep(e) PROVE ChainsInv'
    <2>1. Undisturbed
      BY <1>0, <1>2, RelayKeeps
    <2>2. HoldInv' /\ AheadKept
      BY <1>0, <1>2, RelayKeepsComing
    <2>3. UNCHANGED <<pc, at>>
      BY <1>2 DEF RelayStep, execVars
    <2> QED
      BY <2>1, <2>2, <2>3, DeliveryKeepsChains
  <1>3. ASSUME NEW w \in Worker, NEW e \in Step, Dispatch(w, e) PROVE ChainsInv'
    <2>1. Undisturbed
      BY <1>0, <1>3, DispatchKeeps
    <2>2. HoldInv' /\ AheadKept
      BY <1>0, <1>3, DispatchKeepsComing
    <2>3. \A v \in Worker : pc'[v] \in {"close", "ack"} => pc[v] = pc'[v] /\ at'[v] = at[v]
      BY <1>0, <1>3 DEF Dispatch, IInv, TypeOK
    <2> QED
      BY <2>1, <2>2, <2>3, DeliveryKeepsChains
  <1>4. ASSUME NEW w \in Worker, SelectDueForEnrichment(w) PROVE ChainsInv'
    BY <1>4, SelectKeepsChains
  <1>5. ASSUME NEW w \in Worker, applyBatch(w) PROVE ChainsInv'
    BY <1>5, ApplyKeepsChains
  <1>6. ASSUME NEW w \in Worker, closeIfImportDrained(w) PROVE ChainsInv'
    <2>1. Undisturbed
      BY <1>0, <1>6, CloseKeeps
    <2>2. HoldInv' /\ AheadKept
      BY <1>0, <1>6, CloseKeepsComing
    <2>3. \A v \in Worker : pc'[v] \in {"close", "ack"} => pc[v] \in {"close", "ack"} /\ at'[v] = at[v]
      BY <1>0, <1>6 DEF closeIfImportDrained, Goto, IInv, TypeOK
    <2> QED
      BY <2>1, <2>2, <2>3, DeliveryKeepsChains
  <1>7. ASSUME NEW w \in Worker, Answer(w) PROVE ChainsInv'
    <2>1. Undisturbed
      BY <1>0, <1>7, AnswerKeeps
    <2>2. HoldInv' /\ AheadKept
      BY <1>0, <1>7, AnswerKeepsComing
    <2>3. \A v \in Worker : pc'[v] \in {"close", "ack"} => pc[v] = pc'[v] /\ at'[v] = at[v]
      BY <1>0, <1>7 DEF Answer, Return, Goto, IInv, TypeOK
    <2> QED
      BY <2>1, <2>2, <2>3, DeliveryKeepsChains
  <1>8. ASSUME NEW w \in Worker, Fault(w) \/ RejectEnvelope(w) \/ LoseLease(w) PROVE ChainsInv'
    <2>1. Undisturbed
      BY <1>0, <1>8, FaultsKeep
    <2>2. HoldInv' /\ AheadKept
      BY <1>0, <1>8, FaultsKeepComing
    <2>3. \A v \in Worker : pc'[v] \in {"close", "ack"} => pc[v] = pc'[v] /\ at'[v] = at[v]
      BY <1>0, <1>8 DEF Fault, RejectEnvelope, LoseLease, Return, Goto, IInv, TypeOK
    <2> QED
      BY <2>1, <2>2, <2>3, DeliveryKeepsChains
  <1>9. CASE UNCHANGED vars
    <2> USE <1>9 DEF vars, recVars, taskVars, execVars
    <2>1. HoldInv'
      BY <1>0 DEF HoldInv
    <2>2. SourceInv'
      BY DEF ChainsInv, SourceInv, OwnChain, Emitted
    <2>3. ClosingInv'
      BY DEF ChainsInv, ClosingInv, OwnChain, Overtaken, Found
    <2>4. OwnedInv'
      BY DEF ChainsInv, OwnedInv, OwnChain, Overtaken, Found, PassesLeft, Ahead, Coming
    <2> QED
      BY <2>1, <2>2, <2>3, <2>4 DEF ChainsInv
  <1> QED
    BY <1>1, <1>2, <1>3, <1>4, <1>5, <1>6, <1>7, <1>8, <1>9 DEF Next, RunStep
-----------------------------------------------------------------------------
(* The theorems.                                                           *)

\* Nothing was found, emitted or counted yet.
LEMMA Initially == Init => IInv
  <1> SUFFICES ASSUME Init PROVE IInv
    OBVIOUS
  <1>1. Cardinality({}) = 0 /\ Cardinality(Window) \in Nat
    BY FS_EmptySet, FS_CardinalityType, EnrichmentAssumptions
  <1>2. TypeOK
    <2>1. 0 \in 0..Cardinality(Window) /\ 0 \in 0..MaxRetry /\ 0 \in 0..MaxFaults
      BY <1>1, EnrichmentAssumptions
    <2> QED
      BY <2>1, StepTypes DEF Init, TypeOK
  <1>3. GradedOnce
    <2>1. \A j \in Job : /\ {r \in Record : graded[j][r] = 1} = {}
                         /\ {r \in Record : errored[j][r] = 1} = {}
      BY DEF Init
    <2>2. \A j \in Job : updated[j] = 0 /\ errs[j] = 0
      BY DEF Init
    <2>3. \A j \in Job, r \in Record : graded[j][r] + errored[j][r] <= 1
      BY DEF Init
    <2> QED
      BY <1>1, <2>1, <2>2, <2>3 DEF GradedOnce
  <1>4. ChainInv
    BY DEF Init, ChainInv, Emitted
  <1>5. RowsInv
    BY <1>1 DEF Init, RowsInv
  <1>6. DueInv /\ SeenInv
    BY DEF Init, DueInv, SeenInv, Fresh
  <1> QED
    BY <1>2, <1>3, <1>4, <1>5, <1>6 DEF IInv

\* A step that changes nothing keeps the invariant.
LEMMA StutterKeeps ==
    ASSUME IInv, UNCHANGED vars
    PROVE  IInv'
  <1> USE DEF vars, recVars, taskVars, execVars, rowVars
  <1>1. TypeOK'
    BY DEF IInv, TypeOK
  <1>2. GradedOnce'
    BY DEF IInv, GradedOnce
  <1>3. ChainInv'
    BY DEF IInv, ChainInv, Emitted
  <1>4. RowsInv'
    BY DEF IInv, RowsInv
  <1>5. DueInv'
    BY DEF IInv, DueInv, Fresh
  <1>6. SeenInv'
    BY DEF IInv, SeenInv, Fresh
  <1> QED
    BY <1>1, <1>2, <1>3, <1>4, <1>5, <1>6 DEF IInv

\* The inductive invariant: types, counts, the chain of the steps, and what
\* the executions have scanned.
THEOREM Invariance == Spec => []IInv
  <1>1. Init => IInv
    BY Initially
  <1>2. IInv /\ [Next]_vars => IInv'
    <2> SUFFICES ASSUME IInv, [Next]_vars PROVE IInv'
      OBVIOUS
    <2>1. ASSUME NEW win \in Window, DiscoverWindow(win) PROVE IInv'
      BY <2>1, DiscoverKeeps
    <2>2. ASSUME NEW e \in Step, RelayStep(e) PROVE IInv'
      BY <2>2, RelayKeeps
    <2>3. ASSUME NEW w \in Worker, NEW e \in Step, Dispatch(w, e) PROVE IInv'
      BY <2>3, DispatchKeeps
    <2>4. ASSUME NEW w \in Worker, RunStep(w) PROVE IInv'
      <3>1. CASE SelectDueForEnrichment(w)
        BY <3>1, SelectKeeps
      <3>2. CASE applyBatch(w)
        BY <3>2, ApplyAgainKeeps, ApplyKeeps
      <3>3. CASE closeIfImportDrained(w)
        BY <3>3, CloseKeeps
      <3>4. CASE Answer(w)
        BY <3>4, AnswerKeeps
      <3> QED
        BY <2>4, <3>1, <3>2, <3>3, <3>4 DEF RunStep
    <2>5. ASSUME NEW w \in Worker, Fault(w) \/ RejectEnvelope(w) \/ LoseLease(w) PROVE IInv'
      BY <2>5, FaultsKeep
    <2>6. CASE UNCHANGED vars
      BY <2>6, StutterKeeps
    <2> QED
      BY <2>1, <2>2, <2>3, <2>4, <2>5, <2>6 DEF Next
  <1> QED
    BY <1>1, <1>2, PTL DEF Spec

\* The columns of the records, the steps and the ENRICHMENT rows hold what
\* their CHECKs allow, for any number of windows, courts and workers.
THEOREM TypeCorrect == Spec => []TypeOK
  <1>1. IInv => TypeOK
    BY DEF IInv
  <1> QED
    BY <1>1, Invariance, PTL

\* capture_run.court_records_updated and errors count each record of an import
\* once, and not as both, whatever is delivered again, overlaps or fails.
THEOREM CountsOnce == Spec => []GradedOnce
  <1>1. IInv => GradedOnce
    BY DEF IInv
  <1> QED
    BY <1>1, Invariance, PTL

\* Whatever windows share a court: a due record has a scan or a commit of its
\* court to come, or an earlier window of its import had drained that court,
\* short of the bound on the passes, which is the model's. Each commit
\* publishes the next pass; a step that ends its chain leaves no record due
\* but those whose window came after its scan.
THEOREM BacklogIsOwned == Spec => [](PassesLeft => ServedUnlessOvertaken)
  <1>1. Init => ChainsInv
    <2>1. Init => HoldInv /\ SourceInv /\ ClosingInv /\ OwnedInv
      BY DEF Init, HoldInv, SourceInv, Emitted, ClosingInv, OwnedInv
    <2> QED
      BY <2>1, Initially DEF ChainsInv
  <1>2. ChainsInv /\ IInv' /\ [Next]_vars => ChainsInv'
    BY ChainsKept
  <1>3. ChainsInv => (PassesLeft => ServedUnlessOvertaken)
    BY DEF ChainsInv, OwnedInv, OwnChain, Ahead, Served, ServedUnlessOvertaken
  <1> QED
    BY <1>1, <1>2, <1>3, Invariance, PTL DEF Spec
-----------------------------------------------------------------------------
(* The ENRICHMENT row of an import is closed, where it is the only one.    *)

\* The tenant's records are of one import (enrichment.sql: "v0 runs one import at
\* a time").
OneImport == \A r, q \in Record : JobOf[WindowOf[r]] = JobOf[WindowOf[q]]

\* The row is closed, as PARTIAL exactly when an error was counted.
Truthful(j) ==
    runStatus[j] = IF \E r \in Record : errored[j][r] > 0 THEN "PARTIAL" ELSE "OK"

\* With nothing due, the row of an import that ran is closed, or a step will
\* come to it.
ClosedInv ==
    PassesLeft /\ due = {} => \A win \in synced : Found(win) # {} =>
        Truthful(JobOf[win]) \/ \E e \in Step : WillClose(e)

\* A delivery keeps what is promised when each step keeps its end.
LEMMA DeliveryKeepsClosing ==
    ASSUME ClosedInv, UNCHANGED <<synced, due, errored, processed, runStatus>>, CloseKept
    PROVE  ClosedInv'
  <1> SUFFICES ASSUME PassesLeft', due' = {}, NEW win \in synced, Found(win) # {}
               PROVE  Truthful(JobOf[win])' \/ \E e \in Step : WillClose(e)'
    BY DEF ClosedInv, Found
  <1>1. Truthful(JobOf[win]) \/ \E e \in Step : WillClose(e)
    BY DEF ClosedInv, PassesLeft
  <1>2. Truthful(JobOf[win]) => Truthful(JobOf[win])'
    BY DEF Truthful
  <1> QED
    BY <1>1, <1>2 DEF CloseKept

\* A close stamps the row, or finds a record due.
LEMMA CloseStamps ==
    ASSUME OneImport, ChainsInv, NEW w \in Worker, closeIfImportDrained(w)
    PROVE  ClosedInv'
  <1>1. /\ UNCHANGED <<synced, due, errored, errs>> /\ pc[w] = "close"
        /\ due = {} => runStatus' = [runStatus EXCEPT ![at[w].job] = enrichmentTerminalStatus(at[w].job)]
    BY DEF closeIfImportDrained, recVars
  <1>2. at[w] \in Step /\ at[w].job \in Job /\ Emitted(at[w])
    BY <1>1 DEF ChainsInv, IInv, TypeOK, Step, Emitted
  <1> SUFFICES ASSUME due = {}, NEW win \in synced, Found(win) # {} PROVE Truthful(JobOf[win])'
    BY <1>1 DEF ClosedInv, Found
  <1>3. PICK q \in Record : OwnChain(at[w], q)
    BY <1>2 DEF ChainsInv, SourceInv
  <1>4. PICK j \in Job : j = at[w].job /\ j = JobOf[win]
    BY <1>2, <1>3 DEF OneImport, OwnChain, Found
  <1> DEFINE Bad == {r \in Record : errored[j][r] = 1}
  <1>5. errs[j] = Cardinality(Bad) /\ \A r \in Record : errored[j][r] \in 0..1
    BY DEF ChainsInv, IInv, GradedOnce, TypeOK
  <1>6. IsFiniteSet(Bad) /\ Cardinality(Bad) \in Nat /\ (Cardinality(Bad) = 0 <=> Bad = {})
    <2>1. Bad \subseteq Record
      OBVIOUS
    <2>2. IsFiniteSet(Bad)
      BY <2>1, FS_Subset, EnrichmentAssumptions
    <2> HIDE DEF Bad
    <2> QED
      BY <2>2, FS_CardinalityType, FS_EmptySet
  <1>7. errs[j] > 0 <=> \E r \in Record : errored[j][r] > 0
    BY <1>5, <1>6
  <1>8. runStatus'[j] = enrichmentTerminalStatus(j)
    BY <1>1, <1>4 DEF ChainsInv, IInv, TypeOK
  <1> QED
    BY <1>1, <1>4, <1>7, <1>8 DEF Truthful, enrichmentTerminalStatus

\* A commit that leaves nothing due publishes the pass that will close.
LEMMA ApplyPromises ==
    ASSUME ChainsInv, ClosedInv, NEW w \in Worker, applyBatch(w)
    PROVE  ClosedInv'
  <1>1. PICK e \in Step : e = at[w]
    BY DEF ChainsInv, IInv, TypeOK
  <1>2. /\ \A d \in Step : d # e /\ WillClose(d) => WillClose(d)'
        /\ e \notin processed /\ e.pass # MaxPass => \E n \in Step : WillClose(n)'
    BY <1>1, ApplyKeepsComing DEF ChainsInv
  <1>3. CASE e \in processed
    <2>1. UNCHANGED <<synced, due, errored, processed, runStatus>>
      BY <1>1, <1>3 DEF applyBatch, SeenOrMark, recVars, rowVars
    <2>2. CloseKept
      BY <1>2, <1>3 DEF CloseKept, WillClose, Coming
    <2> QED
      BY <2>1, <2>2, DeliveryKeepsClosing
  <1>4. CASE e \notin processed
    <2>1. processed' = processed \cup {e}
      BY <1>1, <1>4 DEF applyBatch, SeenOrMark
    <2>2. PassesLeft' => e.pass # MaxPass
      BY <2>1 DEF PassesLeft
    <2> QED
      BY <1>2, <1>4, <2>2 DEF ClosedInv
  <1> QED
    BY <1>3, <1>4

\* Every step keeps the promise of a close.
LEMMA ClosingKept ==
    ASSUME OneImport, ChainsInv, ClosedInv, [Next]_vars
    PROVE  ClosedInv'
  <1>0. IInv /\ HoldInv
    BY DEF ChainsInv
  <1>1. ASSUME NEW win \in Window, DiscoverWindow(win) PROVE ClosedInv'
    <2>1. /\ due' = due \cup Found(win) /\ synced' = synced \cup {win}
          /\ UNCHANGED <<errored, processed, runStatus>>
      BY <1>1 DEF DiscoverWindow, rowVars
    <2>2. CloseKept
      BY <1>0, <1>1, DiscoverKeepsComing
    <2> SUFFICES ASSUME PassesLeft', due' = {}, NEW v \in synced', Found(v) # {}
                 PROVE  Truthful(JobOf[v])' \/ \E e \in Step : WillClose(e)'
      BY DEF ClosedInv, Found
    <2>3. v \in synced /\ due = {} /\ PassesLeft
      BY <2>1 DEF PassesLeft
    <2>4. Truthful(JobOf[v]) \/ \E e \in Step : WillClose(e)
      BY <2>3 DEF ClosedInv
    <2>5. Truthful(JobOf[v]) => Truthful(JobOf[v])'
      BY <2>1 DEF Truthful
    <2> QED
      BY <2>2, <2>4, <2>5 DEF CloseKept
  <1>2. ASSUME NEW e \in Step, RelayStep(e) PROVE ClosedInv'
    <2>1. UNCHANGED <<synced, due, errored, processed, runStatus>>
      BY <1>2 DEF RelayStep, recVars, rowVars
    <2> QED
      BY <1>0, <1>2, <2>1, RelayKeepsComing, DeliveryKeepsClosing
  <1>3. ASSUME NEW w \in Worker, NEW e \in Step, Dispatch(w, e) PROVE ClosedInv'
    <2>1. UNCHANGED <<synced, due, errored, processed, runStatus>>
      BY <1>3 DEF Dispatch, recVars, rowVars
    <2> QED
      BY <1>0, <1>3, <2>1, DispatchKeepsComing, DeliveryKeepsClosing
  <1>4. ASSUME NEW w \in Worker, SelectDueForEnrichment(w) PROVE ClosedInv'
    <2>1. UNCHANGED <<synced, due, errored, processed, runStatus>>
      BY <1>4 DEF SelectDueForEnrichment, recVars, taskVars, rowVars
    <2> QED
      BY <1>0, <1>4, <2>1, SelectKeepsComing, DeliveryKeepsClosing
  <1>5. ASSUME NEW w \in Worker, applyBatch(w) PROVE ClosedInv'
    BY <1>5, ApplyPromises
  <1>6. ASSUME NEW w \in Worker, closeIfImportDrained(w) PROVE ClosedInv'
    BY <1>6, CloseStamps
  <1>7. ASSUME NEW w \in Worker, Answer(w) PROVE ClosedInv'
    <2>1. UNCHANGED <<synced, due, errored, processed, runStatus>>
      BY <1>7 DEF Answer, recVars, rowVars
    <2> QED
      BY <1>0, <1>7, <2>1, AnswerKeepsComing, DeliveryKeepsClosing
  <1>8. ASSUME NEW w \in Worker, Fault(w) \/ RejectEnvelope(w) \/ LoseLease(w) PROVE ClosedInv'
    <2>1. UNCHANGED <<synced, due, errored, processed, runStatus>>
      BY <1>8 DEF Fault, RejectEnvelope, LoseLease, recVars, rowVars
    <2> QED
      BY <1>0, <1>8, <2>1, FaultsKeepComing, DeliveryKeepsClosing
  <1>9. CASE UNCHANGED vars
    <2>1. CloseKept
      BY <1>9 DEF CloseKept, WillClose, Coming, vars, taskVars, execVars
    <2>2. UNCHANGED <<synced, due, errored, processed, runStatus>>
      BY <1>9 DEF vars, recVars, taskVars, rowVars
    <2> QED
      BY <2>1, <2>2, DeliveryKeepsClosing
  <1> QED
    BY <1>1, <1>2, <1>3, <1>4, <1>5, <1>6, <1>7, <1>8, <1>9 DEF Next, RunStep

\* Where the tenant has one import, whatever courts its windows share, its
\* ENRICHMENT row is closed when everything has come to rest with nothing due,
\* and tells whether a parse error was counted (again short of the bound on
\* the passes): the commit that left nothing due published a step that scans
\* nothing and closes. The status is enrichmentTerminalStatus's, by errors: a
\* record DATAJUD does not have counts as attempted, and leaves the row OK.
THEOREM RunIsClosed == ASSUME OneImport PROVE Spec => [](PassesLeft => ClosedWhenDrained)
  <1>1. Init => ChainsInv /\ ClosedInv
    <2>1. Init => HoldInv /\ SourceInv /\ ClosingInv /\ OwnedInv
      BY DEF Init, HoldInv, SourceInv, Emitted, ClosingInv, OwnedInv
    <2>2. Init => ClosedInv
      BY DEF Init, ClosedInv
    <2> QED
      BY <2>1, <2>2, Initially DEF ChainsInv
  <1>2. ChainsInv /\ ClosedInv /\ IInv' /\ [Next]_vars => ChainsInv' /\ ClosedInv'
    BY ChainsKept, ClosingKept
  <1>3. ClosedInv => (PassesLeft => ClosedWhenDrained)
    <2> SUFFICES ASSUME ClosedInv, PassesLeft, Quiescent, due = {}, NEW win \in synced, Found(win) # {}
                 PROVE  Truthful(JobOf[win])
      BY DEF ClosedWhenDrained, Truthful
    <2>1. \A e \in Step : ~(rows[e] > 0) /\ task[e] = "none"
      BY DEF Quiescent
    <2>2. \A e \in Step : ~WillClose(e)
      BY <2>1 DEF Quiescent, WillClose, Coming
    <2> QED
      BY <2>2 DEF ClosedInv
  <1> QED
    BY <1>1, <1>2, <1>3, Invariance, PTL DEF Spec
=============================================================================
