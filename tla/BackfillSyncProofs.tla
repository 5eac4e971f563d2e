------------------------- MODULE BackfillSyncProofs -------------------------
(***************************************************************************)
(* Proofs about BackfillSync, for every finite set of slices, every set of *)
(* workers and every retry and republication bound, and about the window   *)
(* arithmetic that makes its slices, for every horizon and window size.    *)
(***************************************************************************)
EXTENDS MCBackfillSync, FiniteSetTheorems, WellFoundedInduction, TLAPS

\* The steps that touch the job, a run or a terminal event; the others only
\* move tasks and executions.
LEMMA StepKinds ==
    ASSUME [Next]_vars
    PROVE  \/ UNCHANGED <<jobVars, run, sent, counted>>
           \/ CreateBackfill
           \/ \E w \in Worker : startRun(w) \/ applyResult(w) \/ failRun(w)
           \/ \E e \in Slice \X (1..2) : onSliceClosed(e)
  <1> USE DEF evVars
  <1>1. ASSUME NEW w \in Worker, FetchAndParse(w) \/ Answer(w) \/ Fault(w) \/ LoseLease(w)
        PROVE  UNCHANGED <<jobVars, run, sent, counted>>
    BY <1>1 DEF FetchAndParse, Answer, Fault, LoseLease
  <1>2. ASSUME NEW w \in Worker, NEW s \in Slice, Dispatch(w, s)
        PROVE  UNCHANGED <<jobVars, run, sent, counted>>
    BY <1>2 DEF Dispatch
  <1>3. ASSUME NEW s \in Slice, Republish(s)
        PROVE  UNCHANGED <<jobVars, run, sent, counted>>
    BY <1>3 DEF Republish
  <1>4. ASSUME NEW e \in Slice \X (1..2), DropClose(e)
        PROVE  UNCHANGED <<jobVars, run, sent, counted>>
    BY <1>4 DEF DropClose
  <1>5. ASSUME UNCHANGED vars
        PROVE  UNCHANGED <<jobVars, run, sent, counted>>
    BY <1>5 DEF vars
  <1> QED
    BY <1>1, <1>2, <1>3, <1>4, <1>5 DEF Next, Sync

\* UpdateSyncRun closes a run that is RUNNING and leaves any other as it is.
LEMMA CloseIsCAS ==
    ASSUME ClosesOnce, run \in [Slice -> {"none", "RUNNING", "OK", "FAILED"}],
           sent \in [Slice -> Seq(Outcome)], NEW s \in Slice,
           \/ UpdateSyncRun(s, "OK", "sync_completed")
           \/ UpdateSyncRun(s, "FAILED", "sync_failed")
    PROVE  /\ run' \in [Slice -> {"none", "RUNNING", "OK", "FAILED"}]
           /\ sent' \in [Slice -> Seq(Outcome)]
           /\ ClosesOnce'
           /\ \A t \in Slice : run[t] \in {"OK", "FAILED"} => run'[t] = run[t]
  <1>1. CASE run[s] # "RUNNING"
    BY <1>1 DEF UpdateSyncRun, ClosesOnce
  <1>2. CASE run[s] = "RUNNING"
    <2>1. sent[s] = <<>>
      BY <1>2 DEF ClosesOnce
    <2>2. PICK to \in {"OK", "FAILED"}, event \in Outcome :
            /\ event = IF to = "OK" THEN "sync_completed" ELSE "sync_failed"
            /\ run' = [run EXCEPT ![s] = to]
            /\ sent' = [sent EXCEPT ![s] = Append(@, event)]
      BY <1>2 DEF UpdateSyncRun, Outcome
    <2>3. Append(sent[s], event) = <<event>>
      BY <2>1
    <2>4. sent' = [sent EXCEPT ![s] = <<event>>] /\ <<event>> \in Seq(Outcome)
      <3>1. <<event>> \in Seq(Outcome)
        OBVIOUS
      <3> QED
        BY <2>2, <2>3, <3>1, Zenon
    <2>5. ClosesOnce'
      BY <2>2, <2>4 DEF ClosesOnce
    <2> QED
      BY <1>2, <2>2, <2>4, <2>5
  <1> QED
    BY <1>1, <1>2

\* A run's status and its terminal events move together, and a closed run
\* stays as it was closed.
LEMMA RunStep ==
    ASSUME TypeOK, ClosesOnce, [Next]_vars
    PROVE  /\ run' \in [Slice -> {"none", "RUNNING", "OK", "FAILED"}]
           /\ sent' \in [Slice -> Seq(Outcome)]
           /\ ClosesOnce'
           /\ \A t \in Slice : run[t] \in {"OK", "FAILED"} => run'[t] = run[t]
  <1> USE DEF TypeOK
  <1>1. CASE UNCHANGED <<run, sent>>
    BY <1>1 DEF ClosesOnce
  <1>2. ASSUME NEW w \in Worker, startRun(w), ~UNCHANGED run
        PROVE  /\ run' \in [Slice -> {"none", "RUNNING", "OK", "FAILED"}]
               /\ sent' \in [Slice -> Seq(Outcome)]
               /\ ClosesOnce'
               /\ \A t \in Slice : run[t] \in {"OK", "FAILED"} => run'[t] = run[t]
    <2>1. /\ at[w] \in Slice /\ run[at[w]] = "none"
          /\ run' = [run EXCEPT ![at[w]] = "RUNNING"]
          /\ sent' = sent
      BY <1>2 DEF startRun, evVars
    <2>2. ClosesOnce'
      BY <2>1 DEF ClosesOnce
    <2> QED
      BY <2>1, <2>2
  <1>3. ASSUME NEW w \in Worker, applyResult(w) \/ failRun(w)
        PROVE  \/ UpdateSyncRun(at[w], "OK", "sync_completed")
               \/ UpdateSyncRun(at[w], "FAILED", "sync_failed")
    BY <1>3 DEF applyResult, failRun
  <1>4. CASE CreateBackfill \/ \E e \in Slice \X (1..2) : onSliceClosed(e)
    <2>1. UNCHANGED <<run, sent>>
      BY <1>4 DEF CreateBackfill, onSliceClosed, evVars
    <2> QED
      BY <1>1, <2>1
  <1>5. ASSUME NEW w \in Worker, startRun(w), UNCHANGED run PROVE UNCHANGED sent
    BY <1>5 DEF startRun, evVars
  <1> QED
    BY <1>1, <1>2, <1>3, <1>4, <1>5, StepKinds, CloseIsCAS
-----------------------------------------------------------------------------
\* The two tallies count disjoint sets of slices.
LEMMA HeardFacts ==
    ASSUME TallyInv
    PROVE  /\ IsFiniteSet(Heard("OK")) /\ IsFiniteSet(Heard("FAILED"))
           /\ IsFiniteSet(Heard("OK") \cup Heard("FAILED"))
           /\ slicesOK \in Nat /\ slicesError \in Nat
           /\ Cardinality(Heard("OK") \cup Heard("FAILED")) = slicesOK + slicesError
           /\ slicesOK + slicesError <= TotalSlices
           /\ TotalSlices \in Nat
  <1> DEFINE A == Heard("OK")
             B == Heard("FAILED")
  <1>0. IsFiniteSet(Slice) /\ TotalSlices = Cardinality(Slice)
    BY BackfillAssumptions
  <1>1. A \in SUBSET Slice /\ B \in SUBSET Slice /\ A \cup B \in SUBSET Slice
    BY DEF Heard
  <1>2. IsFiniteSet(A) /\ IsFiniteSet(B) /\ IsFiniteSet(A \cup B)
        /\ Cardinality(A \cup B) <= TotalSlices
    BY <1>0, <1>1, FS_Subset
  <1>3. A \cap B = {}
    BY DEF Heard
  <1>4. Cardinality(A \cap B) = 0
    BY <1>3, FS_EmptySet
  <1>5. Cardinality(A) \in Nat /\ Cardinality(B) \in Nat /\ TotalSlices \in Nat
    BY <1>0, <1>2, FS_CardinalityType
  <1>6. Cardinality(A \cup B) = Cardinality(A) + Cardinality(B)
    <2>1. Cardinality(A \cup B) = Cardinality(A) + Cardinality(B) - Cardinality(A \cap B)
      BY <1>2, FS_Union, Zenon
    <2> HIDE DEF A, B
    <2> QED
      BY <1>4, <1>5, <2>1
  <1>7. slicesOK = Cardinality(A) /\ slicesError = Cardinality(B)
    BY DEF TallyInv
  <1> QED
    BY <1>2, <1>5, <1>6, <1>7

\* Tallies that add up to total_slices have heard from every slice.
LEMMA AllHeard ==
    ASSUME TallyInv, slicesOK + slicesError = TotalSlices, NEW s \in Slice
    PROVE  s \in Heard("OK") \cup Heard("FAILED")
  <1>1. Heard("OK") \cup Heard("FAILED") \in SUBSET Slice
    BY DEF Heard
  <1>2. Cardinality(Slice) = Cardinality(Heard("OK") \cup Heard("FAILED"))
    BY HeardFacts, BackfillAssumptions
  <1>3. Slice = Heard("OK") \cup Heard("FAILED")
    BY <1>1, <1>2, BackfillAssumptions, FS_Subset
  <1> QED
    BY <1>3

\* A terminal event that is not marked yet is the first of its slice and
\* tells how its run closed.
LEMMA FreshClose ==
    ASSUME TypeOK, ClosesOnce, NEW e \in CloseEvent
    PROVE  /\ e[1] \in Slice /\ e[2] = 1 /\ e = <<e[1], 1>>
           /\ run[e[1]] \in {"OK", "FAILED"}
           /\ sent[e[1]][e[2]] = "sync_completed" <=> run[e[1]] = "OK"
  <1>1. e \in Slice \X (1..2) /\ e[2] <= Len(sent[e[1]])
    BY DEF CloseEvent
  <1>2. PICK s \in Slice, n \in 1..2 : e = <<s, n>>
    BY <1>1
  <1>3. n <= Len(sent[s])
    BY <1>1, <1>2
  <1>4. run[s] \in {"OK", "FAILED"}
    <2>1. SUFFICES ASSUME run[s] \notin {"OK", "FAILED"} PROVE FALSE
      OBVIOUS
    <2>2. sent[s] = <<>>
      BY <2>1 DEF ClosesOnce
    <2> QED
      BY <1>3, <2>2
  <1>5. sent[s] = IF run[s] = "OK" THEN <<"sync_completed">> ELSE <<"sync_failed">>
    BY <1>4 DEF ClosesOnce
  <1>6. n = 1
    BY <1>3, <1>5
  <1> QED
    BY <1>2, <1>4, <1>5, <1>6

\* Counting an event adds its slice to the one tally it belongs to.
LEMMA CountClose ==
    ASSUME TypeOK, ClosesOnce, TallyInv, NEW e \in CloseEvent \ counted,
           incrementSlice(e), counted' = counted \cup {e}, UNCHANGED <<run, sent>>
    PROVE  TallyInv'
  <1> DEFINE s == e[1]
  <1>1. s \in Slice /\ e = <<s, 1>> /\ e[2] = 1 /\ run[s] \in {"OK", "FAILED"}
        /\ (sent[s][e[2]] = "sync_completed" <=> run[s] = "OK")
    BY FreshClose
  <1>2. s \notin Heard("OK") /\ s \notin Heard("FAILED")
    BY <1>1 DEF Heard
  <1>3. \A d \in counted' : d[2] = 1 /\ run'[d[1]] \in {"OK", "FAILED"}
    BY <1>1 DEF TallyInv
  <1>4. IsFiniteSet(Heard("OK")) /\ IsFiniteSet(Heard("FAILED"))
    BY HeardFacts
  <1>5. CASE run[s] = "OK"
    <2>1. Heard("OK")' = Heard("OK") \cup {s} /\ Heard("FAILED")' = Heard("FAILED")
      BY <1>1, <1>5 DEF Heard
    <2>2. Cardinality(Heard("OK")') = Cardinality(Heard("OK")) + 1
      BY <1>2, <1>4, <2>1, FS_AddElement
    <2>3. slicesOK' = slicesOK + 1 /\ slicesError' = slicesError
      BY <1>1, <1>5 DEF incrementSlice
    <2> QED
      BY <1>3, <2>1, <2>2, <2>3 DEF TallyInv
  <1>6. CASE run[s] = "FAILED"
    <2>1. Heard("FAILED")' = Heard("FAILED") \cup {s} /\ Heard("OK")' = Heard("OK")
      BY <1>1, <1>6 DEF Heard
    <2>2. Cardinality(Heard("FAILED")') = Cardinality(Heard("FAILED")) + 1
      BY <1>2, <1>4, <2>1, FS_AddElement
    <2>3. slicesError' = slicesError + 1 /\ slicesOK' = slicesOK
      BY <1>1, <1>6 DEF incrementSlice
    <2> QED
      BY <1>3, <2>1, <2>2, <2>3 DEF TallyInv
  <1> QED
    BY <1>1, <1>5, <1>6

\* The tallies keep counting the marked closes, since a closed run stays as
\* it was closed.
LEMMA TallyStep ==
    ASSUME TypeOK, ClosesOnce, TallyInv, [Next]_vars
    PROVE  TallyInv'
  <1>1. CASE UNCHANGED <<slicesOK, slicesError, counted>>
    <2>1. \A e \in counted : e[1] \in Slice
      BY DEF TypeOK
    <2>2. \A e \in counted : e[2] = 1 /\ run'[e[1]] = run[e[1]]
      BY <2>1, RunStep DEF TallyInv
    <2>3. \A t \in Slice : <<t, 1>> \in counted => run'[t] = run[t]
      BY <2>2
    <2>4. Heard("OK")' = Heard("OK") /\ Heard("FAILED")' = Heard("FAILED")
      BY <1>1, <2>3 DEF Heard
    <2> QED
      BY <1>1, <2>2, <2>4 DEF TallyInv
  <1>2. ASSUME NEW e \in Slice \X (1..2), onSliceClosed(e), e \notin counted
        PROVE  TallyInv'
    <2>1. /\ e \in CloseEvent \ counted
          /\ incrementSlice(e) /\ counted' = counted \cup {e}
          /\ UNCHANGED <<run, sent>>
      BY <1>2 DEF onSliceClosed
    <2> QED
      BY <2>1, CountClose
  <1>3. ASSUME NEW e \in Slice \X (1..2), onSliceClosed(e), e \in counted
        PROVE  UNCHANGED <<slicesOK, slicesError, counted>>
    BY <1>3 DEF onSliceClosed, jobVars
  <1>4. ASSUME NEW w \in Worker, startRun(w) \/ applyResult(w) \/ failRun(w)
        PROVE  UNCHANGED <<slicesOK, slicesError, counted>>
    BY <1>4 DEF startRun, applyResult, failRun, jobVars, evVars
  <1>5. CreateBackfill => UNCHANGED <<slicesOK, slicesError, counted>>
    BY DEF CreateBackfill, evVars
  <1>6. UNCHANGED <<jobVars, run, sent, counted>> => UNCHANGED <<slicesOK, slicesError, counted>>
    BY DEF jobVars
  <1> QED
    BY <1>1, <1>2, <1>3, <1>4, <1>5, <1>6, StepKinds
-----------------------------------------------------------------------------
Terminal == status \in {"COMPLETED", "PARTIAL"}

\* Once the tallies add up every close is marked, so a delivery of one is a
\* no-op: no step moves a terminal job.
LEMMA TerminalStep ==
    ASSUME IInv, [Next]_vars, Terminal
    PROVE  UNCHANGED jobVars
  <1> USE DEF Terminal
  <1>1. ASSUME NEW e \in Slice \X (1..2), onSliceClosed(e) PROVE UNCHANGED jobVars
    <2>1. e \in CloseEvent
      BY <1>1 DEF onSliceClosed
    <2>2. e[1] \in Slice /\ e = <<e[1], 1>>
      BY <2>1, FreshClose DEF IInv
    <2>3. slicesOK + slicesError = TotalSlices
      BY DEF IInv, FinishInv
    <2>4. e[1] \in Heard("OK") \cup Heard("FAILED")
      BY <2>2, <2>3, AllHeard DEF IInv
    <2>5. e \in counted
      BY <2>2, <2>4 DEF Heard
    <2> QED
      BY <1>1, <2>5 DEF onSliceClosed
  <1>2. ASSUME NEW w \in Worker, startRun(w) \/ applyResult(w) \/ failRun(w)
        PROVE  UNCHANGED jobVars
    BY <1>2 DEF startRun, applyResult, failRun
  <1>3. ~CreateBackfill
    BY DEF CreateBackfill
  <1> QED
    BY <1>1, <1>2, <1>3, StepKinds

\* finalizeIfComplete turns the job terminal on the tallies it has just
\* written, once.
LEMMA FinishStep ==
    ASSUME IInv, [Next]_vars
    PROVE  FinishInv'
  <1> USE DEF jobVars
  <1>0. TallyInv /\ TallyInv' /\ TypeOK /\ FinishInv
    BY TallyStep DEF IInv
  <1>1. CASE UNCHANGED jobVars
    BY <1>0, <1>1 DEF FinishInv
  <1>2. CASE Terminal
    BY <1>1, <1>2, TerminalStep
  <1>3. ASSUME CreateBackfill PROVE FinishInv'
    <2>1. slicesOK + slicesError <= TotalSlices /\ slicesOK \in Nat /\ slicesError \in Nat
      BY <1>0, HeardFacts
    <2>2. finished = 0 /\ UNCHANGED <<slicesOK, slicesError, finished>>
          /\ status' = IF TotalSlices = 0 THEN "COMPLETED" ELSE "RUNNING"
      BY <1>0, <1>3 DEF CreateBackfill, FinishInv
    <2> QED
      BY <2>1, <2>2 DEF FinishInv
  <1>4. ASSUME NEW e \in Slice \X (1..2), onSliceClosed(e), ~Terminal PROVE FinishInv'
    <2>1. CASE e \in counted
      BY <1>1, <1>4, <2>1 DEF onSliceClosed
    <2>2. CASE e \notin counted
      <3>1. finalizeIfComplete
        BY <1>4, <2>2 DEF onSliceClosed
      <3>2. slicesOK' \in Nat /\ slicesError' \in Nat
        BY <1>0, <1>4, <2>2, HeardFacts DEF onSliceClosed, incrementSlice
      <3>3. TotalSlices > 0
        <4>1. Slice # {}
          BY <1>4
        <4>2. TotalSlices \in Nat /\ TotalSlices # 0
          BY <4>1, BackfillAssumptions, FS_CardinalityType, FS_EmptySet
        <4> QED
          BY <4>2
      <3>4. finished = 0
        BY <1>0, <1>4 DEF FinishInv, Terminal
      <3> QED
        BY <1>4, <3>1, <3>2, <3>3, <3>4 DEF finalizeIfComplete, FinishInv, Terminal
    <2> QED
      BY <2>1, <2>2
  <1>5. ASSUME NEW w \in Worker, startRun(w) \/ applyResult(w) \/ failRun(w)
        PROVE  UNCHANGED jobVars
    BY <1>5 DEF startRun, applyResult, failRun
  <1> QED
    BY <1>1, <1>2, <1>3, <1>4, <1>5, StepKinds
-----------------------------------------------------------------------------
\* A tally never exceeds the number of slices.
LEMMA CountBound ==
    ASSUME NEW S \in SUBSET Slice
    PROVE  Cardinality(S) \in 0..TotalSlices
  <1>1. IsFiniteSet(S) /\ Cardinality(S) <= TotalSlices
    BY BackfillAssumptions, FS_Subset
  <1>2. Cardinality(S) \in Nat /\ TotalSlices \in Nat
    BY <1>1, BackfillAssumptions, FS_CardinalityType
  <1> QED
    BY <1>1, <1>2

\* The parts of TypeOK, but for the tallies, the runs and their events, whose
\* types follow from the invariants above.
TasksOK ==
    /\ task \in [Slice -> {"none", "pending", "active", "done", "archived"}]
    /\ retried \in [Slice -> 0..MaxRetry]
    /\ republished \in 0..MaxRepublish

ExecsOK ==
    /\ pc \in [Worker -> Phase]
    /\ at \in [Worker -> Slice]
    /\ lastTry \in [Worker -> BOOLEAN]
    /\ holds \in [Worker -> BOOLEAN]

CounterOK ==
    /\ status \in {"NONE", "RUNNING", "COMPLETED", "PARTIAL"}
    /\ finished \in Nat
    /\ counted \subseteq Slice \X (1..2)
    /\ dropped \subseteq Slice \X (1..2)

\* asynq's moves keep a task within its states and its retry budget.
LEMMA TasksStep ==
    ASSUME TasksOK, ExecsOK, [Next]_vars
    PROVE  TasksOK'
  <1> USE DEF TasksOK, taskVars
  <1>0. MaxRetry \in Nat /\ MaxRepublish \in Nat
    BY BackfillAssumptions
  <1>1. ASSUME NEW s \in Slice, FailAttempt(s), UNCHANGED republished PROVE TasksOK'
    BY <1>0, <1>1 DEF FailAttempt
  <1>2. CASE UNCHANGED taskVars
    BY <1>2
  <1>3. ASSUME NEW w \in Worker, ReturnError(w), UNCHANGED republished PROVE TasksOK'
    BY <1>1, <1>2, <1>3 DEF ReturnError, ExecsOK
  <1>4. ASSUME CreateBackfill PROVE TasksOK'
    BY <1>4 DEF CreateBackfill
  <1>5. ASSUME NEW w \in Worker, Sync(w) PROVE TasksOK'
    <2>1. CASE startRun(w) \/ applyResult(w) \/ failRun(w)
      BY <1>2, <2>1 DEF startRun, applyResult, failRun
    <2>2. CASE FetchAndParse(w)
      BY <1>2, <1>3, <2>2 DEF FetchAndParse
    <2>3. CASE Answer(w)
      BY <2>3 DEF Answer
    <2> QED
      BY <1>5, <2>1, <2>2, <2>3 DEF Sync
  <1>6. ASSUME NEW w \in Worker, Fault(w) PROVE TasksOK'
    BY <1>3, <1>6 DEF Fault
  <1>7. ASSUME NEW w \in Worker, LoseLease(w) PROVE TasksOK'
    BY <1>1, <1>7 DEF LoseLease, ExecsOK
  <1>8. ASSUME NEW w \in Worker, NEW s \in Slice, Dispatch(w, s) PROVE TasksOK'
    BY <1>8 DEF Dispatch
  <1>9. ASSUME NEW s \in Slice, Republish(s) PROVE TasksOK'
    BY <1>0, <1>9 DEF Republish
  <1>10. ASSUME NEW e \in Slice \X (1..2), onSliceClosed(e) \/ DropClose(e) PROVE TasksOK'
    BY <1>2, <1>10 DEF onSliceClosed, DropClose
  <1> QED
    BY <1>2, <1>4, <1>5, <1>6, <1>7, <1>8, <1>9, <1>10 DEF Next, vars

\* An execution moves through the phases of its own slice.
LEMMA ExecsStep ==
    ASSUME ExecsOK, [Next]_vars
    PROVE  ExecsOK'
  <1> USE DEF ExecsOK, execVars
  <1>1. ASSUME NEW w \in Worker, Return(w) PROVE ExecsOK'
    BY <1>1 DEF Return, Goto, Phase
  <1>2. CASE UNCHANGED execVars
    BY <1>2
  <1>3. ASSUME NEW w \in Worker, NEW phase \in Phase, Goto(w, phase),
               UNCHANGED <<at, lastTry, holds>>
        PROVE  ExecsOK'
    BY <1>3 DEF Goto
  <1>4. ASSUME NEW w \in Worker, Sync(w) PROVE ExecsOK'
    <2>1. CASE startRun(w)
      BY <1>3, <2>1 DEF startRun, Phase
    <2>2. CASE applyResult(w) \/ failRun(w)
      BY <1>3, <2>2 DEF applyResult, failRun, Phase
    <2>3. CASE FetchAndParse(w)
      BY <1>1, <1>3, <2>3 DEF FetchAndParse, ReturnError, Phase
    <2>4. CASE Answer(w)
      BY <1>1, <2>4 DEF Answer
    <2> QED
      BY <1>4, <2>1, <2>2, <2>3, <2>4 DEF Sync
  <1>5. ASSUME NEW w \in Worker, Fault(w) PROVE ExecsOK'
    BY <1>1, <1>5 DEF Fault, ReturnError
  <1>6. ASSUME NEW w \in Worker, LoseLease(w) PROVE ExecsOK'
    BY <1>6 DEF LoseLease
  <1>7. ASSUME NEW w \in Worker, NEW s \in Slice, Dispatch(w, s) PROVE ExecsOK'
    BY <1>7 DEF Dispatch, Phase
  <1>8. ASSUME CreateBackfill \/ (\E s \in Slice : Republish(s))
                 \/ \E e \in Slice \X (1..2) : onSliceClosed(e) \/ DropClose(e)
        PROVE  ExecsOK'
    BY <1>2, <1>8 DEF CreateBackfill, Republish, onSliceClosed, DropClose
  <1> QED
    BY <1>2, <1>4, <1>5, <1>6, <1>7, <1>8 DEF Next, vars

\* The job's status, its finished events and the marks of the counter.
LEMMA CounterStep ==
    ASSUME CounterOK, [Next]_vars
    PROVE  CounterOK'
  <1> USE DEF CounterOK, jobVars, evVars
  <1>1. CASE UNCHANGED <<jobVars, counted, dropped>>
    BY <1>1
  <1>2. ASSUME NEW w \in Worker, Sync(w) \/ Fault(w) \/ LoseLease(w)
        PROVE  UNCHANGED <<jobVars, counted, dropped>>
    BY <1>2 DEF Sync, startRun, FetchAndParse, applyResult, failRun, Answer, Fault, LoseLease
  <1>3. ASSUME \/ \E w \in Worker, s \in Slice : Dispatch(w, s)
               \/ \E s \in Slice : Republish(s)
               \/ UNCHANGED vars
        PROVE  UNCHANGED <<jobVars, counted, dropped>>
    BY <1>3 DEF Dispatch, Republish, vars
  <1>4. ASSUME CreateBackfill PROVE CounterOK'
    BY <1>4 DEF CreateBackfill
  <1>5. ASSUME NEW e \in Slice \X (1..2), onSliceClosed(e) PROVE CounterOK'
    BY <1>5 DEF onSliceClosed, finalizeIfComplete
  <1>6. ASSUME NEW e \in Slice \X (1..2), DropClose(e) PROVE CounterOK'
    BY <1>6 DEF DropClose
  <1> QED
    BY <1>1, <1>2, <1>3, <1>4, <1>5, <1>6 DEF Next

\* Every step keeps the variables in their types.
LEMMA TypeStep ==
    ASSUME IInv, [Next]_vars
    PROVE  TypeOK'
  <1>1. TasksOK' /\ ExecsOK' /\ CounterOK'
    <2>1. TasksOK /\ ExecsOK /\ CounterOK
      BY DEF IInv, TypeOK, TasksOK, ExecsOK, CounterOK
    <2> QED
      BY <2>1, TasksStep, ExecsStep, CounterStep
  <1>2. slicesOK' \in 0..TotalSlices /\ slicesError' \in 0..TotalSlices
    <2>1. slicesOK' = Cardinality(Heard("OK")') /\ slicesError' = Cardinality(Heard("FAILED")')
      BY TallyStep DEF IInv, TallyInv
    <2>2. Heard("OK")' \in SUBSET Slice /\ Heard("FAILED")' \in SUBSET Slice
      BY DEF Heard
    <2> QED
      BY <2>1, <2>2, CountBound
  <1>3. run' \in [Slice -> {"none", "RUNNING", "OK", "FAILED"}] /\ sent' \in [Slice -> Seq(Outcome)]
    BY RunStep DEF IInv
  <1> QED
    BY <1>1, <1>2, <1>3 DEF TypeOK, TasksOK, ExecsOK, CounterOK
-----------------------------------------------------------------------------
\* Nothing has happened before the job exists.
LEMMA InitInv == Init => IInv
  <1> SUFFICES ASSUME Init PROVE IInv
    OBVIOUS
  <1> USE DEF Init
  <1>0. TotalSlices \in Nat /\ MaxRetry \in Nat /\ MaxRepublish \in Nat
    BY BackfillAssumptions, FS_CardinalityType
  <1>1. TypeOK
    <2>1. sent \in [Slice -> Seq(Outcome)]
      OBVIOUS
    <2> QED
      BY <1>0, <2>1 DEF TypeOK, Phase
  <1>2. ClosesOnce
    BY DEF ClosesOnce
  <1>3. TallyInv
    <2>1. Heard("OK") = {} /\ Heard("FAILED") = {}
      BY DEF Heard
    <2> QED
      BY <2>1, FS_EmptySet DEF TallyInv
  <1>4. FinishInv
    BY DEF FinishInv
  <1> QED
    BY <1>1, <1>2, <1>3, <1>4 DEF IInv

\* IInv is an inductive invariant, whatever executions overlap, resume, lose
\* their lease or die.
THEOREM Invariance == Spec => []IInv
  <1>1. IInv /\ [Next]_vars => IInv'
    BY TypeStep, RunStep, TallyStep, FinishStep DEF IInv
  <1> QED
    BY InitInv, <1>1, PTL DEF Spec

\* Every variable keeps its type; in particular the tallies of a job stay
\* within total_slices however often a terminal event is delivered.
THEOREM TypeCorrect == Spec => []TypeOK
  <1>1. IInv => TypeOK
    BY DEF IInv
  <1> QED
    BY Invariance, <1>1, PTL

\* The CAS of UpdateSyncRun: one close and one terminal event per slice, for
\* any number of overlapping executions.
THEOREM OneClosePerRun == Spec => []ClosesOnce
  <1>1. IInv => ClosesOnce
    BY DEF IInv
  <1> QED
    BY Invariance, <1>1, PTL

\* finalizeIfComplete: a finished job heard from every slice, tells whether
\* one failed, and said so once.
THEOREM FinishedMeansComplete == Spec => []FinishedIsComplete
  <1>1. IInv => FinishedIsComplete
    <2> SUFFICES ASSUME IInv PROVE FinishedIsComplete
      OBVIOUS
    <2>1. finished = IF status \in {"COMPLETED", "PARTIAL"} /\ TotalSlices > 0 THEN 1 ELSE 0
      BY DEF IInv, FinishInv
    <2>2. ASSUME status \in {"COMPLETED", "PARTIAL"}
          PROVE  /\ \A s \in Slice : run[s] \in {"OK", "FAILED"}
                 /\ status = "PARTIAL" <=> \E s \in Slice : run[s] = "FAILED"
      <3>1. TallyInv /\ slicesOK + slicesError = TotalSlices
            /\ (status = "PARTIAL" <=> slicesError > 0)
        BY <2>2 DEF IInv, FinishInv
      <3>2. \A s \in Slice : s \in Heard("OK") \cup Heard("FAILED")
        BY <3>1, AllHeard
      <3>3. \A s \in Slice : run[s] \in {"OK", "FAILED"} /\ (run[s] = "FAILED" <=> s \in Heard("FAILED"))
        BY <3>2 DEF Heard
      <3>4. slicesError > 0 <=> Heard("FAILED") # {}
        <4>1. slicesError = Cardinality(Heard("FAILED")) /\ IsFiniteSet(Heard("FAILED"))
              /\ slicesError \in Nat
          BY <3>1, HeardFacts DEF TallyInv
        <4>2. Cardinality(Heard("FAILED")) = 0 <=> Heard("FAILED") = {}
          BY <4>1, FS_EmptySet
        <4> QED
          BY <4>1, <4>2
      <3>5. Heard("FAILED") # {} <=> \E s \in Slice : run[s] = "FAILED"
        BY <3>3 DEF Heard
      <3> QED
        BY <3>1, <3>3, <3>4, <3>5
    <2> QED
      BY <2>1, <2>2 DEF FinishedIsComplete
  <1> QED
    BY Invariance, <1>1, PTL

\* Once COMPLETED or PARTIAL, a job is never reopened, recounted or finalized
\* again.
THEOREM TerminalJobsStay == Spec => TerminalIsFinal
  <1>1. IInv /\ [Next]_vars => [(status \in {"COMPLETED", "PARTIAL"} => UNCHANGED jobVars)]_vars
    BY TerminalStep DEF Terminal
  <1> QED
    BY Invariance, <1>1, PTL DEF Spec, TerminalIsFinal
-----------------------------------------------------------------------------
(* Work left.                                                              *)

\* asynq waits for one execution of each active task, and for no other.
LeaseInv ==
    /\ \A w \in Worker : holds[w] => pc[w] # "idle" /\ task[at[w]] = "active"
    /\ \A w, v \in Worker : holds[w] /\ holds[v] /\ at[w] = at[v] => w = v
    /\ \A s \in Slice : task[s] = "active" => \E w \in Worker : holds[w] /\ at[w] = s

\* What an execution knows of its run, and that an acked task is a closed run.
PhaseInv ==
    /\ \A w \in Worker :
          /\ pc[w] \in {"open", "parsed", "failing", "rejecting"} => run[at[w]] # "none"
          /\ pc[w] \in {"ack", "skip"} => run[at[w]] \in {"OK", "FAILED"}
    /\ \A s \in Slice : task[s] = "done" => run[s] \in {"OK", "FAILED"}

\* Nothing runs before the job exists; then every slice has its task, and the
\* job runs while a slice is uncounted.
JobInv ==
    /\ status = "NONE" => /\ slicesOK = 0 /\ slicesError = 0
                          /\ \A s \in Slice : task[s] = "none" /\ run[s] = "none"
                          /\ \A w \in Worker : pc[w] = "idle"
    /\ status # "NONE" => \A s \in Slice : task[s] # "none"
    /\ status = "RUNNING" => slicesOK + slicesError < TotalSlices

WorkInv == LeaseInv /\ PhaseInv /\ JobInv

\* An execution that goes on keeps its lease.
GoesOn(w) ==
    /\ pc[w] # "idle"
    /\ \E phase \in Phase \ {"idle"} : pc' = [pc EXCEPT ![w] = phase]
    /\ UNCHANGED <<at, holds, task>>

\* An execution that returns, or that asynq gives up on: its task, if asynq was
\* waiting, is handed out again, archived or deleted.
Leaves(w) ==
    /\ pc[w] # "idle"
    /\ pc' = pc \/ pc' = [pc EXCEPT ![w] = "idle"]
    /\ holds' = [holds EXCEPT ![w] = FALSE]
    /\ \/ ~holds[w] /\ task' = task
       \/ /\ holds[w]
          /\ \E to \in {"pending", "archived", "done"} :
                /\ task' = [task EXCEPT ![at[w]] = to]
                /\ to = "done" => pc[w] = "ack"
    /\ UNCHANGED <<at, run, status, slicesOK, slicesError>>

\* asynq's bookkeeping of a failed attempt.
LEMMA FailedAttempt ==
    ASSUME NEW s, FailAttempt(s)
    PROVE  \E to \in {"pending", "archived"} : task' = [task EXCEPT ![s] = to]
  BY DEF FailAttempt

\* An error, the answer of a handler and a lost lease all end a lease.
LEMMA LeavesBy ==
    ASSUME TypeOK, NEW w \in Worker,
           \/ pc[w] = "open" /\ ReturnError(w) /\ UNCHANGED <<jobVars, run>>
           \/ Answer(w) \/ Fault(w) \/ LoseLease(w)
    PROVE  Leaves(w)
  <1> USE DEF jobVars
  <1>0. holds[w] \in BOOLEAN
    BY DEF TypeOK
  <1>1. ASSUME ReturnError(w), pc[w] # "idle", UNCHANGED <<jobVars, run>>
        PROVE  Leaves(w)
    <2>1. /\ pc' = [pc EXCEPT ![w] = "idle"] /\ holds' = [holds EXCEPT ![w] = FALSE]
          /\ UNCHANGED <<at, run, status, slicesOK, slicesError>>
      BY <1>1 DEF ReturnError, Return, Goto
    <2>2. CASE holds[w]
      <3>1. FailAttempt(at[w])
        BY <1>1, <2>2 DEF ReturnError
      <3> QED
        BY <1>1, <2>1, <2>2, <3>1, FailedAttempt DEF Leaves
    <2>3. CASE ~holds[w]
      <3>1. task' = task
        BY <1>1, <2>3 DEF ReturnError
      <3> QED
        BY <1>1, <2>1, <2>3, <3>1 DEF Leaves
    <2> QED
      BY <1>0, <2>2, <2>3
  <1>2. CASE Answer(w)
    <2>1. /\ pc[w] # "idle" /\ pc' = [pc EXCEPT ![w] = "idle"]
          /\ holds' = [holds EXCEPT ![w] = FALSE]
          /\ UNCHANGED <<at, run, status, slicesOK, slicesError>>
      BY <1>2 DEF Answer, Return, Goto
    <2>2. CASE holds[w]
      <3>1. task' = [task EXCEPT ![at[w]] = IF pc[w] = "ack" THEN "done" ELSE "archived"]
        BY <1>2, <2>2 DEF Answer
      <3>2. \E to \in {"pending", "archived", "done"} :
              task' = [task EXCEPT ![at[w]] = to] /\ (to = "done" => pc[w] = "ack")
        BY <3>1
      <3> QED
        BY <2>1, <2>2, <3>2 DEF Leaves
    <2>3. CASE ~holds[w]
      <3>1. task' = task
        BY <1>2, <2>3 DEF Answer
      <3> QED
        BY <2>1, <2>3, <3>1 DEF Leaves
    <2> QED
      BY <1>0, <2>2, <2>3
  <1>3. CASE Fault(w)
    BY <1>1, <1>3 DEF Fault
  <1>4. CASE LoseLease(w)
    <2>1. /\ pc[w] # "idle" /\ holds[w] /\ pc' = pc /\ FailAttempt(at[w])
          /\ holds' = [holds EXCEPT ![w] = FALSE]
          /\ UNCHANGED <<at, run, status, slicesOK, slicesError>>
      BY <1>4 DEF LoseLease
    <2> QED
      BY <2>1, FailedAttempt DEF Leaves
  <1> QED
    BY <1>1, <1>2, <1>3, <1>4

\* What a step does to the tasks and the executions.
LEMMA WorkMoves ==
    ASSUME TypeOK, [Next]_vars
    PROVE  \/ /\ UNCHANGED <<pc, at, holds, task, run>>
              /\ \/ UNCHANGED <<status, slicesOK, slicesError>>
                 \/ \E e \in CloseEvent : onSliceClosed(e)
           \/ CreateBackfill
           \/ \E w \in Worker, s \in Slice : Dispatch(w, s)
           \/ \E w \in Worker : /\ GoesOn(w)
                                /\ UNCHANGED <<status, slicesOK, slicesError>>
                                /\ \/ startRun(w) \/ applyResult(w) \/ failRun(w)
                                   \/ FetchAndParse(w) /\ pc'[w] \in {"parsed", "failing", "rejecting"}
           \/ \E w \in Worker : Leaves(w)
           \/ \E s \in Slice : Republish(s)
  <1> USE DEF taskVars, execVars, jobVars
  <1>1. ASSUME NEW w \in Worker, startRun(w)
        PROVE  GoesOn(w) /\ UNCHANGED <<status, slicesOK, slicesError>>
    BY <1>1 DEF startRun, Goto, GoesOn, Phase
  <1>2. ASSUME NEW w \in Worker, applyResult(w) \/ failRun(w)
        PROVE  GoesOn(w) /\ UNCHANGED <<status, slicesOK, slicesError>>
    BY <1>2 DEF applyResult, failRun, Goto, GoesOn, Phase
  <1>3. ASSUME NEW w \in Worker, FetchAndParse(w)
        PROVE  \/ Leaves(w)
               \/ /\ GoesOn(w) /\ UNCHANGED <<status, slicesOK, slicesError>>
                  /\ pc'[w] \in {"parsed", "failing", "rejecting"}
    <2>1. CASE ReturnError(w)
      BY <1>3, <2>1, LeavesBy DEF FetchAndParse
    <2>2. CASE /\ Goto(w, "parsed") \/ Goto(w, "rejecting") \/ Goto(w, "failing")
               /\ UNCHANGED <<at, holds, task>>
      BY <1>3, <2>2 DEF FetchAndParse, Goto, GoesOn, Phase, TypeOK
    <2> QED
      BY <1>3, <2>1, <2>2 DEF FetchAndParse
  <1>4. ASSUME NEW e \in Slice \X (1..2), onSliceClosed(e)
        PROVE  UNCHANGED <<pc, at, holds, task, run>> /\ e \in CloseEvent
    BY <1>4 DEF onSliceClosed
  <1>5. ASSUME NEW e \in Slice \X (1..2), DropClose(e)
        PROVE  UNCHANGED <<pc, at, holds, task, run, status, slicesOK, slicesError>>
    BY <1>5 DEF DropClose
  <1>6. ASSUME UNCHANGED vars
        PROVE  UNCHANGED <<pc, at, holds, task, run, status, slicesOK, slicesError>>
    BY <1>6 DEF vars
  <1> QED
    BY <1>1, <1>2, <1>3, <1>4, <1>5, <1>6, LeavesBy DEF Next, Sync

\* The end of a lease leaves no other execution of the slice in one, since
\* there was only one.
LEMMA LeaseEnds ==
    ASSUME TypeOK, LeaseInv, NEW w \in Worker, Leaves(w)
    PROVE  LeaseInv'
  <1>1. /\ at' = at /\ ~holds'[w] /\ \A v \in Worker : v # w => holds'[v] = holds[v] /\ pc'[v] = pc[v]
    BY DEF Leaves, TypeOK
  <1>2. \A v \in Worker : holds'[v] => v # w /\ holds[v]
    BY <1>1
  <1>3. CASE ~holds[w]
    <2>1. task' = task
      BY <1>3 DEF Leaves
    <2>2. \A v \in Worker : holds[v] => holds'[v]
      BY <1>1, <1>3
    <2> QED
      BY <1>1, <1>2, <2>1, <2>2 DEF LeaseInv
  <1>4. CASE holds[w]
    <2>1. PICK to \in {"pending", "archived", "done"} : task' = [task EXCEPT ![at[w]] = to]
      BY <1>4 DEF Leaves
    <2>2. at[w] \in Slice /\ task'[at[w]] = to /\ \A s \in Slice : s # at[w] => task'[s] = task[s]
      BY <2>1 DEF TypeOK
    <2>3. ASSUME NEW v \in Worker, holds'[v]
          PROVE  pc'[v] # "idle" /\ task'[at'[v]] = "active"
      <3>1. v # w /\ holds[v] /\ pc'[v] = pc[v] /\ at'[v] = at[v] /\ at[v] \in Slice
        BY <1>1, <1>2, <2>3 DEF TypeOK
      <3>2. at[v] # at[w]
        BY <1>4, <3>1 DEF LeaseInv
      <3> QED
        BY <2>2, <3>1, <3>2 DEF LeaseInv
    <2>4. \A v, u \in Worker : holds'[v] /\ holds'[u] /\ at'[v] = at'[u] => v = u
      BY <1>1, <1>2 DEF LeaseInv
    <2>5. ASSUME NEW s \in Slice, task'[s] = "active"
          PROVE  \E v \in Worker : holds'[v] /\ at'[v] = s
      <3>1. s # at[w] /\ task[s] = "active"
        BY <2>2, <2>5
      <3>2. PICK v \in Worker : holds[v] /\ at[v] = s
        BY <3>1 DEF LeaseInv
      <3>3. v # w /\ holds'[v] /\ at'[v] = s
        BY <1>1, <3>1, <3>2
      <3> QED
        BY <3>3
    <2> QED
      BY <2>3, <2>4, <2>5 DEF LeaseInv
  <1> QED
    BY <1>3, <1>4

\* Every step keeps the leases: Dispatch opens one for a pending task.
LEMMA LeaseStep ==
    ASSUME TypeOK, LeaseInv, JobInv, [Next]_vars
    PROVE  LeaseInv'
  <1>1. CASE UNCHANGED <<pc, at, holds, task>>
    BY <1>1 DEF LeaseInv
  <1>2. ASSUME CreateBackfill PROVE LeaseInv'
    <2>1. UNCHANGED <<pc, at, holds>> /\ \A s \in Slice : task'[s] = "pending"
      BY <1>2 DEF CreateBackfill, execVars
    <2>2. \A w \in Worker : ~holds[w]
      BY <1>2 DEF CreateBackfill, JobInv, LeaseInv
    <2> QED
      BY <2>1, <2>2 DEF LeaseInv
  <1>3. ASSUME NEW w \in Worker, NEW s \in Slice, Dispatch(w, s) PROVE LeaseInv'
    <2>1. /\ pc[w] = "idle" /\ task[s] = "pending" /\ ~holds[w]
          /\ pc'[w] = "begin" /\ at'[w] = s /\ holds'[w] /\ task'[s] = "active"
          /\ \A v \in Worker : v # w => pc'[v] = pc[v] /\ at'[v] = at[v] /\ holds'[v] = holds[v]
          /\ \A t \in Slice : t # s => task'[t] = task[t]
      BY <1>3 DEF Dispatch, TypeOK, LeaseInv
    <2>2. \A v \in Worker : v # w /\ holds[v] => at[v] \in Slice /\ at[v] # s
      BY <2>1 DEF TypeOK, LeaseInv
    <2>3. ASSUME NEW v \in Worker, holds'[v]
          PROVE  pc'[v] # "idle" /\ task'[at'[v]] = "active"
      <3>1. CASE v = w
        BY <2>1, <3>1
      <3>2. CASE v # w
        BY <2>1, <2>2, <2>3, <3>2 DEF LeaseInv
      <3> QED
        BY <3>1, <3>2
    <2>4. ASSUME NEW v \in Worker, NEW u \in Worker, holds'[v], holds'[u], at'[v] = at'[u]
          PROVE  v = u
      BY <2>1, <2>2, <2>4 DEF LeaseInv
    <2>5. ASSUME NEW t \in Slice, task'[t] = "active"
          PROVE  \E v \in Worker : holds'[v] /\ at'[v] = t
      <3>1. CASE t = s
        BY <2>1, <3>1
      <3>2. CASE t # s
        <4>1. PICK v \in Worker : holds[v] /\ at[v] = t
          BY <2>1, <2>5, <3>2 DEF LeaseInv
        <4>2. v # w
          BY <2>1, <4>1
        <4> QED
          BY <2>1, <4>1, <4>2
      <3> QED
        BY <3>1, <3>2
    <2> QED
      BY <2>3, <2>4, <2>5 DEF LeaseInv
  <1>4. ASSUME NEW w \in Worker, GoesOn(w) PROVE LeaseInv'
    <2>1. UNCHANGED <<at, holds, task>> /\ \A v \in Worker : pc[v] # "idle" => pc'[v] # "idle"
      BY <1>4 DEF GoesOn, TypeOK
    <2> QED
      BY <2>1 DEF LeaseInv
  <1>5. ASSUME NEW s \in Slice, Republish(s) PROVE LeaseInv'
    <2>1. /\ UNCHANGED <<pc, at, holds>> /\ task[s] = "done" /\ task'[s] = "pending"
          /\ \A t \in Slice : t # s => task'[t] = task[t]
      BY <1>5 DEF Republish, execVars, TypeOK
    <2>2. \A w \in Worker : holds[w] => at[w] \in Slice /\ at[w] # s
      BY <2>1 DEF TypeOK, LeaseInv
    <2> QED
      BY <2>1, <2>2 DEF LeaseInv
  <1> QED
    BY <1>1, <1>2, <1>3, <1>4, <1>5, LeaseEnds, WorkMoves

\* A run that was opened stays opened.
LEMMA RunForward ==
    ASSUME TypeOK, ClosesOnce, [Next]_vars, NEW s \in Slice, run[s] # "none"
    PROVE  run'[s] # "none"
  <1>1. CASE UNCHANGED run
    BY <1>1
  <1>2. ASSUME NEW w \in Worker, startRun(w) PROVE run'[s] # "none"
    BY <1>2 DEF startRun, TypeOK
  <1>3. ASSUME NEW w \in Worker, applyResult(w) \/ failRun(w) PROVE run'[s] # "none"
    BY <1>3 DEF applyResult, failRun, UpdateSyncRun, TypeOK
  <1> QED
    BY <1>1, <1>2, <1>3, StepKinds DEF CreateBackfill, onSliceClosed

\* An execution reaches its answer only over a closed run: it closed it, or
\* found that another had.
LEMMA PhaseStep ==
    ASSUME TypeOK, ClosesOnce, PhaseInv, JobInv, [Next]_vars
    PROVE  PhaseInv'
  <1> DEFINE Known(v) ==
        /\ pc[v] \in {"open", "parsed", "failing", "rejecting"} => run[at[v]] # "none"
        /\ pc[v] \in {"ack", "skip"} => run[at[v]] \in {"OK", "FAILED"}
  <1>0. \A v \in Worker : Known(v)
    BY DEF PhaseInv
  <1>1. \A s \in Slice : /\ run[s] # "none" => run'[s] # "none"
                         /\ run[s] \in {"OK", "FAILED"} => run'[s] \in {"OK", "FAILED"}
    BY RunForward, RunStep
  <1>2. ASSUME NEW v \in Worker, pc'[v] = pc[v], at'[v] = at[v] PROVE Known(v)'
    <2>1. at[v] \in Slice
      BY DEF TypeOK
    <2> QED
      BY <1>0, <1>1, <1>2, <2>1
  <1>3. ASSUME NEW v \in Worker, pc'[v] \in {"idle", "begin"} PROVE Known(v)'
    BY <1>3
  <1>4. ASSUME \A s \in Slice : task'[s] = "done" => task[s] = "done" \/ run[s] \in {"OK", "FAILED"},
               \A v \in Worker : Known(v)'
        PROVE  PhaseInv'
    <2>1. \A s \in Slice : task'[s] = "done" => run'[s] \in {"OK", "FAILED"}
      BY <1>1, <1>4 DEF PhaseInv
    <2> QED
      BY <1>4, <2>1 DEF PhaseInv
  <1> HIDE DEF Known
  <1>5. CASE UNCHANGED <<pc, at, task>>
    BY <1>2, <1>4, <1>5
  <1>6. ASSUME CreateBackfill PROVE PhaseInv'
    <2>1. UNCHANGED <<pc, at>> /\ \A s \in Slice : task'[s] = "pending"
      BY <1>6 DEF CreateBackfill, execVars
    <2> QED
      BY <1>2, <1>4, <2>1
  <1>7. ASSUME NEW w \in Worker, NEW s \in Slice, Dispatch(w, s) PROVE PhaseInv'
    <2>1. /\ pc'[w] = "begin" /\ \A v \in Worker : v # w => pc'[v] = pc[v] /\ at'[v] = at[v]
          /\ \A t \in Slice : task'[t] = "done" => task[t] = "done"
      BY <1>7 DEF Dispatch, TypeOK
    <2>2. \A v \in Worker : Known(v)'
      BY <1>2, <1>3, <2>1
    <2> QED
      BY <1>4, <2>1, <2>2
  <1>8. ASSUME NEW w \in Worker, GoesOn(w),
               \/ startRun(w) \/ applyResult(w) \/ failRun(w)
               \/ FetchAndParse(w) /\ pc'[w] \in {"parsed", "failing", "rejecting"}
        PROVE  PhaseInv'
    <2>1. UNCHANGED <<at, task>> /\ at[w] \in Slice /\ \A v \in Worker : v # w => pc'[v] = pc[v]
      BY <1>8 DEF GoesOn, TypeOK
    <2>2. ASSUME startRun(w) PROVE Known(w)'
      <3>1. CASE run[at[w]] = "none"
        <4>1. pc'[w] = "open" /\ run'[at[w]] = "RUNNING"
          BY <2>1, <2>2, <3>1 DEF startRun, Goto, TypeOK
        <4> QED
          BY <2>1, <4>1 DEF Known
      <3>2. CASE run[at[w]] # "none"
        <4>1. run' = run /\ pc'[w] = IF run[at[w]] = "RUNNING" THEN "open" ELSE "ack"
          BY <2>2, <3>2 DEF startRun, Goto, resolveSeenRun, TypeOK
        <4>2. run[at[w]] \in {"RUNNING", "OK", "FAILED"}
          BY <2>1, <3>2 DEF TypeOK
        <4> QED
          BY <2>1, <4>1, <4>2 DEF Known
      <3> QED
        BY <3>1, <3>2
    <2>3. ASSUME applyResult(w) \/ failRun(w) PROVE Known(w)'
      <3>1. run[at[w]] \in {"RUNNING", "OK", "FAILED"}
        <4>1. run[at[w]] # "none"
          BY <1>0, <2>3 DEF applyResult, failRun, Known
        <4> QED
          BY <2>1, <4>1 DEF TypeOK
      <3>2. \/ UpdateSyncRun(at[w], "OK", "sync_completed")
            \/ UpdateSyncRun(at[w], "FAILED", "sync_failed")
        BY <2>3 DEF applyResult, failRun
      <3>3. run'[at[w]] \in {"OK", "FAILED"}
        BY <2>1, <3>1, <3>2 DEF UpdateSyncRun, TypeOK
      <3> QED
        BY <2>1, <3>3 DEF Known
    <2>4. ASSUME FetchAndParse(w), pc'[w] \in {"parsed", "failing", "rejecting"} PROVE Known(w)'
      <3>1. run[at[w]] # "none" /\ run' = run
        BY <1>0, <2>4 DEF FetchAndParse, Known
      <3> QED
        BY <2>1, <2>4, <3>1 DEF Known
    <2>5. \A v \in Worker : Known(v)'
      BY <1>2, <1>8, <2>1, <2>2, <2>3, <2>4
    <2> QED
      BY <1>4, <2>1, <2>5
  <1>9. ASSUME NEW w \in Worker, Leaves(w) PROVE PhaseInv'
    <2>1. /\ at' = at /\ at[w] \in Slice /\ (pc'[w] = pc[w] \/ pc'[w] = "idle")
          /\ \A v \in Worker : v # w => pc'[v] = pc[v]
      BY <1>9 DEF Leaves, TypeOK
    <2>2. \A v \in Worker : Known(v)'
      BY <1>2, <1>3, <2>1
    <2>3. ASSUME NEW s \in Slice, task'[s] = "done", task[s] # "done"
          PROVE  run[s] \in {"OK", "FAILED"}
      <3>1. s = at[w] /\ pc[w] = "ack"
        BY <1>9, <2>3 DEF Leaves, TypeOK
      <3> QED
        BY <1>0, <3>1 DEF Known
    <2> QED
      BY <1>4, <2>2, <2>3
  <1>10. ASSUME NEW s \in Slice, Republish(s) PROVE PhaseInv'
    <2>1. UNCHANGED <<pc, at>> /\ \A t \in Slice : task'[t] = "done" => task[t] = "done"
      BY <1>10 DEF Republish, execVars, TypeOK
    <2> QED
      BY <1>2, <1>4, <2>1
  <1> QED
    BY <1>5, <1>6, <1>7, <1>8, <1>9, <1>10, WorkMoves

\* Two disjoint sets of slices are together no more than total_slices.
LEMMA TwoParts ==
    ASSUME NEW A \in SUBSET Slice, NEW B \in SUBSET Slice, A \cap B = {}
    PROVE  /\ Cardinality(A) \in Nat /\ Cardinality(B) \in Nat /\ TotalSlices \in Nat
           /\ Cardinality(A) + Cardinality(B) <= TotalSlices
  <1>1. IsFiniteSet(Slice) /\ TotalSlices = Cardinality(Slice)
    BY BackfillAssumptions
  <1>2. IsFiniteSet(A) /\ IsFiniteSet(B) /\ Cardinality(A \cup B) <= TotalSlices
    BY <1>1, FS_Subset
  <1>3. Cardinality(A) \in Nat /\ Cardinality(B) \in Nat /\ TotalSlices \in Nat
    BY <1>1, <1>2, FS_CardinalityType
  <1>4. Cardinality(A \cup B) = Cardinality(A) + Cardinality(B) - Cardinality(A \cap B)
    BY <1>2, FS_Union
  <1>5. Cardinality(A \cap B) = 0
    BY FS_EmptySet
  <1> QED
    BY <1>2, <1>3, <1>4, <1>5

\* A delivered terminal event of a job that runs: the job is finalized, or the
\* tallies are still short of total_slices.
LEMMA CountedStays ==
    ASSUME NEW e \in CloseEvent, onSliceClosed(e), TallyInv', status' = "RUNNING",
           status = "RUNNING" => slicesOK + slicesError < TotalSlices
    PROVE  slicesOK' + slicesError' < TotalSlices
  <1>0. /\ slicesOK' \in Nat /\ slicesError' \in Nat /\ TotalSlices \in Nat
        /\ slicesOK' + slicesError' <= TotalSlices
    <2>1. Heard("OK")' \in SUBSET Slice /\ Heard("FAILED")' \in SUBSET Slice
          /\ Heard("OK")' \cap Heard("FAILED")' = {}
      BY DEF Heard
    <2> QED
      BY <2>1, TwoParts DEF TallyInv
  <1>1. CASE e \in counted
    <2>1. UNCHANGED <<status, slicesOK, slicesError>>
      BY <1>1 DEF onSliceClosed, jobVars
    <2> QED
      BY <2>1
  <1>2. CASE e \notin counted
    <2>1. finalizeIfComplete
      BY <1>2 DEF onSliceClosed
    <2>2. slicesOK' + slicesError' # TotalSlices
      BY <2>1 DEF finalizeIfComplete
    <2>3. \A a, b, n \in Nat : a + b <= n /\ a + b # n => a + b < n
      OBVIOUS
    <2> QED
      BY <1>0, <2>2, <2>3
  <1> QED
    BY <1>1, <1>2

\* The job is created once, with its tasks, and nothing of it runs before.
LEMMA JobStep ==
    ASSUME IInv, LeaseInv, JobInv, TallyInv', [Next]_vars
    PROVE  JobInv'
  <1>0. TypeOK /\ ClosesOnce
    BY DEF IInv
  <1>1. ASSUME UNCHANGED <<pc, task, run, status, slicesOK, slicesError>> PROVE JobInv'
    BY <1>1 DEF JobInv
  <1>2. ASSUME NEW e \in CloseEvent, onSliceClosed(e), UNCHANGED <<pc, task, run>> PROVE JobInv'
    <2>1. status # "NONE"
      <3>1. run[e[1]] \in {"OK", "FAILED"} /\ e[1] \in Slice
        BY <1>0, FreshClose
      <3> QED
        BY <3>1 DEF JobInv
    <2>2. status' # "NONE"
      BY <1>2, <2>1 DEF onSliceClosed, finalizeIfComplete, jobVars
    <2>3. status' = "RUNNING" => slicesOK' + slicesError' < TotalSlices
      BY <1>2, CountedStays DEF JobInv
    <2> QED
      BY <1>2, <2>1, <2>2, <2>3 DEF JobInv
  <1>3. ASSUME CreateBackfill PROVE JobInv'
    <2>1. /\ status' = IF TotalSlices = 0 THEN "COMPLETED" ELSE "RUNNING"
          /\ \A s \in Slice : task'[s] = "pending"
          /\ slicesOK' = 0 /\ slicesError' = 0
      BY <1>3 DEF CreateBackfill, JobInv
    <2>2. TotalSlices \in Nat
      BY BackfillAssumptions, FS_CardinalityType
    <2> QED
      BY <2>1, <2>2 DEF JobInv
  \* Tasks and executions only move once the job exists, and no task vanishes.
  <1>4. ASSUME status # "NONE", UNCHANGED <<status, slicesOK, slicesError>>,
               \A s \in Slice : task[s] # "none" => task'[s] # "none"
        PROVE  JobInv'
    BY <1>4 DEF JobInv
  <1>5. ASSUME NEW w \in Worker, NEW s \in Slice, Dispatch(w, s) PROVE JobInv'
    <2>1. /\ task[s] = "pending" /\ UNCHANGED <<status, slicesOK, slicesError>>
          /\ \A t \in Slice : task[t] # "none" => task'[t] # "none"
      BY <1>0, <1>5 DEF Dispatch, jobVars, TypeOK
    <2>2. status # "NONE"
      BY <2>1 DEF JobInv
    <2> QED
      BY <1>4, <2>1, <2>2
  <1>6. ASSUME NEW w \in Worker, GoesOn(w), UNCHANGED <<status, slicesOK, slicesError>> PROVE JobInv'
    <2>1. pc[w] # "idle" /\ task' = task
      BY <1>6 DEF GoesOn
    <2>2. status # "NONE"
      BY <2>1 DEF JobInv
    <2> QED
      BY <1>4, <1>6, <2>1, <2>2
  <1>7. ASSUME NEW w \in Worker, Leaves(w) PROVE JobInv'
    <2>1. /\ pc[w] # "idle" /\ UNCHANGED <<status, slicesOK, slicesError>>
          /\ \A t \in Slice : task[t] # "none" => task'[t] # "none"
      BY <1>0, <1>7 DEF Leaves, TypeOK
    <2>2. status # "NONE"
      BY <2>1 DEF JobInv
    <2> QED
      BY <1>4, <2>1, <2>2
  <1>8. ASSUME NEW s \in Slice, Republish(s) PROVE JobInv'
    <2>1. /\ task[s] = "done" /\ UNCHANGED <<status, slicesOK, slicesError>>
          /\ \A t \in Slice : task[t] # "none" => task'[t] # "none"
      BY <1>0, <1>8 DEF Republish, jobVars, TypeOK
    <2>2. status # "NONE"
      BY <2>1 DEF JobInv
    <2> QED
      BY <1>4, <2>1, <2>2
  <1> QED
    BY <1>0, <1>1, <1>2, <1>3, <1>5, <1>6, <1>7, <1>8, WorkMoves

LEMMA InitWork == Init => WorkInv
  <1> SUFFICES ASSUME Init PROVE WorkInv
    OBVIOUS
  <1>1. LeaseInv
    BY DEF Init, LeaseInv
  <1>2. PhaseInv
    BY DEF Init, PhaseInv
  <1>3. JobInv
    BY DEF Init, JobInv
  <1> QED
    BY <1>1, <1>2, <1>3 DEF WorkInv

\* What is left to do of a job that runs: some slice is uncounted, and its task
\* and its run say where it is.
LEMMA WorkLeft ==
    ASSUME IInv, WorkInv
    PROVE  RunningHasWork
  <1> SUFFICES ASSUME status = "RUNNING"
               PROVE  \E s \in Slice : \/ task[s] = "pending"
                                       \/ \E w \in Worker : holds[w] /\ at[w] = s
                                       \/ sent[s] # <<>> /\ <<s, 1>> \notin counted
                                       \/ task[s] = "archived" /\ sent[s] = <<>>
    BY DEF RunningHasWork
  <1>1. TallyInv /\ slicesOK + slicesError < TotalSlices
    BY DEF IInv, WorkInv, JobInv
  <1>2. PICK s \in Slice : s \notin Heard("OK") \cup Heard("FAILED")
    <2>1. CASE Heard("OK") \cup Heard("FAILED") = Slice
      <3>1. Cardinality(Slice) = slicesOK + slicesError
        BY <1>1, <2>1, HeardFacts
      <3>2. slicesOK \in Nat /\ slicesError \in Nat /\ TotalSlices = Cardinality(Slice)
        BY <1>1, HeardFacts, BackfillAssumptions
      <3> QED
        BY <1>1, <3>1, <3>2
    <2>2. CASE Heard("OK") \cup Heard("FAILED") # Slice
      BY <2>2 DEF Heard
    <2> QED
      BY <2>1, <2>2
  <1>3. <<s, 1>> \notin counted
    <2>1. <<s, 1>> \in counted => run[s] \in {"OK", "FAILED"}
      BY <1>1 DEF TallyInv
    <2> QED
      BY <1>2, <2>1 DEF Heard
  <1>4. task[s] \in {"pending", "active", "done", "archived"}
    BY DEF IInv, TypeOK, WorkInv, JobInv
  <1>5. CASE task[s] = "active"
    BY <1>5 DEF WorkInv, LeaseInv
  <1>6. CASE task[s] = "done"
    <2>1. run[s] \in {"OK", "FAILED"}
      BY <1>6 DEF WorkInv, PhaseInv
    <2>2. sent[s] \in {<<"sync_completed">>, <<"sync_failed">>}
      BY <2>1 DEF IInv, ClosesOnce
    <2>3. sent[s] # <<>>
      BY <2>2
    <2> QED
      BY <1>3, <2>3
  <1> QED
    BY <1>3, <1>4, <1>5, <1>6

\* The safety half of JobSettles, for every number of slices and workers: no
\* crash, lost lease, resumption or order of the closes leaves a job RUNNING
\* with nothing on its way, unless a task was archived with its run open.
THEOREM RunningIsServed == Spec => []RunningHasWork
  <1>1. IInv /\ IInv' /\ WorkInv /\ [Next]_vars => WorkInv'
    BY LeaseStep, PhaseStep, JobStep DEF IInv, WorkInv
  <1>2. IInv /\ WorkInv => RunningHasWork
    BY WorkLeft
  <1> QED
    BY Invariance, InitWork, <1>1, <1>2, PTL DEF Spec

\* The status of a job, for every number of slices and workers: finished, all
\* its slices closed and were counted once; running, one of them is on its way.
THEOREM StatusIsTruthful == Spec => []StatusTellsTruth
  BY FinishedMeansComplete, RunningIsServed, PTL DEF StatusTellsTruth
-----------------------------------------------------------------------------
(* The window arithmetic.                                                  *)

\* A window of the loop that starts at cur.
windowFrom(cur, to, windowDays) == [from |-> cur, to |-> earlierDay(cur + windowDays, to)]

\* How many windows are cut from cur on.
Left(cur, to, windowDays) == IF cur < to THEN (to - cur + windowDays - 1) \div windowDays ELSE 0

\* The windows from cur on, each by its number.
Cut(cur, to, windowDays) ==
    [i \in 1..Left(cur, to, windowDays) |-> windowFrom(cur + (i - 1) * windowDays, to, windowDays)]

\* A set of naturals has a least element.
LEMMA Least ==
    ASSUME NEW S \in SUBSET Nat, S # {}
    PROVE  \E m \in S : \A n \in S : m <= n
  <1>1. PICK m \in S : \A n \in S : ~(<<n, m>> \in OpToRel(<, Nat))
    BY NatLessThanWellFounded, WFMin
  <1>2. \A n \in S : <<n, m>> \in OpToRel(<, Nat) <=> n < m
    BY DEF OpToRel
  <1>3. \A n \in S : ~(n < m)
    BY <1>1, <1>2, Zenon
  <1> QED
    BY <1>3

\* One turn of the loop of buildSyncWindows, and the function that it computes.
Turn(f, to, windowDays) ==
    [cur \in Int |-> IF cur < to
                     THEN <<windowFrom(cur, to, windowDays)>> \o f[earlierDay(cur + windowDays, to)]
                     ELSE <<>>]

Loop(to, windowDays) == CHOOSE f : f = Turn(f, to, windowDays)

\* The quotient is the one whole number of windows that fits.
LEMMA Quotient ==
    ASSUME NEW x \in Int, NEW w \in Int, w > 0
    PROVE  /\ x \div w \in Int
           /\ (x \div w) * w <= x /\ x < (x \div w + 1) * w
           /\ (x - w) \div w = (x \div w) - 1
  BY SMT

LEMMA QuotientIsUnique ==
    ASSUME NEW x \in Int, NEW w \in Int, w > 0, NEW q \in Int, q * w <= x, x < (q + 1) * w
    PROVE  q = x \div w
  BY Quotient, SMT

LEMMA LeftUnrolls ==
    ASSUME NEW cur \in Int, NEW to \in Int, NEW wd \in Int, wd > 0
    PROVE  /\ Left(cur, to, wd) \in Nat
           /\ earlierDay(cur + wd, to) \in Int
           /\ cur < to => Left(cur, to, wd) = Left(earlierDay(cur + wd, to), to, wd) + 1
           /\ cur < to /\ ~(cur + wd < to) => Left(cur, to, wd) = 1 /\ Left(earlierDay(cur + wd, to), to, wd) = 0
  <1>1. earlierDay(cur + wd, to) \in Int
    BY DEF earlierDay
  <1>2. ASSUME cur < to PROVE Left(cur, to, wd) \in Nat
    <2> DEFINE x == to - cur + wd - 1
    <2>1. x \in Int /\ x >= 0
      BY <1>2
    <2>2. x \div wd \in Nat
      BY <2>1, SMT
    <2> QED
      BY <1>2, <2>2 DEF Left
  <1>3. ASSUME cur + wd < to PROVE Left(cur, to, wd) = Left(cur + wd, to, wd) + 1
    <2> DEFINE x == to - cur + wd - 1
    <2>1. (x - wd) \div wd = (x \div wd) - 1 /\ x \div wd \in Int
      BY Quotient
    <2>2. x - wd = to - (cur + wd) + wd - 1
      OBVIOUS
    <2> QED
      BY <1>3, <2>1, <2>2 DEF Left
  <1>4. ASSUME cur < to, ~(cur + wd < to) PROVE Left(cur, to, wd) = 1 /\ Left(to, to, wd) = 0
    <2> DEFINE x == to - cur + wd - 1
    <2>1. 1 * wd <= x /\ x < (1 + 1) * wd
      BY <1>4
    <2>2. 1 = x \div wd
      BY <2>1, QuotientIsUnique
    <2> QED
      BY <1>4, <2>2 DEF Left
  <1> QED
    BY <1>1, <1>2, <1>3, <1>4 DEF Left, earlierDay

LEMMA CutUnrolls ==
    ASSUME NEW cur \in Int, NEW to \in Int, NEW wd \in Int, wd > 0
    PROVE  Cut(cur, to, wd) =
              IF cur < to
              THEN <<windowFrom(cur, to, wd)>> \o Cut(earlierDay(cur + wd, to), to, wd)
              ELSE <<>>
  <1>1. CASE ~(cur < to)
    <2>1. Left(cur, to, wd) = 0
      BY <1>1 DEF Left
    <2>2. Cut(cur, to, wd) = <<>>
      BY <2>1 DEF Cut
    <2> QED
      BY <1>1, <2>2
  <1>2. CASE cur < to
    <2> DEFINE next == earlierDay(cur + wd, to)
               k == Left(next, to, wd)
               W(i) == windowFrom(cur + (i - 1) * wd, to, wd)
    <2>1. k \in Nat /\ next \in Int /\ Left(cur, to, wd) = k + 1
      BY <1>2, LeftUnrolls
    <2>2. Cut(cur, to, wd) = [i \in 1..(k + 1) |-> W(i)]
      BY <2>1 DEF Cut
    <2>3. Cut(next, to, wd) = [i \in 1..k |-> W(i + 1)]
      <3>1. CASE k = 0
        <4>1. 1..k = {}
          BY <3>1
        <4> QED
          BY <4>1 DEF Cut
      <3>2. CASE k # 0
        <4>1. cur + wd < to
          BY <1>2, <3>2, LeftUnrolls
        <4>2. next = cur + wd
          BY <4>1 DEF earlierDay
        <4>3. \A i \in 1..k : next + (i - 1) * wd = cur + ((i + 1) - 1) * wd
          BY <2>1, <4>2
        <4> QED
          BY <4>3 DEF Cut
      <3> QED
        BY <3>1, <3>2
    <2>4. W(1) = windowFrom(cur, to, wd)
      BY DEF windowFrom
    <2> HIDE DEF W, k, next
    <2>5. <<W(1)>> \o [i \in 1..k |-> W(i + 1)] = [i \in 1..(k + 1) |-> W(i)]
      BY <2>1
    <2> QED
      BY <1>2, <2>2, <2>3, <2>4, <2>5 DEF next
  <1> QED
    BY <1>1, <1>2

\* The loop computes the cut: a day from which it did not would have one nearer
\* to the end of the horizon, and so a nearest.
LEMMA LoopIsCut ==
    ASSUME NEW from \in Int, NEW to \in Int, NEW wd \in Int, wd > 0
    PROVE  buildSyncWindows(from, to, wd) = Cut(from, to, wd)
  <1> DEFINE all == [cur \in Int |-> Cut(cur, to, wd)]
             loop == Loop(to, wd)
             Wrong == {d \in Nat : loop[to - d] # Cut(to - d, to, wd)}
  <1>1. all = Turn(all, to, wd)
    <2>1. ASSUME NEW cur \in Int
          PROVE  Cut(cur, to, wd) = IF cur < to
                                    THEN <<windowFrom(cur, to, wd)>> \o all[earlierDay(cur + wd, to)]
                                    ELSE <<>>
      <3>1. earlierDay(cur + wd, to) \in Int
        BY LeftUnrolls
      <3>2. all[earlierDay(cur + wd, to)] = Cut(earlierDay(cur + wd, to), to, wd)
        BY <3>1
      <3> QED
        BY <3>2, CutUnrolls
    <2> HIDE DEF all
    <2>2. all = [cur \in Int |-> Cut(cur, to, wd)]
      BY DEF all
    <2> QED
      BY <2>1, <2>2 DEF Turn
  <1>2. loop = Turn(loop, to, wd)
    BY <1>1 DEF Loop
  <1> HIDE DEF loop
  <1>3. Wrong = {}
    <2> SUFFICES ASSUME Wrong # {} PROVE FALSE
      OBVIOUS
    <2>1. PICK d \in Wrong : \A c \in Wrong : d <= c
      <3>1. Wrong \in SUBSET Nat
        OBVIOUS
      <3> HIDE DEF Wrong
      <3> QED
        BY <3>1, Least
    <2>2. d \in Nat /\ \A c \in 0..(d - 1) : c \notin Wrong
      BY <2>1
    <2> DEFINE cur == to - d
               next == earlierDay(cur + wd, to)
    <2>3. next \in Int /\ (cur < to => to - next \in 0..(d - 1))
      BY <2>2 DEF earlierDay
    <2>4. cur < to => loop[next] = Cut(next, to, wd)
      <3> SUFFICES ASSUME cur < to PROVE loop[next] = Cut(next, to, wd)
        OBVIOUS
      <3>1. to - next \in Nat /\ to - next \notin Wrong
        BY <2>2, <2>3
      <3>2. to - (to - next) = next
        BY <2>3
      <3> QED
        BY <3>1, <3>2
    <2>5. cur \in Int
      BY <2>2
    <2>6. loop[cur] = IF cur < to THEN <<windowFrom(cur, to, wd)>> \o loop[next] ELSE <<>>
      BY <1>2, <2>5 DEF Turn
    <2>7. loop[cur] = Cut(cur, to, wd)
      BY <2>4, <2>5, <2>6, CutUnrolls
    <2> QED
      BY <2>1, <2>7
  <1>4. loop[from] = Cut(from, to, wd)
    <2>1. CASE from < to
      <3>1. to - from \in Nat /\ to - (to - from) = from
        BY <2>1
      <3>2. to - from \notin Wrong
        BY <1>3
      <3> QED
        BY <3>1, <3>2
    <2>2. CASE ~(from < to)
      <3>1. loop[from] = <<>>
        BY <1>2, <2>2 DEF Turn
      <3> QED
        BY <2>2, <3>1, CutUnrolls
    <2> QED
      BY <2>1, <2>2
  <1>5. ~(wd <= 0)
    OBVIOUS
  <1> QED
    BY <1>4, <1>5, Zenon DEF buildSyncWindows, Loop, Turn, windowFrom, loop

\* The windows of a cut: in the range, not too long, one after the other.
LEMMA CutWindows ==
    ASSUME NEW from \in Int, NEW to \in Int, NEW wd \in Int, wd > 0
    PROVE  /\ Len(Cut(from, to, wd)) = Left(from, to, wd)
           /\ DOMAIN Cut(from, to, wd) = 1..Left(from, to, wd)
           /\ \A i \in 1..Left(from, to, wd) :
                 LET win == Cut(from, to, wd)[i] IN
                 /\ win.from = from + (i - 1) * wd
                 /\ win.to = earlierDay(from + i * wd, to)
                 /\ from <= win.from /\ win.from < win.to /\ win.to <= to
                 /\ win.to - win.from <= wd
  <1>1. Left(from, to, wd) \in Nat
    BY LeftUnrolls
  <1>2. ASSUME NEW i \in 1..Left(from, to, wd)
        PROVE  /\ Cut(from, to, wd)[i] = windowFrom(from + (i - 1) * wd, to, wd)
               /\ from + (i - 1) * wd + wd = from + i * wd
               /\ from <= from + (i - 1) * wd
               /\ from + (i - 1) * wd < to
    <2>1. Cut(from, to, wd)[i] = windowFrom(from + (i - 1) * wd, to, wd)
      BY DEF Cut
    <2>2. i \in Int /\ i >= 1 /\ (i - 1) * wd \in Int /\ (i - 1) * wd >= 0
      BY <1>1
    <2>3. from + (i - 1) * wd + wd = from + i * wd
      BY <2>2
    <2>4. from < to /\ Left(from, to, wd) = (to - from + wd - 1) \div wd
      BY <1>1 DEF Left
    <2> DEFINE k == (to - from + wd - 1) \div wd
    <2>5. k \in Int /\ k * wd <= to - from + wd - 1
      BY Quotient
    <2>6. i * wd <= k * wd
      <3>1. i <= k /\ k - i >= 0
        BY <1>1, <2>4, <2>5
      <3>2. (k - i) * wd >= 0
        BY <2>2, <2>5, <3>1
      <3> QED
        BY <2>2, <2>5, <3>2
    <2>7. (i - 1) * wd <= to - from - 1
      BY <2>2, <2>3, <2>5, <2>6
    <2> QED
      BY <2>1, <2>2, <2>3, <2>7
  <1>3. Len(Cut(from, to, wd)) = Left(from, to, wd) /\ DOMAIN Cut(from, to, wd) = 1..Left(from, to, wd)
    BY <1>1 DEF Cut
  <1>4. ASSUME NEW i \in 1..Left(from, to, wd)
        PROVE  LET win == Cut(from, to, wd)[i] IN
               /\ win.from = from + (i - 1) * wd
               /\ win.to = earlierDay(from + i * wd, to)
               /\ from <= win.from /\ win.from < win.to /\ win.to <= to
               /\ win.to - win.from <= wd
    <2> DEFINE win == Cut(from, to, wd)[i]
               start == from + (i - 1) * wd
               end == from + i * wd
    <2>1. i \in Int
      BY <1>1
    <2>2. start \in Int /\ end \in Int /\ start + wd = end /\ from <= start /\ start < to
      BY <1>2, <2>1
    <2>3. win = windowFrom(start, to, wd)
      BY <1>2
    <2> HIDE DEF win, start, end
    <2>4. /\ win.from = start /\ win.to = earlierDay(end, to)
          /\ from <= win.from /\ win.from < win.to /\ win.to <= to
          /\ win.to - win.from <= wd
      BY <2>2, <2>3 DEF windowFrom, earlierDay
    <2> QED
      BY <2>4 DEF win, start, end
  <1> QED
    BY <1>3, <1>4

\* Every day of the range is in one window.
LEMMA CutCovers ==
    ASSUME NEW from \in Int, NEW to \in Int, NEW wd \in Int, wd > 0, NEW d \in from..(to - 1)
    PROVE  Cardinality({i \in 1..Left(from, to, wd) :
                Cut(from, to, wd)[i].from <= d /\ d < Cut(from, to, wd)[i].to}) = 1
  <1> DEFINE n == ((d - from) \div wd) + 1
             cut == Cut(from, to, wd)
             k == Left(from, to, wd)
  <1>1. /\ d - from \in Int /\ (d - from) \div wd \in Int
        /\ ((d - from) \div wd) * wd <= d - from
        /\ d - from < ((d - from) \div wd + 1) * wd
    BY Quotient
  <1>2. n \in Int /\ (n - 1) * wd <= d - from /\ d - from < n * wd
    BY <1>1
  <1>3. n >= 1
    BY <1>1, SMT
  <1>4. k \in Int /\ k * wd >= to - from
    <2>1. from < to /\ k = (to - from + wd - 1) \div wd
      BY DEF Left
    <2> DEFINE x == to - from + wd - 1
    <2>2. x \in Int /\ x \div wd \in Int /\ x < (x \div wd + 1) * wd
      BY Quotient
    <2>3. k \in Int /\ x < (k + 1) * wd
      BY <2>1, <2>2
    <2>4. (k + 1) * wd = k * wd + wd
      BY <2>3
    <2> QED
      BY <2>3, <2>4
  <1> HIDE DEF n, k
  <1>5. n <= k
    <2> SUFFICES ASSUME n > k PROVE FALSE
      BY <1>2, <1>4
    <2>1. (n - 1 - k) * wd >= 0
      BY <1>2, <1>4
    <2>2. (n - 1) * wd >= k * wd
      BY <1>2, <1>4, <2>1
    <2> QED
      BY <1>2, <1>4, <2>2
  <1>6. ASSUME NEW i \in 1..k
        PROVE  cut[i].from <= d /\ d < cut[i].to <=> i = n
    <2>1. i \in Int /\ cut[i].from = from + (i - 1) * wd /\ cut[i].to = earlierDay(from + i * wd, to)
      <3>1. i \in Int
        BY <1>4
      <3>2. cut[i].from = from + (i - 1) * wd
        BY CutWindows DEF k
      <3>3. cut[i].to = earlierDay(from + i * wd, to)
        BY CutWindows DEF k
      <3> QED
        BY <3>1, <3>2, <3>3
    <2>2. cut[i].from <= d /\ d < cut[i].to <=> (i - 1) * wd <= d - from /\ d - from < i * wd
      BY <2>1 DEF earlierDay
    <2>3. ASSUME (i - 1) * wd <= d - from, d - from < i * wd PROVE i = n
      <3>1. ((i - 1) + 1) * wd = i * wd
        BY <2>1
      <3>2. i - 1 = (d - from) \div wd
        BY <1>1, <2>1, <2>3, <3>1, QuotientIsUnique
      <3> QED
        BY <1>1, <2>1, <3>2 DEF n
    <2> QED
      BY <1>2, <2>2, <2>3
  <1>7. {i \in 1..k : cut[i].from <= d /\ d < cut[i].to} = {n}
    BY <1>2, <1>3, <1>4, <1>5, <1>6
  <1> QED
    BY <1>7, FS_Singleton DEF k

\* The days of any horizon, cut by windows of any size: each is fetched by one
\* window, none reaches outside the horizon or is too long, and there are as
\* many as calculateSlices says, which counts them without building them. So
\* the job's total_slices is the number of the slices it fanned out to.
LEMMA WindowsTileEach ==
    ASSUME NEW today \in Int, NEW horizonDays \in Int, NEW windowDays \in Int
    PROVE  LET win == buildSyncWindows(today - horizonDays, today, windowDays) IN
           /\ Len(win) = calculateSlices(horizonDays, windowDays)
           /\ windowDays > 0 =>
                 /\ \A d \in (today - horizonDays)..(today - 1) :
                       Cardinality({i \in DOMAIN win : win[i].from <= d /\ d < win[i].to}) = 1
                 /\ \A i \in DOMAIN win :
                       /\ today - horizonDays <= win[i].from
                       /\ win[i].from < win[i].to
                       /\ win[i].to <= today
                       /\ win[i].to - win[i].from <= windowDays
  <1> DEFINE from == today - horizonDays
             win == buildSyncWindows(from, today, windowDays)
  <1>1. from \in Int
    OBVIOUS
  <1>2. CASE windowDays <= 0
    <2>1. win = <<>> /\ calculateSlices(horizonDays, windowDays) = 0
      BY <1>2, Zenon DEF buildSyncWindows, calculateSlices
    <2> HIDE DEF win
    <2>2. Len(win) = 0 /\ ~(windowDays > 0)
      BY <1>2, <2>1
    <2> QED
      BY <2>1, <2>2 DEF win
  <1>3. CASE windowDays > 0
    <2> DEFINE cut == Cut(from, today, windowDays)
               k == Left(from, today, windowDays)
    <2> HIDE DEF from
    <2>1. win = cut
      BY <1>1, <1>3, LoopIsCut
    <2>2. k = calculateSlices(horizonDays, windowDays)
      <3>1. ~(windowDays <= 0) /\ (from < today <=> ~(horizonDays <= 0))
        BY <1>3 DEF from
      <3>2. today - from = horizonDays
        BY DEF from
      <3>3. k = IF from < today THEN (horizonDays + windowDays - 1) \div windowDays ELSE 0
        BY <3>2 DEF Left
      <3> QED
        BY <3>1, <3>3 DEF calculateSlices
    <2>3. /\ Len(cut) = k /\ DOMAIN cut = 1..k
          /\ \A i \in 1..k : /\ from <= cut[i].from /\ cut[i].from < cut[i].to
                             /\ cut[i].to <= today /\ cut[i].to - cut[i].from <= windowDays
      BY <1>1, <1>3, CutWindows
    <2>4. \A d \in from..(today - 1) :
             Cardinality({i \in 1..k : cut[i].from <= d /\ d < cut[i].to}) = 1
      BY <1>1, <1>3, CutCovers
    <2> HIDE DEF win, cut, k
    <2>5. /\ Len(win) = calculateSlices(horizonDays, windowDays)
          /\ \A d \in from..(today - 1) :
                Cardinality({i \in DOMAIN win : win[i].from <= d /\ d < win[i].to}) = 1
          /\ \A i \in DOMAIN win :
                /\ from <= win[i].from /\ win[i].from < win[i].to
                /\ win[i].to <= today /\ win[i].to - win[i].from <= windowDays
      BY <2>1, <2>2, <2>3, <2>4
    <2> QED
      BY <2>5 DEF win, from
  <1> QED
    BY <1>2, <1>3

\* What the two functions of the window arithmetic say agrees, for every horizon
\* and window size, zero and negative included.
THEOREM WindowsTile == Spec => []WindowsTileHorizon
  <1>1. \A size \in Sizes : size[1] \in Int /\ size[2] \in Int
    BY WindowAssumptions DEF Sizes
  <1>2. WindowsTileHorizon
    BY <1>1, WindowsTileEach, WindowAssumptions DEF WindowsTileHorizon, Windows
  <1> QED
    BY <1>2, PTL

\* A horizon's windows are as many as its total_slices, which is what the
\* theorems above assume of the slices (BackfillAssumptions).
THEOREM SlicesAreCounted ==
    ASSUME HorizonDays \in Int, WindowDays \in Int
    PROVE  IsFiniteSet(MCSlice) /\ Cardinality(MCSlice) = MCTotalSlices
  <1> DEFINE k == calculateSlices(HorizonDays, WindowDays)
  <1>1. MCSlice = 1..k
    BY WindowsTileEach, WindowAssumptions DEF MCSlice
  <1>2. k \in Nat
    <2>1. CASE HorizonDays <= 0 \/ WindowDays <= 0
      BY <2>1 DEF calculateSlices
    <2>2. CASE ~(HorizonDays <= 0 \/ WindowDays <= 0)
      <3> DEFINE x == HorizonDays + WindowDays - 1
      <3>1. x \in Int /\ x >= 0 /\ WindowDays > 0
        BY <2>2
      <3>2. x \div WindowDays \in Nat
        BY <3>1, SMT
      <3> QED
        BY <2>2, <3>2 DEF calculateSlices
    <2> QED
      BY <2>1, <2>2
  <1> HIDE DEF k
  <1>3. IsFiniteSet(1..k) /\ Cardinality(1..k) = k
    BY <1>2, FS_Interval
  <1> QED
    BY <1>1, <1>3 DEF MCTotalSlices, k
=============================================================================
