----------------------- MODULE DocumentPipelineProofs -----------------------
(***************************************************************************)
(* Theorems of DocumentPipeline.  A document has one document.uploaded and *)
(* at most one document.extracted, so an execution is about one of two     *)
(* events, U(d) and X(d); the invariant says what their marks, their tasks *)
(* and their executions imply for the row.                                 *)
(***************************************************************************)
EXTENDS DocumentPipeline, TLAPS

U(d) == Uploaded(d, 1)
X(d) == Extracted(d, 1)

Issued(e) == e.n <= published[e.doc][e.type]

Clean == faults + crashes = 0

\* Past its mark and before its last answer: the one extraction of a document.
Extracting(w) == exec[w].pc \in {"extract", "finalize", "fail"}

Working(d) == \E w \in Worker : Extracting(w) /\ exec[w].of.doc = d

\* What the row, the outbox and the marks of d say of each other.
DocInv(d) ==
    /\ published[d]["document.uploaded"] =
           IF doc[d].status \in {"none", "PENDING"} THEN 0 ELSE 1
    /\ published[d]["document.extracted"] <= published[d]["document.uploaded"]
    /\ published[d]["document.ready"] <= published[d]["document.extracted"]
    /\ U(d) \notin seen => /\ doc[d].status \in {"none", "PENDING", "UPLOADED"}
                           /\ ocr[d] = 0
                           /\ published[d]["document.extracted"] = 0
    /\ U(d) \in seen => doc[d].status \notin {"none", "PENDING", "UPLOADED"}
    /\ X(d) \notin seen => published[d]["document.ready"] = 0
    /\ X(d) \in seen => doc[d].status # "EXTRACTED"
    /\ doc[d].status = "EXTRACTED" => published[d]["document.extracted"] = 1
    /\ published[d]["document.ready"] = 1 /\ doc[d].text = "full" => doc[d].chunks
    /\ ocr[d] <= 1
    /\ doc[d].status = "EXTRACTING" => Working(d) \/ ~Clean
    /\ doc[d].status = "FAILED" => doc[d].deleted \/ ~Clean

\* What an execution knows of its event and of the document.
ExecInv(w) ==
    LET e == exec[w].of IN
    exec[w] # Idle =>
        /\ Issued(e)
        /\ e.type = IF exec[w].pc = "mark" \/ Extracting(w)
                    THEN "document.uploaded" ELSE "document.extracted"
        /\ Extracting(w) => e \in seen
        /\ exec[w].pc = "extract" => ocr[e.doc] = 0
        /\ exec[w].pc \in {"extract", "finalize"} => published[e.doc]["document.extracted"] = 0
        /\ exec[w].pc = "fail" => ~Clean
        /\ exec[w].pc = "recordFailure" => /\ exec[w].cause # "none"
                                           /\ doc[e.doc].deleted \/ ~Clean

OneExtraction ==
    \A w, v \in Worker : Extracting(w) /\ Extracting(v) /\ exec[w].of = exec[v].of => w = v

\* What the task of an event says of its mark and its executions.
TaskInv(e) ==
    /\ task[e].state # "none" <=> Issued(e)
    /\ task[e].state = "done" => e \in seen
    /\ Clean /\ task[e].state \in {"running", "done", "archived"} =>
           \/ e \in seen
           \/ \E w \in Worker : exec[w] # Idle /\ exec[w].of = e
           \/ doc[e.doc].deleted

IInv ==
    /\ TypeOK
    /\ \A e \in seen : Issued(e)
    /\ \A d \in Doc : DocInv(d)
    /\ \A w \in Worker : ExecInv(w)
    /\ OneExtraction
    /\ \A e \in Event : TaskInv(e)
-----------------------------------------------------------------------------
(* Types.                                                                  *)

\* Tasks stay tasks, whatever answer the queue hears.
LEMMA TaskTypes ==
    /\ NoTask \in Task
    /\ \A t \in Task : Retried(t) \in Task
    /\ \A t \in Task, c \in Cause : Answered(t, c) \in Task
    /\ \A t \in Task, s \in {"queued", "running"} : [t EXCEPT !.state = s] \in Task
  <1>1. MaxRetry \in Nat
    BY DeliveryAssumptions
  <1> QED
    BY <1>1 DEF NoTask, Task, Retried, Answered, Cause

\* The events of a document.
LEMMA EventTypes ==
    /\ \A d \in Doc, n \in 1..MaxEvents : Uploaded(d, n) \in Event /\ Extracted(d, n) \in Event
    /\ \A e \in Event : /\ e.doc \in Doc /\ e.n \in 1..MaxEvents
                        /\ e.type \in {"document.uploaded", "document.extracted"}
                        /\ e.type = "document.uploaded" => e = Uploaded(e.doc, e.n)
                        /\ e.type = "document.extracted" => e = Extracted(e.doc, e.n)
    /\ MaxEvents \in Nat /\ 1 \in 1..MaxEvents
  BY DocumentAssumptions DEF Event, Uploaded, Extracted, Type

\* A running execution has its fields; those of an execution keep their types.
LEMMA ExecTypes ==
    ASSUME TypeOK, NEW w \in Worker, exec[w].pc # "idle"
    PROVE  /\ exec[w] \in [pc : {"mark", "extract", "finalize", "fail", "prep", "persist", "recordFailure"},
                           of : Event, cause : Cause, zombie : BOOLEAN]
           /\ exec[w].of \in Event /\ exec[w].of.doc \in Doc /\ exec[w] # Idle
  BY EventTypes DEF TypeOK, Exec, Idle

\* The tasks after an answer of the handler of w are tasks.
LEMMA ReturnTypes ==
    ASSUME TypeOK, NEW w \in Worker, exec[w].pc # "idle", NEW c \in Cause
    PROVE  Returned(w, c) \in [Event -> Task]
  <1>1. exec[w].of \in Event
    BY ExecTypes
  <1> QED
    BY <1>1, TaskTypes DEF TypeOK, Returned

\* An answer keeps the types of the tasks and the executions.
LEMMA TypeReturn ==
    ASSUME TypeOK, NEW w \in Worker, exec[w].pc # "idle", NEW c \in Cause, Return(w, c)
    PROVE  task' \in [Event -> Task] /\ exec' \in [Worker -> Exec]
  BY ReturnTypes DEF TypeOK, Return, Exec

\* So does a step to another place of the handler.
LEMMA TypeGoto ==
    ASSUME TypeOK, NEW w \in Worker, exec[w].pc # "idle",
           NEW pc \in {"mark", "extract", "finalize", "fail", "prep", "persist", "recordFailure"},
           Goto(w, pc)
    PROVE  exec' \in [Worker -> Exec]
  <1>1. /\ exec[w] \in [pc : {"mark", "extract", "finalize", "fail", "prep", "persist", "recordFailure"},
                        of : Event, cause : Cause, zombie : BOOLEAN]
        /\ exec \in [Worker -> Exec]
    BY ExecTypes DEF TypeOK
  <1>2. [exec[w] EXCEPT !.pc = pc] \in Exec
    BY <1>1 DEF Exec
  <1>3. exec' = [exec EXCEPT ![w] = [exec[w] EXCEPT !.pc = pc]]
    BY <1>1 DEF Goto
  <1> QED
    BY <1>1, <1>2, <1>3

\* So does a step to a failure branch, which remembers its cause.
LEMMA TypeGotoFail ==
    ASSUME TypeOK, NEW w \in Worker, exec[w].pc # "idle",
           NEW pc \in {"mark", "extract", "finalize", "fail", "prep", "persist", "recordFailure"},
           NEW c \in Cause, GotoFail(w, pc, c)
    PROVE  exec' \in [Worker -> Exec]
  <1>1. /\ exec[w] \in [pc : {"mark", "extract", "finalize", "fail", "prep", "persist", "recordFailure"},
                        of : Event, cause : Cause, zombie : BOOLEAN]
        /\ exec \in [Worker -> Exec]
    BY ExecTypes DEF TypeOK
  <1>2. [exec[w] EXCEPT !.pc = pc, !.cause = c] \in Exec
    BY <1>1 DEF Exec
  <1>3. exec' = [exec EXCEPT ![w] = [exec[w] EXCEPT !.pc = pc, !.cause = c]]
    BY <1>1 DEF GotoFail
  <1> QED
    BY <1>1, <1>2, <1>3

\* The bounds count no further than their limits.
LEMMA TypeBounds ==
    ASSUME TypeOK
    PROVE  /\ NoFault => faults' \in 0..MaxFaults /\ crashes' \in 0..MaxCrashes /\ lapses' \in 0..MaxLapses
           /\ Fault => faults' \in 0..MaxFaults
  BY DeliveryAssumptions DEF TypeOK, NoFault, Fault, bounds

\* The columns of a row keep their types, whatever a step writes to them.
LEMMA RowTypes ==
    ASSUME NEW r \in Row
    PROVE  /\ \A o \in Origin : [r EXCEPT !.status = "PENDING", !.origin = o] \in Row
           /\ [r EXCEPT !.bytes = TRUE] \in Row
           /\ [r EXCEPT !.deleted = TRUE] \in Row
           /\ [r EXCEPT !.status = "READY", !.chunks = r.chunks \/ r.text = "full"] \in Row
  BY DEF Row, Status, Origin

\* A row given another status is a row: Complete, finalize and fail.
LEMMA StatusTypes ==
    ASSUME TypeOK, NEW d \in Doc
    PROVE  /\ [doc EXCEPT ![d].status = "UPLOADED"] \in [Doc -> Row]
           /\ [doc EXCEPT ![d].status = "EXTRACTED"] \in [Doc -> Row]
           /\ [doc EXCEPT ![d].status = "FAILED"] \in [Doc -> Row]
  <1>1. doc \in [Doc -> Row] /\ doc[d] \in Row
    BY DEF TypeOK
  <1>2. ASSUME NEW s \in Status
        PROVE  [doc EXCEPT ![d].status = s] \in [Doc -> Row]
    <2>1. [doc[d] EXCEPT !.status = s] \in Row
      BY <1>1 DEF Row
    <2> QED
      BY <1>1, <2>1
  <1>3. {"UPLOADED", "EXTRACTED", "FAILED"} \subseteq Status
    BY DEF Status
  <1> QED
    BY <1>2, <1>3

\* So is one that Start, PutBytes or Delete writes.
LEMMA UploadTypes ==
    ASSUME TypeOK, NEW d \in Doc
    PROVE  /\ \A o \in Origin : [doc EXCEPT ![d].status = "PENDING", ![d].origin = o] \in [Doc -> Row]
           /\ [doc EXCEPT ![d].bytes = TRUE] \in [Doc -> Row]
           /\ [doc EXCEPT ![d].deleted = TRUE] \in [Doc -> Row]
  <1>1. doc \in [Doc -> Row] /\ doc[d] \in Row
    BY DEF TypeOK
  <1>2. \A o \in Origin : [doc EXCEPT ![d].status = "PENDING", ![d].origin = o] \in [Doc -> Row]
    BY <1>1, RowTypes
  <1>3. /\ [doc EXCEPT ![d].bytes = TRUE] \in [Doc -> Row]
        /\ [doc EXCEPT ![d].deleted = TRUE] \in [Doc -> Row]
    BY <1>1, RowTypes
  <1> QED
    BY <1>2, <1>3

\* So is one that the guarded flip to EXTRACTING writes.
LEMMA MarkTypes ==
    ASSUME TypeOK, NEW d \in Doc
    PROVE  MarkExtracting(d) \in [Doc -> Row]
  <1>1. doc \in [Doc -> Row] /\ doc[d] \in Row
    BY DEF TypeOK
  <1>2. PICK s \in Status : s = IF doc[d].status = "UPLOADED" THEN "EXTRACTING" ELSE doc[d].status
    BY <1>1 DEF Row, Status
  <1>3. [doc[d] EXCEPT !.status = s] \in Row
    BY <1>1 DEF Row
  <1>4. MarkExtracting(d) = [doc EXCEPT ![d] = [doc[d] EXCEPT !.status = s]]
    BY <1>1, <1>2 DEF MarkExtracting
  <1> QED
    BY <1>1, <1>3, <1>4

\* So is one whose text is stored.
LEMMA TextTypes ==
    ASSUME TypeOK, NEW d \in Doc
    PROVE  /\ [doc EXCEPT ![d].text = "blank"] \in [Doc -> Row]
           /\ [doc EXCEPT ![d].text = "full"] \in [Doc -> Row]
  BY DEF TypeOK, Row

\* So is one that persist writes.
LEMMA ReadyTypes ==
    ASSUME TypeOK, NEW d \in Doc
    PROVE  [doc EXCEPT ![d].status = "READY", ![d].chunks = @ \/ doc[d].text = "full"]
               \in [Doc -> Row]
  BY RowTypes DEF TypeOK

\* A publication stays within the bound on events.
LEMMA PublishTypes ==
    ASSUME TypeOK, NEW d \in Doc, NEW t \in Type, Publish(d, t)
    PROVE  published' \in [Doc -> [Type -> 0..MaxEvents]]
  BY EventTypes DEF Publish, TypeOK

\* Every step keeps the types.
LEMMA TypeStep ==
    ASSUME TypeOK, [Next]_vars
    PROVE  TypeOK'
  <1>0. /\ doc \in [Doc -> Row] /\ published \in [Doc -> [Type -> 0..MaxEvents]]
        /\ task \in [Event -> Task] /\ exec \in [Worker -> Exec]
        /\ session \in [Session -> SUBSET Doc] /\ seen \subseteq Event /\ ocr \in [Doc -> Nat]
    BY DEF TypeOK
  <1>1. ASSUME NEW d \in Doc, \/ \E origin \in Origin : Start(d, origin)
                              \/ PutBytes(d) \/ Delete(d)
        PROVE  TypeOK'
    <2>1. ASSUME NEW origin \in Origin, Start(d, origin) PROVE doc' \in [Doc -> Row]
      BY <2>1, UploadTypes DEF Start
    <2>2. ASSUME PutBytes(d) PROVE doc' \in [Doc -> Row]
      BY <2>2, UploadTypes DEF PutBytes
    <2>3. ASSUME Delete(d) PROVE doc' \in [Doc -> Row]
      BY <2>3, UploadTypes DEF Delete
    <2> QED
      BY <1>0, <1>1, <2>1, <2>2, <2>3 DEF Start, PutBytes, Delete, TypeOK, bounds
  <1>2. ASSUME NEW s \in Session, NEW d \in Doc, CompleteReads(s, d) \/ CompleteAborts(s)
        PROVE  TypeOK'
    BY <1>0, <1>2 DEF CompleteReads, CompleteAborts, TypeOK, bounds
  <1>3. ASSUME NEW s \in Session, NEW d \in Doc, CompleteWrites(s, d)
        PROVE  TypeOK'
    <2>1. doc' \in [Doc -> Row] /\ published' \in [Doc -> [Type -> 0..MaxEvents]]
      <3>1. \/ doc' = [doc EXCEPT ![d].status = "UPLOADED"] /\ Publish(d, "document.uploaded")
            \/ UNCHANGED <<doc, published>>
        BY <1>3 DEF CompleteWrites
      <3> QED
        BY <1>0, <3>1, StatusTypes, PublishTypes DEF Type
    <2>2. task' \in [Event -> Task]
      <3>1. CASE MarkUploaded(d)
        <4>1. published[d]["document.uploaded"] + 1 \in 1..MaxEvents
          BY <1>0, <1>3, <3>1, EventTypes DEF CompleteWrites, Publish, Type
        <4> QED
          <5>1. /\ Uploaded(d, published[d]["document.uploaded"] + 1) \in Event
                /\ task' = [task EXCEPT
                       ![Uploaded(d, published[d]["document.uploaded"] + 1)].state = "queued"]
            BY <1>3, <3>1, <4>1, EventTypes DEF CompleteWrites, Enqueued
          <5> QED
            BY <1>0, <5>1, TaskTypes
      <3>2. CASE ~MarkUploaded(d)
        BY <1>0, <1>3, <3>2 DEF CompleteWrites
      <3> QED
        BY <3>1, <3>2
    <2> QED
      BY <1>0, <1>3, <2>1, <2>2 DEF CompleteWrites, TypeOK, bounds
  <1>4. ASSUME NEW w \in Worker, NEW e \in Event, Take(w, e)
        PROVE  TypeOK'
    <2>1. task' \in [Event -> Task]
      BY <1>0, <1>4, TaskTypes DEF Take
    <2>2. exec' \in [Worker -> Exec]
      BY <1>0, <1>4 DEF Take, Exec, Cause
    <2> QED
      BY <1>0, <1>4, <2>1, <2>2 DEF Take, TypeOK, bounds
  <1>5. ASSUME NEW w \in Worker, Crash(w)
        PROVE  TypeOK'
    <2>1. exec[w].pc # "idle" /\ "transient" \in Cause
      BY <1>0, <1>5 DEF Crash, Exec, Idle, Cause
    <2>2. crashes' \in 0..MaxCrashes
      BY <1>5, DeliveryAssumptions DEF Crash, TypeOK
    <2> QED
      BY <1>5, <2>1, <2>2, TypeReturn DEF Crash, TypeOK
  <1>6. ASSUME NEW w \in Worker, LeaseExpires(w)
        PROVE  TypeOK'
    <2>1. exec[w].pc # "idle"
      BY <1>0, <1>6 DEF LeaseExpires, Exec, Idle
    <2>2. task' \in [Event -> Task]
      BY <1>0, <1>6, <2>1, ExecTypes, TaskTypes DEF LeaseExpires
    <2>3. exec' \in [Worker -> Exec]
      BY <1>0, <1>6, <2>1, ExecTypes DEF LeaseExpires, Exec
    <2>4. lapses' \in 0..MaxLapses
      BY <1>6, DeliveryAssumptions DEF LeaseExpires, TypeOK
    <2> QED
      BY <1>6, <2>2, <2>3, <2>4 DEF LeaseExpires, TypeOK
  <1>7. ASSUME NEW w \in Worker, HandlerStep(w)
        PROVE  TypeOK'
    <2>d. PICK d : d = exec[w].of.doc
      OBVIOUS
    <2>1. exec[w].pc # "idle" /\ d \in Doc /\ exec[w].of \in Event /\ exec[w].cause \in Cause
      <3>1. exec[w].pc # "idle"
        BY <1>7 DEF HandlerStep, MarkStep, ExtractStep, FinalizeStep, FailStep,
                    PrepStep, PersistStep, RecordFailureStep
      <3> QED
        BY <2>d, <3>1, ExecTypes
    <2>2. {"none", "transient", "terminal"} \subseteq Cause
      BY DEF Cause
    <2>3. CASE MarkStep(w)
      <3>1. doc' \in [Doc -> Row]
        <4>1. doc' = MarkExtracting(d) \/ doc' = doc
          BY <2>d, <2>3 DEF MarkStep
        <4> QED
          BY <1>0, <2>1, <4>1, MarkTypes
      <3>2. task' \in [Event -> Task] /\ exec' \in [Worker -> Exec]
        BY <1>0, <2>1, <2>2, <2>3, TypeReturn, TypeGoto DEF MarkStep
      <3>3. seen' \subseteq Event
        BY <1>0, <2>1, <2>3 DEF MarkStep
      <3> QED
        BY <2>3, <3>1, <3>2, <3>3, TypeBounds DEF MarkStep, TypeOK
    <2>4. CASE ExtractStep(w)
      <3>1. doc' \in [Doc -> Row] /\ ocr' \in [Doc -> Nat]
        <4>1. /\ \/ doc' = [doc EXCEPT ![d].text = "blank"]
                 \/ doc' = [doc EXCEPT ![d].text = "full"]
                 \/ doc' = doc
              /\ ocr' = [ocr EXCEPT ![d] = @ + 1]
          BY <2>d, <2>4 DEF ExtractStep
        <4>2. /\ [doc EXCEPT ![d].text = "blank"] \in [Doc -> Row]
              /\ [doc EXCEPT ![d].text = "full"] \in [Doc -> Row]
          BY <1>0, <2>1, TextTypes, Zenon
        <4>3. doc' \in [Doc -> Row]
          BY <1>0, <4>1, <4>2, Zenon
        <4>4. ocr' \in [Doc -> Nat]
          BY <1>0, <2>1, <4>1
        <4> QED
          BY <4>3, <4>4
      <3>2. exec' \in [Worker -> Exec]
        BY <2>1, <2>2, <2>4, TypeGoto, TypeGotoFail DEF ExtractStep
      <3> QED
        BY <2>4, <3>1, <3>2, TypeBounds DEF ExtractStep, TypeOK
    <2>5. CASE FinalizeStep(w)
      <3>1. doc' \in [Doc -> Row] /\ published' \in [Doc -> [Type -> 0..MaxEvents]]
        <4>1. \/ doc' = [doc EXCEPT ![d].status = "EXTRACTED"] /\ Publish(d, "document.extracted")
              \/ UNCHANGED <<doc, published>>
          BY <2>d, <2>5 DEF FinalizeStep
        <4> QED
          BY <1>0, <2>1, <4>1, StatusTypes, PublishTypes DEF Type
      <3>2. exec' \in [Worker -> Exec]
        BY <1>0, <2>1, <2>2, <2>5, TypeGotoFail DEF FinalizeStep, Exec
      <3>3. Returned(w, "none") \in [Event -> Task]
        BY <2>1, <2>2, ReturnTypes
      <3>4. task' \in [Event -> Task]
        <4>1. CASE UNCHANGED task
          BY <1>0, <4>1
        <4>2. CASE Publish(d, "document.extracted") /\ task' = [Returned(w, "none") EXCEPT
                      ![Extracted(d, published[d]["document.extracted"] + 1)].state = "queued"]
          <5>1. published[d]["document.extracted"] + 1 \in 1..MaxEvents
            BY <1>0, <2>1, <4>2, EventTypes DEF Publish, Type
          <5> QED
            BY <2>1, <3>3, <4>2, <5>1, EventTypes, TaskTypes
        <4> QED
          BY <2>d, <2>5, <4>1, <4>2 DEF FinalizeStep
      <3> QED
        BY <2>5, <3>1, <3>2, <3>4, TypeBounds DEF FinalizeStep, TypeOK
    <2>6. CASE FailStep(w) \/ RecordFailureStep(w)
      <3>1. doc' \in [Doc -> Row]
        <4>1. doc' = [doc EXCEPT ![d].status = "FAILED"] \/ doc' = doc
          BY <2>d, <2>6 DEF FailStep, RecordFailureStep
        <4> QED
          BY <1>0, <2>1, <4>1, StatusTypes
      <3>2. task' \in [Event -> Task] /\ exec' \in [Worker -> Exec]
        BY <2>1, <2>6, TypeReturn DEF FailStep, RecordFailureStep
      <3> QED
        BY <2>6, <3>1, <3>2, TypeBounds DEF FailStep, RecordFailureStep, TypeOK
    <2>7. CASE PrepStep(w)
      <3>1. exec' \in [Worker -> Exec]
        BY <2>1, <2>2, <2>7, TypeGoto, TypeGotoFail DEF PrepStep
      <3> QED
        BY <2>7, <3>1, TypeBounds DEF PrepStep, TypeOK
    <2>8. CASE PersistStep(w)
      <3>1. doc' \in [Doc -> Row] /\ published' \in [Doc -> [Type -> 0..MaxEvents]]
        <4>1. \/ /\ doc' = [doc EXCEPT ![d].status = "READY",
                                          ![d].chunks = @ \/ doc[d].text = "full"]
                 /\ Publish(d, "document.ready")
              \/ UNCHANGED <<doc, published>>
          BY <2>d, <2>8 DEF PersistStep
        <4> QED
          BY <1>0, <2>1, <4>1, ReadyTypes, PublishTypes DEF Type
      <3>2. task' \in [Event -> Task] /\ exec' \in [Worker -> Exec]
        BY <1>0, <2>1, <2>2, <2>8, TypeReturn, TypeGotoFail DEF PersistStep
      <3>3. seen' \subseteq Event
        BY <1>0, <2>1, <2>8 DEF PersistStep
      <3> QED
        BY <2>8, <3>1, <3>2, <3>3, TypeBounds DEF PersistStep, TypeOK
    <2> QED
      BY <1>7, <2>3, <2>4, <2>5, <2>6, <2>7, <2>8 DEF HandlerStep
  <1>8. CASE UNCHANGED vars
    BY <1>0, <1>8 DEF vars, bounds, TypeOK
  <1> QED
    <2>1. CASE Api
      <3>1. \A s \in Session : CompleteAborts(s) => TypeOK'
        BY <1>0 DEF CompleteAborts, TypeOK, bounds
      <3> QED
        BY <1>1, <1>2, <1>3, <2>1, <3>1 DEF Api
    <2> QED
      BY <1>4, <1>5, <1>6, <1>7, <1>8, <2>1 DEF Next
-----------------------------------------------------------------------------
(* What the invariant says of the events in use.                           *)

\* There is at most one event of each type about a document, U(d) or X(d).
LEMMA Counts ==
    ASSUME IInv, NEW d \in Doc
    PROVE  /\ published[d]["document.uploaded"] \in {0, 1}
           /\ published[d]["document.extracted"] \in {0, 1}
           /\ published[d]["document.ready"] \in {0, 1}
           /\ published[d]["document.uploaded"] = 0 => published[d]["document.extracted"] = 0
           /\ U(d) \in Event /\ X(d) \in Event /\ U(d) # X(d)
           /\ Issued(U(d)) <=> published[d]["document.uploaded"] = 1
           /\ Issued(X(d)) <=> published[d]["document.extracted"] = 1
           /\ X(d) \in seen => published[d]["document.extracted"] = 1
           /\ U(d) \in seen => published[d]["document.uploaded"] = 1
  <1>1. /\ published[d]["document.uploaded"] \in Nat
        /\ published[d]["document.extracted"] \in Nat
        /\ published[d]["document.ready"] \in Nat
    BY EventTypes DEF IInv, TypeOK, Type
  <1>2. DocInv(d)
    BY DEF IInv
  <1>3. /\ published[d]["document.uploaded"] \in {0, 1}
        /\ published[d]["document.extracted"] \in {0, 1}
        /\ published[d]["document.ready"] \in {0, 1}
        /\ published[d]["document.uploaded"] = 0 => published[d]["document.extracted"] = 0
    BY <1>1, <1>2 DEF DocInv
  <1>4. U(d) \in Event /\ X(d) \in Event /\ U(d) # X(d)
    BY EventTypes DEF U, X, Uploaded, Extracted
  <1>5. /\ U(d).doc = d /\ U(d).type = "document.uploaded" /\ U(d).n = 1
        /\ X(d).doc = d /\ X(d).type = "document.extracted" /\ X(d).n = 1
    BY DEF U, X, Uploaded, Extracted
  <1>6. /\ Issued(U(d)) <=> published[d]["document.uploaded"] = 1
        /\ Issued(X(d)) <=> published[d]["document.extracted"] = 1
    BY <1>3, <1>5 DEF Issued
  <1> QED
    BY <1>3, <1>4, <1>6 DEF IInv

\* An event that was issued is the U or the X of its document.
LEMMA TheEvents ==
    ASSUME IInv, NEW e \in Event, Issued(e)
    PROVE  /\ e = IF e.type = "document.uploaded" THEN U(e.doc) ELSE X(e.doc)
           /\ published[e.doc]["document.uploaded"] = 1
           /\ e.type = "document.extracted" => published[e.doc]["document.extracted"] = 1
  <1>1. /\ e.doc \in Doc /\ e.n \in 1..MaxEvents /\ MaxEvents \in Nat
        /\ e.type \in {"document.uploaded", "document.extracted"}
        /\ e.type = "document.uploaded" => e = Uploaded(e.doc, e.n)
        /\ e.type = "document.extracted" => e = Extracted(e.doc, e.n)
    BY EventTypes
  <1>2. published[e.doc][e.type] \in {0, 1}
    BY <1>1, Counts
  <1>3. e.n = 1 /\ published[e.doc][e.type] = 1
    BY <1>1, <1>2 DEF Issued
  <1> QED
    BY <1>1, <1>3, Counts DEF U, X

\* A running execution is about the U or the X of its document.
LEMMA TheExecution ==
    ASSUME IInv, NEW w \in Worker, exec[w].pc # "idle"
    PROVE  /\ exec[w] # Idle /\ exec[w].of \in Event /\ exec[w].of.doc \in Doc
           /\ exec[w].of = IF exec[w].pc = "mark" \/ Extracting(w)
                           THEN U(exec[w].of.doc) ELSE X(exec[w].of.doc)
           /\ published[exec[w].of.doc]["document.uploaded"] = 1
           /\ exec[w].pc \in {"prep", "persist", "recordFailure"} =>
                  published[exec[w].of.doc]["document.extracted"] = 1
           /\ Extracting(w) => exec[w].of \in seen
  <1>1. exec[w] # Idle /\ exec[w].of \in Event /\ exec[w].of.doc \in Doc
    BY ExecTypes DEF IInv
  <1>2. ExecInv(w)
    BY DEF IInv
  <1>3. /\ Issued(exec[w].of)
        /\ exec[w].of.type = IF exec[w].pc = "mark" \/ Extracting(w)
                             THEN "document.uploaded" ELSE "document.extracted"
        /\ Extracting(w) => exec[w].of \in seen
    BY <1>1, <1>2 DEF ExecInv
  <1> QED
    BY <1>1, <1>3, TheEvents DEF Extracting

\* Two extractions of one document are one.
LEMMA SoleExtraction ==
    ASSUME IInv, NEW w \in Worker, NEW v \in Worker, Extracting(w), Extracting(v),
           exec[w].of.doc = exec[v].of.doc
    PROVE  w = v
  <1>1. exec[w].pc # "idle" /\ exec[v].pc # "idle"
    BY DEF Extracting
  <1>2. exec[w].of = exec[v].of
    BY <1>1, TheExecution
  <1> QED
    BY <1>2 DEF IInv, OneExtraction
-----------------------------------------------------------------------------
(* What a step leaves alone keeps its part of the invariant.               *)

\* A row d that the step does not touch.
LEMMA RowKept ==
    ASSUME NEW d \in Doc, DocInv(d), doc'[d] = doc[d], published'[d] = published[d],
           ocr'[d] = ocr[d], U(d) \in seen' <=> U(d) \in seen, X(d) \in seen' <=> X(d) \in seen,
           Clean' => Clean, Working(d) => Working(d)' \/ ~Clean'
    PROVE  DocInv(d)'
  BY DEF DocInv, U, X, Uploaded, Extracted

\* An execution v that goes on where it was.
LEMMA ExecKept ==
    ASSUME NEW v \in Worker, exec[v] # Idle => exec[v].of \in Event, ExecInv(v),
           exec'[v] = exec[v], seen \subseteq seen', Clean' => Clean,
           \A e \in Event : Issued(e) => Issued(e)',
           \A d \in Doc : doc[d].deleted => doc'[d].deleted,
           exec[v].pc = "extract" => ocr'[exec[v].of.doc] = ocr[exec[v].of.doc],
           exec[v].pc \in {"extract", "finalize"} =>
               published'[exec[v].of.doc]["document.extracted"]
                   = published[exec[v].of.doc]["document.extracted"]
    PROVE  ExecInv(v)'
  <1>1. exec[v] # Idle => exec[v].of.doc \in Doc
    BY EventTypes
  <1> QED
    BY <1>1 DEF ExecInv, Extracting, Issued

\* A task the step does not touch, with the executions of its event.
LEMMA TaskKept ==
    ASSUME NEW e \in Event, TaskInv(e), task'[e] = task[e], Issued(e)' <=> Issued(e),
           seen \subseteq seen', Clean' => Clean,
           doc[e.doc].deleted => doc'[e.doc].deleted,
           \A w \in Worker : exec[w] # Idle /\ exec[w].of = e =>
               \/ exec'[w] # Idle /\ exec'[w].of = e
               \/ e \in seen' \/ doc'[e.doc].deleted \/ ~Clean'
    PROVE  TaskInv(e)'
  BY DEF TaskInv, Issued

\* The states a task can be in after an answer.
LEMMA AnswerStates ==
    ASSUME NEW t \in Task, NEW c \in Cause
    PROVE  /\ Answered(t, c).state \in {"queued", "done", "archived"}
           /\ Answered(t, c).state = "done" => c = "none" \/ t.state = "done"
           /\ Retried(t).state \in {"queued", "archived"}
  BY DEF Answered, Retried, Task, Cause

\* The tasks after the handler of w answered.
LEMMA ReturnTasks ==
    ASSUME IInv, NEW w \in Worker, exec[w].pc # "idle", NEW c \in Cause, Return(w, c),
           seen \subseteq seen', Clean' => Clean,
           \A e \in Event : Issued(e)' <=> Issued(e),
           \A e \in Event : doc[e.doc].deleted => doc'[e.doc].deleted,
           c = "none" => exec[w].of \in seen',
           exec[w].of \in seen' \/ doc'[exec[w].of.doc].deleted \/ ~Clean'
    PROVE  \A e \in Event : TaskInv(e)'
  <1>0. /\ task \in [Event -> Task] /\ exec \in [Worker -> Exec]
        /\ \A e \in Event : TaskInv(e)
    BY DEF IInv, TypeOK
  <1>1. exec[w].of \in Event
    BY TheExecution
  <1>2. \A v \in Worker : v # w => exec'[v] = exec[v]
    BY <1>0 DEF Return
  <1>3. ASSUME NEW e \in Event, e # exec[w].of
        PROVE  TaskInv(e)'
    <2>1. task'[e] = task[e]
      BY <1>0, <1>3 DEF Return, Returned
    <2> QED
      BY <1>0, <1>2, <1>3, <2>1, TaskKept
  <1>4. ASSUME NEW e \in Event, e = exec[w].of
        PROVE  TaskInv(e)'
    <2>1. task'[e] = task[e] \/ task'[e] = Answered(task[e], c)
      BY <1>0, <1>4 DEF Return, Returned
    <2>2. task[e] \in Task /\ TaskInv(e) /\ Issued(e)
      BY <1>0, <1>4, TheExecution DEF IInv, ExecInv
    <2>3. /\ task'[e].state # "none"
          /\ task'[e].state = "done" => e \in seen'
      BY <1>4, <2>1, <2>2, AnswerStates DEF TaskInv
    <2> QED
      BY <1>4, <2>2, <2>3 DEF TaskInv
  <1> QED
    BY <1>3, <1>4

\* The tasks after a step within the handler of w.
LEMMA GotoTasks ==
    ASSUME IInv, NEW w \in Worker, UNCHANGED task, seen \subseteq seen', Clean' => Clean,
           \A e \in Event : Issued(e)' <=> Issued(e),
           \A e \in Event : doc[e.doc].deleted => doc'[e.doc].deleted,
           \A v \in Worker : v # w => exec'[v] = exec[v],
           exec'[w] # Idle /\ exec'[w].of = exec[w].of
    PROVE  \A e \in Event : TaskInv(e)'
  <1>1. \A e \in Event : TaskInv(e)
    BY DEF IInv
  <1> QED
    BY <1>1, TaskKept
-----------------------------------------------------------------------------
(* The rows and executions a step of w about d does not touch keep theirs. *)

\* What is left to show of a step of the execution w about d.
LEMMA Elsewhere ==
    ASSUME IInv, TypeOK', NEW w \in Worker, NEW d \in Doc, exec[w].pc # "idle",
           d = exec[w].of.doc,
           \A v \in Worker : v # w => exec'[v] = exec[v],
           \A x \in Doc : x # d => doc'[x] = doc[x] /\ published'[x] = published[x] /\ ocr'[x] = ocr[x],
           seen \subseteq seen', seen' \subseteq seen \cup {exec[w].of},
           Clean' => Clean,
           \A t \in Type : published[d][t] <= published'[d][t],
           doc'[d].deleted = doc[d].deleted,
           \A v \in Worker : v # w /\ Extracting(v) /\ exec[v].of.doc = d =>
               /\ ocr'[d] = ocr[d]
               /\ published'[d]["document.extracted"] = published[d]["document.extracted"],
           DocInv(d)', ExecInv(w)',
           Extracting(w)' => exec'[w].of = exec[w].of /\ (Extracting(w) \/ exec[w].of \notin seen),
           \A e \in Event : TaskInv(e)'
    PROVE  IInv'
  <1>0. /\ published \in [Doc -> [Type -> 0..MaxEvents]] /\ MaxEvents \in Nat
        /\ published' \in [Doc -> [Type -> 0..MaxEvents]]
    BY EventTypes DEF IInv, TypeOK
  <1>1. \A e \in Event : Issued(e) => Issued(e)'
    <2>1. ASSUME NEW e \in Event, Issued(e) PROVE Issued(e)'
      <3>1. e.doc \in Doc /\ e.type \in Type /\ e.n \in Nat
        BY EventTypes DEF Type
      <3>2. published[e.doc][e.type] <= published'[e.doc][e.type]
        <4>1. CASE e.doc = d
          <5>1. published[d][e.type] <= published'[d][e.type]
            BY <3>1
          <5> QED
            BY <4>1, <5>1
        <4>2. CASE e.doc # d
          <5>1. published[e.doc][e.type] \in 0..MaxEvents
            BY <1>0, <3>1
          <5> QED
            BY <1>0, <3>1, <4>2, <5>1
        <4> QED
          BY <4>1, <4>2
      <3>3. published[e.doc][e.type] \in Nat /\ published'[e.doc][e.type] \in Nat
        BY <1>0, <3>1
      <3> QED
        BY <2>1, <3>1, <3>2, <3>3 DEF Issued
    <2> QED
      BY <2>1
  <1>2. exec[w].of \in Event /\ Issued(exec[w].of) /\ exec[w].of \in {U(d), X(d)}
    BY TheExecution DEF IInv, ExecInv
  <1>3. \A e \in seen' : Issued(e)'
    BY <1>1, <1>2 DEF IInv, TypeOK
  <1>4. ASSUME NEW x \in Doc, x # d
        PROVE  DocInv(x)'
    <2>1. DocInv(x)
      BY DEF IInv
    <2>2. U(x) \notin {U(d), X(d)} /\ X(x) \notin {U(d), X(d)}
      BY <1>4 DEF U, X, Uploaded, Extracted
    <2>3. (U(x) \in seen' <=> U(x) \in seen) /\ (X(x) \in seen' <=> X(x) \in seen)
      BY <1>2, <2>2
    <2>4. Working(x) => Working(x)'
      BY <1>4 DEF Working, Extracting
    <2> QED
      BY <1>4, <2>1, <2>3, <2>4, RowKept
  <1>5. ASSUME NEW v \in Worker, v # w
        PROVE  ExecInv(v)'
    <2>1. ExecInv(v) /\ (exec[v].pc # "idle" => exec[v].of \in Event /\ exec[v].of.doc \in Doc)
      BY TheExecution DEF IInv
    <2>2. exec[v] # Idle => exec[v].pc # "idle"
      BY DEF IInv, TypeOK, Exec, Idle
    <2>3. exec[v].pc \in {"extract", "finalize"} =>
             /\ ocr'[exec[v].of.doc] = ocr[exec[v].of.doc]
             /\ published'[exec[v].of.doc]["document.extracted"]
                    = published[exec[v].of.doc]["document.extracted"]
      BY <1>5, <2>1 DEF Extracting
    <2>4. \A x \in Doc : doc[x].deleted => doc'[x].deleted
      OBVIOUS
    <2> QED
      BY <1>1, <1>5, <2>1, <2>2, <2>3, <2>4, ExecKept
  <1>6. OneExtraction'
    <2>1. ASSUME NEW v \in Worker, v # w, Extracting(v)', Extracting(w)', exec'[v].of = exec'[w].of
          PROVE  FALSE
      <3>1. Extracting(v) /\ exec[v].of = exec[w].of
        BY <2>1 DEF Extracting
      <3>2. exec[v].of \in seen
        BY <3>1, TheExecution DEF Extracting
      <3>3. Extracting(w)
        BY <2>1, <3>1, <3>2
      <3> QED
        BY <2>1, <3>1, <3>3 DEF IInv, OneExtraction
    <2>2. ASSUME NEW u \in Worker, NEW v \in Worker, u # w, v # w,
                 Extracting(u)', Extracting(v)', exec'[u].of = exec'[v].of
          PROVE  u = v
      BY <2>2 DEF IInv, OneExtraction, Extracting
    <2> QED
      BY <2>1, <2>2 DEF OneExtraction
  <1> QED
    BY <1>3, <1>4, <1>5, <1>6 DEF IInv

\* A fault or a crash ends the clean run; every other step keeps it.
LEMMA FaultsCount ==
    ASSUME TypeOK
    PROVE  /\ NoFault => (Clean' <=> Clean)
           /\ Fault /\ UNCHANGED <<crashes, lapses>> => ~Clean'
           /\ crashes' = crashes + 1 /\ UNCHANGED <<faults, lapses>> => ~Clean'
  BY DeliveryAssumptions DEF TypeOK, Clean, NoFault, Fault, bounds

\* An answer that comes with no change of the database.
LEMMA AnswerKeeps ==
    ASSUME IInv, TypeOK', NEW w \in Worker, exec[w].pc # "idle", NEW c \in Cause, Return(w, c),
           UNCHANGED <<doc, published, seen, ocr>>,
           Clean' => /\ Clean
                     /\ ~Extracting(w)
                     /\ exec[w].of \in seen \/ doc[exec[w].of.doc].deleted,
           c = "none" => exec[w].of \in seen
    PROVE  IInv'
  <1>d. PICK d \in Doc : d = exec[w].of.doc
    BY TheExecution
  <1>0. exec \in [Worker -> Exec]
    BY DEF IInv, TypeOK
  <1>1. exec'[w] = Idle /\ \A v \in Worker : v # w => exec'[v] = exec[v]
    BY <1>0 DEF Return
  <1>2. \A e \in Event : TaskInv(e)'
    <2>1. \A e \in Event : Issued(e)' <=> Issued(e)
      BY DEF Issued
    <2>2. exec[w].of \in seen' \/ doc'[exec[w].of.doc].deleted \/ ~Clean'
      OBVIOUS
    <2> QED
      BY <2>1, <2>2, ReturnTasks
  <1>3. DocInv(d)'
    <2>1. DocInv(d)
      BY DEF IInv
    <2>2. Working(d) => Working(d)' \/ ~Clean'
      BY <1>1, <1>d DEF Working, Extracting, Idle
    <2> QED
      BY <2>1, <2>2, RowKept
  <1>4. ExecInv(w)' /\ ~Extracting(w)'
    BY <1>1 DEF ExecInv, Extracting, Idle
  <1>5. \A t \in Type : published[d][t] <= published'[d][t]
    <2>1. \A t \in Type : published[d][t] \in Nat
      BY EventTypes DEF IInv, TypeOK
    <2> QED
      BY <2>1
  <1> QED
    BY <1>d, <1>1, <1>2, <1>3, <1>4, <1>5, Elsewhere

\* The death of a process is an answer that changes nothing else.
LEMMA CrashKeeps ==
    ASSUME IInv, TypeOK', NEW w \in Worker, Crash(w)
    PROVE  IInv'
  <1>1. exec[w].pc # "idle"
    BY DEF Crash, Exec, Idle, IInv, TypeOK
  <1>2. ~Clean' /\ "transient" \in Cause
    BY FaultsCount DEF Crash, IInv, Cause
  <1> QED
    BY <1>1, <1>2, AnswerKeeps DEF Crash

\* A step within the handler of w: the execution goes on with its event.
LEMMA GoesOn ==
    ASSUME IInv, NEW w \in Worker, exec[w].pc # "idle",
           NEW pc \in {"extract", "finalize", "fail", "persist", "recordFailure"},
           \/ Goto(w, pc)
           \/ \E c \in Cause : GotoFail(w, pc, c)
    PROVE  /\ exec'[w].pc = pc /\ exec'[w].of = exec[w].of /\ exec'[w] # Idle
           /\ \A v \in Worker : v # w => exec'[v] = exec[v]
  <1>1. exec \in [Worker -> Exec]
    BY DEF IInv, TypeOK
  <1>2. exec[w] \in [pc : {"mark", "extract", "finalize", "fail", "prep", "persist", "recordFailure"},
                     of : Event, cause : Cause, zombie : BOOLEAN]
    BY ExecTypes DEF IInv
  <1> QED
    BY <1>1, <1>2 DEF Goto, GotoFail, Idle

\* What the handler of w leaves as it was in the outbox.
LEMMA SameEvents ==
    ASSUME IInv, UNCHANGED published
    PROVE  /\ \A e \in Event : Issued(e)' <=> Issued(e)
           /\ \A d \in Doc, t \in Type : published[d][t] <= published'[d][t]
  <1>1. \A d \in Doc, t \in Type : published[d][t] \in Nat
    BY EventTypes DEF IInv, TypeOK
  <1> QED
    BY <1>1 DEF Issued

\* The first transaction of the extraction: the mark and EXTRACTING.
LEMMA MarkKeeps ==
    ASSUME IInv, TypeOK', NEW w \in Worker, MarkStep(w)
    PROVE  IInv'
  <1>d. PICK d \in Doc : d = exec[w].of.doc
    BY TheExecution DEF MarkStep
  <1>0. /\ exec[w].pc = "mark" /\ exec[w].pc # "idle" /\ ~Extracting(w) /\ exec[w] # Idle
        /\ {"none", "transient"} \subseteq Cause /\ exec[w].of \in Event
        /\ exec[w].of = U(d) /\ published[d]["document.uploaded"] = 1
        /\ UNCHANGED <<published, ocr>> /\ d \in Doc
    BY <1>d, TheExecution DEF MarkStep, Extracting, Cause
  <1>1. CASE SeenOrMark(exec[w].of) /\ Return(w, "none") /\ UNCHANGED <<doc, seen>> /\ NoFault
    BY <1>0, <1>1, FaultsCount, AnswerKeeps DEF SeenOrMark, IInv
  <1>2. CASE Fault /\ Return(w, "transient") /\ UNCHANGED <<doc, seen, crashes, lapses>>
    BY <1>0, <1>2, FaultsCount, AnswerKeeps DEF IInv
  <1>3. CASE /\ U(d) \notin seen /\ seen' = seen \cup {U(d)} /\ doc' = MarkExtracting(d)
             /\ Goto(w, "extract") /\ UNCHANGED task /\ NoFault
    <2>1. /\ exec'[w].pc = "extract" /\ exec'[w].of = U(d) /\ exec'[w] # Idle
          /\ \A v \in Worker : v # w => exec'[v] = exec[v]
      BY <1>0, <1>3, GoesOn
    <2>2. Clean' <=> Clean
      BY <1>3, FaultsCount DEF IInv
    <2>3. /\ doc[d].status = "UPLOADED" /\ ocr[d] = 0 /\ published[d]["document.extracted"] = 0
          /\ published[d]["document.ready"] = 0 /\ X(d) \notin seen
      <3>1. DocInv(d)
        BY DEF IInv
      <3>2. published[d]["document.extracted"] = 0
        BY <1>3, <3>1 DEF DocInv
      <3> QED
        BY <1>0, <1>3, <3>1, <3>2, Counts DEF DocInv
    <2>4. /\ doc'[d].status = "EXTRACTING" /\ doc'[d].deleted = doc[d].deleted
          /\ \A x \in Doc : x # d => doc'[x] = doc[x]
      BY <1>3, <2>3 DEF MarkExtracting, IInv, TypeOK, Row
    <2>5. \A e \in Event : TaskInv(e)'
      <3>1. \A e \in Event : doc[e.doc].deleted => doc'[e.doc].deleted
        BY <2>4, EventTypes
      <3> QED
        BY <1>0, <1>3, <2>1, <2>2, <3>1, SameEvents, GotoTasks
    <2>6. Working(d)' /\ Extracting(w)'
      BY <1>d, <1>0, <2>1 DEF Working, Extracting
    <2>7. DocInv(d)'
      <3>1. U(d) \in seen' /\ X(d) \notin seen'
        BY <1>3, <2>3, Counts
      <3>2. U(d)' = U(d) /\ X(d)' = X(d)
        BY DEF U, X, Uploaded, Extracted
      <3> QED
        BY <1>0, <2>3, <2>4, <2>6, <3>1, <3>2 DEF DocInv
    <2>8. ExecInv(w)'
      <3>1. Issued(U(d))' /\ U(d).type = "document.uploaded" /\ U(d).doc = d
        BY <1>0, SameEvents, Counts DEF U, Uploaded
      <3> QED
        BY <1>0, <1>3, <2>1, <2>3, <3>1 DEF ExecInv, Extracting, Issued
    <2>9. \A v \in Worker : v # w /\ Extracting(v) /\ exec[v].of.doc = d =>
               /\ ocr'[d] = ocr[d]
               /\ published'[d]["document.extracted"] = published[d]["document.extracted"]
      BY <1>0
    <2>10. \A x \in Doc : x # d => doc'[x] = doc[x] /\ published'[x] = published[x] /\ ocr'[x] = ocr[x]
      BY <1>0, <2>4
    <2>11. seen \subseteq seen' /\ seen' \subseteq seen \cup {exec[w].of}
      BY <1>0, <1>3
    <2> QED
      BY <1>d, <1>0, <1>3, <2>1, <2>2, <2>4, <2>5, <2>7, <2>8, <2>9, <2>10, <2>11, SameEvents, Elsewhere
  <1> QED
    BY <1>d, <1>0, <1>1, <1>2, <1>3 DEF MarkStep, SeenOrMark

\* The extractor runs for the one execution that holds the mark.
LEMMA ExtractKeeps ==
    ASSUME IInv, TypeOK', NEW w \in Worker, ExtractStep(w)
    PROVE  IInv'
  <1>d. PICK d \in Doc : d = exec[w].of.doc
    BY TheExecution DEF ExtractStep
  <1>0. /\ exec[w].pc = "extract" /\ exec[w].pc # "idle" /\ Extracting(w) /\ exec[w] # Idle
        /\ exec[w].of \in Event /\ exec[w].of = U(d) /\ U(d) \in seen
        /\ published[d]["document.uploaded"] = 1
        /\ UNCHANGED <<published, seen, task>>
    BY <1>d, TheExecution DEF ExtractStep, Extracting
  <1>1. /\ ocr[d] = 0 /\ published[d]["document.extracted"] = 0
        /\ published[d]["document.ready"] = 0 /\ X(d) \notin seen
    <2>1. ExecInv(w) /\ DocInv(d)
      BY DEF IInv
    <2>2. ocr[d] = 0 /\ published[d]["document.extracted"] = 0
      BY <1>0, <1>d, <2>1 DEF ExecInv
    <2> QED
      BY <2>1, <2>2, Counts DEF DocInv
  <1>2. /\ ocr'[d] = 1
        /\ \A x \in Doc : x # d => ocr'[x] = ocr[x]
    BY <1>d, <1>1 DEF ExtractStep, IInv, TypeOK
  <1>3. /\ doc'[d].status = doc[d].status /\ doc'[d].deleted = doc[d].deleted
        /\ \A x \in Doc : x # d => doc'[x] = doc[x]
    <2>1. \/ doc' = doc
          \/ \E text \in {"blank", "full"} : doc' = [doc EXCEPT ![d].text = text]
      BY <1>d DEF ExtractStep
    <2> QED
      BY <2>1 DEF IInv, TypeOK, Row
  <1>4. /\ Clean' => Clean
        /\ \/ exec'[w].pc = "finalize"
           \/ exec'[w].pc = "fail" /\ ~Clean'
        /\ exec'[w].of = U(d) /\ exec'[w] # Idle
        /\ \A v \in Worker : v # w => exec'[v] = exec[v]
    <2>1. CASE Goto(w, "finalize") /\ NoFault
      BY <1>0, <2>1, GoesOn, FaultsCount DEF IInv
    <2>2. CASE /\ Fault /\ UNCHANGED <<crashes, lapses>>
               /\ \E cause \in {"transient", "terminal"} : GotoFail(w, "fail", cause)
      <3>1. ~Clean'
        BY <2>2, FaultsCount DEF IInv
      <3>2. \E c \in Cause : GotoFail(w, "fail", c)
        BY <2>2 DEF Cause
      <3> QED
        BY <1>0, <3>1, <3>2, GoesOn
    <2> QED
      BY <2>1, <2>2 DEF ExtractStep
  <1>5. \A e \in Event : TaskInv(e)'
    <2>1. \A e \in Event : doc[e.doc].deleted => doc'[e.doc].deleted
      BY <1>3, EventTypes
    <2> QED
      BY <1>0, <1>4, <2>1, SameEvents, GotoTasks
  <1>6. DocInv(d)'
    <2>1. Working(d)'
      BY <1>d, <1>0, <1>4 DEF Working, Extracting
    <2>2. DocInv(d)
      BY DEF IInv
    <2>3. U(d)' = U(d) /\ X(d)' = X(d)
      BY DEF U, X, Uploaded, Extracted
    <2> QED
      BY <1>0, <1>1, <1>2, <1>3, <1>4, <2>1, <2>2, <2>3 DEF DocInv
  <1>7. ExecInv(w)' /\ (Extracting(w)' => exec'[w].of = exec[w].of /\ Extracting(w))
    <2>1. Issued(U(d))' /\ U(d).type = "document.uploaded" /\ U(d).doc = d
      BY <1>0, SameEvents, Counts DEF U, Uploaded
    <2> QED
      BY <1>0, <1>1, <1>4, <2>1 DEF ExecInv, Extracting, Issued
  <1>8. \A v \in Worker : v # w /\ Extracting(v) => exec[v].of.doc # d
    BY <1>d, <1>0, SoleExtraction
  <1>9. \A x \in Doc : x # d => doc'[x] = doc[x] /\ published'[x] = published[x] /\ ocr'[x] = ocr[x]
    BY <1>0, <1>2, <1>3
  <1>10. seen \subseteq seen' /\ seen' \subseteq seen \cup {exec[w].of}
    BY <1>0
  <1> QED
    BY <1>d, <1>0, <1>3, <1>4, <1>5, <1>6, <1>7, <1>8, <1>9, <1>10, SameEvents, Elsewhere

\* FAILED is written after a fault, or for a deleted document.
LEMMA FailKeeps ==
    ASSUME IInv, TypeOK', NEW w \in Worker, FailStep(w) \/ RecordFailureStep(w)
    PROVE  IInv'
  <1>d. PICK d \in Doc : d = exec[w].of.doc
    BY TheExecution DEF FailStep, RecordFailureStep
  <1>c. PICK c \in Cause : c = exec[w].cause
    <2>1. exec[w].pc # "idle"
      BY DEF FailStep, RecordFailureStep
    <2> QED
      BY <2>1, ExecTypes DEF IInv
  <1>0. /\ exec[w].pc \in {"fail", "recordFailure"} /\ exec[w].pc # "idle" /\ exec[w] # Idle
        /\ exec[w].of \in Event
        /\ Return(w, c) /\ UNCHANGED <<published, seen, ocr>>
        /\ \/ doc' = [doc EXCEPT ![d].status = "FAILED"] /\ NoFault
           \/ Fault /\ UNCHANGED <<doc, crashes, lapses>>
        /\ ExecInv(w) /\ DocInv(d)
    BY <1>c, <1>d, TheExecution DEF FailStep, RecordFailureStep, IInv
  <1>1. /\ published[d]["document.uploaded"] = 1
        /\ U(d) \in seen
        /\ exec[w].of \in seen \/ doc[d].deleted \/ ~Clean
        /\ c = "none" => exec[w].of \in seen
        /\ doc[d].deleted \/ ~Clean
    <2>1. CASE exec[w].pc = "fail"
      <3>1. exec[w].of = U(d) /\ U(d) \in seen /\ published[d]["document.uploaded"] = 1
        BY <1>d, <1>0, <2>1, TheExecution DEF Extracting
      <3> QED
        BY <1>0, <2>1, <3>1 DEF ExecInv
    <2>2. CASE exec[w].pc = "recordFailure"
      <3>1. published[d]["document.uploaded"] = 1 /\ published[d]["document.extracted"] = 1
        BY <1>d, <1>0, <2>2, TheExecution
      <3>2. U(d) \in seen
        BY <1>0, <3>1 DEF DocInv
      <3> QED
        BY <1>c, <1>d, <1>0, <2>2, <3>1, <3>2 DEF ExecInv
    <2> QED
      BY <1>0, <2>1, <2>2
  <1>2. CASE Fault /\ UNCHANGED <<doc, crashes, lapses>>
    <2>1. ~Clean'
      BY <1>2, FaultsCount DEF IInv
    <2>2. UNCHANGED <<doc, published, seen, ocr>> /\ exec[w].pc # "idle"
      BY <1>0, <1>2
    <2> QED
      BY <1>0, <1>1, <2>1, <2>2, AnswerKeeps
  <1>3. CASE doc' = [doc EXCEPT ![d].status = "FAILED"] /\ NoFault
    <2>1. /\ doc'[d] = [doc[d] EXCEPT !.status = "FAILED"]
          /\ \A x \in Doc : x # d => doc'[x] = doc[x]
      BY <1>3 DEF IInv, TypeOK
    <2>2. /\ doc'[d].status = "FAILED" /\ doc'[d].deleted = doc[d].deleted
          /\ doc'[d].text = doc[d].text /\ doc'[d].chunks = doc[d].chunks
      BY <2>1 DEF IInv, TypeOK, Row
    <2>3. Clean' <=> Clean
      BY <1>3, FaultsCount DEF IInv
    <2>4. exec'[w] = Idle /\ \A v \in Worker : v # w => exec'[v] = exec[v]
      BY <1>0 DEF Return, IInv, TypeOK
    <2>5. \A e \in Event : TaskInv(e)'
      <3>1. \A e \in Event : doc[e.doc].deleted => doc'[e.doc].deleted
        BY <2>1, <2>2, EventTypes
      <3>2. exec[w].of \in seen' \/ doc'[exec[w].of.doc].deleted \/ ~Clean'
        BY <1>d, <1>0, <1>1, <2>2, <2>3
      <3> QED
        BY <1>0, <1>1, <2>3, <3>1, <3>2, SameEvents, ReturnTasks
    <2>6. DocInv(d)'
      <3>1. U(d)' = U(d) /\ X(d)' = X(d)
        BY DEF U, X, Uploaded, Extracted
      <3> QED
        BY <1>0, <1>1, <2>2, <2>3, <3>1 DEF DocInv
    <2>7. ExecInv(w)' /\ ~Extracting(w)'
      BY <2>4 DEF ExecInv, Extracting, Idle
    <2>8. \A x \in Doc : x # d => doc'[x] = doc[x] /\ published'[x] = published[x] /\ ocr'[x] = ocr[x]
      BY <1>0, <2>1
    <2>9. seen \subseteq seen' /\ seen' \subseteq seen \cup {exec[w].of}
      BY <1>0
    <2>10. ocr'[d] = ocr[d] /\ published'[d]["document.extracted"] = published[d]["document.extracted"]
      BY <1>0
    <2> QED
      BY <1>d, <1>0, <2>2, <2>3, <2>4, <2>5, <2>6, <2>7, <2>8, <2>9, <2>10, SameEvents, Elsewhere
  <1> QED
    BY <1>0, <1>2, <1>3

\* An indexing execution that goes on without touching the database.
LEMMA IndexingMoves ==
    ASSUME IInv, TypeOK', NEW w \in Worker, exec[w].pc \in {"prep", "persist"},
           UNCHANGED <<doc, published, seen, ocr, task>>, Clean' => Clean,
           NEW pc \in {"persist", "recordFailure"}, NEW c \in Cause,
           \/ Goto(w, "persist") /\ pc = "persist"
           \/ /\ GotoFail(w, "recordFailure", c) /\ pc = "recordFailure" /\ c # "none"
              /\ ~Clean' \/ doc[exec[w].of.doc].deleted
    PROVE  IInv'
  <1>d. PICK d \in Doc : d = exec[w].of.doc
    BY TheExecution
  <1>0. /\ exec[w].pc # "idle" /\ exec[w] # Idle /\ ~Extracting(w)
        /\ exec[w].of \in Event /\ exec[w].of = X(d)
        /\ published[d]["document.extracted"] = 1
    BY <1>d, TheExecution DEF Extracting
  <1>1. /\ exec'[w].pc = pc
        /\ pc = "recordFailure" => exec'[w].cause # "none" /\ (~Clean' \/ doc[d].deleted)
        /\ exec'[w].of = X(d) /\ exec'[w] # Idle
        /\ \A v \in Worker : v # w => exec'[v] = exec[v]
    <2>1. CASE Goto(w, "persist") /\ pc = "persist"
      BY <1>0, <2>1, GoesOn
    <2>2. CASE GotoFail(w, "recordFailure", c) /\ pc = "recordFailure" /\ c # "none"
      <3>1. exec'[w].cause # "none"
        BY <1>0, <2>2, ExecTypes DEF GotoFail, IInv, TypeOK
      <3> QED
        BY <1>d, <1>0, <2>2, <3>1, GoesOn
    <2> QED
      BY <2>1, <2>2
  <1>2. \A e \in Event : TaskInv(e)'
    BY <1>0, <1>1, SameEvents, GotoTasks
  <1>3. DocInv(d)'
    <2>1. Working(d) => Working(d)'
      BY <1>0, <1>1 DEF Working, Extracting
    <2>2. DocInv(d)
      BY DEF IInv
    <2> QED
      BY <2>1, <2>2, RowKept
  <1>4. ExecInv(w)' /\ ~Extracting(w)'
    <2>1. Issued(X(d))' /\ X(d).type = "document.extracted" /\ X(d).doc = d
      BY <1>0, SameEvents, Counts DEF X, Extracted
    <2> QED
      BY <1>1, <2>1 DEF ExecInv, Extracting, Issued
  <1> QED
    BY <1>d, <1>0, <1>1, <1>2, <1>3, <1>4, SameEvents, Elsewhere

\* Chunking and embedding touch no table.
LEMMA PrepKeeps ==
    ASSUME IInv, TypeOK', NEW w \in Worker, PrepStep(w)
    PROVE  IInv'
  <1>1. exec[w].pc = "prep" /\ UNCHANGED <<doc, published, seen, ocr, task>>
    BY DEF PrepStep
  <1>2. CASE Goto(w, "persist") /\ NoFault
    BY <1>1, <1>2, IndexingMoves, FaultsCount DEF IInv, Cause
  <1>3. ASSUME Fault, UNCHANGED <<crashes, lapses>>,
               NEW cause \in {"transient", "terminal"}, GotoFail(w, "recordFailure", cause)
        PROVE  IInv'
    <2>1. ~Clean' /\ cause \in Cause /\ cause # "none"
      BY <1>3, FaultsCount DEF IInv, Cause
    <2> QED
      BY <1>1, <1>3, <2>1, IndexingMoves
  <1> QED
    BY <1>2, <1>3 DEF PrepStep

\* The transaction of persist: the mark of X(d), the chunks, READY.
LEMMA PersistKeeps ==
    ASSUME IInv, TypeOK', NEW w \in Worker, PersistStep(w)
    PROVE  IInv'
  <1>d. PICK d \in Doc : d = exec[w].of.doc
    BY TheExecution DEF PersistStep
  <1>0. /\ exec[w].pc = "persist" /\ exec[w].pc # "idle" /\ exec[w] # Idle /\ ~Extracting(w)
        /\ exec[w].of \in Event /\ exec[w].of = X(d)
        /\ published[d]["document.uploaded"] = 1 /\ published[d]["document.extracted"] = 1
        /\ UNCHANGED ocr /\ {"none", "transient", "terminal"} \subseteq Cause
        /\ DocInv(d)
    BY <1>d, TheExecution DEF PersistStep, Extracting, Cause, IInv
  <1>1. CASE SeenOrMark(X(d)) /\ Return(w, "none") /\ UNCHANGED <<doc, published, seen>> /\ NoFault
    BY <1>0, <1>1, FaultsCount, AnswerKeeps DEF SeenOrMark, IInv
  <1>2. CASE /\ ~SetStatus(d) /\ GotoFail(w, "recordFailure", "terminal")
             /\ UNCHANGED <<doc, published, task, seen>> /\ NoFault
    <2>1. Clean' <=> Clean
      BY <1>2, FaultsCount DEF IInv
    <2>2. doc[exec[w].of.doc].deleted
      <3>1. doc[d].status # "none"
        BY <1>0 DEF DocInv
      <3> QED
        BY <1>d, <1>2, <3>1 DEF SetStatus
    <2> QED
      BY <1>0, <1>2, <2>1, <2>2, IndexingMoves
  <1>3. CASE /\ Fault /\ GotoFail(w, "recordFailure", "transient")
             /\ UNCHANGED <<doc, published, task, seen, crashes, lapses>>
    <2>1. ~Clean'
      BY <1>3, FaultsCount DEF IInv
    <2> QED
      BY <1>0, <1>3, <2>1, IndexingMoves
  <1>4. CASE /\ X(d) \notin seen /\ seen' = seen \cup {X(d)}
             /\ doc' = [doc EXCEPT ![d].status = "READY",
                                   ![d].chunks = @ \/ doc[d].text = "full"]
             /\ Publish(d, "document.ready") /\ Return(w, "none") /\ NoFault
    <2>1. /\ doc'[d] = [doc[d] EXCEPT !.status = "READY", !.chunks = @ \/ doc[d].text = "full"]
          /\ \A x \in Doc : x # d => doc'[x] = doc[x]
      BY <1>4 DEF IInv, TypeOK
    <2>2. /\ doc'[d].status = "READY" /\ doc'[d].deleted = doc[d].deleted
          /\ doc'[d].text = doc[d].text
          /\ doc'[d].text = "full" => doc'[d].chunks
      <3>1. doc[d] \in Row
        BY DEF IInv, TypeOK
      <3>2. PICK b \in BOOLEAN : b = (doc[d].chunks \/ doc[d].text = "full")
        OBVIOUS
      <3>3. doc'[d] = [doc[d] EXCEPT !.status = "READY", !.chunks = b]
        BY <2>1, <3>2, Zenon
      <3> QED
        BY <3>1, <3>2, <3>3 DEF Row
    <2>3. /\ published'[d]["document.ready"] = 1
          /\ published'[d]["document.uploaded"] = 1 /\ published'[d]["document.extracted"] = 1
          /\ \A x \in Doc : x # d => published'[x] = published[x]
          /\ \A t \in Type : published[d][t] <= published'[d][t]
      <3>1. published[d]["document.ready"] = 0
        BY <1>0, <1>4 DEF DocInv
      <3>2. published \in [Doc -> [Type -> 0..MaxEvents]]
        BY DEF IInv, TypeOK
      <3>3. published' = [published EXCEPT ![d]["document.ready"] = @ + 1]
        BY <1>4 DEF Publish
      <3> QED
        BY <1>0, <3>1, <3>2, <3>3, EventTypes DEF Type
    <2>4. \A e \in Event : Issued(e)' <=> Issued(e)
      <3>1. ASSUME NEW e \in Event PROVE published'[e.doc][e.type] = published[e.doc][e.type]
        BY <1>0, <2>3, EventTypes
      <3> QED
        BY <3>1 DEF Issued
    <2>5. Clean' <=> Clean
      BY <1>4, FaultsCount DEF IInv
    <2>6. exec'[w] = Idle /\ \A v \in Worker : v # w => exec'[v] = exec[v]
      BY <1>4 DEF Return, IInv, TypeOK
    <2>7. \A e \in Event : TaskInv(e)'
      <3>1. \A e \in Event : doc[e.doc].deleted => doc'[e.doc].deleted
        BY <2>1, <2>2, EventTypes
      <3>2. exec[w].of \in seen' /\ seen \subseteq seen'
        BY <1>0, <1>4
      <3> QED
        BY <1>0, <1>4, <2>4, <2>5, <3>1, <3>2, ReturnTasks
    <2>8. DocInv(d)'
      <3>1. U(d)' = U(d) /\ X(d)' = X(d) /\ U(d) \in seen' /\ X(d) \in seen'
        BY <1>0, <1>4 DEF U, X, Uploaded, Extracted, DocInv
      <3> QED
        BY <1>0, <2>2, <2>3, <2>5, <3>1 DEF DocInv
    <2>9. ExecInv(w)' /\ ~Extracting(w)'
      BY <2>6 DEF ExecInv, Extracting, Idle
    <2>10. \A x \in Doc : x # d => doc'[x] = doc[x] /\ published'[x] = published[x] /\ ocr'[x] = ocr[x]
      BY <1>0, <2>1, <2>3
    <2>11. /\ seen \subseteq seen' /\ seen' \subseteq seen \cup {exec[w].of}
           /\ ocr'[d] = ocr[d]
           /\ published'[d]["document.extracted"] = published[d]["document.extracted"]
      BY <1>0, <1>4, <2>3
    <2> QED
      BY <1>d, <1>0, <2>2, <2>3, <2>5, <2>6, <2>7, <2>8, <2>9, <2>10, <2>11, Elsewhere
  <1> QED
    BY <1>d, <1>0, <1>1, <1>2, <1>3, <1>4 DEF PersistStep, SeenOrMark

\* The last transaction of the extraction publishes X(d).
LEMMA FinalizeKeeps ==
    ASSUME IInv, TypeOK', NEW w \in Worker, FinalizeStep(w)
    PROVE  IInv'
  <1>d. PICK d \in Doc : d = exec[w].of.doc
    BY TheExecution DEF FinalizeStep
  <1>0. /\ exec[w].pc = "finalize" /\ exec[w].pc # "idle" /\ Extracting(w) /\ exec[w] # Idle
        /\ exec[w].of \in Event /\ exec[w].of = U(d) /\ U(d) \in seen
        /\ published[d]["document.uploaded"] = 1
        /\ UNCHANGED <<seen, ocr>> /\ {"none", "transient"} \subseteq Cause
        /\ DocInv(d)
    BY <1>d, TheExecution DEF FinalizeStep, Extracting, Cause, IInv
  <1>1. /\ published[d]["document.extracted"] = 0
        /\ published[d]["document.ready"] = 0 /\ X(d) \notin seen
    <2>1. ExecInv(w)
      BY DEF IInv
    <2>2. published[d]["document.extracted"] = 0
      BY <1>0, <1>d, <2>1 DEF ExecInv
    <2> QED
      BY <1>0, <2>2, Counts DEF DocInv
  <1>2. \A v \in Worker : v # w /\ Extracting(v) => exec[v].of.doc # d
    BY <1>d, <1>0, SoleExtraction
  <1>3. CASE /\ Fault /\ GotoFail(w, "fail", "transient")
             /\ UNCHANGED <<doc, published, task, crashes, lapses>>
    <2>1. ~Clean'
      BY <1>3, FaultsCount DEF IInv
    <2>2. /\ exec'[w].pc = "fail" /\ exec'[w].of = U(d) /\ exec'[w] # Idle
          /\ \A v \in Worker : v # w => exec'[v] = exec[v]
      BY <1>0, <1>3, GoesOn
    <2>3. \A e \in Event : TaskInv(e)'
      BY <1>0, <1>3, <2>1, <2>2, SameEvents, GotoTasks
    <2>4. DocInv(d)'
      BY <1>0, <1>3, <2>1, RowKept
    <2>5. ExecInv(w)' /\ (Extracting(w)' => exec'[w].of = exec[w].of /\ Extracting(w))
      <3>1. Issued(U(d))' /\ U(d).type = "document.uploaded" /\ U(d).doc = d
        BY <1>0, <1>3, SameEvents, Counts DEF U, Uploaded
      <3> QED
        BY <1>0, <2>1, <2>2, <3>1 DEF ExecInv, Extracting, Issued
    <2> QED
      BY <1>d, <1>0, <1>2, <1>3, <2>1, <2>2, <2>3, <2>4, <2>5, SameEvents, Elsewhere
  <1>4. CASE /\ doc' = [doc EXCEPT ![d].status = "EXTRACTED"]
             /\ Publish(d, "document.extracted")
             /\ task' = [Returned(w, "none") EXCEPT ![X(d)].state = "queued"]
             /\ exec' = [exec EXCEPT ![w] = Idle]
             /\ NoFault
    <2>1. /\ doc'[d].status = "EXTRACTED" /\ doc'[d].deleted = doc[d].deleted
          /\ doc'[d].text = doc[d].text /\ doc'[d].chunks = doc[d].chunks
          /\ \A x \in Doc : x # d => doc'[x] = doc[x]
      BY <1>4 DEF IInv, TypeOK, Row
    <2>2. /\ published'[d]["document.extracted"] = 1
          /\ published'[d]["document.uploaded"] = 1 /\ published'[d]["document.ready"] = 0
          /\ \A x \in Doc : x # d => published'[x] = published[x]
          /\ \A t \in Type : published[d][t] <= published'[d][t]
      <3>1. published \in [Doc -> [Type -> 0..MaxEvents]]
        BY DEF IInv, TypeOK
      <3>2. published' = [published EXCEPT ![d]["document.extracted"] = @ + 1]
        BY <1>4 DEF Publish
      <3> QED
        BY <1>0, <1>1, <3>1, <3>2, EventTypes DEF Type
    <2>3. Clean' <=> Clean
      BY <1>4, FaultsCount DEF IInv
    <2>4. exec'[w] = Idle /\ \A v \in Worker : v # w => exec'[v] = exec[v]
      BY <1>4 DEF IInv, TypeOK
    <2>5. X(d) \in Event /\ X(d) # U(d) /\ X(d).doc = d /\ X(d).type = "document.extracted" /\ X(d).n = 1
      BY Counts DEF X, Extracted
    <2>6. ASSUME NEW e \in Event, e # X(d)
          PROVE  Issued(e)' <=> Issued(e)
      <3>1. CASE e.doc = d /\ e.type = "document.extracted"
        <4>1. e.n \in Nat /\ e.n # 0 /\ e.n # 1
          BY <2>6, <3>1, EventTypes DEF X
        <4> QED
          BY <1>1, <2>2, <3>1, <4>1 DEF Issued
      <3>2. CASE e.doc = d /\ e.type = "document.uploaded"
        BY <1>0, <2>2, <3>2 DEF Issued
      <3>3. CASE e.doc # d
        BY <2>2, <3>3, EventTypes DEF Issued
      <3> QED
        BY <3>1, <3>2, <3>3, EventTypes
    <2>7. \A e \in Event : TaskInv(e)'
      <3>0. /\ Returned(w, "none") \in [Event -> Task] /\ task \in [Event -> Task]
            /\ \A e \in Event : TaskInv(e)
        BY <1>0, ReturnTypes DEF IInv, TypeOK
      <3>1. TaskInv(X(d))'
        <4>1. task'[X(d)].state = "queued"
          BY <1>4, <2>5, <3>0 DEF Task
        <4>2. Issued(X(d))'
          BY <2>2, <2>5 DEF Issued, X, Extracted
        <4>3. X(d)' = X(d)
          BY DEF X, Extracted
        <4> QED
          BY <4>1, <4>2, <4>3 DEF TaskInv
      <3>2. TaskInv(U(d))'
        <4>1. task'[U(d)] = task[U(d)] \/ task'[U(d)] = Answered(task[U(d)], "none")
          BY <1>0, <1>4, <2>5, <3>0 DEF Returned
        <4>2. task[U(d)] \in Task /\ TaskInv(U(d)) /\ Issued(U(d))
          BY <1>0, <3>0, Counts
        <4>3. task'[U(d)].state # "none"
          BY <1>0, <4>1, <4>2, AnswerStates DEF TaskInv
        <4>4. U(d) \in seen' /\ Issued(U(d))' /\ U(d)' = U(d)
          BY <1>0, <2>2 DEF Issued, U, Uploaded
        <4> QED
          BY <4>3, <4>4 DEF TaskInv
      <3>3. ASSUME NEW e \in Event, e # X(d), e # U(d)
            PROVE  TaskInv(e)'
        <4>1. task'[e] = task[e]
          BY <1>0, <1>4, <3>0, <3>3 DEF Returned
        <4>2. doc[e.doc].deleted => doc'[e.doc].deleted
          BY <2>1, EventTypes
        <4>3. \A v \in Worker : exec[v] # Idle /\ exec[v].of = e => exec'[v] = exec[v]
          BY <1>0, <2>4, <3>3
        <4> QED
          BY <1>0, <2>3, <2>6, <3>0, <3>3, <4>1, <4>2, <4>3, TaskKept
      <3> QED
        BY <3>1, <3>2, <3>3
    <2>8. DocInv(d)'
      <3>1. U(d)' = U(d) /\ X(d)' = X(d)
        BY DEF U, X, Uploaded, Extracted
      <3> QED
        BY <1>0, <1>1, <2>1, <2>2, <2>3, <3>1 DEF DocInv
    <2>9. ExecInv(w)' /\ ~Extracting(w)'
      BY <2>4 DEF ExecInv, Extracting, Idle
    <2>10. \A x \in Doc : x # d => doc'[x] = doc[x] /\ published'[x] = published[x] /\ ocr'[x] = ocr[x]
      BY <1>0, <2>1, <2>2
    <2>11. seen \subseteq seen' /\ seen' \subseteq seen \cup {exec[w].of}
      BY <1>0
    <2> QED
      BY <1>d, <1>0, <1>2, <2>1, <2>2, <2>3, <2>4, <2>7, <2>8, <2>9, <2>10, <2>11, Elsewhere
  <1> QED
    BY <1>d, <1>1, <1>3, <1>4 DEF FinalizeStep, X

\* A lapsed lease queues the task again beside its running execution.
LEMMA LapseKeeps ==
    ASSUME IInv, TypeOK', NEW w \in Worker, LeaseExpires(w)
    PROVE  IInv'
  <1>1. exec[w].pc # "idle"
    BY DEF LeaseExpires, Exec, Idle, IInv, TypeOK
  <1>d. PICK d \in Doc : d = exec[w].of.doc
    BY <1>1, TheExecution
  <1>0. /\ UNCHANGED <<doc, published, seen, ocr>> /\ (Clean' <=> Clean)
        /\ exec[w].of \in Event /\ exec[w] # Idle
        /\ DocInv(d) /\ ExecInv(w) /\ task \in [Event -> Task]
        /\ \A e \in Event : TaskInv(e)
    BY <1>1, TheExecution DEF LeaseExpires, Clean, IInv, TypeOK
  <1>2. /\ exec'[w].pc = exec[w].pc /\ exec'[w].of = exec[w].of /\ exec'[w] # Idle
        /\ exec'[w].cause = exec[w].cause
        /\ \A v \in Worker : v # w => exec'[v] = exec[v]
    <2>1. exec' = [exec EXCEPT ![w].zombie = TRUE] /\ exec \in [Worker -> Exec]
      BY DEF LeaseExpires, IInv, TypeOK
    <2>2. exec[w] \in [pc : {"mark", "extract", "finalize", "fail", "prep", "persist", "recordFailure"},
                       of : Event, cause : Cause, zombie : BOOLEAN]
      BY <1>1, ExecTypes DEF IInv
    <2> QED
      BY <2>1, <2>2 DEF Idle
  <1>3. ASSUME NEW e \in Event
        PROVE  TaskInv(e)'
    <2>1. CASE e = exec[w].of
      <3>1. task'[e] = Retried(task[e])
        BY <1>0, <2>1 DEF LeaseExpires
      <3>2. task'[e].state \in {"queued", "archived"}
        BY <1>0, <3>1, AnswerStates DEF Cause
      <3>3. Issued(e)'
        BY <1>0, <2>1 DEF ExecInv, Issued
      <3> QED
        BY <1>2, <2>1, <3>2, <3>3 DEF TaskInv
    <2>2. CASE e # exec[w].of
      <3>1. task'[e] = task[e]
        BY <1>0, <2>2 DEF LeaseExpires
      <3> QED
        BY <1>0, <1>2, <2>2, <3>1, SameEvents, TaskKept DEF IInv
    <2> QED
      BY <2>1, <2>2
  <1>4. DocInv(d)'
    <2>1. Working(d) => Working(d)'
      BY <1>2 DEF Working, Extracting
    <2> QED
      BY <1>0, <2>1, RowKept
  <1>5. ExecInv(w)' /\ (Extracting(w)' => Extracting(w))
    BY <1>0, <1>2 DEF ExecInv, Extracting, Issued
  <1> QED
    BY <1>d, <1>0, <1>1, <1>2, <1>3, <1>4, <1>5, SameEvents, Elsewhere

\* A worker takes a task.
LEMMA TakeKeeps ==
    ASSUME IInv, TypeOK', NEW w \in Worker, NEW e \in Event, Take(w, e)
    PROVE  IInv'
  <1>0. /\ UNCHANGED <<doc, published, seen, ocr, bounds>> /\ (Clean' <=> Clean)
        /\ exec[w] = Idle /\ exec \in [Worker -> Exec] /\ task \in [Event -> Task]
        /\ e.type \in {"document.uploaded", "document.extracted"} /\ e.doc \in Doc
    BY EventTypes DEF Take, Clean, bounds, IInv, TypeOK
  <1>1. /\ exec'[w].pc = IF e.type = "document.uploaded" THEN "mark" ELSE "prep"
        /\ exec'[w].of = e /\ exec'[w] # Idle
        /\ \A v \in Worker : v # w => exec'[v] = exec[v]
    BY <1>0 DEF Take, Idle
  <1>2. /\ task'[e].state = "running" /\ Issued(e)
        /\ \A x \in Event : x # e => task'[x] = task[x]
    <2>1. TaskInv(e)
      BY DEF IInv
    <2> QED
      BY <1>0, <2>1 DEF Take, TaskInv, Task
  <1>3. ~Extracting(w) /\ ~Extracting(w)'
    BY <1>0, <1>1 DEF Extracting, Idle
  <1>4. \A x \in Event : Issued(x)' <=> Issued(x)
    BY <1>0, SameEvents
  <1>5. \A x \in seen' : Issued(x)'
    BY <1>0, <1>4 DEF IInv, TypeOK
  <1>6. ASSUME NEW x \in Doc PROVE DocInv(x)'
    <2>1. Working(x) => Working(x)'
      BY <1>1, <1>3 DEF Working, Extracting
    <2> QED
      BY <1>0, <2>1, RowKept DEF IInv
  <1>7. ASSUME NEW v \in Worker PROVE ExecInv(v)'
    <2>1. CASE v = w
      BY <1>0, <1>1, <1>2, <1>3, <1>4, <2>1 DEF ExecInv, Extracting
    <2>2. CASE v # w
      <3>1. exec[v] # Idle => exec[v].of \in Event
        BY <1>0 DEF Exec
      <3> QED
        BY <1>0, <1>1, <1>4, <2>2, <3>1, ExecKept DEF IInv
    <2> QED
      BY <2>1, <2>2
  <1>8. OneExtraction'
    BY <1>1, <1>3 DEF OneExtraction, Extracting, IInv
  <1>9. ASSUME NEW x \in Event PROVE TaskInv(x)'
    <2>1. CASE x = e
      BY <1>1, <1>2, <1>4, <2>1 DEF TaskInv
    <2>2. CASE x # e
      BY <1>0, <1>1, <1>2, <1>4, <2>2, TaskKept DEF IInv
    <2> QED
      BY <2>1, <2>2
  <1> QED
    BY <1>5, <1>6, <1>7, <1>8, <1>9 DEF IInv
-----------------------------------------------------------------------------
(* The API's steps leave the worker's state alone.                         *)

\* What is left to show of a step of the API.
LEMMA ApiKeeps ==
    ASSUME IInv, TypeOK', UNCHANGED <<seen, exec, ocr, bounds>>,
           \A d \in Doc : DocInv(d)',
           \A e \in Event : Issued(e) => Issued(e)',
           \A d \in Doc : /\ doc[d].deleted => doc'[d].deleted
                          /\ published'[d]["document.extracted"] = published[d]["document.extracted"],
           \A e \in Event : TaskInv(e)'
    PROVE  IInv'
  <1>1. \A e \in seen' : Issued(e)'
    BY DEF IInv, TypeOK
  <1>2. ASSUME NEW v \in Worker PROVE ExecInv(v)'
    <2>1. exec[v] # Idle => exec[v].of \in Event /\ exec[v].of.doc \in Doc
      BY EventTypes DEF IInv, TypeOK, Exec
    <2>2. Clean' <=> Clean
      BY DEF Clean, bounds
    <2>3. exec[v].pc \in {"extract", "finalize"} => exec[v] # Idle
      BY DEF Idle
    <2> QED
      BY <2>1, <2>2, <2>3, ExecKept DEF IInv
  <1>3. OneExtraction'
    BY DEF IInv, OneExtraction, Extracting
  <1> QED
    BY <1>1, <1>2, <1>3 DEF IInv

\* A step that only a session, or nothing, remembers.
LEMMA IdleKeeps ==
    ASSUME IInv, TypeOK', UNCHANGED <<doc, published, task, seen, exec, ocr, bounds>>
    PROVE  IInv'
  <1>1. Clean' <=> Clean
    BY DEF Clean, bounds
  <1>2. ASSUME NEW d \in Doc PROVE DocInv(d)'
    <2>1. Working(d) => Working(d)'
      BY DEF Working, Extracting
    <2> QED
      BY <1>1, <2>1, RowKept DEF IInv
  <1>3. \A e \in Event : TaskInv(e)'
    BY <1>1, SameEvents, TaskKept DEF IInv
  <1> QED
    BY <1>2, <1>3, SameEvents, ApiKeeps

\* Start, PutBytes and Delete change one row and nothing else.
LEMMA RowStepKeeps ==
    ASSUME IInv, TypeOK', NEW d \in Doc,
           (\E origin \in Origin : Start(d, origin)) \/ PutBytes(d) \/ Delete(d)
    PROVE  IInv'
  <1>0. /\ UNCHANGED <<published, task, seen, exec, ocr, bounds>> /\ (Clean' <=> Clean)
        /\ doc \in [Doc -> Row] /\ DocInv(d)
    BY DEF Start, PutBytes, Delete, bounds, Clean, IInv, TypeOK
  <1>1. \A x \in Doc : x # d => doc'[x] = doc[x]
    BY <1>0 DEF Start, PutBytes, Delete
  <1>2. /\ \/ doc'[d].status = doc[d].status /\ doc'[d].text = doc[d].text
              /\ doc'[d].chunks = doc[d].chunks
           \/ doc[d].status = "none" /\ doc'[d].status = "PENDING" /\ doc'[d].text = "none"
        /\ doc[d].deleted => doc'[d].deleted
    <2>1. ASSUME NEW origin \in Origin, Start(d, origin)
          PROVE  /\ doc[d].status = "none" /\ doc'[d].status = "PENDING" /\ doc'[d].text = "none"
                 /\ doc[d].deleted = FALSE
      <3>1. doc[d] = NoRow
        BY <2>1 DEF Start
      <3>2. doc'[d] = [NoRow EXCEPT !.status = "PENDING", !.origin = origin]
        BY <1>0, <2>1, <3>1 DEF Start
      <3> QED
        BY <3>1, <3>2 DEF NoRow
    <2>2. CASE PutBytes(d)
      BY <1>0, <2>2 DEF PutBytes, Row
    <2>3. CASE Delete(d)
      BY <1>0, <2>3 DEF Delete, Row
    <2> QED
      BY <2>1, <2>2, <2>3
  <1>3. DocInv(d)'
    <2>1. Working(d) => Working(d)'
      BY <1>0 DEF Working, Extracting
    <2>2. U(d)' = U(d) /\ X(d)' = X(d)
      BY DEF U, X, Uploaded, Extracted
    <2> QED
      BY <1>0, <1>2, <2>1, <2>2 DEF DocInv
  <1>4. ASSUME NEW x \in Doc PROVE DocInv(x)'
    <2>1. Working(x) => Working(x)'
      BY <1>0 DEF Working, Extracting
    <2> QED
      BY <1>0, <1>1, <1>3, <2>1, RowKept DEF IInv
  <1>5. \A x \in Doc : doc[x].deleted => doc'[x].deleted
    BY <1>1, <1>2
  <1>6. \A e \in Event : TaskInv(e)'
    BY <1>0, <1>5, SameEvents, EventTypes, TaskKept DEF IInv
  <1> QED
    BY <1>0, <1>4, <1>5, <1>6, SameEvents, ApiKeeps

\* The guarded UPDATE of Complete and its event U(d).
LEMMA CompleteKeeps ==
    ASSUME IInv, TypeOK', NEW s \in Session, NEW d \in Doc, CompleteWrites(s, d)
    PROVE  IInv'
  <1>0. /\ UNCHANGED <<seen, exec, ocr, bounds>> /\ (Clean' <=> Clean)
        /\ doc \in [Doc -> Row] /\ task \in [Event -> Task] /\ DocInv(d)
        /\ published \in [Doc -> [Type -> 0..MaxEvents]]
        /\ \A e \in Event : TaskInv(e)
    BY DEF CompleteWrites, bounds, Clean, IInv, TypeOK
  <1>1. CASE ~MarkUploaded(d)
    BY <1>0, <1>1, IdleKeeps DEF CompleteWrites
  <1>2. CASE MarkUploaded(d)
    <2>1. /\ doc[d].status = "PENDING" /\ doc' = [doc EXCEPT ![d].status = "UPLOADED"]
          /\ published' = [published EXCEPT ![d]["document.uploaded"] = @ + 1]
          /\ published[d]["document.uploaded"] = 0
      BY <1>0, <1>2 DEF CompleteWrites, MarkUploaded, Publish, DocInv
    <2>2. /\ doc'[d].status = "UPLOADED" /\ doc'[d].deleted = doc[d].deleted
          /\ doc'[d].text = doc[d].text /\ doc'[d].chunks = doc[d].chunks
          /\ \A x \in Doc : x # d => doc'[x] = doc[x]
      BY <1>0, <2>1 DEF Row
    <2>3. /\ published'[d]["document.uploaded"] = 1
          /\ published'[d]["document.extracted"] = published[d]["document.extracted"]
          /\ published'[d]["document.ready"] = published[d]["document.ready"]
          /\ \A x \in Doc : x # d => published'[x] = published[x]
      BY <1>0, <2>1 DEF Type
    <2>4. /\ task' = [task EXCEPT ![U(d)].state = "queued"] /\ U(d) \in Event
          /\ U(d).doc = d /\ U(d).type = "document.uploaded" /\ U(d).n = 1
          /\ U(d) \notin seen /\ published[d]["document.extracted"] = 0
          /\ published[d]["document.ready"] = 0 /\ ocr[d] = 0 /\ X(d) \notin seen
      <3>1. task' = [task EXCEPT ![U(d)].state = "queued"]
        BY <1>2, <2>1 DEF CompleteWrites, Enqueued, U
      <3>2. U(d) \notin seen /\ published[d]["document.extracted"] = 0 /\ ocr[d] = 0
        BY <1>0, <2>1, Counts DEF DocInv
      <3> QED
        BY <3>1, <3>2, <1>0, Counts DEF U, Uploaded, DocInv
    <2>5. ASSUME NEW e \in Event, e # U(d)
          PROVE  Issued(e)' <=> Issued(e)
      <3>1. CASE e.doc = d /\ e.type = "document.uploaded"
        <4>1. e.n \in Nat /\ e.n # 0 /\ e.n # 1
          BY <2>5, <3>1, EventTypes DEF U
        <4> QED
          BY <2>1, <2>3, <3>1, <4>1 DEF Issued
      <3>2. CASE e.doc = d /\ e.type = "document.extracted"
        BY <2>3, <3>2 DEF Issued
      <3>3. CASE e.doc # d
        BY <2>3, <3>3, EventTypes DEF Issued
      <3> QED
        BY <3>1, <3>2, <3>3, EventTypes
    <2>6. Issued(U(d))' /\ U(d)' = U(d) /\ X(d)' = X(d)
      BY <2>3 DEF Issued, U, X, Uploaded, Extracted
    <2>7. \A e \in Event : TaskInv(e)'
      <3>1. TaskInv(U(d))'
        <4>1. task'[U(d)].state = "queued"
          BY <1>0, <2>4 DEF Task
        <4> QED
          BY <2>6, <4>1 DEF TaskInv
      <3>2. ASSUME NEW e \in Event, e # U(d) PROVE TaskInv(e)'
        <4>1. task'[e] = task[e]
          BY <2>4, <1>0, <3>2
        <4>2. doc[e.doc].deleted => doc'[e.doc].deleted
          BY <2>2, EventTypes
        <4> QED
          BY <1>0, <2>5, <3>2, <4>1, <4>2, TaskKept
      <3> QED
        BY <3>1, <3>2
    <2>8. ASSUME NEW x \in Doc PROVE DocInv(x)'
      <3>1. CASE x = d
        <4>1. DocInv(d)'
          BY <1>0, <2>1, <2>2, <2>3, <2>4, <2>6 DEF DocInv
        <4> QED
          BY <3>1, <4>1
      <3>2. CASE x # d
        <4>1. Working(x) => Working(x)'
          BY <1>0 DEF Working, Extracting
        <4> QED
          BY <1>0, <2>2, <2>3, <3>2, <4>1, RowKept DEF IInv
      <3> QED
        BY <3>1, <3>2
    <2>9. \A e \in Event : Issued(e) => Issued(e)'
      BY <2>5, <2>6
    <2> QED
      BY <1>0, <2>2, <2>3, <2>7, <2>8, <2>9, ApiKeeps
  <1> QED
    BY <1>1, <1>2
-----------------------------------------------------------------------------
(* The invariant.                                                          *)

\* The empty tables satisfy the invariant.
LEMMA Initially == Init => IInv
  <1> SUFFICES ASSUME Init PROVE IInv
    OBVIOUS
  <1>1. TypeOK
    BY TaskTypes, DeliveryAssumptions, EventTypes
       DEF Init, TypeOK, NoRow, Row, Status, Origin, Exec, Idle
  <1>2. \A d \in Doc : DocInv(d)
    BY DEF Init, DocInv, NoRow, Type
  <1>3. (\A w \in Worker : ExecInv(w)) /\ OneExtraction
    BY DEF Init, ExecInv, OneExtraction, Extracting, Idle
  <1>4. \A e \in Event : TaskInv(e)
    <2>1. \A e \in Event : ~Issued(e)
      <3>1. ASSUME NEW e \in Event PROVE ~Issued(e)
        <4>1. published[e.doc][e.type] = 0 /\ e.n \in Nat /\ e.n # 0
          BY EventTypes DEF Init, Type
        <4> QED
          BY <4>1 DEF Issued
      <3> QED
        BY <3>1
    <2> QED
      BY <2>1 DEF Init, TaskInv, NoTask
  <1> QED
    BY <1>1, <1>2, <1>3, <1>4 DEF IInv, Init

\* Every step keeps it.
LEMMA InvariantStep ==
    ASSUME IInv, [Next]_vars
    PROVE  IInv'
  <1>1. TypeOK'
    BY TypeStep DEF IInv
  <1>2. CASE Api
    <2>1. ASSUME NEW s \in Session, CompleteAborts(s) \/ \E d \in Doc : CompleteReads(s, d)
          PROVE  IInv'
      BY <1>1, <2>1, IdleKeeps DEF CompleteAborts, CompleteReads
    <2> QED
      BY <1>1, <1>2, <2>1, RowStepKeeps, CompleteKeeps DEF Api
  <1>3. ASSUME NEW w \in Worker, HandlerStep(w) PROVE IInv'
    BY <1>1, <1>3, MarkKeeps, ExtractKeeps, FinalizeKeeps, FailKeeps, PrepKeeps, PersistKeeps
       DEF HandlerStep
  <1>4. CASE UNCHANGED vars
    BY <1>1, <1>4, IdleKeeps DEF vars
  <1> QED
    BY <1>1, <1>2, <1>3, <1>4, TakeKeeps, CrashKeeps, LapseKeeps DEF Next

\* The inductive invariant of the document's life: what the marks of U(d) and
\* X(d), their tasks and their executions imply for the row, the outbox and the
\* extractor's bill.
THEOREM Invariance == Spec => []IInv
  <1> QED
    BY Initially, InvariantStep, PTL DEF Spec

-----------------------------------------------------------------------------
(* What follows from it.                                                   *)

\* Every column, task and execution keeps its type, whatever fails.
THEOREM TypeCorrect == Spec => []TypeOK
  <1>1. IInv => TypeOK
    BY DEF IInv
  <1> QED
    BY <1>1, Invariance, PTL

\* Complete tells the extraction once, the extraction the indexing once and the
\* indexing its observer once, for any number of requests, workers and retries.
THEOREM StagesOnce == Spec => []EachStageOnce
  <1>1. ASSUME IInv PROVE EachStageOnce
    BY <1>1, Counts DEF EachStageOnce, Type, DocInv, IInv
  <1> QED
    BY <1>1, Invariance, PTL

\* The extractor runs at most once for a document: the mark precedes it.
THEOREM ExtractsOnce == Spec => []ExtractedOnce
  <1>1. IInv => ExtractedOnce
    BY DEF ExtractedOnce, DocInv, IInv
  <1> QED
    BY <1>1, Invariance, PTL

\* No step touches the chunks of a document that is deleted when it is taken.
THEOREM DeletedStaysOut == Spec => DeletedNotIndexed
  <1>1. ASSUME TypeOK, [Next]_vars, NEW d \in Doc, doc[d].deleted
        PROVE  doc'[d].chunks = doc[d].chunks
    <2>0. doc \in [Doc -> Row]
      BY <1>1 DEF TypeOK
    <2>1. CASE Api
      <3>1. ASSUME NEW x \in Doc, NEW origin \in Origin, Start(x, origin)
            PROVE  doc'[d].chunks = doc[d].chunks
        BY <1>1, <2>0, <3>1 DEF Start, NoRow, Row
      <3>2. ASSUME NEW x \in Doc, PutBytes(x) \/ Delete(x)
            PROVE  doc'[d].chunks = doc[d].chunks
        BY <2>0, <3>2 DEF PutBytes, Delete, Row
      <3>3. ASSUME NEW s \in Session, NEW x \in Doc, CompleteWrites(s, x)
            PROVE  doc'[d].chunks = doc[d].chunks
        BY <2>0, <3>3 DEF CompleteWrites, Row
      <3> QED
        BY <2>1, <3>1, <3>2, <3>3 DEF Api, CompleteReads, CompleteAborts
    <2>2. ASSUME NEW w \in Worker, HandlerStep(w)
          PROVE  doc'[d].chunks = doc[d].chunks
      <3>1. exec[w].of.doc \in Doc
        <4>1. exec[w].pc # "idle"
          BY <2>2 DEF HandlerStep, MarkStep, ExtractStep, FinalizeStep, FailStep,
                      PrepStep, PersistStep, RecordFailureStep
        <4> QED
          BY <1>1, <4>1, ExecTypes
      <3>2. CASE MarkStep(w)
        BY <2>0, <3>1, <3>2 DEF MarkStep, MarkExtracting, Row
      <3>3. CASE ExtractStep(w)
        BY <2>0, <3>1, <3>3 DEF ExtractStep, Row
      <3>4. CASE FinalizeStep(w) \/ FailStep(w) \/ RecordFailureStep(w)
        <4>1. \/ doc' = doc
              \/ doc' = [doc EXCEPT ![exec[w].of.doc].status = "EXTRACTED"]
              \/ doc' = [doc EXCEPT ![exec[w].of.doc].status = "FAILED"]
          BY <3>4 DEF FinalizeStep, FailStep, RecordFailureStep
        <4> QED
          BY <2>0, <3>1, <4>1 DEF Row
      <3>5. CASE PersistStep(w)
        <4>1. CASE UNCHANGED doc
          BY <4>1
        <4>2. CASE /\ SetStatus(exec[w].of.doc)
                   /\ doc' = [doc EXCEPT ![exec[w].of.doc].status = "READY",
                                 ![exec[w].of.doc].chunks = @ \/ doc[exec[w].of.doc].text = "full"]
          <5>1. d # exec[w].of.doc
            BY <1>1, <4>2 DEF SetStatus
          <5>2. doc'[d] = doc[d]
            BY <2>0, <4>2, <5>1
          <5> QED
            BY <5>2
        <4> QED
          BY <3>5, <4>1, <4>2 DEF PersistStep
      <3> QED
        BY <2>2, <3>2, <3>3, <3>4, <3>5 DEF HandlerStep, PrepStep
    <2> QED
      BY <1>1, <2>1, <2>2 DEF Next, Take, Crash, LeaseExpires, vars
  <1>2. TypeOK /\ [Next]_vars => [\A d \in Doc : doc[d].deleted => doc'[d].chunks = doc[d].chunks]_vars
    BY <1>1
  <1> QED
    BY <1>2, TypeCorrect, PTL DEF Spec, DeletedNotIndexed

\* The task of the stage that d waits for, when nothing works on d.
LEMMA QuietTask ==
    ASSUME IInv, NEW d \in Doc, ~InProgress(d), NEW e \in Event, e.doc = d, Issued(e), e \notin seen
    PROVE  task[e].state = "archived" /\ (Clean => doc[d].deleted)
  <1>1. /\ task[e].state \in {"none", "queued", "running", "done", "archived"} /\ TaskInv(e)
    BY DEF IInv, TypeOK, Task
  <1>2. ~Live(task[e]) /\ \A w \in Worker : ~(exec[w] # Idle /\ exec[w].of = e)
    BY DEF InProgress
  <1> QED
    BY <1>1, <1>2 DEF TaskInv, Live

\* A document nothing works on is not being extracted.
LEMMA QuietWork ==
    ASSUME IInv, NEW d \in Doc, ~InProgress(d)
    PROVE  ~Working(d)
  BY DEF InProgress, Working, Extracting, Idle

\* A document nothing works on is where its owner can see it end, or a task of
\* it was archived, or its extraction was cut short by a fault or a crash.
THEOREM QuietSettles == Spec => []QuietIsSettled
  <1>1. ASSUME IInv, NEW d \in Doc, ~InProgress(d)
        PROVE  \/ doc[d].status \in {"none", "PENDING", "READY", "FAILED"}
               \/ doc[d].status = "EXTRACTING" /\ faults + crashes > 0
               \/ \E e \in Event : e.doc = d /\ task[e].state = "archived"
    <2>0. /\ doc[d].status \in Status /\ DocInv(d)
          /\ U(d) \in Event /\ U(d).doc = d /\ X(d) \in Event /\ X(d).doc = d
      BY <1>1, Counts DEF IInv, TypeOK, Row, U, X, Uploaded, Extracted
    <2>1. CASE doc[d].status = "UPLOADED"
      <3>1. U(d) \notin seen /\ Issued(U(d))
        BY <1>1, <2>0, <2>1, Counts DEF DocInv
      <3> QED
        BY <1>1, <2>0, <3>1, QuietTask
    <2>2. CASE doc[d].status = "EXTRACTED"
      <3>1. X(d) \notin seen /\ Issued(X(d))
        BY <1>1, <2>0, <2>2, Counts DEF DocInv
      <3> QED
        BY <1>1, <2>0, <3>1, QuietTask
    <2>3. CASE doc[d].status = "EXTRACTING"
      <3>1. ~Clean
        BY <1>1, <2>0, <2>3, QuietWork DEF DocInv
      <3>2. faults \in Nat /\ crashes \in Nat
        BY <1>1, DeliveryAssumptions DEF IInv, TypeOK
      <3> QED
        BY <1>1, <2>3, <3>1, <3>2 DEF Clean
    <2> QED
      BY <2>0, <2>1, <2>2, <2>3 DEF Status
  <1>2. IInv => QuietIsSettled
    BY <1>1 DEF QuietIsSettled
  <1> QED
    BY <1>2, Invariance, PTL

\* When nothing failed, a completed document nothing works on is READY or was
\* deleted: leases alone lose no stage of it.
THEOREM QuietIndexes == Spec => []QuietIsIndexed
  <1>1. ASSUME IInv, NEW d \in Doc, ~InProgress(d), Clean
        PROVE  doc[d].status \in {"none", "PENDING", "READY"} \/ doc[d].deleted
    <2>0. /\ doc[d].status \in Status /\ DocInv(d)
          /\ U(d) \in Event /\ U(d).doc = d /\ X(d) \in Event /\ X(d).doc = d
      BY <1>1, Counts DEF IInv, TypeOK, Row, U, X, Uploaded, Extracted
    <2>1. CASE doc[d].status = "UPLOADED"
      <3>1. U(d) \notin seen /\ Issued(U(d))
        BY <1>1, <2>0, <2>1, Counts DEF DocInv
      <3> QED
        BY <1>1, <2>0, <3>1, QuietTask
    <2>2. CASE doc[d].status = "EXTRACTED"
      <3>1. X(d) \notin seen /\ Issued(X(d))
        BY <1>1, <2>0, <2>2, Counts DEF DocInv
      <3> QED
        BY <1>1, <2>0, <3>1, QuietTask
    <2>3. CASE doc[d].status \in {"EXTRACTING", "FAILED"}
      BY <1>1, <2>0, <2>3, QuietWork DEF DocInv
    <2> QED
      BY <2>0, <2>1, <2>2, <2>3 DEF Status
  <1>2. IInv => QuietIsIndexed
    BY <1>1 DEF QuietIsIndexed, Clean
  <1> QED
    BY <1>2, Invariance, PTL
=============================================================================
