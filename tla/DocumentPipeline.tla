-------------------------- MODULE DocumentPipeline --------------------------
(***************************************************************************)
(* The life of a document (internal/document, extraction, indexing).  The  *)
(* API or the court worker starts an upload, PUTs the bytes and completes  *)
(* it; the documents worker extracts the text of an uploaded document and  *)
(* indexes the chunks of an extracted one, each step driven by the event   *)
(* of the step before.                                                     *)
(*                                                                         *)
(* Delivery is TaskDelivery's. A transaction is one step; the storage, OCR *)
(* and embedding calls between two transactions are steps of their own.    *)
(* CHUNKED and READY are written by one transaction, so CHUNKED is never   *)
(* seen.  document.ready and document.failed end at an observer that only  *)
(* acknowledges them.                                                      *)
(***************************************************************************)
EXTENDS TaskDelivery, FiniteSets

CONSTANTS
    Doc,        \* documents
    Session,    \* concurrent API transactions
    Worker,     \* executions the documents server can run at once
    MaxEvents   \* bound: events of one type about one document

ASSUME DocumentAssumptions == MaxEvents \in Nat \ {0}

VARIABLES
    doc,        \* document rows, with what is stored under their keys
    session,    \* what each API transaction has read as PENDING, and will complete
    published,  \* how many events of each type the outbox took per document
    task,       \* the asynq task of each event
    seen,       \* processed_event: events whose effect is marked
    exec,       \* running handlers
    ocr,        \* how often the extractor ran on each document
    faults, crashes, lapses

bounds == <<faults, crashes, lapses>>
vars   == <<doc, session, published, task, seen, exec, ocr, bounds>>

Status == {"none", "PENDING", "UPLOADED", "EXTRACTING", "EXTRACTED", "READY", "FAILED"}
Origin == {"UPLOAD", "COURT"}

\* A row: bytes and text are the objects in the store; chunks, the chunk rows.
Row == [status : Status, origin : Origin, deleted : BOOLEAN, bytes : BOOLEAN,
        text : {"none", "blank", "full"}, chunks : BOOLEAN]
NoRow == [status |-> "none", origin |-> "UPLOAD", deleted |-> FALSE, bytes |-> FALSE,
          text |-> "none", chunks |-> FALSE]

Type  == {"document.uploaded", "document.extracted", "document.ready"}
Event == [type : Type \ {"document.ready"}, doc : Doc, n : 1..MaxEvents]
Uploaded(d, n)  == [type |-> "document.uploaded", doc |-> d, n |-> n]
Extracted(d, n) == [type |-> "document.extracted", doc |-> d, n |-> n]

Idle == [pc |-> "idle"]
Exec == {Idle} \cup
        [pc : {"mark", "extract", "finalize", "fail", "prep", "persist", "recordFailure"},
         of : Event, cause : Cause, zombie : BOOLEAN]

Init ==
    /\ doc = [d \in Doc |-> NoRow]
    /\ session = [s \in Session |-> {}]
    /\ published = [d \in Doc |-> [t \in Type |-> 0]]
    /\ task = [e \in Event |-> NoTask]
    /\ seen = {}
    /\ exec = [w \in Worker |-> Idle]
    /\ ocr = [d \in Doc |-> 0]
    /\ faults = 0 /\ crashes = 0 /\ lapses = 0
-----------------------------------------------------------------------------
(* The outbox and the queue.                                               *)

\* Publish: a fresh event of the type, and the task that will deliver it.
Publish(d, t) ==
    /\ published[d][t] < MaxEvents
    /\ published' = [published EXCEPT ![d][t] = @ + 1]

Enqueued(e) == [task EXCEPT ![e].state = "queued"]

\* What the queue does with a handler's answer: a zombie's is ignored.
Returned(w, cause) ==
    IF exec[w].zombie THEN task ELSE [task EXCEPT ![exec[w].of] = Answered(@, cause)]

\* The handler of w returns: nil is cause "none".
Return(w, cause) ==
    /\ task' = Returned(w, cause)
    /\ exec' = [exec EXCEPT ![w] = Idle]

Goto(w, pc)           == exec' = [exec EXCEPT ![w].pc = pc]
GotoFail(w, pc, cause) == exec' = [exec EXCEPT ![w].pc = pc, ![w].cause = cause]

\* One call or transaction of an execution fails.
Fault == faults < MaxFaults /\ faults' = faults + 1
NoFault == UNCHANGED bounds

\* A worker takes a queued task.
Take(w, e) ==
    /\ exec[w] = Idle
    /\ task[e].state = "queued"
    /\ task' = [task EXCEPT ![e].state = "running"]
    /\ exec' = [exec EXCEPT ![w] =
                   [pc |-> IF e.type = "document.uploaded" THEN "mark" ELSE "prep",
                    of |-> e, cause |-> "none", zombie |-> FALSE]]
    /\ UNCHANGED <<doc, session, published, seen, ocr, bounds>>

\* The process dies; the recoverer hands the task out again.
Crash(w) ==
    /\ exec[w] # Idle
    /\ crashes < MaxCrashes
    /\ crashes' = crashes + 1
    /\ Return(w, "transient")
    /\ UNCHANGED <<doc, session, published, seen, ocr, faults, lapses>>

\* The lease expires under a slow execution: the task is retried beside it.
LeaseExpires(w) ==
    /\ exec[w] # Idle
    /\ ~exec[w].zombie
    /\ lapses < MaxLapses
    /\ lapses' = lapses + 1
    /\ task' = [task EXCEPT ![exec[w].of] = Retried(@)]
    /\ exec' = [exec EXCEPT ![w].zombie = TRUE]
    /\ UNCHANGED <<doc, session, published, seen, ocr, faults, crashes>>
-----------------------------------------------------------------------------
(* The API: upload, complete, delete.                                      *)

\* Start: the row is born PENDING; the presigned URL leaves after the commit.
Start(d, origin) ==
    /\ doc[d] = NoRow
    /\ doc' = [doc EXCEPT ![d].status = "PENDING", ![d].origin = origin]
    /\ UNCHANGED <<session, published, task, seen, exec, ocr, bounds>>

\* The client, or the court worker, PUTs the bytes.
PutBytes(d) ==
    /\ doc[d].status = "PENDING"
    /\ ~doc[d].bytes
    /\ doc' = [doc EXCEPT ![d].bytes = TRUE]
    /\ UNCHANGED <<session, published, task, seen, exec, ocr, bounds>>

\* Complete up to its UPDATE: the row is read, gated on PENDING, and the object
\* is looked up. Every refusal leaves the state alone.
CompleteReads(s, d) ==
    /\ session[s] = {}
    /\ doc[d].status = "PENDING"
    /\ ~doc[d].deleted
    /\ doc[d].bytes
    /\ session' = [session EXCEPT ![s] = {d}]
    /\ UNCHANGED <<doc, published, task, seen, exec, ocr, bounds>>

\* Mutant: the UPDATE trusts the status the transaction read.
MarkUploadedBlind(d) ==
    ~doc[d].deleted

\* The row the guarded UPDATE matches.
MarkUploaded(d) ==
    /\ doc[d].status = "PENDING"
    /\ ~doc[d].deleted

\* Complete from its UPDATE to its commit.
CompleteWrites(s, d) ==
    /\ d \in session[s]
    /\ session' = [session EXCEPT ![s] = {}]
    /\ IF MarkUploaded(d)
       THEN /\ doc' = [doc EXCEPT ![d].status = "UPLOADED"]
            /\ Publish(d, "document.uploaded")
            /\ task' = Enqueued(Uploaded(d, published[d]["document.uploaded"] + 1))
       ELSE UNCHANGED <<doc, published, task>>
    /\ UNCHANGED <<seen, exec, ocr, bounds>>

\* Complete rolls back.
CompleteAborts(s) ==
    /\ session[s] # {}
    /\ session' = [session EXCEPT ![s] = {}]
    /\ UNCHANGED <<doc, published, task, seen, exec, ocr, bounds>>

\* Delete: a document of the autos is never removed.
Delete(d) ==
    /\ doc[d].status # "none"
    /\ ~doc[d].deleted
    /\ doc[d].origin # "COURT"
    /\ doc' = [doc EXCEPT ![d].deleted = TRUE]
    /\ UNCHANGED <<session, published, task, seen, exec, ocr, bounds>>
-----------------------------------------------------------------------------
(* Extraction: OnDocumentUploaded.                                         *)

\* Mutant: the mark is written and its answer ignored.
SeenOrMarkBlind(e) == FALSE

\* SeenOrMark: the event was handled before. Its row commits with the caller.
SeenOrMark(e) == e \in seen

\* Zero rows, a status already past UPLOADED, is tolerated.
MarkExtracting(d) ==
    [doc EXCEPT ![d].status = IF @ = "UPLOADED" THEN "EXTRACTING" ELSE @]

\* The first transaction: the mark and the EXTRACTING flip. A replay is acked.
MarkStep(w) ==
    LET e == exec[w].of IN
    /\ exec[w].pc = "mark"
    /\ \/ /\ SeenOrMark(e)
          /\ Return(w, "none")
          /\ UNCHANGED <<doc, seen>>
          /\ NoFault
       \/ /\ ~SeenOrMark(e)
          /\ seen' = seen \cup {e}
          /\ doc' = MarkExtracting(e.doc)
          /\ Goto(w, "extract")
          /\ UNCHANGED task
          /\ NoFault
       \/ /\ Fault
          /\ Return(w, "transient")
          /\ UNCHANGED <<doc, seen, crashes, lapses>>
    /\ UNCHANGED <<session, published, ocr>>

\* extract: GET the bytes, run the extractor, PUT the text. A scan may have no
\* text at all; a corrupt file is terminal.
ExtractStep(w) ==
    LET d == exec[w].of.doc IN
    /\ exec[w].pc = "extract"
    /\ ocr' = [ocr EXCEPT ![d] = @ + 1]
    /\ \/ /\ \E text \in {"blank", "full"} : doc' = [doc EXCEPT ![d].text = text]
          /\ Goto(w, "finalize")
          /\ NoFault
       \/ /\ Fault
          /\ \E cause \in {"transient", "terminal"} : GotoFail(w, "fail", cause)
          /\ UNCHANGED <<doc, crashes, lapses>>
    /\ UNCHANGED <<session, published, task, seen>>

\* The last transaction: EXTRACTED, whatever the status was, and the event.
FinalizeStep(w) ==
    LET d == exec[w].of.doc IN
    /\ exec[w].pc = "finalize"
    /\ \/ /\ doc' = [doc EXCEPT ![d].status = "EXTRACTED"]
          /\ Publish(d, "document.extracted")
          /\ task' = [Returned(w, "none") EXCEPT
                         ![Extracted(d, published[d]["document.extracted"] + 1)].state = "queued"]
          /\ exec' = [exec EXCEPT ![w] = Idle]
          /\ NoFault
       \/ /\ Fault
          /\ GotoFail(w, "fail", "transient")
          /\ UNCHANGED <<doc, published, task, crashes, lapses>>
    /\ UNCHANGED <<session, seen, ocr>>

\* fail: FAILED and document.failed in a transaction of their own, then the
\* original cause goes back to asynq whether or not they were written.
FailStep(w) ==
    LET d == exec[w].of.doc IN
    /\ exec[w].pc = "fail"
    /\ Return(w, exec[w].cause)
    /\ \/ doc' = [doc EXCEPT ![d].status = "FAILED"] /\ NoFault
       \/ Fault /\ UNCHANGED <<doc, crashes, lapses>>
    /\ UNCHANGED <<session, published, seen, ocr>>
-----------------------------------------------------------------------------
(* Indexing: OnDocumentExtracted.                                          *)

\* Mutant: the mark is committed before the work, as in the extraction.
PrepStepMarksFirst(w) ==
    /\ exec[w].pc = "prep"
    /\ seen' = seen \cup {exec[w].of}
    /\ \/ /\ SeenOrMark(exec[w].of)
          /\ Return(w, "none")
          /\ NoFault
       \/ /\ ~SeenOrMark(exec[w].of)
          /\ Goto(w, "persist")
          /\ UNCHANGED task
          /\ NoFault
    /\ UNCHANGED <<doc, session, published, ocr>>

\* Read the text, chunk it, embed the chunks: no transaction is open.
PrepStep(w) ==
    /\ exec[w].pc = "prep"
    /\ \/ Goto(w, "persist") /\ NoFault
       \/ /\ Fault
          /\ \E cause \in {"transient", "terminal"} : GotoFail(w, "recordFailure", cause)
          /\ UNCHANGED <<crashes, lapses>>
    /\ UNCHANGED <<doc, session, published, task, seen, ocr>>

\* Mutant: a scan without text is refused.
SetStatusOfText(d) == doc[d].text = "full" /\ ~doc[d].deleted

\* Mutant: a deleted document is indexed all the same.
SetStatusBlind(d) == doc[d].status # "none"

\* The row that SetStatus matches.
SetStatus(d) == doc[d].status # "none" /\ ~doc[d].deleted

\* The transaction of persist: the mark, the chunks, READY and document.ready,
\* or nothing. A deleted document is ErrDocumentNotFound, which is terminal.
PersistStep(w) ==
    LET e == exec[w].of
        d == e.doc
    IN
    /\ exec[w].pc = "persist"
    /\ \/ /\ SeenOrMark(e)
          /\ Return(w, "none")
          /\ UNCHANGED <<doc, published, seen>>
          /\ NoFault
       \/ /\ ~SeenOrMark(e)
          /\ SetStatus(d)
          /\ seen' = seen \cup {e}
          /\ doc' = [doc EXCEPT ![d].status = "READY",
                                ![d].chunks = @ \/ doc[d].text = "full"]
          /\ Publish(d, "document.ready")
          /\ Return(w, "none")
          /\ NoFault
       \/ /\ ~SeenOrMark(e)
          /\ ~SetStatus(d)
          /\ GotoFail(w, "recordFailure", "terminal")
          /\ UNCHANGED <<doc, published, task, seen>>
          /\ NoFault
       \/ /\ Fault
          /\ GotoFail(w, "recordFailure", "transient")
          /\ UNCHANGED <<doc, published, task, seen, crashes, lapses>>
    /\ UNCHANGED <<session, ocr>>

\* recordFailure: FAILED in a transaction of its own, deleted or not, seen or
\* not; its own error is dropped and the cause goes back to asynq.
RecordFailureStep(w) ==
    LET d == exec[w].of.doc IN
    /\ exec[w].pc = "recordFailure"
    /\ Return(w, exec[w].cause)
    /\ \/ doc' = [doc EXCEPT ![d].status = "FAILED"] /\ NoFault
       \/ Fault /\ UNCHANGED <<doc, crashes, lapses>>
    /\ UNCHANGED <<session, published, seen, ocr>>
-----------------------------------------------------------------------------
Api ==
    \/ \E d \in Doc : \/ \E origin \in Origin : Start(d, origin)
                      \/ PutBytes(d)
                      \/ Delete(d)
    \/ \E s \in Session : \/ \E d \in Doc : CompleteReads(s, d) \/ CompleteWrites(s, d)
                          \/ CompleteAborts(s)

HandlerStep(w) ==
    \/ MarkStep(w) \/ ExtractStep(w) \/ FinalizeStep(w) \/ FailStep(w)
    \/ PrepStep(w) \/ PersistStep(w) \/ RecordFailureStep(w)

Next ==
    \/ Api
    \/ \E w \in Worker : \/ \E e \in Event : Take(w, e)
                         \/ HandlerStep(w)
                         \/ Crash(w)
                         \/ LeaseExpires(w)

Spec == Init /\ [][Next]_vars

-----------------------------------------------------------------------------
(* Properties.                                                             *)

TypeOK ==
    /\ doc \in [Doc -> Row]
    /\ session \in [Session -> SUBSET Doc]
    /\ published \in [Doc -> [Type -> 0..MaxEvents]]
    /\ task \in [Event -> Task]
    /\ seen \subseteq Event
    /\ exec \in [Worker -> Exec]
    /\ ocr \in [Doc -> Nat]
    /\ faults \in 0..MaxFaults
    /\ crashes \in 0..MaxCrashes
    /\ lapses \in 0..MaxLapses

\* Every stage of the pipeline tells the next one once about a document: two
\* Complete requests that both read PENDING publish one document.uploaded
\* between them, and crashes, retries and zombies of either handler publish one
\* document.extracted and one document.ready, which says that a document with
\* text has its chunks.
EachStageOnce ==
    \A d \in Doc : /\ \A t \in Type : published[d][t] <= 1
                   /\ published[d]["document.ready"] = 1 /\ doc[d].text = "full" => doc[d].chunks

\* The extractor, an OCR engine that is slow or paid by the page, runs at most
\* once for a document (usecase.go: "no re-extraction").
ExtractedOnce == \A d \in Doc : ocr[d] <= 1

\* Nothing of a deleted document enters the index, not even from an execution
\* that read its text before the deletion.
DeletedNotIndexed ==
    [][\A d \in Doc : doc[d].deleted => doc'[d].chunks = doc[d].chunks]_vars

\* Something is still going to work on d.
InProgress(d) ==
    \/ \E e \in Event : e.doc = d /\ Live(task[e])
    \/ \E w \in Worker : exec[w] # Idle /\ exec[w].of.doc = d

\* A document nothing works on has come to an end its owner can see, or asynq
\* archived a task of it. The one exception the code has is the extraction that
\* a crash or a fault cut short after its mark: the redelivery is acknowledged
\* and the document stays EXTRACTING.
QuietIsSettled ==
    \A d \in Doc : ~InProgress(d) =>
        \/ doc[d].status \in {"none", "PENDING", "READY", "FAILED"}
        \/ doc[d].status = "EXTRACTING" /\ faults + crashes > 0
        \/ \E e \in Event : e.doc = d /\ task[e].state = "archived"

\* When no call failed and no process died, a document nothing works on is
\* READY, unless it was deleted or never completed, whatever leases expired.
QuietIsIndexed ==
    \A d \in Doc : ~InProgress(d) /\ faults + crashes = 0 =>
        doc[d].status \in {"none", "PENDING", "READY"} \/ doc[d].deleted
=============================================================================
