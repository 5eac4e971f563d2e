----------------------------- MODULE CourtFetch -----------------------------
(***************************************************************************)
(* One connection of a lawyer to a court's portal (internal/court) and the *)
(* autos it fetches.  A court_record_observed stamps the record and asks   *)
(* for a batch; a batch fetches the due records one by one, downloads the  *)
(* documents of the docket events past the record's cursor, and asks for   *)
(* the next step while more is due and for a task of its own for each      *)
(* record that failed.  Meanwhile the lawyer connects again, or hands in a *)
(* TOTP seed.                                                              *)
(*                                                                         *)
(* The ids of these events are stable, and no handler keeps a mark: what   *)
(* collapses a burst is that asynq refuses the id of a task it still has.  *)
(* Time counts the observations. The session of the portal, the sync_run   *)
(* row of a batch, the capa and the parties are left out.                  *)
(***************************************************************************)
EXTENDS TaskDelivery, FiniteSets

CONSTANTS
    Record,          \* court records of the connection
    Session,         \* observation handlers and API requests that overlap
    Worker,          \* executions worker-court runs at once
    BatchSize,       \* fetchAutosBatchSize
    MaxObservations, \* bound: court_record_observed events
    MaxDocket,       \* bound: docket events of a record
    MaxStep,         \* bound: continuations of a batch
    MaxConnects      \* bound: API requests

CourtAssumptions ==
    /\ BatchSize \in Nat \ {0}
    /\ {MaxObservations, MaxDocket, MaxStep, MaxConnects} \subseteq Nat

VARIABLES
    status,    \* court_connection.status
    observed,  \* observed_at of each court_fetch_state row, 0 without a row
    fetched,   \* last_fetched_at, Never when NULL
    cursor,    \* docket_cursor, 0 when NULL
    docket,    \* events the portal shows per record, dated 1, 2, ...
    offered,   \* events whose documents a fetch has gone through
    session,   \* open observations and API requests
    outbox,    \* rows the relay has not enqueued yet, per event id
    fetchTask, \* the asynq task of each event id
    fetcher,   \* running executions
    stranded,  \* records that were due when their last trigger came to nothing
    clock,     \* observations so far
    connects,  \* API requests so far
    faults, crashes, lapses

connectionVars == <<status, connects>>
rowVars        == <<observed, fetched, cursor>>
portalVars     == <<docket, offered>>
bounds         == <<faults, crashes, lapses>>
vars == <<connectionVars, rowVars, portalVars, session, outbox, fetchTask, fetcher,
          stranded, clock, bounds>>

Status == {"DISCONNECTED", "AUTHENTICATING", "CONNECTED", "MFA_ENROLLMENT_REQUIRED", "ERROR"}
Never  == -1

\* fetchAutosRequestedEventID and fetchAutosItemEventID.
Batch(k) == <<"batch", k>>
Item(r)  == <<"item", r>>
Id       == {Batch(k) : k \in 0..MaxStep} \cup {Item(r) : r \in Record}
IsBatch(id) == id[1] = "batch"

Idle  == [pc |-> "idle"]
Caller == {Idle} \cup [pc : {"connect", "seed"}]
                 \cup [pc : {"observe"}, rec : Record, at : 1..MaxObservations]
Items == [rec : Record, at : 0..MaxObservations, cursor : 0..MaxDocket]
Fetcher == {Idle} \cup
           [pc : {"conn", "read", "fetch", "mark", "finish"}, of : Id, due : SUBSET Items,
            more : BOOLEAN, retry : SUBSET Record, latest : 0..MaxDocket,
            abort : BOOLEAN, zombie : BOOLEAN]

\* A connection just created (CreateConnection).
Init ==
    /\ status = "DISCONNECTED"
    /\ connects = 0
    /\ observed = [r \in Record |-> 0]
    /\ fetched = [r \in Record |-> Never]
    /\ cursor = [r \in Record |-> 0]
    /\ docket = [r \in Record |-> 0]
    /\ offered = [r \in Record |-> {}]
    /\ session = [s \in Session |-> Idle]
    /\ outbox = [id \in Id |-> 0]
    /\ fetchTask = [id \in Id |-> NoTask]
    /\ fetcher = [w \in Worker |-> Idle]
    /\ stranded = {}
    /\ clock = 0
    /\ faults = 0 /\ crashes = 0 /\ lapses = 0

Fault   == faults < MaxFaults /\ faults' = faults + 1 /\ UNCHANGED <<crashes, lapses>>
NoFault == UNCHANGED bounds
-----------------------------------------------------------------------------
(* The connection: Connect and SubmitMFASeed.                              *)

\* Connect's first transaction; SubmitMFASeed only reads the row and seals the seed.
BeginConnect(s, pc) ==
    /\ session[s] = Idle
    /\ connects < MaxConnects
    /\ connects' = connects + 1
    /\ session' = [session EXCEPT ![s] = [pc |-> pc]]
    /\ status' = IF pc = "connect" THEN "AUTHENTICATING" ELSE status
    /\ UNCHANGED <<rowVars, portalVars, outbox, fetchTask, fetcher, stranded, clock, bounds>>

\* finalizeConnect: the outcome is written whatever the status is by now. A
\* portal that wants a second factor ends Connect without one in
\* MFA_ENROLLMENT_REQUIRED: EprocProvider cannot enroll.
finalizeConnect(s) ==
    /\ session[s].pc \in {"connect", "seed"}
    /\ \E outcome \in {"CONNECTED", "ERROR", "MFA_ENROLLMENT_REQUIRED"} :
          /\ outcome = "MFA_ENROLLMENT_REQUIRED" => session[s].pc = "connect"
          /\ status' = outcome
    /\ session' = [session EXCEPT ![s] = Idle]
    /\ UNCHANGED <<connects, rowVars, portalVars, outbox, fetchTask, fetcher, stranded, clock, bounds>>

\* No provider, an unreadable seed, a lost transaction or a dead process: the
\* request or the observation ends and what it wrote before stays.
RequestFails(s) ==
    /\ session[s] # Idle
    /\ Fault
    /\ session' = [session EXCEPT ![s] = Idle]
    /\ UNCHANGED <<connectionVars, rowVars, portalVars, outbox, fetchTask, fetcher, stranded, clock>>
-----------------------------------------------------------------------------
(* The trigger: OnCourtRecordObserved.                                     *)

\* The court adds an event to a docket.
CourtMoves(r) ==
    /\ docket[r] < MaxDocket
    /\ docket' = [docket EXCEPT ![r] = @ + 1]
    /\ UNCHANGED <<connectionVars, rowVars, offered, session, outbox, fetchTask, fetcher,
                   stranded, clock, bounds>>

\* The first transaction finds a CONNECTED connection, and the clock is read.
\* Otherwise the observation is acknowledged and forgotten.
BeginObserve(s, r) ==
    /\ session[s] = Idle
    /\ status = "CONNECTED"
    /\ clock < MaxObservations
    /\ clock' = clock + 1
    /\ session' = [session EXCEPT ![s] = [pc |-> "observe", rec |-> r, at |-> clock + 1]]
    /\ UNCHANGED <<connectionVars, rowVars, portalVars, outbox, fetchTask, fetcher, stranded, bounds>>

later(t, u) == IF t < u THEN u ELSE t

\* The second: the stamp moves forward only, and a batch is asked for.
UpsertObserved(s) ==
    /\ session[s].pc = "observe"
    /\ session' = [session EXCEPT ![s] = Idle]
    /\ observed' = [observed EXCEPT ![session[s].rec] = later(@, session[s].at)]
    /\ outbox' = [outbox EXCEPT ![Batch(0)] = @ + 1]
    /\ UNCHANGED <<connectionVars, fetched, cursor, portalVars, fetchTask, fetcher, stranded, clock, bounds>>
-----------------------------------------------------------------------------
(* The queue.                                                              *)

\* ListDueCourtFetchState without its limit.
Due == {r \in Record : observed[r] > 0 /\ fetched[r] < observed[r]}

\* What a task with this id was going to fetch.
Serves(id) == IF IsBatch(id) THEN Due ELSE {id[2]} \cap Due

\* The task will still list what it fetches.
StillToRead(id) ==
    \/ fetchTask[id].state = "queued"
    \/ \E w \in Worker : /\ fetcher[w] # Idle
                        /\ fetcher[w].of = id
                        /\ fetcher[w].pc \in {"conn", "read"}
                        /\ ~fetcher[w].zombie

\* The relay enqueues a row: an id asynq still has counts as delivered.
Relay(id) ==
    /\ outbox[id] > 0
    /\ outbox' = [outbox EXCEPT ![id] = @ - 1]
    /\ IF fetchTask[id] = NoTask
       THEN /\ fetchTask' = [fetchTask EXCEPT ![id] = [state |-> "queued", tries |-> 0]]
            /\ UNCHANGED stranded
       ELSE /\ stranded' = IF StillToRead(id) THEN stranded ELSE stranded \cup Serves(id)
            /\ UNCHANGED fetchTask
    /\ UNCHANGED <<connectionVars, rowVars, portalVars, session, fetcher, clock, bounds>>

Take(w, id) ==
    /\ fetcher[w] = Idle
    /\ fetchTask[id].state = "queued"
    /\ fetchTask' = [fetchTask EXCEPT ![id].state = "running"]
    /\ fetcher' = [fetcher EXCEPT ![w] = [pc |-> "conn", of |-> id, due |-> {}, more |-> FALSE,
                                          retry |-> {}, latest |-> 0, abort |-> FALSE, zombie |-> FALSE]]
    /\ UNCHANGED <<connectionVars, rowVars, portalVars, session, outbox, stranded, clock, bounds>>

\* The handler of w returns nil: asynq deletes the task. A zombie is ignored.
Succeed(w) ==
    /\ fetcher' = [fetcher EXCEPT ![w] = Idle]
    /\ fetchTask' = IF fetcher[w].zombie THEN fetchTask
                    ELSE [fetchTask EXCEPT ![fetcher[w].of] = NoTask]

\* The task of id is retried; once archived it stays and serves nothing.
Retry(id) ==
    /\ fetchTask' = [fetchTask EXCEPT ![id] = Retried(@)]
    /\ stranded' = IF Retried(fetchTask[id]).state = "archived"
                   THEN stranded \cup Serves(id) ELSE stranded

\* The handler of w returns an error: isTerminal holds for none of these.
Fail(w) ==
    /\ fetcher' = [fetcher EXCEPT ![w] = Idle]
    /\ IF fetcher[w].zombie THEN UNCHANGED <<fetchTask, stranded>> ELSE Retry(fetcher[w].of)

Crash(w) ==
    /\ fetcher[w] # Idle
    /\ crashes < MaxCrashes
    /\ crashes' = crashes + 1
    /\ Fail(w)
    /\ UNCHANGED <<connectionVars, rowVars, portalVars, session, outbox, clock, faults, lapses>>

LeaseExpires(w) ==
    /\ fetcher[w] # Idle
    /\ ~fetcher[w].zombie
    /\ lapses < MaxLapses
    /\ lapses' = lapses + 1
    /\ fetcher' = [fetcher EXCEPT ![w].zombie = TRUE]
    /\ Retry(fetcher[w].of)
    /\ UNCHANGED <<connectionVars, rowVars, portalVars, session, outbox, clock, faults, crashes>>
-----------------------------------------------------------------------------
(* FetchAutosBatch and FetchAutosItem.                                     *)

Goto(w, pc) == fetcher' = [fetcher EXCEPT ![w].pc = pc]

\* A connection that is not CONNECTED is a no-op, for a batch and for an item.
ReadConnection(w) ==
    /\ fetcher[w].pc = "conn"
    /\ \/ /\ status = "CONNECTED"
          /\ Goto(w, "read")
          /\ UNCHANGED <<fetchTask, stranded>>
          /\ NoFault
       \/ /\ status # "CONNECTED"
          /\ Succeed(w)
          /\ stranded' = IF fetcher[w].zombie THEN stranded
                         ELSE stranded \cup Serves(fetcher[w].of)
          /\ NoFault
       \/ Fail(w) /\ Fault
    /\ UNCHANGED <<connectionVars, rowVars, portalVars, session, outbox, clock>>

\* The place of a due record in the order of observed_at.
rank(r) == Cardinality({q \in Due : observed[q] < observed[r]})

\* ListDueCourtFetchState: the oldest observations, one more than a batch.
ListDue == {r \in Due : rank(r) <= BatchSize}

\* A record with the cursor its row has now.
FetchStateItem(r) == [rec |-> r, at |-> observed[r], cursor |-> cursor[r]]

\* The batch takes its list but for the record that only says there is more;
\* the item takes its own row, due or not.
ReadDue(w) ==
    LET id   == fetcher[w].of
        rows == IF IsBatch(id) THEN {r \in ListDue : rank(r) < BatchSize} ELSE {id[2]}
    IN
    /\ fetcher[w].pc = "read"
    /\ \/ /\ rows = {}
          /\ Succeed(w)
          /\ UNCHANGED stranded
          /\ NoFault
       \/ /\ rows # {}
          /\ fetcher' = [fetcher EXCEPT ![w].pc = "fetch",
                                        ![w].due = {FetchStateItem(r) : r \in rows},
                                        ![w].more = IsBatch(id) /\ rows # ListDue]
          /\ UNCHANGED <<fetchTask, stranded>>
          /\ NoFault
       \/ Fail(w) /\ Fault
    /\ UNCHANGED <<connectionVars, rowVars, portalVars, session, outbox, clock>>

\* The record a batch works on: the oldest of those it has left.
InHand(w) == {i \in fetcher[w].due : \A j \in fetcher[w].due : i.at <= j.at}

\* The batch goes on with its next record, or ends.
NextItem(w, item, retry) ==
    fetcher' = [fetcher EXCEPT ![w].due = @ \ {item}, ![w].retry = retry, ![w].latest = 0,
                               ![w].pc = IF fetcher[w].due = {item} THEN "finish" ELSE "fetch"]

\* FetchAutos: list the docket, which may come back empty, and go through the
\* documents of the events past the cursor that was read with the row. The
\* portal may refuse the credential, which ends the batch, or fail.
FetchAutos(w) ==
    /\ fetcher[w].pc = "fetch"
    /\ \E item \in InHand(w) :
       \/ /\ \E latest \in {0, docket[item.rec]} :
                /\ offered' = [offered EXCEPT ![item.rec] = @ \cup ((item.cursor + 1)..latest)]
                /\ fetcher' = [fetcher EXCEPT ![w].pc = "mark", ![w].latest = latest]
          /\ UNCHANGED <<fetchTask, stranded>>
          /\ NoFault
       \/ /\ fetcher' = [fetcher EXCEPT ![w].pc = "finish", ![w].abort = TRUE]
          /\ UNCHANGED <<offered, fetchTask, stranded>>
          /\ NoFault
       \/ /\ IsBatch(fetcher[w].of)
          /\ NextItem(w, item, fetcher[w].retry \cup {item.rec})
          /\ UNCHANGED <<offered, fetchTask, stranded>>
          /\ Fault
       \/ /\ ~IsBatch(fetcher[w].of)
          /\ Fail(w)
          /\ UNCHANGED offered
          /\ Fault
    /\ UNCHANGED <<connectionVars, rowVars, docket, session, outbox, clock>>

\* Mutant: the cursor is what the court shows when the row is written.
LatestCursorNow(w, r) == docket[r]

\* newAutosResult: the newest event of the list that was fetched.
LatestCursor(w, r) == fetcher[w].latest

\* markItemFetched: the row is stamped with the present, and its cursor is
\* replaced, by NULL when the docket came back empty.
MarkItemFetched(w) ==
    /\ fetcher[w].pc = "mark"
    /\ \E item \in InHand(w) :
       \/ /\ fetched' = [fetched EXCEPT ![item.rec] = clock]
          /\ cursor' = [cursor EXCEPT ![item.rec] = LatestCursor(w, item.rec)]
          /\ stranded' = stranded \ {item.rec}
          /\ IF IsBatch(fetcher[w].of)
             THEN NextItem(w, item, fetcher[w].retry) /\ UNCHANGED fetchTask
             ELSE Succeed(w)
          /\ NoFault
       \/ /\ Fail(w)
          /\ UNCHANGED <<fetched, cursor>>
          /\ Fault
    /\ UNCHANGED <<connectionVars, observed, portalVars, session, outbox, clock>>

\* Mutant: a record that failed is left to the next observation.
StepEventsOnlyMore(w) == IF fetcher[w].more THEN {Batch(fetcher[w].of[2] + 1)} ELSE {}

\* The events a batch ends with.
StepEvents(w) ==
    (IF fetcher[w].more THEN {Batch(fetcher[w].of[2] + 1)} ELSE {})
        \cup {Item(r) : r \in fetcher[w].retry}

\* A refused credential breaks the connection, whatever became of it since, and
\* goes back to asynq as the error it is; otherwise the next step and the
\* retries are published.
Finish(w) ==
    /\ fetcher[w].pc = "finish"
    /\ \/ /\ fetcher[w].abort
          /\ status' = "ERROR"
          /\ Fail(w)
          /\ UNCHANGED outbox
          /\ NoFault
       \/ /\ ~fetcher[w].abort
          /\ StepEvents(w) \subseteq Id
          /\ outbox' = [id \in Id |-> outbox[id] + IF id \in StepEvents(w) THEN 1 ELSE 0]
          /\ Succeed(w)
          /\ UNCHANGED <<status, stranded>>
          /\ NoFault
       \/ /\ Fail(w)
          /\ UNCHANGED <<status, outbox>>
          /\ Fault
    /\ UNCHANGED <<connects, rowVars, portalVars, session, clock>>
-----------------------------------------------------------------------------
HandlerStep(w) ==
    ReadConnection(w) \/ ReadDue(w) \/ FetchAutos(w) \/ MarkItemFetched(w) \/ Finish(w)

Next ==
    \/ \E s \in Session :
          \/ \E pc \in {"connect", "seed"} : BeginConnect(s, pc)
          \/ finalizeConnect(s)
          \/ RequestFails(s)
          \/ \E r \in Record : BeginObserve(s, r)
          \/ UpsertObserved(s)
    \/ \E r \in Record : CourtMoves(r)
    \/ \E id \in Id : Relay(id)
    \/ \E w \in Worker :
          \/ \E id \in Id : Take(w, id)
          \/ HandlerStep(w)
          \/ Crash(w)
          \/ LeaseExpires(w)

Spec == Init /\ [][Next]_vars
-----------------------------------------------------------------------------
(* Properties.                                                             *)

TypeOK ==
    /\ status \in Status
    /\ observed \in [Record -> 0..MaxObservations]
    /\ fetched \in [Record -> {Never} \cup 0..MaxObservations]
    /\ cursor \in [Record -> 0..MaxDocket]
    /\ docket \in [Record -> 0..MaxDocket]
    /\ offered \in [Record -> SUBSET (1..MaxDocket)]
    /\ session \in [Session -> Caller]
    /\ outbox \in [Id -> Nat]
    /\ fetchTask \in [Id -> Task]
    /\ fetcher \in [Worker -> Fetcher]
    /\ stranded \subseteq Record
    /\ clock \in 0..MaxObservations

\* The cursor never steps over an event no fetch has gone through, although
\* fetches of one record overlap, read their cursor early and write it late
\* (eproc_provider.go: events older than the cursor "were already processed").
CursorPassesNothing == \A r \in Record : 1..cursor[r] \subseteq offered[r]

\* Nothing is published, queued or running.
Quiet ==
    /\ \A id \in Id : outbox[id] = 0 /\ ~Live(fetchTask[id])
    /\ \A w \in Worker : fetcher[w] = Idle

\* A record that is due when nothing is coming was left behind in one of the
\* ways the code has: its trigger met a task of the same id that had listed
\* its records already or was archived, its task was archived, or ran when the
\* connection was not CONNECTED.
DueIsServed == Quiet => Due \subseteq stranded
=============================================================================
