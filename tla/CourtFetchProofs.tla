-------------------------- MODULE CourtFetchProofs --------------------------
(***************************************************************************)
(* Theorems of CourtFetch: its types, and that the cursor of a record      *)
(* passes nothing.  Fetches of one record overlap and write their cursor   *)
(* late, so the argument is about each of them: what an execution has read *)
(* or is about to write is below what some fetch has gone through, and     *)
(* what fetches have gone through only grows.  A batch marks the item it   *)
(* has fetched because no two of its items have the same stamp.            *)
(***************************************************************************)
EXTENDS CourtFetch, FiniteSetTheorems, WellFoundedInduction, TLAPS

\* Each observation has a stamp of its own, and stamps one record.
StampInv ==
    /\ \A s, t \in Session :
          session[s].pc = "observe" /\ session[t].pc = "observe" /\ session[s].at = session[t].at
          => s = t
    /\ \A s \in Session : session[s].pc = "observe" =>
          session[s].at <= clock /\ \A r \in Record : session[s].at # observed[r]
    /\ \A r, q \in Record : observed[r] = observed[q] => r = q \/ observed[r] = 0
    /\ \A r \in Record : observed[r] <= clock

\* What the fetches of an execution start from, and what it is about to write.
FetcherInv(w) ==
    fetcher[w] # Idle =>
        /\ \A i, j \in fetcher[w].due : i.at = j.at => i = j
        /\ \A i \in fetcher[w].due : 1..i.cursor \subseteq offered[i.rec]
        /\ fetcher[w].pc = "mark" =>
              \A i \in InHand(w) : 1..fetcher[w].latest \subseteq offered[i.rec]

IInv ==
    /\ TypeOK
    /\ StampInv
    /\ CursorPassesNothing
    /\ \A w \in Worker : FetcherInv(w)
-----------------------------------------------------------------------------
(* Types.                                                                  *)

\* Tasks stay tasks.
LEMMA TaskTypes ==
    /\ NoTask \in Task
    /\ \A t \in Task : Retried(t) \in Task
    /\ \A t \in Task, s \in {"queued", "running"} : [t EXCEPT !.state = s] \in Task
    /\ [state |-> "queued", tries |-> 0] \in Task
  <1>1. MaxRetry \in Nat
    BY DeliveryAssumptions
  <1> QED
    BY <1>1 DEF NoTask, Task, Retried

\* The ids, and what they name.
LEMMA IdTypes ==
    /\ \A id \in Id : ~IsBatch(id) => id[2] \in Record
    /\ \A r \in Record : Item(r) \in Id
    /\ CourtAssumptions => Batch(0) \in Id
  BY DEF Id, IsBatch, Batch, Item, CourtAssumptions

\* A running execution has its fields.
LEMMA FetcherTypes ==
    ASSUME TypeOK, NEW w \in Worker, fetcher[w] # Idle
    PROVE  /\ fetcher[w] \in [pc : {"conn", "read", "fetch", "mark", "finish"}, of : Id,
                              due : SUBSET Items, more : BOOLEAN, retry : SUBSET Record,
                              latest : 0..MaxDocket, abort : BOOLEAN, zombie : BOOLEAN]
           /\ fetcher[w].of \in Id /\ fetcher[w].due \in SUBSET Items
           /\ fetcher[w].retry \in SUBSET Record /\ fetcher[w].latest \in 0..MaxDocket
           /\ fetcher[w].more \in BOOLEAN /\ fetcher[w].abort \in BOOLEAN
           /\ fetcher[w].zombie \in BOOLEAN
           /\ fetcher[w].pc \in {"conn", "read", "fetch", "mark", "finish"}
  BY DEF TypeOK, Fetcher

\* What a task was going to fetch are records.
LEMMA ServesRecords == \A id : Serves(id) \subseteq Record
  BY DEF Serves, Due

LEMMA TypeRetry ==
    ASSUME TypeOK, NEW id \in Id, Retry(id)
    PROVE  fetchTask' \in [Id -> Task] /\ stranded' \subseteq Record
  <1>1. fetchTask' = [fetchTask EXCEPT ![id] = Retried(fetchTask[id])]
    BY DEF Retry
  <1>2. Retried(fetchTask[id]) \in Task
    BY TaskTypes DEF TypeOK
  <1> QED
    BY <1>1, <1>2, ServesRecords DEF TypeOK, Retry

LEMMA TypeFail ==
    ASSUME TypeOK, NEW w \in Worker, fetcher[w] # Idle, Fail(w)
    PROVE  /\ fetchTask' \in [Id -> Task] /\ stranded' \subseteq Record
           /\ fetcher' \in [Worker -> Fetcher]
  <1>1. fetchTask' \in [Id -> Task] /\ stranded' \subseteq Record
    <2>1. CASE fetcher[w].zombie
      BY <2>1 DEF Fail, TypeOK
    <2>2. CASE ~fetcher[w].zombie
      BY <2>2, FetcherTypes, TypeRetry DEF Fail
    <2> QED
      BY <2>1, <2>2
  <1> QED
    BY <1>1 DEF Fail, TypeOK, Fetcher

LEMMA TypeSucceed ==
    ASSUME TypeOK, NEW w \in Worker, fetcher[w] # Idle, Succeed(w)
    PROVE  /\ fetchTask' \in [Id -> Task]
           /\ fetcher' \in [Worker -> Fetcher]
  BY FetcherTypes, TaskTypes DEF Succeed, TypeOK, Fetcher

\* The row of a record makes an item.
LEMMA ItemTypes ==
    ASSUME TypeOK, NEW r \in Record
    PROVE  FetchStateItem(r) \in Items
  BY DEF TypeOK, FetchStateItem, Items

LEMMA InHandTypes ==
    ASSUME TypeOK, NEW w \in Worker, fetcher[w] # Idle, NEW item \in InHand(w)
    PROVE  /\ item \in fetcher[w].due /\ item \in Items
           /\ item.rec \in Record /\ item.at \in Nat /\ item.cursor \in 0..MaxDocket
  BY FetcherTypes DEF InHand, Items

LEMMA TypeNextItem ==
    ASSUME TypeOK, CourtAssumptions, NEW w \in Worker, fetcher[w] # Idle,
           NEW item, NEW retry \in SUBSET Record, NextItem(w, item, retry)
    PROVE  fetcher' \in [Worker -> Fetcher]
  <1> PICK pc \in {"finish", "fetch"} :
          fetcher' = [fetcher EXCEPT ![w].due = fetcher[w].due \ {item}, ![w].retry = retry,
                                     ![w].latest = 0, ![w].pc = pc]
    BY DEF NextItem
  <1>1. 0 \in 0..MaxDocket
    BY DEF CourtAssumptions
  <1>2. [fetcher[w] EXCEPT !.due = fetcher[w].due \ {item}, !.retry = retry,
                           !.latest = 0, !.pc = pc] \in Fetcher
    BY <1>1, FetcherTypes DEF Fetcher
  <1> QED
    BY <1>2 DEF TypeOK

\* The fields an execution gets keep its type.
LEMMA TypeListed ==
    ASSUME TypeOK, NEW w \in Worker, fetcher[w] # Idle, NEW due \in SUBSET Items, NEW more \in BOOLEAN
    PROVE  [fetcher EXCEPT ![w].pc = "fetch", ![w].due = due, ![w].more = more]
               \in [Worker -> Fetcher]
  <1>1. [fetcher[w] EXCEPT !.pc = "fetch", !.due = due, !.more = more] \in Fetcher
    BY FetcherTypes DEF Fetcher
  <1> QED
    BY <1>1 DEF TypeOK

LEMMA TypeFetched ==
    ASSUME TypeOK, NEW w \in Worker, fetcher[w] # Idle, NEW latest \in 0..MaxDocket
    PROVE  [fetcher EXCEPT ![w].pc = "mark", ![w].latest = latest] \in [Worker -> Fetcher]
  <1>1. [fetcher[w] EXCEPT !.pc = "mark", !.latest = latest] \in Fetcher
    BY FetcherTypes DEF Fetcher
  <1> QED
    BY <1>1 DEF TypeOK

LEMMA TypeAborted ==
    ASSUME TypeOK, NEW w \in Worker, fetcher[w] # Idle
    PROVE  /\ [fetcher EXCEPT ![w].pc = "finish", ![w].abort = TRUE] \in [Worker -> Fetcher]
           /\ [fetcher EXCEPT ![w].pc = "read"] \in [Worker -> Fetcher]
           /\ [fetcher EXCEPT ![w].zombie = TRUE] \in [Worker -> Fetcher]
  <1>1. /\ [fetcher[w] EXCEPT !.pc = "finish", !.abort = TRUE] \in Fetcher
        /\ [fetcher[w] EXCEPT !.pc = "read"] \in Fetcher
        /\ [fetcher[w] EXCEPT !.zombie = TRUE] \in Fetcher
    BY FetcherTypes DEF Fetcher
  <1> QED
    BY <1>1 DEF TypeOK

\* A place of the handler is not Idle's.
LEMMA Running ==
    \A w \in Worker : fetcher[w].pc \in {"conn", "read", "fetch", "mark", "finish"} => fetcher[w] # Idle
  BY DEF Idle

\* The requests and observations keep the types.
LEMMA TypeSession ==
    ASSUME TypeOK, CourtAssumptions, NEW s \in Session,
           \/ \E pc \in {"connect", "seed"} : BeginConnect(s, pc)
           \/ finalizeConnect(s)
           \/ RequestFails(s)
           \/ \E r \in Record : BeginObserve(s, r)
           \/ UpsertObserved(s)
    PROVE  TypeOK'
  <1> USE DEF TypeOK, connectionVars, rowVars, portalVars, bounds
  <1>1. CASE \E pc \in {"connect", "seed"} : BeginConnect(s, pc)
    BY <1>1 DEF BeginConnect, Caller, Status
  <1>2. CASE finalizeConnect(s)
    BY <1>2 DEF finalizeConnect, Caller, Status
  <1>3. CASE RequestFails(s)
    BY <1>3 DEF RequestFails, Caller, Fault
  <1>4. CASE \E r \in Record : BeginObserve(s, r)
    <2> PICK r \in Record : BeginObserve(s, r)
      BY <1>4
    <2>1. clock + 1 \in 1..MaxObservations
      BY DEF BeginObserve, CourtAssumptions
    <2>2. [pc |-> "observe", rec |-> r, at |-> clock + 1] \in Caller
      BY <2>1 DEF Caller
    <2> QED
      BY <2>1, <2>2 DEF BeginObserve, CourtAssumptions
  <1>5. CASE UpsertObserved(s)
    <2>1. session[s] \in [pc : {"observe"}, rec : Record, at : 1..MaxObservations]
      BY <1>5 DEF UpsertObserved, Caller, Idle
    <2>2. later(observed[session[s].rec], session[s].at) \in 0..MaxObservations
      BY <2>1 DEF later, CourtAssumptions
    <2>3. outbox' \in [Id -> Nat]
      BY <1>5, IdTypes DEF UpsertObserved
    <2> QED
      BY <1>5, <2>1, <2>2, <2>3 DEF UpsertObserved, Caller
  <1> QED
    BY <1>1, <1>2, <1>3, <1>4, <1>5

\* So do the portal and the queue.
LEMMA TypeQueue ==
    ASSUME TypeOK, CourtAssumptions,
           \/ \E r \in Record : CourtMoves(r)
           \/ \E id \in Id : Relay(id)
           \/ \E w \in Worker : (\E id \in Id : Take(w, id)) \/ Crash(w) \/ LeaseExpires(w)
    PROVE  TypeOK'
  <1> USE DEF connectionVars, rowVars, portalVars, bounds
  <1>1. CASE \E r \in Record : CourtMoves(r)
    BY <1>1 DEF CourtMoves, TypeOK, CourtAssumptions
  <1>2. CASE \E id \in Id : Relay(id)
    <2> PICK id \in Id : Relay(id)
      BY <1>2
    <2>1. outbox' \in [Id -> Nat]
      BY DEF Relay, TypeOK
    <2>2. fetchTask' \in [Id -> Task] /\ stranded' \subseteq Record
      BY TaskTypes, ServesRecords DEF Relay, TypeOK
    <2> QED
      BY <2>1, <2>2 DEF Relay, TypeOK
  <1>3. ASSUME NEW w \in Worker, NEW id \in Id, Take(w, id) PROVE TypeOK'
    <2>1. [pc |-> "conn", of |-> id, due |-> {}, more |-> FALSE, retry |-> {}, latest |-> 0,
           abort |-> FALSE, zombie |-> FALSE] \in Fetcher
      BY DEF Fetcher, CourtAssumptions
    <2>2. fetchTask' \in [Id -> Task]
      <3>1. [fetchTask[id] EXCEPT !.state = "running"] \in Task
        BY TaskTypes DEF TypeOK
      <3> QED
        BY <1>3, <3>1 DEF Take, TypeOK
    <2> QED
      BY <1>3, <2>1, <2>2 DEF Take, TypeOK
  <1>4. ASSUME NEW w \in Worker, Crash(w) PROVE TypeOK'
    <2>1. fetcher[w] # Idle /\ Fail(w)
      BY <1>4 DEF Crash
    <2> QED
      BY <1>4, <2>1, TypeFail DEF Crash, TypeOK
  <1>5. ASSUME NEW w \in Worker, LeaseExpires(w) PROVE TypeOK'
    <2>1. fetcher[w] # Idle /\ Retry(fetcher[w].of) /\ fetcher[w].of \in Id
      BY <1>5, FetcherTypes DEF LeaseExpires
    <2> QED
      BY <1>5, <2>1, TypeRetry, TypeAborted DEF LeaseExpires, TypeOK
  <1> QED
    BY <1>1, <1>2, <1>3, <1>4, <1>5

\* And the handler.
LEMMA TypeHandler ==
    ASSUME TypeOK, CourtAssumptions, NEW w \in Worker, HandlerStep(w)
    PROVE  TypeOK'
  <1> USE DEF connectionVars, rowVars, portalVars
  <1>0. fetcher[w] # Idle
    BY Running DEF HandlerStep, ReadConnection, ReadDue, FetchAutos, MarkItemFetched, Finish
  <1>1. CASE ReadConnection(w)
    <2>1. CASE Fail(w)
      BY <1>0, <1>1, <2>1, TypeFail DEF ReadConnection, TypeOK
    <2>2. CASE Succeed(w) /\ stranded' \subseteq Record
      BY <1>0, <1>1, <2>2, TypeSucceed DEF ReadConnection, TypeOK
    <2>3. CASE Goto(w, "read") /\ UNCHANGED <<fetchTask, stranded>>
      BY <1>0, <1>1, <2>3, TypeAborted DEF ReadConnection, Goto, TypeOK
    <2> QED
      BY <1>1, <2>1, <2>2, <2>3, ServesRecords DEF ReadConnection, TypeOK
  <1>2. CASE ReadDue(w)
    <2>1. CASE Fail(w)
      BY <1>0, <1>2, <2>1, TypeFail DEF ReadDue, TypeOK
    <2>2. CASE Succeed(w) /\ UNCHANGED stranded
      BY <1>0, <1>2, <2>2, TypeSucceed DEF ReadDue, TypeOK
    <2>3. CASE ~Fail(w) /\ ~(Succeed(w) /\ UNCHANGED stranded)
      <3>1. PICK rows \in SUBSET Record :
               /\ fetcher' = [fetcher EXCEPT ![w].pc = "fetch",
                                             ![w].due = {FetchStateItem(r) : r \in rows},
                                             ![w].more = IsBatch(fetcher[w].of) /\ rows # ListDue]
               /\ UNCHANGED <<fetchTask, stranded>>
        <4> DEFINE rows == IF IsBatch(fetcher[w].of) THEN {r \in ListDue : rank(r) < BatchSize}
                           ELSE {fetcher[w].of[2]}
        <4>1. rows \in SUBSET Record
          BY <1>0, FetcherTypes, IdTypes DEF ListDue, Due
        <4> QED
          BY <1>2, <2>3, <4>1 DEF ReadDue
      <3>2. {FetchStateItem(r) : r \in rows} \in SUBSET Items
        BY ItemTypes
      <3>3. PICK more \in BOOLEAN : more = (IsBatch(fetcher[w].of) /\ rows # ListDue)
        OBVIOUS
      <3>4. fetcher' \in [Worker -> Fetcher]
        BY <1>0, <3>1, <3>2, <3>3, TypeListed
      <3> QED
        BY <1>2, <3>1, <3>4 DEF ReadDue, TypeOK
    <2> QED
      BY <2>1, <2>2, <2>3
  <1>3. CASE FetchAutos(w)
    <2> PICK item \in InHand(w) :
          \/ /\ \E latest \in {0, docket[item.rec]} :
                   /\ offered' = [offered EXCEPT ![item.rec] = @ \cup ((item.cursor + 1)..latest)]
                   /\ fetcher' = [fetcher EXCEPT ![w].pc = "mark", ![w].latest = latest]
             /\ UNCHANGED <<fetchTask, stranded>>
          \/ /\ fetcher' = [fetcher EXCEPT ![w].pc = "finish", ![w].abort = TRUE]
             /\ UNCHANGED <<offered, fetchTask, stranded>>
          \/ /\ NextItem(w, item, fetcher[w].retry \cup {item.rec})
             /\ UNCHANGED <<offered, fetchTask, stranded>>
          \/ /\ Fail(w)
             /\ UNCHANGED offered
      BY <1>3 DEF FetchAutos
    <2>0. item.rec \in Record /\ item.cursor \in 0..MaxDocket /\ MaxDocket \in Nat
      BY <1>0, InHandTypes DEF CourtAssumptions
    <2>1. ASSUME NEW latest \in {0, docket[item.rec]},
                 offered' = [offered EXCEPT ![item.rec] = @ \cup ((item.cursor + 1)..latest)],
                 fetcher' = [fetcher EXCEPT ![w].pc = "mark", ![w].latest = latest],
                 UNCHANGED <<fetchTask, stranded>>
          PROVE  TypeOK'
      <3>1. latest \in 0..MaxDocket
        BY <2>0, <2>1 DEF TypeOK
      <3>2. offered' \in [Record -> SUBSET (1..MaxDocket)]
        <4>1. (item.cursor + 1)..latest \subseteq 1..MaxDocket
          BY <2>0, <3>1
        <4> QED
          BY <2>0, <2>1, <4>1 DEF TypeOK
      <3>3. fetcher' \in [Worker -> Fetcher]
        BY <1>0, <2>1, <3>1, TypeFetched
      <3> QED
        BY <1>3, <2>1, <3>2, <3>3 DEF FetchAutos, TypeOK
    <2>2. CASE /\ fetcher' = [fetcher EXCEPT ![w].pc = "finish", ![w].abort = TRUE]
               /\ UNCHANGED <<offered, fetchTask, stranded>>
      BY <1>0, <1>3, <2>2, TypeAborted DEF FetchAutos, TypeOK
    <2>3. CASE /\ NextItem(w, item, fetcher[w].retry \cup {item.rec})
               /\ UNCHANGED <<offered, fetchTask, stranded>>
      <3>1. fetcher[w].retry \cup {item.rec} \in SUBSET Record
        BY <1>0, <2>0, FetcherTypes
      <3>2. fetcher' \in [Worker -> Fetcher]
        BY <1>0, <2>3, <3>1, TypeNextItem
      <3> QED
        BY <1>3, <2>3, <3>2 DEF FetchAutos, TypeOK
    <2>4. CASE Fail(w) /\ UNCHANGED offered
      BY <1>0, <1>3, <2>4, TypeFail DEF FetchAutos, TypeOK
    <2> QED
      BY <2>1, <2>2, <2>3, <2>4
  <1>4. CASE MarkItemFetched(w)
    <2> PICK item \in InHand(w) :
          \/ /\ fetched' = [fetched EXCEPT ![item.rec] = clock]
             /\ cursor' = [cursor EXCEPT ![item.rec] = LatestCursor(w, item.rec)]
             /\ stranded' = stranded \ {item.rec}
             /\ \/ NextItem(w, item, fetcher[w].retry) /\ UNCHANGED fetchTask
                \/ Succeed(w)
          \/ Fail(w) /\ UNCHANGED <<fetched, cursor>>
      BY <1>4 DEF MarkItemFetched
    <2>0. item.rec \in Record /\ LatestCursor(w, item.rec) \in 0..MaxDocket
      BY <1>0, InHandTypes, FetcherTypes DEF LatestCursor
    <2>1. CASE Fail(w) /\ UNCHANGED <<fetched, cursor>>
      BY <1>0, <1>4, <2>1, TypeFail DEF MarkItemFetched, TypeOK
    <2>2. CASE /\ fetched' = [fetched EXCEPT ![item.rec] = clock]
               /\ cursor' = [cursor EXCEPT ![item.rec] = LatestCursor(w, item.rec)]
               /\ stranded' = stranded \ {item.rec}
               /\ \/ NextItem(w, item, fetcher[w].retry) /\ UNCHANGED fetchTask
                  \/ Succeed(w)
      <3>1. fetcher' \in [Worker -> Fetcher] /\ fetchTask' \in [Id -> Task]
        <4>1. CASE NextItem(w, item, fetcher[w].retry) /\ UNCHANGED fetchTask
          BY <1>0, <4>1, FetcherTypes, TypeNextItem DEF TypeOK
        <4>2. CASE Succeed(w)
          BY <1>0, <4>2, TypeSucceed
        <4> QED
          BY <2>2, <4>1, <4>2
      <3>2. /\ fetched' \in [Record -> {Never} \cup 0..MaxObservations]
            /\ cursor' \in [Record -> 0..MaxDocket]
            /\ stranded' \subseteq Record
        BY <2>0, <2>2 DEF TypeOK
      <3> QED
        BY <1>4, <3>1, <3>2 DEF MarkItemFetched, TypeOK
    <2> QED
      BY <2>1, <2>2
  <1>5. CASE Finish(w)
    <2>1. status' \in Status
      BY <1>5 DEF Finish, TypeOK, Status
    <2>2. outbox' \in [Id -> Nat]
      BY <1>5 DEF Finish, TypeOK
    <2>3. CASE Fail(w)
      BY <1>0, <1>5, <2>1, <2>2, <2>3, TypeFail DEF Finish, TypeOK
    <2>4. CASE Succeed(w) /\ UNCHANGED stranded
      BY <1>0, <1>5, <2>1, <2>2, <2>4, TypeSucceed DEF Finish, TypeOK
    <2> QED
      BY <1>5, <2>3, <2>4 DEF Finish
  <1> QED
    BY <1>1, <1>2, <1>3, <1>4, <1>5 DEF HandlerStep

\* Every step keeps the types.
LEMMA TypeKeeps ==
    ASSUME TypeOK, CourtAssumptions, [Next]_vars
    PROVE  TypeOK'
  <1>1. CASE UNCHANGED vars
    BY <1>1 DEF TypeOK, vars, connectionVars, rowVars, portalVars, bounds
  <1>2. CASE Next
    BY <1>2, TypeSession, TypeQueue, TypeHandler DEF Next
  <1> QED
    BY <1>1, <1>2
-----------------------------------------------------------------------------
(* The stamps.                                                             *)

\* Only an observation takes a stamp, the next one, and gives it to its record.
LEMMA StampKeeps ==
    ASSUME TypeOK, StampInv, CourtAssumptions, [Next]_vars
    PROVE  StampInv'
  <1> USE DEF connectionVars, rowVars, portalVars, bounds
  <1>1. CASE UNCHANGED <<session, observed, clock>>
    BY <1>1 DEF StampInv
  <1>2. ASSUME NEW s \in Session, NEW x \in Caller, x.pc # "observe",
               session' = [session EXCEPT ![s] = x], UNCHANGED <<observed, clock>>
        PROVE  StampInv'
    BY <1>2 DEF StampInv, TypeOK
  <1>3. ASSUME NEW s \in Session, NEW r \in Record, BeginObserve(s, r) PROVE StampInv'
    <2>1. clock \in Nat /\ \A q \in Record : observed[q] \in Nat
      BY DEF TypeOK, CourtAssumptions
    <2>2. \A t \in Session : session[t].pc = "observe" => session[t].at \in Nat
      BY DEF TypeOK, Caller, Idle
    <2> QED
      BY <1>3, <2>1, <2>2 DEF BeginObserve, StampInv, TypeOK
  <1>4. ASSUME NEW s \in Session, UpsertObserved(s) PROVE StampInv'
    <2>1. session[s].pc = "observe" /\ session[s].rec \in Record /\ session[s].at \in Nat
      BY <1>4 DEF UpsertObserved, TypeOK, Caller, Idle
    <2>2. clock \in Nat /\ \A q \in Record : observed[q] \in Nat
      BY DEF TypeOK, CourtAssumptions
    <2>3. /\ \A t \in Session \ {s} : session'[t] = session[t]
          /\ session'[s].pc # "observe"
          /\ clock' = clock
      BY <1>4 DEF UpsertObserved, TypeOK, Idle
    <2>4. /\ \A q \in Record \ {session[s].rec} : observed'[q] = observed[q]
          /\ observed'[session[s].rec] \in {observed[session[s].rec], session[s].at}
      BY <1>4, <2>1 DEF UpsertObserved, TypeOK, later
    <2> QED
      BY <2>1, <2>2, <2>3, <2>4 DEF StampInv
  <1>5. CASE UNCHANGED vars
    BY <1>1, <1>5 DEF vars
  <1>6. CASE Next
    <2>1. ASSUME NEW s \in Session, NEW pc \in {"connect", "seed"}, BeginConnect(s, pc)
          PROVE  StampInv'
      BY <1>2, <2>1 DEF BeginConnect, Caller
    <2>2. ASSUME NEW s \in Session, finalizeConnect(s) \/ RequestFails(s) PROVE StampInv'
      BY <1>2, <2>2 DEF finalizeConnect, RequestFails, Caller, Idle
    <2>3. ASSUME NEW w \in Worker, HandlerStep(w) PROVE StampInv'
      BY <1>1, <2>3 DEF HandlerStep, ReadConnection, ReadDue, FetchAutos, MarkItemFetched, Finish
    <2>4. CASE \/ \E r \in Record : CourtMoves(r)
               \/ \E id \in Id : Relay(id)
               \/ \E w \in Worker : (\E id \in Id : Take(w, id)) \/ Crash(w) \/ LeaseExpires(w)
      BY <1>1, <2>4 DEF CourtMoves, Relay, Take, Crash, LeaseExpires
    <2> QED
      BY <1>3, <1>4, <1>6, <2>1, <2>2, <2>3, <2>4 DEF Next
  <1> QED
    BY <1>5, <1>6
-----------------------------------------------------------------------------
(* The executions.                                                         *)

\* An execution that stands still keeps its invariant while fetches go on.
LEMMA Elsewhere ==
    ASSUME TypeOK, NEW v \in Worker, FetcherInv(v),
           \A r \in Record : offered[r] \subseteq offered'[r],
           fetcher'[v] = fetcher[v] \/ fetcher'[v] = [fetcher[v] EXCEPT !.zombie = TRUE],
           fetcher[v] # Idle
    PROVE  FetcherInv(v)'
  <1>1. /\ fetcher'[v].due = fetcher[v].due
        /\ fetcher'[v].pc = fetcher[v].pc
        /\ fetcher'[v].latest = fetcher[v].latest
    BY FetcherTypes
  <1>2. \A i \in fetcher[v].due : i.rec \in Record
    BY FetcherTypes DEF Items
  <1>3. InHand(v)' = InHand(v)
    BY <1>1 DEF InHand
  <1>4. \A i \in InHand(v) : i \in fetcher[v].due
    BY DEF InHand
  <1> QED
    BY <1>1, <1>2, <1>3, <1>4 DEF FetcherInv

\* Only FetchAutos goes through documents, and what it has been through stays.
LEMMA OfferedGrows ==
    ASSUME TypeOK, Next
    PROVE  \A r \in Record : offered[r] \subseteq offered'[r]
  <1> USE DEF portalVars
  <1>1. ASSUME NEW w \in Worker, FetchAutos(w)
        PROVE  \A r \in Record : offered[r] \subseteq offered'[r]
    BY <1>1 DEF FetchAutos, TypeOK
  <1>2. ASSUME NEW w \in Worker,
               ReadConnection(w) \/ ReadDue(w) \/ MarkItemFetched(w) \/ Finish(w)
        PROVE  UNCHANGED offered
    BY <1>2 DEF ReadConnection, ReadDue, MarkItemFetched, Finish
  <1>3. ASSUME NEW s \in Session,
               \/ \E pc \in {"connect", "seed"} : BeginConnect(s, pc)
               \/ finalizeConnect(s)
               \/ RequestFails(s)
               \/ \E r \in Record : BeginObserve(s, r)
               \/ UpsertObserved(s)
        PROVE  UNCHANGED offered
    BY <1>3 DEF BeginConnect, finalizeConnect, RequestFails, BeginObserve, UpsertObserved
  <1>4. ASSUME \/ \E r \in Record : CourtMoves(r)
               \/ \E id \in Id : Relay(id)
               \/ \E w \in Worker : (\E id \in Id : Take(w, id)) \/ Crash(w) \/ LeaseExpires(w)
        PROVE  UNCHANGED offered
    BY <1>4 DEF CourtMoves, Relay, Take, Crash, LeaseExpires
  <1> QED
    BY <1>1, <1>2, <1>3, <1>4 DEF Next, HandlerStep

\* An execution that ends owes nothing.
LEMMA Ended ==
    ASSUME TypeOK, NEW w \in Worker, Succeed(w) \/ Fail(w)
    PROVE  FetcherInv(w)' /\ \A v \in Worker \ {w} : fetcher'[v] = fetcher[v]
  BY DEF Succeed, Fail, FetcherInv, TypeOK

\* The next item of a batch is fetched with a list that only shrank.
LEMMA NextItemKeeps ==
    ASSUME TypeOK, NEW w \in Worker, fetcher[w] # Idle, FetcherInv(w),
           \A r \in Record : offered[r] \subseteq offered'[r],
           NEW item, NEW retry, NextItem(w, item, retry)
    PROVE  FetcherInv(w)' /\ \A v \in Worker \ {w} : fetcher'[v] = fetcher[v]
  <1>1. /\ fetcher'[w].due = fetcher[w].due \ {item}
        /\ fetcher'[w].pc \in {"finish", "fetch"}
        /\ \A v \in Worker \ {w} : fetcher'[v] = fetcher[v]
    <2> PICK pc \in {"finish", "fetch"} :
          fetcher' = [fetcher EXCEPT ![w].due = fetcher[w].due \ {item}, ![w].retry = retry,
                                     ![w].latest = 0, ![w].pc = pc]
      BY DEF NextItem
    <2> QED
      BY FetcherTypes DEF TypeOK
  <1>2. \A i \in fetcher[w].due : i.rec \in Record
    BY FetcherTypes DEF Items
  <1> QED
    BY <1>1, <1>2 DEF FetcherInv

\* One item of an execution is the oldest.
LEMMA OneInHand ==
    ASSUME TypeOK, NEW w \in Worker, fetcher[w] # Idle, FetcherInv(w)
    PROVE  \A i, j \in InHand(w) : i = j
  <1> SUFFICES ASSUME NEW i \in InHand(w), NEW j \in InHand(w) PROVE i = j
    OBVIOUS
  <1>1. i.at <= j.at /\ j.at <= i.at
    BY DEF InHand
  <1>2. i.at \in Nat /\ j.at \in Nat
    BY InHandTypes
  <1> QED
    BY <1>1, <1>2, InHandTypes DEF FetcherInv

\* A list that is read has one item per stamp, each with the cursor of its row.
LEMMA ListedKeeps ==
    ASSUME TypeOK, StampInv, CursorPassesNothing, NEW w \in Worker, fetcher[w] # Idle,
           ReadDue(w)
    PROVE  FetcherInv(w)' /\ \A v \in Worker \ {w} : fetcher'[v] = fetcher[v]
  <1>1. CASE Succeed(w) \/ Fail(w)
    BY <1>1, Ended
  <1>2. CASE ~(Succeed(w) \/ Fail(w))
    <2>1. PICK rows \in SUBSET Record :
             /\ \A r, q \in rows : observed[r] = observed[q] => r = q
             /\ fetcher' = [fetcher EXCEPT ![w].pc = "fetch",
                                           ![w].due = {FetchStateItem(r) : r \in rows},
                                           ![w].more = IsBatch(fetcher[w].of) /\ rows # ListDue]
             /\ UNCHANGED offered
      <3> DEFINE rows == IF IsBatch(fetcher[w].of) THEN {r \in ListDue : rank(r) < BatchSize}
                         ELSE {fetcher[w].of[2]}
      <3>1. rows \in SUBSET Record
        BY FetcherTypes, IdTypes DEF ListDue, Due
      <3>2. \A r, q \in rows : observed[r] = observed[q] => r = q
        <4>1. CASE IsBatch(fetcher[w].of)
          <5>1. \A r \in rows : observed[r] > 0
            BY <4>1 DEF ListDue, Due
          <5> QED
            BY <3>1, <5>1 DEF StampInv, TypeOK
        <4>2. CASE ~IsBatch(fetcher[w].of)
          BY <4>2
        <4> QED
          BY <4>1, <4>2
      <3>3. /\ fetcher' = [fetcher EXCEPT ![w].pc = "fetch",
                                          ![w].due = {FetchStateItem(r) : r \in rows},
                                          ![w].more = IsBatch(fetcher[w].of) /\ rows # ListDue]
            /\ UNCHANGED offered
        BY <1>2 DEF ReadDue, portalVars
      <3> HIDE DEF rows
      <3> QED
        BY <3>1, <3>2, <3>3
    <2>2. /\ fetcher'[w].due = {FetchStateItem(r) : r \in rows}
          /\ fetcher'[w].pc = "fetch"
          /\ \A v \in Worker \ {w} : fetcher'[v] = fetcher[v]
      <3> PICK more : more = (IsBatch(fetcher[w].of) /\ rows # ListDue)
        OBVIOUS
      <3>1. fetcher' = [fetcher EXCEPT ![w].pc = "fetch", ![w].more = more,
                                       ![w].due = {FetchStateItem(r) : r \in rows}]
        BY <2>1
      <3> QED
        BY <3>1, FetcherTypes DEF TypeOK
    <2>3. \A r \in rows : /\ FetchStateItem(r).rec = r
                          /\ FetchStateItem(r).at = observed[r]
                          /\ FetchStateItem(r).cursor = cursor[r]
      BY DEF FetchStateItem
    <2>4. \A i, j \in fetcher'[w].due : i.at = j.at => i = j
      <3> SUFFICES ASSUME NEW i \in fetcher'[w].due, NEW j \in fetcher'[w].due, i.at = j.at
                   PROVE  i = j
        OBVIOUS
      <3>1. PICK r \in rows : i = FetchStateItem(r)
        BY <2>2
      <3>2. PICK q \in rows : j = FetchStateItem(q)
        BY <2>2
      <3>3. observed[r] = observed[q]
        BY <2>3, <3>1, <3>2
      <3>4. r = q
        BY <2>1, <3>3
      <3> QED
        BY <3>1, <3>2, <3>4
    <2>5. \A i \in fetcher'[w].due : 1..i.cursor \subseteq offered[i.rec]
      BY <2>2, <2>3 DEF CursorPassesNothing
    <2> QED
      BY <2>1, <2>2, <2>4, <2>5 DEF FetcherInv
  <1> QED
    BY <1>1, <1>2

\* FetchAutos goes through what lies between the cursor and the newest event.
LEMMA FetchedKeeps ==
    ASSUME TypeOK, CourtAssumptions, NEW w \in Worker, fetcher[w] # Idle, FetcherInv(w),
           \A r \in Record : offered[r] \subseteq offered'[r], FetchAutos(w)
    PROVE  FetcherInv(w)' /\ \A v \in Worker \ {w} : fetcher'[v] = fetcher[v]
  <1> PICK item \in InHand(w) :
        \/ /\ \E latest \in {0, docket[item.rec]} :
                 /\ offered' = [offered EXCEPT ![item.rec] = @ \cup ((item.cursor + 1)..latest)]
                 /\ fetcher' = [fetcher EXCEPT ![w].pc = "mark", ![w].latest = latest]
        \/ /\ fetcher' = [fetcher EXCEPT ![w].pc = "finish", ![w].abort = TRUE]
           /\ UNCHANGED offered
        \/ NextItem(w, item, fetcher[w].retry \cup {item.rec})
        \/ Fail(w)
    BY DEF FetchAutos
  <1>0. item \in fetcher[w].due /\ item.rec \in Record /\ item.cursor \in Nat
    BY InHandTypes DEF CourtAssumptions
  <1>1. ASSUME NEW latest \in {0, docket[item.rec]},
               offered' = [offered EXCEPT ![item.rec] = @ \cup ((item.cursor + 1)..latest)],
               fetcher' = [fetcher EXCEPT ![w].pc = "mark", ![w].latest = latest]
        PROVE  FetcherInv(w)' /\ \A v \in Worker \ {w} : fetcher'[v] = fetcher[v]
    <2>1. /\ fetcher'[w].due = fetcher[w].due /\ fetcher'[w].latest = latest
          /\ \A v \in Worker \ {w} : fetcher'[v] = fetcher[v]
      BY <1>1, FetcherTypes DEF TypeOK
    <2>2. InHand(w)' = InHand(w)
      BY <2>1 DEF InHand
    <2>3. latest \in Nat
      BY <1>0 DEF TypeOK, CourtAssumptions
    <2>4. 1..latest \subseteq offered'[item.rec]
      <3>1. offered'[item.rec] = offered[item.rec] \cup ((item.cursor + 1)..latest)
        BY <1>0, <1>1 DEF TypeOK
      <3>2. 1..item.cursor \subseteq offered[item.rec]
        BY <1>0 DEF FetcherInv
      <3> QED
        BY <1>0, <2>3, <3>1, <3>2
    <2>5. \A i \in InHand(w) : i = item
      BY OneInHand
    <2>6. \A i \in fetcher[w].due : i.rec \in Record
      BY FetcherTypes DEF Items
    <2> QED
      BY <2>1, <2>2, <2>4, <2>5, <2>6 DEF FetcherInv
  <1>2. ASSUME fetcher' = [fetcher EXCEPT ![w].pc = "finish", ![w].abort = TRUE], UNCHANGED offered
        PROVE  FetcherInv(w)' /\ \A v \in Worker \ {w} : fetcher'[v] = fetcher[v]
    <2>1. /\ fetcher'[w].due = fetcher[w].due /\ fetcher'[w].pc = "finish"
          /\ \A v \in Worker \ {w} : fetcher'[v] = fetcher[v]
      BY <1>2, FetcherTypes DEF TypeOK
    <2> QED
      BY <1>2, <2>1 DEF FetcherInv
  <1> QED
    BY <1>1, <1>2, NextItemKeeps, Ended

\* Every step keeps what executions have read and are about to write.
LEMMA FetcherKeeps ==
    ASSUME IInv, CourtAssumptions, Next, NEW v \in Worker
    PROVE  FetcherInv(v)'
  <1> USE DEF IInv
  <1>0. \A r \in Record : offered[r] \subseteq offered'[r]
    BY OfferedGrows
  <1>1. CASE fetcher'[v] = fetcher[v] \/ fetcher'[v] = [fetcher[v] EXCEPT !.zombie = TRUE]
    <2>1. CASE fetcher[v] = Idle /\ fetcher'[v] = fetcher[v]
      BY <2>1 DEF FetcherInv
    <2>2. CASE fetcher[v] # Idle
      BY <1>0, <1>1, <2>2, Elsewhere
    <2>3. CASE fetcher[v] = Idle /\ fetcher'[v] # fetcher[v]
      BY <1>1, <2>3 DEF Idle
    <2> QED
      BY <2>1, <2>2, <2>3
  <1>2. ASSUME NEW w \in Worker, HandlerStep(w) PROVE FetcherInv(v)'
    <2>0. fetcher[w] # Idle
      BY <1>2, Running DEF HandlerStep, ReadConnection, ReadDue, FetchAutos, MarkItemFetched, Finish
    <2>1. CASE ReadConnection(w)
      <3>1. CASE Succeed(w) \/ Fail(w)
        BY <1>1, <3>1, Ended
      <3>2. CASE Goto(w, "read")
        <4>1. /\ fetcher'[w].due = fetcher[w].due /\ fetcher'[w].pc = "read"
              /\ \A u \in Worker \ {w} : fetcher'[u] = fetcher[u]
          BY <2>0, <3>2, FetcherTypes DEF Goto, TypeOK
        <4>2. UNCHANGED offered
          BY <2>1 DEF ReadConnection, portalVars
        <4>3. FetcherInv(w)'
          BY <2>0, <4>1, <4>2 DEF FetcherInv
        <4> QED
          BY <1>1, <4>1, <4>3
      <3> QED
        BY <2>1, <3>1, <3>2 DEF ReadConnection
    <2>2. CASE ReadDue(w)
      BY <1>1, <2>0, <2>2, ListedKeeps
    <2>3. CASE FetchAutos(w)
      BY <1>0, <1>1, <2>0, <2>3, FetchedKeeps
    <2>4. CASE MarkItemFetched(w)
      <3>1. \/ Succeed(w) \/ Fail(w)
            \/ \E item, retry : NextItem(w, item, retry)
        BY <2>4 DEF MarkItemFetched
      <3> QED
        BY <1>0, <1>1, <2>0, <3>1, NextItemKeeps, Ended
    <2>5. CASE Finish(w)
      BY <1>1, <2>5, Ended DEF Finish
    <2> QED
      BY <1>2, <2>1, <2>2, <2>3, <2>4, <2>5 DEF HandlerStep
  <1>3. ASSUME NEW w \in Worker, NEW id \in Id, Take(w, id) PROVE FetcherInv(v)'
    <2>1. \A u \in Worker \ {w} : fetcher'[u] = fetcher[u]
      BY <1>3 DEF Take, TypeOK
    <2>2. fetcher'[w].due = {} /\ fetcher'[w].pc = "conn"
      BY <1>3 DEF Take, TypeOK
    <2>3. FetcherInv(w)'
      BY <2>2 DEF FetcherInv
    <2> QED
      BY <1>1, <2>1, <2>3
  <1>4. ASSUME NEW w \in Worker, Crash(w) PROVE FetcherInv(v)'
    BY <1>1, <1>4, Ended DEF Crash
  <1>5. ASSUME NEW w \in Worker, LeaseExpires(w) PROVE FetcherInv(v)'
    BY <1>1, <1>5 DEF LeaseExpires, TypeOK
  <1>6. CASE UNCHANGED fetcher
    BY <1>1, <1>6
  <1>7. ASSUME NEW s \in Session,
               \/ \E pc \in {"connect", "seed"} : BeginConnect(s, pc)
               \/ finalizeConnect(s)
               \/ RequestFails(s)
               \/ \E r \in Record : BeginObserve(s, r)
               \/ UpsertObserved(s)
        PROVE  FetcherInv(v)'
    BY <1>6, <1>7 DEF BeginConnect, finalizeConnect, RequestFails, BeginObserve, UpsertObserved
  <1>8. ASSUME (\E r \in Record : CourtMoves(r)) \/ (\E id \in Id : Relay(id))
        PROVE  FetcherInv(v)'
    BY <1>6, <1>8 DEF CourtMoves, Relay
  <1> QED
    BY <1>2, <1>3, <1>4, <1>5, <1>7, <1>8 DEF Next
-----------------------------------------------------------------------------
(* The cursor.                                                             *)

\* Only MarkItemFetched writes a cursor: the newest event of its own fetch.
LEMMA CursorKeeps ==
    ASSUME IInv, CourtAssumptions, Next
    PROVE  CursorPassesNothing'
  <1> USE DEF IInv, rowVars
  <1>0. \A r \in Record : offered[r] \subseteq offered'[r]
    BY OfferedGrows
  <1>1. CASE UNCHANGED cursor
    BY <1>0, <1>1 DEF CursorPassesNothing
  <1>2. ASSUME NEW w \in Worker, MarkItemFetched(w) PROVE CursorPassesNothing'
    <2>0. fetcher[w] # Idle /\ fetcher[w].pc = "mark"
      BY <1>2, Running DEF MarkItemFetched
    <2>1. CASE UNCHANGED cursor
      BY <1>1, <2>1
    <2>2. CASE cursor' # cursor
      <3> PICK item \in InHand(w) : cursor' = [cursor EXCEPT ![item.rec] = fetcher[w].latest]
        BY <1>2, <2>2 DEF MarkItemFetched, LatestCursor
      <3>1. 1..fetcher[w].latest \subseteq offered[item.rec]
        BY <2>0 DEF FetcherInv
      <3> QED
        BY <1>0, <3>1 DEF CursorPassesNothing, TypeOK
    <2> QED
      BY <2>1, <2>2
  <1>3. ASSUME NEW w \in Worker,
               ReadConnection(w) \/ ReadDue(w) \/ FetchAutos(w) \/ Finish(w)
        PROVE  UNCHANGED cursor
    BY <1>3 DEF ReadConnection, ReadDue, FetchAutos, Finish
  <1>4. ASSUME NEW s \in Session,
               \/ \E pc \in {"connect", "seed"} : BeginConnect(s, pc)
               \/ finalizeConnect(s)
               \/ RequestFails(s)
               \/ \E r \in Record : BeginObserve(s, r)
               \/ UpsertObserved(s)
        PROVE  UNCHANGED cursor
    BY <1>4 DEF BeginConnect, finalizeConnect, RequestFails, BeginObserve, UpsertObserved
  <1>5. ASSUME \/ \E r \in Record : CourtMoves(r)
               \/ \E id \in Id : Relay(id)
               \/ \E w \in Worker : (\E id \in Id : Take(w, id)) \/ Crash(w) \/ LeaseExpires(w)
        PROVE  UNCHANGED cursor
    BY <1>5 DEF CourtMoves, Relay, Take, Crash, LeaseExpires
  <1> QED
    BY <1>1, <1>2, <1>3, <1>4, <1>5 DEF Next, HandlerStep

-----------------------------------------------------------------------------
(* The list of a batch.                                                    *)

\* A set of naturals has a least element.
LEMMA Least ==
    ASSUME NEW S \in SUBSET Nat, S # {}
    PROVE  \E m \in S : \A n \in S : m <= n
  <1>1. IsWellFoundedOn(OpToRel(<, Nat), Nat)
    BY NatLessThanWellFounded
  <1>2. PICK m \in S : \A n \in S : ~(<<n, m>> \in OpToRel(<, Nat))
    BY <1>1, WFMin
  <1>3. \A n \in S : <<n, m>> \in OpToRel(<, Nat) <=> n < m
    BY DEF OpToRel
  <1>4. \A n \in S : ~(n < m)
    BY <1>2, <1>3, Zenon
  <1> QED
    BY <1>4

\* Of some records one was observed first, and one last.
LEMMA Oldest ==
    ASSUME TypeOK, CourtAssumptions, NEW S \in SUBSET Record, S # {}
    PROVE  \E m \in S : \A q \in S : observed[m] <= observed[q]
  <1> DEFINE stamps == {observed[r] : r \in S}
  <1>1. stamps \in SUBSET Nat /\ stamps # {}
    BY DEF TypeOK, CourtAssumptions
  <1>2. PICK n \in stamps : \A k \in stamps : n <= k
    <2> HIDE DEF stamps
    <2> QED
      BY <1>1, Least
  <1> QED
    BY <1>2

LEMMA Youngest ==
    ASSUME TypeOK, CourtAssumptions, NEW S \in SUBSET Record, S # {}
    PROVE  \E m \in S : \A q \in S : observed[q] <= observed[m]
  <1> DEFINE ages == {MaxObservations - observed[r] : r \in S}
  <1>0. MaxObservations \in Nat /\ \A r \in S : observed[r] \in 0..MaxObservations
    BY DEF TypeOK, CourtAssumptions
  <1>1. ages \in SUBSET Nat /\ ages # {}
    BY <1>0
  <1>2. PICK n \in ages : \A k \in ages : n <= k
    <2> HIDE DEF ages
    <2> QED
      BY <1>1, Least
  <1>3. PICK m \in S : n = MaxObservations - observed[m]
    BY <1>2
  <1>4. \A q \in S : MaxObservations - observed[m] <= MaxObservations - observed[q]
    BY <1>2, <1>3
  <1> QED
    BY <1>0, <1>4

\* The due records observed before r.
Before(r) == {q \in Due : observed[q] < observed[r]}

\* Observations are bounded and stamp one record, so few records are due.
LEMMA DueIsFinite ==
    ASSUME TypeOK, StampInv, CourtAssumptions
    PROVE  /\ IsFiniteSet(Due)
           /\ \A S \in SUBSET Due : IsFiniteSet(S) /\ Cardinality(S) \in Nat
           /\ \A r \in Record : rank(r) = Cardinality(Before(r)) /\ rank(r) \in Nat
  <1>1. IsFiniteSet(Due)
    <2> DEFINE stamp == [r \in Due |-> observed[r]]
    <2>1. stamp \in [Due -> 0..MaxObservations]
      BY DEF Due, TypeOK
    <2>2. \A r, q \in Due : stamp[r] = stamp[q] => r = q
      BY DEF Due, StampInv, TypeOK
    <2>3. stamp \in Injection(Due, 0..MaxObservations)
      BY <2>1, <2>2 DEF Injection, IsInjective
    <2>4. IsFiniteSet(0..MaxObservations)
      BY FS_Interval DEF CourtAssumptions
    <2> QED
      BY <2>3, <2>4, FS_Injection
  <1>2. \A S \in SUBSET Due : IsFiniteSet(S) /\ Cardinality(S) \in Nat
    BY <1>1, FS_Subset, FS_CardinalityType
  <1>3. \A r : rank(r) = Cardinality(Before(r)) /\ Before(r) \in SUBSET Due
    BY DEF rank, Before
  <1> QED
    BY <1>1, <1>2, <1>3

\* A record of a lower place was observed before.
LEMMA RankOrders ==
    ASSUME TypeOK, StampInv, CourtAssumptions, NEW p \in Due, NEW q \in Due, rank(p) < rank(q)
    PROVE  observed[p] < observed[q]
  <1> SUFFICES ASSUME observed[q] <= observed[p] PROVE FALSE
    BY DEF Due, TypeOK, CourtAssumptions
  <1>1. Before(q) \subseteq Before(p)
    BY DEF Before, Due, TypeOK, CourtAssumptions
  <1>2. IsFiniteSet(Before(p)) /\ Before(p) \in SUBSET Due
    BY DueIsFinite DEF Before
  <1>3. Cardinality(Before(q)) <= Cardinality(Before(p))
    BY <1>1, <1>2, FS_Subset
  <1> QED
    BY <1>3, DueIsFinite DEF Due

\* While more is due than a batch takes, its list says so.
LEMMA ListSaysMore ==
    ASSUME TypeOK, StampInv, CourtAssumptions, NEW r \in Due, rank(r) >= BatchSize
    PROVE  \E q \in ListDue : rank(q) >= BatchSize
  <1> DEFINE Late == {p \in Due : rank(p) >= BatchSize}
             Early == {p \in Due : rank(p) < BatchSize}
  <1>0. /\ Due \subseteq Record /\ BatchSize \in Nat /\ BatchSize > 0
        /\ \A p \in Due : rank(p) \in Nat /\ observed[p] \in Nat
    BY DueIsFinite DEF Due, TypeOK, CourtAssumptions
  <1>1. PICK q \in Late : \A p \in Late : observed[q] <= observed[p]
    <2>1. Late \in SUBSET Record /\ Late # {}
      BY <1>0
    <2> HIDE DEF Late
    <2> QED
      BY <2>1, Oldest
  <1>2. Before(q) = Early
    <2>1. \A p \in Due : observed[p] < observed[q] => rank(p) < BatchSize
      BY <1>0, <1>1
    <2>2. \A p \in Due : rank(p) < BatchSize => observed[p] < observed[q]
      <3> SUFFICES ASSUME NEW p \in Due, rank(p) < BatchSize PROVE observed[p] < observed[q]
        OBVIOUS
      <3>1. rank(p) < rank(q)
        BY <1>0, <1>1
      <3> QED
        BY <1>1, <3>1, RankOrders
    <2> QED
      BY <2>1, <2>2 DEF Before
  <1>3. rank(q) = Cardinality(Early)
    BY <1>0, <1>1, <1>2, DueIsFinite
  <1>4. Early # {}
    BY <1>0, <1>1, <1>3, FS_EmptySet
  <1>5. PICK m \in Early : \A p \in Early : observed[p] <= observed[m]
    <2>1. Early \in SUBSET Record
      BY <1>0
    <2> HIDE DEF Early
    <2> QED
      BY <1>4, <2>1, Youngest
  <1>6. Before(m) = Early \ {m}
    <2>1. \A p \in Due : observed[p] < observed[m] => p \in Early /\ p # m
      <3> SUFFICES ASSUME NEW p \in Due, observed[p] < observed[m] PROVE p \in Early /\ p # m
        OBVIOUS
      <3>1. observed[m] < observed[q]
        BY <1>2, <1>5 DEF Before
      <3> QED
        BY <1>0, <1>2, <1>5, <3>1 DEF Before
    <2>2. \A p \in Early : p # m => observed[p] < observed[m]
      BY <1>0, <1>5 DEF StampInv, Due
    <2> QED
      BY <2>1, <2>2 DEF Before
  <1>7. rank(m) = Cardinality(Early) - 1
    <2>1. IsFiniteSet(Early)
      BY DueIsFinite
    <2>2. Cardinality(Early \ {m}) = Cardinality(Early) - 1
      BY <1>5, <2>1, FS_RemoveElement
    <2> QED
      BY <1>0, <1>5, <1>6, <2>2, DueIsFinite
  <1>8. rank(q) <= BatchSize
    BY <1>0, <1>1, <1>3, <1>5, <1>7
  <1> QED
    BY <1>1, <1>8 DEF ListDue

\* A batch lists something while something is due.
LEMMA ListIsNotEmpty ==
    ASSUME TypeOK, StampInv, CourtAssumptions, Due # {}
    PROVE  \E q \in ListDue : rank(q) < BatchSize
  <1>0. Due \subseteq Record /\ BatchSize \in Nat /\ BatchSize > 0
    BY DEF Due, CourtAssumptions
  <1>1. PICK q \in Due : \A p \in Due : observed[q] <= observed[p]
    BY <1>0, Oldest
  <1>2. Before(q) = {}
    BY <1>0, <1>1 DEF Before, TypeOK, CourtAssumptions
  <1>3. rank(q) = 0
    BY <1>0, <1>1, <1>2, DueIsFinite, FS_EmptySet
  <1> QED
    BY <1>0, <1>1, <1>3 DEF ListDue
-----------------------------------------------------------------------------
(* What is due is on its way.                                              *)

\* asynq waits for the answer of w.
Awaited(w) == fetcher[w] # Idle /\ ~fetcher[w].zombie

\* A task runs under the one execution whose answer counts.
TaskInv ==
    /\ \A w \in Worker : Awaited(w) => fetchTask[fetcher[w].of].state = "running"
    /\ \A w, v \in Worker : Awaited(w) /\ Awaited(v) /\ fetcher[w].of = fetcher[v].of => w = v

\* An item's execution has its own record and nothing to ask for; a batch
\* ends with an empty list unless it was cut short.
ListInv(w) ==
    fetcher[w] # Idle =>
        /\ ~IsBatch(fetcher[w].of) =>
              /\ ~fetcher[w].more /\ fetcher[w].retry = {}
              /\ \A i \in fetcher[w].due : i.rec = fetcher[w].of[2]
        /\ fetcher[w].pc = "finish" /\ ~fetcher[w].abort => fetcher[w].due = {}

\* A task with this id would list r.
Lists(id, r) == IsBatch(id) \/ id = Item(r)

\* A task that would list r is published or queued.
Waits(r) == \E id \in Id : Lists(id, r) /\ (outbox[id] > 0 \/ fetchTask[id].state = "queued")

\* The execution of w will list r, has it in its list, or will ask for it.
Carries(w, r) ==
    /\ Awaited(w)
    /\ IF fetcher[w].pc \in {"conn", "read"}
       THEN Lists(fetcher[w].of, r)
       ELSE \/ \E i \in fetcher[w].due : i.rec = r
            \/ fetcher[w].more
            \/ r \in fetcher[w].retry

OnItsWay(r) == Waits(r) \/ \E w \in Worker : Carries(w, r)

\* What is due and was not left behind is on its way.
ServedInv == \A r \in Due \ stranded : OnItsWay(r)

\* Of its execution w a step changes neither the task nor who waits for it.
Stays(w) ==
    /\ fetcher[w] # Idle /\ fetcher'[w] # Idle
    /\ fetcher'[w].of = fetcher[w].of /\ fetcher'[w].zombie = fetcher[w].zombie
    /\ \A v \in Worker \ {w} : fetcher'[v] = fetcher[v]
    /\ UNCHANGED fetchTask

\* The execution of w is no longer awaited, and only its own task changed.
Leaves(w) ==
    /\ fetcher[w] # Idle
    /\ ~Awaited(w)'
    /\ \A v \in Worker \ {w} : fetcher'[v] = fetcher[v]
    /\ \A id \in Id : id # fetcher[w].of \/ fetcher[w].zombie => fetchTask'[id] = fetchTask[id]

\* The fields of an execution that goes on: at its next place,
LEMMA GoesTo ==
    ASSUME TypeOK, NEW w \in Worker, fetcher[w] # Idle, UNCHANGED fetchTask, Goto(w, "read")
    PROVE  /\ Stays(w) /\ fetcher'[w].pc = "read"
           /\ fetcher'[w].due = fetcher[w].due /\ fetcher'[w].more = fetcher[w].more
           /\ fetcher'[w].retry = fetcher[w].retry
  BY FetcherTypes DEF Goto, TypeOK, Stays, Idle

\* with the docket of an item,
LEMMA GoesOnFetched ==
    ASSUME TypeOK, NEW w \in Worker, fetcher[w] # Idle, UNCHANGED fetchTask, NEW latest,
           fetcher' = [fetcher EXCEPT ![w].pc = "mark", ![w].latest = latest]
    PROVE  /\ Stays(w) /\ fetcher'[w].pc = "mark"
           /\ fetcher'[w].due = fetcher[w].due /\ fetcher'[w].more = fetcher[w].more
           /\ fetcher'[w].retry = fetcher[w].retry
  BY FetcherTypes DEF TypeOK, Stays, Idle

\* cut short,
LEMMA GoesOnAborted ==
    ASSUME TypeOK, NEW w \in Worker, fetcher[w] # Idle, UNCHANGED fetchTask,
           fetcher' = [fetcher EXCEPT ![w].pc = "finish", ![w].abort = TRUE]
    PROVE  /\ Stays(w) /\ fetcher'[w].pc = "finish" /\ fetcher'[w].abort
           /\ fetcher'[w].due = fetcher[w].due /\ fetcher'[w].more = fetcher[w].more
           /\ fetcher'[w].retry = fetcher[w].retry
  BY FetcherTypes DEF TypeOK, Stays, Idle

\* or with its next item.
LEMMA GoesOnNext ==
    ASSUME TypeOK, NEW w \in Worker, fetcher[w] # Idle, UNCHANGED fetchTask,
           NEW item, NEW retry, NextItem(w, item, retry)
    PROVE  /\ Stays(w) /\ fetcher'[w].pc \in {"finish", "fetch"}
           /\ fetcher'[w].pc = "finish" => fetcher'[w].due = {}
           /\ fetcher'[w].due = fetcher[w].due \ {item} /\ fetcher'[w].retry = retry
           /\ fetcher'[w].more = fetcher[w].more
  <1> PICK pc \in {"finish", "fetch"} :
        /\ fetcher' = [fetcher EXCEPT ![w].due = fetcher[w].due \ {item}, ![w].retry = retry,
                                      ![w].latest = 0, ![w].pc = pc]
        /\ pc = "finish" => fetcher[w].due = {item}
    BY DEF NextItem
  <1> QED
    BY FetcherTypes DEF TypeOK, Stays, Idle

\* An execution that answers, crashes or loses its lease leaves.
LEMMA GoesAway ==
    ASSUME TypeOK, NEW w \in Worker, fetcher[w] # Idle,
           \/ Succeed(w)
           \/ Fail(w)
           \/ /\ fetcher' = [fetcher EXCEPT ![w].zombie = TRUE]
              /\ ~fetcher[w].zombie
              /\ Retry(fetcher[w].of)
    PROVE  Leaves(w) /\ (fetcher'[w] = Idle \/ fetcher'[w] = [fetcher[w] EXCEPT !.zombie = TRUE])
  <1>1. fetcher[w].of \in Id /\ fetcher[w].zombie \in BOOLEAN
    BY FetcherTypes
  <1>2. CASE Succeed(w)
    BY <1>1, <1>2 DEF Succeed, TypeOK, Leaves, Awaited
  <1>3. CASE Fail(w)
    BY <1>1, <1>3 DEF Fail, Retry, TypeOK, Leaves, Awaited
  <1>4. CASE /\ fetcher' = [fetcher EXCEPT ![w].zombie = TRUE]
             /\ ~fetcher[w].zombie
             /\ Retry(fetcher[w].of)
    <2>1. fetcher'[w].zombie
      BY <1>4, FetcherTypes DEF TypeOK
    <2> QED
      BY <1>1, <1>4, <2>1 DEF Retry, TypeOK, Leaves, Awaited
  <1> QED
    BY <1>2, <1>3, <1>4

\* What a batch lists, and an item.
LEMMA Listed ==
    ASSUME TypeOK, NEW w \in Worker, fetcher[w] # Idle, ReadDue(w)
    PROVE  \/ Fail(w)
           \/ Succeed(w) /\ UNCHANGED stranded /\ IsBatch(fetcher[w].of)
                         /\ {r \in ListDue : rank(r) < BatchSize} = {}
           \/ /\ Stays(w) /\ UNCHANGED stranded
              /\ fetcher'[w].pc = "fetch" /\ fetcher'[w].retry = fetcher[w].retry
              /\ \E rows :
                    /\ rows = IF IsBatch(fetcher[w].of) THEN {r \in ListDue : rank(r) < BatchSize}
                                                        ELSE {fetcher[w].of[2]}
                    /\ fetcher'[w].due = {FetchStateItem(r) : r \in rows}
                    /\ fetcher'[w].more = (IsBatch(fetcher[w].of) /\ rows # ListDue)
  <1> PICK rows :
        rows = IF IsBatch(fetcher[w].of) THEN {r \in ListDue : rank(r) < BatchSize}
                                         ELSE {fetcher[w].of[2]}
    OBVIOUS
  <1> PICK list : list = {FetchStateItem(r) : r \in rows}
    OBVIOUS
  <1> PICK more : more = (IsBatch(fetcher[w].of) /\ rows # ListDue)
    OBVIOUS
  <1>1. \/ Fail(w)
        \/ rows = {} /\ Succeed(w) /\ UNCHANGED stranded
        \/ /\ fetcher' = [fetcher EXCEPT ![w].pc = "fetch", ![w].due = list, ![w].more = more]
           /\ UNCHANGED <<fetchTask, stranded>>
    BY DEF ReadDue
  <1>2. rows = {} => IsBatch(fetcher[w].of) /\ {r \in ListDue : rank(r) < BatchSize} = {}
    OBVIOUS
  <1>3. CASE /\ fetcher' = [fetcher EXCEPT ![w].pc = "fetch", ![w].due = list, ![w].more = more]
             /\ UNCHANGED <<fetchTask, stranded>>
    <2>1. /\ Stays(w) /\ fetcher'[w].pc = "fetch" /\ fetcher'[w].due = list
          /\ fetcher'[w].more = more /\ fetcher'[w].retry = fetcher[w].retry
      <3>1. /\ fetcher' = [fetcher EXCEPT ![w].pc = "fetch", ![w].due = list, ![w].more = more]
            /\ UNCHANGED fetchTask
        BY <1>3
      <3> HIDE <1>1, <1>2, <1>3
      <3> QED
        BY <3>1, FetcherTypes DEF TypeOK, Stays, Idle
    <2>2. fetcher'[w].due = {FetchStateItem(r) : r \in rows}
      BY <2>1
    <2>3. fetcher'[w].more = (IsBatch(fetcher[w].of) /\ rows # ListDue)
      BY <2>1
    <2>4. /\ Stays(w) /\ UNCHANGED stranded
          /\ fetcher'[w].pc = "fetch" /\ fetcher'[w].retry = fetcher[w].retry
      BY <1>3, <2>1
    <2> QED
      BY <2>2, <2>3, <2>4, Zenon
  <1> QED
    BY <1>1, <1>2, <1>3

\* What FetchAutos does with the item in hand.
LEMMA Fetched ==
    ASSUME TypeOK, NEW w \in Worker, fetcher[w] # Idle, FetchAutos(w)
    PROVE  \/ Fail(w)
           \/ /\ Stays(w) /\ UNCHANGED stranded
              /\ fetcher'[w].more = fetcher[w].more
              /\ \/ /\ \/ fetcher'[w].pc = "mark"
                       \/ fetcher'[w].pc = "finish" /\ fetcher'[w].abort
                    /\ fetcher'[w].due = fetcher[w].due /\ fetcher'[w].retry = fetcher[w].retry
                 \/ /\ IsBatch(fetcher[w].of)
                    /\ fetcher'[w].pc \in {"finish", "fetch"}
                    /\ fetcher'[w].pc = "finish" => fetcher'[w].due = {}
                    /\ \E item \in InHand(w) :
                          /\ fetcher'[w].due = fetcher[w].due \ {item}
                          /\ fetcher'[w].retry = fetcher[w].retry \cup {item.rec}
  <1> PICK item \in InHand(w) :
        \/ /\ \E latest \in {0, docket[item.rec]} :
                 fetcher' = [fetcher EXCEPT ![w].pc = "mark", ![w].latest = latest]
           /\ UNCHANGED <<fetchTask, stranded>>
        \/ /\ fetcher' = [fetcher EXCEPT ![w].pc = "finish", ![w].abort = TRUE]
           /\ UNCHANGED <<fetchTask, stranded>>
        \/ /\ IsBatch(fetcher[w].of)
           /\ NextItem(w, item, fetcher[w].retry \cup {item.rec})
           /\ UNCHANGED <<fetchTask, stranded>>
        \/ Fail(w)
    BY DEF FetchAutos
  <1>1. ASSUME NEW latest, fetcher' = [fetcher EXCEPT ![w].pc = "mark", ![w].latest = latest],
               UNCHANGED fetchTask
        PROVE  /\ Stays(w) /\ fetcher'[w].pc = "mark" /\ fetcher'[w].more = fetcher[w].more
               /\ fetcher'[w].due = fetcher[w].due /\ fetcher'[w].retry = fetcher[w].retry
    BY <1>1, GoesOnFetched
  <1>2. ASSUME fetcher' = [fetcher EXCEPT ![w].pc = "finish", ![w].abort = TRUE],
               UNCHANGED fetchTask
        PROVE  /\ Stays(w) /\ fetcher'[w].pc = "finish" /\ fetcher'[w].abort
               /\ fetcher'[w].more = fetcher[w].more
               /\ fetcher'[w].due = fetcher[w].due /\ fetcher'[w].retry = fetcher[w].retry
    BY <1>2, GoesOnAborted
  <1>3. ASSUME NextItem(w, item, fetcher[w].retry \cup {item.rec}), UNCHANGED fetchTask
        PROVE  /\ Stays(w) /\ fetcher'[w].pc \in {"finish", "fetch"}
               /\ fetcher'[w].pc = "finish" => fetcher'[w].due = {}
               /\ fetcher'[w].due = fetcher[w].due \ {item}
               /\ fetcher'[w].retry = fetcher[w].retry \cup {item.rec}
               /\ fetcher'[w].more = fetcher[w].more
    BY <1>3, GoesOnNext
  <1> QED
    BY <1>1, <1>2, <1>3

\* What markItemFetched does.
LEMMA Marked ==
    ASSUME TypeOK, NEW w \in Worker, fetcher[w] # Idle, MarkItemFetched(w)
    PROVE  \/ Fail(w) /\ UNCHANGED fetched
           \/ \E item \in InHand(w) :
                 /\ fetched' = [fetched EXCEPT ![item.rec] = clock]
                 /\ stranded' = stranded \ {item.rec}
                 /\ \/ ~IsBatch(fetcher[w].of) /\ Succeed(w)
                    \/ /\ IsBatch(fetcher[w].of) /\ Stays(w)
                       /\ fetcher'[w].more = fetcher[w].more
                       /\ fetcher'[w].retry = fetcher[w].retry
                       /\ fetcher'[w].pc \in {"finish", "fetch"}
                       /\ fetcher'[w].pc = "finish" => fetcher'[w].due = {}
                       /\ fetcher'[w].due = fetcher[w].due \ {item}
  <1>1. CASE Fail(w) /\ UNCHANGED fetched
    BY <1>1
  <1>2. ASSUME NEW item \in InHand(w), NextItem(w, item, fetcher[w].retry), UNCHANGED fetchTask
        PROVE  /\ Stays(w) /\ fetcher'[w].pc \in {"finish", "fetch"}
               /\ fetcher'[w].pc = "finish" => fetcher'[w].due = {}
               /\ fetcher'[w].due = fetcher[w].due \ {item}
               /\ fetcher'[w].retry = fetcher[w].retry /\ fetcher'[w].more = fetcher[w].more
    BY <1>2, GoesOnNext
  <1> QED
    BY <1>1, <1>2 DEF MarkItemFetched
-----------------------------------------------------------------------------
(* The tasks and the lists.                                                *)

\* The ids have their two shapes.
LEMMA ItemIds ==
    /\ \A id \in Id : ~IsBatch(id) => id = Item(id[2])
    /\ \A r : ~IsBatch(Item(r)) /\ Item(r)[2] = r
    /\ \A k : IsBatch(Batch(k))
  BY DEF Id, IsBatch, Batch, Item

\* A task that is given back is queued or archived.
LEMMA RetriedStates == \A t \in Task : Retried(t).state \in {"queued", "archived"}
  BY DEF Retried, Task

\* An execution that stays keeps the tie with its task.
LEMMA TaskStays ==
    ASSUME TypeOK, TaskInv, NEW w \in Worker, Stays(w)
    PROVE  TaskInv'
  <1>1. \A v \in Worker : fetcher'[v].of = fetcher[v].of /\ (Awaited(v)' <=> Awaited(v))
    BY DEF Stays, Awaited
  <1> QED
    BY <1>1 DEF TaskInv, Stays

\* One that leaves takes its own task only, and its task has no other.
LEMMA TaskLeaves ==
    ASSUME TypeOK, TaskInv, NEW w \in Worker, Leaves(w)
    PROVE  TaskInv'
  <1>1. \A v \in Worker : Awaited(v)' => v # w /\ fetcher'[v] = fetcher[v] /\ Awaited(v)
    BY DEF Leaves, Awaited
  <1>2. \A v \in Worker : Awaited(v)' => fetchTask'[fetcher[v].of] = fetchTask[fetcher[v].of]
    <2> SUFFICES ASSUME NEW v \in Worker, Awaited(v)'
                 PROVE  fetchTask'[fetcher[v].of] = fetchTask[fetcher[v].of]
      OBVIOUS
    <2>1. fetcher[v].of \in Id
      BY <1>1, FetcherTypes DEF Awaited
    <2>2. CASE fetcher[w].zombie
      BY <2>1, <2>2 DEF Leaves
    <2>3. CASE ~fetcher[w].zombie
      <3>1. Awaited(w) /\ Awaited(v) /\ v # w
        BY <1>1, <2>3 DEF Leaves, Awaited
      <3>2. fetcher[v].of # fetcher[w].of
        BY <3>1 DEF TaskInv
      <3> QED
        BY <2>1, <3>2 DEF Leaves
    <2> QED
      BY <2>2, <2>3
  <1> QED
    BY <1>1, <1>2 DEF TaskInv

\* What a step of the handler does to its execution.
LEMMA HandlerMoves ==
    ASSUME TypeOK, NEW w \in Worker, HandlerStep(w)
    PROVE  Stays(w) \/ Leaves(w)
  <1>0. fetcher[w] # Idle
    BY Running DEF HandlerStep, ReadConnection, ReadDue, FetchAutos, MarkItemFetched, Finish
  <1>1. CASE ReadConnection(w)
    BY <1>0, <1>1, GoesTo, GoesAway DEF ReadConnection
  <1>2. CASE ReadDue(w)
    BY <1>0, <1>2, Listed, GoesAway
  <1>3. CASE FetchAutos(w)
    BY <1>0, <1>3, Fetched, GoesAway
  <1>4. CASE MarkItemFetched(w)
    BY <1>0, <1>4, Marked, GoesAway
  <1>5. CASE Finish(w)
    BY <1>0, <1>5, GoesAway DEF Finish
  <1> QED
    BY <1>1, <1>2, <1>3, <1>4, <1>5 DEF HandlerStep

\* A worker that takes a task is the first it has.
LEMMA TaskTaken ==
    ASSUME TypeOK, TaskInv, NEW w \in Worker, NEW id \in Id, Take(w, id)
    PROVE  TaskInv'
  <1>1. /\ fetcher[w] = Idle /\ fetcher'[w].of = id
        /\ \A v \in Worker \ {w} : fetcher'[v] = fetcher[v]
    BY DEF Take, TypeOK
  <1>2. /\ fetchTask[id].state = "queued" /\ fetchTask'[id].state = "running"
        /\ \A i \in Id \ {id} : fetchTask'[i] = fetchTask[i]
    BY TaskTypes DEF Take, TypeOK, Task
  <1>3. \A v \in Worker \ {w} : Awaited(v)' => Awaited(v) /\ fetcher[v].of \in Id /\ fetcher[v].of # id
    <2> SUFFICES ASSUME NEW v \in Worker \ {w}, Awaited(v)'
                 PROVE  Awaited(v) /\ fetcher[v].of \in Id /\ fetcher[v].of # id
      OBVIOUS
    <2>1. Awaited(v)
      BY <1>1 DEF Awaited
    <2> QED
      BY <1>2, <2>1, FetcherTypes DEF Awaited, TaskInv
  <1> QED
    BY <1>1, <1>2, <1>3 DEF TaskInv

\* Every step keeps the tie of tasks and executions.
LEMMA TaskKeeps ==
    ASSUME TypeOK, TaskInv, Next
    PROVE  TaskInv'
  <1>1. CASE UNCHANGED <<fetcher, fetchTask>>
    BY <1>1 DEF TaskInv, Awaited
  <1>2. ASSUME NEW s \in Session,
               \/ \E pc \in {"connect", "seed"} : BeginConnect(s, pc)
               \/ finalizeConnect(s)
               \/ RequestFails(s)
               \/ \E r \in Record : BeginObserve(s, r)
               \/ UpsertObserved(s)
        PROVE  TaskInv'
    BY <1>1, <1>2 DEF BeginConnect, finalizeConnect, RequestFails, BeginObserve, UpsertObserved
  <1>3. ASSUME NEW r \in Record, CourtMoves(r) PROVE TaskInv'
    BY <1>1, <1>3 DEF CourtMoves
  <1>4. ASSUME NEW id \in Id, Relay(id) PROVE TaskInv'
    <2>1. UNCHANGED fetcher
      BY <1>4 DEF Relay
    <2>2. \A i \in Id : fetchTask'[i] = fetchTask[i] \/ fetchTask[i] = NoTask
      BY <1>4 DEF Relay, TypeOK
    <2>3. \A v \in Worker : Awaited(v) => fetcher[v].of \in Id
      BY FetcherTypes DEF Awaited
    <2> QED
      BY <2>1, <2>2, <2>3 DEF TaskInv, Awaited, NoTask
  <1>5. ASSUME NEW w \in Worker, Crash(w) \/ LeaseExpires(w) PROVE TaskInv'
    BY <1>5, GoesAway, TaskLeaves DEF Crash, LeaseExpires
  <1> QED
    BY <1>2, <1>3, <1>4, <1>5, TaskTaken, HandlerMoves, TaskStays, TaskLeaves DEF Next

\* An execution that ends or turns into a zombie keeps its list.
LEMMA ListGoesAway ==
    ASSUME TypeOK, NEW v \in Worker, ListInv(v),
           fetcher'[v] \in {Idle, fetcher[v], [fetcher[v] EXCEPT !.zombie = TRUE]}
    PROVE  ListInv(v)'
  <1>1. CASE fetcher[v] = Idle
    BY <1>1 DEF ListInv, Idle
  <1>2. CASE fetcher[v] # Idle /\ fetcher'[v] # Idle
    <2>1. /\ fetcher'[v].of = fetcher[v].of /\ fetcher'[v].due = fetcher[v].due
          /\ fetcher'[v].more = fetcher[v].more /\ fetcher'[v].retry = fetcher[v].retry
          /\ fetcher'[v].pc = fetcher[v].pc /\ fetcher'[v].abort = fetcher[v].abort
      BY <1>2, FetcherTypes
    <2> QED
      BY <1>2, <2>1 DEF ListInv
  <1>3. CASE fetcher'[v] = Idle
    BY <1>3 DEF ListInv
  <1> QED
    BY <1>1, <1>2, <1>3

\* Every step keeps the lists.
LEMMA ListKeeps ==
    ASSUME TypeOK, NEW v \in Worker, ListInv(v), Next
    PROVE  ListInv(v)'
  <1>1. ASSUME NEW w \in Worker, fetcher[w] # Idle, Succeed(w) \/ Fail(w) PROVE ListInv(v)'
    BY <1>1, ListGoesAway DEF Succeed, Fail, TypeOK
  <1>2. ASSUME NEW w \in Worker, Stays(w), v # w PROVE ListInv(v)'
    BY <1>2, ListGoesAway DEF Stays
  <1>3. ASSUME HandlerStep(v) PROVE ListInv(v)'
    <2>0. fetcher[v] # Idle
      BY <1>3, Running DEF HandlerStep, ReadConnection, ReadDue, FetchAutos, MarkItemFetched, Finish
    <2>1. CASE ReadConnection(v)
      BY <1>1, <2>0, <2>1, GoesTo DEF ReadConnection, ListInv, Stays
    <2>2. CASE ReadDue(v)
      <3>1. CASE Succeed(v) \/ Fail(v)
        BY <1>1, <2>0, <3>1
      <3>2. CASE ~(Succeed(v) \/ Fail(v))
        <4>1. PICK rows :
                 /\ Stays(v) /\ fetcher'[v].pc = "fetch" /\ fetcher'[v].retry = fetcher[v].retry
                 /\ ~IsBatch(fetcher[v].of) => rows = {fetcher[v].of[2]}
                 /\ fetcher'[v].due = {FetchStateItem(r) : r \in rows}
                 /\ fetcher'[v].more = (IsBatch(fetcher[v].of) /\ rows # ListDue)
          BY <2>0, <2>2, <3>2, Listed
        <4>2. ~IsBatch(fetcher[v].of) => \A i \in fetcher'[v].due : i.rec = fetcher[v].of[2]
          BY <4>1 DEF FetchStateItem
        <4> QED
          BY <2>0, <4>1, <4>2 DEF ListInv, Stays
      <3> QED
        BY <3>1, <3>2
    <2>3. CASE FetchAutos(v)
      BY <1>1, <2>0, <2>3, Fetched DEF ListInv, Stays
    <2>4. CASE MarkItemFetched(v)
      BY <1>1, <2>0, <2>4, Marked DEF ListInv, Stays
    <2>5. CASE Finish(v)
      BY <1>1, <2>0, <2>5 DEF Finish
    <2> QED
      BY <1>3, <2>1, <2>2, <2>3, <2>4, <2>5 DEF HandlerStep
  <1>4. ASSUME NEW w \in Worker, v # w, HandlerStep(w) PROVE ListInv(v)'
    <2>1. fetcher'[v] = fetcher[v]
      BY <1>4, HandlerMoves DEF Stays, Leaves
    <2> QED
      BY <2>1, ListGoesAway
  <1>5. ASSUME NEW w \in Worker, NEW id \in Id, Take(w, id) PROVE ListInv(v)'
    <2>1. CASE v = w
      <3>1. fetcher'[v] = [pc |-> "conn", of |-> id, due |-> {}, more |-> FALSE,
                           retry |-> {}, latest |-> 0, abort |-> FALSE, zombie |-> FALSE]
        BY <1>5, <2>1 DEF Take, TypeOK
      <3> QED
        BY <3>1 DEF ListInv
    <2>2. CASE v # w
      BY <1>5, <2>2, ListGoesAway DEF Take, TypeOK
    <2> QED
      BY <2>1, <2>2
  <1>6. ASSUME NEW w \in Worker, Crash(w) \/ LeaseExpires(w) PROVE ListInv(v)'
    BY <1>1, <1>6, ListGoesAway DEF Crash, LeaseExpires, TypeOK
  <1>7. CASE UNCHANGED fetcher
    BY <1>7, ListGoesAway
  <1>8. ASSUME NEW s \in Session,
               \/ \E pc \in {"connect", "seed"} : BeginConnect(s, pc)
               \/ finalizeConnect(s)
               \/ RequestFails(s)
               \/ \E r \in Record : BeginObserve(s, r)
               \/ UpsertObserved(s)
        PROVE  ListInv(v)'
    BY <1>7, <1>8 DEF BeginConnect, finalizeConnect, RequestFails, BeginObserve, UpsertObserved
  <1>9. ASSUME (\E r \in Record : CourtMoves(r)) \/ (\E id \in Id : Relay(id)) PROVE ListInv(v)'
    BY <1>7, <1>9 DEF CourtMoves, Relay
  <1> QED
    BY <1>3, <1>4, <1>5, <1>6, <1>8, <1>9 DEF Next
-----------------------------------------------------------------------------
(* Nothing due is dropped but by the ways the code has.                    *)

\* What an execution carries, its task would list.
LEMMA CarriesListed ==
    ASSUME TypeOK, NEW w \in Worker, ListInv(w), NEW r, Carries(w, r)
    PROVE  fetcher[w].of \in Id /\ Lists(fetcher[w].of, r)
  <1>1. fetcher[w].of \in Id
    BY FetcherTypes DEF Carries, Awaited
  <1>2. CASE IsBatch(fetcher[w].of)
    BY <1>1, <1>2 DEF Lists
  <1>3. CASE ~IsBatch(fetcher[w].of)
    <2>1. fetcher[w].of = Item(fetcher[w].of[2])
      BY <1>1, <1>3, ItemIds
    <2>2. fetcher[w].of = Item(r)
      BY <1>3, <2>1 DEF Carries, Awaited, ListInv, Lists
    <2> QED
      BY <1>1, <2>2 DEF Lists
  <1> QED
    BY <1>2, <1>3

\* What a task would list and is due, it serves.
LEMMA ListedServed ==
    ASSUME NEW id \in Id, NEW r \in Due, Lists(id, r)
    PROVE  r \in Serves(id)
  BY ItemIds DEF Lists, Serves

\* A step of w leaves what others do for a record.
LEMMA OthersCarry ==
    ASSUME TypeOK, TaskInv, NEW w \in Worker, Stays(w) \/ Leaves(w),
           \A id \in Id : outbox[id] > 0 => outbox'[id] > 0,
           NEW r, OnItsWay(r)
    PROVE  OnItsWay(r)' \/ Carries(w, r)
  <1>0. /\ fetcher[w] # Idle /\ fetcher[w].of \in Id /\ fetcher[w].zombie \in BOOLEAN
        /\ \A v \in Worker \ {w} : fetcher'[v] = fetcher[v]
        /\ \A id \in Id : id # fetcher[w].of \/ fetcher[w].zombie => fetchTask'[id] = fetchTask[id]
    BY FetcherTypes DEF Stays, Leaves
  <1>1. CASE Waits(r)
    <2> PICK id \in Id : Lists(id, r) /\ (outbox[id] > 0 \/ fetchTask[id].state = "queued")
      BY <1>1 DEF Waits
    <2>1. fetchTask[id].state = "queued" => fetchTask'[id].state = "queued"
      BY <1>0 DEF TaskInv, Awaited
    <2>2. Waits(r)'
      BY <2>1 DEF Waits, Lists
    <2> QED
      BY <2>2 DEF OnItsWay
  <1>2. ASSUME NEW v \in Worker, Carries(v, r), v # w PROVE OnItsWay(r)'
    <2>1. fetcher'[v] = fetcher[v]
      BY <1>0, <1>2
    <2>2. Carries(v, r)'
      BY <1>2, <2>1 DEF Carries, Awaited, Lists
    <2> QED
      BY <2>2 DEF OnItsWay
  <1> QED
    BY <1>1, <1>2 DEF OnItsWay

\* A task that is given back is queued again, or leaves what it served behind.
LEMMA ServedGivenBack ==
    ASSUME TypeOK, TaskInv, ServedInv, UNCHANGED <<observed, fetched>>,
           NEW w \in Worker, ListInv(w), Leaves(w),
           \A id \in Id : outbox[id] > 0 => outbox'[id] > 0,
           fetcher[w].zombie => UNCHANGED stranded,
           ~fetcher[w].zombie => Retry(fetcher[w].of)
    PROVE  ServedInv'
  <1>0. Due' = Due /\ stranded \subseteq stranded'
    BY FetcherTypes DEF Due, Retry, Leaves
  <1> SUFFICES ASSUME NEW r \in Due \ stranded, r \notin stranded' PROVE OnItsWay(r)'
    BY <1>0 DEF ServedInv
  <1>1. OnItsWay(r)
    BY DEF ServedInv
  <1>2. CASE Carries(w, r)
    <2>1. /\ fetcher[w].of \in Id /\ Lists(fetcher[w].of, r) /\ r \in Serves(fetcher[w].of)
          /\ Retry(fetcher[w].of)
      BY <1>2, CarriesListed, ListedServed DEF Carries, Awaited
    <2>2. Retried(fetchTask[fetcher[w].of]).state = "queued"
      BY <2>1, RetriedStates DEF Retry, TypeOK
    <2>3. fetchTask'[fetcher[w].of].state = "queued"
      BY <2>1, <2>2 DEF Retry, TypeOK
    <2>4. Waits(r)'
      BY <2>1, <2>3 DEF Waits, Lists
    <2> QED
      BY <2>4 DEF OnItsWay
  <1> QED
    BY <1>1, <1>2, OthersCarry

\* An execution that goes on, or ends well, goes on carrying what it carried,
\* has it marked, asks for it, or leaves it behind.
LEMMA ServedCarried ==
    ASSUME TypeOK, TaskInv, ServedInv, NEW w \in Worker, Stays(w) \/ Leaves(w),
           \A id \in Id : outbox[id] > 0 => outbox'[id] > 0,
           \A r \in Due' \ stranded' : r \in Due \ stranded,
           \A r \in Due' \ stranded' : Carries(w, r) => OnItsWay(r)'
    PROVE  ServedInv'
  BY OthersCarry DEF ServedInv

\* A batch that finds the connection broken, or an item, leaves behind what it
\* would list.
LEMMA ServedConnection ==
    ASSUME TypeOK, TaskInv, ServedInv, NEW w \in Worker, ListInv(w), ReadConnection(w)
    PROVE  ServedInv'
  <1>0. fetcher[w] # Idle /\ Due' = Due /\ UNCHANGED <<outbox, observed, fetched>>
    BY Running DEF ReadConnection, Due, rowVars
  <1>1. CASE Fail(w)
    <2>1. fetcher[w].zombie => UNCHANGED stranded
      BY <1>1 DEF Fail
    <2>2. ~fetcher[w].zombie => Retry(fetcher[w].of)
      BY <1>1 DEF Fail
    <2> QED
      BY <1>0, <1>1, <2>1, <2>2, GoesAway, ServedGivenBack
  <1>2. CASE Goto(w, "read") /\ UNCHANGED <<fetchTask, stranded>>
    <2>1. Stays(w) /\ fetcher'[w].pc = "read" /\ fetcher[w].pc = "conn"
      BY <1>0, <1>2, GoesTo DEF ReadConnection
    <2>2. \A r : Carries(w, r) => Carries(w, r)'
      BY <2>1 DEF Carries, Awaited, Stays, Lists
    <2> QED
      BY <1>0, <1>2, <2>1, <2>2, ServedCarried DEF OnItsWay
  <1>3. CASE /\ Succeed(w)
             /\ stranded' = IF fetcher[w].zombie THEN stranded
                            ELSE stranded \cup Serves(fetcher[w].of)
    <2>1. \A r \in Due : Carries(w, r) => r \in stranded'
      BY <1>3, CarriesListed, ListedServed DEF Carries, Awaited
    <2>2. \A r \in Due' \ stranded' : r \in Due \ stranded
      BY <1>0, <1>3
    <2>3. Leaves(w)
      BY <1>0, <1>3, GoesAway
    <2> QED
      BY <1>0, <2>1, <2>2, <2>3, ServedCarried
  <1> QED
    BY <1>1, <1>2, <1>3 DEF ReadConnection

\* A batch that lists takes every due record or knows of more.
LEMMA ServedListed ==
    ASSUME TypeOK, StampInv, CourtAssumptions, TaskInv, ServedInv,
           NEW w \in Worker, ListInv(w), ReadDue(w)
    PROVE  ServedInv'
  <1>0. fetcher[w] # Idle /\ fetcher[w].pc = "read" /\ Due' = Due /\ UNCHANGED <<outbox, observed, fetched>>
    BY Running DEF ReadDue, Due, rowVars
  <1>1. CASE Fail(w)
    <2>1. fetcher[w].zombie => UNCHANGED stranded
      BY <1>1 DEF Fail
    <2>2. ~fetcher[w].zombie => Retry(fetcher[w].of)
      BY <1>1 DEF Fail
    <2> QED
      BY <1>0, <1>1, <2>1, <2>2, GoesAway, ServedGivenBack
  <1>2. CASE /\ Succeed(w) /\ UNCHANGED stranded /\ IsBatch(fetcher[w].of)
             /\ {r \in ListDue : rank(r) < BatchSize} = {}
    <2>1. Due = {}
      BY <1>2, ListIsNotEmpty
    <2> QED
      BY <1>0, <2>1 DEF ServedInv
  <1>3. ASSUME Stays(w), UNCHANGED stranded,
               fetcher'[w].pc = "fetch", fetcher'[w].retry = fetcher[w].retry, NEW rows,
               rows = IF IsBatch(fetcher[w].of) THEN {r \in ListDue : rank(r) < BatchSize}
                                                ELSE {fetcher[w].of[2]},
               fetcher'[w].due = {FetchStateItem(r) : r \in rows},
               fetcher'[w].more = (IsBatch(fetcher[w].of) /\ rows # ListDue)
        PROVE  ServedInv'
    <2>1. \A r \in rows : Awaited(w) => Carries(w, r)'
      <3>1. \A r \in rows : FetchStateItem(r) \in fetcher'[w].due /\ FetchStateItem(r).rec = r
        BY <1>3 DEF FetchStateItem
      <3> QED
        BY <1>3, <3>1 DEF Carries, Awaited, Stays
    <2>2. ASSUME NEW r \in Due, Carries(w, r) PROVE Carries(w, r)'
      <3>0. Awaited(w) /\ Lists(fetcher[w].of, r) /\ fetcher[w].of \in Id
        BY <1>0, <2>2, FetcherTypes DEF Carries, Awaited
      <3>1. CASE ~IsBatch(fetcher[w].of)
        BY <1>3, <2>1, <3>0, <3>1, ItemIds DEF Lists
      <3>2. CASE IsBatch(fetcher[w].of) /\ rank(r) < BatchSize
        <4>1. r \in ListDue
          BY <3>2, DueIsFinite DEF ListDue, Due, CourtAssumptions
        <4> QED
          BY <1>3, <2>1, <3>0, <3>2, <4>1
      <3>3. CASE IsBatch(fetcher[w].of) /\ ~(rank(r) < BatchSize)
        <4>1. rank(r) >= BatchSize
          BY <3>3, DueIsFinite DEF Due, CourtAssumptions
        <4>2. PICK q \in ListDue : rank(q) >= BatchSize
          BY <4>1, ListSaysMore
        <4>3. q \notin rows
          BY <1>3, <3>3, <4>2, DueIsFinite DEF ListDue, Due, CourtAssumptions
        <4>4. fetcher'[w].more
          BY <1>3, <3>3, <4>2, <4>3
        <4> QED
          BY <1>3, <3>0, <4>4 DEF Carries, Awaited, Stays
      <3> QED
        BY <3>1, <3>2, <3>3
    <2> QED
      BY <1>0, <1>3, <2>2, ServedCarried DEF OnItsWay
  <1> QED
    BY <1>0, <1>1, <1>2, <1>3, Listed

\* A batch goes on with what it has left; what failed it will ask for.
LEMMA ServedFetched ==
    ASSUME TypeOK, TaskInv, ServedInv, NEW w \in Worker, ListInv(w), FetchAutos(w)
    PROVE  ServedInv'
  <1>0. fetcher[w] # Idle /\ fetcher[w].pc = "fetch" /\ Due' = Due /\ UNCHANGED <<outbox, observed, fetched>>
    BY Running DEF FetchAutos, Due, rowVars
  <1>1. CASE Fail(w)
    <2>1. fetcher[w].zombie => UNCHANGED stranded
      BY <1>1 DEF Fail
    <2>2. ~fetcher[w].zombie => Retry(fetcher[w].of)
      BY <1>1 DEF Fail
    <2> QED
      BY <1>0, <1>1, <2>1, <2>2, GoesAway, ServedGivenBack
  <1>2. CASE ~Fail(w)
    <2>1. /\ Stays(w) /\ UNCHANGED stranded
          /\ fetcher'[w].more = fetcher[w].more
          /\ fetcher'[w].pc \in {"fetch", "mark", "finish"}
      BY <1>0, <1>2, Fetched
    <2>2. \A i \in fetcher[w].due : i \in fetcher'[w].due \/ i.rec \in fetcher'[w].retry
      BY <1>0, <1>2, Fetched
    <2>3. fetcher[w].retry \subseteq fetcher'[w].retry
      BY <1>0, <1>2, Fetched
    <2>4. \A r : Carries(w, r) => Carries(w, r)'
      BY <1>0, <2>1, <2>2, <2>3 DEF Carries, Awaited, Stays
    <2> QED
      BY <1>0, <2>1, <2>4, ServedCarried DEF OnItsWay
  <1> QED
    BY <1>1, <1>2

\* A record that is marked is due no more.
LEMMA ServedMarked ==
    ASSUME TypeOK, StampInv, TaskInv, ServedInv, CourtAssumptions,
           NEW w \in Worker, ListInv(w), MarkItemFetched(w)
    PROVE  ServedInv'
  <1>0. fetcher[w] # Idle /\ fetcher[w].pc = "mark" /\ UNCHANGED <<outbox, observed>>
    BY Running DEF MarkItemFetched
  <1>1. CASE Fail(w) /\ UNCHANGED fetched
    <2>1. fetcher[w].zombie => UNCHANGED stranded
      BY <1>1 DEF Fail
    <2>2. ~fetcher[w].zombie => Retry(fetcher[w].of)
      BY <1>1 DEF Fail
    <2> QED
      BY <1>0, <1>1, <2>1, <2>2, GoesAway, ServedGivenBack
  <1>2. ASSUME NEW item \in InHand(w),
               fetched' = [fetched EXCEPT ![item.rec] = clock],
               stranded' = stranded \ {item.rec},
               \/ ~IsBatch(fetcher[w].of) /\ Succeed(w)
               \/ /\ IsBatch(fetcher[w].of) /\ Stays(w)
                  /\ fetcher'[w].more = fetcher[w].more
                  /\ fetcher'[w].retry = fetcher[w].retry
                  /\ fetcher'[w].pc \in {"finish", "fetch"}
                  /\ fetcher'[w].due = fetcher[w].due \ {item}
        PROVE  ServedInv'
    <2>0. item \in fetcher[w].due /\ item.rec \in Record
      BY <1>0, InHandTypes
    <2>1. item.rec \notin Due'
      BY <1>0, <1>2, <2>0 DEF Due, StampInv, TypeOK, CourtAssumptions
    <2>2. \A r \in Due' : r # item.rec /\ r \in Due
      <3>1. \A r \in Record : r # item.rec => fetched'[r] = fetched[r]
        BY <1>2 DEF TypeOK
      <3> QED
        BY <1>0, <2>1, <3>1 DEF Due
    <2>3. ASSUME NEW r \in Due', Carries(w, r) PROVE Carries(w, r)'
      <3>1. CASE ~IsBatch(fetcher[w].of)
        BY <1>0, <2>0, <2>2, <2>3, <3>1 DEF Carries, Awaited, ListInv
      <3>2. CASE IsBatch(fetcher[w].of)
        BY <1>0, <1>2, <2>2, <2>3, <3>2 DEF Carries, Awaited, Stays
      <3> QED
        BY <3>1, <3>2
    <2>4. Stays(w) \/ Leaves(w)
      BY <1>0, <1>2, GoesAway
    <2> QED
      BY <1>0, <1>2, <2>2, <2>3, <2>4, ServedCarried DEF OnItsWay
  <1> QED
    BY <1>0, <1>1, <1>2, Marked

\* A batch that ends asks for what it has not fetched.
LEMMA ServedFinished ==
    ASSUME TypeOK, TaskInv, ServedInv, NEW w \in Worker, ListInv(w), Finish(w)
    PROVE  ServedInv'
  <1>0. fetcher[w] # Idle /\ fetcher[w].pc = "finish" /\ Due' = Due /\ UNCHANGED <<observed, fetched>>
    BY Running DEF Finish, Due, rowVars
  <1>1. CASE Fail(w) /\ UNCHANGED outbox
    <2>1. fetcher[w].zombie => UNCHANGED stranded
      BY <1>1 DEF Fail
    <2>2. ~fetcher[w].zombie => Retry(fetcher[w].of)
      BY <1>1 DEF Fail
    <2> QED
      BY <1>0, <1>1, <2>1, <2>2, GoesAway, ServedGivenBack
  <1>2. CASE /\ ~fetcher[w].abort /\ Succeed(w) /\ UNCHANGED stranded
             /\ StepEvents(w) \subseteq Id
             /\ outbox' = [id \in Id |-> outbox[id] + IF id \in StepEvents(w) THEN 1 ELSE 0]
    <2>1. \A id \in Id : outbox[id] \in Nat
      BY DEF TypeOK
    <2>2. /\ \A id \in Id : outbox[id] > 0 => outbox'[id] > 0
          /\ \A id \in StepEvents(w) : id \in Id /\ outbox'[id] > 0
      BY <1>2, <2>1
    <2>3. ASSUME NEW r, Carries(w, r) PROVE Waits(r)'
      <3>1. fetcher[w].due = {}
        BY <1>0, <1>2 DEF ListInv
      <3>2. CASE fetcher[w].more
        <4>1. Batch(fetcher[w].of[2] + 1) \in StepEvents(w) /\ IsBatch(Batch(fetcher[w].of[2] + 1))
          BY <3>2, ItemIds DEF StepEvents
        <4> QED
          BY <2>2, <4>1 DEF Waits, Lists
      <3>3. CASE r \in fetcher[w].retry
        <4>1. Item(r) \in StepEvents(w)
          BY <3>3 DEF StepEvents
        <4> QED
          BY <2>2, <4>1 DEF Waits, Lists
      <3> QED
        BY <1>0, <2>3, <3>1, <3>2, <3>3 DEF Carries
    <2>4. Leaves(w)
      BY <1>0, <1>2, GoesAway
    <2> QED
      BY <1>0, <1>2, <2>2, <2>3, <2>4, ServedCarried DEF OnItsWay
  <1> QED
    BY <1>1, <1>2 DEF Finish

\* The relay hands on what waits, or finds its id taken: by a task that will
\* still list, or by one that leaves behind what it served.
LEMMA ServedRelayed ==
    ASSUME TypeOK, TaskInv, ServedInv, NEW id \in Id, Relay(id)
    PROVE  ServedInv'
  <1>0. /\ Due' = Due /\ UNCHANGED fetcher /\ stranded \subseteq stranded'
        /\ \A i \in Id \ {id} : outbox'[i] = outbox[i] /\ fetchTask'[i] = fetchTask[i]
        /\ fetchTask[id].state = "queued" => fetchTask'[id].state = "queued"
    BY DEF Relay, Due, rowVars, TypeOK, NoTask
  <1> SUFFICES ASSUME NEW r \in Due \ stranded, r \notin stranded' PROVE OnItsWay(r)'
    BY <1>0 DEF ServedInv
  <1>1. ASSUME NEW v \in Worker, Carries(v, r) PROVE OnItsWay(r)'
    BY <1>0, <1>1 DEF OnItsWay, Carries, Awaited, Lists
  <1>2. ASSUME NEW i \in Id, i # id, Lists(i, r), outbox[i] > 0 \/ fetchTask[i].state = "queued"
        PROVE  OnItsWay(r)'
    BY <1>0, <1>2 DEF OnItsWay, Waits, Lists
  <1>3. ASSUME Lists(id, r) PROVE OnItsWay(r)'
    <2>0. r \in Serves(id)
      BY <1>3, ListedServed
    <2>1. CASE fetchTask'[id].state = "queued"
      BY <1>3, <2>1 DEF OnItsWay, Waits, Lists
    <2>2. CASE fetchTask'[id].state # "queued"
      <3>1. StillToRead(id) /\ fetchTask[id].state # "queued"
        BY <1>0, <2>0, <2>2 DEF Relay, TypeOK
      <3>2. PICK v \in Worker : /\ fetcher[v] # Idle
                               /\ fetcher[v].of = id
                               /\ fetcher[v].pc \in {"conn", "read"}
                               /\ ~fetcher[v].zombie
        BY <3>1 DEF StillToRead
      <3>3. Carries(v, r)
        BY <1>3, <3>2 DEF Carries, Awaited
      <3> QED
        BY <1>1, <3>3
    <2> QED
      BY <2>1, <2>2
  <1> QED
    BY <1>1, <1>2, <1>3 DEF ServedInv, OnItsWay, Waits

\* A worker that takes a task carries what waited for it.
LEMMA ServedTaken ==
    ASSUME TypeOK, TaskInv, ServedInv, NEW w \in Worker, NEW id \in Id, Take(w, id)
    PROVE  ServedInv'
  <1>0. /\ Due' = Due /\ UNCHANGED <<stranded, outbox>> /\ fetcher[w] = Idle
        /\ \A i \in Id \ {id} : fetchTask'[i] = fetchTask[i]
        /\ \A v \in Worker \ {w} : fetcher'[v] = fetcher[v]
        /\ fetcher'[w].of = id /\ fetcher'[w].pc = "conn" /\ fetcher'[w] # Idle
        /\ fetcher'[w].zombie = FALSE
    BY DEF Take, Due, rowVars, TypeOK, Idle
  <1> SUFFICES ASSUME NEW r \in Due \ stranded PROVE OnItsWay(r)'
    BY <1>0 DEF ServedInv
  <1>1. ASSUME NEW v \in Worker, Carries(v, r) PROVE OnItsWay(r)'
    <2>1. v # w
      BY <1>0, <1>1 DEF Carries, Awaited
    <2> QED
      BY <1>0, <1>1, <2>1 DEF OnItsWay, Carries, Awaited, Lists
  <1>2. ASSUME NEW i \in Id, Lists(i, r), outbox[i] > 0 \/ fetchTask[i].state = "queued"
        PROVE  OnItsWay(r)'
    <2>1. CASE i = id
      BY <1>0, <1>2, <2>1 DEF OnItsWay, Carries, Awaited, Lists
    <2>2. CASE i # id
      BY <1>0, <1>2, <2>2 DEF OnItsWay, Waits, Lists
    <2> QED
      BY <2>1, <2>2
  <1> QED
    BY <1>1, <1>2 DEF ServedInv, OnItsWay, Waits

\* Every step keeps what is due on its way.
LEMMA ServedKeeps ==
    ASSUME TypeOK, StampInv, CourtAssumptions, TaskInv, ServedInv,
           \A w \in Worker : ListInv(w), Next
    PROVE  ServedInv'
  <1>1. CASE UNCHANGED <<observed, fetched, outbox, fetchTask, fetcher, stranded>>
    BY <1>1 DEF ServedInv, Due, OnItsWay, Waits, Carries, Awaited, Lists
  <1>2. ASSUME NEW s \in Session,
               \/ \E pc \in {"connect", "seed"} : BeginConnect(s, pc)
               \/ finalizeConnect(s)
               \/ RequestFails(s)
               \/ \E r \in Record : BeginObserve(s, r)
        PROVE  ServedInv'
    BY <1>1, <1>2 DEF BeginConnect, finalizeConnect, RequestFails, BeginObserve, rowVars
  <1>3. ASSUME NEW r \in Record, CourtMoves(r) PROVE ServedInv'
    BY <1>1, <1>3 DEF CourtMoves, rowVars
  <1>4. ASSUME NEW s \in Session, UpsertObserved(s) PROVE ServedInv'
    <2>1. Batch(0) \in Id /\ IsBatch(Batch(0))
      BY IdTypes, ItemIds
    <2>2. outbox'[Batch(0)] > 0
      BY <1>4, <2>1 DEF UpsertObserved, TypeOK
    <2>3. \A r : Waits(r)'
      BY <2>1, <2>2 DEF Waits, Lists
    <2> QED
      BY <2>3 DEF ServedInv, OnItsWay
  <1>5. ASSUME NEW w \in Worker, Crash(w) PROVE ServedInv'
    <2>1. fetcher[w] # Idle /\ Fail(w) /\ UNCHANGED <<observed, fetched, outbox>>
      BY <1>5 DEF Crash, rowVars
    <2>2. fetcher[w].zombie => UNCHANGED stranded
      BY <2>1 DEF Fail
    <2>3. ~fetcher[w].zombie => Retry(fetcher[w].of)
      BY <2>1 DEF Fail
    <2> QED
      BY <2>1, <2>2, <2>3, GoesAway, ServedGivenBack
  <1>6. ASSUME NEW w \in Worker, LeaseExpires(w) PROVE ServedInv'
    <2>1. /\ fetcher[w] # Idle /\ ~fetcher[w].zombie /\ Retry(fetcher[w].of)
          /\ fetcher' = [fetcher EXCEPT ![w].zombie = TRUE]
          /\ UNCHANGED <<observed, fetched, outbox>>
      BY <1>6 DEF LeaseExpires, rowVars
    <2> QED
      BY <2>1, GoesAway, ServedGivenBack
  <1>7. ASSUME NEW w \in Worker, HandlerStep(w) PROVE ServedInv'
    BY <1>7, ServedConnection, ServedListed, ServedFetched, ServedMarked, ServedFinished DEF HandlerStep
  <1> QED
    BY <1>2, <1>3, <1>4, <1>5, <1>6, <1>7, ServedRelayed, ServedTaken DEF Next

\* Where nothing is published, queued or running, nothing is on its way.
LEMMA QuietServes ==
    ASSUME TypeOK, ServedInv
    PROVE  DueIsServed
  BY DEF ServedInv, DueIsServed, Quiet, OnItsWay, Waits, Carries, Awaited, Live
-----------------------------------------------------------------------------
(* The theorems.                                                           *)

\* The inductive invariant holds in a connection just created.
LEMMA Initially ==
    ASSUME CourtAssumptions, Init
    PROVE  IInv
  <1> USE DEF Init
  <1>1. TypeOK
    BY TaskTypes DEF TypeOK, CourtAssumptions, Status, Caller, Fetcher, Idle, Never
  <1>2. StampInv
    BY DEF StampInv, Idle
  <1>3. CursorPassesNothing
    BY DEF CursorPassesNothing
  <1>4. \A w \in Worker : FetcherInv(w)
    BY DEF FetcherInv
  <1> QED
    BY <1>1, <1>2, <1>3, <1>4 DEF IInv

\* The inductive invariant of a connection (domain.go, FetchAutosBatch): types,
\* one stamp per observation, and what every fetch is based on.
THEOREM Invariance == CourtAssumptions => (Spec => []IInv)
  <1> SUFFICES ASSUME CourtAssumptions PROVE Spec => []IInv
    OBVIOUS
  <1>1. Init => IInv
    BY Initially
  <1>2. IInv /\ [Next]_vars => IInv'
    <2> SUFFICES ASSUME IInv, [Next]_vars PROVE IInv'
      OBVIOUS
    <2>1. TypeOK' /\ StampInv'
      BY TypeKeeps, StampKeeps DEF IInv
    <2>2. CASE Next
      BY <2>1, <2>2, FetcherKeeps, CursorKeeps DEF IInv
    <2>3. CASE UNCHANGED vars
      <3>1. UNCHANGED <<fetcher, offered, cursor>>
        BY <2>3 DEF vars, rowVars, portalVars
      <3>2. CursorPassesNothing' /\ \A w \in Worker : FetcherInv(w)'
        BY <3>1 DEF IInv, CursorPassesNothing, FetcherInv, InHand
      <3> QED
        BY <2>1, <3>2 DEF IInv
    <2> QED
      BY <2>2, <2>3
  <1> QED
    BY <1>1, <1>2, PTL DEF Spec

\* Rows, tasks and executions keep their types, whatever overlaps or fails.
THEOREM TypeCorrect == CourtAssumptions => (Spec => []TypeOK)
  <1> SUFFICES ASSUME CourtAssumptions PROVE Spec => []TypeOK
    OBVIOUS
  <1>1. IInv => TypeOK
    BY DEF IInv
  <1> QED
    BY <1>1, Invariance, PTL

\* The docket cursor never passes an event no fetch has gone through, for any
\* number of records, workers, connections and overlapping fetches
\* (eproc_provider.go, downloadNewDocuments; domain.go, markItemFetched).
THEOREM CursorIsBehind == CourtAssumptions => (Spec => []CursorPassesNothing)
  <1> SUFFICES ASSUME CourtAssumptions PROVE Spec => []CursorPassesNothing
    OBVIOUS
  <1>1. IInv => CursorPassesNothing
    BY DEF IInv
  <1> QED
    BY <1>1, Invariance, PTL

\* What is due and was not left behind in one of the ways the code has is
\* published, queued, listed, or about to be asked for (events.go, the stable
\* ids; domain.go, FetchAutosBatch), whatever is retried, archived or overlaps.
THEOREM DueIsOnItsWay == CourtAssumptions => (Spec => [](TaskInv /\ ServedInv))
  <1> SUFFICES ASSUME CourtAssumptions PROVE Spec => [](TaskInv /\ ServedInv)
    OBVIOUS
  <1> DEFINE WayInv == TaskInv /\ (\A w \in Worker : ListInv(w)) /\ ServedInv
  <1>1. Init => WayInv
    BY DEF Init, TaskInv, ListInv, ServedInv, Awaited, Due
  <1>2. IInv /\ WayInv /\ [Next]_vars => WayInv'
    <2> SUFFICES ASSUME IInv, WayInv, [Next]_vars PROVE WayInv'
      OBVIOUS
    <2>1. CASE Next
      BY <2>1, TaskKeeps, ListKeeps, ServedKeeps DEF IInv
    <2>2. CASE UNCHANGED vars
      <3>1. UNCHANGED <<observed, fetched, outbox, fetchTask, fetcher, stranded>>
        BY <2>2 DEF vars, rowVars
      <3>2. TaskInv' /\ \A w \in Worker : ListInv(w)'
        BY <3>1 DEF TaskInv, Awaited, ListInv
      <3>3. ServedInv'
        BY <3>1 DEF ServedInv, Due, OnItsWay, Waits, Carries, Awaited, Lists
      <3> QED
        BY <3>2, <3>3
    <2> QED
      BY <2>1, <2>2
  <1>3. WayInv => TaskInv /\ ServedInv
    OBVIOUS
  <1> HIDE DEF WayInv
  <1> QED
    BY <1>1, <1>2, <1>3, Invariance, PTL DEF Spec

\* A record that is due when nothing is published, queued or running was left
\* behind in one of the ways the code has, for any number of records, workers,
\* continuations and retries (events.go, the stable ids of the steps and items).
THEOREM NothingDueIsDropped == CourtAssumptions => (Spec => []DueIsServed)
  <1> SUFFICES ASSUME CourtAssumptions PROVE Spec => []DueIsServed
    OBVIOUS
  <1>1. TypeOK /\ TaskInv /\ ServedInv => DueIsServed
    BY QuietServes
  <1> QED
    BY <1>1, TypeCorrect, DueIsOnItsWay, PTL
=============================================================================
