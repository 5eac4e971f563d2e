---------------------- MODULE DeadlineLifecycleProofs ----------------------
(***************************************************************************)
(* Proofs about DeadlineLifecycle, for every set of prazos and concurrent  *)
(* transactions, every calendar and every bound.                           *)
(***************************************************************************)
EXTENDS DeadlineLifecycle, TLAPS

\* The calendar maps the counts an operation may write to days.
LEMMA CalendarFacts ==
    /\ MaxDay \in Nat
    /\ \A n \in Counts : CountDays[n] \in 1..(MaxDay - 1)
    /\ \A n \in Days, x \in Extra : n + x \in Counts
    /\ \A n \in Days : n \in Counts
    /\ CountDays[Len(CountDays)] \in 1..(MaxDay - 1)
  <1>1. /\ CountDays \in Seq(1..(MaxDay - 1)) /\ Len(CountDays) > 1
        /\ MaxDay \in Nat
    BY DeadlineAssumptions
  <1>2. Counts = 1..Len(CountDays) /\ Len(CountDays) \in Nat
    BY <1>1 DEF Counts
  <1>3. \A n \in Counts : CountDays[n] \in 1..(MaxDay - 1)
    BY <1>1, <1>2
  <1>4. Len(CountDays) \in Counts
    BY <1>1, <1>2
  <1> QED
    BY <1>1, <1>2, <1>3, <1>4 DEF Days, Extra

\* What the flips of a status read and set.
LEMMA FlipFacts ==
    ASSUME NEW op \in DOMAIN Flip
    PROVE  /\ op \in {"met", "missed", "no_deadline", "reopen", "reconcile", "conclude"}
           /\ Flip[op].from \subseteq {"PENDING", "OPEN", "MISSED", "NO_DEADLINE"}
           /\ Flip[op].to \in Status \ {"none", "OPEN", "CANCELLED"}
           /\ Flip[op].to \notin Flip[op].from
  <1>1. op \in {"met", "missed", "no_deadline", "reopen", "reconcile", "conclude"}
    BY DEF Flip
  <1> QED
    BY <1>1 DEF Flip, Status

\* The moves of one row: birth, revocation, the missed check, a flip, Adjust,
\* Confirm and an apuração.
Birth(p) ==
    /\ row[p].status = "none"
    /\ \E days \in Days, declared \in Days \cup {0}, ia, obrigatoria \in BOOLEAN :
          row'[p] = Born(days, declared, ia, obrigatoria)

Revocation(p) ==
    /\ row[p].status \notin {"none", "CANCELLED"}
    /\ row'[p] = [row[p] EXCEPT !.status = "CANCELLED"]

Miss(p) == MarkMissed(p) /\ row'[p] = [row[p] EXCEPT !.status = "MISSED"]

Flipped(p) ==
    \E op \in DOMAIN Flip, confirmed \in BOOLEAN :
        /\ row[p].status \in Flip[op].from
        /\ row'[p] = [row[p] EXCEPT !.status = Flip[op].to, !.confirmed = confirmed]

Adjusted(p) ==
    \E days \in Days \cup {0}, extra \in Extra, end \in Day :
        row'[p] = [row[p] EXCEPT !.days = days, !.extra = extra, !.end = end]

Confirmed(p) ==
    /\ row[p].status # "none"
    /\ Fact("updated", p, 0) \in emitted'
    /\ \E days \in Days, extra \in Extra :
          row'[p] = [row[p] EXCEPT !.status = "OPEN", !.days = days, !.extra = extra,
                                   !.end = CountDays[days + extra], !.confirmed = TRUE]

Decided(p) ==
    /\ row[p].decisao = "" /\ row[p].seal = "a_apurar"
    /\ \E op \in Decisions, end \in Day : row'[p] = Apurado(row[p], op, end)

\* A step moves a row in one of these ways or leaves it alone.
LEMMA RowMoves ==
    ASSUME TypeOK, SessionsInv, [Next]_vars, NEW p \in Prazo
    PROVE  \/ row'[p] = row[p]
           \/ Birth(p) \/ Revocation(p) \/ Miss(p) \/ Flipped(p)
           \/ Adjusted(p) \/ Confirmed(p) \/ Decided(p)
  <1>0. row \in [Prazo -> Row] /\ \A q \in Prazo : row[q].confirmed \in BOOLEAN
    BY DEF TypeOK, Row
  <1>1. CASE row' = row
    BY <1>1
  <1>2. ASSUME NEW q \in Prazo, OnIntimationObserved(q) PROVE row'[p] = row[p] \/ Birth(p)
    BY <1>0, <1>2 DEF OnIntimationObserved, Handled, Birth
  <1>3. ASSUME NEW q \in Prazo, OnIntimationCancelled(q) PROVE row'[p] = row[p] \/ Revocation(p)
    BY <1>0, <1>3 DEF OnIntimationCancelled, Handled, Revocation
  <1>4. ASSUME OnMissedCheck PROVE row'[p] = row[p] \/ Miss(p)
    BY <1>0, <1>4 DEF OnMissedCheck, Handled, Miss
  <1>5. ASSUME NEW q \in Prazo, Confirm(q) PROVE row'[p] = row[p] \/ Confirmed(p)
    <2>1. PICK days \in Days, extra \in Extra :
            row' = [row EXCEPT ![q].status = "OPEN", ![q].days = days, ![q].extra = extra,
                               ![q].end = CountDays[days + extra], ![q].confirmed = TRUE]
      BY <1>5 DEF Confirm
    <2>2. CASE q # p
      BY <1>0, <2>1, <2>2
    <2>3. CASE q = p
      <3>1. row'[p] = [row[p] EXCEPT !.status = "OPEN", !.days = days, !.extra = extra,
                                     !.end = CountDays[days + extra], !.confirmed = TRUE]
        BY <1>0, <2>1, <2>3 DEF Row
      <3> QED
        BY <1>5, <2>3, <3>1 DEF Confirm, Confirmed
    <2> QED
      BY <2>2, <2>3
  <1>6. ASSUME NEW s \in Session, CommitFlip(s) PROVE row'[p] = row[p] \/ Flipped(p)
    <2> DEFINE op == session[s].op
               confirmed == CASE op = "no_deadline" -> TRUE
                              [] op = "reopen" -> FALSE
                              [] OTHER -> row[p].confirmed
    <2>1. op \in DOMAIN Flip
      BY <1>6 DEF CommitFlip
    <2>2. CASE p \notin GuardedHits(s)
      BY <1>6, <2>2 DEF CommitFlip
    <2>3. CASE p \in GuardedHits(s)
      <3>1. row[p].status \in Flip[op].from
        BY <2>3 DEF GuardedHits
      <3>2. row'[p] = [row[p] EXCEPT !.status = Flip[op].to, !.confirmed = confirmed]
        BY <1>6, <2>3 DEF CommitFlip
      <3>3. confirmed \in BOOLEAN
        BY <1>0
      <3> QED
        BY <2>1, <3>1, <3>2, <3>3 DEF Flipped
    <2> QED
      BY <2>2, <2>3
  <1>7. ASSUME NEW s \in Session, CommitAdjust(s) PROVE row'[p] = row[p] \/ Adjusted(p)
    BY <1>7 DEF CommitAdjust, SessionsInv, Adjusted
  <1>8. ASSUME NEW s \in Session, CommitApurar(s) PROVE row'[p] = row[p] \/ Decided(p)
    BY <1>8 DEF CommitApurar, ApurarHits, SessionsInv, Decided
  <1>9. ASSUME \/ OnReminderCheck
               \/ \E s \in Session : ListReconcilable(s) \/ ListForConclusion(s) \/ Abort(s)
               \/ \E s \in Session, q \in Prazo : BeginFlip(s, q) \/ BeginAdjust(s, q) \/ BeginApurar(s, q)
               \/ Tick \/ DocketEntry \/ Publish \/ Lose
               \/ UNCHANGED vars
        PROVE  row' = row
    BY <1>9 DEF OnReminderCheck, Handled, ListReconcilable, ListForConclusion, Abort, BeginFlip,
                BeginAdjust, BeginApurar, Open, Tick, DocketEntry, Publish, Produce, Lose, vars
  <1> QED
    BY <1>1, <1>2, <1>3, <1>4, <1>5, <1>6, <1>7, <1>8, <1>9
       DEF Next, Handler, API, Environment, Commit

\* Every move keeps a row's columns in their types, never unborns it and
\* keeps the end date of its birth.
LEMMA RowTypes ==
    ASSUME TypeOK, SessionsInv, [Next]_vars, NEW p \in Prazo
    PROVE  /\ row'[p] \in Row
           /\ row[p].status # "none" => row'[p].status # "none" /\ row'[p].calc = row[p].calc
  <1> USE DEF Row
  <1>0. row[p] \in Row
    BY DEF TypeOK
  <1>1. CASE Birth(p)
    <2>1. PICK days \in Days, declared \in Days \cup {0}, ia \in BOOLEAN, obrigatoria \in BOOLEAN :
            row'[p] = Born(days, declared, ia, obrigatoria)
      BY <1>1 DEF Birth
    <2> DEFINE decl == IF declared = 0 THEN 0 ELSE CountDays[declared]
    <2>2. CountDays[days] \in Day /\ decl \in Day
      BY CalendarFacts DEF Day
    <2>3. NoRow \in Row
      BY CalendarFacts DEF NoRow, Status, Day, Extra, Decisions
    <2>4. Born(days, declared, ia, obrigatoria) \in Row
      <3>1. PICK status \in Status, seal \in {"confiavel", "a_apurar"},
                 cv \in {"none", "convergente", "divergente"} :
              Born(days, declared, ia, obrigatoria) =
                 [NoRow EXCEPT !.status = status, !.end = CountDays[days], !.days = days, !.seal = seal,
                               !.calc = CountDays[days], !.decl = decl, !.cv = cv]
        BY DEF Born, Status, deriveSeal, buildCrossValidation
      <3> HIDE DEF decl
      <3>2. ASSUME NEW r \in Row
            PROVE  [r EXCEPT !.status = status, !.end = CountDays[days], !.days = days, !.seal = seal,
                             !.calc = CountDays[days], !.decl = decl, !.cv = cv] \in Row
        BY <2>2
      <3> QED
        BY <2>3, <3>1, <3>2
    <2> QED
      BY <1>1, <2>1, <2>4 DEF Birth
  <1>2. CASE Revocation(p)
    BY <1>0, <1>2 DEF Revocation, Status
  <1>3. CASE Miss(p)
    BY <1>0, <1>3 DEF Miss, MarkMissed, Status
  <1>4. CASE Flipped(p)
    BY <1>0, <1>4, FlipFacts DEF Flipped
  <1>5. CASE Adjusted(p)
    BY <1>0, <1>5 DEF Adjusted
  <1>6. CASE Confirmed(p)
    <2>1. PICK days \in Days, extra \in Extra :
            row'[p] = [row[p] EXCEPT !.status = "OPEN", !.days = days, !.extra = extra,
                                     !.end = CountDays[days + extra], !.confirmed = TRUE]
      BY <1>6 DEF Confirmed
    <2>2. CountDays[days + extra] \in Day
      BY CalendarFacts DEF Day
    <2> QED
      BY <1>0, <2>1, <2>2 DEF Status
  <1>7. CASE Decided(p)
    <2>1. PICK op \in Decisions, end \in Day : row'[p] = Apurado(row[p], op, end)
      BY <1>7 DEF Decided
    <2>2. PICK last \in Day :
            row'[p] = [row[p] EXCEPT !.end = last, !.decisao = op, !.confirmed = TRUE, !.seal = "confiavel"]
      <3>1. row[p].end \in Day
        BY <1>0
      <3> QED
        BY <2>1, <3>1 DEF Apurado
    <2> QED
      BY <1>0, <2>2
  <1>8. CASE row'[p] = row[p]
    BY <1>0, <1>8
  <1> QED
    BY <1>1, <1>2, <1>3, <1>4, <1>5, <1>6, <1>7, <1>8, RowMoves

\* Every write leaves one row per intimação.
LEMMA RowsStep ==
    ASSUME TypeOK, SessionsInv, [Next]_vars
    PROVE  row' \in [Prazo -> Row]
  <1>0. row = [p \in Prazo |-> row[p]]
    BY DEF TypeOK
  <1>1. ASSUME NEW s \in Session, Commit(s) PROVE row' = [p \in Prazo |-> row'[p]]
    <2>1. CASE CommitFlip(s)
      BY <2>1 DEF CommitFlip
    <2>2. CASE CommitAdjust(s)
      BY <2>2 DEF CommitAdjust
    <2>3. CASE CommitApurar(s)
      BY <2>3 DEF CommitApurar
    <2> QED
      BY <1>1, <2>1, <2>2, <2>3 DEF Commit
  <1>2. ASSUME Handler PROVE row' = [p \in Prazo |-> row'[p]]
    BY <1>0, <1>2 DEF Handler, OnIntimationObserved, OnIntimationCancelled, OnReminderCheck, OnMissedCheck,
                      Handled, ListReconcilable, ListForConclusion, Open
  <1>3. ASSUME API PROVE row' = [p \in Prazo |-> row'[p]]
    <2>1. ASSUME NEW p \in Prazo, Confirm(p) PROVE row' = [q \in Prazo |-> row'[q]]
      BY <1>0, <2>1 DEF Confirm
    <2>2. ASSUME NEW p \in Prazo, NEW s \in Session,
                 BeginFlip(s, p) \/ BeginAdjust(s, p) \/ BeginApurar(s, p)
          PROVE  row' = row
      BY <2>2 DEF BeginFlip, BeginAdjust, BeginApurar, Open
    <2> QED
      BY <1>0, <1>3, <2>1, <2>2 DEF API
  <1>4. ASSUME Environment \/ UNCHANGED vars PROVE row' = [p \in Prazo |-> row'[p]]
    BY <1>0, <1>4 DEF Environment, Tick, DocketEntry, Publish, Produce, Lose, Abort, vars
  <1>5. row' = [p \in Prazo |-> row'[p]]
    BY <1>1, <1>2, <1>3, <1>4 DEF Next
  <1>6. \A p \in Prazo : row'[p] \in Row
    BY RowTypes
  <1> QED
    BY <1>5, <1>6

\* Every move keeps a divergência and its seal together, and lets a prazo be
\* OPEN and a_apurar only when a human confirmed it.
LEMMA SealStep ==
    ASSUME IInv, [Next]_vars
    PROVE  UnsureNeedsHuman' /\ SealAgreesWithDecision' /\ UnbornInv'
  <1> DEFINE Sure(r)   == r.status = "OPEN" /\ r.seal = "a_apurar" => r.confirmed = TRUE
             Agrees(r) == r.cv = "divergente" => (r.decisao = "" <=> r.seal = "a_apurar")
             Unborn(r) == r.status = "none" => r.decisao = "" /\ r.seal = "confiavel"
  <1> SUFFICES ASSUME NEW p \in Prazo PROVE Sure(row'[p]) /\ Agrees(row'[p]) /\ Unborn(row'[p])
    BY DEF UnsureNeedsHuman, SealAgreesWithDecision, UnbornInv
  <1>0. row[p] \in Row /\ Sure(row[p]) /\ Agrees(row[p]) /\ Unborn(row[p])
    BY DEF IInv, TypeOK, UnsureNeedsHuman, SealAgreesWithDecision, UnbornInv, Row
  <1> USE DEF Row
  <1>1. CASE Birth(p)
    BY <1>1 DEF Birth, Born, NoRow, deriveSeal, deriveConfirmacaoExigida, buildCrossValidation
  <1>2. CASE Revocation(p)
    BY <1>0, <1>2 DEF Revocation
  <1>3. CASE Miss(p)
    BY <1>0, <1>3 DEF Miss
  <1>4. CASE Flipped(p)
    BY <1>0, <1>4, FlipFacts DEF Flipped
  <1>5. CASE Adjusted(p)
    BY <1>0, <1>5 DEF Adjusted
  <1>6. CASE Confirmed(p)
    BY <1>0, <1>6 DEF Confirmed
  <1>7. CASE Decided(p)
    BY <1>0, <1>7 DEF Decided, Apurado, Decisions
  <1>8. CASE row'[p] = row[p]
    BY <1>0, <1>8
  <1> QED
    BY <1>1, <1>2, <1>3, <1>4, <1>5, <1>6, <1>7, <1>8, RowMoves DEF IInv
-----------------------------------------------------------------------------
\* What a transaction read and merged is what its UPDATE may write.
LEMMA SessionsStep ==
    ASSUME TypeOK, SessionsInv, [Next]_vars
    PROVE  SessionsInv'
  <1> DEFINE Rec == [op : Op, on : SUBSET Prazo, event : Docket \cup Archived \cup {NoMessage},
                     days : Days \cup {0}, extra : Extra, end : Day]
  <1>0. session \in [Session -> Rec] /\ Idle \in Rec
    BY CalendarFacts DEF SessionsInv, Idle, Op, Extra, Day
  <1>1. ASSUME NEW s \in Session, NEW x \in Rec, Open(s, x) PROVE SessionsInv'
    BY <1>0, <1>1 DEF Open, SessionsInv
  <1>2. ASSUME NEW s \in Session, session' = [session EXCEPT ![s] = Idle] PROVE SessionsInv'
    BY <1>0, <1>2 DEF SessionsInv
  <1>3. CASE session' = session
    BY <1>0, <1>3 DEF SessionsInv
  <1>4. ASSUME NEW s \in Session, NEW p \in Prazo, BeginFlip(s, p) PROVE SessionsInv'
    <2>1. PICK op \in DOMAIN Flip : Open(s, [Idle EXCEPT !.op = op, !.on = {p}])
      BY <1>4 DEF BeginFlip, Flip
    <2>2. [Idle EXCEPT !.op = op, !.on = {p}] \in Rec
      BY <1>0 DEF Op
    <2> QED
      BY <1>1, <2>1, <2>2
  <1>5. ASSUME NEW s \in Session, NEW p \in Prazo, BeginAdjust(s, p) PROVE SessionsInv'
    <2>1. PICK days \in Days, extra \in Extra :
            Open(s, [Idle EXCEPT !.op = "adjust", !.on = {p}, !.days = days,
                                 !.extra = extra, !.end = CountDays[days + extra]])
      BY <1>5 DEF BeginAdjust
    <2>2. CountDays[days + extra] \in Day
      BY CalendarFacts DEF Day
    <2>3. [Idle EXCEPT !.op = "adjust", !.on = {p}, !.days = days,
                       !.extra = extra, !.end = CountDays[days + extra]] \in Rec
      BY <1>0, <2>2 DEF Op
    <2> QED
      BY <1>1, <2>1, <2>3
  <1>6. ASSUME NEW s \in Session, NEW p \in Prazo, BeginApurar(s, p) PROVE SessionsInv'
    <2>1. PICK op \in Decisions, end \in Day :
            \/ Open(s, [Idle EXCEPT !.op = op, !.on = {p}, !.end = end])
            \/ Open(s, [Idle EXCEPT !.op = op, !.on = {p}])
      <3>1. row[p].decl \in Day
        BY DEF TypeOK, Row
      <3>2. 1..CountDays[Len(CountDays)] \subseteq Day
        BY CalendarFacts DEF Day
      <3> QED
        BY <1>6, <3>1, <3>2 DEF BeginApurar, Decisions
    <2>2. [Idle EXCEPT !.op = op, !.on = {p}, !.end = end] \in Rec /\ [Idle EXCEPT !.op = op, !.on = {p}] \in Rec
      BY <1>0 DEF Op
    <2> QED
      BY <1>1, <2>1, <2>2
  <1>7. ASSUME NEW s \in Session, ListReconcilable(s) \/ ListForConclusion(s) PROVE SessionsInv'
    <2>1. PICK op \in {"reconcile", "conclude"}, m \in Docket \cup Archived, S \in SUBSET Prazo :
            Open(s, [Idle EXCEPT !.op = op, !.event = m, !.on = S])
      BY <1>7 DEF ListReconcilable, ListForConclusion
    <2>2. [Idle EXCEPT !.op = op, !.event = m, !.on = S] \in Rec
      BY <1>0 DEF Op, Flip
    <2> QED
      BY <1>1, <2>1, <2>2
  <1>8. ASSUME NEW s \in Session, Commit(s) \/ Abort(s) PROVE session' = [session EXCEPT ![s] = Idle]
    BY <1>8 DEF Commit, CommitFlip, CommitAdjust, CommitApurar, Close, Abort
  <1>9. ASSUME \/ \E p \in Prazo : OnIntimationObserved(p) \/ OnIntimationCancelled(p) \/ Confirm(p)
               \/ OnReminderCheck \/ OnMissedCheck
               \/ Tick \/ DocketEntry \/ Publish \/ Lose
               \/ UNCHANGED vars
        PROVE  session' = session
    BY <1>9 DEF OnIntimationObserved, OnIntimationCancelled, Confirm, OnReminderCheck, OnMissedCheck,
                Handled, Tick, DocketEntry, Publish, Produce, Lose, vars
  <1> QED
    BY <1>2, <1>3, <1>4, <1>5, <1>6, <1>7, <1>8, <1>9 DEF Next, Handler, API, Environment

\* The tasks an observe schedules, when it gives birth to its prazo.
LEMMA BirthChecks ==
    ASSUME TypeOK, NEW p \in Prazo, OnIntimationObserved(p), NEW m \in inbox'
    PROVE  \/ m \in inbox
           \/ row[p].status = "none" /\ row'[p].status # "none" /\ m \in scheduleChecks(p, row'[p].calc)
  <1>1. CASE row[p].status # "none"
    BY <1>1 DEF OnIntimationObserved
  <1>2. CASE row[p].status = "none"
    <2>1. PICK days \in Days, declared \in Days \cup {0}, ia \in BOOLEAN, obrigatoria \in BOOLEAN :
            LET born == Born(days, declared, ia, obrigatoria) IN
            /\ inbox' = (inbox \ {Observed(p)}) \cup scheduleChecks(p, born.end)
            /\ row' = [row EXCEPT ![p] = born]
      BY <1>2 DEF OnIntimationObserved, Handled
    <2> DEFINE born == Born(days, declared, ia, obrigatoria)
    <2>2. born.calc = born.end /\ born.status # "none"
      BY DEF Born, NoRow
    <2>3. row'[p] = born
      BY <2>1 DEF TypeOK
    <2>4. inbox' = (inbox \ {Observed(p)}) \cup scheduleChecks(p, born.end)
      BY <2>1
    <2> HIDE DEF born
    <2> QED
      BY <1>2, <2>2, <2>3, <2>4
  <1> QED
    BY <1>1, <1>2

\* A handler publishes no event of another service, loses none and lets no day
\* pass; only the handler of a birth adds to the inbox.
LEMMA HandlerFrame ==
    ASSUME Handler
    PROVE  /\ lost' = lost /\ today' = today
           /\ inbox' \subseteq inbox \/ \E p \in Prazo : OnIntimationObserved(p)
  <1>1. ASSUME NEW p \in Prazo, OnIntimationObserved(p)
        PROVE  lost' = lost /\ today' = today
    <2>1. \E written, facts : Handled(written, facts)
      <3>1. CASE row[p].status # "none"
        BY <1>1, <3>1 DEF OnIntimationObserved
      <3>2. CASE ~(row[p].status # "none")
        <4>1. PICK days \in Days, declared \in Days \cup {0}, ia \in BOOLEAN, obrigatoria \in BOOLEAN :
                Handled([row EXCEPT ![p] = Born(days, declared, ia, obrigatoria)],
                        {Fact("opened", p, 0), Fact("seal_assigned", p, 0)})
          BY <1>1, <3>2 DEF OnIntimationObserved
        <4> QED
          BY <4>1
      <3> QED
        BY <3>1, <3>2
    <2> QED
      BY <2>1 DEF Handled
  <1>2. ASSUME NEW p \in Prazo, OnIntimationCancelled(p)
        PROVE  lost' = lost /\ today' = today /\ inbox' \subseteq inbox
    BY <1>2 DEF OnIntimationCancelled, Handled
  <1>3. ASSUME OnReminderCheck
        PROVE  lost' = lost /\ today' = today /\ inbox' \subseteq inbox
    BY <1>3 DEF OnReminderCheck, Handled
  <1>4. ASSUME OnMissedCheck
        PROVE  lost' = lost /\ today' = today /\ inbox' \subseteq inbox
    BY <1>4 DEF OnMissedCheck, Handled
  <1>5. ASSUME NEW s \in Session, ListReconcilable(s) \/ ListForConclusion(s)
        PROVE  lost' = lost /\ today' = today /\ inbox' = inbox
    BY <1>5 DEF ListReconcilable, ListForConclusion, Open
  <1> QED
    BY <1>1, <1>2, <1>3, <1>4, <1>5 DEF Handler

\* A request of the API changes rows or opens a session, and leaves the events
\* and the day alone.
LEMMA ApiFrame ==
    ASSUME API
    PROVE  inbox' = inbox /\ lost' = lost /\ today' = today
  <1>1. ASSUME NEW p \in Prazo, Confirm(p)
        PROVE  inbox' = inbox /\ lost' = lost /\ today' = today
    BY <1>1 DEF Confirm
  <1>2. ASSUME NEW s \in Session, NEW x, Open(s, x)
        PROVE  inbox' = inbox /\ lost' = lost /\ today' = today
    BY <1>2 DEF Open
  <1>3. ASSUME NEW p \in Prazo, NEW s \in Session, BeginFlip(s, p)
        PROVE  \E x : Open(s, x)
    BY <1>3 DEF BeginFlip
  <1>4. ASSUME NEW p \in Prazo, NEW s \in Session, BeginAdjust(s, p)
        PROVE  \E x : Open(s, x)
    BY <1>4 DEF BeginAdjust
  <1>5. ASSUME NEW p \in Prazo, NEW s \in Session, BeginApurar(s, p)
        PROVE  \E x : Open(s, x)
    BY <1>5 DEF BeginApurar
  <1>6. ASSUME NEW p \in Prazo, NEW s \in Session,
               BeginFlip(s, p) \/ BeginAdjust(s, p) \/ BeginApurar(s, p)
        PROVE  inbox' = inbox /\ lost' = lost /\ today' = today
    BY <1>2, <1>3, <1>4, <1>5, <1>6
  <1> QED
    BY <1>1, <1>6 DEF API

\* Where the events and checks of a step come from: they were there, or
\* acquisition published them, or a birth scheduled them.
LEMMA MessagesStep ==
    ASSUME TypeOK, [Next]_vars, NEW m \in inbox' \cup lost'
    PROVE  \/ m \in inbox \cup lost
           \/ m.type \in {"observed", "cancelled", "docket_entry", "archived"}
           \/ \E p \in Prazo : /\ row[p].status = "none" /\ row'[p].status # "none"
                               /\ m \in scheduleChecks(p, row'[p].calc)
  <1>1. CASE m \in lost'
    <2>1. lost' \subseteq inbox \cup lost
      <3>1. CASE Handler
        BY <3>1, HandlerFrame
      <3>2. CASE API
        BY <3>2, ApiFrame
      <3>3. CASE Environment \/ UNCHANGED vars
        BY <3>3 DEF Environment, Tick, DocketEntry, Publish, Produce, Lose, Abort, vars
      <3>4. CASE \E s \in Session : Commit(s)
        BY <3>4 DEF Commit, CommitFlip, CommitAdjust, CommitApurar, Close
      <3> QED
        BY <3>1, <3>2, <3>3, <3>4 DEF Next
    <2> QED
      BY <1>1, <2>1
  <1>2. CASE m \in inbox'
    <2>1. ASSUME NEW p \in Prazo, OnIntimationObserved(p)
          PROVE  \/ m \in inbox
                 \/ row[p].status = "none" /\ row'[p].status # "none" /\ m \in scheduleChecks(p, row'[p].calc)
      BY <1>2, <2>1, BirthChecks
    <2>2. ASSUME Handler
          PROVE  inbox' \subseteq inbox \/ \E p \in Prazo : OnIntimationObserved(p)
      BY <2>2, HandlerFrame
    <2>3. ASSUME API PROVE inbox' = inbox
      BY <2>3, ApiFrame
    <2>4. ASSUME \/ Tick \/ Lose \/ UNCHANGED vars
                 \/ \E s \in Session : Abort(s)
          PROVE  inbox' \subseteq inbox
      BY <2>4 DEF Tick, Lose, Abort, vars
    <2>5. ASSUME DocketEntry \/ Publish
          PROVE  m \in inbox \/ m.type \in {"observed", "cancelled", "docket_entry", "archived"}
      <3>1. PICK n \in Docket \cup Archived \cup {Observed(p) : p \in Prazo}
                                 \cup {Cancelled(p) : p \in Prazo} :
              inbox' = inbox \cup {n}
        BY <2>5 DEF DocketEntry, Publish, Produce
      <3>2. n.type \in {"observed", "cancelled", "docket_entry", "archived"}
        BY DEF Docket, Archived, Observed, Cancelled, Message
      <3> QED
        BY <1>2, <3>1, <3>2
    <2>6. ASSUME NEW s \in Session, Commit(s) PROVE inbox' \subseteq inbox
      BY <2>6 DEF Commit, CommitFlip, CommitAdjust, CommitApurar, Close
    <2> QED
      BY <1>2, <2>1, <2>2, <2>3, <2>4, <2>5, <2>6 DEF Next, Environment
  <1> QED
    BY <1>1, <1>2

\* A check stays tied to the birth of its prazo, whatever moves the prazo.
LEMMA ChecksStep ==
    ASSUME IInv, [Next]_vars
    PROVE  /\ ChecksInv'
           /\ \A m \in (inbox \cup lost)' : m.type = "missed_check" =>
                 row'[m.of].status # "none" /\ m.at = row'[m.of].calc + 1
  <1> USE DEF IInv
  <1> SUFFICES ASSUME NEW m \in inbox' \cup lost', m.type \in {"reminder_check", "missed_check"}
               PROVE  /\ m.of \in Prazo /\ m.n \in Nat
                      /\ row'[m.of].status # "none"
                      /\ m.type = "reminder_check" => m.at = row'[m.of].calc - m.n
                      /\ m.type = "missed_check" => m.at = row'[m.of].calc + 1
    BY DEF ChecksInv
  <1>1. CASE m \in inbox \cup lost
    <2>1. /\ m.of \in Prazo /\ m.n \in Nat /\ row[m.of].status # "none"
          /\ m.type = "reminder_check" => m.at = row[m.of].calc - m.n
          /\ m.type = "missed_check" => m.at = row[m.of].calc + 1
      BY <1>1 DEF ChecksInv, TypeOK
    <2>2. row'[m.of].status # "none" /\ row'[m.of].calc = row[m.of].calc
      BY <2>1, RowTypes
    <2> QED
      BY <2>1, <2>2
  <1>2. ASSUME NEW p \in Prazo, row'[p].status # "none", m \in scheduleChecks(p, row'[p].calc)
        PROVE  /\ m.of = p /\ m.n \in Nat
               /\ m.type = "reminder_check" => m.at = row'[p].calc - m.n
               /\ m.type = "missed_check" => m.at = row'[p].calc + 1
    BY <1>2, DeadlineAssumptions DEF scheduleChecks, Message
  <1> QED
    BY <1>1, <1>2, MessagesStep

LEMMA InitInv == Init => IInv
  <1> SUFFICES ASSUME Init PROVE IInv
    OBVIOUS
  <1>1. NoRow \in Row /\ 0 \in Day
    BY CalendarFacts DEF NoRow, Row, Status, Day, Extra, Decisions
  <1>2. TypeOK
    BY <1>1 DEF Init, TypeOK, Idle
  <1>3. SessionsInv
    BY <1>1 DEF Init, SessionsInv, Idle, Op, Extra
  <1>4. ChecksInv
    BY DEF Init, ChecksInv
  <1>5. UnsureNeedsHuman /\ SealAgreesWithDecision /\ UnbornInv
    BY DEF Init, UnsureNeedsHuman, SealAgreesWithDecision, UnbornInv, NoRow
  <1> QED
    BY <1>2, <1>3, <1>4, <1>5 DEF IInv

LEMMA StepInv == IInv /\ [Next]_vars => IInv'
  <1> SUFFICES ASSUME IInv, [Next]_vars PROVE IInv'
    OBVIOUS
  <1>1. row' \in [Prazo -> Row]
    BY RowsStep DEF IInv
  <1>2. SessionsInv'
    BY SessionsStep DEF IInv
  <1>3. \A s \in Session : session'[s].on \subseteq Prazo /\ session'[s].end \in Day
    BY <1>2 DEF SessionsInv
  <1>4. today' \in Day
    <2>1. today' = today \/ (today < MaxDay /\ today' = today + 1)
      <3>1. CASE Handler
        BY <3>1, HandlerFrame
      <3>2. CASE API
        BY <3>2, ApiFrame
      <3>3. CASE Environment \/ UNCHANGED vars
        BY <3>3 DEF Environment, Tick, DocketEntry, Publish, Produce, Lose, Abort, vars
      <3>4. CASE \E s \in Session : Commit(s)
        BY <3>4 DEF Commit, CommitFlip, CommitAdjust, CommitApurar, Close
      <3> QED
        BY <3>1, <3>2, <3>3, <3>4 DEF Next
    <2>2. today \in Day
      BY DEF IInv, TypeOK
    <2> QED
      BY <2>1, <2>2, CalendarFacts DEF Day
  <1>5. TypeOK'
    BY <1>1, <1>3, <1>4, ChecksStep DEF TypeOK
  <1> QED
    BY <1>2, <1>5, ChecksStep, SealStep DEF IInv

\* The inductive invariant of the prazos, their checks and the transactions.
THEOREM Invariance == Spec => []IInv
  BY InitInv, StepInv, PTL DEF Spec

\* The rows, checks and sessions have their types: a stale session may only
\* write dates and counts the columns allow.
THEOREM TypeCorrect == Spec => []TypeOK
  <1>1. IInv => TypeOK
    BY DEF IInv
  <1> QED
    BY Invariance, <1>1, PTL

\* The floor: a prazo a_apurar is OPEN only after a human confirmed it
\* (deriveConfirmacaoExigida, ReopenNoDeadline, MarkNoDeadline).
THEOREM UnsureIsConfirmed == Spec => []UnsureNeedsHuman
  <1>1. IInv => UnsureNeedsHuman
    BY DEF IInv
  <1> QED
    BY Invariance, <1>1, PTL

\* The decision of a divergência and the seal of its prazo agree
\* (ApurarDivergencia: both UPDATEs hit or the transaction rolls back).
THEOREM SealFollowsDecision == Spec => []SealAgreesWithDecision
  <1>1. IInv => SealAgreesWithDecision
    BY DEF IInv
  <1> QED
    BY Invariance, <1>1, PTL
-----------------------------------------------------------------------------
\* The first decision of a divergência stands (UpdateCrossValidationDecision
\* requires decisao IS NULL): a second one, read before, hits no row.
THEOREM DecisionIsFinal == Spec => DecidedOnce
  <1>1. IInv /\ [Next]_vars => [\A p \in Prazo : row[p].decisao # "" => row'[p].decisao = row[p].decisao]_vars
    <2> SUFFICES ASSUME IInv, [Next]_vars, NEW p \in Prazo, row[p].decisao # ""
                 PROVE  row'[p].decisao = row[p].decisao
      OBVIOUS
    <2>1. row[p] \in Row /\ row[p].status # "none"
      BY DEF IInv, TypeOK, UnbornInv
    <2>2. ~Birth(p) /\ ~Decided(p)
      BY <2>1 DEF Birth, Decided
    <2> QED
      BY <2>1, <2>2, RowMoves DEF IInv, Row, Revocation, Miss, Flipped, Adjusted, Confirmed
  <1> QED
    BY <1>1, Invariance, PTL DEF Spec, DecidedOnce

\* Only a revocation or a human's Confirm moves a settled prazo: the guarded
\* UPDATEs of a check, a reconcile or a stale request miss it.
THEOREM SettledIsFinal == Spec => SettledStays
  <1>1. ASSUME IInv, [Next]_vars, NEW p \in Prazo,
               row[p].status \in {"MET", "CANCELLED", "RESOLVED_ON_CONCLUSION"}
        PROVE  \/ row'[p].status = row[p].status
               \/ row'[p].status = "CANCELLED"
               \/ row'[p].status = "OPEN" /\ Fact("updated", p, 0) \in emitted'
    <2> USE DEF Row
    <2>0. row[p] \in Row
      BY <1>1 DEF IInv, TypeOK
    <2>1. ~Birth(p) /\ ~Miss(p)
      BY <1>1 DEF Birth, Miss, MarkMissed
    <2>2. ~Flipped(p)
      <3>1. \A op \in DOMAIN Flip : Flip[op].from \subseteq {"PENDING", "OPEN", "MISSED", "NO_DEADLINE"}
        BY FlipFacts
      <3> QED
        BY <1>1, <3>1 DEF Flipped
    <2>3. CASE Revocation(p)
      BY <2>0, <2>3 DEF Revocation
    <2>4. CASE Adjusted(p)
      BY <2>0, <2>4 DEF Adjusted
    <2>5. CASE Confirmed(p)
      BY <2>0, <2>5 DEF Confirmed
    <2>6. CASE Decided(p)
      BY <2>0, <2>6 DEF Decided, Apurado
    <2> QED
      BY <1>1, <2>1, <2>2, <2>3, <2>4, <2>5, <2>6, RowMoves DEF IInv
  <1>2. IInv /\ [Next]_vars =>
          [\A p \in Prazo :
            /\ row[p].status \in {"MET", "CANCELLED", "RESOLVED_ON_CONCLUSION"}
            /\ row'[p].status # row[p].status
            => \/ row'[p].status = "CANCELLED"
               \/ row'[p].status = "OPEN" /\ Fact("updated", p, 0) \in emitted']_vars
    BY <1>1
  <1> QED
    BY <1>2, Invariance, PTL DEF Spec, SettledStays

\* Only the reminder handler publishes deadline.due_soon.
LEMMA ReminderFacts ==
    ASSUME Next, NEW f \in emitted', f.type = "due_soon"
    PROVE  OnReminderCheck
  <1>1. ASSUME NEW p \in Prazo, OnIntimationObserved(p) \/ OnIntimationCancelled(p) PROVE FALSE
    <2>1. emitted' \subseteq {Fact("opened", p, 0), Fact("seal_assigned", p, 0), Fact("revoked", p, 0)}
      BY <1>1 DEF OnIntimationObserved, OnIntimationCancelled, Handled
    <2> QED
      BY <2>1 DEF Fact
  <1>2. ASSUME OnMissedCheck PROVE FALSE
    <2>1. PICK m \in inbox : \/ Handled([row EXCEPT ![m.of].status = "MISSED"], {Fact("missed", m.of, 0)})
                             \/ Handled(row, {})
      BY <1>2 DEF OnMissedCheck
    <2> QED
      BY <2>1 DEF Handled, Fact
  <1>3. ASSUME NEW p \in Prazo, Confirm(p) PROVE FALSE
    BY <1>3 DEF Confirm, Fact
  <1>4. ASSUME NEW s \in Session, CommitFlip(s) PROVE FALSE
    <2>1. PICK p : f = Fact(Flip[session[s].op].fact, p, 0)
      BY <1>4 DEF CommitFlip
    <2>2. \A op \in DOMAIN Flip : Flip[op].fact # "due_soon"
      BY DEF Flip
    <2> QED
      BY <1>4, <2>1, <2>2 DEF CommitFlip, Fact
  <1>5. ASSUME NEW s \in Session, CommitAdjust(s) \/ CommitApurar(s) PROVE FALSE
    <2>1. ~CommitAdjust(s)
      <3> SUFFICES ASSUME CommitAdjust(s) PROVE FALSE
        OBVIOUS
      <3>1. emitted' = {Fact("updated", p, 0) : p \in session[s].on}
        BY DEF CommitAdjust
      <3>2. PICK p \in session[s].on : f = Fact("updated", p, 0)
        BY <3>1
      <3> QED
        BY <3>2 DEF Fact
    <2>2. ~CommitApurar(s)
      BY DEF CommitApurar, Fact
    <2> QED
      BY <1>5, <2>1, <2>2
  <1>6. ASSUME \/ \E s \in Session : ListReconcilable(s) \/ ListForConclusion(s) \/ Abort(s)
               \/ \E s \in Session, p \in Prazo : BeginFlip(s, p) \/ BeginAdjust(s, p) \/ BeginApurar(s, p)
               \/ Tick \/ DocketEntry \/ Publish \/ Lose
        PROVE  FALSE
    BY <1>6 DEF ListReconcilable, ListForConclusion, Abort, BeginFlip, BeginAdjust, BeginApurar, Open,
                Tick, DocketEntry, Publish, Produce, Lose
  <1> QED
    BY <1>1, <1>2, <1>3, <1>4, <1>5, <1>6 DEF Next, Handler, API, Environment, Commit

\* "n days left" is never told too soon while the first end date stands: the
\* check keeps the date of the birth and is not delivered before its ETA.
THEOREM ReminderOnTime == Spec => ReminderNotEarly
  <1>1. ASSUME IInv, Next, NEW f \in emitted', f.type = "due_soon", row[f.of].end = row[f.of].calc
        PROVE  row[f.of].end - today <= f.daysLeft
    <2>1. OnReminderCheck
      BY <1>1, ReminderFacts
    <2>2. PICK m \in inbox : /\ m.type = "reminder_check" /\ m.at <= today
                             /\ f = Fact("due_soon", m.of, m.n)
      BY <1>1, <2>1 DEF OnReminderCheck, Deliverable, Handled
    <2>3. /\ m.of \in Prazo /\ m.n \in Nat
          /\ m.at = row[m.of].calc - m.n
      BY <1>1, <2>2 DEF IInv, ChecksInv
    <2>4. row[m.of].calc \in Int /\ today \in Int
      <3>1. row[m.of].calc \in Day /\ today \in Day
        BY <1>1, <2>3 DEF IInv, TypeOK, Row
      <3> QED
        BY <3>1, CalendarFacts DEF Day
    <2>5. f.of = m.of /\ f.daysLeft = m.n
      BY <2>2 DEF Fact
    <2> QED
      BY <1>1, <2>2, <2>3, <2>4, <2>5
  <1>2. IInv /\ [Next]_vars =>
          [\A f \in emitted' :
            f.type = "due_soon" /\ row[f.of].end = row[f.of].calc
            => row[f.of].end - today <= f.daysLeft]_vars
    BY <1>1
  <1> QED
    BY <1>2, Invariance, PTL DEF Spec, ReminderNotEarly
-----------------------------------------------------------------------------
\* What a step must tell of prazo p: each move, and only a move that happened.
Moved(p, to)   == row'[p].status = to /\ row[p].status \notin {to, "none"}
Told(p, fact)  == Fact(fact, p, 0) \in emitted'
Matches(p) ==
    /\ Told(p, "met") <=> Moved(p, "MET")
    /\ Told(p, "missed") <=> Moved(p, "MISSED")
    /\ Told(p, "revoked") <=> Moved(p, "CANCELLED")
    /\ Told(p, "reopened") <=> Moved(p, "PENDING")
    /\ Told(p, "no_deadline") <=> Moved(p, "NO_DEADLINE")
    /\ Told(p, "resolved_on_conclusion") <=> Moved(p, "RESOLVED_ON_CONCLUSION")

\* A step that tells of no move and makes none but a birth or a Confirm.
LEMMA QuietSteps ==
    ASSUME NEW p \in Prazo,
           row'[p].status \in {row[p].status, "OPEN"} \/ row[p].status = "none",
           \A f \in emitted' : f.type \in {"opened", "seal_assigned", "updated", "due_soon"}
    PROVE  Matches(p)
  BY DEF Matches, Moved, Told, Fact

\* A guarded flip moves the rows it hits and tells of exactly those.
LEMMA FlipTells ==
    ASSUME TypeOK, NEW s \in Session, CommitFlip(s), NEW p \in Prazo
    PROVE  Matches(p)
  <1> DEFINE op == session[s].op
  <1>1. op \in DOMAIN Flip
    BY DEF CommitFlip
  <1>2. CASE p \notin GuardedHits(s)
    <2>1. row'[p] = row[p]
      BY <1>2 DEF CommitFlip
    <2>2. \A fact : Fact(fact, p, 0) \notin emitted'
      BY <1>2 DEF CommitFlip, Fact
    <2> QED
      BY <2>1, <2>2 DEF Matches, Moved, Told
  <1>3. CASE p \in GuardedHits(s)
    <2>1. row[p].status \in Flip[op].from
      BY <1>3 DEF GuardedHits
    <2>2. row'[p].status = Flip[op].to
      <3>1. row[p] \in Row
        BY DEF TypeOK
      <3> QED
        BY <1>3, <3>1 DEF CommitFlip, Row
    <2>3. \A fact : Fact(fact, p, 0) \in emitted' <=> fact = Flip[op].fact
      BY <1>3 DEF CommitFlip, Fact
    <2> HIDE DEF op
    <2>4. /\ op = "met" \/ op = "reconcile" => Flip[op].to = "MET" /\ Flip[op].fact = "met"
          /\ op = "missed" => Flip[op].to = "MISSED" /\ Flip[op].fact = "missed"
          /\ op = "no_deadline" => Flip[op].to = "NO_DEADLINE" /\ Flip[op].fact = "no_deadline"
          /\ op = "reopen" => Flip[op].to = "PENDING" /\ Flip[op].fact = "reopened"
          /\ op = "conclude" => /\ Flip[op].to = "RESOLVED_ON_CONCLUSION"
                                /\ Flip[op].fact = "resolved_on_conclusion"
      BY DEF Flip
    <2>5. row[p].status \notin {Flip[op].to, "none"}
      BY <1>1, <2>1, FlipFacts
    <2>6. op \in {"met", "missed", "no_deadline", "reopen", "reconcile", "conclude"}
      BY <1>1, FlipFacts
    <2> QED
      BY <2>2, <2>3, <2>4, <2>5, <2>6 DEF Matches, Moved, Told
  <1> QED
    BY <1>2, <1>3

\* Every step tells what it does to every prazo.
LEMMA StepTells ==
    ASSUME IInv, Next, NEW p \in Prazo
    PROVE  Matches(p)
  <1>0. TypeOK /\ row \in [Prazo -> Row] /\ row[p] \in Row
    BY DEF IInv, TypeOK
  <1>1. ASSUME NEW q \in Prazo, OnIntimationObserved(q) PROVE Matches(p)
    <2>1. emitted' \subseteq {Fact("opened", q, 0), Fact("seal_assigned", q, 0)}
      BY <1>1 DEF OnIntimationObserved, Handled
    <2>2. row'[p] = row[p] \/ row[p].status = "none"
      BY <1>0, <1>1 DEF OnIntimationObserved, Handled
    <2> QED
      BY <2>1, <2>2, QuietSteps DEF Fact
  <1>2. ASSUME NEW q \in Prazo, OnIntimationCancelled(q) PROVE Matches(p)
    <2>1. CASE row[q].status \in {"none", "CANCELLED"}
      BY <1>2, <2>1, QuietSteps DEF OnIntimationCancelled, Handled
    <2>2. CASE row[q].status \notin {"none", "CANCELLED"}
      <3>1. row' = [row EXCEPT ![q].status = "CANCELLED"] /\ emitted' = {Fact("revoked", q, 0)}
        BY <1>2, <2>2 DEF OnIntimationCancelled, Handled
      <3>2. CASE p = q
        <4>1. row'[p].status = "CANCELLED"
          BY <1>0, <3>1, <3>2 DEF Row
        <4> QED
          BY <2>2, <3>1, <3>2, <4>1 DEF Matches, Moved, Told, Fact
      <3>3. CASE p # q
        <4>1. row'[p] = row[p]
          BY <1>0, <3>1, <3>3
        <4> QED
          BY <3>1, <3>3, <4>1 DEF Matches, Moved, Told, Fact
      <3> QED
        BY <3>2, <3>3
    <2> QED
      BY <2>1, <2>2
  <1>3. ASSUME OnMissedCheck PROVE Matches(p)
    <2>1. PICK m \in inbox :
            /\ m.type = "missed_check"
            /\ \/ /\ MarkMissed(m.of)
                  /\ row' = [row EXCEPT ![m.of].status = "MISSED"] /\ emitted' = {Fact("missed", m.of, 0)}
               \/ row' = row /\ emitted' = {}
      BY <1>3 DEF OnMissedCheck, Handled
    <2>2. m.of \in Prazo
      BY <2>1 DEF IInv, ChecksInv
    <2>3. CASE row' = row /\ emitted' = {}
      BY <2>3, QuietSteps
    <2>4. CASE /\ MarkMissed(m.of)
               /\ row' = [row EXCEPT ![m.of].status = "MISSED"] /\ emitted' = {Fact("missed", m.of, 0)}
      <3>1. CASE p = m.of
        <4>1. row[p].status = "OPEN" /\ row'[p].status = "MISSED"
          BY <1>0, <2>4, <3>1 DEF MarkMissed, Row
        <4> QED
          BY <2>4, <3>1, <4>1 DEF Matches, Moved, Told, Fact
      <3>2. CASE p # m.of
        <4>1. row'[p] = row[p]
          BY <1>0, <2>4, <3>2
        <4> QED
          BY <2>4, <3>2, <4>1 DEF Matches, Moved, Told, Fact
      <3> QED
        BY <3>1, <3>2
    <2> QED
      BY <2>1, <2>3, <2>4
  <1>4. ASSUME OnReminderCheck PROVE Matches(p)
    <2>1. row' = row /\ \A f \in emitted' : f.type = "due_soon"
      BY <1>4 DEF OnReminderCheck, Handled, Fact
    <2> QED
      BY <2>1, QuietSteps
  <1>5. ASSUME NEW q \in Prazo, Confirm(q) PROVE Matches(p)
    <2>1. PICK days \in Days, extra \in Extra :
            row' = [row EXCEPT ![q].status = "OPEN", ![q].days = days, ![q].extra = extra,
                               ![q].end = CountDays[days + extra], ![q].confirmed = TRUE]
      BY <1>5 DEF Confirm
    <2>2. row'[p].status \in {row[p].status, "OPEN"}
      BY <1>0, <2>1 DEF Row
    <2>3. \A f \in emitted' : f.type = "updated"
      BY <1>5 DEF Confirm, Fact
    <2> QED
      BY <2>2, <2>3, QuietSteps
  <1>6. ASSUME NEW s \in Session, CommitAdjust(s) PROVE Matches(p)
    <2>1. row'[p].status = row[p].status
      BY <1>0, <1>6 DEF CommitAdjust, Row
    <2>2. emitted' = {Fact("updated", q, 0) : q \in session[s].on}
      BY <1>6 DEF CommitAdjust
    <2>3. \A f \in emitted' : f.type = "updated"
      BY <2>2 DEF Fact
    <2> QED
      BY <2>1, <2>3, QuietSteps
  <1>7. ASSUME NEW s \in Session, CommitApurar(s) PROVE Matches(p)
    <2>1. row'[p].status = row[p].status
      BY <1>0, <1>7 DEF CommitApurar, Apurado, Row
    <2>2. emitted' = {Fact("seal_assigned", q, 0) : q \in ApurarHits(s)}
      BY <1>7 DEF CommitApurar
    <2>3. \A f \in emitted' : f.type = "seal_assigned"
      BY <2>2 DEF Fact
    <2> QED
      BY <2>1, <2>3, QuietSteps
  <1>8. ASSUME \/ \E s \in Session : ListReconcilable(s) \/ ListForConclusion(s) \/ Abort(s)
               \/ \E s \in Session, q \in Prazo : BeginFlip(s, q) \/ BeginAdjust(s, q) \/ BeginApurar(s, q)
               \/ Tick \/ DocketEntry \/ Publish \/ Lose
        PROVE  Matches(p)
    <2>1. row' = row /\ emitted' = {}
      BY <1>8 DEF ListReconcilable, ListForConclusion, Abort, BeginFlip, BeginAdjust, BeginApurar, Open,
                  Tick, DocketEntry, Publish, Produce, Lose
    <2> QED
      BY <2>1, QuietSteps
  <1> QED
    BY <1>0, <1>1, <1>2, <1>3, <1>4, <1>5, <1>6, <1>7, <1>8, FlipTells
       DEF Next, Handler, API, Environment, Commit

\* No fact of a prazo is a phantom and none of its moves is silent: the facts
\* of a guarded UPDATE are those of the rows it hit.
THEOREM FactsAreMoves == Spec => FactsMatchMoves
  <1>1. IInv /\ [Next]_vars =>
          [\A p \in Prazo :
            LET Goes(to)  == row'[p].status = to /\ row[p].status \notin {to, "none"}
                Says(fact) == Fact(fact, p, 0) \in emitted'
            IN  /\ Says("met") <=> Goes("MET")
                /\ Says("missed") <=> Goes("MISSED")
                /\ Says("revoked") <=> Goes("CANCELLED")
                /\ Says("reopened") <=> Goes("PENDING")
                /\ Says("no_deadline") <=> Goes("NO_DEADLINE")
                /\ Says("resolved_on_conclusion") <=> Goes("RESOLVED_ON_CONCLUSION")]_vars
    BY StepTells DEF Matches, Moved, Told
  <1> QED
    BY <1>1, Invariance, PTL DEF Spec, FactsMatchMoves
=============================================================================
