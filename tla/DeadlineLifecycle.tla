-------------------------- MODULE DeadlineLifecycle --------------------------
(***************************************************************************)
(* The life of a prazo (internal/deadline).  The worker gives birth to it  *)
(* from acquisition.intimation.observed, schedules its reminder and missed *)
(* checks, revokes it on intimation.cancelled, reconciles it with response *)
(* movements and resolves it when the court record is archived.  The API   *)
(* confirms, adjusts, apura, marks, dismisses and reopens it.              *)
(*                                                                         *)
(* Transactions run at READ COMMITTED: an operation reads the row, checks  *)
(* it and later writes it with a second statement.  A session is such a    *)
(* transaction between its read and its UPDATE; the row lock the UPDATE    *)
(* takes is held to the commit, so UPDATE and commit are one step.         *)
(*                                                                         *)
(* Events are consumed at most once (EventPipeline: EffectAtMostOnce), in  *)
(* any order, never before their ETA (NeverEarly); an archived task is a   *)
(* lost event.  Dates are days; every prazo starts on day 0.  CountDays    *)
(* stands for lib/calendar: the end date of a count of days.               *)
(***************************************************************************)
EXTENDS Integers, Sequences, FiniteSets

CONSTANTS
    Prazo,             \* intimações, each with its 1:1 prazo, of one court record
    Session,           \* concurrent transactions
    CountDays,         \* lib/calendar: the end date of each count of days
    ReminderDaysLeft,  \* reminderDaysLeft, the D-N marks
    MaxDay,            \* bound: the last day
    MaxEdits,          \* bound: API requests
    MaxEntries,        \* bound: docket entries
    MaxArchivals,      \* bound: court_record_archived events
    MaxAborts,         \* bound: transactions rolled back
    MaxLost            \* bound: events whose task asynq archives

ASSUME DeadlineAssumptions ==
    /\ {MaxDay, MaxEdits, MaxEntries, MaxArchivals, MaxAborts, MaxLost} \subseteq Nat
    /\ ReminderDaysLeft \subseteq Nat
    /\ CountDays \in Seq(1..(MaxDay - 1)) /\ Len(CountDays) > 1
    /\ \A i, j \in DOMAIN CountDays : i < j => CountDays[i] < CountDays[j]

VARIABLES
    today,     \* the current date
    row,       \* deadline and its cross_validation, one per intimação
    inbox,     \* events and scheduled checks not handled yet
    produced,  \* events acquisition has published
    answered,  \* the record has a response movement since day 0
    session,   \* open transactions
    emitted,   \* the facts the latest transaction put in the outbox
    lost,      \* events that were archived
    edits,     \* API requests so far
    aborts     \* transactions rolled back so far

bounds == <<edits, aborts>>
vars   == <<today, row, inbox, produced, answered, session, emitted, lost, bounds>>

Day    == 0..MaxDay
Counts == DOMAIN CountDays
Extra  == {0, 1}              \* manual_extra_days
Days   == {n \in Counts : n + 1 \in Counts}

Status    == {"none", "PENDING", "OPEN", "MET", "MISSED", "CANCELLED",
              "NO_DEADLINE", "RESOLVED_ON_CONCLUSION"}
Decisions == {"aceita_declarado", "aceita_calculado", "ajuste_manual"}

\* A deadline row: calc is the end date of its birth, decl the declared one,
\* cv the cross_validation.resultado, decisao its decision.
Row == [status : Status, end : Day, days : Days \cup {0}, extra : Extra,
        seal : {"confiavel", "a_apurar"}, confirmed : BOOLEAN, calc : Day,
        decl : Day, cv : {"none", "convergente", "divergente"},
        decisao : Decisions \cup {""}]
NoRow == [status |-> "none", end |-> 0, days |-> 0, extra |-> 0,
          seal |-> "confiavel", confirmed |-> FALSE, calc |-> 0, decl |-> 0,
          cv |-> "none", decisao |-> ""]

Message(type, of, n, at) == [type |-> type, of |-> of, n |-> n, at |-> at]
Observed(p)  == Message("observed", p, 0, 0)
Cancelled(p) == Message("cancelled", p, 0, 0)
Record       == "record"
Docket       == {Message("docket_entry", Record, n, 0) : n \in 1..MaxEntries}
Archived     == {Message("archived", Record, n, 0) : n \in 1..MaxArchivals}
NoMessage    == Message("request", Record, 0, 0)

Fact(type, p, daysLeft) == [type |-> type, of |-> p, daysLeft |-> daysLeft]

Idle == [op |-> "idle", on |-> {}, event |-> NoMessage, days |-> 0,
         extra |-> 0, end |-> 0]

Init ==
    /\ today = 0
    /\ row = [p \in Prazo |-> NoRow]
    /\ inbox = {}
    /\ produced = {}
    /\ answered = FALSE
    /\ session = [s \in Session |-> Idle]
    /\ emitted = {}
    /\ lost = {}
    /\ edits = 0
    /\ aborts = 0
-----------------------------------------------------------------------------
(* The environment: the days pass, acquisition publishes, tasks get lost.  *)

Tick ==
    /\ today < MaxDay
    /\ today' = today + 1
    /\ emitted' = {}
    /\ UNCHANGED <<row, inbox, produced, answered, session, lost, bounds>>

Produce(m) ==
    /\ m \notin produced
    /\ m.type = "cancelled" => Observed(m.of) \in produced
    /\ produced' = produced \cup {m}
    /\ inbox' = inbox \cup {m}
    /\ emitted' = {}
    /\ UNCHANGED <<today, row, session, lost, bounds>>

\* A new docket entry, a response to the prazos or not, with its event.
DocketEntry ==
    \E m \in Docket, response \in BOOLEAN :
        /\ Produce(m)
        /\ answered' = (answered \/ response)

Publish ==
    \E m \in Archived \cup {Observed(p) : p \in Prazo} \cup {Cancelled(p) : p \in Prazo} :
        /\ Produce(m)
        /\ UNCHANGED answered

\* No session is handling the event: asynq leases a task to one worker.
Unclaimed(m) == \A s \in Session : session[s].event # m

Lose ==
    /\ Cardinality(lost) < MaxLost
    /\ \E m \in inbox :
        /\ Unclaimed(m)
        /\ inbox' = inbox \ {m}
        /\ lost' = lost \cup {m}
    /\ emitted' = {}
    /\ UNCHANGED <<today, row, produced, answered, session, bounds>>

\* An event the worker may hand to its handler.
Deliverable(m) == m \in inbox /\ m.at <= today /\ Unclaimed(m)

\* A handler of one row runs as one step: it commits its write, its facts
\* and the dedup mark together.
Handled(written, facts) ==
    /\ row' = written
    /\ emitted' = facts
    /\ UNCHANGED <<today, produced, answered, session, lost, bounds>>
-----------------------------------------------------------------------------
(* Birth.                                                                  *)

\* Mutant: the policy alone decides.
deriveConfirmacaoExigidaByPolicy(seal, obrigatoria) == obrigatoria

\* The floor: a prazo a_apurar always needs a human.
deriveConfirmacaoExigida(seal, obrigatoria) == seal = "a_apurar" \/ obrigatoria

deriveSeal(ia, divergent) == IF divergent \/ ia THEN "a_apurar" ELSE "confiavel"

buildCrossValidation(declared, calculated) ==
    IF declared # calculated THEN "divergente" ELSE "convergente"

\* Mutant: the missed check is scheduled for the end date itself.
scheduleChecksSameDay(p, end) ==
    {m \in {Message("reminder_check", p, n, end - n) : n \in ReminderDaysLeft}
           \cup {Message("missed_check", p, 0, end)} : m.at > today}

\* Mutant: the grace lasts a day too long.
scheduleChecksSecondDay(p, end) ==
    {m \in {Message("reminder_check", p, n, end - n) : n \in ReminderDaysLeft}
           \cup {Message("missed_check", p, 0, end + 2)} : m.at > today}

\* Mutant: the reminders are a day ahead of their mark.
scheduleChecksDayAhead(p, end) ==
    {m \in {Message("reminder_check", p, n, end - n - 1) : n \in ReminderDaysLeft}
           \cup {Message("missed_check", p, 0, end + 1)} : m.at > today}

\* The marks that are still in the future: D-N reminders and the D+1 check.
scheduleChecks(p, end) ==
    {m \in {Message("reminder_check", p, n, end - n) : n \in ReminderDaysLeft}
           \cup {Message("missed_check", p, 0, end + 1)} : m.at > today}

\* The deadline row a birth inserts. declared is the count of days the
\* intimação declares (0: none that parses), ia whether the classifier of an
\* omissa intimação answered, obrigatoria the tenant's policy.
Born(days, declared, ia, obrigatoria) ==
    LET end  == CountDays[days]
        decl == IF declared = 0 THEN 0 ELSE CountDays[declared]
        cv   == IF declared = 0 THEN "none" ELSE buildCrossValidation(decl, end)
        seal == deriveSeal(ia, cv = "divergente")
    IN  [NoRow EXCEPT
            !.status = IF end + 1 <= today THEN "MISSED"
                       ELSE IF deriveConfirmacaoExigida(seal, obrigatoria)
                       THEN "PENDING" ELSE "OPEN",
            !.end = end, !.days = days, !.seal = seal,
            !.calc = end, !.decl = decl, !.cv = cv]

\* InsertDeadline is ON CONFLICT (notification_id) DO NOTHING: an existing
\* prazo is left alone and nothing is published or scheduled.
OnIntimationObserved(p) ==
    LET m == Observed(p) IN
    /\ Deliverable(m)
    /\ IF row[p].status # "none"
       THEN /\ inbox' = inbox \ {m}
            /\ Handled(row, {})
       ELSE \E days \in Days, declared \in Days \cup {0}, ia, obrigatoria \in BOOLEAN :
            /\ ia => declared = 0
            /\ LET born == Born(days, declared, ia, obrigatoria) IN
               /\ inbox' = (inbox \ {m}) \cup scheduleChecks(p, born.end)
               /\ Handled([row EXCEPT ![p] = born],
                          {Fact("opened", p, 0), Fact("seal_assigned", p, 0)})
-----------------------------------------------------------------------------
(* The handlers of one prazo.                                              *)

\* RevokeDeadlineByIntimation touches no row when there is none (the cancel
\* overtook the observe) or it is CANCELLED already.
OnIntimationCancelled(p) ==
    LET m   == Cancelled(p)
        hit == row[p].status \notin {"none", "CANCELLED"}
    IN  /\ Deliverable(m)
        /\ inbox' = inbox \ {m}
        /\ Handled(IF hit THEN [row EXCEPT ![p].status = "CANCELLED"] ELSE row,
                   IF hit THEN {Fact("revoked", p, 0)} ELSE {})

OnReminderCheck ==
    \E m \in inbox :
        /\ m.type = "reminder_check" /\ Deliverable(m)
        /\ inbox' = inbox \ {m}
        /\ Handled(row, IF row[m.of].status \in {"PENDING", "OPEN"}
                           THEN {Fact("due_soon", m.of, m.n)} ELSE {})

\* The guard of the MarkMissed UPDATE.
MarkMissed(p) == row[p].status = "OPEN" /\ row[p].end < today

\* Mutant: deadline.missed is published whether or not a row was flipped.
OnMissedCheckPhantom ==
    \E m \in inbox :
        /\ m.type = "missed_check" /\ Deliverable(m)
        /\ inbox' = inbox \ {m}
        /\ Handled(IF MarkMissed(m.of) THEN [row EXCEPT ![m.of].status = "MISSED"] ELSE row,
                   {Fact("missed", m.of, 0)})

OnMissedCheck ==
    \E m \in inbox :
        /\ m.type = "missed_check" /\ Deliverable(m)
        /\ inbox' = inbox \ {m}
        /\ IF MarkMissed(m.of)
           THEN Handled([row EXCEPT ![m.of].status = "MISSED"], {Fact("missed", m.of, 0)})
           ELSE Handled(row, {})
-----------------------------------------------------------------------------
(* Sessions: a read, then a write.                                         *)

Open(s, x) ==
    /\ session[s] = Idle
    /\ session' = [session EXCEPT ![s] = x]
    /\ emitted' = {}
    /\ UNCHANGED <<today, row, inbox, produced, answered, lost, aborts>>

Request == edits < MaxEdits /\ edits' = edits + 1

\* The session ends, with its event if it is a handler's.
Close(s) ==
    /\ session' = [session EXCEPT ![s] = Idle]
    /\ inbox' = inbox \ {session[s].event}
    /\ UNCHANGED <<today, produced, answered, lost, bounds>>

\* An error, a crash or a timeout rolls the transaction back; a handler's
\* event is delivered again.
Abort(s) ==
    /\ session[s] # Idle
    /\ aborts < MaxAborts
    /\ aborts' = aborts + 1
    /\ session' = [session EXCEPT ![s] = Idle]
    /\ emitted' = {}
    /\ UNCHANGED <<today, row, inbox, produced, answered, lost, edits>>

\* The operations that flip a status: the statuses they list or check for in
\* their read and require again in the WHERE of their UPDATE, the status they
\* set and the fact they publish.
Flip == [met         |-> [from |-> {"OPEN"}, to |-> "MET", fact |-> "met"],
         missed      |-> [from |-> {"OPEN"}, to |-> "MISSED", fact |-> "missed"],
         no_deadline |-> [from |-> {"PENDING", "OPEN"}, to |-> "NO_DEADLINE", fact |-> "no_deadline"],
         reopen      |-> [from |-> {"NO_DEADLINE"}, to |-> "PENDING", fact |-> "reopened"],
         reconcile   |-> [from |-> {"MISSED", "OPEN"}, to |-> "MET", fact |-> "met"],
         conclude    |-> [from |-> {"PENDING", "OPEN", "MISSED"},
                          to |-> "RESOLVED_ON_CONCLUSION", fact |-> "resolved_on_conclusion"]]

\* markStatus, NoDeadline and Reopen: the status is read and checked.
BeginFlip(s, p) ==
    \E op \in {"met", "missed", "no_deadline", "reopen"} :
        /\ row[p].status \in Flip[op].from
        /\ Request
        /\ Open(s, [Idle EXCEPT !.op = op, !.on = {p}])

\* Mutant: a MISSED prazo is not reconciled.
ListReconcilableOpenOnly(s) ==
    \E m \in Docket :
        /\ Deliverable(m)
        /\ Open(s, [Idle EXCEPT !.op = "reconcile", !.event = m,
               !.on = {p \in Prazo : answered /\ row[p].status = "OPEN"}])
        /\ UNCHANGED edits

\* OnDocketEntryObserved lists MISSED and OPEN prazos and keeps those that a
\* response movement answers; OnCourtRecordArchived lists what is pending.
ListReconcilable(s) ==
    \E m \in Docket :
        /\ Deliverable(m)
        /\ Open(s, [Idle EXCEPT !.op = "reconcile", !.event = m,
               !.on = {p \in Prazo : answered /\ row[p].status \in Flip["reconcile"].from}])
        /\ UNCHANGED edits

ListForConclusion(s) ==
    \E m \in Archived :
        /\ Deliverable(m)
        /\ Open(s, [Idle EXCEPT !.op = "conclude", !.event = m,
               !.on = {p \in Prazo : row[p].status \in Flip["conclude"].from}])
        /\ UNCHANGED edits

\* Mutant: the UPDATE trusts the status that was read before.
GuardedHitsBlind(s) == session[s].on

\* The rows whose status still satisfies the WHERE of the guarded UPDATE.
GuardedHits(s) == {p \in session[s].on : row[p].status \in Flip[session[s].op].from}

\* The guarded UPDATE of every row of the session, and its facts. A miss is
\* an error to the API and a no-op to the handlers: either way no change.
CommitFlip(s) ==
    LET op == session[s].op IN
    /\ op \in DOMAIN Flip
    /\ row' = [p \in Prazo |->
                 IF p \notin GuardedHits(s) THEN row[p]
                 ELSE [row[p] EXCEPT !.status = Flip[op].to,
                                     !.confirmed = CASE op = "no_deadline" -> TRUE
                                                     [] op = "reopen" -> FALSE
                                                     [] OTHER -> @]]
    /\ emitted' = {Fact(Flip[op].fact, p, 0) : p \in GuardedHits(s)}
    /\ Close(s)

\* Adjust reads the prazo, merges the patch over what it read and recomputes.
BeginAdjust(s, p) ==
    /\ row[p].status \in {"PENDING", "OPEN"}
    /\ Request
    /\ \E days \in Days, extra \in Extra :
        /\ (days = row[p].days) # (extra = row[p].extra)
        /\ Open(s, [Idle EXCEPT !.op = "adjust", !.on = {p}, !.days = days,
                                !.extra = extra, !.end = CountDays[days + extra]])

\* UpdateDeadlineAdjust writes every field and has no guard on the status.
CommitAdjust(s) ==
    /\ session[s].op = "adjust"
    /\ row' = [p \in Prazo |->
                 IF p \notin session[s].on THEN row[p]
                 ELSE [row[p] EXCEPT !.days = session[s].days, !.extra = session[s].extra,
                                     !.end = session[s].end]]
    /\ emitted' = {Fact("updated", p, 0) : p \in session[s].on}
    /\ Close(s)

\* Confirm has no status guard and writes only what the request carries.
Confirm(p) ==
    /\ row[p].status # "none"
    /\ Request
    /\ \E days \in Days, extra \in Extra :
           row' = [row EXCEPT ![p].status = "OPEN", ![p].days = days, ![p].extra = extra,
                              ![p].end = CountDays[days + extra], ![p].confirmed = TRUE]
    /\ emitted' = {Fact("updated", p, 0)}
    /\ UNCHANGED <<today, inbox, produced, answered, session, lost, aborts>>

\* The end date an apuração writes: the declared one, the one it left alone
\* or the one the lawyer picked.
BeginApurar(s, p) ==
    /\ row[p].status \notin {"none", "MET", "CANCELLED"}
    /\ row[p].cv = "divergente" /\ row[p].decisao = ""
    /\ Request
    /\ \/ Open(s, [Idle EXCEPT !.op = "aceita_declarado", !.on = {p}, !.end = row[p].decl])
       \/ Open(s, [Idle EXCEPT !.op = "aceita_calculado", !.on = {p}])
       \/ \E end \in 1..CountDays[Len(CountDays)] :
              Open(s, [Idle EXCEPT !.op = "ajuste_manual", !.on = {p}, !.end = end])

\* Mutant: accepting the calculated date returns before the seal is flipped.
ApuradoUnsealed(r, op, end) ==
    [r EXCEPT !.end = IF op = "aceita_calculado" THEN @ ELSE end,
              !.decisao = op, !.confirmed = TRUE,
              !.seal = IF op = "aceita_calculado" THEN @ ELSE "confiavel"]

\* The row after an apuração: no branch looks at the status again.
Apurado(r, op, end) ==
    [r EXCEPT !.end = IF op = "aceita_calculado" THEN @ ELSE end,
              !.decisao = op, !.seal = "confiavel", !.confirmed = TRUE]

\* Mutant: an UPDATE that hits no row is not an error.
ApurarHitsBlind(s) == session[s].on

\* UpdateCrossValidationDecision and UpdateDeadlineSelo both hit their row;
\* if one does not the whole transaction rolls back.
ApurarHits(s) ==
    {p \in session[s].on : row[p].decisao = "" /\ row[p].seal = "a_apurar"}

CommitApurar(s) ==
    LET op == session[s].op IN
    /\ op \in Decisions
    /\ row' = [p \in Prazo |-> IF p \in ApurarHits(s)
                               THEN Apurado(row[p], op, session[s].end) ELSE row[p]]
    /\ emitted' = {Fact("seal_assigned", p, 0) : p \in ApurarHits(s)}
    /\ Close(s)
-----------------------------------------------------------------------------
Handler ==
    \/ \E p \in Prazo : OnIntimationObserved(p) \/ OnIntimationCancelled(p)
    \/ OnReminderCheck
    \/ OnMissedCheck
    \/ \E s \in Session : ListReconcilable(s) \/ ListForConclusion(s)

Commit(s) == CommitFlip(s) \/ CommitAdjust(s) \/ CommitApurar(s)

API ==
    \E p \in Prazo :
        \/ Confirm(p)
        \/ \E s \in Session : BeginFlip(s, p) \/ BeginAdjust(s, p) \/ BeginApurar(s, p)

Environment == Tick \/ DocketEntry \/ Publish \/ Lose \/ \E s \in Session : Abort(s)

Next == Handler \/ API \/ Environment \/ \E s \in Session : Commit(s)

Spec == Init /\ [][Next]_vars

\* The days pass, workers keep taking tasks and transactions end.
Fairness ==
    /\ WF_vars(Tick)
    /\ WF_vars(OnReminderCheck) /\ WF_vars(OnMissedCheck)
    /\ \A p \in Prazo : WF_vars(OnIntimationObserved(p)) /\ WF_vars(OnIntimationCancelled(p))
    /\ WF_vars(\E s \in Session : ListReconcilable(s))
    /\ WF_vars(\E s \in Session : ListForConclusion(s))
    /\ \A s \in Session : WF_vars(Commit(s))

FairSpec == Spec /\ Fairness
-----------------------------------------------------------------------------
(* Properties.                                                             *)

\* The rows keep the values their columns allow, dates included, and a check
\* waits at most until the day after the end date it was scheduled for.
TypeOK ==
    /\ today \in Day
    /\ row \in [Prazo -> Row]
    /\ \A m \in inbox \cup lost :
           m.type = "missed_check" => row[m.of].status # "none" /\ m.at = row[m.of].calc + 1
    /\ \A s \in Session : session[s].on \subseteq Prazo /\ session[s].end \in Day

\* The "piso inegociável": a prazo the system is not sure of (a_apurar) is
\* OPEN only after a human confirmed it, whatever the policy of the tenant
\* and however it was dismissed and reopened (deriveConfirmacaoExigida,
\* ReopenNoDeadline).
UnsureNeedsHuman ==
    \A p \in Prazo : row[p].status = "OPEN" /\ row[p].seal = "a_apurar" => row[p].confirmed

\* A divergência is undecided exactly while its prazo is a_apurar: the two
\* tables never disagree, even when two apurações race (ApurarDivergencia).
SealAgreesWithDecision ==
    \A p \in Prazo : row[p].cv = "divergente" =>
        (row[p].decisao = "" <=> row[p].seal = "a_apurar")

\* A divergência is decided once: the first decision stands.
DecidedOnce ==
    [][\A p \in Prazo : row[p].decisao # "" => row'[p].decisao = row[p].decisao]_vars

\* A prazo that is met, revoked or resolved is moved by a revocation or by a
\* human's Confirm only: no check, no reconcile and no stale request
\* resurrects it.
SettledStays ==
    [][\A p \in Prazo :
        /\ row[p].status \in {"MET", "CANCELLED", "RESOLVED_ON_CONCLUSION"}
        /\ row'[p].status # row[p].status
        => \/ row'[p].status = "CANCELLED"
           \/ row'[p].status = "OPEN" /\ Fact("updated", p, 0) \in emitted']_vars

\* Every fact about a prazo is published with its transition and only with
\* it: no phantom deadline.met, missed, revoked, and none is silent (but the
\* one of a prazo born overdue).
FactsMatchMoves ==
    [][\A p \in Prazo :
        LET Moved(to) == row'[p].status = to /\ row[p].status \notin {to, "none"}
            Told(fact) == Fact(fact, p, 0) \in emitted'
        IN  /\ Told("met") <=> Moved("MET")
            /\ Told("missed") <=> Moved("MISSED")
            /\ Told("revoked") <=> Moved("CANCELLED")
            /\ Told("reopened") <=> Moved("PENDING")
            /\ Told("no_deadline") <=> Moved("NO_DEADLINE")
            /\ Told("resolved_on_conclusion") <=> Moved("RESOLVED_ON_CONCLUSION")]_vars

\* A reminder of a prazo with its first end date never overstates how near
\* the end is: "n days left" is told when at most n days are left.
ReminderNotEarly ==
    [][\A f \in emitted' :
        f.type = "due_soon" /\ row[f.of].end = row[f.of].calc
        => row[f.of].end - today <= f.daysLeft]_vars

\* A prazo that is OPEN while its check is pending, with an end date no
\* later than the one the check was scheduled for, does not stay OPEN past
\* it: it is missed, or somebody moves it or its date, or the check is lost.
ArmedIsCaught ==
    \A p \in Prazo :
        (row[p].status = "OPEN" /\ row[p].end <= row[p].calc
            /\ \E m \in inbox : m.type = "missed_check" /\ m.of = p)
        ~> \/ row[p].status # "OPEN" \/ row[p].end > row[p].calc
           \/ \E m \in lost : m.of = p

\* A response that lands while a prazo is OPEN or MISSED reconciles it, even
\* if the prazo moves between the listing and the UPDATE.
ResponseReconciles ==
    \A p \in Prazo :
        (answered /\ row[p].status \in {"OPEN", "MISSED"}
            /\ \E m \in inbox \cap Docket : Unclaimed(m))
        ~> (row[p].status \notin {"OPEN", "MISSED"} \/ lost # {})

\* The missed check marks at end_date + 1 a prazo that is still OPEN: none
\* stays OPEN for ever.
OverdueIsCaught ==
    \A p \in Prazo :
        (row[p].status = "OPEN" /\ today <= row[p].end)
        ~> (row[p].status # "OPEN" \/ lost # {})
-----------------------------------------------------------------------------
(* What makes the properties above inductive.                              *)

Op == {"idle", "adjust"} \cup DOMAIN Flip \cup Decisions

\* What a session read stays a legal write.
SessionsInv ==
    session \in [Session -> [op : Op, on : SUBSET Prazo,
                             event : Docket \cup Archived \cup {NoMessage},
                             days : Days \cup {0}, extra : Extra, end : Day]]

\* A check is about a prazo that was born, and keeps the date of its birth.
ChecksInv ==
    \A m \in inbox \cup lost : m.type \in {"reminder_check", "missed_check"} =>
        /\ m.of \in Prazo /\ m.n \in Nat
        /\ row[m.of].status # "none"
        /\ m.type = "reminder_check" => m.at = row[m.of].calc - m.n

\* An intimação without a prazo has no divergência to decide.
UnbornInv ==
    \A p \in Prazo : row[p].status = "none" => row[p].decisao = "" /\ row[p].seal = "confiavel"

IInv ==
    /\ TypeOK
    /\ SessionsInv
    /\ ChecksInv
    /\ UnbornInv
    /\ UnsureNeedsHuman
    /\ SealAgreesWithDecision
=============================================================================
