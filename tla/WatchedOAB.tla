----------------------------- MODULE WatchedOAB -----------------------------
(***************************************************************************)
(* The life of a tenant's watched OABs: the API edits the integration's    *)
(* scope and toggles single OABs, integration_activated adds or re-enables *)
(* every OAB of its scope, a brand-new OAB gets the history backfill and a *)
(* re-enabled one a catch-up sync over its downtime, whose sync_completed  *)
(* compare-and-clears catch_up_since.                                      *)
(*                                                                         *)
(* Transactions run at READ COMMITTED: UpsertWatchedOAB reads prior_row in *)
(* the statement's snapshot and then waits for the row, which another      *)
(* transaction may have inserted meanwhile; the row locks are held to the  *)
(* commit. The legacy path (no history matcher) is modelled.               *)
(***************************************************************************)
EXTENDS Integers, Sequences, FiniteSets

CONSTANTS
    OAB,          \* OAB keys
    Tx,           \* concurrent transactions of the API and the worker
    MaxTime,      \* bound: instants
    MaxRequests,  \* bound: scope edits
    MaxCycles,    \* bound: times an OAB is switched off
    MaxToggles    \* bound: switch-on requests

NoTx == "none"

WatchedAssumptions ==
    /\ MaxTime \in Nat \ {0}
    /\ {MaxRequests, MaxCycles, MaxToggles} \subseteq Nat
    /\ NoTx \notin Tx

VARIABLES
    now,        \* the clock
    scope,      \* integration.scope; {} before the integration exists
    requests,   \* scope edits so far
    toggles,    \* switch-on requests so far
    activated,  \* integration_activated events: their scopes, in order
    processed,  \* processed_event of consumerBackfill
    row,        \* watched_oab
    lock,       \* the transaction that holds each row, or NoTx
    tx,         \* open transactions
    history,    \* history backfills created for each OAB
    reenabled,  \* watched_oab_reenabled events not handled yet
    syncs,      \* catch-up syncs whose close is not handled yet
    missed,     \* instants each OAB was switched off
    covered,    \* instants a catch-up sync of the OAB has fetched
    cycles      \* times each OAB was switched off

apiVars  == <<scope, requests, activated>>
rowVars  == <<row, history, reenabled, syncs>>
gapVars  == <<missed, covered, cycles>>
vars     == <<now, apiVars, toggles, processed, rowVars, lock, tx, gapVars>>

NULL == 0
Time == 1..MaxTime

NoRow == [state |-> "absent", disabledAt |-> NULL, catchUp |-> NULL]

Unread == [o \in OAB |-> "unread"]
Idle == [kind |-> "idle", ev |-> 0, want |-> {}, changed |-> FALSE,
         todo |-> {}, prior |-> Unread]

Init ==
    /\ now = 1
    /\ scope = {}
    /\ requests = 0
    /\ toggles = 0
    /\ activated = <<>>
    /\ processed = {}
    /\ row = [o \in OAB |-> NoRow]
    /\ lock = [o \in OAB |-> NoTx]
    /\ tx = [h \in Tx |-> Idle]
    /\ history = [o \in OAB |-> 0]
    /\ reenabled = {}
    /\ syncs = {}
    /\ missed = [o \in OAB |-> {}]
    /\ covered = [o \in OAB |-> {}]
    /\ cycles = [o \in OAB |-> 0]
-----------------------------------------------------------------------------
(* The API edits the scope: a read, then an upsert of the whole scope.     *)

\* activationChanged; a reordered list of OABs also counts as a change.
activationChanged(before, after, reordered) ==
    before # after \/ (reordered /\ Cardinality(after) > 1)

BeginScopeEdit(h, kind, S, reordered) ==
    /\ tx[h] = Idle
    /\ requests < MaxRequests
    /\ requests' = requests + 1
    /\ tx' = [tx EXCEPT ![h] = [Idle EXCEPT !.kind = kind, !.want = S,
                                  !.changed = activationChanged(scope, S, reordered)]]
    /\ UNCHANGED <<now, scope, activated, toggles, processed, rowVars, lock, gapVars>>

\* currentIntegration, then the new OAB is appended to what was read.
AddWatchedOAB(h, o) == BeginScopeEdit(h, "add", scope \cup {o}, FALSE)

ActivateIntegration(h, S) ==
    S # {} /\ \E reordered \in BOOLEAN : BeginScopeEdit(h, "activate", S, reordered)

\* UpsertIntegration overwrites the scope; the event carries the scope written.
CommitScopeEdit(h) ==
    /\ tx[h].kind \in {"add", "activate"}
    /\ scope' = tx[h].want
    /\ activated' = IF tx[h].changed THEN Append(activated, tx[h].want) ELSE activated
    /\ tx' = [tx EXCEPT ![h] = Idle]
    /\ UNCHANGED <<now, requests, toggles, processed, rowVars, lock, gapVars>>
-----------------------------------------------------------------------------
(* UpsertWatchedOAB, statement by statement.                               *)

\* OnIntegrationActivated opens its transaction. A second execution of the
\* same event waits on processed_event and then no-ops, so it is left out.
OnIntegrationActivated(h, e) ==
    /\ tx[h] = Idle
    /\ e \in (1..Len(activated)) \ processed
    /\ \A g \in Tx : tx[g].ev # e
    /\ tx' = [tx EXCEPT ![h] = [Idle EXCEPT !.kind = "activated", !.ev = e, !.todo = activated[e]]]
    /\ UNCHANGED <<now, apiVars, toggles, processed, rowVars, lock, gapVars>>

\* ToggleWatchedOAB(enabled = true) opens its transaction.
ToggleOn(h, o) ==
    /\ tx[h] = Idle
    /\ scope # {}
    /\ toggles < MaxToggles
    /\ toggles' = toggles + 1
    /\ tx' = [tx EXCEPT ![h] = [Idle EXCEPT !.kind = "toggle", !.todo = {o}]]
    /\ UNCHANGED <<now, apiVars, processed, rowVars, lock, gapVars>>

\* The prior_row CTE, in the snapshot of the statement: committed rows only.
ReadPriorRow(h, o) ==
    /\ o \in tx[h].todo
    /\ \A p \in tx[h].todo : tx[h].prior[p] = "unread"
    /\ tx' = [tx EXCEPT ![h].prior[o] = row[o].state]
    /\ UNCHANGED <<now, apiVars, toggles, processed, rowVars, lock, gapVars>>

\* INSERT ... ON CONFLICT waits for the row; the lock is kept to the commit.
LockRow(h, o) ==
    /\ o \in tx[h].todo
    /\ tx[h].prior[o] # "unread"
    /\ lock[o] = NoTx
    /\ lock' = [lock EXCEPT ![o] = h]
    /\ tx' = [tx EXCEPT ![h].todo = @ \ {o}]
    /\ UNCHANGED <<now, apiVars, toggles, processed, rowVars, gapVars>>

Mine(h) == {o \in OAB : lock[o] = h}

COALESCE(a, b) == IF a # NULL THEN a ELSE b

\* The row the upsert leaves: a fresh one, or the DO UPDATE of the old one.
UpsertWatchedOAB(r) ==
    IF r.state = "absent"
    THEN [NoRow EXCEPT !.state = "on"]
    ELSE [r EXCEPT !.state = "on", !.catchUp = COALESCE(r.catchUp, r.disabledAt)]

Upserted(h) == [o \in OAB |-> IF o \in Mine(h) THEN UpsertWatchedOAB(row[o]) ELSE row[o]]

Release(h) ==
    /\ lock' = [o \in OAB |-> IF lock[o] = h THEN NoTx ELSE lock[o]]
    /\ tx' = [tx EXCEPT ![h] = Idle]

\* was_enabled = false: it was a real re-enable.
needsCatchUp(h) ==
    {o \in Mine(h) : tx[h].prior[o] = "off" /\ UpsertWatchedOAB(row[o]).catchUp # NULL}

\* was_enabled IS NULL: the row was not there.
needsHistory(h) == {o \in Mine(h) : tx[h].prior[o] = "absent"}

\* newCatchUpSyncRequested: one sync over the downtime, up to now.
newCatchUpSyncRequested(o, since) ==
    [oab |-> o, since |-> since, to |-> now, state |-> "running"]

\* Everything of the activation commits at once: the rows, one history
\* backfill for the new OABs, one catch-up for each re-enabled one, the mark.
CommitActivated(h) ==
    /\ tx[h].kind = "activated"
    /\ tx[h].todo = {}
    /\ row' = Upserted(h)
    /\ history' = [o \in OAB |-> history[o] + IF o \in needsHistory(h) THEN 1 ELSE 0]
    /\ syncs' = syncs \cup {newCatchUpSyncRequested(o, row'[o].catchUp) : o \in needsCatchUp(h)}
    /\ processed' = processed \cup {tx[h].ev}
    /\ Release(h)
    /\ UNCHANGED <<now, apiVars, toggles, reenabled, gapVars>>

\* Mutant: the toggle keeps the row it inserted.
toggleFoundAlways(h) == TRUE

\* A row that did not exist is ErrWatchedOABNotFound, which rolls back.
toggleFound(h) == needsHistory(h) = {}

CommitToggle(h) ==
    /\ tx[h].kind = "toggle"
    /\ tx[h].todo = {}
    /\ IF toggleFound(h)
       THEN /\ row' = Upserted(h)
            /\ reenabled' = reenabled \cup
                   {[oab |-> o, since |-> row'[o].catchUp] : o \in needsCatchUp(h)}
       ELSE UNCHANGED <<row, reenabled>>
    /\ Release(h)
    /\ UNCHANGED <<now, apiVars, toggles, processed, history, syncs, gapVars>>

\* A deadlock, a database error or a crash: the transaction leaves no trace.
Abort(h) ==
    /\ tx[h] # Idle
    /\ Release(h)
    /\ UNCHANGED <<now, apiVars, toggles, processed, rowVars, gapVars>>
-----------------------------------------------------------------------------
(* Downtime and catch-up.                                                  *)

\* Mutant: the UPDATE has no "enabled = true" guard.
DisableWatchedOABAgain(o) ==
    /\ row[o].state \in {"on", "off"}
    /\ row' = [row EXCEPT ![o].state = "off", ![o].disabledAt = now]

\* UPDATE ... WHERE enabled = true; a repeat leaves disabled_at alone.
DisableWatchedOAB(o) ==
    /\ row[o].state \in {"on", "off"}
    /\ row' = IF row[o].state = "on"
              THEN [row EXCEPT ![o].state = "off", ![o].disabledAt = now] ELSE row

\* ToggleWatchedOAB(enabled = false), one statement on one row.
ToggleOff(o) ==
    /\ lock[o] = NoTx
    /\ DisableWatchedOAB(o)
    /\ IF row[o].state = "on"
       THEN /\ cycles[o] < MaxCycles
            /\ cycles' = [cycles EXCEPT ![o] = @ + 1]
            /\ missed' = [missed EXCEPT ![o] = @ \cup {now}]
       ELSE UNCHANGED <<cycles, missed>>
    /\ UNCHANGED <<now, apiVars, toggles, processed, history, reenabled, syncs, lock, tx, covered>>

\* An OAB that is off is not captured; one that is on is, by the daily match.
Tick ==
    /\ now < MaxTime
    /\ now' = now + 1
    /\ missed' = [o \in OAB |-> IF row[o].state = "off" THEN missed[o] \cup {now'} ELSE missed[o]]
    /\ UNCHANGED <<apiVars, toggles, processed, rowVars, lock, tx, covered, cycles>>

OnWatchedOABReenabled(r) ==
    /\ r \in reenabled
    /\ reenabled' = reenabled \ {r}
    /\ syncs' = syncs \cup {newCatchUpSyncRequested(r.oab, r.since)}
    /\ UNCHANGED <<now, apiVars, toggles, processed, row, history, lock, tx, gapVars>>

\* The sync run closes OK; its sync_completed is on its way.
CatchUpSucceeds(x) ==
    /\ x \in syncs
    /\ x.state = "running"
    /\ syncs' = (syncs \ {x}) \cup {[x EXCEPT !.state = "completed"]}
    /\ covered' = [covered EXCEPT ![x.oab] = @ \cup x.since..x.to]
    /\ UNCHANGED <<now, apiVars, toggles, processed, row, history, reenabled, lock, tx, missed, cycles>>

\* The run closes FAILED: sync_failed deliberately clears nothing.
CatchUpFails(x) ==
    /\ x \in syncs
    /\ x.state = "running"
    /\ syncs' = syncs \ {x}
    /\ UNCHANGED <<now, apiVars, toggles, processed, row, history, reenabled, lock, tx, gapVars>>

\* ClearWatchedOABCatchUp: only if catch_up_since is still the dispatched one.
clearCatchUp(x) ==
    /\ x \in syncs
    /\ x.state = "completed"
    /\ lock[x.oab] = NoTx
    /\ syncs' = syncs \ {x}
    /\ row' = IF row[x.oab].catchUp = x.since
              THEN [row EXCEPT ![x.oab].catchUp = NULL] ELSE row
    /\ UNCHANGED <<now, apiVars, toggles, processed, history, reenabled, lock, tx, gapVars>>
-----------------------------------------------------------------------------
Next ==
    \/ Tick
    \/ \E h \in Tx :
         \/ \E o \in OAB : \/ AddWatchedOAB(h, o) \/ ToggleOn(h, o)
                           \/ ReadPriorRow(h, o) \/ LockRow(h, o)
         \/ \E S \in SUBSET OAB : ActivateIntegration(h, S)
         \/ \E e \in 1..MaxRequests : OnIntegrationActivated(h, e)
         \/ CommitScopeEdit(h) \/ CommitActivated(h) \/ CommitToggle(h) \/ Abort(h)
    \/ \E o \in OAB : ToggleOff(o)
    \/ \E r \in reenabled : OnWatchedOABReenabled(r)
    \/ \E x \in syncs : CatchUpSucceeds(x) \/ CatchUpFails(x) \/ clearCatchUp(x)

Spec == Init /\ [][Next]_vars
-----------------------------------------------------------------------------
\* The columns hold what the schema allows; an OAB that is off always knows
\* since when, which is what a catch-up starts from (DisableWatchedOAB).
TypeOK ==
    /\ now \in Time
    /\ scope \subseteq OAB
    /\ activated \in Seq(SUBSET OAB)
    /\ processed \subseteq 1..MaxRequests
    /\ row \in [OAB -> [state : {"absent", "on", "off"}, disabledAt : Time \cup {NULL},
                        catchUp : Time \cup {NULL}]]
    /\ lock \in [OAB -> Tx \cup {NoTx}]
    /\ tx \in [Tx -> [kind : {"idle", "add", "activate", "activated", "toggle"},
                      ev : 0..MaxRequests, want : SUBSET OAB, changed : BOOLEAN,
                      todo : SUBSET OAB,
                      prior : [OAB -> {"unread", "absent", "on", "off"}]]]
    /\ history \in [OAB -> Nat]
    /\ reenabled \subseteq [oab : OAB, since : Time]
    /\ syncs \subseteq [oab : OAB, since : Time, to : Time, state : {"running", "completed"}]
    /\ missed \in [OAB -> SUBSET Time]
    /\ covered \in [OAB -> SUBSET Time]
    /\ \A o \in OAB : row[o].state = "off" => row[o].disabledAt # NULL

\* A catch-up of o that will still fetch instant t.
InFlight(o, t) ==
    \/ \E r \in reenabled : r.oab = o /\ r.since <= t
    \/ \E x \in syncs : x.oab = o /\ x.state = "running" /\ t \in x.since..x.to

\* No instant of an OAB's downtime is forgotten once it is switched on again:
\* it has been fetched, is being fetched, or catch_up_since still marks it for
\* the next toggle to retry (watched_oab.sql: "a LATE sync_completed ...
\* clobbering a NEWER catch_up_since"; backfill.go: "a failed catch-up leaves
\* the gap marked").
NoGapForgotten ==
    \A o \in OAB : row[o].state = "on" =>
        \A t \in missed[o] \ covered[o] :
            \/ InFlight(o, t)
            \/ row[o].catchUp # NULL /\ row[o].catchUp <= t

\* An OAB that is watched had its history backfill requested, whichever of
\* the API, the toggle and concurrent activations created its row (backfill.go:
\* the per-OAB guard that replaced the one that "silently swallowed" OABs).
HistoryNotSwallowed ==
    \A o \in OAB : row[o].state # "absent" => history[o] >= 1
=============================================================================
