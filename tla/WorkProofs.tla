----------------------------- MODULE WorkProofs -----------------------------
(***************************************************************************)
(* Theorems of the slices MCWork composes: the watched OABs and the        *)
(* generation of a piece are proved here, the filing and the fetching of   *)
(* autos are instances of the modules that prove them, and the last        *)
(* section carries all of it to WorkSpec.                                  *)
(*                                                                         *)
(* Watched OABs. A transaction reads the state of a row before it waits    *)
(* for its lock, so what it read may be stale; but rows are never deleted, *)
(* and a row it found is there (TxInv). A gap begins after disabled_at     *)
(* while its OAB is off and after catch_up_since once it is on, and the    *)
(* event and the sync that catch it up span all of it (GapInv).            *)
(*                                                                         *)
(* Generation. The event of an EXTRACTING piece is the last one requested  *)
(* and has no mark: an execution of it either writes, which takes the      *)
(* piece out of EXTRACTING, or is answered for with a retry.               *)
(***************************************************************************)
EXTENDS MCWork, DocumentPipelineProofs, FiniteSetTheorems, TLAPS
-----------------------------------------------------------------------------
(* The watched OABs.                                                       *)

WatchedRow == [state : {"absent", "on", "off"},
               disabledAt : Watched!Time \cup {Watched!NULL},
               catchUp : Watched!Time \cup {Watched!NULL}]

Transaction == [kind : {"idle", "add", "activate", "activated", "toggle"},
                ev : 0..MaxRequests, want : SUBSET OAB, changed : BOOLEAN,
                todo : SUBSET OAB,
                prior : [OAB -> {"unread", "absent", "on", "off"}]]

\* What an open transaction holds: its event, and of each row it locks what it
\* read; a row it read is there.
TxInv ==
    /\ \A h \in Session : tx[h].kind = "activated" => tx[h].ev # 0
    /\ \A h \in Session : tx[h].kind \in {"add", "activate"} => tx[h].todo = {} /\ tx[h].prior = Watched!Unread
    /\ \A h \in Session, o \in OAB : tx[h].prior[o] \in {"on", "off"} => row[o].state # "absent"
    /\ \A o \in OAB : lock[o] # Watched!NoTx => tx[lock[o]].prior[o] # "unread"

WatchedInv == Watched!TypeOK /\ TxInv /\ Watched!HistoryNotSwallowed
-----------------------------------------------------------------------------
\* The bounds of the clock and of the edits.
LEMMA WatchedBounds ==
    /\ 1 \in Watched!Time /\ Watched!NULL \notin Watched!Time /\ Watched!Time \subseteq Nat
    /\ MaxRequests \in Nat /\ Watched!NoTx \notin Session
  BY WorkAssumptions DEF Watched!WatchedAssumptions, Watched!Time, Watched!NULL

\* A session is born with no transaction.
LEMMA IdleIsTransaction == Watched!Idle \in Transaction
  BY WatchedBounds DEF Watched!Idle, Transaction, Watched!Unread

\* A transaction notes what it read of a row and that it holds the row; an OAB is
\* switched off.
LEMMA FieldTypes ==
    /\ \A t \in Transaction, o \in OAB, s \in {"unread", "absent", "on", "off"} :
           [t EXCEPT !.prior[o] = s] \in Transaction
    /\ \A t \in Transaction, S \in SUBSET OAB : [t EXCEPT !.todo = S] \in Transaction
    /\ \A r \in WatchedRow, t \in Watched!Time :
           /\ [r EXCEPT !.state = "off", !.disabledAt = t] \in WatchedRow
           /\ [r EXCEPT !.state = "off", !.disabledAt = t].disabledAt # Watched!NULL
  <1>1. \A t \in Transaction, o \in OAB, s \in {"unread", "absent", "on", "off"} :
           [t EXCEPT !.prior[o] = s] \in Transaction
    <2> SUFFICES ASSUME NEW t \in Transaction, NEW o \in OAB, NEW s \in {"unread", "absent", "on", "off"}
                 PROVE  [t EXCEPT !.prior[o] = s] \in Transaction
      OBVIOUS
    <2>1. t.prior \in [OAB -> {"unread", "absent", "on", "off"}]
      BY DEF Transaction
    <2>2. [t.prior EXCEPT ![o] = s] \in [OAB -> {"unread", "absent", "on", "off"}]
      BY <2>1
    <2>3. [t EXCEPT !.prior = [t.prior EXCEPT ![o] = s]] \in Transaction
      BY <2>2 DEF Transaction
    <2> QED
      BY <2>3
  <1>2. \A t \in Transaction, S \in SUBSET OAB : [t EXCEPT !.todo = S] \in Transaction
    BY DEF Transaction
  <1>3. \A r \in WatchedRow, t \in Watched!Time :
           /\ [r EXCEPT !.state = "off", !.disabledAt = t] \in WatchedRow
           /\ [r EXCEPT !.state = "off", !.disabledAt = t].disabledAt # Watched!NULL
    BY WatchedBounds DEF WatchedRow
  <1> QED
    BY <1>1, <1>2, <1>3

\* An upsert switches the row on and keeps where its downtime began.
LEMMA UpsertMoves ==
    ASSUME NEW r \in WatchedRow
    PROVE  LET u == Watched!UpsertWatchedOAB(r) IN
           /\ u \in WatchedRow
           /\ u.state = "on"
           /\ r.state # "absent" => u.disabledAt = r.disabledAt
           /\ r.state # "absent" => u.catchUp = IF r.catchUp # Watched!NULL THEN r.catchUp ELSE r.disabledAt
           /\ r.state = "absent" => u.disabledAt = Watched!NULL /\ u.catchUp = Watched!NULL
  BY DEF Watched!UpsertWatchedOAB, Watched!COALESCE, WatchedRow, Watched!NoRow

\* The end of a transaction lets go of its locks and of nobody else's.
LEMMA ReleaseMoves ==
    ASSUME Watched!TypeOK, TxInv, NEW h \in Session, Watched!Release(h)
    PROVE  /\ lock' \in [OAB -> Session \cup {Watched!NoTx}]
           /\ tx' \in [Session -> Transaction]
           /\ tx'[h] = Watched!Idle
           /\ \A g \in Session : g # h => tx'[g] = tx[g]
           /\ \A o \in OAB : lock'[o] # Watched!NoTx => lock'[o] = lock[o] /\ lock[o] # h
  BY IdleIsTransaction, WatchedBounds DEF Watched!Release, Watched!TypeOK, Transaction

\* The syncs and events a commit starts are about rows it has just switched on.
LEMMA CatchUpTypes ==
    ASSUME Watched!TypeOK, NEW h \in Session, NEW o \in Watched!needsCatchUp(h), row' = Watched!Upserted(h)
    PROVE  /\ o \in OAB /\ row'[o].catchUp \in Watched!Time /\ row'[o] = Watched!UpsertWatchedOAB(row[o])
           /\ row'[o].state = "on"
  <1>1. o \in OAB /\ o \in Watched!Mine(h) /\ Watched!UpsertWatchedOAB(row[o]).catchUp # Watched!NULL
    BY DEF Watched!needsCatchUp, Watched!Mine
  <1>2. row[o] \in WatchedRow
    BY <1>1 DEF Watched!TypeOK, WatchedRow
  <1>3. row'[o] = Watched!UpsertWatchedOAB(row[o])
    BY <1>1 DEF Watched!Upserted
  <1> QED
    BY <1>1, <1>2, <1>3, UpsertMoves DEF WatchedRow

\* The upserts of a transaction change its own rows, and switch none off.
LEMMA UpsertedTypes ==
    ASSUME Watched!TypeOK, NEW h \in Session, row' = Watched!Upserted(h)
    PROVE  /\ row' \in [OAB -> WatchedRow]
           /\ \A o \in OAB : row'[o] = IF o \in Watched!Mine(h) THEN Watched!UpsertWatchedOAB(row[o]) ELSE row[o]
           /\ \A o \in OAB : row'[o].state = "off" => row'[o] = row[o]
           /\ \A o \in OAB : row'[o].state = "absent" => row[o].state = "absent"
  <1>1. \A o \in OAB : row[o] \in WatchedRow
    BY DEF Watched!TypeOK, WatchedRow
  <1>2. \A o \in OAB : row'[o] = IF o \in Watched!Mine(h) THEN Watched!UpsertWatchedOAB(row[o]) ELSE row[o]
    BY DEF Watched!Upserted
  <1>3. row' = [o \in OAB |-> IF o \in Watched!Mine(h) THEN Watched!UpsertWatchedOAB(row[o]) ELSE row[o]]
    BY DEF Watched!Upserted
  <1>4. \A o \in OAB : Watched!UpsertWatchedOAB(row[o]) \in WatchedRow /\ Watched!UpsertWatchedOAB(row[o]).state = "on"
    BY <1>1, UpsertMoves
  <1> QED
    BY <1>1, <1>2, <1>3, <1>4

\* Every step keeps the types of the watched OABs.
LEMMA WatchedType ==
    ASSUME [Watched!Next]_(Watched!vars), Watched!TypeOK, TxInv
    PROVE  Watched!TypeOK'
  <1> USE DEF Watched!TypeOK, WatchedRow, Transaction, Watched!apiVars, Watched!rowVars,
              Watched!gapVars
  <1>1. ASSUME Watched!Tick PROVE Watched!TypeOK'
    <2>1. now' \in Watched!Time
      BY <1>1, WorkAssumptions DEF Watched!Tick, Watched!Time, Watched!WatchedAssumptions
    <2>2. missed' \in [OAB -> SUBSET Watched!Time]
      BY <1>1, <2>1 DEF Watched!Tick
    <2> QED
      BY <1>1, <2>1, <2>2 DEF Watched!Tick
  <1>2. ASSUME NEW h \in Session, NEW kind \in {"add", "activate"}, NEW S \in SUBSET OAB, NEW b \in BOOLEAN,
               Watched!BeginScopeEdit(h, kind, S, b)
        PROVE Watched!TypeOK'
    <2>1. Watched!activationChanged(scope, S, b) \in BOOLEAN
      BY DEF Watched!activationChanged
    <2>2. [Watched!Idle EXCEPT !.kind = kind, !.want = S, !.changed = Watched!activationChanged(scope, S, b)] \in Transaction
      BY <2>1, IdleIsTransaction
    <2> QED
      BY <1>2, <2>2 DEF Watched!BeginScopeEdit
  <1>3. ASSUME NEW h \in Session, NEW o \in OAB, Watched!AddWatchedOAB(h, o) PROVE Watched!TypeOK'
    BY <1>2, <1>3 DEF Watched!AddWatchedOAB
  <1>4. ASSUME NEW h \in Session, NEW S \in SUBSET OAB, Watched!ActivateIntegration(h, S) PROVE Watched!TypeOK'
    BY <1>2, <1>4 DEF Watched!ActivateIntegration
  <1>5. ASSUME NEW h \in Session, Watched!CommitScopeEdit(h) PROVE Watched!TypeOK'
    <2>1. tx[h].want \in SUBSET OAB
      OBVIOUS
    <2>2. activated' \in Seq(SUBSET OAB)
      BY <1>5, <2>1 DEF Watched!CommitScopeEdit
    <2> QED
      BY <1>5, <2>1, <2>2, IdleIsTransaction DEF Watched!CommitScopeEdit
  <1>6. ASSUME NEW h \in Session, NEW e \in 1..MaxRequests, Watched!OnIntegrationActivated(h, e) PROVE Watched!TypeOK'
    <2>1. activated[e] \in SUBSET OAB
      BY <1>6 DEF Watched!OnIntegrationActivated
    <2>2. e \in 0..MaxRequests
      BY WatchedBounds
    <2>3. [Watched!Idle EXCEPT !.kind = "activated", !.ev = e, !.todo = activated[e]] \in Transaction
      BY <2>1, <2>2, IdleIsTransaction
    <2> QED
      BY <1>6, <2>3 DEF Watched!OnIntegrationActivated
  <1>7. ASSUME NEW h \in Session, NEW o \in OAB, Watched!ToggleOn(h, o) PROVE Watched!TypeOK'
    <2>1. [Watched!Idle EXCEPT !.kind = "toggle", !.todo = {o}] \in Transaction
      BY IdleIsTransaction
    <2> QED
      BY <1>7, <2>1 DEF Watched!ToggleOn
  <1>8. ASSUME NEW h \in Session, NEW o \in OAB, Watched!ReadPriorRow(h, o) PROVE Watched!TypeOK'
    <2>1. [tx[h] EXCEPT !.prior[o] = row[o].state] \in Transaction
      <3>1. row[o].state \in {"unread", "absent", "on", "off"} /\ tx[h] \in Transaction
        OBVIOUS
      <3> HIDE DEF Watched!TypeOK, Transaction
      <3> QED
        BY <3>1, FieldTypes
    <2>2. tx' = [tx EXCEPT ![h] = [tx[h] EXCEPT !.prior[o] = row[o].state]]
      BY <1>8 DEF Watched!ReadPriorRow
    <2>3. tx' \in [Session -> Transaction]
      BY <2>1, <2>2
    <2> QED
      BY <1>8, <2>3 DEF Watched!ReadPriorRow
  <1>9. ASSUME NEW h \in Session, NEW o \in OAB, Watched!LockRow(h, o) PROVE Watched!TypeOK'
    <2>1. [tx[h] EXCEPT !.todo = tx[h].todo \ {o}] \in Transaction
      <3>1. tx[h] \in Transaction /\ tx[h].todo \ {o} \in SUBSET OAB
        OBVIOUS
      <3> HIDE DEF Watched!TypeOK, Transaction
      <3> QED
        BY <3>1, FieldTypes
    <2>2. tx' = [tx EXCEPT ![h] = [tx[h] EXCEPT !.todo = tx[h].todo \ {o}]]
      BY <1>9 DEF Watched!LockRow
    <2>3. tx' \in [Session -> Transaction]
      BY <2>1, <2>2
    <2> QED
      BY <1>9, <2>3 DEF Watched!LockRow
  <1>10. ASSUME NEW h \in Session, Watched!CommitActivated(h) PROVE Watched!TypeOK'
    <2>1. /\ row' = Watched!Upserted(h)
          /\ history' = [o \in OAB |-> history[o] + IF o \in Watched!needsHistory(h) THEN 1 ELSE 0]
          /\ syncs' = syncs \cup {Watched!newCatchUpSyncRequested(o, row'[o].catchUp) : o \in Watched!needsCatchUp(h)}
          /\ processed' = processed \cup {tx[h].ev}
          /\ Watched!Release(h)
          /\ UNCHANGED <<now, Watched!apiVars, toggles, reenabled, Watched!gapVars>>
          /\ tx[h].kind = "activated"
      BY <1>10 DEF Watched!CommitActivated
    <2>2. history' \in [OAB -> Nat]
      BY <2>1
    <2>3. processed' \subseteq 1..MaxRequests
      <3>1. tx[h].ev \in 0..MaxRequests /\ tx[h].ev # 0
        BY <2>1 DEF TxInv
      <3>2. tx[h].ev \in 1..MaxRequests
        BY <3>1
      <3> QED
        BY <2>1, <3>2
    <2>4. \A o \in Watched!needsCatchUp(h) :
             Watched!newCatchUpSyncRequested(o, row'[o].catchUp)
               \in [oab : OAB, since : Watched!Time, to : Watched!Time, state : {"running", "completed"}]
      BY <2>1, CatchUpTypes DEF Watched!newCatchUpSyncRequested
    <2>5. syncs' \subseteq [oab : OAB, since : Watched!Time, to : Watched!Time, state : {"running", "completed"}]
      BY <2>1, <2>4
    <2>6. row' \in [OAB -> WatchedRow] /\ \A o \in OAB : row'[o].state = "off" => row'[o].disabledAt # Watched!NULL
      BY <2>1, UpsertedTypes
    <2>7. lock' \in [OAB -> Session \cup {Watched!NoTx}] /\ tx' \in [Session -> Transaction]
      BY <2>1, ReleaseMoves
    <2> QED
      BY <2>1, <2>2, <2>3, <2>5, <2>6, <2>7
  <1>11. ASSUME NEW h \in Session, Watched!CommitToggle(h) PROVE Watched!TypeOK'
    <2>1. /\ Watched!Release(h)
          /\ UNCHANGED <<now, Watched!apiVars, toggles, processed, history, syncs, Watched!gapVars>>
      BY <1>11 DEF Watched!CommitToggle
    <2>2. lock' \in [OAB -> Session \cup {Watched!NoTx}] /\ tx' \in [Session -> Transaction]
      BY <2>1, ReleaseMoves
    <2>3. CASE UNCHANGED <<row, reenabled>>
      BY <2>1, <2>2, <2>3
    <2>4. CASE /\ row' = Watched!Upserted(h)
               /\ reenabled' = reenabled \cup
                     {[oab |-> o, since |-> row'[o].catchUp] : o \in Watched!needsCatchUp(h)}
      <3>1. \A o \in Watched!needsCatchUp(h) : [oab |-> o, since |-> row'[o].catchUp] \in [oab : OAB, since : Watched!Time]
        BY <2>4, CatchUpTypes
      <3>2. reenabled' \subseteq [oab : OAB, since : Watched!Time]
        BY <2>4, <3>1
      <3>3. row' \in [OAB -> WatchedRow] /\ \A o \in OAB : row'[o].state = "off" => row'[o].disabledAt # Watched!NULL
        BY <2>4, UpsertedTypes
      <3> QED
        BY <2>1, <2>2, <3>2, <3>3
    <2> QED
      BY <1>11, <2>3, <2>4 DEF Watched!CommitToggle
  <1>12. ASSUME NEW h \in Session, Watched!Abort(h) PROVE Watched!TypeOK'
    <2>1. lock' \in [OAB -> Session \cup {Watched!NoTx}] /\ tx' \in [Session -> Transaction]
      BY <1>12, ReleaseMoves DEF Watched!Abort
    <2> QED
      BY <1>12, <2>1 DEF Watched!Abort
  <1>13. ASSUME NEW o \in OAB, Watched!ToggleOff(o) PROVE Watched!TypeOK'
    <2>1. row' \in [OAB -> WatchedRow] /\ \A p \in OAB : row'[p].state = "off" => row'[p].disabledAt # Watched!NULL
      <3>1. CASE row' = row
        BY <3>1
      <3>2. CASE row' = [row EXCEPT ![o].state = "off", ![o].disabledAt = now]
        <4>1. PICK r \in WatchedRow : r = row[o]
          OBVIOUS
        <4>2. /\ [r EXCEPT !.state = "off", !.disabledAt = now] \in WatchedRow
              /\ [r EXCEPT !.state = "off", !.disabledAt = now].disabledAt # Watched!NULL
          BY FieldTypes
        <4>3. row' = [row EXCEPT ![o] = [r EXCEPT !.state = "off", !.disabledAt = now]]
          BY <3>2, <4>1
        <4> QED
          BY <4>2, <4>3
      <3> QED
        BY <1>13, <3>1, <3>2 DEF Watched!ToggleOff, Watched!DisableWatchedOAB
    <2>2. missed' \in [OAB -> SUBSET Watched!Time]
      <3>1. missed[o] \cup {now} \subseteq Watched!Time
        OBVIOUS
      <3>2. missed' = missed \/ missed' = [missed EXCEPT ![o] = missed[o] \cup {now}]
        BY <1>13 DEF Watched!ToggleOff
      <3> QED
        BY <3>1, <3>2
    <2> QED
      BY <1>13, <2>1, <2>2 DEF Watched!ToggleOff
  <1>14. ASSUME NEW r \in reenabled, Watched!OnWatchedOABReenabled(r) PROVE Watched!TypeOK'
    <2>1. Watched!newCatchUpSyncRequested(r.oab, r.since)
            \in [oab : OAB, since : Watched!Time, to : Watched!Time, state : {"running", "completed"}]
      BY DEF Watched!newCatchUpSyncRequested
    <2> QED
      BY <1>14, <2>1 DEF Watched!OnWatchedOABReenabled
  <1>15. ASSUME NEW x \in syncs, Watched!CatchUpSucceeds(x) PROVE Watched!TypeOK'
    <2>1. [x EXCEPT !.state = "completed"] \in [oab : OAB, since : Watched!Time, to : Watched!Time, state : {"running", "completed"}]
      <3>1. x \in [oab : OAB, since : Watched!Time, to : Watched!Time, state : {"running", "completed"}]
        OBVIOUS
      <3> QED
        BY <3>1
    <2>2. x.since..x.to \subseteq Watched!Time
      BY WorkAssumptions DEF Watched!Time, Watched!WatchedAssumptions
    <2>3. covered' \in [OAB -> SUBSET Watched!Time]
      BY <1>15, <2>2 DEF Watched!CatchUpSucceeds
    <2> QED
      BY <1>15, <2>1, <2>3 DEF Watched!CatchUpSucceeds
  <1>16. ASSUME NEW x \in syncs, Watched!CatchUpFails(x) PROVE Watched!TypeOK'
    BY <1>16 DEF Watched!CatchUpFails
  <1>17. ASSUME NEW x \in syncs, Watched!clearCatchUp(x) PROVE Watched!TypeOK'
    <2>1. row' \in [OAB -> WatchedRow] /\ \A p \in OAB : row'[p].state = "off" => row'[p].disabledAt # Watched!NULL
      BY <1>17 DEF Watched!clearCatchUp
    <2> QED
      BY <1>17, <2>1 DEF Watched!clearCatchUp
  <1>18. ASSUME UNCHANGED Watched!vars PROVE Watched!TypeOK'
    BY <1>18 DEF Watched!vars
  <1> QED
    BY <1>1, <1>3, <1>4, <1>5, <1>6, <1>7, <1>8, <1>9, <1>10, <1>11, <1>12, <1>13, <1>14, <1>15,
       <1>16, <1>17, <1>18 DEF Watched!Next

\* Nothing deletes the row of an OAB.
LEMMA RowsStay ==
    ASSUME [Watched!Next]_(Watched!vars), Watched!TypeOK
    PROVE  \A o \in OAB : row[o].state # "absent" => row'[o].state # "absent"
  <1> USE DEF Watched!apiVars, Watched!rowVars, Watched!gapVars
  <1>1. CASE row' = row
    BY <1>1
  <1>2. ASSUME NEW h \in Session, Watched!CommitActivated(h) \/ Watched!CommitToggle(h)
        PROVE  row' = row \/ row' = Watched!Upserted(h)
    BY <1>2 DEF Watched!CommitActivated, Watched!CommitToggle
  <1>3. ASSUME NEW h \in Session, row' = Watched!Upserted(h)
        PROVE  \A o \in OAB : row[o].state # "absent" => row'[o].state # "absent"
    BY <1>3, UpsertedTypes
  <1>4. ASSUME NEW o \in OAB, Watched!ToggleOff(o)
        PROVE  \A p \in OAB : row[p].state # "absent" => row'[p].state # "absent"
    BY <1>4 DEF Watched!ToggleOff, Watched!DisableWatchedOAB, Watched!TypeOK
  <1>5. ASSUME NEW x \in syncs, Watched!clearCatchUp(x)
        PROVE  \A p \in OAB : row[p].state # "absent" => row'[p].state # "absent"
    BY <1>5 DEF Watched!clearCatchUp, Watched!TypeOK
  <1>6. ASSUME NEW h \in Session, NEW o \in OAB,
               Watched!AddWatchedOAB(h, o) \/ Watched!ToggleOn(h, o) \/ Watched!ReadPriorRow(h, o) \/ Watched!LockRow(h, o)
        PROVE  row' = row
    BY <1>6
       DEF Watched!AddWatchedOAB, Watched!BeginScopeEdit, Watched!ToggleOn, Watched!ReadPriorRow,
           Watched!LockRow
  <1>7. ASSUME NEW h \in Session, Watched!CommitScopeEdit(h) \/ Watched!Abort(h)
        PROVE  row' = row
    BY <1>7 DEF Watched!CommitScopeEdit, Watched!Abort
  <1>8. ASSUME NEW h \in Session, NEW S \in SUBSET OAB, Watched!ActivateIntegration(h, S)
        PROVE  row' = row
    BY <1>8 DEF Watched!ActivateIntegration, Watched!BeginScopeEdit
  <1>9. ASSUME NEW h \in Session, NEW e \in 1..MaxRequests, Watched!OnIntegrationActivated(h, e)
        PROVE  row' = row
    BY <1>9 DEF Watched!OnIntegrationActivated
  <1>10. ASSUME NEW r \in reenabled, Watched!OnWatchedOABReenabled(r)
        PROVE  row' = row
    BY <1>10 DEF Watched!OnWatchedOABReenabled
  <1>11. ASSUME NEW x \in syncs, Watched!CatchUpSucceeds(x) \/ Watched!CatchUpFails(x)
        PROVE  row' = row
    BY <1>11 DEF Watched!CatchUpSucceeds, Watched!CatchUpFails
  <1>12. CASE Watched!Tick \/ UNCHANGED Watched!vars
    BY <1>1, <1>12 DEF Watched!Tick, Watched!vars
  <1> QED
    BY <1>1, <1>2, <1>3, <1>4, <1>5, <1>6, <1>7, <1>8, <1>9, <1>10, <1>11, <1>12 DEF Watched!Next

\* A transaction that begins has read and locked nothing.
Opens(h, t) ==
    /\ tx[h] = Watched!Idle
    /\ tx' = [tx EXCEPT ![h] = t]
    /\ t.prior = Watched!Unread
    /\ t.kind = "activated" => t.ev # 0
    /\ t.kind \in {"add", "activate"} => t.todo = {}
    /\ UNCHANGED lock

\* What a step does to the transactions and to the locks of the rows.
LEMMA TxMoves ==
    ASSUME [Watched!Next]_(Watched!vars)
    PROVE  \/ UNCHANGED <<tx, lock>>
           \/ \E h \in Session : \/ \E t : Opens(h, t)
                                 \/ Watched!Release(h)
                                 \/ tx[h].kind \in {"add", "activate"} /\ tx' = [tx EXCEPT ![h] = Watched!Idle] /\ lock' = lock
                                 \/ \E o \in OAB : Watched!ReadPriorRow(h, o) \/ Watched!LockRow(h, o)
  <1> USE DEF Watched!apiVars, Watched!rowVars, Watched!gapVars
  <1>1. ASSUME NEW h \in Session, NEW kind \in {"add", "activate"}, NEW S, NEW b, Watched!BeginScopeEdit(h, kind, S, b)
        PROVE  \E t : Opens(h, t)
    <2> DEFINE t == [Watched!Idle EXCEPT !.kind = kind, !.want = S, !.changed = Watched!activationChanged(scope, S, b)]
    <2>1. t.prior = Watched!Unread /\ t.todo = {} /\ t.kind # "activated"
      BY DEF Watched!Idle
    <2>2. Opens(h, t)
      BY <1>1, <2>1 DEF Watched!BeginScopeEdit, Opens
    <2> QED
      BY <2>2
  <1>2. ASSUME NEW h \in Session, NEW o \in OAB, Watched!AddWatchedOAB(h, o)
        PROVE  \E t : Opens(h, t)
    BY <1>1, <1>2 DEF Watched!AddWatchedOAB
  <1>3. ASSUME NEW h \in Session, NEW S \in SUBSET OAB, Watched!ActivateIntegration(h, S)
        PROVE  \E t : Opens(h, t)
    BY <1>1, <1>3 DEF Watched!ActivateIntegration
  <1>4. ASSUME NEW h \in Session, NEW o \in OAB, Watched!ToggleOn(h, o)
        PROVE  \E t : Opens(h, t)
    <2> DEFINE t == [Watched!Idle EXCEPT !.kind = "toggle", !.todo = {o}]
    <2>1. t.prior = Watched!Unread /\ t.kind = "toggle"
      BY DEF Watched!Idle
    <2>2. Opens(h, t)
      BY <1>4, <2>1 DEF Watched!ToggleOn, Opens
    <2> QED
      BY <2>2
  <1>5. ASSUME NEW h \in Session, NEW e \in 1..MaxRequests, Watched!OnIntegrationActivated(h, e)
        PROVE  \E t : Opens(h, t)
    <2> DEFINE t == [Watched!Idle EXCEPT !.kind = "activated", !.ev = e, !.todo = activated[e]]
    <2>1. t.prior = Watched!Unread /\ t.kind = "activated" /\ t.ev = e /\ e # 0
      BY WatchedBounds DEF Watched!Idle
    <2>2. Opens(h, t)
      BY <1>5, <2>1 DEF Watched!OnIntegrationActivated, Opens
    <2> QED
      BY <2>2
  <1>6. ASSUME NEW h \in Session, Watched!CommitActivated(h) \/ Watched!CommitToggle(h) \/ Watched!Abort(h)
        PROVE  Watched!Release(h)
    BY <1>6 DEF Watched!CommitActivated, Watched!CommitToggle, Watched!Abort
  <1>7. ASSUME NEW h \in Session, Watched!CommitScopeEdit(h)
        PROVE  tx[h].kind \in {"add", "activate"} /\ tx' = [tx EXCEPT ![h] = Watched!Idle] /\ lock' = lock
    BY <1>7 DEF Watched!CommitScopeEdit
  <1>8. ASSUME NEW o \in OAB, Watched!ToggleOff(o)
        PROVE  UNCHANGED <<tx, lock>>
    BY <1>8 DEF Watched!ToggleOff
  <1>9. ASSUME NEW r \in reenabled, Watched!OnWatchedOABReenabled(r)
        PROVE  UNCHANGED <<tx, lock>>
    BY <1>9 DEF Watched!OnWatchedOABReenabled
  <1>10. ASSUME NEW x \in syncs, Watched!CatchUpSucceeds(x) \/ Watched!CatchUpFails(x) \/ Watched!clearCatchUp(x)
        PROVE  UNCHANGED <<tx, lock>>
    BY <1>10 DEF Watched!CatchUpSucceeds, Watched!CatchUpFails, Watched!clearCatchUp
  <1>11. CASE Watched!Tick \/ UNCHANGED Watched!vars
    BY <1>11 DEF Watched!Tick, Watched!vars
  <1> QED
    BY <1>2, <1>3, <1>4, <1>5, <1>6, <1>7, <1>8, <1>9, <1>10, <1>11 DEF Watched!Next

\* Every step keeps what an open transaction has read and holds.
LEMMA TxStep == ASSUME [Watched!Next]_(Watched!vars), Watched!TypeOK, TxInv PROVE TxInv'
  <1>1. \A o \in OAB : row[o].state # "absent" => row'[o].state # "absent"
    BY RowsStay
  <1>2. Watched!Idle.kind = "idle" /\ Watched!Idle.prior = Watched!Unread /\ \A o \in OAB : Watched!Unread[o] = "unread"
    BY DEF Watched!Idle, Watched!Unread
  <1>3. \A o \in OAB : lock[o] \in Session \cup {Watched!NoTx}
    BY DEF Watched!TypeOK
  <1>4. CASE UNCHANGED <<tx, lock>>
    BY <1>1, <1>4 DEF TxInv
  <1>5. ASSUME NEW h \in Session, NEW t, Opens(h, t) PROVE TxInv'
    <2>1. \A o \in OAB : lock[o] # h
      BY <1>2, <1>5, WatchedBounds DEF Opens, TxInv
    <2>2. \A g \in Session : tx'[g] = IF g = h THEN t ELSE tx[g]
      BY <1>5 DEF Opens, Watched!TypeOK
    <2>3. \A o \in OAB : t.prior[o] = "unread"
      BY <1>2, <1>5 DEF Opens
    <2> QED
      BY <1>1, <1>3, <1>5, <2>1, <2>2, <2>3 DEF Opens, TxInv
  <1>6. ASSUME NEW h \in Session, Watched!Release(h) PROVE TxInv'
    BY <1>1, <1>2, <1>3, <1>6, ReleaseMoves DEF TxInv
  <1>7. ASSUME NEW h \in Session, tx[h].kind \in {"add", "activate"},
               tx' = [tx EXCEPT ![h] = Watched!Idle], lock' = lock
        PROVE  TxInv'
    <2>1. \A o \in OAB : tx[h].prior[o] = "unread"
      BY <1>2, <1>7 DEF TxInv
    <2>2. \A o \in OAB : lock[o] # h
      BY <2>1, WatchedBounds DEF TxInv
    <2>3. \A g \in Session : tx'[g] = IF g = h THEN Watched!Idle ELSE tx[g]
      BY <1>7 DEF Watched!TypeOK
    <2> QED
      BY <1>1, <1>2, <1>3, <1>7, <2>2, <2>3 DEF TxInv
  <1>8. ASSUME NEW h \in Session, NEW o \in OAB, Watched!ReadPriorRow(h, o) PROVE TxInv'
    <2>1. /\ tx' = [tx EXCEPT ![h].prior[o] = row[o].state] /\ lock' = lock
          /\ tx[h].todo # {}
      BY <1>8 DEF Watched!ReadPriorRow, Watched!apiVars, Watched!rowVars, Watched!gapVars
    <2>2. /\ \A g \in Session : /\ tx'[g].kind = tx[g].kind /\ tx'[g].ev = tx[g].ev
                                 /\ tx'[g].todo = tx[g].todo /\ (g # h => tx'[g] = tx[g])
          /\ \A g \in Session, p \in OAB : tx'[g].prior[p] = IF g = h /\ p = o THEN row[o].state ELSE tx[g].prior[p]
      BY <2>1 DEF Watched!TypeOK
    <2>3. row[o].state \in {"absent", "on", "off"}
      BY DEF Watched!TypeOK
    <2> QED
      BY <1>1, <1>3, <2>1, <2>2, <2>3 DEF TxInv
  <1>9. ASSUME NEW h \in Session, NEW o \in OAB, Watched!LockRow(h, o) PROVE TxInv'
    <2>1. /\ tx' = [tx EXCEPT ![h].todo = @ \ {o}] /\ lock' = [lock EXCEPT ![o] = h]
          /\ tx[h].prior[o] # "unread" /\ tx[h].todo # {}
      BY <1>9 DEF Watched!LockRow, Watched!apiVars, Watched!rowVars, Watched!gapVars
    <2>2. \A g \in Session : /\ tx'[g].kind = tx[g].kind /\ tx'[g].ev = tx[g].ev
                              /\ tx'[g].prior = tx[g].prior /\ (g # h => tx'[g] = tx[g])
      BY <2>1 DEF Watched!TypeOK
    <2>3. \A p \in OAB : lock'[p] = IF p = o THEN h ELSE lock[p]
      BY <2>1 DEF Watched!TypeOK
    <2> QED
      BY <1>1, <1>3, <2>1, <2>2, <2>3 DEF TxInv
  <1> QED
    BY <1>4, <1>5, <1>6, <1>7, <1>8, <1>9, TxMoves

\* A row is created together with its history, by whoever read no row.
LEMMA HistoryStep ==
    ASSUME [Watched!Next]_(Watched!vars), Watched!TypeOK, TxInv, Watched!HistoryNotSwallowed
    PROVE  Watched!HistoryNotSwallowed'
  <1> USE DEF Watched!apiVars, Watched!rowVars, Watched!gapVars, Watched!HistoryNotSwallowed
  <1>0. \A o \in OAB : row[o] \in WatchedRow /\ history[o] \in Nat
    BY DEF Watched!TypeOK, WatchedRow
  <1>1. CASE row' = row /\ history' = history
    BY <1>1
  <1>2. ASSUME NEW h \in Session, Watched!CommitActivated(h) PROVE Watched!HistoryNotSwallowed'
    <2> SUFFICES ASSUME NEW o \in OAB, row'[o].state # "absent" PROVE history'[o] >= 1
      OBVIOUS
    <2>1. history'[o] = history[o] + IF o \in Watched!needsHistory(h) THEN 1 ELSE 0
      BY <1>2 DEF Watched!CommitActivated
    <2>2. CASE row[o].state # "absent"
      BY <1>0, <2>1, <2>2
    <2>3. CASE row[o].state = "absent"
      <3>1. o \in Watched!Mine(h)
        BY <1>2, <2>3, UpsertedTypes DEF Watched!CommitActivated
      <3>2. tx[h].prior[o] \in {"unread", "absent", "on", "off"} /\ tx[h].prior[o] # "unread"
        BY <3>1, WatchedBounds DEF Watched!Mine, TxInv, Watched!TypeOK
      <3>3. tx[h].prior[o] = "absent"
        BY <2>3, <3>2 DEF TxInv
      <3> QED
        BY <1>0, <2>1, <3>1, <3>3 DEF Watched!needsHistory
    <2> QED
      BY <2>2, <2>3
  <1>3. ASSUME NEW h \in Session, Watched!CommitToggle(h) PROVE Watched!HistoryNotSwallowed'
    <2>1. history' = history
      BY <1>3 DEF Watched!CommitToggle
    <2>2. CASE row' = row
      BY <2>1, <2>2
    <2>3. CASE Watched!toggleFound(h) /\ row' = Watched!Upserted(h)
      <3> SUFFICES ASSUME NEW o \in OAB, row'[o].state # "absent", row[o].state = "absent" PROVE FALSE
        BY <2>1
      <3>1. o \in Watched!Mine(h)
        BY <2>3, UpsertedTypes
      <3>2. tx[h].prior[o] \in {"unread", "absent", "on", "off"} /\ tx[h].prior[o] # "unread"
        BY <3>1, WatchedBounds DEF Watched!Mine, TxInv, Watched!TypeOK
      <3>3. tx[h].prior[o] = "absent"
        BY <3>2 DEF TxInv
      <3> QED
        BY <2>3, <3>1, <3>3 DEF Watched!needsHistory, Watched!toggleFound
    <2> QED
      BY <1>3, <2>2, <2>3 DEF Watched!CommitToggle
  <1>4. ASSUME NEW o \in OAB, Watched!ToggleOff(o) PROVE Watched!HistoryNotSwallowed'
    <2>1. \A p \in OAB : row'[p].state # "absent" => row[p].state # "absent"
      BY <1>4 DEF Watched!ToggleOff, Watched!DisableWatchedOAB, Watched!TypeOK
    <2> QED
      BY <1>4, <2>1 DEF Watched!ToggleOff
  <1>5. ASSUME NEW x \in syncs, Watched!clearCatchUp(x) PROVE Watched!HistoryNotSwallowed'
    <2>1. \A p \in OAB : row'[p].state # "absent" => row[p].state # "absent"
      BY <1>5 DEF Watched!clearCatchUp, Watched!TypeOK
    <2> QED
      BY <1>5, <2>1 DEF Watched!clearCatchUp
  <1>6. ASSUME NEW h \in Session, NEW o \in OAB,
               Watched!AddWatchedOAB(h, o) \/ Watched!ToggleOn(h, o) \/ Watched!ReadPriorRow(h, o) \/ Watched!LockRow(h, o)
        PROVE  row' = row /\ history' = history
    BY <1>6
       DEF Watched!AddWatchedOAB, Watched!BeginScopeEdit, Watched!ToggleOn, Watched!ReadPriorRow,
           Watched!LockRow
  <1>7. ASSUME NEW h \in Session, Watched!CommitScopeEdit(h) \/ Watched!Abort(h)
        PROVE  row' = row /\ history' = history
    BY <1>7 DEF Watched!CommitScopeEdit, Watched!Abort
  <1>8. ASSUME NEW h \in Session, NEW S \in SUBSET OAB, Watched!ActivateIntegration(h, S)
        PROVE  row' = row /\ history' = history
    BY <1>8 DEF Watched!ActivateIntegration, Watched!BeginScopeEdit
  <1>9. ASSUME NEW h \in Session, NEW e \in 1..MaxRequests, Watched!OnIntegrationActivated(h, e)
        PROVE  row' = row /\ history' = history
    BY <1>9 DEF Watched!OnIntegrationActivated
  <1>10. ASSUME NEW r \in reenabled, Watched!OnWatchedOABReenabled(r)
        PROVE  row' = row /\ history' = history
    BY <1>10 DEF Watched!OnWatchedOABReenabled
  <1>11. ASSUME NEW x \in syncs, Watched!CatchUpSucceeds(x) \/ Watched!CatchUpFails(x)
        PROVE  row' = row /\ history' = history
    BY <1>11 DEF Watched!CatchUpSucceeds, Watched!CatchUpFails
  <1>12. CASE Watched!Tick \/ UNCHANGED Watched!vars
    BY <1>1, <1>12 DEF Watched!Tick, Watched!vars
  <1> QED
    BY <1>1, <1>2, <1>3, <1>4, <1>5, <1>6, <1>7, <1>8, <1>9, <1>10, <1>11, <1>12 DEF Watched!Next
-----------------------------------------------------------------------------
(* No gap is forgotten, where no OAB is switched off during its catch-up.  *)

\* What a catch-up of o still owes.
Gap(o) == missed[o] \ covered[o]

\* No catch-up of o is asked for, running, or about to report.
Settled(o) == (\A r \in reenabled : r.oab # o) /\ (\A x \in syncs : x.oab # o)

\* An OAB is switched off only between catch-ups.
Patient == \A o \in OAB : cycles'[o] # cycles[o] => Settled(o)

\* The row of o marks where its gap begins, and so does whatever catches it up.
MarksGap(o) ==
    /\ row[o].state = "absent" => row[o].disabledAt = Watched!NULL
    /\ row[o].disabledAt = Watched!NULL => missed[o] = {} /\ row[o].catchUp = Watched!NULL /\ Settled(o)
    /\ row[o].disabledAt <= now /\ row[o].catchUp <= now
    /\ \A t \in Gap(o) :
          /\ t <= now
          /\ row[o].catchUp = Watched!NULL => row[o].state = "off" /\ row[o].disabledAt <= t
          /\ row[o].catchUp # Watched!NULL => row[o].catchUp <= t
    /\ \A r \in reenabled : r.oab = o =>
          row[o].state = "on" /\ \A t \in Gap(o) : r.since <= t
    /\ \A x \in syncs : x.oab = o =>
          /\ row[o].state = "on"
          /\ \A t \in Gap(o) : x.since <= t /\ t <= x.to
          /\ x.state = "completed" => Gap(o) = {}

GapInv ==
    /\ cycles \in [OAB -> 0..MaxCycles]
    /\ \A o \in OAB : cycles[o] = 0 => row[o].disabledAt = Watched!NULL
    /\ \A o \in OAB : MarksGap(o)

\* The stamps of a row are instants or NULL.
LEMMA RowTimes == \A r \in WatchedRow : r.disabledAt \in Nat /\ r.catchUp \in Nat
  <1>1. Watched!Time \cup {Watched!NULL} \subseteq Nat
    BY WatchedBounds DEF Watched!NULL
  <1> QED
    BY <1>1 DEF WatchedRow

\* An upsert marks the gap of the row it switches on; the catch-up it asks for
\* begins at the mark.
LEMMA UpsertMarks ==
    ASSUME Watched!TypeOK, NEW o \in OAB, MarksGap(o),
           row'[o] = Watched!UpsertWatchedOAB(row[o]),
           UNCHANGED <<now, missed, covered>>,
           \A r \in reenabled' : r \in reenabled
                \/ (r.oab = o => r.since = row'[o].catchUp /\ r.since # Watched!NULL),
           \A x \in syncs' : x \in syncs
                \/ (x.oab = o => /\ x.since = row'[o].catchUp /\ x.since # Watched!NULL
                                 /\ x.to = now /\ x.state = "running")
    PROVE  MarksGap(o)'
  <1>1. row[o] \in WatchedRow /\ now \in Nat /\ \A t \in Gap(o) : t \in Nat
    BY WatchedBounds DEF Watched!TypeOK, WatchedRow, Gap
  <1>2. Gap(o)' = Gap(o)
    BY DEF Gap
  <1>3. CASE row[o].state = "absent"
    <2>1. row'[o].state = "on" /\ row'[o].disabledAt = Watched!NULL /\ row'[o].catchUp = Watched!NULL
      BY <1>1, <1>3, UpsertMoves
    <2>2. missed[o] = {} /\ Gap(o) = {} /\ Settled(o)
      BY <1>3 DEF MarksGap, Gap
    <2>3. \A r \in reenabled' : r.oab # o
      BY <2>1, <2>2 DEF Settled
    <2>4. \A x \in syncs' : x.oab # o
      BY <2>1, <2>2 DEF Settled
    <2> QED
      BY <1>1, <1>2, <2>1, <2>2, <2>3, <2>4 DEF MarksGap, Settled, Watched!NULL
  <1>4. CASE row[o].state # "absent"
    <2>1. /\ row'[o].state = "on" /\ row'[o].disabledAt = row[o].disabledAt
          /\ row'[o].catchUp = IF row[o].catchUp # Watched!NULL THEN row[o].catchUp ELSE row[o].disabledAt
      BY <1>1, <1>4, UpsertMoves
    <2>2. row'[o].disabledAt <= now /\ row'[o].catchUp <= now
      BY <2>1 DEF MarksGap
    <2>3. \A t \in Gap(o) : t <= now /\ row'[o].catchUp # Watched!NULL /\ row'[o].catchUp <= t
      BY <2>1 DEF MarksGap, Gap
    <2>4. ASSUME row[o].disabledAt = Watched!NULL
          PROVE  missed[o] = {} /\ row'[o].catchUp = Watched!NULL /\ Settled(o)'
      BY <2>1, <2>4 DEF MarksGap, Settled
    <2>5. \A r \in reenabled' : r.oab = o => \A t \in Gap(o) : r.since <= t
      BY <2>3 DEF MarksGap
    <2>6. \A x \in syncs' : x.oab = o =>
             /\ \A t \in Gap(o) : x.since <= t /\ t <= x.to
             /\ x.state = "completed" => Gap(o) = {}
      BY <2>3 DEF MarksGap
    <2> QED
      BY <1>2, <2>1, <2>2, <2>3, <2>4, <2>5, <2>6 DEF MarksGap
  <1> QED
    BY <1>3, <1>4

\* What leaves the row and the downtime of o alone, and starts nothing for it.
LEMMA MarksStay ==
    ASSUME NEW o \in OAB, MarksGap(o), row'[o] = row[o], UNCHANGED <<now, missed, covered>>,
           \A r \in reenabled' : r \in reenabled \/ r.oab # o,
           \A x \in syncs' : x \in syncs \/ x.oab # o
    PROVE  MarksGap(o)'
  BY DEF MarksGap, Gap, Settled

\* Every step of the patient keeps the gap of every OAB marked.
LEMMA GapStep ==
    ASSUME [Watched!Next]_(Watched!vars), Patient, Watched!TypeOK, TxInv, GapInv
    PROVE  \A o \in OAB : MarksGap(o)'
  <1> USE DEF Watched!apiVars, Watched!rowVars, Watched!gapVars
  <1> SUFFICES ASSUME NEW o \in OAB PROVE MarksGap(o)'
    OBVIOUS
  <1>0. /\ MarksGap(o) /\ row[o] \in WatchedRow /\ now \in Nat /\ Gap(o) \subseteq Nat /\ cycles[o] \in Nat
        /\ \A p \in OAB : row[p] \in WatchedRow
    <2>1. MaxCycles \in Nat
      BY WorkAssumptions DEF Watched!WatchedAssumptions
    <2>2. cycles[o] \in Nat
      BY <2>1 DEF GapInv
    <2>3. now \in Nat /\ missed[o] \subseteq Nat
      BY WatchedBounds DEF Watched!TypeOK
    <2>4. \A p \in OAB : row[p] \in WatchedRow
      BY DEF Watched!TypeOK, WatchedRow
    <2> QED
      BY <2>2, <2>3, <2>4 DEF GapInv, Gap
  <1>1. CASE UNCHANGED <<now, row, reenabled, syncs, missed, covered>>
    BY <1>0, <1>1, MarksStay
  <1>2. CASE Watched!Tick
    <2>1. now' = now + 1 /\ UNCHANGED <<row, reenabled, syncs, covered>>
      BY <1>2 DEF Watched!Tick
    <2>2. missed'[o] = IF row[o].state = "off" THEN missed[o] \cup {now'} ELSE missed[o]
      BY <1>2 DEF Watched!Tick
    <2>3. CASE row[o].state # "off"
      <3>1. Gap(o)' = Gap(o) /\ missed'[o] = missed[o]
        BY <2>1, <2>2, <2>3 DEF Gap
      <3>2. \A t \in Gap(o) : t <= now'
        BY <1>0, <2>1 DEF MarksGap
      <3>3. row[o].disabledAt <= now' /\ row[o].catchUp <= now'
        BY <1>0, <2>1, RowTimes DEF MarksGap
      <3> QED
        BY <1>0, <2>1, <3>1, <3>2, <3>3 DEF MarksGap, Settled
    <2>4. CASE row[o].state = "off"
      <3>1. Settled(o) /\ row[o].disabledAt # Watched!NULL
        BY <1>0, <2>4 DEF MarksGap, Settled, Watched!TypeOK
      <3>2. \A t \in Gap(o)' : t = now' \/ t \in Gap(o)
        BY <2>1, <2>2, <2>4 DEF Gap
      <3>3. row[o].disabledAt \in Nat /\ row[o].catchUp \in Nat
        BY <1>0, RowTimes
      <3>4. \A t \in Gap(o)' :
               /\ t <= now'
               /\ row[o].catchUp = Watched!NULL => row[o].disabledAt <= t
               /\ row[o].catchUp # Watched!NULL => row[o].catchUp <= t
        BY <1>0, <2>1, <3>2, <3>3 DEF MarksGap
      <3>5. row[o].disabledAt <= now' /\ row[o].catchUp <= now'
        BY <1>0, <2>1, <3>3 DEF MarksGap
      <3> QED
        BY <2>1, <2>4, <3>1, <3>4, <3>5 DEF MarksGap, Settled
    <2> QED
      BY <2>3, <2>4
  <1>3. ASSUME NEW p \in OAB, Watched!ToggleOff(p) PROVE MarksGap(o)'
    <2>1. UNCHANGED <<now, reenabled, syncs, covered>>
      BY <1>3 DEF Watched!ToggleOff
    <2>2. CASE row[p].state # "on" \/ p # o
      <3>1. row'[o] = row[o] /\ missed'[o] = missed[o]
        BY <1>3, <2>2 DEF Watched!ToggleOff, Watched!DisableWatchedOAB, Watched!TypeOK
      <3> QED
        BY <1>0, <2>1, <3>1 DEF MarksGap, Gap, Settled
    <2>3. CASE row[p].state = "on" /\ p = o
      <3>1. cycles' = [cycles EXCEPT ![o] = @ + 1] /\ missed' = [missed EXCEPT ![o] = @ \cup {now}]
        BY <1>3, <2>3 DEF Watched!ToggleOff
      <3>2. row'[o].state = "off" /\ row'[o].disabledAt = now /\ row'[o].catchUp = row[o].catchUp
        BY <1>0, <1>3, <2>3
           DEF Watched!ToggleOff, Watched!DisableWatchedOAB, WatchedRow, Watched!TypeOK
      <3>3. cycles'[o] # cycles[o]
        BY <1>0, <3>1 DEF GapInv
      <3>4. Settled(o)
        BY <3>3 DEF Patient
      <3>5. \A t \in Gap(o)' : t = now \/ t \in Gap(o)
        BY <2>1, <3>1 DEF Gap, Watched!TypeOK
      <3>6. row[o].catchUp = Watched!NULL => Gap(o) = {}
        BY <1>0, <2>3 DEF MarksGap
      <3>7. row[o].catchUp <= now /\ now # Watched!NULL /\ now <= now
        BY <1>0, WatchedBounds DEF MarksGap, Watched!TypeOK
      <3>8. \A t \in Gap(o)' :
               /\ t <= now
               /\ row[o].catchUp = Watched!NULL => now <= t
               /\ row[o].catchUp # Watched!NULL => row[o].catchUp <= t
        BY <1>0, <3>5, <3>6, <3>7 DEF MarksGap
      <3> QED
        BY <2>1, <3>2, <3>4, <3>7, <3>8 DEF MarksGap, Settled
    <2> QED
      BY <2>2, <2>3
  <1>4. ASSUME NEW h \in Session, Watched!CommitActivated(h) PROVE MarksGap(o)'
    <2>1. /\ row' = Watched!Upserted(h)
          /\ syncs' = syncs \cup {Watched!newCatchUpSyncRequested(p, row'[p].catchUp) : p \in Watched!needsCatchUp(h)}
          /\ UNCHANGED <<now, reenabled, missed, covered>>
      BY <1>4 DEF Watched!CommitActivated
    <2>2. \A x \in syncs' : x \in syncs \/
             /\ x.oab \in Watched!needsCatchUp(h) /\ x.since = row'[x.oab].catchUp
             /\ x.to = now /\ x.state = "running"
      BY <2>1 DEF Watched!newCatchUpSyncRequested
    <2>3. \A p \in Watched!needsCatchUp(h) : p \in Watched!Mine(h) /\ row'[p].catchUp # Watched!NULL
      BY <2>1, CatchUpTypes, WatchedBounds DEF Watched!needsCatchUp
    <2>4. CASE o \in Watched!Mine(h)
      <3>1. row'[o] = Watched!UpsertWatchedOAB(row[o])
        BY <2>1, <2>4, UpsertedTypes
      <3>2. \A x \in syncs' : x \in syncs
                \/ (x.oab = o => /\ x.since = row'[o].catchUp /\ x.since # Watched!NULL
                                 /\ x.to = now /\ x.state = "running")
        BY <2>2, <2>3
      <3> QED
        BY <1>0, <2>1, <3>1, <3>2, UpsertMarks
    <2>5. CASE o \notin Watched!Mine(h)
      <3>1. row'[o] = row[o]
        BY <2>1, <2>5, UpsertedTypes
      <3>2. \A x \in syncs' : x \in syncs \/ x.oab # o
        BY <2>2, <2>3, <2>5
      <3> QED
        BY <1>0, <2>1, <3>1, <3>2, MarksStay
    <2> QED
      BY <2>4, <2>5
  <1>5. ASSUME NEW h \in Session, Watched!CommitToggle(h) PROVE MarksGap(o)'
    <2>1. UNCHANGED <<now, syncs, missed, covered>>
      BY <1>5 DEF Watched!CommitToggle
    <2>2. CASE UNCHANGED <<row, reenabled>>
      BY <1>1, <2>1, <2>2
    <2>3. CASE /\ row' = Watched!Upserted(h)
               /\ reenabled' = reenabled \cup
                     {[oab |-> p, since |-> row'[p].catchUp] : p \in Watched!needsCatchUp(h)}
      <3>1. \A r \in reenabled' : r \in reenabled \/ (r.oab \in Watched!needsCatchUp(h) /\ r.since = row'[r.oab].catchUp)
        <4>1. ASSUME NEW r \in reenabled', r \notin reenabled
              PROVE  r.oab \in Watched!needsCatchUp(h) /\ r.since = row'[r.oab].catchUp
          <5>1. PICK p \in Watched!needsCatchUp(h) : r = [oab |-> p, since |-> row'[p].catchUp]
            BY <2>3, <4>1
          <5> QED
            BY <5>1
        <4> QED
          BY <4>1
      <3>2. \A p \in Watched!needsCatchUp(h) : p \in Watched!Mine(h) /\ row'[p].catchUp # Watched!NULL
        BY <2>3, CatchUpTypes, WatchedBounds DEF Watched!needsCatchUp
      <3>3. CASE o \in Watched!Mine(h)
        <4>1. row'[o] = Watched!UpsertWatchedOAB(row[o])
          BY <2>3, <3>3, UpsertedTypes
        <4>2. \A r \in reenabled' : r \in reenabled
                \/ (r.oab = o => r.since = row'[o].catchUp /\ r.since # Watched!NULL)
          BY <3>1, <3>2
        <4> QED
          BY <1>0, <2>1, <4>1, <4>2, UpsertMarks
      <3>4. CASE o \notin Watched!Mine(h)
        <4>1. row'[o] = row[o]
          BY <2>3, <3>4, UpsertedTypes
        <4>2. \A r \in reenabled' : r \in reenabled \/ r.oab # o
          BY <3>1, <3>2, <3>4
        <4> QED
          BY <1>0, <2>1, <4>1, <4>2, MarksStay
      <3> QED
        BY <3>3, <3>4
    <2> QED
      BY <1>5, <2>2, <2>3 DEF Watched!CommitToggle
  <1>6. ASSUME NEW r \in reenabled, Watched!OnWatchedOABReenabled(r) PROVE MarksGap(o)'
    <2>1. /\ reenabled' = reenabled \ {r}
          /\ syncs' = syncs \cup {[oab |-> r.oab, since |-> r.since, to |-> now, state |-> "running"]}
          /\ UNCHANGED <<now, row, missed, covered>>
      BY <1>6 DEF Watched!OnWatchedOABReenabled, Watched!newCatchUpSyncRequested
    <2>2. CASE r.oab # o
      BY <1>0, <2>1, <2>2, MarksStay
    <2>3. CASE r.oab = o
      <3>1. ~Settled(o) /\ row[o].state = "on" /\ \A t \in Gap(o) : r.since <= t /\ t <= now
        BY <1>0, <2>3 DEF MarksGap, Settled
      <3>2. Gap(o)' = Gap(o) /\ row[o].disabledAt # Watched!NULL
        BY <1>0, <2>1, <3>1 DEF Gap, MarksGap
      <3>3. \A x \in syncs' : x.oab = o =>
               /\ row[o].state = "on"
               /\ \A t \in Gap(o) : x.since <= t /\ t <= x.to
               /\ x.state = "completed" => Gap(o) = {}
        BY <1>0, <2>1, <3>1 DEF MarksGap
      <3> QED
        BY <1>0, <2>1, <3>2, <3>3 DEF MarksGap
    <2> QED
      BY <2>2, <2>3
  <1>7. ASSUME NEW x \in syncs, Watched!CatchUpSucceeds(x) PROVE MarksGap(o)'
    <2>1. /\ syncs' = (syncs \ {x}) \cup {[x EXCEPT !.state = "completed"]}
          /\ covered' = [covered EXCEPT ![x.oab] = @ \cup x.since..x.to]
          /\ UNCHANGED <<now, row, reenabled, missed>>
      BY <1>7 DEF Watched!CatchUpSucceeds
    <2>2. x \in [oab : OAB, since : Watched!Time, to : Watched!Time, state : {"running", "completed"}]
      BY DEF Watched!TypeOK
    <2>3. [x EXCEPT !.state = "completed"].oab = x.oab
      BY <2>2
    <2>4. CASE x.oab # o
      <3>1. covered'[o] = covered[o]
        BY <2>1, <2>4 DEF Watched!TypeOK
      <3> QED
        BY <1>0, <2>1, <2>3, <2>4, <3>1 DEF MarksGap, Gap, Settled
    <2>5. CASE x.oab = o
      <3>1. ~Settled(o) /\ row[o].state = "on" /\ \A t \in Gap(o) : t \in x.since..x.to
        BY <1>0, <2>2, <2>5, WatchedBounds DEF MarksGap, Settled
      <3>2. Gap(o)' = {}
        BY <2>1, <2>5, <3>1 DEF Gap, Watched!TypeOK
      <3>3. \A y \in syncs' : y.oab = o => row[o].state = "on"
        BY <3>1
      <3> QED
        BY <1>0, <2>1, <3>1, <3>2 DEF MarksGap
    <2> QED
      BY <2>4, <2>5
  <1>8. ASSUME NEW x \in syncs, Watched!CatchUpFails(x) PROVE MarksGap(o)'
    BY <1>0, <1>8, MarksStay DEF Watched!CatchUpFails
  <1>9. ASSUME NEW x \in syncs, Watched!clearCatchUp(x) PROVE MarksGap(o)'
    <2>1. /\ x.state = "completed" /\ syncs' = syncs \ {x}
          /\ UNCHANGED <<now, reenabled, missed, covered>>
      BY <1>9 DEF Watched!clearCatchUp
    <2>2. CASE row'[o] = row[o]
      BY <1>0, <2>1, <2>2, MarksStay
    <2>3. CASE row'[o] # row[o]
      <3>1. x.oab = o /\ row' = [row EXCEPT ![o].catchUp = Watched!NULL]
        BY <1>9, <2>3 DEF Watched!clearCatchUp, Watched!TypeOK
      <3>2. row'[o].state = row[o].state /\ row'[o].disabledAt = row[o].disabledAt /\ row'[o].catchUp = Watched!NULL
        BY <1>0, <3>1 DEF WatchedRow, Watched!TypeOK
      <3>3. Gap(o) = {} /\ Gap(o)' = Gap(o) /\ row[o].state = "on" /\ row[o].disabledAt # Watched!NULL
        BY <1>0, <2>1, <3>1 DEF MarksGap, Gap, Settled
      <3>4. Watched!NULL <= now
        BY <1>0 DEF Watched!NULL
      <3> QED
        BY <1>0, <2>1, <3>2, <3>3, <3>4 DEF MarksGap
    <2> QED
      BY <2>2, <2>3
  <1>10. ASSUME NEW h \in Session, NEW p \in OAB,
                Watched!AddWatchedOAB(h, p) \/ Watched!ToggleOn(h, p) \/ Watched!ReadPriorRow(h, p) \/ Watched!LockRow(h, p)
        PROVE  MarksGap(o)'
    BY <1>1, <1>10
       DEF Watched!AddWatchedOAB, Watched!BeginScopeEdit, Watched!ToggleOn, Watched!ReadPriorRow,
           Watched!LockRow
  <1>11. ASSUME NEW h \in Session, Watched!CommitScopeEdit(h) \/ Watched!Abort(h) PROVE MarksGap(o)'
    BY <1>1, <1>11 DEF Watched!CommitScopeEdit, Watched!Abort
  <1>12. ASSUME NEW h \in Session, NEW S \in SUBSET OAB, Watched!ActivateIntegration(h, S) PROVE MarksGap(o)'
    BY <1>1, <1>12 DEF Watched!ActivateIntegration, Watched!BeginScopeEdit
  <1>13. ASSUME NEW h \in Session, NEW e \in 1..MaxRequests, Watched!OnIntegrationActivated(h, e) PROVE MarksGap(o)'
    BY <1>1, <1>13 DEF Watched!OnIntegrationActivated
  <1>14. CASE UNCHANGED Watched!vars
    BY <1>1, <1>14 DEF Watched!vars
  <1> QED
    BY <1>2, <1>3, <1>4, <1>5, <1>6, <1>7, <1>8, <1>9, <1>10, <1>11, <1>12, <1>13, <1>14
       DEF Watched!Next

\* A row has a downtime only after its OAB was switched off, one at a time.
LEMMA CycleStep ==
    ASSUME [Watched!Next]_(Watched!vars), Watched!TypeOK, GapInv
    PROVE  /\ cycles' \in [OAB -> 0..MaxCycles]
           /\ \A o \in OAB : cycles'[o] = 0 => row'[o].disabledAt = Watched!NULL
           /\ \A o \in OAB : cycles'[o] = cycles[o] \/ cycles'[o] = cycles[o] + 1
  <1> USE DEF Watched!apiVars, Watched!rowVars, Watched!gapVars
  <1>0. /\ MaxCycles \in Nat /\ \A o \in OAB : row[o] \in WatchedRow /\ cycles[o] \in 0..MaxCycles
        /\ \A o \in OAB : row[o].state = "absent" => row[o].disabledAt = Watched!NULL
    BY WorkAssumptions DEF Watched!TypeOK, WatchedRow, GapInv, Watched!WatchedAssumptions, MarksGap
  <1>1. CASE cycles' = cycles /\ \A o \in OAB : row[o].disabledAt = Watched!NULL => row'[o].disabledAt = Watched!NULL
    BY <1>1 DEF GapInv
  <1>2. ASSUME NEW h \in Session, row' = Watched!Upserted(h)
        PROVE  \A o \in OAB : row[o].disabledAt = Watched!NULL => row'[o].disabledAt = Watched!NULL
    BY <1>0, <1>2, UpsertedTypes, UpsertMoves
  <1>3. ASSUME NEW h \in Session, Watched!CommitActivated(h) \/ Watched!CommitToggle(h)
        PROVE  cycles' = cycles /\ \A o \in OAB : row[o].disabledAt = Watched!NULL => row'[o].disabledAt = Watched!NULL
    <2>1. cycles' = cycles /\ (row' = row \/ row' = Watched!Upserted(h))
      BY <1>3 DEF Watched!CommitActivated, Watched!CommitToggle
    <2> QED
      BY <1>2, <2>1
  <1>4. ASSUME NEW o \in OAB, Watched!ToggleOff(o)
        PROVE  /\ cycles' \in [OAB -> 0..MaxCycles]
               /\ \A p \in OAB : cycles'[p] = 0 => row'[p].disabledAt = Watched!NULL
               /\ \A p \in OAB : cycles'[p] = cycles[p] \/ cycles'[p] = cycles[p] + 1
    <2>1. CASE row[o].state # "on"
      BY <1>1, <1>4, <2>1 DEF Watched!ToggleOff, Watched!DisableWatchedOAB
    <2>2. CASE row[o].state = "on"
      <3>1. /\ cycles' = [cycles EXCEPT ![o] = @ + 1] /\ cycles[o] < MaxCycles
            /\ row' = [row EXCEPT ![o].state = "off", ![o].disabledAt = now]
        BY <1>4, <2>2 DEF Watched!ToggleOff, Watched!DisableWatchedOAB
      <3>2. cycles[o] + 1 \in 0..MaxCycles /\ cycles[o] + 1 # 0
        BY <1>0, <3>1
      <3>3. \A p \in OAB : p # o => row'[p] = row[p] /\ cycles'[p] = cycles[p]
        BY <3>1 DEF Watched!TypeOK, GapInv
      <3>4. cycles'[o] # 0 /\ cycles'[o] = cycles[o] + 1 /\ cycles' \in [OAB -> 0..MaxCycles]
        BY <3>1, <3>2 DEF GapInv
      <3> QED
        BY <3>3, <3>4 DEF GapInv
    <2> QED
      BY <2>1, <2>2
  <1>5. ASSUME NEW x \in syncs, Watched!clearCatchUp(x)
        PROVE  cycles' = cycles /\ \A o \in OAB : row[o].disabledAt = Watched!NULL => row'[o].disabledAt = Watched!NULL
    BY <1>0, <1>5 DEF Watched!clearCatchUp, Watched!TypeOK, WatchedRow
  <1>6. ASSUME NEW h \in Session, NEW o \in OAB,
               Watched!AddWatchedOAB(h, o) \/ Watched!ToggleOn(h, o) \/ Watched!ReadPriorRow(h, o) \/ Watched!LockRow(h, o)
        PROVE  row' = row /\ cycles' = cycles
    BY <1>6
       DEF Watched!AddWatchedOAB, Watched!BeginScopeEdit, Watched!ToggleOn, Watched!ReadPriorRow,
           Watched!LockRow
  <1>7. ASSUME NEW h \in Session, Watched!CommitScopeEdit(h) \/ Watched!Abort(h)
        PROVE  row' = row /\ cycles' = cycles
    BY <1>7 DEF Watched!CommitScopeEdit, Watched!Abort
  <1>8. ASSUME NEW h \in Session, NEW S \in SUBSET OAB, Watched!ActivateIntegration(h, S)
        PROVE  row' = row /\ cycles' = cycles
    BY <1>8 DEF Watched!ActivateIntegration, Watched!BeginScopeEdit
  <1>9. ASSUME NEW h \in Session, NEW e \in 1..MaxRequests, Watched!OnIntegrationActivated(h, e)
        PROVE  row' = row /\ cycles' = cycles
    BY <1>9 DEF Watched!OnIntegrationActivated
  <1>10. ASSUME NEW r \in reenabled, Watched!OnWatchedOABReenabled(r)
        PROVE  row' = row /\ cycles' = cycles
    BY <1>10 DEF Watched!OnWatchedOABReenabled
  <1>11. ASSUME NEW x \in syncs, Watched!CatchUpSucceeds(x) \/ Watched!CatchUpFails(x)
        PROVE  row' = row /\ cycles' = cycles
    BY <1>11 DEF Watched!CatchUpSucceeds, Watched!CatchUpFails
  <1>12. CASE Watched!Tick \/ UNCHANGED Watched!vars
    BY <1>1, <1>12 DEF Watched!Tick, Watched!vars
  <1> QED
    BY <1>1, <1>3, <1>4, <1>5, <1>6, <1>7, <1>8, <1>9, <1>10, <1>11, <1>12 DEF Watched!Next

\* An OAB that was never switched off has nothing to catch up with.
LEMMA OneDowntimeIsPatient ==
    ASSUME [Watched!Next]_(Watched!vars), Watched!TypeOK, GapInv, MaxCycles <= 1
    PROVE  Patient
  <1> SUFFICES ASSUME NEW o \in OAB, cycles'[o] # cycles[o] PROVE Settled(o)
    BY DEF Patient
  <1>1. cycles'[o] = cycles[o] + 1 /\ cycles'[o] \in 0..MaxCycles /\ cycles[o] \in 0..MaxCycles /\ MaxCycles \in Nat
    BY CycleStep, WorkAssumptions DEF GapInv, Watched!WatchedAssumptions
  <1>2. cycles[o] = 0
    BY <1>1
  <1> QED
    BY <1>2 DEF GapInv, MarksGap
-----------------------------------------------------------------------------
\* An integration nobody has edited yet satisfies the invariants.
LEMMA WatchedInit == Watched!Init => Watched!TypeOK /\ TxInv /\ Watched!HistoryNotSwallowed /\ GapInv
  <1> SUFFICES ASSUME Watched!Init PROVE Watched!TypeOK /\ TxInv /\ Watched!HistoryNotSwallowed /\ GapInv
    OBVIOUS
  <1>1. Watched!TypeOK
    <2>1. Watched!NoRow \in WatchedRow
      BY DEF Watched!NoRow, WatchedRow
    <2>2. now \in Watched!Time
      BY WatchedBounds DEF Watched!Init
    <2> QED
      BY <2>1, <2>2, IdleIsTransaction
         DEF Watched!Init, Watched!TypeOK, WatchedRow, Transaction, Watched!NoRow
  <1>2. TxInv /\ Watched!HistoryNotSwallowed
    BY
       DEF Watched!Init, TxInv, Watched!HistoryNotSwallowed, Watched!Idle, Watched!Unread,
           Watched!NoRow
  <1>3. ASSUME NEW o \in OAB PROVE MarksGap(o)
    <2>1. row[o] = Watched!NoRow /\ missed[o] = {} /\ reenabled = {} /\ syncs = {} /\ now = 1
      BY DEF Watched!Init
    <2> QED
      BY <2>1 DEF MarksGap, Watched!NoRow, Gap, Settled, Watched!NULL
  <1>4. cycles \in [OAB -> 0..MaxCycles] /\ \A o \in OAB : row[o].disabledAt = Watched!NULL
    BY WorkAssumptions DEF Watched!Init, Watched!NoRow, Watched!WatchedAssumptions
  <1> QED
    BY <1>1, <1>2, <1>3, <1>4 DEF GapInv

\* While the patient only switch OABs off, every step keeps the gaps.
LEMMA GapInvStep ==
    ASSUME [Watched!Next]_(Watched!vars), Patient, Watched!TypeOK, TxInv, GapInv
    PROVE  GapInv'
  BY GapStep, CycleStep DEF GapInv

\* The marks of GapInv are what NoGapForgotten asks for.
LEMMA MarkedIsNotForgotten == ASSUME GapInv PROVE Watched!NoGapForgotten
  BY DEF GapInv, MarksGap, Gap, Watched!NoGapForgotten

\* The inductive invariant of the watched OABs: types, transactions, history.
THEOREM WatchedInvariance == Watched!Spec => []WatchedInv
  <1>1. Watched!Init => WatchedInv
    BY WatchedInit DEF WatchedInv
  <1>2. WatchedInv /\ [Watched!Next]_(Watched!vars) => WatchedInv'
    BY WatchedType, TxStep, HistoryStep DEF WatchedInv
  <1> QED
    BY <1>1, <1>2, PTL DEF Watched!Spec

\* Where no OAB is switched off with a catch-up of it under way, no gap is
\* forgotten (backfill.go: "a failed catch-up leaves the gap marked").
THEOREM GapsAreKept == Watched!Spec /\ [][Patient]_(Watched!vars) => []Watched!NoGapForgotten
  <1>1. Watched!Init => GapInv
    BY WatchedInit
  <1>2. WatchedInv /\ GapInv /\ [Watched!Next]_(Watched!vars) /\ [Patient]_(Watched!vars) => GapInv'
    <2>1. UNCHANGED Watched!vars => Patient
      BY DEF Watched!vars, Watched!gapVars, Patient
    <2> QED
      BY <2>1, GapInvStep DEF WatchedInv
  <1>3. GapInv => Watched!NoGapForgotten
    BY MarkedIsNotForgotten
  <1> QED
    BY <1>1, <1>2, <1>3, WatchedInvariance, PTL DEF Watched!Spec

\* An OAB that is switched off once has no catch-up under way before that.
THEOREM OneGapIsKept == ASSUME MaxCycles <= 1 PROVE Watched!Spec => []Watched!NoGapForgotten
  <1>1. Watched!Init => GapInv
    BY WatchedInit
  <1>2. WatchedInv /\ GapInv /\ [Watched!Next]_(Watched!vars) => GapInv'
    BY GapInvStep, OneDowntimeIsPatient DEF WatchedInv
  <1>3. GapInv => Watched!NoGapForgotten
    BY MarkedIsNotForgotten
  <1> QED
    BY <1>1, <1>2, <1>3, WatchedInvariance, PTL DEF Watched!Spec
-----------------------------------------------------------------------------
(* The generation of a piece.                                              *)

\* A generation is there before its task, its executions and their marks.
IssuedInv ==
    /\ \A e \in Generation!Event : aiTask[e].state # "none" => e <= requested
    /\ \A w \in Worker : aiExec[w] # Generation!Idle => aiExec[w].of <= requested
    /\ saga = "EXTRACTING" => requested >= 1
    /\ generated <= Cardinality(aiSeen)

\* An execution gives up only after a call has failed.
FailInv == \A w \in Worker : aiExec[w].pc = "fail" => faults > 0

GenerationInv == Generation!TypeOK /\ IssuedInv /\ FailInv /\ Generation!ExtractingIsServed

Phase == {"load", "generate", "persist", "fail"}

\* The bounds of the generation slice.
LEMMA GenerationBounds ==
    /\ MaxGenerations \in Nat /\ MaxRetry \in Nat /\ MaxGenerationFaults \in Nat
    /\ MaxCrashes \in Nat /\ MaxLapses \in Nat
    /\ Generation!Event \subseteq Nat
  BY WorkAssumptions, DeliveryAssumptions DEF Generation!GenerationAssumptions, Generation!Event

\* A function changed at one point.
LEMMA Updated ==
    ASSUME NEW D, NEW S, NEW f \in [D -> S], NEW d \in D, NEW x \in S
    PROVE  /\ [f EXCEPT ![d] = x] \in [D -> S]
           /\ \A e \in D : [f EXCEPT ![d] = x][e] = IF e = d THEN x ELSE f[e]
  OBVIOUS

\* Tasks stay tasks; one that is given back runs again or has spent its budget.
LEMMA TaskMoves ==
    /\ Generation!NoTask \in Generation!Task
    /\ \A t \in Generation!Task : /\ Generation!Retried(t) \in Generation!Task
                                  /\ Generation!Live(Generation!Retried(t)) \/ Generation!Retried(t).tries = MaxRetry
                                  /\ Generation!Retried(t).state # "none"
                                  /\ t.tries = MaxRetry => Generation!Retried(t).tries = MaxRetry
    /\ \A t \in Generation!Task, c \in Generation!Cause :
           Generation!Answered(t, c) \in Generation!Task /\ Generation!Answered(t, c).state # "none"
    /\ \A t \in Generation!Task : t.tries = MaxRetry => Generation!Answered(t, "transient").tries = MaxRetry
    /\ \A t \in Generation!Task : Generation!Answered(t, "transient") = Generation!Retried(t)
    /\ \A t \in Generation!Task, s \in {"queued", "running"} :
           /\ [t EXCEPT !.state = s] \in Generation!Task
           /\ [t EXCEPT !.state = s].state = s /\ [t EXCEPT !.state = s].tries = t.tries
  <1>1. MaxRetry \in Nat
    BY GenerationBounds
  <1>2. Generation!NoTask \in Generation!Task
    BY <1>1 DEF Generation!NoTask, Generation!Task
  <1>3. \A t \in Generation!Task : /\ Generation!Retried(t) \in Generation!Task
                                   /\ Generation!Live(Generation!Retried(t)) \/ Generation!Retried(t).tries = MaxRetry
                                   /\ Generation!Retried(t).state # "none"
                                   /\ t.tries = MaxRetry => Generation!Retried(t).tries = MaxRetry
    BY <1>1 DEF Generation!Task, Generation!Retried, Generation!Live
  <1>4. \A t \in Generation!Task : Generation!Answered(t, "transient") = Generation!Retried(t)
    BY DEF Generation!Answered
  <1>5. \A t \in Generation!Task, c \in Generation!Cause :
            Generation!Answered(t, c) \in Generation!Task /\ Generation!Answered(t, c).state # "none"
    <2> SUFFICES ASSUME NEW t \in Generation!Task, NEW c \in Generation!Cause
                 PROVE  Generation!Answered(t, c) \in Generation!Task /\ Generation!Answered(t, c).state # "none"
      OBVIOUS
    <2>1. CASE c = "none"
      BY <2>1 DEF Generation!Answered, Generation!Task
    <2>2. CASE c = "terminal"
      BY <2>2 DEF Generation!Answered, Generation!Task
    <2>3. CASE c = "transient"
      BY <1>3, <1>4, <2>3
    <2> QED
      BY <2>1, <2>2, <2>3 DEF Generation!Cause
  <1>6. \A t \in Generation!Task, s \in {"queued", "running"} :
           /\ [t EXCEPT !.state = s] \in Generation!Task
           /\ [t EXCEPT !.state = s].state = s /\ [t EXCEPT !.state = s].tries = t.tries
    BY DEF Generation!Task
  <1> QED
    BY <1>2, <1>3, <1>4, <1>5, <1>6

\* A running execution has its fields.
LEMMA ExecFields ==
    ASSUME Generation!TypeOK, NEW w \in Worker
    PROVE  /\ aiExec[w] \in Generation!Exec
           /\ aiExec[w] = Generation!Idle => aiExec[w].pc = "idle"
           /\ aiExec[w].pc \in Phase => aiExec[w] # Generation!Idle
           /\ aiExec[w] # Generation!Idle => aiExec[w].pc \in Phase /\ aiExec[w].of \in Generation!Event /\ aiExec[w].zombie \in BOOLEAN
  BY DEF Generation!TypeOK, Generation!Exec, Generation!Idle, Phase

\* An execution goes on to its next phase.
LEMMA GotoMoves ==
    ASSUME GenerationInv, NEW w \in Worker, aiExec[w] # Generation!Idle, NEW p \in Phase, Generation!Goto(w, p)
    PROVE  /\ aiExec' \in [Worker -> Generation!Exec] /\ aiTask' = aiTask
           /\ \A v \in Worker : aiExec'[v] # Generation!Idle => aiExec'[v].of <= requested
           /\ \A v \in Worker : aiExec'[v].pc = "fail" => p = "fail" \/ faults > 0
  <1> USE DEF GenerationInv
  <1>1. PICK x \in Generation!Exec : x = aiExec[w] /\ x # Generation!Idle
    BY DEF Generation!TypeOK
  <1>2. aiExec' = [aiExec EXCEPT ![w] = [x EXCEPT !.pc = p]] /\ aiTask' = aiTask
    BY <1>1 DEF Generation!Goto, Generation!TypeOK
  <1>3. [x EXCEPT !.pc = p] \in Generation!Exec /\ [x EXCEPT !.pc = p].pc = p /\ [x EXCEPT !.pc = p].of = x.of
    BY <1>1 DEF Generation!Exec, Phase, Generation!Idle
  <1> QED
    BY <1>1, <1>2, <1>3 DEF Generation!TypeOK, IssuedInv, FailInv

\* An execution ends, and its task is answered.
LEMMA ReturnMoves ==
    ASSUME GenerationInv, NEW w \in Worker, aiExec[w] # Generation!Idle, NEW c \in Generation!Cause, Generation!Return(w, c)
    PROVE  /\ aiExec' \in [Worker -> Generation!Exec]
           /\ aiTask' \in [Generation!Event -> Generation!Task]
           /\ \A v \in Worker : aiExec'[v] # Generation!Idle => aiExec'[v].of <= requested
           /\ \A v \in Worker : aiExec'[v].pc = "fail" => faults > 0
           /\ \A e \in Generation!Event : aiTask'[e].state # "none" => e <= requested
           /\ \A e \in Generation!Event : \/ aiTask'[e] = aiTask[e]
                                          \/ e = aiExec[w].of /\ aiTask'[e] = Generation!Answered(aiTask[e], c)
  <1> USE DEF GenerationInv
  <1>1. aiExec[w].of \in Generation!Event /\ aiExec[w].of <= requested /\ Generation!Idle \in Generation!Exec /\ Generation!Idle.pc # "fail"
    BY ExecFields DEF IssuedInv, Generation!Exec, Generation!Idle
  <1>2. aiExec' = [aiExec EXCEPT ![w] = Generation!Idle]
    BY DEF Generation!Return
  <1>3. /\ aiTask' \in [Generation!Event -> Generation!Task]
        /\ \A e \in Generation!Event : \/ aiTask'[e] = aiTask[e]
                                       \/ e = aiExec[w].of /\ aiTask'[e] = Generation!Answered(aiTask[e], c)
    BY <1>1, TaskMoves DEF Generation!Return, Generation!TypeOK
  <1> QED
    BY <1>1, <1>2, <1>3 DEF Generation!TypeOK, IssuedInv, FailInv

\* A step that leaves the saga, its events and its marks alone.
LEMMA QuietStep ==
    ASSUME GenerationInv, UNCHANGED <<saga, requested, aiSeen, generated>>,
           content' \in BOOLEAN, request' \in [Session -> {"none", "trigger", "review"}],
           reviews' \subseteq {"completed", "failed"},
           faults' \in 0..MaxGenerationFaults, crashes' \in 0..MaxCrashes, lapses' \in 0..MaxLapses,
           faults' >= faults,
           aiExec' \in [Worker -> Generation!Exec], aiTask' \in [Generation!Event -> Generation!Task],
           \A v \in Worker : aiExec'[v] # Generation!Idle => aiExec'[v].of <= requested,
           \A v \in Worker : aiExec'[v].pc = "fail" => faults' > 0,
           \A e \in Generation!Event : aiTask'[e].state # "none" => e <= requested,
           saga = "EXTRACTING" =>
               Generation!Live(aiTask'[requested]) \/ aiTask'[requested].tries = MaxRetry \/ faults' > 0
    PROVE  GenerationInv'
  BY DEF GenerationInv, Generation!TypeOK, IssuedInv, FailInv, Generation!ExtractingIsServed

\* While the piece is EXTRACTING its own event is a task.
LEMMA ServedTask ==
    ASSUME GenerationInv, saga = "EXTRACTING"
    PROVE  /\ requested \in Generation!Event /\ requested \notin aiSeen
           /\ aiTask[requested] \in Generation!Task
           /\ Generation!Live(aiTask[requested]) \/ aiTask[requested].tries = MaxRetry \/ faults > 0
  BY GenerationBounds
     DEF GenerationInv, Generation!TypeOK, IssuedInv, Generation!ExtractingIsServed,
         Generation!Event

\* A task that asynq gives back is still there to serve the piece.
LEMMA RetryServes ==
    ASSUME GenerationInv, NEW w \in Worker, aiExec[w] # Generation!Idle, Generation!Return(w, "transient"),
           UNCHANGED <<saga, requested, aiSeen, generated, content, request, reviews>>,
           faults' \in 0..MaxGenerationFaults, crashes' \in 0..MaxCrashes, lapses' \in 0..MaxLapses,
           faults' >= faults
    PROVE  GenerationInv'
  <1>1. "transient" \in Generation!Cause
    BY DEF Generation!Cause
  <1>2. faults \in Nat /\ faults' \in Nat
    BY GenerationBounds DEF GenerationInv, Generation!TypeOK
  <1>3. saga = "EXTRACTING" =>
            Generation!Live(aiTask'[requested]) \/ aiTask'[requested].tries = MaxRetry \/ faults' > 0
    <2> SUFFICES ASSUME saga = "EXTRACTING"
                 PROVE  Generation!Live(aiTask'[requested]) \/ aiTask'[requested].tries = MaxRetry \/ faults' > 0
      OBVIOUS
    <2>1. \/ aiTask'[requested] = aiTask[requested]
          \/ aiTask'[requested] = Generation!Retried(aiTask[requested])
      BY <1>1, ServedTask, ReturnMoves, TaskMoves
    <2> QED
      BY <1>2, <2>1, ServedTask, TaskMoves
  <1>4. \A v \in Worker : aiExec'[v].pc = "fail" => faults' > 0
    BY <1>1, <1>2, ReturnMoves
  <1> QED
    BY <1>1, <1>3, <1>4, ReturnMoves, QuietStep DEF GenerationInv, Generation!TypeOK

\* An execution ends with an answer that is final, of a piece that is not, or
\* not any more, EXTRACTING, or because a call has failed.
LEMMA FinalServes ==
    ASSUME GenerationInv, NEW w \in Worker, aiExec[w] # Generation!Idle, NEW c \in Generation!Cause, Generation!Return(w, c),
           UNCHANGED <<saga, requested, aiSeen, generated, content, request, reviews>>,
           faults' \in 0..MaxGenerationFaults, crashes' \in 0..MaxCrashes, lapses' \in 0..MaxLapses,
           faults' >= faults,
           saga # "EXTRACTING" \/ aiExec[w].of # requested \/ faults > 0
    PROVE  GenerationInv'
  <1>2. faults \in Nat /\ faults' \in Nat
    BY GenerationBounds DEF GenerationInv, Generation!TypeOK
  <1>3. saga = "EXTRACTING" =>
            Generation!Live(aiTask'[requested]) \/ aiTask'[requested].tries = MaxRetry \/ faults' > 0
    BY <1>2, ServedTask, ReturnMoves
  <1>4. \A v \in Worker : aiExec'[v].pc = "fail" => faults' > 0
    BY <1>2, ReturnMoves
  <1> QED
    BY <1>3, <1>4, ReturnMoves, QuietStep DEF GenerationInv, Generation!TypeOK

\* An execution goes on.
LEMMA GotoServes ==
    ASSUME GenerationInv, NEW w \in Worker, aiExec[w] # Generation!Idle, NEW p \in Phase, Generation!Goto(w, p),
           UNCHANGED <<saga, requested, aiSeen, generated, content, request, reviews>>,
           faults' \in 0..MaxGenerationFaults, UNCHANGED <<crashes, lapses>>,
           faults' >= faults, p = "fail" => faults' > 0
    PROVE  GenerationInv'
  <1>1. faults \in Nat /\ faults' \in Nat
    BY GenerationBounds DEF GenerationInv, Generation!TypeOK
  <1>2. \A v \in Worker : aiExec'[v].pc = "fail" => faults' > 0
    BY <1>1, GotoMoves
  <1>3. aiTask' = aiTask
    BY GotoMoves
  <1> QED
    BY <1>1, <1>2, <1>3, GotoMoves, QuietStep, ServedTask
       DEF GenerationInv, Generation!TypeOK, IssuedInv

\* A failed call is counted, and nothing else counts.
LEMMA FaultMoves ==
    /\ Generation!NoFault => UNCHANGED <<faults, crashes, lapses>>
    /\ Generation!TypeOK /\ Generation!Fault => /\ faults' \in 0..MaxGenerationFaults /\ faults' >= faults /\ faults' > 0
                                                /\ UNCHANGED <<crashes, lapses>>
    /\ Generation!TypeOK => /\ faults \in 0..MaxGenerationFaults /\ faults >= faults
                            /\ crashes \in 0..MaxCrashes /\ lapses \in 0..MaxLapses
  BY GenerationBounds DEF Generation!NoFault, Generation!Fault, Generation!bounds, Generation!TypeOK

\* The marks of a larger set are more.
LEMMA OneMoreMark ==
    ASSUME GenerationInv, NEW e \in 1..requested, e \notin aiSeen
    PROVE  /\ IsFiniteSet(aiSeen) /\ Cardinality(aiSeen) \in Nat
           /\ Cardinality(aiSeen \cup {e}) = Cardinality(aiSeen) + 1
           /\ Cardinality(aiSeen \cup {e}) <= requested
  <1>1. requested \in Nat /\ aiSeen \cup {e} \subseteq 1..requested /\ aiSeen \subseteq 1..requested
    BY GenerationBounds DEF GenerationInv, Generation!TypeOK
  <1>2. IsFiniteSet(1..requested) /\ Cardinality(1..requested) = requested
    BY <1>1, FS_Interval
  <1>3. IsFiniteSet(aiSeen) /\ Cardinality(aiSeen) \in Nat
    BY <1>1, <1>2, FS_Subset, FS_CardinalityType
  <1>4. Cardinality(aiSeen \cup {e}) = Cardinality(aiSeen) + 1
    BY <1>3, FS_AddElement
  <1>5. Cardinality(aiSeen \cup {e}) <= requested
    BY <1>1, <1>2, FS_Subset
  <1> QED
    BY <1>3, <1>4, <1>5

\* The requests of the API keep the invariant.
LEMMA RequestSteps ==
    ASSUME GenerationInv, NEW r \in Session,
           \/ Generation!TriggerReads(r) \/ Generation!TriggerWrites(r)
           \/ Generation!ReviewReads(r) \/ Generation!ReviewWrites(r) \/ Generation!RequestFails(r)
    PROVE  GenerationInv'
  <1> USE DEF Generation!bounds
  <1>1. CASE Generation!TriggerReads(r) \/ Generation!ReviewReads(r) \/ Generation!RequestFails(r)
    <2>1. request' \in [Session -> {"none", "trigger", "review"}]
      BY <1>1
         DEF Generation!TriggerReads, Generation!ReviewReads, Generation!RequestFails,
             GenerationInv, Generation!TypeOK
    <2>2. UNCHANGED <<saga, content, requested, aiTask, aiSeen, aiExec, reviews, generated, Generation!bounds>>
      BY <1>1 DEF Generation!TriggerReads, Generation!ReviewReads, Generation!RequestFails
    <2> QED
      BY <2>1, <2>2, FaultMoves
         DEF GenerationInv, Generation!TypeOK, IssuedInv, FailInv, Generation!ExtractingIsServed
  <1>2. CASE Generation!ReviewWrites(r)
    <2>1. request' \in [Session -> {"none", "trigger", "review"}]
      BY <1>2 DEF Generation!ReviewWrites, GenerationInv, Generation!TypeOK
    <2>2. saga' = "REVIEWED" /\ reviews' = reviews \cup {"completed"}
          /\ UNCHANGED <<content, requested, aiTask, aiSeen, aiExec, generated, Generation!bounds>>
      BY <1>2 DEF Generation!ReviewWrites
    <2> QED
      BY <2>1, <2>2
         DEF GenerationInv, Generation!TypeOK, IssuedInv, FailInv, Generation!ExtractingIsServed,
             Generation!Saga
  <1>3. CASE Generation!TriggerWrites(r)
    <2>1. /\ request' \in [Session -> {"none", "trigger", "review"}]
          /\ saga' = "EXTRACTING" /\ requested' = requested + 1 /\ requested < MaxGenerations
          /\ aiTask' = [aiTask EXCEPT ![requested + 1].state = "queued"]
          /\ UNCHANGED <<content, aiSeen, aiExec, reviews, generated, Generation!bounds>>
      BY <1>3 DEF Generation!TriggerWrites, GenerationInv, Generation!TypeOK
    <2>2. requested \in Nat /\ requested' \in Generation!Event /\ requested' \in 0..MaxGenerations
          /\ requested + 1 \in Generation!Event
      BY <2>1, GenerationBounds DEF GenerationInv, Generation!TypeOK, Generation!Event
    <2>3. /\ aiTask' \in [Generation!Event -> Generation!Task]
          /\ \A e \in Generation!Event : e # requested' => aiTask'[e] = aiTask[e]
          /\ Generation!Live(aiTask'[requested'])
      <3>1. PICK t \in Generation!Task : t = aiTask[requested + 1]
        BY <2>2 DEF GenerationInv, Generation!TypeOK
      <3>2. aiTask' = [aiTask EXCEPT ![requested + 1] = [t EXCEPT !.state = "queued"]]
        BY <2>1, <3>1
      <3>3. [t EXCEPT !.state = "queued"] \in Generation!Task /\ [t EXCEPT !.state = "queued"].state = "queued"
        BY TaskMoves
      <3> QED
        BY <2>1, <2>2, <3>2, <3>3 DEF GenerationInv, Generation!TypeOK, Generation!Live
    <2>4. aiSeen \subseteq 1..requested' /\ requested' \notin aiSeen /\ generated \in 0..requested'
      BY <2>1, <2>2 DEF GenerationInv, Generation!TypeOK
    <2>5. \A e \in Generation!Event : aiTask'[e].state # "none" => e <= requested'
      BY <2>1, <2>2, <2>3, GenerationBounds DEF GenerationInv, IssuedInv
    <2>6. \A w \in Worker : aiExec[w] # Generation!Idle => aiExec[w].of <= requested'
      BY <2>1, <2>2, GenerationBounds, ExecFields DEF GenerationInv, IssuedInv
    <2>7. Generation!TypeOK'
      BY <2>1, <2>2, <2>3, <2>4 DEF GenerationInv, Generation!TypeOK, Generation!Saga
    <2>8. IssuedInv' /\ FailInv'
      BY <2>1, <2>2, <2>5, <2>6 DEF GenerationInv, IssuedInv, FailInv
    <2>9. Generation!ExtractingIsServed'
      BY <2>1, <2>3, <2>4 DEF Generation!ExtractingIsServed
    <2> QED
      BY <2>7, <2>8, <2>9 DEF GenerationInv
  <1> QED
    BY <1>1, <1>2, <1>3

\* So do the queue, a crash and a lost lease.
LEMMA QueueSteps ==
    ASSUME GenerationInv, NEW w \in Worker,
           (\E e \in Generation!Event : Generation!Take(w, e)) \/ Generation!Crash(w) \/ Generation!LeaseExpires(w)
    PROVE  GenerationInv'
  <1>1. ASSUME NEW e \in Generation!Event, Generation!Take(w, e) PROVE GenerationInv'
    <2>1. /\ aiTask[e].state = "queued" /\ aiTask' = [aiTask EXCEPT ![e].state = "running"]
          /\ aiExec' = [aiExec EXCEPT ![w] = [pc |-> "load", of |-> e, zombie |-> FALSE]]
          /\ UNCHANGED <<saga, content, request, requested, aiSeen, reviews, generated, faults, crashes, lapses>>
      BY <1>1 DEF Generation!Take, Generation!bounds
    <2>2. PICK t \in Generation!Task : t = aiTask[e]
      BY DEF GenerationInv, Generation!TypeOK
    <2>3. aiTask' = [aiTask EXCEPT ![e] = [t EXCEPT !.state = "running"]]
      BY <2>1, <2>2
    <2>4. /\ [t EXCEPT !.state = "running"] \in Generation!Task /\ [t EXCEPT !.state = "running"].state = "running"
      BY TaskMoves
    <2>5. e <= requested
      BY <2>1 DEF GenerationInv, IssuedInv
    <2>6. /\ [pc |-> "load", of |-> e, zombie |-> FALSE] \in Generation!Exec
          /\ [pc |-> "load", of |-> e, zombie |-> FALSE].of = e
          /\ [pc |-> "load", of |-> e, zombie |-> FALSE].pc # "fail"
      BY DEF Generation!Exec
    <2>7. /\ aiTask' \in [Generation!Event -> Generation!Task]
          /\ \A g \in Generation!Event : aiTask'[g] = aiTask[g] \/ (g = e /\ Generation!Live(aiTask'[g]))
      <3>1. PICK r \in Generation!Task : r = [t EXCEPT !.state = "running"] /\ r.state = "running"
        BY <2>4
      <3>2. aiTask' = [aiTask EXCEPT ![e] = r]
        BY <2>3, <3>1
      <3>3. aiTask \in [Generation!Event -> Generation!Task] /\ Generation!Live(r)
        BY <3>1 DEF GenerationInv, Generation!TypeOK, Generation!Live
      <3> QED
        BY <3>1, <3>2, <3>3, Updated
    <2>8. /\ aiExec' \in [Worker -> Generation!Exec]
          /\ \A v \in Worker : aiExec'[v] # Generation!Idle => aiExec'[v].of <= requested
          /\ \A v \in Worker : aiExec'[v].pc = "fail" => faults' > 0
      BY <2>1, <2>5, <2>6 DEF GenerationInv, Generation!TypeOK, IssuedInv, FailInv
    <2>9. \A g \in Generation!Event : aiTask'[g].state # "none" => g <= requested
      BY <2>5, <2>7 DEF GenerationInv, IssuedInv
    <2>10. saga = "EXTRACTING" =>
               Generation!Live(aiTask'[requested]) \/ aiTask'[requested].tries = MaxRetry \/ faults' > 0
      BY <2>1, <2>7, ServedTask
    <2>11. /\ faults' \in 0..MaxGenerationFaults /\ crashes' \in 0..MaxCrashes /\ lapses' \in 0..MaxLapses
           /\ faults' >= faults
      BY <2>1, FaultMoves DEF GenerationInv
    <2> QED
      BY <2>1, <2>7, <2>8, <2>9, <2>10, <2>11, QuietStep DEF GenerationInv, Generation!TypeOK
  <1>2. CASE Generation!Crash(w)
    <2>1. /\ aiExec[w] # Generation!Idle /\ Generation!Return(w, "transient") /\ crashes' \in 0..MaxCrashes
          /\ UNCHANGED <<saga, content, request, requested, aiSeen, reviews, generated, faults, lapses>>
      BY <1>2, GenerationBounds DEF Generation!Crash, GenerationInv, Generation!TypeOK
    <2> QED
      BY <2>1, RetryServes, FaultMoves DEF GenerationInv
  <1>3. CASE Generation!LeaseExpires(w)
    <2>1. /\ aiExec[w] # Generation!Idle /\ aiTask' = [aiTask EXCEPT ![aiExec[w].of] = Generation!Retried(@)]
          /\ aiExec' = [aiExec EXCEPT ![w].zombie = TRUE]
          /\ UNCHANGED <<saga, content, request, requested, aiSeen, reviews, generated, faults, crashes>>
          /\ lapses' \in 0..MaxLapses
      BY <1>3, GenerationBounds DEF Generation!LeaseExpires, GenerationInv, Generation!TypeOK
    <2>2. PICK x \in Generation!Exec : x = aiExec[w] /\ x # Generation!Idle
      BY <2>1, ExecFields DEF GenerationInv
    <2>3. /\ [x EXCEPT !.zombie = TRUE] \in Generation!Exec /\ [x EXCEPT !.zombie = TRUE].pc = x.pc
          /\ [x EXCEPT !.zombie = TRUE].of = x.of
      BY <2>2 DEF Generation!Exec, Generation!Idle
    <2>4. aiExec' = [aiExec EXCEPT ![w] = [x EXCEPT !.zombie = TRUE]]
      BY <2>1, <2>2
    <2>5. aiExec[w].of \in Generation!Event /\ aiExec[w].of <= requested
      BY <2>1, ExecFields DEF GenerationInv, IssuedInv
    <2>6. /\ aiExec' \in [Worker -> Generation!Exec]
          /\ \A v \in Worker : aiExec'[v] # Generation!Idle => aiExec'[v].of <= requested
          /\ \A v \in Worker : aiExec'[v].pc = "fail" => faults' > 0
      BY <2>1, <2>2, <2>3, <2>4, <2>5 DEF GenerationInv, Generation!TypeOK, IssuedInv, FailInv
    <2>7. /\ aiTask' \in [Generation!Event -> Generation!Task]
          /\ \A e \in Generation!Event : aiTask'[e] = aiTask[e] \/ (e = aiExec[w].of /\ aiTask'[e] = Generation!Retried(aiTask[e]))
      <3>1. PICK t \in Generation!Task : t = aiTask[aiExec[w].of]
        BY <2>5 DEF GenerationInv, Generation!TypeOK
      <3>2. PICK r \in Generation!Task : r = Generation!Retried(t)
        BY <3>1, TaskMoves
      <3>3. aiTask' = [aiTask EXCEPT ![aiExec[w].of] = r]
        BY <2>1, <3>1, <3>2
      <3>4. aiTask \in [Generation!Event -> Generation!Task]
        BY DEF GenerationInv, Generation!TypeOK
      <3> QED
        BY <2>5, <3>1, <3>2, <3>3, <3>4, Updated
    <2>8. \A e \in Generation!Event : aiTask'[e].state # "none" => e <= requested
      BY <2>5, <2>7 DEF GenerationInv, IssuedInv
    <2>9. saga = "EXTRACTING" =>
               Generation!Live(aiTask'[requested]) \/ aiTask'[requested].tries = MaxRetry \/ faults' > 0
      BY <2>1, <2>7, ServedTask, TaskMoves
    <2>10. faults' \in 0..MaxGenerationFaults /\ crashes' \in 0..MaxCrashes /\ faults' >= faults
      BY <2>1, FaultMoves DEF GenerationInv
    <2> QED
      BY <2>1, <2>6, <2>7, <2>8, <2>9, <2>10, QuietStep DEF GenerationInv, Generation!TypeOK
  <1> QED
    BY <1>1, <1>2, <1>3

\* So does the read of the piece.
LEMMA LoadKeeps ==
    ASSUME GenerationInv, NEW w \in Worker, Generation!LoadStep(w)
    PROVE  GenerationInv'
  <1>0. aiExec[w] # Generation!Idle /\ {"generate"} \subseteq Phase /\ {"terminal", "transient"} \subseteq Generation!Cause
    BY ExecFields DEF Generation!LoadStep, GenerationInv, Phase, Generation!Cause
  <1>1. UNCHANGED <<saga, content, request, requested, aiSeen, reviews, generated>>
    BY DEF Generation!LoadStep
  <1>2. CASE Generation!Goto(w, "generate") /\ Generation!NoFault
    BY <1>0, <1>1, <1>2, FaultMoves, GotoServes DEF GenerationInv
  <1>3. CASE saga # "EXTRACTING" /\ Generation!Return(w, "terminal") /\ Generation!NoFault
    BY <1>0, <1>1, <1>3, FaultMoves, FinalServes DEF GenerationInv
  <1>4. CASE Generation!Fault /\ Generation!Return(w, "transient")
    BY <1>0, <1>1, <1>4, FaultMoves, RetryServes DEF GenerationInv
  <1> QED
    BY <1>2, <1>3, <1>4 DEF Generation!LoadStep

\* So does the model.
LEMMA GenerateKeeps ==
    ASSUME GenerationInv, NEW w \in Worker, Generation!GenerateStep(w)
    PROVE  GenerationInv'
  <1>0. aiExec[w] # Generation!Idle /\ {"persist", "fail"} \subseteq Phase
    BY ExecFields DEF Generation!GenerateStep, GenerationInv, Phase
  <1>1. UNCHANGED <<saga, content, request, requested, aiSeen, reviews, generated>>
    BY DEF Generation!GenerateStep
  <1>2. CASE Generation!Goto(w, "persist") /\ Generation!NoFault
    BY <1>0, <1>1, <1>2, FaultMoves, GotoServes DEF GenerationInv
  <1>3. CASE Generation!Goto(w, "fail") /\ Generation!Fault
    BY <1>0, <1>1, <1>3, FaultMoves, GotoServes DEF GenerationInv
  <1>4. CASE Generation!Fault /\ Generation!Return(w, "transient")
    BY <1>0, <1>1, <1>4, FaultMoves, RetryServes DEF GenerationInv
  <1> QED
    BY <1>2, <1>3, <1>4 DEF Generation!GenerateStep

\* The transaction of an effect marks its event and takes the piece out of EXTRACTING.
LEMMA EffectKeeps ==
    ASSUME GenerationInv, NEW w \in Worker, aiExec[w] # Generation!Idle, NEW c \in Generation!Cause, Generation!Return(w, c),
           aiExec[w].of \notin aiSeen, aiSeen' = aiSeen \cup {aiExec[w].of},
           saga' \in {"DRAFTED", "FAILED"}, content' \in BOOLEAN,
           reviews' \subseteq {"completed", "failed"},
           generated' \in {generated, generated + 1},
           UNCHANGED <<request, requested, faults, crashes, lapses>>
    PROVE  GenerationInv'
  <1>1. aiExec[w].of \in 1..requested /\ requested \in Nat /\ generated \in Nat
    BY ExecFields, GenerationBounds
       DEF GenerationInv, IssuedInv, Generation!TypeOK, Generation!Event
  <1>2. generated <= Cardinality(aiSeen)
    BY DEF GenerationInv, IssuedInv
  <1>3. generated' <= Cardinality(aiSeen') /\ generated' \in 0..requested
    BY <1>1, <1>2, OneMoreMark
  <1>4. aiSeen' \subseteq 1..requested'
    BY <1>1 DEF GenerationInv, Generation!TypeOK
  <1>5. Generation!TypeOK'
    BY <1>3, <1>4, ReturnMoves DEF GenerationInv, Generation!TypeOK, Generation!Saga
  <1>6. IssuedInv' /\ FailInv'
    BY <1>3, ReturnMoves DEF IssuedInv, FailInv
  <1> QED
    BY <1>5, <1>6 DEF GenerationInv, Generation!ExtractingIsServed

\* So does the transaction that writes the text.
LEMMA TextKeeps ==
    ASSUME GenerationInv, NEW w \in Worker, Generation!PersistStep(w)
    PROVE  GenerationInv'
  <1>0. aiExec[w] # Generation!Idle /\ {"none", "transient"} \subseteq Generation!Cause /\ UNCHANGED <<request, requested>>
    BY ExecFields DEF Generation!PersistStep, GenerationInv, Phase, Generation!Cause
  <1>1. CASE /\ aiExec[w].of \notin aiSeen /\ aiSeen' = aiSeen \cup {aiExec[w].of}
             /\ saga' = "DRAFTED" /\ content' = TRUE /\ reviews' = {} /\ generated' = generated + 1
             /\ Generation!Return(w, "none") /\ Generation!NoFault
    BY <1>0, <1>1, FaultMoves, EffectKeeps
  <1>2. CASE /\ aiExec[w].of \in aiSeen /\ Generation!Return(w, "none") /\ Generation!NoFault
             /\ UNCHANGED <<saga, content, aiSeen, reviews, generated>>
    <2>1. saga # "EXTRACTING" \/ aiExec[w].of # requested
      BY <1>2, ServedTask
    <2> QED
      BY <1>0, <1>2, <2>1, FaultMoves, FinalServes DEF GenerationInv
  <1>3. CASE /\ Generation!Return(w, "transient") /\ Generation!Fault
             /\ UNCHANGED <<saga, content, aiSeen, reviews, generated>>
    BY <1>0, <1>3, FaultMoves, RetryServes DEF GenerationInv
  <1> QED
    BY <1>1, <1>2, <1>3 DEF Generation!PersistStep

\* So does the one that writes the failure.
LEMMA FailureKeeps ==
    ASSUME GenerationInv, NEW w \in Worker, Generation!FailStep(w)
    PROVE  GenerationInv'
  <1>0. /\ aiExec[w] # Generation!Idle /\ "terminal" \in Generation!Cause /\ Generation!Return(w, "terminal")
        /\ UNCHANGED <<content, request, requested, generated>> /\ faults > 0
    BY ExecFields DEF Generation!FailStep, GenerationInv, Phase, Generation!Cause, FailInv
  <1>1. CASE /\ aiExec[w].of \notin aiSeen /\ aiSeen' = aiSeen \cup {aiExec[w].of}
             /\ saga' = "FAILED" /\ reviews' = reviews \cup {"failed"} /\ Generation!NoFault
    BY <1>0, <1>1, FaultMoves, EffectKeeps DEF GenerationInv, Generation!TypeOK
  <1>2. CASE (Generation!NoFault \/ Generation!Fault) /\ UNCHANGED <<saga, aiSeen, reviews>>
    BY <1>0, <1>2, FaultMoves, FinalServes DEF GenerationInv
  <1> QED
    BY <1>1, <1>2 DEF Generation!FailStep

\* Every step keeps the invariant of the generation.
LEMMA GenerationStep ==
    ASSUME GenerationInv, [Generation!Next]_(Generation!vars)
    PROVE  GenerationInv'
  <1>1. CASE UNCHANGED Generation!vars
    BY <1>1
       DEF Generation!vars, Generation!bounds, GenerationInv, Generation!TypeOK, IssuedInv,
           FailInv, Generation!ExtractingIsServed
  <1> QED
    BY <1>1, RequestSteps, QueueSteps, LoadKeeps, GenerateKeeps, TextKeeps, FailureKeeps
       DEF Generation!Next, Generation!OnGenerationRequested

\* A piece just created satisfies it.
LEMMA GenerationInit == Generation!Init => GenerationInv
  <1> SUFFICES ASSUME Generation!Init PROVE GenerationInv
    OBVIOUS
  <1>1. Cardinality(aiSeen) = 0 /\ Generation!Idle \in Generation!Exec /\ Generation!Idle.pc # "fail" /\ Generation!NoTask.state = "none"
    BY FS_EmptySet DEF Generation!Init, Generation!Exec, Generation!Idle, Generation!NoTask
  <1>2. aiTask \in [Generation!Event -> Generation!Task] /\ aiExec \in [Worker -> Generation!Exec]
    BY <1>1, TaskMoves DEF Generation!Init
  <1>3. /\ requested \in 0..MaxGenerations /\ generated \in 0..requested /\ aiSeen \subseteq 1..requested
        /\ faults \in 0..MaxGenerationFaults /\ crashes \in 0..MaxCrashes /\ lapses \in 0..MaxLapses
    BY GenerationBounds DEF Generation!Init
  <1>4. /\ saga \in Generation!Saga /\ content \in BOOLEAN /\ reviews \subseteq {"completed", "failed"}
        /\ request \in [Session -> {"none", "trigger", "review"}]
    BY DEF Generation!Init, Generation!Saga
  <1>5. Generation!TypeOK
    BY <1>2, <1>3, <1>4 DEF Generation!TypeOK
  <1> QED
    BY <1>1, <1>5
       DEF GenerationInv, Generation!Init, IssuedInv, FailInv, Generation!ExtractingIsServed

\* The inductive invariant of the generation saga (generate.go).
THEOREM GenerationInvariance == Generation!Spec => []GenerationInv
  BY GenerationInit, GenerationStep, PTL DEF Generation!Spec

-----------------------------------------------------------------------------
(* The filing and the fetching of autos, by the theorems of their modules. *)

FilingSlice == INSTANCE PieceFilingProofs WITH
                   Click <- Session, task <- filingTask, exec <- filingExec
CourtSlice  == INSTANCE CourtFetchProofs WITH session <- caller, MaxRetry <- MaxFetchRetry


\* PieceFilingProofs and MCWork instantiate the same module.
LEMMA FilingIsFiling ==
    /\ Filing!Init <=> FilingSlice!Init
    /\ Filing!Next <=> FilingSlice!Next
    /\ Filing!vars = FilingSlice!vars
    /\ Filing!TypeOK <=> FilingSlice!TypeOK
    /\ Filing!ToldTheTruth <=> FilingSlice!ToldTheTruth
    /\ Filing!NotRefiled <=> FilingSlice!NotRefiled
  <1>1. Filing!Init <=> FilingSlice!Init
    BY
       DEF Filing!Init, FilingSlice!Init, Filing!Idle, FilingSlice!Idle, Filing!NoTask,
           FilingSlice!NoTask
  <1>2. Filing!Next <=> FilingSlice!Next
    BY DEF
        Filing!Next, Filing!bounds, Filing!Idle, Filing!Fault, Filing!NoFault,
        Filing!SetCredential, Filing!Active, Filing!ApproveFiling, Filing!InsertFilingAttempt,
        Filing!ApproveFails, Filing!InsertPetition, Filing!Filed, Filing!File, Filing!Return,
        Filing!Goto, Filing!Take, Filing!Crash, Filing!LeaseExpires, Filing!Pending,
        Filing!LoadStep, Filing!MarkStep, Filing!ReloadStep, Filing!OpenStep,
        Filing!ProtocolStep, Filing!ScreenshotsStep, Filing!FinalizeStep, Filing!FailStep,
        Filing!OnFilingEnqueued, Filing!Retried, Filing!Answered,
        FilingSlice!Next, FilingSlice!bounds, FilingSlice!Idle, FilingSlice!Fault,
        FilingSlice!NoFault, FilingSlice!SetCredential, FilingSlice!Active,
        FilingSlice!ApproveFiling, FilingSlice!InsertFilingAttempt, FilingSlice!ApproveFails,
        FilingSlice!InsertPetition, FilingSlice!Filed, FilingSlice!File, FilingSlice!Return,
        FilingSlice!Goto, FilingSlice!Take, FilingSlice!Crash, FilingSlice!LeaseExpires,
        FilingSlice!Pending, FilingSlice!LoadStep, FilingSlice!MarkStep,
        FilingSlice!ReloadStep, FilingSlice!OpenStep, FilingSlice!ProtocolStep,
        FilingSlice!ScreenshotsStep, FilingSlice!FinalizeStep, FilingSlice!FailStep,
        FilingSlice!OnFilingEnqueued, FilingSlice!Retried, FilingSlice!Answered
  <1>3. Filing!vars = FilingSlice!vars
    BY DEF Filing!vars, FilingSlice!vars, Filing!bounds, FilingSlice!bounds
  <1>4. Filing!TypeOK <=> FilingSlice!TypeOK
    BY
       DEF Filing!TypeOK, FilingSlice!TypeOK, Filing!Status, FilingSlice!Status, Filing!Task,
           FilingSlice!Task,
           Filing!Exec, FilingSlice!Exec, Filing!Idle, FilingSlice!Idle
  <1>5. Filing!ToldTheTruth <=> FilingSlice!ToldTheTruth
    BY DEF Filing!ToldTheTruth, FilingSlice!ToldTheTruth, Filing!Live, FilingSlice!Live
  <1>6. Filing!NotRefiled <=> FilingSlice!NotRefiled
    BY DEF Filing!NotRefiled, FilingSlice!NotRefiled
  <1> QED
    BY <1>1, <1>2, <1>3, <1>4, <1>5, <1>6

\* So do CourtFetchProofs and MCWork.
LEMMA CourtIsCourt ==
    /\ Court!Init <=> CourtSlice!Init
    /\ Court!Next <=> CourtSlice!Next
    /\ Court!vars = CourtSlice!vars
    /\ Court!TypeOK <=> CourtSlice!TypeOK
    /\ Court!CursorPassesNothing <=> CourtSlice!CursorPassesNothing
    /\ Court!CourtAssumptions <=> CourtSlice!CourtAssumptions
    /\ Court!DueIsServed <=> CourtSlice!DueIsServed
  <1>1. Court!Init <=> CourtSlice!Init
    BY
       DEF Court!Init, CourtSlice!Init, Court!Idle, CourtSlice!Idle, Court!NoTask,
           CourtSlice!NoTask,
           Court!Never, CourtSlice!Never, Court!Id, CourtSlice!Id, Court!Batch, CourtSlice!Batch,
           Court!Item, CourtSlice!Item
  <1>2. Court!Next <=> CourtSlice!Next
    BY DEF
        Court!Next, Court!connectionVars, Court!rowVars, Court!portalVars, Court!bounds,
        Court!Never, Court!Batch, Court!Item, Court!Id, Court!IsBatch, Court!Idle,
        Court!Fault, Court!NoFault, Court!BeginConnect, Court!finalizeConnect,
        Court!RequestFails, Court!CourtMoves, Court!BeginObserve, Court!later,
        Court!UpsertObserved, Court!Due, Court!Serves, Court!StillToRead, Court!Relay,
        Court!Take, Court!Succeed, Court!Retry, Court!Fail, Court!Crash, Court!LeaseExpires,
        Court!Goto, Court!ReadConnection, Court!rank, Court!ListDue, Court!FetchStateItem,
        Court!ReadDue, Court!InHand, Court!NextItem, Court!FetchAutos, Court!LatestCursor,
        Court!MarkItemFetched, Court!StepEvents, Court!Finish, Court!HandlerStep,
        Court!Retried, Court!Answered, Court!NoTask, Court!Cardinality,
        CourtSlice!Next, CourtSlice!connectionVars, CourtSlice!rowVars, CourtSlice!portalVars,
        CourtSlice!bounds, CourtSlice!Never, CourtSlice!Batch, CourtSlice!Item, CourtSlice!Id,
        CourtSlice!IsBatch, CourtSlice!Idle, CourtSlice!Fault, CourtSlice!NoFault,
        CourtSlice!BeginConnect, CourtSlice!finalizeConnect, CourtSlice!RequestFails,
        CourtSlice!CourtMoves, CourtSlice!BeginObserve, CourtSlice!later,
        CourtSlice!UpsertObserved, CourtSlice!Due, CourtSlice!Serves, CourtSlice!StillToRead,
        CourtSlice!Relay, CourtSlice!Take, CourtSlice!Succeed, CourtSlice!Retry,
        CourtSlice!Fail, CourtSlice!Crash, CourtSlice!LeaseExpires, CourtSlice!Goto,
        CourtSlice!ReadConnection, CourtSlice!rank, CourtSlice!ListDue,
        CourtSlice!FetchStateItem, CourtSlice!ReadDue, CourtSlice!InHand, CourtSlice!NextItem,
        CourtSlice!FetchAutos, CourtSlice!LatestCursor, CourtSlice!MarkItemFetched,
        CourtSlice!StepEvents, CourtSlice!Finish, CourtSlice!HandlerStep, CourtSlice!Retried,
        CourtSlice!Answered, CourtSlice!NoTask, CourtSlice!Cardinality
  <1>3. Court!vars = CourtSlice!vars
    BY DEF Court!vars, CourtSlice!vars, Court!bounds, CourtSlice!bounds, Court!connectionVars,
           CourtSlice!connectionVars, Court!rowVars, CourtSlice!rowVars, Court!portalVars, CourtSlice!portalVars
  <1>4. Court!TypeOK <=> CourtSlice!TypeOK
    BY
       DEF Court!TypeOK, CourtSlice!TypeOK, Court!Idle, CourtSlice!Idle, Court!Task,
           CourtSlice!Task,
           Court!Never, CourtSlice!Never, Court!Id, CourtSlice!Id, Court!Batch, CourtSlice!Batch,
           Court!Item, CourtSlice!Item, Court!Fetcher, CourtSlice!Fetcher, Court!Caller, CourtSlice!Caller,
           Court!Items, CourtSlice!Items, Court!Status, CourtSlice!Status
  <1>5. Court!CursorPassesNothing <=> CourtSlice!CursorPassesNothing
    BY DEF Court!CursorPassesNothing, CourtSlice!CursorPassesNothing
  <1>6. Court!CourtAssumptions <=> CourtSlice!CourtAssumptions
    BY DEF Court!CourtAssumptions, CourtSlice!CourtAssumptions
  <1>7. Court!DueIsServed <=> CourtSlice!DueIsServed
    BY DEF Court!DueIsServed, CourtSlice!DueIsServed, Court!Quiet, CourtSlice!Quiet, Court!Due,
           CourtSlice!Due, Court!Live, CourtSlice!Live, Court!Idle, CourtSlice!Idle, Court!Id,
           CourtSlice!Id, Court!Batch, CourtSlice!Batch, Court!Item, CourtSlice!Item
  <1> QED
    BY <1>1, <1>2, <1>3, <1>4, <1>5, <1>6, <1>7
-----------------------------------------------------------------------------
(* The slices side by side.                                                *)

\* The slice is chosen once.
LEMMA PartStays == ASSUME [WorkNext]_workVars PROVE part' = part
  BY DEF WorkNext, workVars

\* The slice that is chosen runs by its own specification.
LEMMA WatchedRuns == WorkSpec /\ part = "watched" => Watched!Spec
  <1>1. WorkInit /\ part = "watched" => Watched!Init
    BY DEF WorkInit
  <1>2. part = "watched" /\ [WorkNext]_workVars => (part = "watched")' /\ [Watched!Next]_(Watched!vars)
    BY
       DEF WorkNext, workVars, watchedVars, Watched!vars, Watched!apiVars, Watched!rowVars,
           Watched!gapVars
  <1> QED
    BY <1>1, <1>2, PTL DEF WorkSpec, Watched!Spec

\* So does the generation.
LEMMA GenerationRuns == WorkSpec /\ part = "generation" => Generation!Spec
  <1>1. WorkInit /\ part = "generation" => Generation!Init
    BY DEF WorkInit
  <1>2. /\ part = "generation" /\ [WorkNext]_workVars
        => (part = "generation")' /\ [Generation!Next]_(Generation!vars)
    BY DEF WorkNext, workVars, generationVars, bounds, Generation!vars, Generation!bounds
  <1> QED
    BY <1>1, <1>2, PTL DEF WorkSpec, Generation!Spec

\* So does the filing.
LEMMA FilingRuns == WorkSpec /\ part = "filing" => FilingSlice!Spec
  <1>1. WorkInit /\ part = "filing" => FilingSlice!Init
    BY FilingIsFiling DEF WorkInit
  <1>2. part = "filing" /\ [WorkNext]_workVars => (part = "filing")' /\ [Filing!Next]_(Filing!vars)
    BY DEF WorkNext, workVars, filingVars, bounds, Filing!vars, Filing!bounds
  <1>3. part = "filing" /\ [WorkNext]_workVars => (part = "filing")' /\ [FilingSlice!Next]_(FilingSlice!vars)
    BY <1>2, FilingIsFiling DEF Filing!vars, FilingSlice!vars, Filing!bounds, FilingSlice!bounds
  <1> QED
    BY <1>1, <1>3, PTL DEF WorkSpec, FilingSlice!Spec

\* So does the court.
LEMMA CourtRuns == WorkSpec /\ part = "court" => CourtSlice!Spec
  <1>1. WorkInit /\ part = "court" => CourtSlice!Init
    BY CourtIsCourt DEF WorkInit
  <1>2. part = "court" /\ [WorkNext]_workVars => (part = "court")' /\ [Court!Next]_(Court!vars)
    BY DEF WorkNext, workVars, courtVars, bounds, Court!vars, Court!bounds, Court!connectionVars,
           Court!rowVars, Court!portalVars
  <1>3. part = "court" /\ [WorkNext]_workVars => (part = "court")' /\ [CourtSlice!Next]_(CourtSlice!vars)
    BY <1>2, CourtIsCourt
       DEF Court!vars, CourtSlice!vars, Court!bounds, CourtSlice!bounds, Court!connectionVars,
           CourtSlice!connectionVars, Court!rowVars, CourtSlice!rowVars, Court!portalVars, CourtSlice!portalVars
  <1> QED
    BY <1>1, <1>3, PTL DEF WorkSpec, CourtSlice!Spec

\* So do the documents.
LEMMA DocumentsRun == WorkSpec /\ part = "documents" => Spec
  <1>1. WorkInit => Init
    BY DEF WorkInit
  <1>2. part = "documents" /\ [WorkNext]_workVars => (part = "documents")' /\ [Next]_vars
    BY DEF WorkNext, workVars, documentVars, bounds, vars
  <1> QED
    BY <1>1, <1>2, PTL DEF WorkSpec, Spec

\* Instances share the assumption of TaskDelivery.
LEMMA FetchBounds == {MaxFetchRetry, MaxFaults, MaxCrashes, MaxLapses} \subseteq Nat
  BY DeliveryAssumptions, WorkAssumptions

\* Every watched OAB had its history backfill requested, whatever requests,
\* activations and re-enablings overlap (backfill.go, the per-OAB guard).
THEOREM HistoryIsKept == WorkSpec => []HistoryNotSwallowed
  <1>1. Watched!Spec => []WatchedInv
    BY WatchedInvariance
  <1>2. WatchedInv => HistoryNotSwallowed
    BY DEF WatchedInv, HistoryNotSwallowed
  <1>3. ~(part = "watched") => HistoryNotSwallowed
    BY DEF HistoryNotSwallowed
  <1>4. ~(part = "watched") /\ [WorkNext]_workVars => ~(part = "watched")'
    BY PartStays
  <1> QED
    BY <1>1, <1>2, <1>3, <1>4, WatchedRuns, PTL DEF WorkSpec

\* The downtime of an OAB that is on again is fetched or still marked, while no
\* OAB is switched off with a catch-up of it under way (backfill.go: "a failed
\* catch-up leaves the gap marked"). WatchedOAB's run of two downtimes
\* shows that the hypothesis is needed.
THEOREM GapsOfThePatientAreKept == WorkSpec /\ [][Patient]_(Watched!vars) => []NoGapForgotten
  <1>1. Watched!Spec /\ [][Patient]_(Watched!vars) => []Watched!NoGapForgotten
    BY GapsAreKept
  <1>2. Watched!NoGapForgotten => NoGapForgotten
    BY DEF NoGapForgotten
  <1>3. ~(part = "watched") => NoGapForgotten
    BY DEF NoGapForgotten
  <1>4. ~(part = "watched") /\ [WorkNext]_workVars => ~(part = "watched")'
    BY PartStays
  <1> QED
    BY <1>1, <1>2, <1>3, <1>4, WatchedRuns, PTL DEF WorkSpec

\* So it is for an OAB that is switched off once.
THEOREM GapIsKept == ASSUME MaxCycles <= 1 PROVE WorkSpec => []NoGapForgotten
  <1>1. Watched!Spec => []Watched!NoGapForgotten
    BY OneGapIsKept
  <1>2. Watched!NoGapForgotten => NoGapForgotten
    BY DEF NoGapForgotten
  <1>3. ~(part = "watched") => NoGapForgotten
    BY DEF NoGapForgotten
  <1>4. ~(part = "watched") /\ [WorkNext]_workVars => ~(part = "watched")'
    BY PartStays
  <1> QED
    BY <1>1, <1>2, <1>3, <1>4, WatchedRuns, PTL DEF WorkSpec

\* An EXTRACTING piece has a task that takes it out of that state, unless the
\* task's budget is spent or a call failed, for any number of requests, workers
\* and generations (generate.go: never "stuck in EXTRACTING forever").
THEOREM ExtractingServed == WorkSpec => []ExtractingIsServed
  <1>1. Generation!Spec => []GenerationInv
    BY GenerationInvariance
  <1>2. GenerationInv => ExtractingIsServed
    BY DEF GenerationInv, ExtractingIsServed
  <1>3. ~(part = "generation") => ExtractingIsServed
    BY DEF ExtractingIsServed
  <1>4. ~(part = "generation") /\ [WorkNext]_workVars => ~(part = "generation")'
    BY PartStays
  <1> QED
    BY <1>1, <1>2, <1>3, <1>4, GenerationRuns, PTL DEF WorkSpec

\* The petition and the events agree with what the court took (filing.go, the
\* last transaction and fail).
THEOREM FilingTellsTheTruth == WorkSpec => []ToldTheTruth
  <1>1. FilingSlice!Spec => []FilingSlice!ToldTheTruth
    BY FilingSlice!TellsTheTruth, DeliveryAssumptions DEF FilingSlice!TellsTheTruth
  <1>2. FilingSlice!ToldTheTruth => ToldTheTruth
    BY FilingIsFiling DEF ToldTheTruth
  <1>3. ~(part = "filing") => ToldTheTruth
    BY DEF ToldTheTruth
  <1>4. ~(part = "filing") /\ [WorkNext]_workVars => ~(part = "filing")'
    BY PartStays
  <1> QED
    BY <1>1, <1>2, <1>3, <1>4, FilingRuns, PTL DEF WorkSpec

\* A redelivery files nothing again (filing.go: outside ENFILEIRADO it is a
\* no-op).
THEOREM RedeliveryFilesNothing == WorkSpec => []NotRefiled
  <1>1. FilingSlice!Spec => []FilingSlice!NotRefiled
    BY FilingSlice!FilesOnce, DeliveryAssumptions DEF FilingSlice!FilesOnce
  <1>2. FilingSlice!NotRefiled => NotRefiled
    BY FilingIsFiling DEF NotRefiled
  <1>3. ~(part = "filing") => NotRefiled
    BY DEF NotRefiled
  <1>4. ~(part = "filing") /\ [WorkNext]_workVars => ~(part = "filing")'
    BY PartStays
  <1> QED
    BY <1>1, <1>2, <1>3, <1>4, FilingRuns, PTL DEF WorkSpec

\* The docket cursor passes no event a fetch has not gone through
\* (eproc_provider.go: what is older than the cursor was handled before).
THEOREM CursorStaysBehind == WorkSpec => []CursorPassesNothing
  <1>1. CourtSlice!Spec => []CourtSlice!CursorPassesNothing
    BY WorkAssumptions, CourtIsCourt, FetchBounds, CourtSlice!CursorIsBehind
       DEF CourtSlice!CursorIsBehind
  <1>2. CourtSlice!CursorPassesNothing => CursorPassesNothing
    BY CourtIsCourt DEF CursorPassesNothing
  <1>3. ~(part = "court") => CursorPassesNothing
    BY DEF CursorPassesNothing
  <1>4. ~(part = "court") /\ [WorkNext]_workVars => ~(part = "court")'
    BY PartStays
  <1> QED
    BY <1>1, <1>2, <1>3, <1>4, CourtRuns, PTL DEF WorkSpec

\* A record that is due while nothing is coming was left behind in one of the
\* ways the code has (events.go, the stable ids; domain.go, FetchAutosBatch).
THEOREM WhatIsDueIsServed == WorkSpec => []DueIsServed
  <1>1. CourtSlice!Spec => []CourtSlice!DueIsServed
    BY WorkAssumptions, CourtIsCourt, FetchBounds, CourtSlice!NothingDueIsDropped
       DEF CourtSlice!NothingDueIsDropped
  <1>2. CourtSlice!DueIsServed => DueIsServed
    BY CourtIsCourt DEF DueIsServed
  <1>3. ~(part = "court") => DueIsServed
    BY DEF DueIsServed
  <1>4. ~(part = "court") /\ [WorkNext]_workVars => ~(part = "court")'
    BY PartStays
  <1> QED
    BY <1>1, <1>2, <1>3, <1>4, CourtRuns, PTL DEF WorkSpec

\* Every variable of the slice that runs holds what its column, queue or
\* handler can, whatever overlaps or fails.
THEOREM PartsAreTyped == WorkSpec => []PartsTyped
  <1>1. WorkSpec => [](part = "documents" => TypeOK)
    <2>1. Spec => []TypeOK
      BY TypeCorrect
    <2>3. ~(part = "documents") /\ [WorkNext]_workVars => ~(part = "documents")'
      BY PartStays
    <2> QED
      BY <2>1, <2>3, DocumentsRun, PTL DEF WorkSpec
  <1>2. WorkSpec => [](part = "watched" => Watched!TypeOK)
    <2>1. Watched!Spec => []WatchedInv
      BY WatchedInvariance
    <2>2. WatchedInv => Watched!TypeOK
      BY DEF WatchedInv
    <2>3. ~(part = "watched") /\ [WorkNext]_workVars => ~(part = "watched")'
      BY PartStays
    <2> QED
      BY <2>1, <2>2, <2>3, WatchedRuns, PTL DEF WorkSpec
  <1>3. WorkSpec => [](part = "generation" => Generation!TypeOK)
    <2>1. Generation!Spec => []GenerationInv
      BY GenerationInvariance
    <2>2. GenerationInv => Generation!TypeOK
      BY DEF GenerationInv
    <2>3. ~(part = "generation") /\ [WorkNext]_workVars => ~(part = "generation")'
      BY PartStays
    <2> QED
      BY <2>1, <2>2, <2>3, GenerationRuns, PTL DEF WorkSpec
  <1>4. WorkSpec => [](part = "filing" => Filing!TypeOK)
    <2>1. FilingSlice!Spec => []FilingSlice!TypeOK
      BY FilingSlice!TypeCorrect, DeliveryAssumptions DEF FilingSlice!TypeCorrect
    <2>2. FilingSlice!TypeOK => Filing!TypeOK
      BY FilingIsFiling
    <2>3. ~(part = "filing") /\ [WorkNext]_workVars => ~(part = "filing")'
      BY PartStays
    <2> QED
      BY <2>1, <2>2, <2>3, FilingRuns, PTL DEF WorkSpec
  <1>5. WorkSpec => [](part = "court" => Court!TypeOK)
    <2>1. CourtSlice!Spec => []CourtSlice!TypeOK
      BY WorkAssumptions, CourtIsCourt, FetchBounds, CourtSlice!TypeCorrect
         DEF CourtSlice!TypeCorrect
    <2>2. CourtSlice!TypeOK => Court!TypeOK
      BY CourtIsCourt
    <2>3. ~(part = "court") /\ [WorkNext]_workVars => ~(part = "court")'
      BY PartStays
    <2> QED
      BY <2>1, <2>2, <2>3, CourtRuns, PTL DEF WorkSpec
  <1> QED
    BY <1>1, <1>2, <1>3, <1>4, <1>5, PTL DEF PartsTyped
=============================================================================
